------------------------------ MODULE LinkBudget ------------------------------
(***************************************************************************)
(* What a phone link promises, whatever its kind: it is a budget of slots. *)
(* A slot is taken before anything is transferred, turns into one counted  *)
(* transfer, is given back, or is lost; a stopped link gives out no slot.  *)
(* How many requests compete, and where they fail, is left to the modules  *)
(* that implement it.                                                      *)
(***************************************************************************)
EXTENDS Naturals

CONSTANTS
  Links,    \* links
  Slots     \* slots of each link: max_files

VARIABLES
  spent,    \* slots the link has given out and not got back
  held,     \* slots taken by a transfer that has not happened yet
  done,     \* transfers that happened
  stopped   \* links that were stopped

budgetVars == <<spent, held, done, stopped>>

BudgetTypeOK ==
  /\ spent \in [Links -> Nat]
  /\ held \in [Links -> Nat]
  /\ done \in [Links -> Nat]
  /\ stopped \in [Links -> BOOLEAN]

Init ==
  /\ spent = [l \in Links |-> 0]
  /\ held = [l \in Links |-> 0]
  /\ done = [l \in Links |-> 0]
  /\ stopped = [l \in Links |-> FALSE]

Take(l) ==
  /\ ~stopped[l] /\ spent[l] < Slots
  /\ spent' = [spent EXCEPT ![l] = @ + 1]
  /\ held' = [held EXCEPT ![l] = @ + 1]
  /\ UNCHANGED <<done, stopped>>

Complete(l) ==
  /\ held[l] > 0
  /\ held' = [held EXCEPT ![l] = @ - 1]
  /\ done' = [done EXCEPT ![l] = @ + 1]
  /\ UNCHANGED <<spent, stopped>>

GiveBack(l) ==
  /\ held[l] > 0
  /\ spent' = [spent EXCEPT ![l] = @ - 1]
  /\ held' = [held EXCEPT ![l] = @ - 1]
  /\ UNCHANGED <<done, stopped>>

(* Slots whose transfer will never happen stay spent. *)
Lose ==
  /\ held' \in [Links -> Nat]
  /\ \A l \in Links : held'[l] <= held[l]
  /\ UNCHANGED <<spent, done, stopped>>

Stop(l) ==
  /\ stopped' = [stopped EXCEPT ![l] = TRUE]
  /\ UNCHANGED <<spent, held, done>>

Next ==
  \/ \E l \in Links : Take(l) \/ Complete(l) \/ GiveBack(l) \/ Stop(l)
  \/ Lose

Spec == Init /\ [][Next]_budgetVars

(* The promise: never more transfers than slots, counting those still to   *)
(* happen.                                                                 *)
WithinBudget == \A l \in Links : done[l] + held[l] <= spent[l] /\ spent[l] <= Slots
================================================================================
