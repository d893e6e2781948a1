------------------------------- MODULE MCLogin ---------------------------------
(* Instances of Login for TLC. *)
EXTENDS Login, TLC

(* What people do in one behaviour: each menu brings together the requests *)
(* that can disturb each other.                                            *)
VARIABLE menu

Menus == {
  {"login", "change", "reset", "visit"},
  {"login", "role", "visit", "logout"},
  {"login", "block", "unblock", "visit", "restart"},
  {"login", "change", "block"},
  {"login", "delete", "create"},
  {"login", "tick"},
  {"login", "setup", "enable"},
  {"login", "enable", "switchoff"},
  {"login", "enable", "delete", "create"},
  {"redeem", "logout", "tick", "restart"}}

(* Menus for accounts that have two-factor sign-in from the start. *)
SecondMenus == {m \in Menus : "login" \in m /\ m \cap {"enable", "tick"} # {} /\ "setup" \notin m}

MCInit ==
  /\ Init
  /\ menu \in Menus
  /\ \A u \in Users : acct[u].on <=> menu \in SecondMenus

MCNext ==
  /\ \/ \E r \in Reqs : Go(r) \/ \E op \in menu : Start(r, op)
     \/ "redeem" \in menu /\ \E c \in Codes : LocalLogin(c)
     \/ "tick" \in menu /\ Tick
     \/ "restart" \in menu /\ Restart
  /\ UNCHANGED menu

MCSpec == MCInit /\ [][MCNext]_<<vars, menu>>

ReqSymmetry == Permutations(Reqs)
===============================================================================
