---------------------------- MODULE ListenerProofs ----------------------------
(***************************************************************************)
(* Proofs about Listener for any links, any number of transfers and of     *)
(* starts: Server.inflight is exact, the address shown is served, which    *)
(* issued links can be without a listener, and when auto-off turns vaultd  *)
(* off.                                                                    *)
(*                                                                         *)
(* IssuedLinkServed is not inductive: what closes the listener is an       *)
(* answer that AskActive gave some steps earlier.  Missing says what that  *)
(* answer is still worth while somebody stands on it.                      *)
(***************************************************************************)
EXTENDS MCListener, FiniteSetTheorems, TLAPS

Cleared == {c \in Closers : closer[c] = "cleared"}

(* Server.inflight counts the transfers past the drive check. *)
InflightExact == inflight = Cardinality(Working)

(* The one Stop that has a socket to shut down. *)
OneStop ==
  /\ open => bound
  /\ IF bound /\ ~open THEN \E c \in Closers : Cleared = {c} ELSE Cleared = {}

(* Until vaultd is about to end: while somebody is about to stop the       *)
(* listener because no link is active, every link that is active came up   *)
(* after the question; and while there is no listener, every issued one    *)
(* did, or is older than the process.                                      *)
Missing ==
  on /\ ending = "no" =>
        /\ Closing => Active \subseteq missed
        /\ ~open => \A l \in Active : creator[l] = "issued" => l \in missed

(* A transfer belongs to a link from its lookup on. *)
Linked == \A t \in Transfers : transfer[t].pc # "none" => transfer[t].link \in Links

IInv == TypeOK /\ Linked /\ InflightExact /\ OneStop /\ Missing

-------------------------------------------------------------------------------

(* What the statements of the store do to the row of a link: it stays a    *)
(* row, and only Release can make an inactive one active.                  *)
LEMMA RowFacts ==
  ASSUME NEW s \in Session
  PROVE  /\ Reserved(s) \in Session /\ (IsActive(Reserved(s)) => IsActive(s))
         /\ Released(s) \in Session /\ (IsActive(Released(s)) => IsActive(s) \/ UsedUp(s))
         /\ Stopped(s) \in Session /\ ~IsActive(Stopped(s))
         /\ Pruned(s) \in Session /\ ~IsActive(Pruned(s))
         /\ [s EXCEPT !.expired = TRUE] \in Session /\ ~IsActive([s EXCEPT !.expired = TRUE])
<1>1. Reserved(s) \in Session /\ (IsActive(Reserved(s)) => IsActive(s))
  <2>1. s.files + 1 \in Nat /\ (s.files >= s.maxFiles => s.files + 1 >= s.maxFiles)
    BY DEF Session
  <2>2. QED  BY <2>1 DEF Session, Reserved, IsActive, UsedUp
<1>2. Released(s) \in Session /\ (IsActive(Released(s)) => IsActive(s) \/ UsedUp(s))
  <2>1. (IF s.files > 0 THEN s.files - 1 ELSE 0) \in Nat  BY DEF Session
  <2>2. QED  BY <2>1 DEF Session, Released, IsActive, UsedUp
<1>3. Stopped(s) \in Session /\ ~IsActive(Stopped(s))  BY DEF Session, Stopped, IsActive
<1>4. Pruned(s) \in Session /\ ~IsActive(Pruned(s))  BY DEF Session, Pruned, IsActive
<1>5. [s EXCEPT !.expired = TRUE] \in Session /\ ~IsActive([s EXCEPT !.expired = TRUE])
  BY DEF Session, IsActive
<1>6. QED  BY <1>1, <1>2, <1>3, <1>4, <1>5

LEMMA NewRow ==
  /\ NoSession \in Session /\ ~IsActive(NoSession)
  /\ NewSession(MaxFiles, 2 * MaxFiles) \in Session
<1>1. 2 * MaxFiles \in Nat /\ MaxFiles \in Nat  BY ListenerAssumption
<1>2. QED  BY <1>1 DEF NoSession, NewSession, Session, IsActive

(* A transfer more or less changes the number of those in flight by one.   *)
LEMMA Counting ==
  ASSUME NEW S \in SUBSET Transfers
  PROVE  /\ Cardinality(S) \in Nat
         /\ \A t \in Transfers : t \notin S => Cardinality(S \cup {t}) = Cardinality(S) + 1
         /\ \A t \in Transfers : t \in S => /\ Cardinality(S \ {t}) = Cardinality(S) - 1
                                            /\ Cardinality(S) > 0
<1>1. IsFiniteSet(S)  BY FS_Subset, ListenerAssumption
<1>2. Cardinality(S) \in Nat  BY <1>1, FS_CardinalityType
<1>3. \A t \in Transfers : t \notin S => Cardinality(S \cup {t}) = Cardinality(S) + 1
  BY <1>1, FS_AddElement
<1>4. ASSUME NEW t \in Transfers, t \in S
      PROVE  Cardinality(S \ {t}) = Cardinality(S) - 1 /\ Cardinality(S) > 0
  <2>1. Cardinality(S \ {t}) = Cardinality(S) - 1  BY <1>1, <1>4, FS_RemoveElement
  <2>2. Cardinality(S) # 0  BY <1>1, <1>4, FS_EmptySet
  <2>3. QED  BY <1>2, <2>1, <2>2
<1>5. QED  BY <1>2, <1>3, <1>4

LEMMA InitInv == Init => IInv
<1> SUFFICES ASSUME Init PROVE IInv
  OBVIOUS
<1>1. TypeOK
  <2>1. store \in [Links -> Session]  BY NewRow DEF Init
  <2>2. transfer \in [Transfers -> Transfer]  BY DEF Init, Fresh, Transfer, NoTransfer
  <2>3. starts \in 0 .. MaxStarts /\ inflight \in Nat
    BY ListenerAssumption DEF Init, Fresh
  <2>4. QED
    BY <2>1, <2>2, <2>3 DEF Init, Fresh, TypeOK, CreatorPCs, CloserPCs, AutoPCs, Endings
<1>2. InflightExact
  BY FS_EmptySet DEF Init, Fresh, InflightExact, Working, NoTransfer
<1>3. OneStop  BY DEF Init, Fresh, OneStop, Cleared
<1>4. Missing
  <2>1. Active = {}  BY NewRow DEF Init, Active
  <2>2. QED  BY <2>1 DEF Missing
<1>5. Linked  BY DEF Init, Fresh, Linked, NoTransfer
<1>6. QED  BY <1>1, <1>2, <1>3, <1>4, <1>5 DEF IInv

(* A step that changes the rows so that no link becomes active, and leaves *)
(* the listener, its stops and the creators alone, keeps OneStop, Missing. *)
LEMMA QuietInv ==
  ASSUME OneStop, Missing, Active' \subseteq Active,
         UNCHANGED <<on, open, bound, creator, closer, ending, missed>>
  PROVE  OneStop' /\ Missing'
BY DEF OneStop, Cleared, Missing, Closing

(* One row changes, and its link is no more active than before. *)
LEMMA RowChange ==
  ASSUME TypeOK, NEW l \in Links, NEW s \in Session, IsActive(s) => IsActive(store[l]),
         store' = [store EXCEPT ![l] = s]
  PROVE  store' \in [Links -> Session] /\ Active' \subseteq Active
BY DEF TypeOK, Active

LEMMA TransferInv ==
  ASSUME IInv, NEW t \in Transfers, TransferSteps(t) \/ \E k \in Links : Arrive(t, k)
  PROVE  IInv'
<1> DEFINE l == transfer[t].link
<1> Working \in SUBSET Transfers /\ inflight \in Nat /\ Cardinality(Working) = inflight
  BY DEF IInv, TypeOK, InflightExact, Working
<1>1. CASE (\E k \in Links : Arrive(t, k)) \/ TurnAway(t) \/ Saved(t)
  <2>1. PICK new \in Transfer :
          /\ transfer' = [transfer EXCEPT ![t] = new]
          /\ new.pc # "none" => new.link \in Links
          /\ new.pc \in {"running", "counted"} <=> transfer[t].pc \in {"running", "counted"}
    <3>1. CASE \E k \in Links : Arrive(t, k)
      <4>1. PICK k \in Links : Arrive(t, k)  BY <3>1
      <4>2. [pc |-> "found", link |-> k] \in Transfer  BY DEF Transfer
      <4>3. QED  BY <4>1, <4>2 DEF Arrive
    <3>2. CASE TurnAway(t)
      <4>1. NoTransfer \in Transfer /\ NoTransfer.pc = "none"  BY DEF Transfer, NoTransfer
      <4>2. QED  BY <3>2, <4>1 DEF TurnAway
    <3>3. CASE Saved(t)
      <4>1. [transfer[t] EXCEPT !.pc = "running"] \in Transfer
        BY DEF IInv, TypeOK, Transfer
      <4>2. transfer' = [transfer EXCEPT ![t] = [transfer[t] EXCEPT !.pc = "running"]]
        BY <3>3 DEF Saved
      <4>3. QED  BY <3>3, <4>1, <4>2 DEF IInv, TypeOK, Linked, Transfer, Saved
    <3>4. QED  BY <1>1, <3>1, <3>2, <3>3
  <2>2. /\ UNCHANGED <<store, inflight, on, open, bound, creator, closer, auto, recent, ending, missed, starts>>
        /\ Active' = Active
    BY <1>1 DEF Arrive, TurnAway, Saved, Active, history
  <2>3. TypeOK' /\ Linked'  BY <2>1, <2>2 DEF IInv, TypeOK, Linked
  <2>4. Working' = Working  BY <2>1 DEF IInv, TypeOK, Working
  <2>5. InflightExact'  BY <2>2, <2>4 DEF IInv, InflightExact
  <2>6. QED  BY <2>2, <2>3, <2>5, QuietInv DEF IInv
<1>2. CASE Begin(t)
  <2>1. TypeOK' /\ Linked'  BY <1>2 DEF IInv, Begin, TypeOK, Linked, Transfer, history
  <2>2. t \notin Working /\ Working' = Working \cup {t}
    BY <1>2 DEF IInv, Begin, TypeOK, Working
  <2>3. Active' = Active /\ UNCHANGED <<on, open, bound, creator, closer, ending, missed>>
    BY <1>2 DEF Begin, Active, history
  <2>4. InflightExact'  BY <1>2, <2>2, Counting DEF Begin, InflightExact
  <2>5. QED  BY <2>1, <2>3, <2>4, QuietInv DEF IInv
<1>3. CASE Reserve(t)
  <2>1. l \in Links /\ store[l] \in Session  BY <1>3 DEF IInv, Reserve, TypeOK, Linked
  <2>2. store' \in [Links -> Session] /\ Active' \subseteq Active
    BY <1>3, <2>1, RowFacts, RowChange DEF IInv, Reserve
  <2>3. TypeOK' /\ Linked'
    BY <1>3, <2>2 DEF IInv, Reserve, TypeOK, Linked, Transfer, history
  <2>4. Working' = Working  BY <1>3 DEF IInv, Reserve, TypeOK, Working
  <2>5. InflightExact'  BY <1>3, <2>4 DEF IInv, Reserve, InflightExact
  <2>6. QED  BY <1>3, <2>2, <2>3, <2>5, QuietInv DEF IInv, Reserve, history
<1>4. ASSUME EndTransfer(t) \/ Release(t)
      PROVE  InflightExact' /\ inflight' \in Nat
  <2>1. t \in Working /\ Working' = Working \ {t}
    BY <1>4 DEF IInv, EndTransfer, Release, TypeOK, Working, NoTransfer
  <2>2. inflight' = inflight - 1  BY <1>4 DEF EndTransfer, Release
  <2>3. QED  BY <2>1, <2>2, Counting DEF InflightExact
<1>5. CASE EndTransfer(t)
  <2>1. TypeOK' /\ Linked'
    BY <1>4, <1>5 DEF IInv, EndTransfer, TypeOK, Linked, Transfer, NoTransfer, history
  <2>2. Active' = Active /\ UNCHANGED <<on, open, bound, creator, closer, ending, missed>>
    BY <1>5 DEF EndTransfer, Active, history
  <2>3. QED  BY <1>4, <1>5, <2>1, <2>2, QuietInv DEF IInv
<1>6. CASE Release(t)
  <2>1. l \in Links /\ store[l] \in Session  BY <1>6 DEF IInv, Release, TypeOK, Linked
  <2>2. store' = [store EXCEPT ![l] = Released(store[l])] /\ Released(store[l]) \in Session
    BY <1>6, <2>1, RowFacts DEF IInv, TypeOK, Release
  <2>3. Active' \subseteq Active \cup {l} /\ (UsedUp(store[l]) \/ Active' \subseteq Active)
    BY <2>1, <2>2, RowFacts DEF IInv, TypeOK, Active
  <2>4. missed' = IF UsedUp(store[l]) THEN missed \cup {l} ELSE missed  BY <1>6 DEF Release
  <2>5. UNCHANGED <<on, open, bound, creator, closer, ending>>  BY <1>6 DEF Release
  <2>6. OneStop' /\ Missing'
    BY <2>3, <2>4, <2>5 DEF IInv, OneStop, Cleared, Missing, Closing
  <2>7. TypeOK' /\ Linked'
    BY <1>4, <1>6, <2>1, <2>2, <2>4 DEF IInv, Release, TypeOK, Linked, Transfer, NoTransfer
  <2>8. QED  BY <1>4, <1>6, <2>6, <2>7 DEF IInv
<1>7. QED  BY <1>1, <1>2, <1>3, <1>5, <1>6 DEF TransferSteps

(* The questions and steps of StopIfIdle and Stop, and the ticker's call.  *)
LEMMA CloserInv ==
  ASSUME IInv, NEW c \in Closers, CloseSteps(c) \/ (c = Ticker /\ Tick)
  PROVE  IInv'
<1>1. UNCHANGED <<store, on, inflight, transfer, creator, auto, recent, ending, missed, starts>>
  BY DEF CloseSteps, Tick, AskInflight, AskActive, Clear, Shutdown, CloserGoto, history
<1>2. InflightExact' /\ Linked' /\ Active' = Active
  BY <1>1 DEF IInv, InflightExact, Working, Linked, Active
<1>3. TypeOK'
  BY <1>1 DEF IInv, TypeOK, CloseSteps, Tick, AskInflight, AskActive, Clear, Shutdown, CloserGoto, CloserPCs
<1>4. CASE AskInflight(c) \/ (c = Ticker /\ Tick)
  <2>1. /\ UNCHANGED <<open, bound>>
        /\ \E pc \in {"out", "quiet", "called"} : closer' = [closer EXCEPT ![c] = pc]
        /\ closer[c] # "cleared"
    BY <1>4 DEF AskInflight, Tick, CloserGoto
  <2>2. Cleared' = Cleared /\ (Closing' => Closing)
    BY <2>1 DEF IInv, TypeOK, Cleared, Closing
  <2>3. OneStop' /\ Missing'
    BY <1>1, <1>2, <2>1, <2>2 DEF IInv, OneStop, Missing
  <2>4. QED  BY <1>2, <1>3, <2>3 DEF IInv
<1>5. CASE AskActive(c)
  <2>1. PICK pc \in {"out", "unused"} : /\ closer' = [closer EXCEPT ![c] = pc]
                                        /\ pc = "unused" => Active = {}
                                        /\ closer[c] = "quiet"
                                        /\ UNCHANGED <<open, bound>>
    BY <1>5 DEF AskActive, CloserGoto
  <2>2. Cleared' = Cleared
    BY <2>1 DEF IInv, TypeOK, Cleared
  <2>3. Closing' => Closing \/ Active = {}
    <3>1. ASSUME NEW d \in Closers, closer'[d] = "unused", d # c  PROVE closer[d] = "unused"
      BY <2>1, <3>1 DEF IInv, TypeOK
    <3>2. closer'[c] = pc  BY <2>1 DEF IInv, TypeOK
    <3>3. QED  BY <2>1, <3>1, <3>2 DEF Closing
  <2>4. OneStop' /\ Missing'
    BY <1>1, <1>2, <2>1, <2>2, <2>3 DEF IInv, OneStop, Missing
  <2>5. QED  BY <1>2, <1>3, <2>4 DEF IInv
<1>6. CASE Clear(c)
  <2>1. /\ closer[c] = "unused" /\ open' = FALSE /\ bound' = bound
        /\ closer' = [closer EXCEPT ![c] = IF open THEN "cleared" ELSE "out"]
    BY <1>6 DEF Clear, CloserGoto
  <2>2. Closing /\ (on /\ ending = "no" => Active \subseteq missed)
    BY <2>1 DEF IInv, Missing, Closing
  <2>3. Missing'
    BY <1>1, <1>2, <2>2 DEF Missing
  <2>4. Cleared' = IF open THEN Cleared \cup {c} ELSE Cleared
    BY <2>1 DEF IInv, TypeOK, Cleared
  <2>5. OneStop'
    BY <2>1, <2>4 DEF IInv, OneStop
  <2>6. QED  BY <1>2, <1>3, <2>3, <2>5 DEF IInv
<1>7. CASE Shutdown(c)
  <2>1. /\ closer[c] = "cleared" /\ open' = open /\ bound' = FALSE
        /\ closer' = [closer EXCEPT ![c] = "out"]
    BY <1>7 DEF Shutdown, CloserGoto
  <2>2. c \in Cleared /\ Cleared' = Cleared \ {c}
    BY <2>1 DEF IInv, TypeOK, Cleared
  <2>3. Cleared = {c} /\ ~open
    BY <2>2 DEF IInv, OneStop
  <2>4. OneStop'  BY <2>1, <2>2, <2>3 DEF OneStop
  <2>5. Missing'
    BY <1>1, <1>2, <2>1 DEF IInv, TypeOK, Missing, Closing
  <2>6. QED  BY <1>2, <1>3, <2>4, <2>5 DEF IInv
<1>8. QED  BY <1>4, <1>5, <1>6, <1>7 DEF CloseSteps

(* The handlers that create and stop a link, and its expiry. *)
LEMMA LinkInv ==
  ASSUME IInv, NEW l \in Links, Create(l) \/ CreateSteps(l) \/ StopLink(l) \/ Expire(l)
  PROVE  IInv'
<1>1. UNCHANGED <<on, inflight, transfer, auto, ending, starts>>
  BY DEF Create, CreateSteps, Ensure, EnsureFails, RevokeFailed, StopLink, Expire, history, process
<1>2. InflightExact' /\ Linked'
  BY <1>1 DEF IInv, InflightExact, Working, Linked
<1>3. store[l] \in Session  BY DEF IInv, TypeOK
<1>4. CASE RevokeFailed(l) \/ Expire(l) \/ EnsureFails(l)
  <2>1. store' \in [Links -> Session] /\ Active' \subseteq Active
    <3>1. CASE store' = store  BY <3>1 DEF IInv, TypeOK, Active
    <3>2. CASE store' = [store EXCEPT ![l] = Stopped(store[l])]
      BY <1>3, <3>2, RowFacts, RowChange DEF IInv
    <3>3. CASE store' = [store EXCEPT ![l] = [store[l] EXCEPT !.expired = TRUE]]
      BY <1>3, <3>3, RowFacts, RowChange DEF IInv
    <3>4. QED
      BY <1>3, <1>4, <3>1, <3>2, <3>3 DEF RevokeFailed, Expire, EnsureFails, IInv, TypeOK, Session
  <2>2. /\ UNCHANGED <<open, bound, closer, missed, recent>>
        /\ \/ creator' = creator
           \/ \E pc \in {"failed", "over"} : creator' = [creator EXCEPT ![l] = pc]
    BY <1>4 DEF RevokeFailed, Expire, EnsureFails, history, process
  <2>3. TypeOK'
    BY <1>1, <2>1, <2>2 DEF IInv, TypeOK, CreatorPCs
  <2>4. \A k \in Links : creator'[k] = "issued" => creator[k] = "issued"
    BY <2>2 DEF IInv, TypeOK
  <2>5. Closing' = Closing /\ Cleared' = Cleared
    BY <2>2 DEF Closing, Cleared
  <2>6. Active \subseteq Links  BY DEF Active
  <2>7. OneStop' /\ Missing'
    BY <1>1, <2>1, <2>2, <2>4, <2>5, <2>6 DEF IInv, OneStop, Missing
  <2>8. QED  BY <1>2, <2>3, <2>7 DEF IInv
<1>5. CASE Create(l)
  <2>1. /\ UNCHANGED <<open, bound, closer>>
        /\ store' = [store EXCEPT ![l] = NewSession(MaxFiles, 2 * MaxFiles)]
        /\ creator' = [creator EXCEPT ![l] = "created"]
        /\ recent' = TRUE
        /\ missed' = IF Closing THEN missed \cup {l} ELSE missed
    BY <1>5 DEF Create
  <2>2. TypeOK'
    BY <1>1, <2>1, NewRow DEF IInv, TypeOK, CreatorPCs
  <2>3. Active' \subseteq Active \cup {l} /\ Closing' = Closing /\ Cleared' = Cleared
    BY <2>1 DEF IInv, TypeOK, Active, Closing, Cleared
  <2>4. OneStop' /\ Missing'
    BY <1>1, <2>1, <2>3 DEF IInv, TypeOK, OneStop, Missing
  <2>5. QED  BY <1>2, <2>2, <2>4 DEF IInv
<1>6. CASE Ensure(l)
  <2>1. /\ UNCHANGED <<store, closer, recent>>
        /\ open \/ ~bound
        /\ open' = TRUE /\ bound' = TRUE
        /\ creator' = [creator EXCEPT ![l] = "issued"]
        /\ missed' = IF Closing THEN missed ELSE {}
    BY <1>6 DEF Ensure
  <2>2. TypeOK'  BY <1>1, <2>1 DEF IInv, TypeOK, CreatorPCs
  <2>3. Active' = Active /\ Closing' = Closing /\ Cleared' = Cleared
    BY <2>1 DEF Active, Closing, Cleared
  <2>4. OneStop' /\ Missing'
    BY <1>1, <2>1, <2>3 DEF IInv, OneStop, Missing
  <2>5. QED  BY <1>2, <2>2, <2>4 DEF IInv
<1>7. CASE StopLink(l)
  <2>1. /\ UNCHANGED <<open, bound, creator, missed>>
        /\ closer[l] = "out" /\ closer' = [closer EXCEPT ![l] = "called"]
        /\ store' = [store EXCEPT ![l] = Stopped(store[l])]
        /\ recent' = TRUE
    BY <1>7 DEF StopLink, history
  <2>2. store' \in [Links -> Session] /\ Active' \subseteq Active
    BY <1>3, <2>1, RowFacts, RowChange DEF IInv
  <2>3. TypeOK'  BY <1>1, <2>1, <2>2 DEF IInv, TypeOK, CloserPCs
  <2>4. (Closing' => Closing) /\ Cleared' = Cleared
    BY <2>1 DEF IInv, TypeOK, Closing, Cleared
  <2>5. OneStop' /\ Missing'
    BY <1>1, <2>1, <2>2, <2>4 DEF IInv, OneStop, Missing
  <2>6. QED  BY <1>2, <2>3, <2>5 DEF IInv
<1>8. QED  BY <1>4, <1>5, <1>6, <1>7 DEF CreateSteps

(* Auto-off asks, vaultd ends and starts. *)
LEMMA PowerInv ==
  ASSUME IInv, GrowIdle \/ AutoSteps \/ PowerOff \/ LastStop \/ Off \/ Start
  PROVE  IInv'
<1>1. CASE GrowIdle \/ AutoAskUse \/ AutoAskInflight \/ AutoAskActive \/ Cancel
  <2>1. /\ UNCHANGED <<store, on, open, bound, inflight, transfer, creator, closer, missed, starts>>
        /\ ending' = "no" => ending = "no"
    BY <1>1 DEF GrowIdle, AutoAskUse, AutoAskInflight, AutoAskActive, Cancel, AutoGoto, history
  <2>2. TypeOK'
    BY <1>1, <2>1 DEF IInv, TypeOK, GrowIdle, AutoAskUse, AutoAskInflight, AutoAskActive, Cancel,
                      AutoGoto, AutoPCs, Endings
  <2>3. QED
    BY <2>1, <2>2 DEF IInv, Linked, InflightExact, Working, OneStop, Cleared, Missing, Closing, Active
<1>2. CASE LastStop
  <2>1. /\ closer[Ticker] = "out" /\ closer' = [closer EXCEPT ![Ticker] = "unused"]
        /\ ending' = "left"
        /\ UNCHANGED <<store, on, open, bound, inflight, transfer, creator, auto, recent, missed, starts>>
    BY <1>2 DEF LastStop, history
  <2>2. TypeOK'  BY <2>1 DEF IInv, TypeOK, CloserPCs, Endings
  <2>3. Cleared' = Cleared  BY <2>1 DEF IInv, TypeOK, Cleared
  <2>4. QED
    BY <2>1, <2>2, <2>3 DEF IInv, Linked, InflightExact, Working, OneStop, Missing
<1>3. CASE Off
  <2>1. TypeOK'
    BY <1>3 DEF Off, IInv, TypeOK, NoTransfer, Transfer, CreatorPCs, CloserPCs, AutoPCs, Endings, history
  <2>2. InflightExact'
    <3>1. Working' = {}  BY <1>3 DEF Off, Working, NoTransfer
    <3>2. QED  BY <1>3, <3>1, FS_EmptySet DEF Off, InflightExact
  <2>3. QED
    BY <1>3, <2>1, <2>2 DEF Off, IInv, Linked, NoTransfer, OneStop, Cleared, Missing
<1>4. CASE Start
  <2>1. PICK old \in SUBSET {l \in Links : store[l].exists /\ store[l].expired} :
          store' = [l \in Links |-> IF l \in old THEN Pruned(store[l]) ELSE store[l]]
    BY <1>4 DEF Start
  <2>2. store' \in [Links -> Session] /\ Active' \subseteq {l \in Links : store[l].exists}
    BY <2>1, RowFacts DEF IInv, TypeOK, Active, IsActive
  <2>3. starts' \in 0 .. MaxStarts
    BY <1>4, ListenerAssumption DEF Start, IInv, TypeOK
  <2>4. TypeOK'
    BY <1>4, <2>2, <2>3 DEF Start, process, IInv, TypeOK
  <2>5. Missing'
    BY <1>4, <2>2 DEF Start, Missing
  <2>6. QED
    BY <1>4, <2>4, <2>5 DEF Start, process, IInv, Linked, InflightExact, Working, OneStop, Cleared
<1>5. QED  BY <1>1, <1>2, <1>3, <1>4 DEF AutoSteps, AutoOff, PowerOff

LEMMA NextInv == IInv /\ [Next]_vars => IInv'
<1> SUFFICES ASSUME IInv, [Next]_vars PROVE IInv'
  OBVIOUS
<1>1. CASE UNCHANGED vars
  BY <1>1 DEF vars, process, history, IInv, TypeOK, Linked, InflightExact, Working, OneStop, Cleared,
              Missing, Closing, Active
<1>2. CASE Next
  <2>1. Ticker \in Closers  BY DEF Closers
  <2>2. QED  BY <1>2, <2>1, LinkInv, CloserInv, TransferInv, PowerInv DEF Next
<1>3. QED  BY <1>1, <1>2

LEMMA Invariance == Spec => []IInv
<1>1. QED  BY InitInv, NextInv, PTL DEF Spec

(* The listener and its callers stay where the code can be, for any links, *)
(* transfers and starts.                                                   *)
THEOREM TypeCorrect == Spec => []TypeOK
<1>1. IInv => TypeOK  BY DEF IInv
<1>2. QED  BY <1>1, Invariance, PTL

(* Server.inflight, which StopIfIdle and auto-off ask for, is the number   *)
(* of transfers in progress (receive, send).                               *)
THEOREM BusyExact == Spec => []InflightExact
<1>1. IInv => InflightExact  BY DEF IInv
<1>2. QED  BY <1>1, Invariance, PTL

(* The address shown is served, and one Stop at a time has a socket.       *)
THEOREM AddressServed == Spec => []AddressIsServed
<1>1. IInv => AddressIsServed
  <2> SUFFICES ASSUME IInv PROVE AddressIsServed
    OBVIOUS
  <2>1. {c \in Closers : closer[c] = "cleared"} = Cleared  BY DEF Cleared
  <2>2. CASE bound /\ ~open
    <3>1. PICK c \in Closers : Cleared = {c}  BY <2>2 DEF IInv, OneStop
    <3>2. Cardinality(Cleared) = 1  BY <3>1, FS_Singleton
    <3>3. QED  BY <2>1, <2>2, <3>2 DEF AddressIsServed
  <2>3. CASE ~(bound /\ ~open)
    <3>1. Cleared = {}  BY <2>3 DEF IInv, OneStop
    <3>2. Cardinality(Cleared) = 0  BY <3>1, FS_EmptySet
    <3>3. QED  BY <2>1, <2>3, <3>2 DEF AddressIsServed, IInv, OneStop
  <2>4. QED  BY <2>2, <2>3
<1>2. QED  BY <1>1, Invariance, PTL

(* A link whose QR code was shown is served, but for those that came up    *)
(* while StopIfIdle was on its way to Stop and those of before the start,  *)
(* as long as vaultd is not about to end.                                  *)
THEOREM IssuedServed == Spec => []IssuedLinkServed
<1>1. IInv => IssuedLinkServed  BY DEF IInv, OneStop, Missing, IssuedLinkServed
<1>2. QED  BY <1>1, Invariance, PTL

-------------------------------------------------------------------------------

(* What the answers that auto-off has so far are worth while nothing that *)
(* began since it started to ask could make them wrong.                   *)
Unwatched ==
  auto # "waiting" /\ ~disturbed =>
    /\ ~recent
    /\ auto \in {"quiet", "decided"} => Working = {}
    /\ auto = "decided" => Active = {}

(* Only auto-off's own steps and the end of vaultd move auto-off. *)
LEMMA AutoMoves ==
  ASSUME Next
  PROVE  \/ auto' = auto
         \/ auto' = "waiting"
         \/ AutoAskUse /\ auto' = "unwatched"
         \/ AutoAskInflight /\ auto' = "quiet"
         \/ AutoAskActive /\ auto' = "decided"
<1>1. ASSUME NEW l \in Links, Create(l) \/ CreateSteps(l) \/ StopLink(l) \/ Expire(l)
      PROVE  auto' = auto
  BY <1>1 DEF Create, CreateSteps, Ensure, EnsureFails, RevokeFailed, StopLink, Expire, process
<1>2. ASSUME NEW c \in Closers, CloseSteps(c)
      PROVE  auto' = auto
  BY <1>2 DEF CloseSteps, AskInflight, AskActive, Clear, Shutdown, CloserGoto
<1>3. ASSUME NEW t \in Transfers, TransferSteps(t) \/ \E l \in Links : Arrive(t, l)
      PROVE  auto' = auto
  BY <1>3 DEF TransferSteps, Begin, Reserve, Saved, Release, EndTransfer, TurnAway, Arrive
<1>4. CASE Tick \/ GrowIdle \/ LastStop \/ Start
  BY <1>4 DEF Tick, GrowIdle, LastStop, Start, process
<1>5. CASE PowerOff \/ AutoOff \/ Off
  BY <1>5 DEF PowerOff, AutoOff, Cancel, Off
<1>6. CASE AutoAskUse \/ AutoAskInflight \/ AutoAskActive
  BY <1>6 DEF AutoAskUse, AutoAskInflight, AutoAskActive, AutoGoto
<1>7. QED  BY <1>1, <1>2, <1>3, <1>4, <1>5, <1>6 DEF Next, AutoSteps

LEMMA UnwatchedStep ==
  ASSUME IInv, Unwatched, MCNext
  PROVE  Unwatched'
<1> SUFFICES ASSUME auto' # "waiting", ~disturbed'
             PROVE  /\ recent' = FALSE
                    /\ auto' \in {"quiet", "decided"} => Working' = {}
                    /\ auto' = "decided" => Active' = {}
  BY DEF Unwatched
<1>1. /\ ~disturbed /\ Active' \subseteq Active /\ Working' \subseteq Working
      /\ recent' \in BOOLEAN /\ ~(recent' /\ ~recent)
  BY NextInv DEF MCNext, Stirred, IInv, TypeOK
<1>2. CASE auto' = auto
  BY <1>1, <1>2 DEF Unwatched
<1>3. CASE AutoAskUse /\ auto' = "unwatched"
  BY <1>1, <1>3 DEF AutoAskUse
<1>4. CASE AutoAskInflight /\ auto' = "quiet"
  <2>1. auto = "unwatched" /\ inflight = 0
    BY <1>4 DEF AutoAskInflight, AutoGoto, IInv, TypeOK
  <2>2. Working = {}
    <3>1. Working \in SUBSET Transfers /\ Cardinality(Working) = 0
      BY <2>1 DEF IInv, InflightExact, Working
    <3>2. IsFiniteSet(Working)  BY <3>1, FS_Subset, ListenerAssumption
    <3>3. QED  BY <3>1, <3>2, FS_EmptySet
  <2>3. QED  BY <1>1, <1>4, <2>1, <2>2 DEF Unwatched
<1>5. CASE AutoAskActive /\ auto' = "decided"
  BY <1>1, <1>5 DEF AutoAskActive, AutoGoto, Unwatched
<1>6. QED  BY <1>2, <1>3, <1>4, <1>5, AutoMoves DEF MCNext

LEMMA UnwatchedInvariance == MCSpec => [](IInv /\ Unwatched)
<1>1. MCInit => IInv /\ Unwatched  BY InitInv DEF MCInit, Unwatched, Init, Fresh
<1>2. IInv /\ [MCNext]_<<vars, disturbed>> => IInv'
  <2>1. [MCNext]_<<vars, disturbed>> => [Next]_vars  BY DEF MCNext
  <2>2. QED  BY <2>1, NextInv
<1>3. IInv /\ Unwatched /\ [MCNext]_<<vars, disturbed>> => Unwatched'
  <2>1. IInv /\ Unwatched /\ MCNext => Unwatched'  BY UnwatchedStep
  <2>2. Unwatched /\ UNCHANGED <<vars, disturbed>> => Unwatched'
    BY DEF Unwatched, vars, process, Working, Active
  <2>3. QED  BY <2>1, <2>2
<1>4. QED  BY <1>1, <1>2, <1>3, PTL DEF MCSpec

(* autooff.go, RunAutoOff: for any links and transfers, Vault turns itself *)
(* off only when it was not used, no link is active and no transfer is in  *)
(* progress, unless one of them came up while idle asked for the others.   *)
THEOREM OffOnlyIdle == MCSpec => OffOnlyIdleUnlessDisturbed
<1> DEFINE Idle == AutoOff => disturbed \/ (~recent /\ Active = {} /\ inflight = 0)
<1>1. IInv /\ Unwatched => Idle
  <2> SUFFICES ASSUME IInv, Unwatched, auto = "decided", ~disturbed
               PROVE  ~recent /\ Active = {} /\ inflight = 0
    BY DEF AutoOff
  <2>1. ~recent /\ Active = {} /\ Working = {}  BY DEF Unwatched
  <2>2. QED  BY <2>1, FS_EmptySet DEF IInv, InflightExact
<1>2. IInv /\ Unwatched /\ [MCNext]_<<vars, disturbed>> => [Idle]_vars  BY <1>1
<1>3. [](IInv /\ Unwatched) /\ [][MCNext]_<<vars, disturbed>> => [][Idle]_vars  BY <1>2, PTL
<1>4. QED  BY UnwatchedInvariance, <1>3, PTL DEF MCSpec, OffOnlyIdleUnlessDisturbed
===============================================================================
