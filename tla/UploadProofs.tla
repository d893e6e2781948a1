----------------------------- MODULE UploadProofs -----------------------------
(***************************************************************************)
(* Proofs about Upload for every number of links, requests, files and      *)
(* bytes: type correctness, the exactness of Server.inflight, the          *)
(* accounting of a link's file slots, what Stop forbids, the budget it     *)
(* implements, and the limits on bytes and disk.                           *)
(*                                                                         *)
(* The inductive invariant is the conjunction IInv.  SlotAccounting alone  *)
(* is not inductive in arithmetic: Release needs the releasing request to  *)
(* be counted in Unsaved, a finite set, and the counters to be numbers.    *)
(* LimitsFixed ties a row's own limit to the constant that LinkBudget, the *)
(* abstract specification, has for it.  BytesInv, further down, says of    *)
(* the parts on their way what they may still add to a link, and TakenInv  *)
(* that the bytes on the drive are recorded, owed by a request, or missed. *)
(***************************************************************************)
EXTENDS MCUpload, FiniteSetTheorems, TLAPS

LimitsFixed == \A l \in Links : store[l].maxFiles \in {0, MaxFiles}

IInv == TypeOK /\ InflightExact /\ SlotAccounting /\ LimitsFixed

(* What the statements of the store do to a row stays a row. *)
LEMMA SessionType ==
  ASSUME NEW s \in Session
  PROVE  /\ Reserved(s) \in Session
         /\ Released(s) \in Session
         /\ Stopped(s) \in Session
         /\ Pruned(s) \in Session
         /\ [s EXCEPT !.expired = TRUE] \in Session
<1>1. Reserved(s) \in Session
  <2>1. s.files + 1 \in Nat  BY DEF Session
  <2>2. QED  BY <2>1 DEF Session, Reserved
<1>2. Released(s) \in Session
  <2>1. (IF s.files > 0 THEN s.files - 1 ELSE 0) \in Nat  BY DEF Session
  <2>2. QED  BY <2>1 DEF Session, Released
<1>3. Stopped(s) \in Session  BY DEF Session, Stopped
<1>4. Pruned(s) \in Session  BY DEF Session, Pruned
<1>5. [s EXCEPT !.expired = TRUE] \in Session  BY DEF Session
<1>6. QED  BY <1>1, <1>2, <1>3, <1>4, <1>5

(* Record keeps the row's type when the size is a number of bytes. *)
LEMMA RecordedType ==
  ASSUME NEW s \in Session, NEW n \in Nat
  PROVE  Recorded(s, n) \in Session
<1>1. s.bytes + n \in Nat  BY DEF Session
<1>2. QED  BY <1>1 DEF Session, Recorded

(* The row Create inserts, and its counters. *)
LEMMA NewSessionType ==
  /\ NoSession \in Session
  /\ NewSession(MaxFiles, MaxBytes) \in Session
  /\ NewSession(MaxFiles, MaxBytes).files = 0
  /\ NewSession(MaxFiles, MaxBytes).maxFiles = MaxFiles
BY UploadAssumption DEF NoSession, NewSession, Session

(* How many bytes a link still accepts is a number. *)
LEMMA RemainingType ==
  ASSUME NEW s \in Session
  PROVE  Remaining(s) \in Nat
BY DEF Session, Remaining

LEMMA IdleType == Idle \in Request /\ Idle.pc = "idle"
<1>1. (CHOOSE l \in Links : TRUE) \in Links  BY UploadAssumption
<1>2. QED  BY <1>1 DEF Idle, Request, PCs

(* Sets of requests are finite, and one more or one less request changes   *)
(* their size by one.                                                      *)
LEMMA Counting ==
  ASSUME NEW S \in SUBSET Reqs
  PROVE  /\ IsFiniteSet(S)
         /\ Cardinality(S) \in Nat
         /\ \A r \in Reqs : r \notin S => Cardinality(S \cup {r}) = Cardinality(S) + 1
         /\ \A r \in Reqs : r \in S => /\ Cardinality(S \ {r}) = Cardinality(S) - 1
                                       /\ Cardinality(S) > 0
<1>1. IsFiniteSet(S)  BY FS_Subset, UploadAssumption
<1>2. Cardinality(S) \in Nat  BY <1>1, FS_CardinalityType
<1>3. \A r \in Reqs : r \notin S => Cardinality(S \cup {r}) = Cardinality(S) + 1
  BY <1>1, FS_AddElement
<1>4. ASSUME NEW r \in Reqs, r \in S
      PROVE  Cardinality(S \ {r}) = Cardinality(S) - 1 /\ Cardinality(S) > 0
  <2>1. Cardinality(S \ {r}) = Cardinality(S) - 1  BY <1>1, <1>4, FS_RemoveElement
  <2>2. Cardinality(S) # 0  BY <1>1, <1>4, FS_EmptySet
  <2>3. QED  BY <1>2, <2>1, <2>2
<1>5. QED  BY <1>1, <1>2, <1>3, <1>4

-------------------------------------------------------------------------------

LEMMA InitIInv == Init => IInv
<1> SUFFICES ASSUME Init PROVE IInv  OBVIOUS
<1>1. TypeOK
  BY NewSessionType, IdleType, UploadAssumption DEF Init, TypeOK
<1>2. Working = {} /\ \A l \in Links : Unsaved(l) = {}
  BY IdleType DEF Init, Working, Unsaved
<1>3. InflightExact  BY <1>2, FS_EmptySet DEF Init, InflightExact
<1>4. SlotAccounting
  <2>1. NoSession.files = 0 /\ NoSession.maxFiles = 0  BY DEF NoSession
  <2>2. QED  BY <1>2, <2>1, FS_EmptySet DEF Init, SlotAccounting
<1>5. LimitsFixed  BY DEF Init, LimitsFixed, NoSession
<1>6. QED  BY <1>1, <1>3, <1>4, <1>5 DEF IInv

-------------------------------------------------------------------------------

(* Every step keeps the types.  The two counters that go down, inflight    *)
(* and free, need the facts beside TypeOK.                                 *)
LEMMA TypeStep ==
  ASSUME TypeOK, InflightExact, [Next]_vars
  PROVE  TypeOK'
<1> USE DEF TypeOK
<1> DEFINE Q == [Reqs -> Request]
<1>1. ASSUME NEW r \in Reqs, NEW pc \in PCs, Goto(r, pc) \/ Leave(r, pc)
      PROVE  req' \in Q
  BY <1>1 DEF Goto, Leave, Request
<1>2. ASSUME NEW r \in Reqs, r \in Working, Finish(r)
      PROVE  req' \in Q /\ inflight' \in Nat
  <2>1. inflight > 0  BY <1>2, Counting DEF InflightExact, Working
  <2>2. QED  BY <1>2, <2>1, IdleType DEF Finish
<1>3. ASSUME NEW l \in Links, CreateLink(l) \/ Revoke(l) \/ Expire(l)
      PROVE  TypeOK'
  <2>1. CASE CreateLink(l)  BY <2>1, NewSessionType DEF CreateLink
  <2>2. CASE Revoke(l)  BY <2>2, SessionType DEF Revoke
  <2>3. CASE Expire(l)
    <3>1. store' = [store EXCEPT ![l] = [store[l] EXCEPT !.expired = TRUE]]
      BY <2>3 DEF Expire
    <3>2. store' \in [Links -> Session]  BY <3>1, SessionType
    <3>3. QED  BY <2>3, <3>2 DEF Expire
  <2>4. QED  BY <1>3, <2>1, <2>2, <2>3
<1>4. ASSUME NEW r \in Reqs, NEW l \in Links, Lookup(r, l)
      PROVE  TypeOK'
  <2>1. [Idle EXCEPT !.pc = "found", !.link = l] \in Request
    BY IdleType DEF Request, PCs
  <2>2. QED  BY <1>4, <2>1 DEF Lookup, durable
<1>5. ASSUME NEW r \in Reqs, Disconnect(r)
      PROVE  TypeOK'
  BY <1>5 DEF Disconnect, durable, Request
<1>6. ASSUME NEW r \in Reqs, TurnAway(r) \/ Accept(r) \/ EndOfBody(r) \/ ReserveRefused(r)
      PROVE  TypeOK'
  <2>1. CASE TurnAway(r)  BY <2>1, IdleType DEF TurnAway, durable
  <2>2. CASE Accept(r)  BY <2>2, <1>1 DEF Accept, durable, PCs
  <2>3. CASE EndOfBody(r) \/ ReserveRefused(r)
    <3>1. r \in Working  BY <2>3 DEF EndOfBody, ReserveRefused, Working
    <3>2. QED  BY <2>3, <3>1, <1>2 DEF EndOfBody, ReserveRefused, durable
  <2>4. QED  BY <1>6, <2>1, <2>2, <2>3
<1>7. ASSUME NEW r \in Reqs, Reserve(r)
      PROVE  TypeOK'
  <2>1. req[r].link \in Links  BY DEF Request
  <2>2. store' \in [Links -> Session]  BY <1>7, <2>1, SessionType DEF Reserve
  <2>3. QED  BY <1>7, <2>2, <1>1 DEF Reserve, PCs
<1>8. ASSUME NEW r \in Reqs, Measure(r) \/ MeasureBlind(r) \/ NoRoom(r)
      PROVE  TypeOK'
  <2> DEFINE left == Remaining(store[req[r].link])
  <2>1. left \in Nat  BY RemainingType DEF Request
  <2>2. ASSUME NEW limit \in Nat, Allow(r, limit), UNCHANGED <<durable, inflight, crashes>>
        PROVE  TypeOK'
    BY <2>2 DEF Allow, durable, Request, PCs
  <2>3. CASE Measure(r)
    <3>1. free - ReserveBytes \in Nat  BY <2>3, UploadAssumption DEF Measure
    <3> DEFINE limit == IF free - ReserveBytes < left THEN free - ReserveBytes ELSE left
    <3>2. limit \in Nat  BY <2>1, <3>1
    <3>3. Allow(r, limit) /\ UNCHANGED <<durable, inflight, crashes>>
      BY <2>3 DEF Measure
    <3> HIDE DEF limit
    <3>4. QED  BY <2>2, <3>2, <3>3
  <2>4. CASE MeasureBlind(r)
    <3>1. Allow(r, left) /\ UNCHANGED <<durable, inflight, crashes>>
      BY <2>4 DEF MeasureBlind
    <3> HIDE DEF left
    <3>2. QED  BY <2>1, <2>2, <3>1
  <2>5. CASE NoRoom(r)  BY <2>5, <1>1 DEF NoRoom, durable, PCs
  <2>6. QED  BY <1>8, <2>3, <2>4, <2>5
<1>9. ASSUME NEW r \in Reqs, Write(r) \/ Copy(r) \/ CopyFails(r)
      PROVE  TypeOK'
  <2>1. req[r].wrote \in Nat /\ req[r].bytes \in Nat /\ req[r] \in Request  BY DEF Request
  <2>2. CASE Write(r)
    <3>1. [req[r] EXCEPT !.wrote = req[r].wrote + 1] \in Request  BY <2>1 DEF Request
    <3>2. req' = [req EXCEPT ![r] = [req[r] EXCEPT !.wrote = req[r].wrote + 1]]
      BY <2>2 DEF Write
    <3>3. req' \in Q  BY <3>1, <3>2
    <3>4. free' \in Nat  BY <2>2 DEF Write
    <3>5. QED  BY <2>2, <3>3, <3>4 DEF Write
  <2>3. CASE Copy(r)
    <3>1. [req[r] EXCEPT !.pc = "written", !.bytes = req[r].wrote, !.wrote = 0] \in Request
      BY <2>1 DEF Request, PCs
    <3>2. QED  BY <2>3, <3>1 DEF Copy, durable
  <2>4. CASE CopyFails(r)
    <3>1. free' \in Nat  BY <2>1, <2>4 DEF CopyFails, Discard
    <3>2. QED  BY <2>4, <3>1, <1>1 DEF CopyFails, PCs
  <2>5. QED  BY <1>9, <2>2, <2>3, <2>4
<1>10. ASSUME NEW r \in Reqs, Publish(r) \/ PublishFails(r)
       PROVE  TypeOK'
  <2>1. CASE Publish(r)
    <3>1. req[r].link \in Links /\ req[r].bytes \in Nat  BY DEF Request
    <3>2. landed' \in [Links -> Nat] /\ taken' \in [Links -> Nat]
      BY <2>1, <3>1 DEF Publish
    <3>3. QED  BY <2>1, <3>2, <1>1 DEF Publish, PCs
  <2>2. CASE PublishFails(r)
    <3>1. free' \in Nat  BY <2>2 DEF PublishFails, Discard, Request
    <3>2. QED  BY <2>2, <3>1, <1>1 DEF PublishFails, PCs
  <2>3. QED  BY <1>10, <2>1, <2>2
<1>11. ASSUME NEW r \in Reqs, Record(r) \/ RecordFails(r) \/ Release(r)
       PROVE  TypeOK'
  <2>1. req[r].link \in Links /\ req[r].bytes \in Nat  BY DEF Request
  <2>2. CASE Record(r)
    <3>1. store' \in [Links -> Session]  BY <2>1, <2>2, RecordedType DEF Record
    <3>2. QED  BY <2>2, <3>1, <1>1 DEF Record, PCs
  <2>3. CASE RecordFails(r)  BY <2>3, <1>1 DEF RecordFails, durable, PCs
  <2>4. CASE Release(r)
    <3>1. store' \in [Links -> Session]  BY <2>1, <2>4, SessionType DEF Release
    <3>2. r \in Working  BY <2>4 DEF Release, Working
    <3>3. QED  BY <2>4, <3>1, <3>2, <1>2 DEF Release
  <2>5. QED  BY <1>11, <2>2, <2>3, <2>4
<1>12. ASSUME Restart
       PROVE  TypeOK'
  <2>1. store' \in [Links -> Session]  BY <1>12, SessionType DEF Restart
  <2>2. stale' \in [Links -> Nat]
    <3>1. ASSUME NEW l \in Links PROVE Cardinality(Partial(l)) \in Nat
      BY Counting DEF Partial, Unsaved
    <3>2. QED  BY <1>12, <3>1 DEF Restart
  <2>3. crashes' \in 0 .. MaxCrashes  BY <1>12, UploadAssumption DEF Restart
  <2>4. QED  BY <1>12, <2>1, <2>2, <2>3, IdleType DEF Restart
<1>13. CASE UNCHANGED vars  BY <1>13 DEF vars, durable
<1>14. QED
  BY <1>3, <1>4, <1>5, <1>6, <1>7, <1>8, <1>9, <1>10, <1>11, <1>12, <1>13 DEF Next, Handler

-------------------------------------------------------------------------------

(* Server.inflight follows the set of requests past the drive check:       *)
(* Accept adds one request, ending a request removes it, nothing else      *)
(* moves a request in or out.                                              *)
LEMMA InflightStep ==
  ASSUME TypeOK, InflightExact, [Next]_vars
  PROVE  InflightExact'
<1> USE DEF TypeOK, InflightExact
<1>1. ASSUME Working' = Working, inflight' = inflight
      PROVE  InflightExact'
  BY <1>1
<1>2. ASSUME NEW r \in Reqs, r \in Working, Finish(r)
      PROVE  InflightExact'
  <2>1. Working' = Working \ {r}  BY <1>2, IdleType DEF Finish, Working
  <2>2. QED  BY <1>2, <2>1, Counting DEF Finish, Working
<1>3. ASSUME NEW r \in Reqs, Accept(r)
      PROVE  InflightExact'
  <2>1. r \notin Working /\ Working' = Working \cup {r}
    BY <1>3 DEF Accept, Goto, Working
  <2>2. QED  BY <1>3, <2>1, Counting DEF Accept, Working
<1>4. ASSUME NEW r \in Reqs, EndOfBody(r) \/ ReserveRefused(r) \/ Release(r)
      PROVE  InflightExact'
  <2>1. r \in Working /\ Finish(r)
    BY <1>4 DEF EndOfBody, ReserveRefused, Release, Working
  <2>2. QED  BY <2>1, <1>2
<1>5. ASSUME NEW r \in Reqs,
             \/ Reserve(r) \/ Measure(r) \/ MeasureBlind(r) \/ NoRoom(r)
             \/ Write(r) \/ Copy(r) \/ CopyFails(r)
             \/ Publish(r) \/ PublishFails(r) \/ Record(r) \/ RecordFails(r)
      PROVE  InflightExact'
  <2>1. ASSUME NEW pc \in PCs \ {"idle", "found"}, Goto(r, pc) \/ Leave(r, pc)
        PROVE  /\ req'[r].pc \notin {"idle", "found"}
               /\ \A q \in Reqs \ {r} : req'[q].pc = req[q].pc
    BY <2>1 DEF Goto, Leave, Request
  <2>2. r \in Working /\ inflight' = inflight
    BY <1>5 DEF Reserve, Measure, MeasureBlind, NoRoom, Write, Copy, CopyFails, Publish, PublishFails,
                Record, RecordFails, Working, durable
  <2>3. /\ req'[r].pc \notin {"idle", "found"}
        /\ \A q \in Reqs \ {r} : req'[q].pc = req[q].pc
    <3>1. CASE Reserve(r) \/ NoRoom(r) \/ CopyFails(r)
      BY <3>1, <2>1 DEF Reserve, NoRoom, CopyFails, PCs
    <3>2. CASE Publish(r) \/ PublishFails(r) \/ Record(r) \/ RecordFails(r)
      BY <3>2, <2>1 DEF Publish, PublishFails, Record, RecordFails, PCs
    <3>3. CASE Measure(r) \/ MeasureBlind(r)
      BY <3>3 DEF Measure, MeasureBlind, Allow, Request
    <3>4. CASE Write(r) \/ Copy(r)  BY <3>4 DEF Write, Copy, Request
    <3>5. QED  BY <1>5, <3>1, <3>2, <3>3, <3>4
  <2>4. Working' = Working  BY <2>2, <2>3 DEF Working
  <2>5. QED  BY <1>1, <2>2, <2>4
<1>6. ASSUME NEW r \in Reqs, Disconnect(r) \/ TurnAway(r)
      PROVE  InflightExact'
  <2>1. CASE Disconnect(r)
    BY <2>1, <1>1 DEF Disconnect, Working, Request
  <2>2. CASE TurnAway(r)
    BY <2>2, <1>1, IdleType DEF TurnAway, Working
  <2>3. QED  BY <1>6, <2>1, <2>2
<1>7. ASSUME NEW r \in Reqs, NEW l \in Links, Lookup(r, l)
      PROVE  InflightExact'
  <2>1. [Idle EXCEPT !.pc = "found", !.link = l].pc = "found"  BY IdleType DEF Request
  <2>2. Working' = Working /\ inflight' = inflight
    BY <1>7, <2>1 DEF Lookup, Open, Working
  <2>3. QED  BY <1>1, <2>2
<1>8. ASSUME NEW l \in Links, CreateLink(l) \/ Revoke(l) \/ Expire(l)
      PROVE  InflightExact'
  BY <1>8, <1>1 DEF CreateLink, Revoke, Expire, Working
<1>9. ASSUME Restart
      PROVE  InflightExact'
  <2>1. Working' = {}  BY <1>9, IdleType DEF Restart, Working
  <2>2. QED  BY <1>9, <2>1, FS_EmptySet DEF Restart
<1>10. CASE UNCHANGED vars  BY <1>10, <1>1 DEF vars, Working
<1>11. QED
  BY <1>3, <1>4, <1>5, <1>6, <1>7, <1>8, <1>9, <1>10 DEF Next, Handler

-------------------------------------------------------------------------------

(* How each step moves the slots of the links: these facts carry the proof *)
(* of SlotAccounting, of what Stop forbids, and of the refinement.         *)

LEMMA LinkMoves ==
  ASSUME TypeOK, NEW k \in Links, CreateLink(k) \/ Revoke(k) \/ Expire(k)
  PROVE  /\ landed' = landed /\ stale' = stale
         /\ \A l \in Links : /\ Unsaved(l)' = Unsaved(l)
                             /\ store'[l].files = store[l].files
                             /\ \/ store'[l].maxFiles = store[l].maxFiles
                                \/ store[l].files = 0 /\ store'[l].maxFiles = MaxFiles
         /\ \/ store'[k].revoked = store[k].revoked
            \/ store'[k].revoked = TRUE
         /\ \A l \in Links \ {k} : store'[l] = store[l]
<1> USE DEF TypeOK
<1>1. /\ landed' = landed /\ stale' = stale
      /\ \A l \in Links : Unsaved(l)' = Unsaved(l)
      /\ \A l \in Links \ {k} : store'[l] = store[l]
  BY DEF CreateLink, Revoke, Expire, Unsaved
<1>2. CASE CreateLink(k)
  <2>1. store[k].files = 0 /\ store[k].revoked = FALSE  BY <1>2 DEF CreateLink, NoSession
  <2>2. store'[k] = NewSession(MaxFiles, MaxBytes)  BY <1>2 DEF CreateLink
  <2>3. store'[k].revoked = FALSE  BY <2>2 DEF NewSession, NoSession
  <2>4. QED  BY <1>1, <2>1, <2>2, <2>3, NewSessionType
<1>3. CASE Revoke(k) \/ Expire(k)
  <2>1. store'[k] = Stopped(store[k]) \/ store'[k] = [store[k] EXCEPT !.expired = TRUE]
    BY <1>3 DEF Revoke, Expire
  <2>2. store[k] \in Session  OBVIOUS
  <2>3. /\ store'[k].files = store[k].files
        /\ store'[k].maxFiles = store[k].maxFiles
        /\ store'[k].revoked \in {store[k].revoked, TRUE}
    BY <2>1, <2>2 DEF Stopped, Session
  <2>4. QED  BY <1>1, <2>3
<1>4. QED  BY <1>2, <1>3

(* Steps of a request that touch neither the store nor the folder's files. *)
Quiet(r) ==
  \/ Disconnect(r) \/ TurnAway(r) \/ Accept(r) \/ EndOfBody(r) \/ ReserveRefused(r)
  \/ Measure(r) \/ MeasureBlind(r) \/ NoRoom(r) \/ Write(r) \/ Copy(r) \/ CopyFails(r)
  \/ PublishFails(r) \/ RecordFails(r)
  \/ \E k \in Links : Lookup(r, k)

LEMMA QuietMoves ==
  ASSUME TypeOK, NEW r \in Reqs, Quiet(r)
  PROVE  /\ store' = store /\ landed' = landed /\ stale' = stale
         /\ \A l \in Links : Unsaved(l)' = Unsaved(l)
<1> USE DEF TypeOK
<1>1. store' = store /\ landed' = landed /\ stale' = stale
  BY DEF Quiet, Disconnect, TurnAway, Accept, EndOfBody, ReserveRefused, Measure, MeasureBlind,
         NoRoom, Write, Copy, CopyFails, PublishFails, RecordFails, Lookup, durable
<1> SUFFICES ASSUME NEW l \in Links PROVE Unsaved(l)' = Unsaved(l)
  BY <1>1
<1>2. CASE Disconnect(r)  BY <1>2 DEF Disconnect, Unsaved, Request
<1>3. CASE TurnAway(r)  BY <1>3, IdleType DEF TurnAway, Unsaved
<1>4. CASE Accept(r)  BY <1>4 DEF Accept, Goto, Unsaved, Request
<1>5. CASE EndOfBody(r) \/ ReserveRefused(r)
  BY <1>5, IdleType DEF EndOfBody, ReserveRefused, Finish, Unsaved
<1>6. CASE Measure(r) \/ MeasureBlind(r) \/ NoRoom(r)
  BY <1>6 DEF Measure, MeasureBlind, Allow, NoRoom, Goto, Unsaved, Request
<1>7. CASE Write(r) \/ Copy(r) \/ CopyFails(r)
  BY <1>7 DEF Write, Copy, CopyFails, Leave, Unsaved, Request
<1>8. CASE PublishFails(r) \/ RecordFails(r)
  BY <1>8 DEF PublishFails, RecordFails, Leave, Unsaved, Request
<1>9. ASSUME NEW k \in Links, Lookup(r, k)
      PROVE  Unsaved(l)' = Unsaved(l)
  <2>1. [Idle EXCEPT !.pc = "found", !.link = k].pc = "found"  BY IdleType DEF Request
  <2>2. QED  BY <1>9, <2>1 DEF Lookup, Open, Unsaved
<1>10. QED
  BY <1>2, <1>3, <1>4, <1>5, <1>6, <1>7, <1>8, <1>9 DEF Quiet

LEMMA RecordMoves ==
  ASSUME TypeOK, NEW r \in Reqs, Record(r)
  PROVE  /\ landed' = landed /\ stale' = stale
         /\ \A l \in Links : /\ Unsaved(l)' = Unsaved(l)
                             /\ store'[l].files = store[l].files
                             /\ store'[l].maxFiles = store[l].maxFiles
                             /\ store'[l].revoked = store[l].revoked
<1> USE DEF TypeOK
<1>1. landed' = landed /\ stale' = stale  BY DEF Record
<1> SUFFICES ASSUME NEW l \in Links
             PROVE  /\ Unsaved(l)' = Unsaved(l)
                    /\ store'[l].files = store[l].files
                    /\ store'[l].maxFiles = store[l].maxFiles
                    /\ store'[l].revoked = store[l].revoked
  BY <1>1
<1>2. Unsaved(l)' = Unsaved(l)  BY DEF Record, Leave, Unsaved, Request
<1>3. store'[l] = store[l] \/ store'[l] = Recorded(store[l], req[r].bytes)
  BY DEF Record
<1>4. QED  BY <1>2, <1>3 DEF Recorded, Session

LEMMA ReserveMoves ==
  ASSUME TypeOK, NEW r \in Reqs, Reserve(r), NEW k \in Links, k = req[r].link
  PROVE  /\ landed' = landed /\ stale' = stale
         /\ ~store[k].revoked /\ store[k].files < store[k].maxFiles
         /\ store'[k].files = store[k].files + 1
         /\ store'[k].maxFiles = store[k].maxFiles
         /\ store'[k].revoked = store[k].revoked
         /\ r \notin Unsaved(k) /\ Unsaved(k)' = Unsaved(k) \cup {r}
         /\ \A l \in Links \ {k} : store'[l] = store[l] /\ Unsaved(l)' = Unsaved(l)
<1> USE DEF TypeOK
<1>1. landed' = landed /\ stale' = stale  BY DEF Reserve
<1>2. store[k] \in Session /\ store[k].files \in Nat /\ store[k].maxFiles \in Nat
  BY DEF Session
<1>3. ~store[k].revoked /\ store[k].files < store[k].maxFiles
  BY <1>2 DEF Reserve, CanReserve, UsedUp
<1>4. store'[k] = Reserved(store[k])  BY DEF Reserve
<1>5. /\ store'[k].files = store[k].files + 1
      /\ store'[k].maxFiles = store[k].maxFiles
      /\ store'[k].revoked = store[k].revoked
  BY <1>2, <1>4 DEF Reserved, Session
<1>6. r \notin Unsaved(k) /\ Unsaved(k)' = Unsaved(k) \cup {r}
  BY DEF Reserve, Goto, Unsaved, Request
<1>7. \A l \in Links \ {k} : store'[l] = store[l] /\ Unsaved(l)' = Unsaved(l)
  BY DEF Reserve, Goto, Unsaved, Request
<1>8. QED  BY <1>1, <1>3, <1>5, <1>6, <1>7

LEMMA PublishMoves ==
  ASSUME TypeOK, NEW r \in Reqs, Publish(r), NEW k \in Links, k = req[r].link
  PROVE  /\ store' = store /\ stale' = stale
         /\ landed' = [landed EXCEPT ![k] = @ + 1]
         /\ r \in Unsaved(k) /\ Unsaved(k)' = Unsaved(k) \ {r}
         /\ \A l \in Links \ {k} : Unsaved(l)' = Unsaved(l)
BY DEF TypeOK, Publish, Goto, Unsaved, Request

LEMMA ReleaseMoves ==
  ASSUME TypeOK, SlotAccounting, NEW r \in Reqs, Release(r), NEW k \in Links, k = req[r].link
  PROVE  /\ landed' = landed /\ stale' = stale
         /\ \/ store'[k].files = store[k].files - 1
            \/ store'[k].files = store[k].files
         /\ store'[k].maxFiles = store[k].maxFiles
         /\ store'[k].revoked = store[k].revoked
         /\ r \in Unsaved(k) /\ Unsaved(k)' = Unsaved(k) \ {r}
         /\ \A l \in Links \ {k} : store'[l] = store[l] /\ Unsaved(l)' = Unsaved(l)
<1> USE DEF TypeOK
<1>1. landed' = landed /\ stale' = stale  BY DEF Release
<1>2. /\ r \in Unsaved(k) /\ Unsaved(k)' = Unsaved(k) \ {r}
      /\ \A l \in Links \ {k} : store'[l] = store[l] /\ Unsaved(l)' = Unsaved(l)
  BY IdleType DEF Release, Finish, Unsaved, Request
<1>3. store'[k] = store[k] \/ store'[k] = Released(store[k])  BY DEF Release
<1>4. store[k].files > 0
  <2>1. Cardinality(Unsaved(k)) > 0 /\ Cardinality(Unsaved(k)) \in Nat
    BY <1>2, Counting DEF Unsaved
  <2>2. landed[k] \in Nat /\ stale[k] \in Nat /\ store[k].files \in Nat  BY DEF Session
  <2>3. QED  BY <2>1, <2>2 DEF SlotAccounting
<1>5. store[k] \in Session  OBVIOUS
<1>6. /\ Released(store[k]).files = store[k].files - 1
      /\ Released(store[k]).maxFiles = store[k].maxFiles
      /\ Released(store[k]).revoked = store[k].revoked
  BY <1>4, <1>5 DEF Released, Session
<1>7. QED  BY <1>1, <1>2, <1>3, <1>6

LEMMA RestartMoves ==
  ASSUME TypeOK, Restart
  PROVE  /\ landed' = landed
         /\ \A l \in Links : /\ Unsaved(l)' = {}
                             /\ stale'[l] = stale[l] + Cardinality(Partial(l))
                             /\ store'[l].files = store[l].files
                             /\ store'[l].maxFiles = store[l].maxFiles
                             /\ store'[l].revoked = store[l].revoked
<1> USE DEF TypeOK
<1>1. landed' = landed  BY DEF Restart
<1> SUFFICES ASSUME NEW l \in Links
             PROVE  /\ Unsaved(l)' = {}
                    /\ stale'[l] = stale[l] + Cardinality(Partial(l))
                    /\ store'[l].files = store[l].files
                    /\ store'[l].maxFiles = store[l].maxFiles
                    /\ store'[l].revoked = store[l].revoked
  BY <1>1
<1>2. Unsaved(l)' = {}  BY IdleType DEF Restart, Unsaved
<1>3. stale'[l] = stale[l] + Cardinality(Partial(l))  BY DEF Restart
<1>4. store'[l] = store[l] \/ store'[l] = Pruned(store[l])  BY DEF Restart
<1>5. store[l] \in Session  OBVIOUS
<1>6. QED  BY <1>2, <1>3, <1>4, <1>5 DEF Pruned, Session

-------------------------------------------------------------------------------

(* Reserve, Publish and Release move one slot of the request's link; a     *)
(* restart turns every slot on its way into a lost one; no other step      *)
(* moves a slot.                                                           *)
LEMMA SlotStep ==
  ASSUME TypeOK, SlotAccounting, LimitsFixed, [Next]_vars
  PROVE  SlotAccounting' /\ LimitsFixed'
<1> DEFINE SlotsOf(l) ==
             /\ landed[l] + stale[l] + Cardinality(Unsaved(l)) <= store[l].files
             /\ store[l].files <= store[l].maxFiles
             /\ store[l].maxFiles \in {0, MaxFiles}
<1> SUFFICES ASSUME NEW l \in Links
             PROVE  SlotsOf(l)'
  BY DEF SlotAccounting, LimitsFixed
<1>1. /\ store[l].files \in Nat /\ store[l].maxFiles \in Nat
      /\ landed[l] \in Nat /\ stale[l] \in Nat
      /\ Cardinality(Unsaved(l)) \in Nat
  BY Counting DEF TypeOK, Session, Unsaved
<1>2. SlotsOf(l)  BY DEF SlotAccounting, LimitsFixed
<1>3. ASSUME NEW k \in Links, CreateLink(k) \/ Revoke(k) \/ Expire(k)
      PROVE  SlotsOf(l)'
  <2>1. /\ landed' = landed /\ stale' = stale
        /\ Unsaved(l)' = Unsaved(l) /\ store'[l].files = store[l].files
        /\ \/ store'[l].maxFiles = store[l].maxFiles
           \/ store[l].files = 0 /\ store'[l].maxFiles = MaxFiles
    BY <1>3, LinkMoves
  <2>2. QED  BY <1>1, <1>2, <2>1, UploadAssumption
<1>4. ASSUME NEW r \in Reqs, Quiet(r) \/ Record(r)
      PROVE  SlotsOf(l)'
  <2>1. CASE Quiet(r)  BY <1>2, <2>1, QuietMoves
  <2>2. CASE Record(r)  BY <1>2, <2>2, RecordMoves
  <2>3. QED  BY <1>4, <2>1, <2>2
<1>5. ASSUME NEW r \in Reqs, NEW k \in Links, k = req[r].link,
             Reserve(r) \/ Publish(r) \/ Release(r)
      PROVE  SlotsOf(l)'
  <2>1. CASE Reserve(r)
    <3>1. CASE l = k
      <4>1. Cardinality(Unsaved(l)') = Cardinality(Unsaved(l)) + 1
        <5>1. r \notin Unsaved(l) /\ Unsaved(l)' = Unsaved(l) \cup {r}
          BY <1>5, <2>1, <3>1, ReserveMoves
        <5>2. Unsaved(l) \in SUBSET Reqs  BY DEF Unsaved
        <5>3. QED  BY <5>1, <5>2, Counting
      <4>2. QED  BY <1>1, <1>2, <1>5, <2>1, <3>1, <4>1, ReserveMoves
    <3>2. CASE l # k  BY <1>2, <1>5, <2>1, <3>2, ReserveMoves
    <3>3. QED  BY <3>1, <3>2
  <2>2. CASE Publish(r)
    <3>1. CASE l = k
      <4>1. Cardinality(Unsaved(l)') = Cardinality(Unsaved(l)) - 1
        <5>1. r \in Unsaved(l) /\ Unsaved(l)' = Unsaved(l) \ {r}
          BY <1>5, <2>2, <3>1, PublishMoves
        <5>2. Unsaved(l) \in SUBSET Reqs  BY DEF Unsaved
        <5>3. QED  BY <5>1, <5>2, Counting
      <4>2. landed'[l] = landed[l] + 1
        BY <1>5, <2>2, <3>1, PublishMoves DEF TypeOK
      <4>3. QED  BY <1>1, <1>2, <1>5, <2>2, <4>1, <4>2, PublishMoves
    <3>2. CASE l # k
      <4>1. landed'[l] = landed[l]  BY <1>5, <2>2, <3>2, PublishMoves DEF TypeOK
      <4>2. QED  BY <1>2, <1>5, <2>2, <3>2, <4>1, PublishMoves
    <3>3. QED  BY <3>1, <3>2
  <2>3. CASE Release(r)
    <3>1. CASE l = k
      <4>1. Cardinality(Unsaved(l)') = Cardinality(Unsaved(l)) - 1
        <5>1. r \in Unsaved(l) /\ Unsaved(l)' = Unsaved(l) \ {r}
          BY <1>5, <2>3, <3>1, ReleaseMoves
        <5>2. Unsaved(l) \in SUBSET Reqs  BY DEF Unsaved
        <5>3. QED  BY <5>1, <5>2, Counting
      <4>2. QED  BY <1>1, <1>2, <1>5, <2>3, <3>1, <4>1, ReleaseMoves
    <3>2. CASE l # k  BY <1>2, <1>5, <2>3, <3>2, ReleaseMoves
    <3>3. QED  BY <3>1, <3>2
  <2>4. QED  BY <1>5, <2>1, <2>2, <2>3
<1>6. ASSUME Restart
      PROVE  SlotsOf(l)'
  <2>1. Partial(l) \in SUBSET Unsaved(l) /\ IsFiniteSet(Unsaved(l))
    BY Counting DEF Partial, Unsaved
  <2>2. Cardinality(Partial(l)) <= Cardinality(Unsaved(l))  BY <2>1, FS_Subset
  <2>3. Cardinality(Partial(l)) \in Nat  BY Counting DEF Partial, Unsaved
  <2>4. Cardinality(Unsaved(l)') = 0  BY <1>6, RestartMoves, FS_EmptySet
  <2>5. QED  BY <1>1, <1>2, <1>6, <2>2, <2>3, <2>4, RestartMoves
<1>7. CASE UNCHANGED vars  BY <1>2, <1>7 DEF vars, durable, Unsaved
<1>8. \A r \in Reqs : req[r].link \in Links  BY DEF TypeOK, Request
<1>9. QED
  BY <1>3, <1>4, <1>5, <1>6, <1>7, <1>8 DEF Next, Handler, Quiet

LEMMA IInvStep == IInv /\ [Next]_vars => IInv'
BY TypeStep, InflightStep, SlotStep DEF IInv

-------------------------------------------------------------------------------

(* Type correctness: store, drive and requests stay within their types in  *)
(* every interleaving; in particular Server.inflight and the free space    *)
(* never go negative.                                                      *)
THEOREM TypeCorrect == Spec => []TypeOK
<1>1. IInv => TypeOK  BY DEF IInv
<1>2. QED  BY InitIInv, IInvStep, <1>1, PTL DEF Spec

(* Server.Busy is exact (receive's Add(1) and its deferred Add(-1)).       *)
THEOREM BusyExact == Spec => []InflightExact
<1>1. IInv => InflightExact  BY DEF IInv
<1>2. QED  BY InitIInv, IInvStep, <1>1, PTL DEF Spec

(* A link never saves more files than max_files, whatever uploads overlap, *)
(* fail, or are cut off by a restart (Reserve, Publish, Release).          *)
THEOREM SlotsAccounted == Spec => []SlotAccounting
<1>1. IInv => SlotAccounting  BY DEF IInv
<1>2. QED  BY InitIInv, IInvStep, <1>1, PTL DEF Spec

(* Stop is final: no request takes a slot of a stopped link, even if it    *)
(* looked the link up while it was active (Reserve checks revoked_at).     *)
THEOREM StopIsFinal == Spec => StoppedLinkTakesNoFile
<1> DEFINE NoNewFile == \A l \in Links : store[l].revoked => Unsaved(l)' \subseteq Unsaved(l)
<1>1. ASSUME IInv, [Next]_vars
      PROVE  NoNewFile
  <2> USE <1>1
  <2> SUFFICES ASSUME NEW l \in Links, store[l].revoked
               PROVE  Unsaved(l)' \subseteq Unsaved(l)
    OBVIOUS
  <2>1. TypeOK /\ SlotAccounting  BY DEF IInv
  <2>2. ASSUME NEW r \in Reqs, NEW k \in Links, k = req[r].link,
               Reserve(r) \/ Publish(r) \/ Release(r)
        PROVE  Unsaved(l)' \subseteq Unsaved(l)
    BY <2>1, <2>2, ReserveMoves, PublishMoves, ReleaseMoves
  <2>3. ASSUME NEW r \in Reqs, Quiet(r) \/ Record(r)
        PROVE  Unsaved(l)' \subseteq Unsaved(l)
    BY <2>1, <2>3, QuietMoves, RecordMoves
  <2>4. ASSUME NEW k \in Links, CreateLink(k) \/ Revoke(k) \/ Expire(k)
        PROVE  Unsaved(l)' \subseteq Unsaved(l)
    BY <2>1, <2>4, LinkMoves
  <2>5. CASE Restart  BY <2>1, <2>5, RestartMoves
  <2>6. CASE UNCHANGED vars  BY <2>6 DEF vars, Unsaved
  <2>7. \A r \in Reqs : req[r].link \in Links  BY <2>1 DEF TypeOK, Request
  <2>8. QED  BY <2>2, <2>3, <2>4, <2>5, <2>6, <2>7 DEF Next, Handler, Quiet
<1>2. IInv /\ [Next]_vars => [NoNewFile]_vars  BY <1>1
<1>3. QED  BY InitIInv, IInvStep, <1>2, PTL DEF Spec, StoppedLinkTakesNoFile

-------------------------------------------------------------------------------

LEMMA BudgetInit == Init => Budget!Init
<1> SUFFICES ASSUME Init PROVE Budget!Init  OBVIOUS
<1>1. \A l \in Links : Unsaved(l) = {}  BY IdleType DEF Init, Unsaved
<1>2. \A l \in Links : Cardinality(Unsaved(l)) = 0  BY <1>1, FS_EmptySet
<1>3. \A l \in Links : store[l].files = 0 /\ store[l].revoked = FALSE
  BY DEF Init, NoSession
<1>4. QED  BY <1>2, <1>3 DEF Init, Budget!Init, Spent, Held, StoppedLinks

(* Every step of Upload is a step of the budget or leaves it alone.        *)
LEMMA BudgetStep ==
  ASSUME IInv, [Next]_vars
  PROVE  [Budget!Next]_(Budget!budgetVars)
<1>1. TypeOK /\ SlotAccounting /\ LimitsFixed  BY DEF IInv
<1>2. \A l \in Links : Cardinality(Unsaved(l)) \in Nat /\ store[l].files \in Nat
  BY <1>1, Counting DEF Unsaved, TypeOK, Session
<1>3. ASSUME \A l \in Links : /\ store'[l].files = store[l].files
                             /\ Unsaved(l)' = Unsaved(l)
                             /\ store'[l].revoked = store[l].revoked,
             landed' = landed
      PROVE  UNCHANGED Budget!budgetVars
  BY <1>3 DEF Budget!budgetVars, Spent, Held, StoppedLinks
<1>4. ASSUME NEW k \in Links, CreateLink(k) \/ Revoke(k) \/ Expire(k)
      PROVE  Budget!Next \/ UNCHANGED Budget!budgetVars
  <2>1. /\ \A l \in Links : Unsaved(l)' = Unsaved(l) /\ store'[l].files = store[l].files
        /\ \A l \in Links \ {k} : store'[l].revoked = store[l].revoked
        /\ landed' = landed
    BY <1>1, <1>4, LinkMoves
  <2>2. CASE store'[k].revoked = store[k].revoked
    <3>1. \A l \in Links : store'[l].revoked = store[l].revoked  BY <2>1, <2>2
    <3>2. QED  BY <1>3, <2>1, <3>1
  <2>3. CASE store'[k].revoked = TRUE
    <3>1. StoppedLinks' = [StoppedLinks EXCEPT ![k] = TRUE]
      BY <2>1, <2>3 DEF StoppedLinks
    <3>2. Spent' = Spent /\ Held' = Held  BY <2>1 DEF Spent, Held
    <3>3. Budget!Stop(k)  BY <2>1, <3>1, <3>2 DEF Budget!Stop
    <3>4. QED  BY <3>3 DEF Budget!Next
  <2>4. QED  BY <1>1, <1>4, <2>2, <2>3, LinkMoves
<1>5. ASSUME NEW r \in Reqs, Quiet(r) \/ Record(r)
      PROVE  UNCHANGED Budget!budgetVars
  BY <1>1, <1>3, <1>5, QuietMoves, RecordMoves
<1>6. ASSUME NEW r \in Reqs, NEW k \in Links, k = req[r].link, Reserve(r)
      PROVE  Budget!Take(k)
  <2>1. store[k].files < MaxFiles
    BY <1>1, <1>2, <1>6, ReserveMoves, UploadAssumption DEF LimitsFixed
  <2>2. Cardinality(Unsaved(k)') = Cardinality(Unsaved(k)) + 1
    <3>1. r \notin Unsaved(k) /\ Unsaved(k)' = Unsaved(k) \cup {r}
      BY <1>1, <1>6, ReserveMoves
    <3>2. Unsaved(k) \in SUBSET Reqs  BY DEF Unsaved
    <3>3. QED  BY <3>1, <3>2, Counting
  <2>3. Spent' = [Spent EXCEPT ![k] = @ + 1]
    BY <1>1, <1>6, ReserveMoves DEF Spent
  <2>4. Held' = [Held EXCEPT ![k] = @ + 1]
    BY <1>1, <1>6, <2>2, ReserveMoves DEF Held
  <2>5. StoppedLinks' = StoppedLinks /\ ~StoppedLinks[k] /\ landed' = landed
    BY <1>1, <1>6, ReserveMoves DEF StoppedLinks
  <2>6. QED  BY <2>1, <2>3, <2>4, <2>5 DEF Budget!Take, Spent
<1>7. ASSUME NEW r \in Reqs, NEW k \in Links, k = req[r].link, Publish(r)
      PROVE  Budget!Complete(k)
  <2>1. Cardinality(Unsaved(k)') = Cardinality(Unsaved(k)) - 1 /\ Cardinality(Unsaved(k)) > 0
    BY <1>1, <1>7, PublishMoves, Counting DEF Unsaved
  <2>2. Held' = [Held EXCEPT ![k] = @ - 1]
    BY <1>1, <1>7, <2>1, PublishMoves DEF Held
  <2>3. Spent' = Spent /\ StoppedLinks' = StoppedLinks
    BY <1>1, <1>7, PublishMoves DEF Spent, StoppedLinks
  <2>4. landed' = [landed EXCEPT ![k] = @ + 1]  BY <1>1, <1>7, PublishMoves
  <2>5. Held[k] > 0  BY <2>1 DEF Held
  <2>6. QED  BY <2>2, <2>3, <2>4, <2>5 DEF Budget!Complete
<1>8. ASSUME NEW r \in Reqs, NEW k \in Links, k = req[r].link, Release(r)
      PROVE  Budget!Next
  <2>1. Cardinality(Unsaved(k)') = Cardinality(Unsaved(k)) - 1 /\ Cardinality(Unsaved(k)) > 0
    BY <1>1, <1>8, ReleaseMoves, Counting DEF Unsaved
  <2>2. Held' = [Held EXCEPT ![k] = @ - 1] /\ Held[k] > 0
    BY <1>1, <1>8, <2>1, ReleaseMoves DEF Held
  <2>3. landed' = landed /\ StoppedLinks' = StoppedLinks
    BY <1>1, <1>8, ReleaseMoves DEF StoppedLinks
  <2>4. CASE store'[k].files = store[k].files - 1
    <3>1. Spent' = [Spent EXCEPT ![k] = @ - 1]
      BY <1>1, <1>8, <2>4, ReleaseMoves DEF Spent
    <3>2. QED  BY <2>2, <2>3, <3>1 DEF Budget!GiveBack, Budget!Next
  <2>5. CASE store'[k].files = store[k].files
    <3>1. Spent' = Spent  BY <1>1, <1>8, <2>5, ReleaseMoves DEF Spent
    <3>2. /\ Held' \in [Links -> Nat]
          /\ \A l \in Links : Held'[l] <= Held[l]
      <4>1. Held \in [Links -> Nat]  BY <1>2 DEF Held
      <4>2. QED  BY <2>2, <4>1
    <3>3. QED  BY <2>3, <3>1, <3>2 DEF Budget!Lose, Budget!Next
  <2>6. QED  BY <1>1, <1>8, <2>4, <2>5, ReleaseMoves
<1>9. ASSUME Restart
      PROVE  Budget!Next
  <2>1. \A l \in Links : Cardinality(Unsaved(l)') = 0
    BY <1>1, <1>9, RestartMoves, FS_EmptySet
  <2>2. /\ Held' \in [Links -> Nat]
        /\ \A l \in Links : Held'[l] <= Held[l]
    BY <1>2, <2>1 DEF Held
  <2>3. Spent' = Spent /\ StoppedLinks' = StoppedLinks /\ landed' = landed
    BY <1>1, <1>9, RestartMoves DEF Spent, StoppedLinks
  <2>4. QED  BY <2>2, <2>3 DEF Budget!Lose, Budget!Next
<1>10. CASE UNCHANGED vars  BY <1>3, <1>10 DEF vars, durable, Unsaved
<1>11. \A r \in Reqs : req[r].link \in Links  BY <1>1 DEF TypeOK, Request
<1>12. ASSUME NEW r \in Reqs, Reserve(r) \/ Publish(r) \/ Release(r)
       PROVE  Budget!Next
  BY <1>6, <1>7, <1>8, <1>11, <1>12 DEF Budget!Next
<1>13. QED
  BY <1>4, <1>5, <1>9, <1>10, <1>12 DEF Next, Handler, Quiet

(* A link used for uploads implements the budget of LinkBudget: each slot  *)
(* is taken before the transfer, and completed, given back or lost once.   *)
THEOREM UploadImplementsBudget == Spec => ImplementsBudget
<1>1. IInv /\ [Next]_vars => [Budget!Next]_(Budget!budgetVars)  BY BudgetStep
<1>2. QED
  BY InitIInv, IInvStep, BudgetInit, <1>1, PTL DEF Spec, ImplementsBudget, Budget!Spec

(* Whatever implements the budget keeps its promise: no more transfers     *)
(* than slots, those counted that are still to happen (LinkBudget).        *)
THEOREM BudgetKept == Budget!Spec => [](Budget!BudgetTypeOK /\ Budget!WithinBudget)
<1> DEFINE Inv == Budget!BudgetTypeOK /\ Budget!WithinBudget
<1> USE DEF Budget!BudgetTypeOK, Budget!WithinBudget
<1>1. Budget!Init => Inv
  BY UploadAssumption DEF Budget!Init
<1>2. Inv /\ [Budget!Next]_(Budget!budgetVars) => Inv'
  <2> SUFFICES ASSUME Inv, [Budget!Next]_(Budget!budgetVars) PROVE Inv'
    OBVIOUS
  <2>1. ASSUME NEW l \in Links, Budget!Take(l) PROVE Inv'
    BY <2>1, UploadAssumption DEF Budget!Take
  <2>2. ASSUME NEW l \in Links, Budget!Complete(l) PROVE Inv'
    BY <2>2 DEF Budget!Complete
  <2>3. ASSUME NEW l \in Links, Budget!GiveBack(l) PROVE Inv'
    BY <2>3, UploadAssumption DEF Budget!GiveBack
  <2>4. ASSUME NEW l \in Links, Budget!Stop(l) PROVE Inv'
    BY <2>4 DEF Budget!Stop
  <2>5. CASE Budget!Lose
    BY <2>5 DEF Budget!Lose
  <2>6. CASE UNCHANGED Budget!budgetVars
    BY <2>6 DEF Budget!budgetVars
  <2> QED BY <2>1, <2>2, <2>3, <2>4, <2>5, <2>6 DEF Budget!Next
<1> QED BY <1>1, <1>2, PTL DEF Budget!Spec

(* So a link of max_files slots never lets more than max_files files into  *)
(* the folder, whatever interleaves, fails or is killed (Reserve, Release).*)
THEOREM UploadWithinBudget == Spec => []Budget!WithinBudget
BY UploadImplementsBudget, BudgetKept, PTL DEF ImplementsBudget

-------------------------------------------------------------------------------
(* The limits on bytes and on the disk.                                    *)

(* Requests with bytes still to record, and how many others there are.     *)
Filling(l) == {r \in Reqs : req[r].link = l /\ req[r].bytes > 0}
Spare(l) == Cardinality(Reqs) - Cardinality(Filling(l))

(* A part takes at most one limit, and is given bytes only while the link  *)
(* is not full.  So a link holds one limit at most for each request that   *)
(* is not filling it, or one of those that are fits in beside.             *)
Fits(l) ==
  \/ store[l].bytes <= MaxBytes * Spare(l)
  \/ \E r \in Filling(l) : store[l].bytes + req[r].bytes <= MaxBytes * (Spare(l) + 1)

Bounded == \A l \in Links : store[l].maxBytes <= MaxBytes /\ Fits(l)

Parts ==
  \A r \in Reqs : /\ req[r].bytes <= MaxBytes /\ req[r].wrote <= req[r].bytes
                  /\ req[r].bytes > 0 => r \in OnTheirWay

(* A part that is alone on its way fits below the limit of its link, and,  *)
(* as long as the free space is always read, above the reserve of the      *)
(* drive.                                                                  *)
Alone ==
  /\ \A q, r \in OnTheirWay : q = r
  /\ \A l \in Links : store[l].bytes <= MaxBytes
  /\ \A r \in OnTheirWay : store[req[r].link].bytes + req[r].bytes <= MaxBytes

Roomy ==
  /\ free >= ReserveBytes \/ free >= DiskSize
  /\ \A r \in OnTheirWay :
       req[r].pc = "copying" => free + req[r].wrote >= ReserveBytes + req[r].bytes

BytesInv ==
  /\ overlapped \in BOOLEAN /\ blind \in BOOLEAN
  /\ Bounded /\ Parts
  /\ ~overlapped => Alone
  /\ ~overlapped /\ ~blind => Roomy

(* One limit more, and multiplication by a limit keeps the order. *)
LEMMA OneMore ==
  ASSUME NEW m \in Nat, NEW a \in Nat
  PROVE  m * a \in Nat /\ m * (a + 1) = m * a + m
OBVIOUS

LEMMA Times ==
  ASSUME NEW m \in Nat, NEW a \in Nat, NEW b \in Nat, a <= b
  PROVE  m * a \in Nat /\ m * a <= m * b
<1>1. m * (b - a) \in Nat /\ m * b = m * a + m * (b - a)  OBVIOUS
<1>2. QED  BY <1>1

LEMMA SpareType ==
  ASSUME NEW l \in Links
  PROVE  Spare(l) \in Nat /\ Cardinality(Filling(l)) \in Nat
BY UploadAssumption, FS_Subset, FS_CardinalityType DEF Filling, Spare

(* The same sets one step later, smaller or not. *)
LEMMA SpareGrows ==
  ASSUME NEW l \in Links, Filling(l)' \subseteq Filling(l)
  PROVE  /\ Spare(l) \in Nat /\ Spare(l)' \in Nat /\ Spare(l) <= Spare(l)'
         /\ \A r \in Filling(l) : r \notin Filling(l)' => Spare(l) + 1 <= Spare(l)'
<1> DEFINE S == Filling(l)  T == Filling(l)'
<1>1. S \subseteq Reqs /\ T \subseteq Reqs  BY DEF Filling
<1>2. IsFiniteSet(S) /\ Cardinality(S) \in Nat /\ Cardinality(T) \in Nat
  BY <1>1, Counting
<1>3. Cardinality(T) <= Cardinality(S) /\ (Cardinality(T) = Cardinality(S) => S = T)
  BY <1>2, FS_Subset
<1>4. Cardinality(S) <= Cardinality(Reqs) /\ Cardinality(Reqs) \in Nat
  BY <1>1, UploadAssumption, FS_Subset, FS_CardinalityType
<1>5. Cardinality(T) = Cardinality(Filling(l))'  OBVIOUS
<1>6. QED  BY <1>2, <1>3, <1>4, <1>5 DEF Spare

(* A part that takes less, or is over without being recorded, leaves the   *)
(* link within what it may take.                                           *)
LEMMA FitsLess ==
  ASSUME TypeOK, TypeOK', NEW l \in Links, Fits(l),
         store'[l].bytes = store[l].bytes, Filling(l)' \subseteq Filling(l),
         \A q \in Filling(l)' : req'[q].bytes <= req[q].bytes
  PROVE  Fits(l)'
<1> DEFINE n == Spare(l)  m == Spare(l)'
<1>1. n \in Nat /\ m \in Nat /\ n <= m /\ MaxBytes \in Nat  BY SpareGrows, UploadAssumption
<1>2. store[l].bytes \in Nat /\ \A q \in Reqs : req[q].bytes \in Nat /\ req'[q].bytes \in Nat
  BY DEF TypeOK, Session, Request
<1>3. CASE store[l].bytes <= MaxBytes * n
  <2>1. MaxBytes * n <= MaxBytes * m /\ MaxBytes * n \in Nat /\ MaxBytes * m \in Nat
    BY <1>1, Times
  <2>2. store'[l].bytes <= MaxBytes * m  BY <1>2, <1>3, <2>1
  <2>3. QED  BY <2>2 DEF Fits
<1>4. ASSUME NEW w \in Filling(l), store[l].bytes + req[w].bytes <= MaxBytes * (n + 1)
      PROVE  Fits(l)'
  <2>1. MaxBytes * (n + 1) \in Nat  BY <1>1, Times
  <2>2. w \in Reqs  BY DEF Filling
  <2>3. CASE w \in Filling(l)'
    <3>1. MaxBytes * (n + 1) <= MaxBytes * (m + 1) /\ MaxBytes * (m + 1) \in Nat
      <4>1. n + 1 \in Nat /\ m + 1 \in Nat /\ n + 1 <= m + 1  BY <1>1
      <4>2. MaxBytes * (n + 1) <= MaxBytes * (m + 1)  BY <1>1, <4>1, Times
      <4>3. MaxBytes * (m + 1) \in Nat  BY <1>1, <4>1, OneMore
      <4>4. QED  BY <4>2, <4>3
    <3>2. store'[l].bytes + req'[w].bytes <= MaxBytes * (m + 1)
      BY <1>2, <1>4, <2>1, <2>2, <2>3, <3>1
    <3>3. QED  BY <2>3, <3>2 DEF Fits
  <2>4. CASE w \notin Filling(l)'
    <3>1. n + 1 <= m  BY <2>4, SpareGrows
    <3>2. MaxBytes * (n + 1) <= MaxBytes * m /\ MaxBytes * m \in Nat
      BY <1>1, <3>1, Times
    <3>3. store'[l].bytes <= MaxBytes * m  BY <1>2, <1>4, <2>1, <2>2, <3>2
    <3>4. QED  BY <3>3 DEF Fits
  <2>5. QED  BY <2>3, <2>4
<1>5. QED  BY <1>3, <1>4 DEF Fits

(* A part that was measured on a link with room fits alone. *)
LEMMA FitsMore ==
  ASSUME TypeOK, TypeOK', NEW l \in Links, Fits(l), NEW r \in Reqs, r \notin Filling(l),
         store'[l].bytes = store[l].bytes, Filling(l)' = Filling(l) \cup {r},
         store[l].bytes + req'[r].bytes <= MaxBytes
  PROVE  Fits(l)'
<1> DEFINE S == Filling(l)  n == Spare(l)'
<1>1. S \cup {r} \subseteq Reqs  BY DEF Filling
<1>2. n \in Nat
  <2>1. Cardinality(S \cup {r}) <= Cardinality(Reqs) /\ Cardinality(Reqs) \in Nat
    BY <1>1, UploadAssumption, FS_Subset, FS_CardinalityType
  <2>2. Cardinality(S \cup {r}) \in Nat  BY <1>1, Counting
  <2>3. QED  BY <2>1, <2>2 DEF Spare
<1>3. MaxBytes * 1 <= MaxBytes * (n + 1) /\ MaxBytes * 1 = MaxBytes /\ MaxBytes * (n + 1) \in Nat
  BY <1>2, UploadAssumption, Times
<1>4. store[l].bytes \in Nat /\ req'[r].bytes \in Nat /\ MaxBytes \in Nat
  BY UploadAssumption DEF TypeOK, Session, Request
<1>5. store'[l].bytes + req'[r].bytes <= MaxBytes * (n + 1)  BY <1>3, <1>4
<1>6. QED  BY <1>5 DEF Fits

(* Recording a part moves its bytes from the request to the link. *)
LEMMA FitsRecorded ==
  ASSUME TypeOK, TypeOK', NEW l \in Links, Fits(l), NEW r \in Filling(l),
         store'[l].bytes = store[l].bytes + req[r].bytes, req[r].bytes <= MaxBytes,
         Filling(l)' = Filling(l) \ {r}, \A q \in Filling(l)' : req'[q].bytes = req[q].bytes
  PROVE  Fits(l)'
<1> DEFINE n == Spare(l)  m == Spare(l)'
<1>1. n \in Nat /\ m \in Nat /\ n + 1 <= m /\ MaxBytes \in Nat  BY SpareGrows, UploadAssumption
<1>2. store[l].bytes \in Nat /\ \A q \in Reqs : req[q].bytes \in Nat /\ req'[q].bytes \in Nat
  BY DEF TypeOK, Session, Request
<1>3. r \in Reqs  BY DEF Filling
<1>4. /\ MaxBytes * (n + 1) <= MaxBytes * m /\ MaxBytes * (n + 1) = MaxBytes * n + MaxBytes
      /\ MaxBytes * n \in Nat /\ MaxBytes * (n + 1) \in Nat /\ MaxBytes * m \in Nat
      /\ MaxBytes * (m + 1) = MaxBytes * m + MaxBytes
  <2>1. MaxBytes * n \in Nat /\ MaxBytes * (n + 1) = MaxBytes * n + MaxBytes  BY <1>1, OneMore
  <2>2. MaxBytes * (n + 1) \in Nat /\ MaxBytes * (n + 1) <= MaxBytes * m  BY <1>1, Times
  <2>3. MaxBytes * m \in Nat /\ MaxBytes * (m + 1) = MaxBytes * m + MaxBytes  BY <1>1, OneMore
  <2>4. QED  BY <2>1, <2>2, <2>3
<1>5. CASE store[l].bytes <= MaxBytes * n
  <2>1. store'[l].bytes <= MaxBytes * m  BY <1>1, <1>2, <1>3, <1>4, <1>5
  <2>2. QED  BY <2>1 DEF Fits
<1>6. ASSUME NEW w \in Filling(l), store[l].bytes + req[w].bytes <= MaxBytes * (n + 1)
      PROVE  Fits(l)'
  <2>1. w \in Reqs  BY DEF Filling
  <2>2. CASE w = r
    <3>1. store'[l].bytes <= MaxBytes * m  BY <1>1, <1>2, <1>3, <1>4, <1>6, <2>2
    <3>2. QED  BY <3>1 DEF Fits
  <2>3. CASE w # r
    <3>1. w \in Filling(l)' /\ req'[w].bytes = req[w].bytes  BY <1>6, <2>3
    <3>2. store'[l].bytes + req'[w].bytes <= MaxBytes * (m + 1)
      BY <1>1, <1>2, <1>3, <1>4, <1>6, <2>1, <3>1
    <3>3. QED  BY <3>1, <3>2 DEF Fits
  <2>4. QED  BY <2>2, <2>3
<1>7. QED  BY <1>5, <1>6 DEF Fits

(* A step that records and measures nothing: parts go on or end, a copy    *)
(* takes from the disk what it was given.                                  *)
Wrote(r) ==
  /\ req[r].pc = "copying" /\ req[r].wrote < req[r].bytes
  /\ req'[r].wrote = req[r].wrote + 1 /\ free' = free - 1

Calm ==
  /\ \A l \in Links : store'[l].bytes = store[l].bytes /\ store'[l].maxBytes <= MaxBytes
  /\ OnTheirWay' \subseteq OnTheirWay
  /\ \A q \in Reqs : /\ req'[q].bytes <= req[q].bytes /\ req'[q].wrote <= req'[q].bytes
                     /\ req'[q].bytes > 0 => q \in OnTheirWay' /\ req'[q].link = req[q].link
  /\ \A q \in OnTheirWay' : /\ req'[q].link = req[q].link
                            /\ req'[q].pc = "copying" => /\ req[q].pc = "copying"
                                                         /\ req'[q].wrote >= req[q].wrote
  /\ free' >= free \/ \E r \in Reqs : Wrote(r)

LEMMA CalmStep ==
  ASSUME TypeOK, TypeOK', BytesInv, Calm,
         overlapped' \in BOOLEAN, overlapped => overlapped', blind' \in BOOLEAN, blind => blind'
  PROVE  BytesInv'
<1> USE DEF BytesInv
<1>1. \A q \in Reqs : /\ req[q].bytes \in Nat /\ req'[q].bytes \in Nat /\ req[q].link \in Links
                      /\ req[q].wrote \in Nat /\ req'[q].wrote \in Nat
  BY DEF TypeOK, Request
<1>2. Bounded'
  <2> SUFFICES ASSUME NEW l \in Links PROVE Fits(l)'
    BY DEF Bounded, Calm
  <2>1. Filling(l)' \subseteq Filling(l)  BY <1>1 DEF Filling, Calm
  <2>2. \A q \in Filling(l)' : req'[q].bytes <= req[q].bytes  BY DEF Filling, Calm
  <2>3. QED  BY <2>1, <2>2, FitsLess DEF Bounded, Calm
<1>3. Parts'  BY <1>1, UploadAssumption DEF Parts, Calm
<1>4. OnTheirWay \subseteq Reqs /\ free \in Nat /\ free' \in Nat /\ ReserveBytes \in Nat /\ DiskSize \in Nat
  BY UploadAssumption DEF OnTheirWay, TypeOK
<1>5. ASSUME ~overlapped PROVE Alone'
  <2>1. Alone  BY <1>5
  <2>2. \A q, r \in OnTheirWay' : q = r  BY <2>1 DEF Alone, Calm
  <2>3. \A l \in Links : store'[l].bytes <= MaxBytes  BY <2>1 DEF Alone, Calm
  <2>4. \A q \in OnTheirWay' : store'[req'[q].link].bytes + req'[q].bytes <= MaxBytes
    <3> SUFFICES ASSUME NEW q \in OnTheirWay'
                 PROVE  store'[req'[q].link].bytes + req'[q].bytes <= MaxBytes
      OBVIOUS
    <3>1. q \in OnTheirWay /\ q \in Reqs /\ req'[q].link = req[q].link /\ req[q].link \in Links
      BY <1>1, <1>4 DEF Calm
    <3>2. /\ store[req[q].link].bytes \in Nat
          /\ store'[req[q].link].bytes = store[req[q].link].bytes
          /\ req'[q].bytes <= req[q].bytes
      BY <3>1 DEF Calm, TypeOK, Session
    <3>3. store[req[q].link].bytes + req[q].bytes <= MaxBytes  BY <2>1, <3>1 DEF Alone
    <3>4. QED  BY <1>1, <3>1, <3>2, <3>3, UploadAssumption
  <2>5. QED  BY <2>2, <2>3, <2>4 DEF Alone
<1>6. ASSUME ~overlapped, ~blind PROVE Roomy'
  <2>1. Alone /\ Roomy  BY <1>6
  <2>2. CASE free' >= free
    <3>1. free' >= ReserveBytes \/ free' >= DiskSize  BY <1>4, <2>1, <2>2 DEF Roomy
    <3>2. ASSUME NEW q \in OnTheirWay', req'[q].pc = "copying"
          PROVE  free' + req'[q].wrote >= ReserveBytes + req'[q].bytes
      <4>1. /\ q \in OnTheirWay /\ q \in Reqs /\ req[q].pc = "copying"
            /\ req'[q].bytes <= req[q].bytes /\ req'[q].wrote >= req[q].wrote
        BY <1>4, <3>2 DEF Calm
      <4>2. free + req[q].wrote >= ReserveBytes + req[q].bytes  BY <2>1, <4>1 DEF Roomy
      <4>3. QED  BY <1>1, <1>4, <2>2, <4>1, <4>2
    <3>3. QED  BY <3>1, <3>2 DEF Roomy
  <2>3. ASSUME NEW r \in Reqs, Wrote(r) PROVE Roomy'
    <3>1. r \in OnTheirWay /\ req'[r].bytes <= req[r].bytes
      BY <2>3 DEF Wrote, OnTheirWay, Calm
    <3>2. free + req[r].wrote >= ReserveBytes + req[r].bytes  BY <2>1, <2>3, <3>1 DEF Roomy, Wrote
    <3>3. free' >= ReserveBytes  BY <1>1, <1>4, <2>3, <3>1, <3>2 DEF Wrote
    <3>4. \A q \in OnTheirWay' : q = r  BY <2>1, <3>1 DEF Alone, Calm
    <3>5. free' + req'[r].wrote >= ReserveBytes + req'[r].bytes
      BY <1>1, <1>4, <2>3, <3>1, <3>2 DEF Wrote
    <3>6. QED  BY <3>3, <3>4, <3>5 DEF Roomy
  <2>4. QED  BY <2>2, <2>3 DEF Calm
<1>7. QED  BY <1>2, <1>3, <1>5, <1>6

(* Which steps are calm: all but measuring and a Record that succeeds. *)
LEMMA LinkCalm ==
  ASSUME TypeOK, BytesInv, NEW k \in Links, CreateLink(k) \/ Revoke(k) \/ Expire(k)
  PROVE  Calm
<1> USE DEF TypeOK, BytesInv
<1>1. req' = req /\ free' = free /\ free \in Nat  BY DEF CreateLink, Revoke, Expire
<1>2. \A q \in Reqs : req[q].bytes \in Nat /\ req[q].wrote \in Nat  BY DEF Request
<1>3. \A l \in Links : store'[l].bytes = store[l].bytes /\ store'[l].maxBytes <= MaxBytes
  <2> SUFFICES ASSUME NEW l \in Links
               PROVE  store'[l].bytes = store[l].bytes /\ store'[l].maxBytes <= MaxBytes
    OBVIOUS
  <2>1. store[l] \in Session /\ store[l].maxBytes <= MaxBytes  BY DEF Bounded
  <2>2. CASE l # k  BY <2>1, <2>2 DEF CreateLink, Revoke, Expire
  <2>3. CASE l = k /\ CreateLink(k)
    <3>1. store[k].bytes = 0 /\ store'[k] = NewSession(MaxFiles, MaxBytes)
      BY <2>3 DEF CreateLink, NoSession
    <3>2. QED  BY <2>3, <3>1, UploadAssumption DEF NewSession, NoSession
  <2>4. CASE l = k /\ (Revoke(k) \/ Expire(k))
    <3>1. store'[k] \in {Stopped(store[k]), [store[k] EXCEPT !.expired = TRUE]}
      BY <2>4 DEF Revoke, Expire
    <3>2. QED  BY <2>1, <2>4, <3>1 DEF Stopped, Session
  <2>5. QED  BY <2>2, <2>3, <2>4
<1>4. OnTheirWay' = OnTheirWay /\ OnTheirWay \subseteq Reqs  BY <1>1 DEF OnTheirWay
<1>5. QED  BY <1>1, <1>2, <1>3, <1>4 DEF Calm, Parts

LEMMA RequestCalm ==
  ASSUME TypeOK, BytesInv, NEW r \in Reqs, Handler(r) \/ Disconnect(r) \/ \E l \in Links : Lookup(r, l),
         ~Measure(r), ~MeasureBlind(r), ~Record(r)
  PROVE  Calm
<1> USE DEF TypeOK, BytesInv
<1>1. \A q \in Reqs : req[q].bytes \in Nat /\ req[q].wrote \in Nat /\ req[q] \in Request
  BY DEF Request
<1>2. \A l \in Links : store[l] \in Session /\ store[l].bytes \in Nat /\ store[l].maxBytes <= MaxBytes
  BY DEF Bounded, Session
<1>3. free \in Nat /\ Idle.bytes = 0 /\ Idle.wrote = 0  BY DEF Idle
<1>4. ASSUME store' = store
      PROVE  \A l \in Links : store'[l].bytes = store[l].bytes /\ store'[l].maxBytes <= MaxBytes
  BY <1>2, <1>4
<1>5. ASSUME \A q \in Reqs \ {r} : req'[q] = req[q],
             /\ req'[r].bytes <= req[r].bytes /\ req'[r].wrote <= req'[r].bytes
             /\ req'[r].bytes > 0 => r \in OnTheirWay' /\ req'[r].link = req[r].link,
             r \in OnTheirWay' => /\ r \in OnTheirWay /\ req'[r].link = req[r].link
                                  /\ req'[r].pc = "copying" => /\ req[r].pc = "copying"
                                                               /\ req'[r].wrote >= req[r].wrote
      PROVE  /\ OnTheirWay' \subseteq OnTheirWay
             /\ \A q \in Reqs : /\ req'[q].bytes <= req[q].bytes /\ req'[q].wrote <= req'[q].bytes
                                /\ req'[q].bytes > 0 => q \in OnTheirWay' /\ req'[q].link = req[q].link
             /\ \A q \in OnTheirWay' : /\ req'[q].link = req[q].link
                                       /\ req'[q].pc = "copying" => /\ req[q].pc = "copying"
                                                                    /\ req'[q].wrote >= req[q].wrote
  BY <1>1, <1>5 DEF OnTheirWay, Parts
<1>6. ASSUME req' = [req EXCEPT ![r] = Idle], store' = store, free' = free
      PROVE  Calm
  <2>1. r \notin OnTheirWay'  BY <1>6, IdleType DEF OnTheirWay
  <2>2. QED  BY <1>1, <1>3, <1>4, <1>5, <1>6, <2>1 DEF Calm
<1>7. CASE TurnAway(r) \/ EndOfBody(r) \/ ReserveRefused(r)
  BY <1>6, <1>7 DEF TurnAway, EndOfBody, ReserveRefused, Finish, durable
<1>8. CASE Disconnect(r)
  <2>1. req'[r] = [req[r] EXCEPT !.live = FALSE]  BY <1>8 DEF Disconnect
  <2>2. /\ req'[r].bytes = req[r].bytes /\ req'[r].wrote = req[r].wrote
        /\ req'[r].pc = req[r].pc /\ req'[r].link = req[r].link
        /\ \A q \in Reqs \ {r} : req'[q] = req[q]
    BY <1>1, <1>8, <2>1 DEF Disconnect, Request
  <2>3. r \in OnTheirWay' <=> r \in OnTheirWay  BY <2>2 DEF OnTheirWay
  <2>4. store' = store /\ free' = free  BY <1>8 DEF Disconnect, durable
  <2>5. QED  BY <1>1, <1>3, <1>4, <1>5, <2>2, <2>3, <2>4 DEF Calm, Parts
<1>9. ASSUME NEW pc \in PCs \ {"copying", "written", "published"}, r \notin OnTheirWay, Goto(r, pc),
             free' = free,
             \A l \in Links : store'[l].bytes = store[l].bytes /\ store'[l].maxBytes <= MaxBytes
      PROVE  Calm
  <2>1. req'[r] = [req[r] EXCEPT !.pc = pc] /\ \A q \in Reqs \ {r} : req'[q] = req[q]
    BY <1>9 DEF Goto
  <2>2. req'[r].pc = pc /\ req'[r].bytes = req[r].bytes /\ req'[r].wrote = req[r].wrote /\ req[r].bytes = 0
    BY <1>1, <1>9, <2>1 DEF Request, Parts
  <2>3. r \notin OnTheirWay'  BY <1>9, <2>2 DEF OnTheirWay
  <2>4. req[r].wrote <= req[r].bytes  BY DEF Parts
  <2>5. QED  BY <1>3, <1>5, <1>9, <2>1, <2>2, <2>3, <2>4 DEF Calm
<1>10. CASE Accept(r) \/ NoRoom(r)
  <2>1. r \notin OnTheirWay /\ store' = store /\ free' = free
    BY <1>10 DEF Accept, NoRoom, OnTheirWay, durable
  <2>2. QED  BY <1>4, <1>9, <1>10, <2>1 DEF Accept, NoRoom, PCs
<1>11. CASE Reserve(r)
  <2>1. r \notin OnTheirWay /\ free' = free  BY <1>11 DEF Reserve, OnTheirWay
  <2>2. \A l \in Links : Reserved(store[l]).bytes = store[l].bytes /\ Reserved(store[l]).maxBytes <= MaxBytes
    BY <1>2 DEF Reserved, Session
  <2>3. \A l \in Links : store'[l].bytes = store[l].bytes /\ store'[l].maxBytes <= MaxBytes
    BY <1>1, <1>2, <1>11, <2>2 DEF Reserve, Request
  <2>4. QED  BY <1>9, <1>11, <2>1, <2>3 DEF Reserve, PCs
<1>12. CASE \E l \in Links : Lookup(r, l)
  <2>1. PICK l \in Links : req' = [req EXCEPT ![r] = [Idle EXCEPT !.pc = "found", !.link = l]]
    BY <1>12 DEF Lookup
  <2>2. req'[r].pc = "found" /\ req'[r].bytes = 0 /\ req'[r].wrote = 0  BY <2>1 DEF Idle
  <2>3. r \notin OnTheirWay'  BY <2>2 DEF OnTheirWay
  <2>4. store' = store /\ free' = free  BY <1>12 DEF Lookup, durable
  <2>5. QED  BY <1>1, <1>3, <1>4, <1>5, <2>1, <2>2, <2>3, <2>4 DEF Calm
<1>13. ASSUME NEW pc \in PCs \ {"copying", "written", "published"}, Leave(r, pc), store' = store, free' >= free
       PROVE  Calm
  <2>1. req'[r] = [req[r] EXCEPT !.pc = pc, !.bytes = 0, !.wrote = 0] /\ \A q \in Reqs \ {r} : req'[q] = req[q]
    BY <1>13 DEF Leave
  <2>2. req'[r].pc = pc /\ req'[r].bytes = 0 /\ req'[r].wrote = 0  BY <1>1, <2>1 DEF Request
  <2>3. r \notin OnTheirWay'  BY <1>13, <2>2 DEF OnTheirWay
  <2>4. QED  BY <1>1, <1>4, <1>5, <1>13, <2>1, <2>2, <2>3 DEF Calm
<1>14. CASE CopyFails(r) \/ PublishFails(r) \/ RecordFails(r)
  <2>1. store' = store /\ free' >= free
    BY <1>1, <1>3, <1>14 DEF CopyFails, PublishFails, Discard, RecordFails, durable
  <2>2. QED  BY <1>13, <1>14, <2>1 DEF CopyFails, PublishFails, RecordFails, PCs
<1>15. CASE Write(r)
  <2>1. req'[r] = [req[r] EXCEPT !.wrote = req[r].wrote + 1] /\ \A q \in Reqs \ {r} : req'[q] = req[q]
    BY <1>15 DEF Write
  <2>2. /\ req'[r].pc = "copying" /\ req'[r].wrote = req[r].wrote + 1
        /\ req'[r].bytes = req[r].bytes /\ req'[r].link = req[r].link
    BY <1>1, <1>15, <2>1 DEF Request, Write
  <2>3. r \in OnTheirWay /\ r \in OnTheirWay'  BY <1>15, <2>2 DEF Write, OnTheirWay
  <2>4. Wrote(r) /\ store' = store  BY <1>15, <2>2 DEF Wrote, Write
  <2>5. req'[r].wrote <= req'[r].bytes /\ req'[r].wrote >= req[r].wrote  BY <1>1, <1>15, <2>2 DEF Write
  <2>6. req'[r].bytes <= req[r].bytes  BY <1>1, <2>2
  <2>7. QED  BY <1>4, <1>5, <1>15, <2>1, <2>2, <2>3, <2>4, <2>5, <2>6 DEF Calm, Write
<1>16. CASE Copy(r)
  <2>1. /\ req'[r] = [req[r] EXCEPT !.pc = "written", !.bytes = req[r].wrote, !.wrote = 0]
        /\ \A q \in Reqs \ {r} : req'[q] = req[q]
    BY <1>16 DEF Copy
  <2>2. /\ req'[r].pc = "written" /\ req'[r].wrote = 0
        /\ req'[r].bytes = req[r].wrote /\ req'[r].link = req[r].link
    BY <1>1, <2>1 DEF Request
  <2>3. r \in OnTheirWay /\ r \in OnTheirWay'  BY <1>16, <2>2 DEF Copy, OnTheirWay
  <2>4. store' = store /\ free' = free  BY <1>16 DEF Copy, durable
  <2>5. req'[r].bytes <= req[r].bytes /\ req'[r].wrote <= req'[r].bytes  BY <1>1, <2>2 DEF Parts
  <2>6. QED  BY <1>3, <1>4, <1>5, <2>1, <2>2, <2>3, <2>4, <2>5 DEF Calm
<1>17. CASE Publish(r)
  <2>1. /\ req'[r].pc = "published" /\ req'[r].bytes = req[r].bytes /\ req'[r].wrote = req[r].wrote
        /\ req'[r].link = req[r].link
        /\ \A q \in Reqs \ {r} : req'[q] = req[q]
    BY <1>1, <1>17 DEF Publish, Goto, Request
  <2>2. r \in OnTheirWay /\ r \in OnTheirWay'  BY <1>17, <2>1 DEF Publish, OnTheirWay
  <2>3. store' = store /\ free' = free  BY <1>17 DEF Publish
  <2>4. req[r].wrote <= req[r].bytes  BY DEF Parts
  <2>5. QED  BY <1>1, <1>3, <1>4, <1>5, <2>1, <2>2, <2>3, <2>4 DEF Calm
<1>18. CASE Release(r)
  <2>1. \A l \in Links : Released(store[l]).bytes = store[l].bytes /\ Released(store[l]).maxBytes <= MaxBytes
    BY <1>2 DEF Released, Session
  <2>2. \A l \in Links : store'[l].bytes = store[l].bytes /\ store'[l].maxBytes <= MaxBytes
    BY <1>1, <1>2, <1>18, <2>1 DEF Release, Request
  <2>3. req' = [req EXCEPT ![r] = Idle] /\ free' = free  BY <1>18 DEF Release, Finish
  <2>4. r \notin OnTheirWay'  BY <2>3, IdleType DEF OnTheirWay
  <2>5. QED  BY <1>1, <1>3, <1>5, <2>2, <2>3, <2>4 DEF Calm
<1>19. QED
  BY <1>7, <1>8, <1>10, <1>11, <1>12, <1>14, <1>15, <1>16, <1>17, <1>18 DEF Handler

LEMMA RestartCalm ==
  ASSUME TypeOK, BytesInv, Restart
  PROVE  Calm
<1> USE DEF TypeOK, BytesInv
<1>1. \A q \in Reqs : req'[q].pc = "idle" /\ req'[q].bytes = 0 /\ req'[q].wrote = 0 /\ req[q].bytes \in Nat
  BY DEF Restart, Idle, Request
<1>2. OnTheirWay' = {}  BY <1>1 DEF OnTheirWay
<1>3. \A l \in Links : /\ Pruned(store[l]).bytes = store[l].bytes
                       /\ Pruned(store[l]).maxBytes = store[l].maxBytes
  BY DEF Pruned, Session
<1>4. \A l \in Links : store'[l] \in {store[l], Pruned(store[l])}  BY DEF Restart
<1>5. \A l \in Links : store'[l].bytes = store[l].bytes /\ store'[l].maxBytes <= MaxBytes
  BY <1>3, <1>4 DEF Bounded
<1>6. free' >= free  BY DEF Restart
<1>7. QED  BY <1>1, <1>2, <1>5, <1>6 DEF Calm

(* A part is given what is left of the link's limit, and, when Statfs      *)
(* answers, no more than the drive has above its reserve.                  *)
LEMMA MeasureBytes ==
  ASSUME TypeOK, TypeOK', BytesInv, NEW r \in Reqs, Measure(r) \/ MeasureBlind(r),
         overlapped' \in BOOLEAN, overlapped => overlapped',
         blind' \in BOOLEAN, blind => blind', ~blind' => Measure(r),
         ~overlapped' => \A p, q \in OnTheirWay' : p = q
  PROVE  BytesInv'
<1> DEFINE k == req[r].link  b == req'[r].bytes
<1> USE DEF BytesInv
<1>1. /\ k \in Links /\ req[r] \in Request /\ store[k] \in Session
      /\ free \in Nat /\ ReserveBytes \in Nat /\ MaxBytes \in Nat
  BY UploadAssumption DEF TypeOK, Request
<1>2. Remaining(store[k]) <= MaxBytes /\ Remaining(store[k]) \in Nat
      /\ (store[k].bytes + Remaining(store[k]) <= MaxBytes \/ Remaining(store[k]) = 0)
  BY <1>1 DEF Remaining, Session, Bounded
<1>3. /\ store' = store /\ free' = free /\ req[r].pc = "reserved"
      /\ \A q \in Reqs \ {r} : req'[q] = req[q]
  BY <1>1 DEF Measure, MeasureBlind, Allow, durable, TypeOK, Request
<1>4. ASSUME NEW n \in Nat, Allow(r, n)
      PROVE  req'[r].pc = "copying" /\ req'[r].link = k /\ req'[r].wrote = req[r].wrote /\ b = n
  BY <1>1, <1>4 DEF Allow, TypeOK, Request
<1>5. ASSUME Measure(r)
      PROVE  /\ req'[r].pc = "copying" /\ req'[r].link = k /\ req'[r].wrote = req[r].wrote
             /\ b \in Nat /\ b <= Remaining(store[k]) /\ free >= ReserveBytes + b
  <2> DEFINE n == IF free - ReserveBytes < Remaining(store[k])
                  THEN free - ReserveBytes ELSE Remaining(store[k])
  <2>1. free > ReserveBytes /\ Allow(r, n)  BY <1>5 DEF Measure
  <2>2. n \in Nat /\ n <= Remaining(store[k]) /\ free >= ReserveBytes + n  BY <1>1, <1>2, <2>1
  <2> HIDE DEF n
  <2>3. /\ req'[r].pc = "copying" /\ req'[r].link = k /\ req'[r].wrote = req[r].wrote
        /\ b \in Nat /\ b <= Remaining(store[k]) /\ free >= ReserveBytes + b
    BY <1>4, <2>1, <2>2
  <2>4. QED  BY <2>3
<1>6. /\ req'[r].pc = "copying" /\ req'[r].link = k /\ req'[r].wrote = req[r].wrote
      /\ b \in Nat /\ b <= Remaining(store[k])
      /\ Measure(r) => free >= ReserveBytes + b
  <2>1. CASE MeasureBlind(r) /\ ~Measure(r)
    <3>1. Allow(r, Remaining(store[k]))  BY <2>1 DEF MeasureBlind
    <3>2. QED  BY <1>2, <1>4, <2>1, <3>1
  <2>2. QED  BY <1>4, <1>5, <2>1
<1>7. /\ b <= MaxBytes
      /\ b > 0 => store[k].bytes + b <= MaxBytes
  <2>1. store[k].bytes \in Nat  BY <1>1 DEF Session
  <2>2. QED  BY <1>1, <1>2, <1>6, <2>1
<1>8. r \notin OnTheirWay /\ req[r].bytes = 0 /\ req[r].wrote = 0 /\ OnTheirWay' = OnTheirWay \cup {r}
  BY <1>1, <1>3, <1>6 DEF OnTheirWay, Parts, Request
<1>9. Bounded'
  <2> SUFFICES ASSUME NEW l \in Links PROVE Fits(l)'
    BY <1>3 DEF Bounded
  <2>1. r \notin Filling(l)  BY <1>8 DEF Filling
  <2>2. CASE l = k /\ b > 0
    <3>1. Filling(l)' = Filling(l) \cup {r}  BY <1>3, <1>6, <2>2 DEF Filling
    <3>2. QED  BY <1>3, <1>7, <2>1, <2>2, <3>1, FitsMore DEF Bounded
  <2>3. CASE ~(l = k /\ b > 0)
    <3>1. Filling(l)' = Filling(l)  BY <1>3, <1>6, <2>1, <2>3 DEF Filling
    <3>2. \A q \in Filling(l)' : req'[q].bytes <= req[q].bytes
      BY <1>3, <2>1, <3>1 DEF Filling, TypeOK, Request
    <3>3. QED  BY <1>3, <3>1, <3>2, FitsLess DEF Bounded
  <2>4. QED  BY <2>2, <2>3
<1>10. Parts'  BY <1>3, <1>6, <1>7, <1>8 DEF Parts
<1>11. ASSUME ~overlapped' PROVE Alone'
  <2>1. Alone /\ \A q \in OnTheirWay' : q = r  BY <1>8, <1>11
  <2>2. store[k].bytes + b <= MaxBytes
    <3>1. store[k].bytes <= MaxBytes /\ store[k].bytes \in Nat
      BY <1>1, <2>1 DEF Alone, Session
    <3>2. QED  BY <1>6, <1>7, <3>1
  <2>3. QED  BY <1>3, <1>6, <1>11, <2>1, <2>2 DEF Alone
<1>12. ASSUME ~overlapped', ~blind' PROVE Roomy'
  <2>1. Roomy /\ \A q \in OnTheirWay' : q = r  BY <1>8, <1>12
  <2>2. free' + req'[r].wrote >= ReserveBytes + b  BY <1>1, <1>3, <1>6, <1>8, <1>12
  <2>3. QED  BY <1>3, <2>1, <2>2 DEF Roomy
<1>13. QED  BY <1>9, <1>10, <1>11, <1>12

(* Record moves the bytes of a part to its link. *)
LEMMA RecordBytes ==
  ASSUME TypeOK, TypeOK', BytesInv, NEW r \in Reqs, Record(r),
         overlapped' \in BOOLEAN, overlapped => overlapped', blind' \in BOOLEAN, blind => blind'
  PROVE  BytesInv'
<1> DEFINE k == req[r].link  b == req[r].bytes
<1> USE DEF BytesInv
<1>1. /\ k \in Links /\ req[r] \in Request /\ store[k] \in Session /\ b \in Nat /\ MaxBytes \in Nat
  BY UploadAssumption DEF TypeOK, Request
<1>2. /\ store' = [store EXCEPT ![k] = Recorded(store[k], b)] /\ free' = free
      /\ \A q \in Reqs \ {r} : req'[q] = req[q]
      /\ req'[r].pc = "parts" /\ req'[r].bytes = 0 /\ req'[r].wrote = 0 /\ req'[r].link = k
  BY <1>1 DEF Record, Leave, TypeOK, Request
<1>3. /\ store'[k].bytes = store[k].bytes + b /\ store'[k].maxBytes = store[k].maxBytes
      /\ \A l \in Links \ {k} : store'[l] = store[l]
  BY <1>1, <1>2 DEF Recorded, Session, TypeOK
<1>4. r \in OnTheirWay /\ r \notin OnTheirWay' /\ OnTheirWay' \subseteq OnTheirWay
  BY <1>2 DEF OnTheirWay, Record
<1>5. Bounded'
  <2> SUFFICES ASSUME NEW l \in Links PROVE Fits(l)'
    BY <1>3 DEF Bounded
  <2>1. r \notin Filling(l)'  BY <1>2 DEF Filling
  <2>2. CASE l = k /\ b > 0
    <3>1. r \in Filling(l) /\ Filling(l)' = Filling(l) \ {r}  BY <1>2, <2>1, <2>2 DEF Filling
    <3>2. \A q \in Filling(l)' : req'[q].bytes = req[q].bytes  BY <1>2, <3>1 DEF Filling
    <3>3. Fits(l) /\ b <= MaxBytes  BY DEF Bounded, Parts
    <3>4. QED  BY <1>3, <2>2, <3>1, <3>2, <3>3, FitsRecorded
  <2>3. CASE ~(l = k /\ b > 0)
    <3>1. store'[l].bytes = store[l].bytes  BY <1>1, <1>3, <2>3 DEF Session
    <3>2. Filling(l)' \subseteq Filling(l)  BY <1>2, <2>1 DEF Filling
    <3>3. \A q \in Filling(l)' : req'[q].bytes <= req[q].bytes
      BY <1>2, <2>1 DEF Filling, TypeOK, Request
    <3>4. QED  BY <3>1, <3>2, <3>3, FitsLess DEF Bounded
  <2>4. QED  BY <2>2, <2>3
<1>6. Parts'  BY <1>1, <1>2, <1>4 DEF Parts, OnTheirWay
<1>7. ASSUME ~overlapped' PROVE Alone'
  <2>1. Alone /\ OnTheirWay' = {}  BY <1>4, <1>7 DEF Alone
  <2>2. store[k].bytes + b <= MaxBytes  BY <1>4, <2>1 DEF Alone
  <2>3. QED  BY <1>2, <1>3, <2>1, <2>2 DEF Alone
<1>8. ASSUME ~overlapped', ~blind' PROVE Roomy'
  <2>1. Alone /\ Roomy /\ OnTheirWay' = {}  BY <1>4, <1>8 DEF Alone
  <2>2. QED  BY <1>2, <2>1 DEF Roomy
<1>9. QED  BY <1>5, <1>6, <1>7, <1>8

-------------------------------------------------------------------------------
(* What a link put on the drive, beside what is recorded for it.           *)

(* Saved parts of l whose size is still to be recorded, and what each has. *)
Due(l) == {r \in Reqs : req[r].link = l /\ req[r].pc = "published" /\ req[r].bytes > 0}
Owes(l, r) == IF r \in Due(l) THEN req[r].bytes ELSE 0

(* f adds up what sets of requests owe. *)
AddsUp(l, f) ==
  /\ f \in [SUBSET Reqs -> Nat]
  /\ \A S \in SUBSET Reqs : \A r \in Reqs \ S : f[S \cup {r}] = f[S] + Owes(l, r)
  /\ \A S \in SUBSET Reqs : f[S] <= MaxBytes * Cardinality(S \cap Due(l))

(* The bytes on the drive are recorded, owed, or were missed. *)
Covered(l) ==
  \E f : AddsUp(l, f) /\ taken[l] <= store[l].bytes + f[Reqs] + MaxBytes * missed[l]

TakenInv == missed \in [Links -> Nat] /\ \A l \in Links : Covered(l)

(* Nothing published, recorded or lost on the link. *)
LEMMA CoveredSame ==
  ASSUME TypeOK, TypeOK', TakenInv, missed' \in [Links -> Nat], NEW l \in Links,
         taken'[l] = taken[l], store'[l].bytes >= store[l].bytes, missed'[l] >= missed[l],
         Due(l)' = Due(l), \A r \in Due(l) : req'[r].bytes = req[r].bytes
  PROVE  Covered(l)'
<1>1. PICK f : AddsUp(l, f) /\ taken[l] <= store[l].bytes + f[Reqs] + MaxBytes * missed[l]
  BY DEF TakenInv, Covered
<1>2. \A r \in Reqs : Owes(l, r)' = Owes(l, r)  BY DEF Owes
<1>3. AddsUp(l, f)'  BY <1>1, <1>2 DEF AddsUp
<1>4. MaxBytes * missed[l] <= MaxBytes * missed'[l] /\ MaxBytes * missed[l] \in Nat /\ MaxBytes * missed'[l] \in Nat
  BY Times, UploadAssumption DEF TakenInv
<1>5. /\ store[l].bytes \in Nat /\ store'[l].bytes \in Nat /\ taken[l] \in Nat /\ f[Reqs] \in Nat
  BY <1>1 DEF TypeOK, Session, AddsUp
<1>6. taken'[l] <= store'[l].bytes + f[Reqs] + MaxBytes * missed'[l]
  BY <1>1, <1>4, <1>5
<1>7. QED  BY <1>3, <1>6 DEF Covered

(* A file with bytes was published: its request owes them. *)
LEMMA CoveredPublish ==
  ASSUME TypeOK, TypeOK', TakenInv, missed' \in [Links -> Nat], NEW l \in Links, NEW r \in Reqs,
         r \notin Due(l), Due(l)' = Due(l) \cup {r}, req'[r].bytes <= MaxBytes,
         taken'[l] = taken[l] + req'[r].bytes, store'[l].bytes = store[l].bytes, missed'[l] >= missed[l],
         \A q \in Due(l) : req'[q].bytes = req[q].bytes
  PROVE  Covered(l)'
<1> DEFINE b == req'[r].bytes
<1>1. PICK f : AddsUp(l, f) /\ taken[l] <= store[l].bytes + f[Reqs] + MaxBytes * missed[l]
  BY DEF TakenInv, Covered
<1>2. b \in Nat /\ MaxBytes \in Nat  BY UploadAssumption DEF TypeOK, Request
<1>3. f \in [SUBSET Reqs -> Nat]  BY <1>1 DEF AddsUp
<1>4. PICK g : g = [S \in SUBSET Reqs |-> f[S] + (IF r \in S THEN b ELSE 0)]
  OBVIOUS
<1> HIDE DEF b
<1>5. g \in [SUBSET Reqs -> Nat] /\ \A S \in SUBSET Reqs : g[S] = f[S] + (IF r \in S THEN b ELSE 0)
  BY <1>2, <1>3, <1>4
<1>6. /\ Owes(l, r) = 0 /\ Owes(l, r)' = b
      /\ \A q \in Reqs \ {r} : Owes(l, q)' = Owes(l, q)
  BY DEF Owes, b
<1>7. ASSUME NEW S \in SUBSET Reqs, NEW q \in Reqs \ S
      PROVE  g[S \cup {q}] = g[S] + Owes(l, q)'
  <2>1. S \cup {q} \in SUBSET Reqs  OBVIOUS
  <2>2. f[S \cup {q}] = f[S] + Owes(l, q) /\ f[S] \in Nat /\ Owes(l, q) \in Nat
    BY <1>1, <1>3 DEF AddsUp, Owes, TypeOK, Request
  <2>3. CASE q = r
    <3>1. g[S \cup {q}] = f[S \cup {q}] + b /\ g[S] = f[S]  BY <1>2, <1>5, <2>1, <2>2, <2>3
    <3>2. QED  BY <1>2, <1>6, <2>2, <2>3, <3>1
  <2>4. CASE q # r
    <3>1. Owes(l, q)' = Owes(l, q)  BY <1>6, <2>4
    <3>2. r \in S \cup {q} <=> r \in S  BY <2>4
    <3>3. QED  BY <1>2, <1>5, <2>1, <2>2, <3>1, <3>2
  <2>5. QED  BY <2>3, <2>4
<1>8. ASSUME NEW S \in SUBSET Reqs
      PROVE  g[S] <= MaxBytes * Cardinality(S \cap Due(l)')
  <2> DEFINE C == S \cap Due(l)  D == S \cap Due(l)'
  <2>1. C \in SUBSET Reqs /\ Cardinality(C) \in Nat  BY Counting
  <2>2. f[S] <= MaxBytes * Cardinality(C) /\ f[S] \in Nat  BY <1>1, <1>3 DEF AddsUp
  <2>3. CASE r \in S
    <3>1. D = C \cup {r} /\ r \notin C  BY <2>3
    <3>2. Cardinality(D) = Cardinality(C) + 1  BY <2>1, <3>1, Counting
    <3>3. MaxBytes * Cardinality(D) = MaxBytes * Cardinality(C) + MaxBytes /\ MaxBytes * Cardinality(C) \in Nat
      BY <1>2, <2>1, <3>2, OneMore
    <3>4. g[S] = f[S] + b  BY <1>5, <2>3
    <3>5. QED  BY <1>2, <2>2, <3>3, <3>4 DEF b
  <2>4. CASE r \notin S
    <3>1. D = C /\ g[S] = f[S]  BY <1>5, <2>2, <2>4
    <3>2. QED  BY <2>2, <3>1
  <2>5. QED  BY <2>3, <2>4
<1>9. g[Reqs] = f[Reqs] + b /\ f[Reqs] \in Nat  BY <1>3, <1>5
<1>10. AddsUp(l, g)'  BY <1>5, <1>7, <1>8 DEF AddsUp
<1>11. MaxBytes * missed[l] <= MaxBytes * missed'[l] /\ MaxBytes * missed[l] \in Nat /\ MaxBytes * missed'[l] \in Nat
  BY Times, UploadAssumption DEF TakenInv
<1>12. store[l].bytes \in Nat /\ taken[l] \in Nat  BY DEF TypeOK, Session
<1>13. taken'[l] <= store'[l].bytes + g[Reqs] + MaxBytes * missed'[l]
  BY <1>1, <1>2, <1>9, <1>11, <1>12 DEF b
<1>14. QED  BY <1>10, <1>13 DEF Covered

(* A file that was owed is settled: recorded, or missed for good. *)
LEMMA CoveredSettle ==
  ASSUME TypeOK, TypeOK', TakenInv, missed' \in [Links -> Nat], NEW l \in Links, NEW r \in Due(l),
         Due(l)' = Due(l) \ {r}, req[r].bytes <= MaxBytes, taken'[l] = taken[l],
         \/ store'[l].bytes = store[l].bytes + req[r].bytes /\ missed'[l] >= missed[l]
         \/ store'[l].bytes = store[l].bytes /\ missed'[l] >= missed[l] + 1,
         \A q \in Due(l) \ {r} : req'[q].bytes = req[q].bytes
  PROVE  Covered(l)'
<1> DEFINE b == req[r].bytes
<1>1. PICK f : AddsUp(l, f) /\ taken[l] <= store[l].bytes + f[Reqs] + MaxBytes * missed[l]
  BY DEF TakenInv, Covered
<1>2. r \in Reqs /\ b \in Nat /\ MaxBytes \in Nat  BY UploadAssumption DEF TypeOK, Request, Due
<1>3. f \in [SUBSET Reqs -> Nat]  BY <1>1 DEF AddsUp
<1>4. PICK g : g = [S \in SUBSET Reqs |-> f[S \ {r}]]
  OBVIOUS
<1>5. g \in [SUBSET Reqs -> Nat] /\ \A S \in SUBSET Reqs : g[S] = f[S \ {r}]
  BY <1>3, <1>4
<1>6. /\ Owes(l, r) = b /\ Owes(l, r)' = 0
      /\ \A q \in Reqs \ {r} : Owes(l, q)' = Owes(l, q)
  BY DEF Owes
<1>7. ASSUME NEW S \in SUBSET Reqs, NEW q \in Reqs \ S
      PROVE  g[S \cup {q}] = g[S] + Owes(l, q)'
  <2>1. S \cup {q} \in SUBSET Reqs /\ S \ {r} \in SUBSET Reqs  OBVIOUS
  <2>2. CASE q = r
    <3>1. (S \cup {q}) \ {r} = S \ {r}  BY <2>2
    <3>2. g[S \cup {q}] = g[S] /\ g[S] \in Nat  BY <1>5, <2>1, <3>1
    <3>3. QED  BY <1>6, <2>2, <3>2
  <2>3. CASE q # r
    <3>1. (S \cup {q}) \ {r} = (S \ {r}) \cup {q} /\ q \in Reqs \ (S \ {r})  BY <2>3
    <3>2. f[(S \ {r}) \cup {q}] = f[S \ {r}] + Owes(l, q)  BY <1>1, <2>1, <3>1 DEF AddsUp
    <3>3. QED  BY <1>5, <1>6, <2>1, <2>3, <3>1, <3>2
  <2>4. QED  BY <2>2, <2>3
<1>8. ASSUME NEW S \in SUBSET Reqs
      PROVE  g[S] <= MaxBytes * Cardinality(S \cap Due(l)')
  <2>1. (S \ {r}) \cap Due(l) = S \cap Due(l)' /\ S \ {r} \in SUBSET Reqs  OBVIOUS
  <2>2. f[S \ {r}] <= MaxBytes * Cardinality((S \ {r}) \cap Due(l))  BY <1>1, <2>1 DEF AddsUp
  <2>3. QED  BY <1>5, <2>1, <2>2
<1>9. AddsUp(l, g)'  BY <1>5, <1>7, <1>8 DEF AddsUp
<1>10. f[Reqs] = g[Reqs] + b /\ g[Reqs] \in Nat
  <2>1. Reqs \ {r} \in SUBSET Reqs /\ r \in Reqs \ (Reqs \ {r}) /\ (Reqs \ {r}) \cup {r} = Reqs
    BY <1>2
  <2>2. f[(Reqs \ {r}) \cup {r}] = f[Reqs \ {r}] + Owes(l, r)  BY <1>1, <2>1 DEF AddsUp
  <2>3. QED  BY <1>5, <1>6, <2>1, <2>2
<1>11. /\ store[l].bytes \in Nat /\ store'[l].bytes \in Nat /\ taken[l] \in Nat
       /\ missed[l] \in Nat /\ missed'[l] \in Nat
  BY DEF TypeOK, Session, TakenInv
<1>12. taken'[l] <= store'[l].bytes + g[Reqs] + MaxBytes * missed'[l]
  <2>1. MaxBytes * missed[l] \in Nat /\ MaxBytes * missed'[l] \in Nat  BY <1>2, <1>11, Times
  <2>2. CASE store'[l].bytes = store[l].bytes + b /\ missed'[l] >= missed[l]
    <3>1. MaxBytes * missed[l] <= MaxBytes * missed'[l]  BY <1>2, <1>11, <2>2, Times
    <3>2. QED  BY <1>1, <1>2, <1>10, <1>11, <2>1, <2>2, <3>1
  <2>3. CASE store'[l].bytes = store[l].bytes /\ missed'[l] >= missed[l] + 1
    <3>1. MaxBytes * (missed[l] + 1) = MaxBytes * missed[l] + MaxBytes  BY <1>2, <1>11, OneMore
    <3>2. MaxBytes * (missed[l] + 1) <= MaxBytes * missed'[l]
      BY <1>2, <1>11, <2>3, Times
    <3>3. QED  BY <1>1, <1>2, <1>10, <1>11, <2>1, <2>3, <3>1, <3>2
  <2>4. QED  BY <2>2, <2>3
<1>13. QED  BY <1>9, <1>12 DEF Covered

(* vaultd is killed: everything owed is missed. *)
LEMMA CoveredLost ==
  ASSUME TypeOK, TypeOK', TakenInv, missed' \in [Links -> Nat], NEW l \in Links,
         Due(l)' = {}, taken'[l] = taken[l], store'[l].bytes = store[l].bytes,
         missed'[l] >= missed[l] + Cardinality(Due(l))
  PROVE  Covered(l)'
<1>1. PICK f : AddsUp(l, f) /\ taken[l] <= store[l].bytes + f[Reqs] + MaxBytes * missed[l]
  BY DEF TakenInv, Covered
<1>2. PICK g : g = [S \in SUBSET Reqs |-> 0]
  OBVIOUS
<1>3. AddsUp(l, g)'
  <2>1. \A r \in Reqs : Owes(l, r)' = 0  BY DEF Owes
  <2>2. \A S \in SUBSET Reqs : MaxBytes * Cardinality(S \cap Due(l)') = 0
    BY FS_EmptySet, UploadAssumption
  <2>3. g \in [SUBSET Reqs -> Nat] /\ \A S \in SUBSET Reqs : g[S] = 0  BY <1>2
  <2>4. \A S \in SUBSET Reqs : \A r \in Reqs \ S : g[S \cup {r}] = g[S] + Owes(l, r)'
    BY <2>1, <2>3
  <2>5. ASSUME NEW S \in SUBSET Reqs PROVE g[S] <= MaxBytes * Cardinality(S \cap Due(l)')
    <3>1. g[S] = 0 /\ MaxBytes * Cardinality(S \cap Due(l)') = 0  BY <2>2, <2>3
    <3>2. QED  BY <3>1
  <2>6. QED  BY <2>3, <2>4, <2>5 DEF AddsUp
<1>4. /\ Cardinality(Due(l)) \in Nat /\ f[Reqs] \in Nat /\ Reqs \cap Due(l) = Due(l)
      /\ f[Reqs] <= MaxBytes * Cardinality(Due(l))
  <2>1. Due(l) \in SUBSET Reqs /\ Reqs \cap Due(l) = Due(l)  BY DEF Due
  <2>2. f[Reqs] \in Nat /\ f[Reqs] <= MaxBytes * Cardinality(Reqs \cap Due(l))  BY <1>1 DEF AddsUp
  <2>3. QED  BY <2>1, <2>2, Counting
<1>5. /\ store[l].bytes \in Nat /\ taken[l] \in Nat /\ MaxBytes \in Nat
      /\ missed[l] \in Nat /\ missed'[l] \in Nat
  BY UploadAssumption DEF TypeOK, Session, TakenInv
<1>6. MaxBytes * missed[l] + MaxBytes * Cardinality(Due(l)) <= MaxBytes * missed'[l]
  <2> DEFINE c == Cardinality(Due(l))
  <2>1. MaxBytes * (missed[l] + c) <= MaxBytes * missed'[l]  BY <1>4, <1>5, Times
  <2>2. MaxBytes * (missed[l] + c) = MaxBytes * missed[l] + MaxBytes * c  BY <1>4, <1>5
  <2>3. QED  BY <2>1, <2>2
<1>7. MaxBytes * missed[l] \in Nat /\ MaxBytes * missed'[l] \in Nat /\ MaxBytes * Cardinality(Due(l)) \in Nat
  BY <1>4, <1>5, Times
<1>8. taken'[l] <= store'[l].bytes + g[Reqs] + MaxBytes * missed'[l]
  BY <1>1, <1>2, <1>4, <1>5, <1>6, <1>7
<1>9. QED  BY <1>3, <1>8 DEF Covered

(* The history never forgets a missed size, and no step of a request that  *)
(* is neither published nor about to be touches what is owed.              *)
LEMMA MissedStep ==
  ASSUME TypeOK, TakenInv, MCNext
  PROVE  /\ missed' \in [Links -> Nat]
         /\ \A l \in Links : /\ missed'[l] >= missed[l]
                             /\ missed'[l] = missed[l] + Cardinality(Unrecorded(l))
<1>1. \A l \in Links : Cardinality(Unrecorded(l)) \in Nat  BY Counting DEF Unrecorded
<1>2. QED  BY <1>1 DEF MCNext, TakenInv

LEMMA DueSame ==
  ASSUME TypeOK, NEW r \in Reqs, \A q \in Reqs \ {r} : req'[q] = req[q],
         \/ req[r].pc # "published" /\ req'[r].pc # "published"
         \/ req'[r].pc = req[r].pc /\ req'[r].link = req[r].link /\ req'[r].bytes = req[r].bytes,
         NEW l \in Links
  PROVE  Due(l)' = Due(l) /\ \A q \in Due(l) : req'[q].bytes = req[q].bytes
BY DEF Due

LEMMA QuietDue ==
  ASSUME TypeOK, NEW r \in Reqs, ~RecordFails(r), Quiet(r) \/ Reserve(r) \/ Release(r), NEW l \in Links
  PROVE  taken' = taken /\ Due(l)' = Due(l) /\ \A q \in Due(l) : req'[q].bytes = req[q].bytes
<1> USE DEF TypeOK
<1>1. CASE Disconnect(r)
  <2>1. req'[r] = [req[r] EXCEPT !.live = FALSE] /\ \A q \in Reqs \ {r} : req'[q] = req[q]
    BY <1>1 DEF Disconnect
  <2>2. req'[r].pc = req[r].pc /\ req'[r].link = req[r].link /\ req'[r].bytes = req[r].bytes
    BY <2>1 DEF Request
  <2>3. QED  BY <1>1, <2>1, <2>2, DueSame DEF Disconnect, durable
<1>2. CASE ~Disconnect(r)
  <2>1. taken' = taken
    BY <1>2 DEF Quiet, TurnAway, Accept, EndOfBody, ReserveRefused, Measure, MeasureBlind, NoRoom,
                Write, Copy, CopyFails, PublishFails, Lookup, Reserve, Release, durable
  <2>2. /\ req[r].pc # "published" /\ req'[r].pc # "published"
        /\ \A q \in Reqs \ {r} : req'[q] = req[q]
    <3>1. CASE TurnAway(r) \/ EndOfBody(r) \/ ReserveRefused(r) \/ Release(r)
      BY <3>1, IdleType DEF TurnAway, EndOfBody, ReserveRefused, Release, Finish
    <3>2. CASE Accept(r) \/ NoRoom(r) \/ Reserve(r)
      BY <3>2 DEF Accept, NoRoom, Reserve, Goto, Request
    <3>3. CASE Measure(r) \/ MeasureBlind(r) \/ Write(r) \/ Copy(r)
      BY <3>3 DEF Measure, MeasureBlind, Allow, Write, Copy, Request
    <3>4. CASE CopyFails(r) \/ PublishFails(r)
      BY <3>4 DEF CopyFails, PublishFails, Leave, Request
    <3>5. ASSUME NEW k \in Links, Lookup(r, k)
          PROVE  /\ req[r].pc # "published" /\ req'[r].pc # "published"
                 /\ \A q \in Reqs \ {r} : req'[q] = req[q]
      <4>1. [Idle EXCEPT !.pc = "found", !.link = k].pc = "found"  BY IdleType DEF Request
      <4>2. QED  BY <3>5, <4>1 DEF Lookup, Open
    <3>6. QED  BY <1>2, <3>1, <3>2, <3>3, <3>4, <3>5 DEF Quiet
  <2>3. QED  BY <2>1, <2>2, DueSame
<1>3. QED  BY <1>1, <1>2

LEMMA TakenStep ==
  ASSUME TypeOK, TypeOK', BytesInv, TakenInv, [MCNext]_<<vars, history>>
  PROVE  TakenInv'
<1>1. CASE UNCHANGED <<vars, history>>
  <2>1. \A l \in Links : Due(l)' = Due(l)  BY <1>1 DEF Due, vars
  <2>2. missed' = missed /\ taken' = taken /\ store' = store /\ req' = req
    BY <1>1 DEF vars, durable, history
  <2>3. missed' \in [Links -> Nat]  BY <2>2 DEF TakenInv
  <2>4. ASSUME NEW l \in Links PROVE Covered(l)'
    <3>1. store[l].bytes \in Nat /\ missed[l] \in Nat  BY DEF TypeOK, Session, TakenInv
    <3>2. QED  BY <2>1, <2>2, <2>3, <3>1, CoveredSame
  <2>5. QED  BY <2>3, <2>4 DEF TakenInv
<1>2. CASE MCNext
  <2>1. /\ missed' \in [Links -> Nat]
        /\ \A l \in Links : /\ missed'[l] >= missed[l]
                            /\ missed'[l] = missed[l] + Cardinality(Unrecorded(l))
    BY <1>2, MissedStep
  <2> SUFFICES ASSUME NEW l \in Links PROVE Covered(l)'
    BY <2>1 DEF TakenInv
  <2>2. store[l].bytes \in Nat /\ missed[l] \in Nat /\ \A r \in Reqs : req[r].bytes \in Nat /\ req[r] \in Request
    BY DEF TypeOK, Session, TakenInv, Request
  <2>3. ASSUME NEW k \in Links, CreateLink(k) \/ Revoke(k) \/ Expire(k) PROVE Covered(l)'
    <3>1. store'[l].bytes = store[l].bytes  BY <2>3, LinkCalm DEF Calm
    <3>2. req' = req /\ taken' = taken  BY <2>3 DEF CreateLink, Revoke, Expire
    <3>3. Due(l)' = Due(l)  BY <3>2 DEF Due
    <3>4. QED  BY <2>1, <2>2, <3>1, <3>2, <3>3, CoveredSame
  <2>4. ASSUME NEW r \in Reqs, ~RecordFails(r), Quiet(r) \/ Reserve(r) \/ Release(r) PROVE Covered(l)'
    <3>1. store'[l].bytes = store[l].bytes
      <4>1. CASE Quiet(r)  BY <2>4, <4>1, QuietMoves
      <4>2. CASE Reserve(r) \/ Release(r)
        <5>1. store'[l] \in {store[l], Reserved(store[l]), Released(store[l])} /\ store[l] \in Session
          BY <4>2 DEF Reserve, Release, TypeOK, Request
        <5>2. QED  BY <5>1 DEF Reserved, Released, Session
      <4>3. QED  BY <2>4, <4>1, <4>2
    <3>2. taken' = taken /\ Due(l)' = Due(l) /\ \A q \in Due(l) : req'[q].bytes = req[q].bytes
      BY <2>4, QuietDue
    <3>3. QED  BY <2>1, <2>2, <3>1, <3>2, CoveredSame
  <2>5. ASSUME NEW r \in Reqs, Publish(r) PROVE Covered(l)'
    <3>1. /\ req[r].pc = "written" /\ req'[r] = [req[r] EXCEPT !.pc = "published"]
          /\ \A q \in Reqs \ {r} : req'[q] = req[q]
          /\ taken' = [taken EXCEPT ![req[r].link] = @ + req[r].bytes] /\ store' = store
      BY <2>5 DEF Publish, Goto, TypeOK
    <3>2. req'[r].pc = "published" /\ req'[r].link = req[r].link /\ req'[r].bytes = req[r].bytes
      BY <2>2, <3>1 DEF Request
    <3>3. r \notin Due(l) /\ \A q \in Due(l) : req'[q].bytes = req[q].bytes  BY <3>1 DEF Due
    <3>4. CASE req[r].link = l /\ req[r].bytes > 0
      <4>1. Due(l)' = Due(l) \cup {r}  BY <3>1, <3>2, <3>4 DEF Due
      <4>2. taken'[l] = taken[l] + req'[r].bytes  BY <3>1, <3>2, <3>4 DEF TypeOK
      <4>3. req'[r].bytes <= MaxBytes  BY <3>2 DEF BytesInv, Parts
      <4>4. QED  BY <2>1, <3>1, <3>3, <4>1, <4>2, <4>3, CoveredPublish
    <3>5. CASE ~(req[r].link = l /\ req[r].bytes > 0)
      <4>1. Due(l)' = Due(l)  BY <2>2, <3>1, <3>2, <3>5 DEF Due
      <4>2. taken'[l] = taken[l]  BY <2>2, <3>1, <3>5 DEF TypeOK
      <4>3. QED  BY <2>1, <2>2, <3>1, <3>3, <4>1, <4>2, CoveredSame
    <3>6. QED  BY <3>4, <3>5
  <2>6. ASSUME NEW r \in Reqs, Record(r) \/ RecordFails(r) PROVE Covered(l)'
    <3>1. /\ req[r].pc = "published" /\ req'[r].pc = "parts"
          /\ \A q \in Reqs \ {r} : req'[q] = req[q]
          /\ taken' = taken
      BY <2>2, <2>6 DEF Record, RecordFails, Leave, TypeOK, Request, durable
    <3>2. CASE r \in Due(l)
      <4>1. Due(l)' = Due(l) \ {r} /\ \A q \in Due(l) \ {r} : req'[q].bytes = req[q].bytes
        BY <3>1 DEF Due
      <4>2. \/ store'[l].bytes = store[l].bytes + req[r].bytes
            \/ store'[l].bytes = store[l].bytes /\ missed'[l] >= missed[l] + 1
        <5>1. CASE Record(r)
          <6>1. store'[l] = Recorded(store[l], req[r].bytes) /\ store[l] \in Session
            BY <3>2, <5>1 DEF Record, Due, TypeOK
          <6>2. QED  BY <6>1 DEF Recorded, Session
        <5>2. CASE RecordFails(r)
          <6>1. r \in Unrecorded(l)  BY <3>1, <3>2, <5>2 DEF Unrecorded, Due
          <6>2. Cardinality(Unrecorded(l)) > 0 /\ Cardinality(Unrecorded(l)) \in Nat
            BY <6>1, Counting DEF Unrecorded
          <6>3. store' = store  BY <5>2 DEF RecordFails, durable
          <6>4. QED  BY <2>1, <2>2, <6>2, <6>3
        <5>3. QED  BY <2>6, <5>1, <5>2
      <4>3. req[r].bytes <= MaxBytes  BY DEF BytesInv, Parts
      <4>4. QED  BY <2>1, <3>1, <3>2, <4>1, <4>2, <4>3, CoveredSettle
    <3>3. CASE r \notin Due(l)
      <4>1. Due(l)' = Due(l) /\ \A q \in Due(l) : req'[q].bytes = req[q].bytes
        BY <3>1, <3>3 DEF Due
      <4>2. store'[l].bytes >= store[l].bytes
        <5>1. /\ store[l] \in Session /\ store[l].bytes + req[r].bytes >= store[l].bytes
              /\ store'[l] \in {store[l], Recorded(store[l], req[r].bytes)}
          BY <2>2, <2>6 DEF Record, RecordFails, durable, TypeOK
        <5>2. QED  BY <2>2, <5>1 DEF Recorded, Session
      <4>3. QED  BY <2>1, <3>1, <4>1, <4>2, CoveredSame
    <3>4. QED  BY <3>2, <3>3
  <2>7. ASSUME Restart PROVE Covered(l)'
    <3>1. store'[l].bytes = store[l].bytes  BY <2>7, RestartCalm DEF Calm
    <3>2. taken' = taken /\ \A r \in Reqs : req'[r].pc = "idle"  BY <2>7, IdleType DEF Restart
    <3>3. Due(l)' = {}  BY <3>2 DEF Due
    <3>4. Due(l) \subseteq Unrecorded(l)  BY <2>7, <3>2 DEF Due, Unrecorded
    <3>5. Cardinality(Due(l)) <= Cardinality(Unrecorded(l)) /\ Cardinality(Due(l)) \in Nat
          /\ Cardinality(Unrecorded(l)) \in Nat
      <4>1. Due(l) \in SUBSET Reqs /\ Unrecorded(l) \in SUBSET Reqs  BY DEF Due, Unrecorded
      <4>2. QED  BY <3>4, <4>1, Counting, FS_Subset
    <3>6. missed'[l] >= missed[l] + Cardinality(Due(l))  BY <2>1, <2>2, <3>5
    <3>7. QED  BY <2>1, <3>1, <3>2, <3>3, <3>6, CoveredLost
  <2>8. QED
    BY <1>2, <2>3, <2>4, <2>5, <2>6, <2>7 DEF MCNext, Next, Handler, Quiet
<1>3. QED  BY <1>1, <1>2

-------------------------------------------------------------------------------

LEMMA BytesStep ==
  ASSUME TypeOK, TypeOK', BytesInv, [MCNext]_<<vars, history>>
  PROVE  BytesInv'
<1>1. CASE UNCHANGED <<vars, history>>
  <2>1. OnTheirWay' = OnTheirWay /\ \A l \in Links : Filling(l)' = Filling(l)
    BY <1>1 DEF OnTheirWay, Filling, vars
  <2>2. Bounded'
    BY <1>1, <2>1 DEF BytesInv, Bounded, Fits, Spare, vars, durable
  <2>3. QED  BY <1>1, <2>1, <2>2 DEF BytesInv, Parts, Alone, Roomy, vars, durable, history
<1>2. CASE MCNext
  <2>1. /\ overlapped' \in BOOLEAN /\ (overlapped => overlapped')
        /\ blind' \in BOOLEAN /\ (blind => blind')
    BY <1>2 DEF MCNext, BytesInv
  <2>2. ASSUME ~overlapped' PROVE \A p, q \in OnTheirWay' : p = q
    <3>1. OnTheirWay' \in SUBSET Reqs  BY DEF OnTheirWay
    <3>2. Cardinality(OnTheirWay') \in Nat /\ ~(Cardinality(OnTheirWay') > 1)
      BY <1>2, <2>2, <3>1, Counting DEF MCNext
    <3> SUFFICES ASSUME NEW p \in OnTheirWay', NEW q \in OnTheirWay', p # q PROVE FALSE
      OBVIOUS
    <3>3. Cardinality(OnTheirWay' \ {p}) = 0
      <4>1. /\ Cardinality(OnTheirWay' \ {p}) = Cardinality(OnTheirWay') - 1
            /\ Cardinality(OnTheirWay') > 0
        BY <3>1, Counting
      <4>2. QED  BY <3>2, <4>1
    <3>4. OnTheirWay' \ {p} \in SUBSET Reqs /\ q \in OnTheirWay' \ {p}  BY <3>1
    <3>5. Cardinality(OnTheirWay' \ {p}) > 0  BY <3>1, <3>4, Counting
    <3>6. QED  BY <3>3, <3>5
  <2>3. CASE Calm  BY <2>1, <2>3, CalmStep
  <2>4. ASSUME NEW l \in Links, CreateLink(l) \/ Revoke(l) \/ Expire(l) PROVE Calm
    BY <2>4, LinkCalm
  <2>5. ASSUME NEW r \in Reqs, Handler(r) \/ Disconnect(r) \/ \E l \in Links : Lookup(r, l)
        PROVE  BytesInv'
    <3>1. CASE Measure(r) \/ MeasureBlind(r)
      <4>1. ~blind' => Measure(r)  BY <1>2, <3>1 DEF MCNext, BytesInv
      <4>2. QED  BY <2>1, <2>2, <3>1, <4>1, MeasureBytes
    <3>2. CASE Record(r)  BY <2>1, <3>2, RecordBytes
    <3>3. QED  BY <2>3, <2>5, <3>1, <3>2, RequestCalm
  <2>6. CASE Restart  BY <2>3, <2>6, RestartCalm
  <2>7. QED  BY <1>2, <2>3, <2>4, <2>5, <2>6 DEF MCNext, Next
<1>3. QED  BY <1>1, <1>2

LEMMA BytesInit == MCInit => BytesInv /\ TakenInv
<1> SUFFICES ASSUME MCInit PROVE BytesInv /\ TakenInv  OBVIOUS
<1>1. \A r \in Reqs : req[r].bytes = 0 /\ req[r].wrote = 0 /\ req[r].pc = "idle"
  BY DEF MCInit, Init, Idle
<1>2. \A l \in Links : store[l].bytes = 0 /\ store[l].maxBytes = 0  BY DEF MCInit, Init, NoSession
<1>3. OnTheirWay = {}  BY <1>1 DEF OnTheirWay
<1>4. Bounded
  <2>1. \A l \in Links : Spare(l) \in Nat  BY SpareGrows, SpareType
  <2>2. \A l \in Links : 0 <= MaxBytes * Spare(l)  BY <2>1, UploadAssumption, Times
  <2>3. QED  BY <1>2, <2>2, UploadAssumption DEF Bounded, Fits
<1>5. Parts  BY <1>1, UploadAssumption DEF Parts
<1>6. Alone /\ Roomy  BY <1>2, <1>3, UploadAssumption DEF Alone, Roomy, MCInit, Init
<1>7. TakenInv
  <2>1. missed \in [Links -> Nat]  BY DEF MCInit
  <2>2. ASSUME NEW l \in Links PROVE Covered(l)
    <3>1. PICK g : g = [S \in SUBSET Reqs |-> 0]
      OBVIOUS
    <3>2. g \in [SUBSET Reqs -> Nat] /\ g[Reqs] = 0 /\ \A S \in SUBSET Reqs : g[S] = 0  BY <3>1
    <3>3. Due(l) = {}  BY <1>1 DEF Due
    <3>4. \A r \in Reqs : Owes(l, r) = 0  BY <3>3 DEF Owes
    <3>5. \A S \in SUBSET Reqs : \A r \in Reqs \ S : g[S \cup {r}] = g[S] + Owes(l, r)
      BY <3>2, <3>4
    <3>6. ASSUME NEW S \in SUBSET Reqs PROVE g[S] <= MaxBytes * Cardinality(S \cap Due(l))
      <4>1. Cardinality(S \cap Due(l)) = 0  BY <3>3, FS_EmptySet
      <4>2. QED  BY <3>2, <4>1, UploadAssumption
    <3>7. AddsUp(l, g)  BY <3>2, <3>5, <3>6 DEF AddsUp
    <3>8. taken[l] = 0 /\ missed[l] = 0  BY DEF MCInit, Init
    <3>9. taken[l] <= store[l].bytes + g[Reqs] + MaxBytes * missed[l]
      BY <1>2, <3>2, <3>8, UploadAssumption
    <3>10. QED  BY <3>7, <3>9 DEF Covered
  <2>3. QED  BY <2>1, <2>2 DEF TakenInv
<1>8. QED  BY <1>4, <1>5, <1>6, <1>7 DEF BytesInv, MCInit

(* A request that owes bytes is filling its link, so what a link may hold  *)
(* beside what it missed is one limit for each request.                    *)
LEMMA TakenBound ==
  ASSUME TypeOK, BytesInv, TakenInv, NEW l \in Links
  PROVE  /\ ~overlapped => taken[l] <= MaxBytes * (1 + missed[l])
         /\ taken[l] <= MaxBytes * (Cardinality(Reqs) + missed[l])
<1> DEFINE n == Spare(l)  all == Cardinality(Reqs)  m == missed[l]
           due == Cardinality(Due(l))  fill == Cardinality(Filling(l))
<1>1. PICK f : AddsUp(l, f) /\ taken[l] <= store[l].bytes + f[Reqs] + MaxBytes * m
  BY DEF TakenInv, Covered
<1>2. /\ n \in Nat /\ all \in Nat /\ fill \in Nat /\ n = all - fill
      /\ due \in Nat /\ m \in Nat /\ MaxBytes \in Nat
      /\ store[l].bytes \in Nat /\ taken[l] \in Nat
      /\ \A r \in Reqs : req[r].bytes \in Nat
  BY SpareType, Counting, UploadAssumption, FS_CardinalityType
  DEF Spare, TypeOK, Session, Request, TakenInv, Due
<1>3. /\ Due(l) \subseteq Filling(l) /\ Filling(l) \in SUBSET Reqs /\ Due(l) \in SUBSET Reqs
      /\ IsFiniteSet(Filling(l)) /\ IsFiniteSet(Due(l))
  BY Counting DEF Due, Filling
<1>4. due <= fill /\ (due = fill => Due(l) = Filling(l))  BY <1>3, FS_Subset
<1>5. f[Reqs] \in Nat /\ f[Reqs] <= MaxBytes * due
  <2>1. Reqs \cap Due(l) = Due(l)  BY <1>3
  <2>2. f \in [SUBSET Reqs -> Nat] /\ f[Reqs] <= MaxBytes * Cardinality(Reqs \cap Due(l))
    BY <1>1 DEF AddsUp
  <2>3. QED  BY <2>1, <2>2
<1>6. ASSUME NEW r \in Due(l)
      PROVE  due > 0 /\ f[Reqs] <= MaxBytes * (due - 1) + req[r].bytes
  <2>1. due > 0 /\ Cardinality(Due(l) \ {r}) = due - 1  BY <1>3, Counting
  <2>2. Reqs \ {r} \in SUBSET Reqs /\ r \in Reqs \ (Reqs \ {r}) /\ (Reqs \ {r}) \cup {r} = Reqs
        /\ (Reqs \ {r}) \cap Due(l) = Due(l) \ {r}
    BY <1>3
  <2>3. f[(Reqs \ {r}) \cup {r}] = f[Reqs \ {r}] + Owes(l, r)  BY <1>1, <2>2 DEF AddsUp
  <2>4. f[Reqs \ {r}] <= MaxBytes * (due - 1) /\ f[Reqs \ {r}] \in Nat
    <3>1. /\ f[Reqs \ {r}] <= MaxBytes * Cardinality((Reqs \ {r}) \cap Due(l))
          /\ f \in [SUBSET Reqs -> Nat]
      BY <1>1, <2>2 DEF AddsUp
    <3>2. QED  BY <2>1, <2>2, <3>1
  <2>5. Owes(l, r) = req[r].bytes /\ req[r].bytes \in Nat  BY <1>2, <1>3 DEF Owes
  <2>6. MaxBytes * (due - 1) \in Nat  BY <1>2, <2>1, Times
  <2>7. f[Reqs] = f[Reqs \ {r}] + req[r].bytes  BY <2>2, <2>3, <2>5
  <2> DEFINE rest == f[Reqs \ {r}]  k == MaxBytes * (due - 1)
  <2>8. rest \in Nat /\ k \in Nat /\ rest <= k /\ f[Reqs] = rest + req[r].bytes
    BY <2>4, <2>6, <2>7
  <2>9. f[Reqs] <= k + req[r].bytes
    <3> HIDE DEF rest, k
    <3>1. QED  BY <2>5, <2>8
  <2>10. QED  BY <2>1, <2>9
<1>7. ASSUME ~overlapped PROVE taken[l] <= MaxBytes * (1 + m)
  <2>1. Alone  BY <1>7 DEF BytesInv
  <2>2. MaxBytes * (1 + m) = MaxBytes + MaxBytes * m /\ MaxBytes * m \in Nat  BY <1>2
  <2>3. store[l].bytes <= MaxBytes  BY <2>1 DEF Alone
  <2>4. CASE Due(l) = {}
    <3>1. due = 0  BY <2>4, FS_EmptySet
    <3>2. f[Reqs] = 0  BY <1>2, <1>5, <3>1
    <3>3. QED  BY <1>1, <1>2, <2>2, <2>3, <3>2
  <2>5. ASSUME NEW r \in Due(l) PROVE taken[l] <= MaxBytes * (1 + m)
    <3>1. r \in OnTheirWay /\ req[r].link = l /\ r \in Reqs  BY DEF Due, OnTheirWay
    <3>2. store[l].bytes + req[r].bytes <= MaxBytes  BY <2>1, <3>1 DEF Alone
    <3>3. Due(l) \ {r} = {}
      <4>1. Due(l) \subseteq OnTheirWay  BY DEF Due, OnTheirWay
      <4>2. QED  BY <2>1, <3>1, <4>1 DEF Alone
    <3>4. due - 1 = 0
      <4>1. Cardinality(Due(l) \ {r}) = due - 1  BY <1>3, <3>1, Counting
      <4>2. QED  BY <3>3, <4>1, FS_EmptySet
    <3>5. f[Reqs] <= req[r].bytes
      <4>1. MaxBytes * (due - 1) = 0  BY <1>2, <3>4
      <4>2. QED  BY <1>2, <1>5, <1>6, <3>1, <4>1
    <3>6. QED  BY <1>1, <1>2, <1>5, <2>2, <3>1, <3>2, <3>5
  <2>6. QED  BY <2>4, <2>5
<1>8. taken[l] <= MaxBytes * (all + m)
  <2>1. /\ MaxBytes * (all + m) = MaxBytes * n + MaxBytes * fill + MaxBytes * m
        /\ MaxBytes * n \in Nat /\ MaxBytes * fill \in Nat /\ MaxBytes * m \in Nat
    <3>1. all + m = n + fill + m  BY <1>2
    <3>2. MaxBytes * (n + fill + m) = MaxBytes * n + MaxBytes * fill + MaxBytes * m  BY <1>2
    <3>3. QED  BY <1>2, <3>1, <3>2, Times
  <2>2. Fits(l)  BY DEF BytesInv, Bounded
  <2>3. CASE store[l].bytes <= MaxBytes * n
    <3>1. MaxBytes * due <= MaxBytes * fill /\ MaxBytes * due \in Nat  BY <1>2, <1>4, Times
    <3>2. QED  BY <1>1, <1>2, <1>5, <2>1, <2>3, <3>1
  <2>4. ASSUME NEW w \in Filling(l), store[l].bytes + req[w].bytes <= MaxBytes * (n + 1)
        PROVE  taken[l] <= MaxBytes * (all + m)
    <3>1. w \in Reqs /\ req[w].bytes \in Nat  BY <1>2, <1>3
    <3>2. MaxBytes * (n + 1) = MaxBytes * n + MaxBytes  BY <1>2, OneMore
    <3>3. CASE w \in Due(l)
      <4>1. due > 0 /\ f[Reqs] <= MaxBytes * (due - 1) + req[w].bytes  BY <1>6, <3>3
      <4>2. MaxBytes * (due - 1) <= MaxBytes * (fill - 1) /\ MaxBytes * (due - 1) \in Nat
            /\ MaxBytes * fill = MaxBytes * (fill - 1) + MaxBytes /\ MaxBytes * (fill - 1) \in Nat
        <5>1. due - 1 \in Nat /\ fill - 1 \in Nat /\ due - 1 <= fill - 1 /\ fill = (fill - 1) + 1
          BY <1>2, <1>4, <4>1
        <5>2. QED  BY <1>2, <5>1, Times, OneMore
      <4>3. QED  BY <1>1, <1>2, <1>5, <2>1, <2>4, <3>1, <3>2, <4>1, <4>2
    <3>4. CASE w \notin Due(l)
      <4>1. due <= fill - 1 /\ fill - 1 \in Nat /\ fill = (fill - 1) + 1  BY <1>2, <1>4, <2>4, <3>4
      <4>2. MaxBytes * due <= MaxBytes * (fill - 1) /\ MaxBytes * due \in Nat
            /\ MaxBytes * fill = MaxBytes * (fill - 1) + MaxBytes /\ MaxBytes * (fill - 1) \in Nat
        <5>1. MaxBytes * due <= MaxBytes * (fill - 1) /\ MaxBytes * due \in Nat
          BY <1>2, <4>1, Times
        <5>2. MaxBytes * ((fill - 1) + 1) = MaxBytes * (fill - 1) + MaxBytes /\ MaxBytes * (fill - 1) \in Nat
          BY <1>2, <4>1, OneMore
        <5>3. QED  BY <4>1, <5>1, <5>2
      <4>3. QED  BY <1>1, <1>2, <1>5, <2>1, <2>4, <3>1, <3>2, <4>2
    <3>5. QED  BY <3>3, <3>4
  <2>5. QED  BY <2>2, <2>3, <2>4 DEF Fits
<1>9. QED  BY <1>7, <1>8

LEMMA BytesAlways == MCSpec => [](BytesWithinLimit /\ KeepsReserve)
<1>1. MCInit => IInv  BY InitIInv DEF MCInit
<1>2. IInv /\ [MCNext]_<<vars, history>> => IInv'
  <2>1. [MCNext]_<<vars, history>> => [Next]_vars  BY DEF MCNext
  <2>2. QED  BY <2>1, IInvStep
<1>3. IInv /\ IInv' /\ BytesInv /\ [MCNext]_<<vars, history>> => BytesInv'
  BY BytesStep DEF IInv
<1>4. IInv /\ IInv' /\ BytesInv /\ TakenInv /\ [MCNext]_<<vars, history>> => TakenInv'
  BY TakenStep DEF IInv
<1>5. IInv /\ BytesInv /\ TakenInv => BytesWithinLimit /\ KeepsReserve
  BY TakenBound DEF IInv, BytesWithinLimit, KeepsReserve, BytesInv, Roomy
<1>6. QED  BY <1>1, <1>2, <1>3, <1>4, <1>5, BytesInit, PTL DEF MCSpec

(* For any number of phones, links, failures and crashes: the bytes a link *)
(* put on the drive are within its limit and one more for each size that   *)
(* was never recorded, until two parts overlap; then one limit more for    *)
(* each further request at most (saveOne, Remaining, Record).              *)
THEOREM BytesLimited == MCSpec => []BytesWithinLimit
BY BytesAlways, PTL

(* Likewise the reserve of the drive, whatever is copied, removed again or *)
(* not, or left behind by a crash, unless the free space cannot be read    *)
(* (saveOne, Statfs).                                                      *)
THEOREM ReserveKept == MCSpec => []KeepsReserve
BY BytesAlways, PTL
===============================================================================
