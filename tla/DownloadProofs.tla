---------------------------- MODULE DownloadProofs ----------------------------
(***************************************************************************)
(* Proofs about Download for any links, phones, files, requests and        *)
(* restarts: type correctness, the exactness of Server.inflight, that a    *)
(* link never serves more phones than its limit, that it implements the    *)
(* budget of LinkBudget, that a phone is counted once per file, and that   *)
(* it may resume what it was sent.                                         *)
(*                                                                         *)
(* GivenWithinLimit is not inductive: the map may forget a phone that a    *)
(* request still remembers as counted.  Remembered says why that does no   *)
(* harm: whoever was ever in the map has the file, or its first request is *)
(* between the map and the file.                                           *)
(***************************************************************************)
EXTENDS MCDownload, FiniteSetTheorems, TLAPS

(* Whoever has the file, or is about to be sent it by the request that     *)
(* counted it.                                                             *)
Sure == given \cup {req[r].what : r \in {q \in Reqs : req[q].pc = "noted"}}

Remembered ==
  /\ counted \subseteq Sure
  /\ \A r \in Reqs : req[r].known => req[r].what \in Sure

(* What a link has given or taken a download for. *)
Covered(l) == OfLink(given, l) \cup {req[r].what : r \in Taken(l)}

WithinCount ==
  \A l \in Links :
    /\ IsFiniteSet(Covered(l)) /\ Cardinality(Covered(l)) <= store[l].files
    /\ store[l].files <= store[l].maxFiles

LimitsFixed == \A l \in Links : store[l].maxFiles \in {0, MaxFiles}

IInv == TypeOK /\ InflightExact /\ Remembered /\ WithinCount /\ LimitsFixed

-------------------------------------------------------------------------------

LEMMA RowFacts ==
  ASSUME NEW s \in Session
  PROVE  /\ Reserved(s) \in Session /\ Reserved(s).files = s.files + 1
         /\ Reserved(s).maxFiles = s.maxFiles /\ Reserved(s).revoked = s.revoked
         /\ Recorded(s, 1) \in Session /\ Recorded(s, 1).files = s.files
         /\ Recorded(s, 1).maxFiles = s.maxFiles /\ Recorded(s, 1).revoked = s.revoked
<1>1. s.files + 1 \in Nat /\ s.bytes + 1 \in Nat  BY DEF Session
<1>2. QED  BY <1>1 DEF Session, Reserved, Recorded

(* Create, Stop, expiry and Prune never change a count. *)
LEMMA LinkRowFacts ==
  ASSUME NEW s \in Session
  PROVE  /\ Stopped(s) \in Session /\ Stopped(s).files = s.files
         /\ Stopped(s).maxFiles = s.maxFiles /\ Stopped(s).revoked = TRUE
         /\ Pruned(s) \in Session /\ Pruned(s).files = s.files
         /\ Pruned(s).maxFiles = s.maxFiles /\ Pruned(s).revoked = s.revoked
         /\ [s EXCEPT !.expired = TRUE] \in Session
         /\ [s EXCEPT !.expired = TRUE].files = s.files
         /\ [s EXCEPT !.expired = TRUE].maxFiles = s.maxFiles
         /\ [s EXCEPT !.expired = TRUE].revoked = s.revoked
BY DEF Session, Stopped, Pruned

LEMMA NewRow ==
  /\ NoSession \in Session /\ NoSession.files = 0 /\ NoSession.maxFiles = 0 /\ NoSession.revoked = FALSE
  /\ NewSession(MaxFiles, NoByteLimit) \in Session
  /\ NewSession(MaxFiles, NoByteLimit).files = 0
  /\ NewSession(MaxFiles, NoByteLimit).maxFiles = MaxFiles
  /\ NewSession(MaxFiles, NoByteLimit).revoked = FALSE
BY DownloadAssumption DEF NoSession, NewSession, Session

LEMMA IdleType == Idle \in Request /\ Idle.pc = "idle" /\ ~Idle.known
<1>1. PICK l \in Links, p \in Phones, k \in Keys : TRUE  BY DownloadAssumption
<1>2. <<l, p, k>> \in Triples  BY DEF Triples
<1>3. (CHOOSE t \in Triples : TRUE) \in Triples  BY <1>2
<1>4. QED  BY <1>3 DEF Idle, Request, PCs

LEMMA Counting ==
  ASSUME NEW S \in SUBSET Reqs
  PROVE  /\ Cardinality(S) \in Nat
         /\ \A r \in Reqs : r \notin S => Cardinality(S \cup {r}) = Cardinality(S) + 1
         /\ \A r \in Reqs : r \in S => /\ Cardinality(S \ {r}) = Cardinality(S) - 1
                                       /\ Cardinality(S) > 0
<1>1. IsFiniteSet(S)  BY FS_Subset, DownloadAssumption
<1>2. Cardinality(S) \in Nat  BY <1>1, FS_CardinalityType
<1>3. \A r \in Reqs : r \notin S => Cardinality(S \cup {r}) = Cardinality(S) + 1
  BY <1>1, FS_AddElement
<1>4. ASSUME NEW r \in Reqs, r \in S
      PROVE  Cardinality(S \ {r}) = Cardinality(S) - 1 /\ Cardinality(S) > 0
  <2>1. Cardinality(S \ {r}) = Cardinality(S) - 1  BY <1>1, <1>4, FS_RemoveElement
  <2>2. Cardinality(S) # 0  BY <1>1, <1>4, FS_EmptySet
  <2>3. QED  BY <1>2, <2>1, <2>2
<1>5. QED  BY <1>2, <1>3, <1>4

LEMMA LinkOfLink ==
  ASSUME TypeOK, NEW r \in Reqs
  PROVE  LinkOf(r) \in Links
BY DEF TypeOK, Request, Triples, LinkOf

LEMMA InitIInv == Init => IInv
<1> SUFFICES ASSUME Init PROVE IInv
  OBVIOUS
<1>1. TypeOK
  BY NewRow, IdleType, DownloadAssumption DEF Init, TypeOK
<1>2. Working = {} /\ \A l \in Links : Covered(l) = {}
  BY IdleType DEF Init, Working, Covered, OfLink, Taken
<1>3. InflightExact  BY <1>2, FS_EmptySet DEF Init, InflightExact
<1>4. Remembered
  <2>1. counted = {} /\ \A r \in Reqs : ~req[r].known
    BY IdleType DEF Init
  <2>2. QED  BY <2>1 DEF Remembered
<1>5. \A l \in Links : store[l] = NoSession  BY DEF Init
<1>6. WithinCount
  BY <1>2, <1>5, NewRow, FS_EmptySet DEF WithinCount
<1>7. LimitsFixed
  BY <1>5, NewRow DEF LimitsFixed
<1>8. QED  BY <1>1, <1>3, <1>4, <1>6, <1>7 DEF IInv

-------------------------------------------------------------------------------

(* The steps of a request that take no download and finish none. *)
Quiet(r) ==
  \/ Check(r) \/ RefuseFull(r) \/ TurnAway(r) \/ Begin(r) \/ Resume(r) \/ CountRefused(r)
  \/ Note(r) \/ EndOfFile(r) \/ Disconnect(r)
  \/ \E t \in Triples, get \in BOOLEAN : Arrive(r, t, get)

(* What each of them does to the request: it stays a request, and whether  *)
(* it holds a download, and of which link, stays the same.                 *)
LEMMA QuietMoves ==
  ASSUME TypeOK, NEW r \in Reqs, Quiet(r)
  PROVE  /\ req'[r] \in Request /\ req' = [req EXCEPT ![r] = req'[r]]
         /\ UNCHANGED <<store, sent, restarts>>
         /\ \A l \in Links : Taken(l)' = Taken(l)
         /\ req[r].pc \in {"reserved", "noted"} => req'[r].what = req[r].what
<1>1. /\ req'[r] \in Request /\ req' = [req EXCEPT ![r] = req'[r]]
      /\ UNCHANGED <<store, sent, restarts>>
      /\ req[r].pc \in {"reserved", "noted"} <=> req'[r].pc \in {"reserved", "noted"}
      /\ req[r].pc \in {"reserved", "noted"} => req'[r].what = req[r].what
  <2> USE DEF TypeOK, Request, PCs
  <2>1. CASE \E t \in Triples, get \in BOOLEAN : Arrive(r, t, get)
    <3>1. PICK t \in Triples, get \in BOOLEAN : Arrive(r, t, get)  BY <2>1
    <3>2. [Idle EXCEPT !.pc = "looked", !.what = t, !.get = get,
             !.full = (Outcome(store[t[1]]) = "used_up")] \in Request
      BY IdleType
    <3>3. QED  BY <3>1, <3>2 DEF Arrive, history, Open
  <2>2. CASE Check(r)
    <3>1. WasCounted(req[r].what) \in BOOLEAN  BY Zenon DEF WasCounted
    <3>2. [req[r] EXCEPT !.pc = "allowed", !.known = WasCounted(req[r].what)] \in Request
      BY <3>1
    <3>3. req' = [req EXCEPT ![r] = [req[r] EXCEPT !.pc = "allowed", !.known = WasCounted(req[r].what)]]
      BY <2>2 DEF Check
    <3>4. QED  BY <2>2, <3>2, <3>3 DEF Check, history
  <2>3. CASE RefuseFull(r) \/ TurnAway(r) \/ CountRefused(r) \/ EndOfFile(r)
    BY <2>3, IdleType DEF RefuseFull, TurnAway, CountRefused, EndOfFile, Drop, Finish, history
  <2>4. CASE Begin(r) \/ Resume(r) \/ Note(r)
    BY <2>4 DEF Begin, Resume, Note, Goto, history
  <2>5. CASE Disconnect(r)
    BY <2>5 DEF Disconnect, history
  <2>6. QED  BY <2>1, <2>2, <2>3, <2>4, <2>5 DEF Quiet
<1>2. QED  BY <1>1 DEF TypeOK, Taken, LinkOf

(* Reserve: the link counts one download more, and this request holds it. *)
LEMMA CountMoves ==
  ASSUME TypeOK, NEW r \in Reqs, NEW k \in Links, k = LinkOf(r), Count(r)
  PROVE  /\ ~store[k].revoked /\ store[k].files < store[k].maxFiles
         /\ store' = [store EXCEPT ![k] = Reserved(store[k])]
         /\ store' \in [Links -> Session]
         /\ store'[k].files = store[k].files + 1
         /\ \A l \in Links \ {k} : store'[l] = store[l]
         /\ \A l \in Links : /\ store'[l].maxFiles = store[l].maxFiles
                             /\ store'[l].revoked = store[l].revoked
         /\ r \notin Taken(k) /\ Taken(k)' = Taken(k) \cup {r}
         /\ \A l \in Links \ {k} : Taken(l)' = Taken(l)
         /\ req' = [req EXCEPT ![r].pc = "reserved"] /\ req' \in [Reqs -> Request]
         /\ UNCHANGED <<counted, inflight, given, sent, restarts>>
<1>1. store[k] \in Session  BY DEF TypeOK
<1>2. ~store[k].revoked /\ store[k].files < store[k].maxFiles
  BY <1>1 DEF Count, CanReserve, UsedUp, Session
<1>3. /\ store' = [store EXCEPT ![k] = Reserved(store[k])]
      /\ store' \in [Links -> Session]
      /\ store'[k].files = store[k].files + 1
      /\ \A l \in Links \ {k} : store'[l] = store[l]
      /\ \A l \in Links : /\ store'[l].maxFiles = store[l].maxFiles
                          /\ store'[l].revoked = store[l].revoked
  BY <1>1, RowFacts DEF Count, TypeOK
<1>4. /\ req' = [req EXCEPT ![r].pc = "reserved"] /\ req' \in [Reqs -> Request]
      /\ UNCHANGED <<counted, inflight, given, sent, restarts>>
  BY DEF Count, Goto, history, TypeOK, Request, PCs
<1>5. /\ r \notin Taken(k) /\ Taken(k)' = Taken(k) \cup {r}
      /\ \A l \in Links \ {k} : Taken(l)' = Taken(l)
  BY <1>4 DEF Count, Taken, LinkOf, TypeOK, Request
<1>6. QED  BY <1>2, <1>3, <1>4, <1>5

(* Record: the request that held a download has sent it. *)
LEMMA RecordMoves ==
  ASSUME TypeOK, NEW r \in Reqs, NEW k \in Links, k = LinkOf(r), Record(r)
  PROVE  /\ store' \in [Links -> Session]
         /\ \A l \in Links : /\ store'[l].files = store[l].files
                             /\ store'[l].maxFiles = store[l].maxFiles
                             /\ store'[l].revoked = store[l].revoked
         /\ r \in Taken(k) /\ Taken(k)' = Taken(k) \ {r}
         /\ \A l \in Links \ {k} : Taken(l)' = Taken(l)
         /\ req' = [req EXCEPT ![r].pc = "sending"] /\ req' \in [Reqs -> Request]
         /\ given' = given \cup {req[r].what} /\ sent' = [sent EXCEPT ![k] = @ + 1]
         /\ UNCHANGED <<counted, inflight, restarts>>
<1>1. store[k] \in Session  BY DEF TypeOK
<1>2. /\ store' \in [Links -> Session]
      /\ \A l \in Links : /\ store'[l].files = store[l].files
                          /\ store'[l].maxFiles = store[l].maxFiles
                          /\ store'[l].revoked = store[l].revoked
  BY <1>1, RowFacts DEF Record, TypeOK
<1>3. /\ req' = [req EXCEPT ![r].pc = "sending"] /\ req' \in [Reqs -> Request]
      /\ given' = given \cup {req[r].what} /\ sent' = [sent EXCEPT ![k] = @ + 1]
      /\ UNCHANGED <<counted, inflight, restarts>>
  BY DEF Record, Goto, TypeOK, Request, PCs
<1>4. /\ r \in Taken(k) /\ Taken(k)' = Taken(k) \ {r}
      /\ \A l \in Links \ {k} : Taken(l)' = Taken(l)
  BY <1>3 DEF Record, Taken, LinkOf, TypeOK, Request
<1>5. QED  BY <1>1, <1>2, <1>3, <1>4

(* Create, Stop and expiry change one row and no request. *)
LEMMA LinkMoves ==
  ASSUME TypeOK, LimitsFixed, NEW k \in Links, CreateLink(k) \/ Revoke(k) \/ Expire(k)
  PROVE  /\ store' \in [Links -> Session]
         /\ \A l \in Links : store'[l].files = store[l].files
         /\ \A l \in Links : store'[l].maxFiles >= store[l].maxFiles
         /\ LimitsFixed'
         /\ \A l \in Links \ {k} : store'[l] = store[l]
         /\ store'[k].revoked \in {store[k].revoked, TRUE}
         /\ UNCHANGED <<counted, inflight, req, given, sent, restarts>>
<1> USE DEF TypeOK, history
<1>1. store[k] \in Session  OBVIOUS
<1>2. UNCHANGED <<counted, inflight, req, given, sent, restarts>>
  BY DEF CreateLink, Revoke, Expire
<1>3. PICK row \in Session :
        /\ store' = [store EXCEPT ![k] = row]
        /\ row.files = store[k].files
        /\ row.maxFiles \in {store[k].maxFiles, MaxFiles}
        /\ row.revoked \in {store[k].revoked, TRUE}
  <2>1. CASE CreateLink(k)
    BY <2>1, NewRow DEF CreateLink
  <2>2. CASE Revoke(k)
    BY <1>1, <2>2, LinkRowFacts DEF Revoke
  <2>3. CASE Expire(k)
    <3> DEFINE row == [store[k] EXCEPT !.expired = TRUE]
    <3>1. store' = [store EXCEPT ![k] = row]  BY <2>3 DEF Expire
    <3>2. /\ row \in Session /\ row.files = store[k].files
          /\ row.maxFiles = store[k].maxFiles /\ row.revoked = store[k].revoked
      BY <1>1, LinkRowFacts DEF Session
    <3> HIDE DEF row
    <3>3. QED  BY <3>1, <3>2
  <2>4. QED  BY <2>1, <2>2, <2>3
<1>4. store' \in [Links -> Session]  BY <1>3
<1>5. /\ \A l \in Links : store'[l].files = store[l].files
      /\ \A l \in Links \ {k} : store'[l] = store[l]
      /\ store'[k].revoked \in {store[k].revoked, TRUE}
      /\ store'[k].maxFiles \in {store[k].maxFiles, MaxFiles}
  BY <1>3
<1>6. \A l \in Links : store[l].maxFiles \in {0, MaxFiles}  BY DEF LimitsFixed
<1>7. \A l \in Links : /\ store'[l].maxFiles \in {0, MaxFiles}
                       /\ store'[l].maxFiles >= store[l].maxFiles
  BY <1>5, <1>6, DownloadAssumption
<1>8. QED  BY <1>2, <1>4, <1>5, <1>7 DEF LimitsFixed

(* A restart ends every request and forgets the map; counts are durable. *)
LEMMA RestartMoves ==
  ASSUME TypeOK, Restart
  PROVE  /\ store' \in [Links -> Session]
         /\ \A l \in Links : /\ store'[l].files = store[l].files
                             /\ store'[l].maxFiles = store[l].maxFiles
                             /\ store'[l].revoked = store[l].revoked
         /\ req' = [r \in Reqs |-> Idle] /\ counted' = {} /\ inflight' = 0
         /\ \A l \in Links : Taken(l)' = {}
         /\ restarts' \in 0 .. MaxRestarts
         /\ UNCHANGED <<given, sent>>
<1>1. PICK old \in SUBSET Links :
        store' = [l \in Links |-> IF l \in old THEN Pruned(store[l]) ELSE store[l]]
  BY DEF Restart
<1>2. \A l \in Links : store[l] \in Session  BY DEF TypeOK
<1>3. /\ store' \in [Links -> Session]
      /\ \A l \in Links : /\ store'[l].files = store[l].files
                          /\ store'[l].maxFiles = store[l].maxFiles
                          /\ store'[l].revoked = store[l].revoked
  BY <1>1, <1>2, LinkRowFacts
<1>4. /\ req' = [r \in Reqs |-> Idle] /\ counted' = {} /\ inflight' = 0
      /\ UNCHANGED <<given, sent>>
  BY DEF Restart, history
<1>5. restarts' \in 0 .. MaxRestarts
  BY DownloadAssumption DEF Restart, TypeOK
<1>6. \A l \in Links : Taken(l)' = {}
  BY <1>4, IdleType DEF Taken, LinkOf
<1>7. QED  BY <1>3, <1>4, <1>5, <1>6

-------------------------------------------------------------------------------

(* One more or one less request is working, and inflight follows it. *)
LEMMA QuietCounts ==
  ASSUME TypeOK, InflightExact, NEW r \in Reqs, Quiet(r)
  PROVE  TypeOK' /\ InflightExact'
<1>1. /\ req' \in [Reqs -> Request] /\ store' \in [Links -> Session]
      /\ sent' \in [Links -> Nat] /\ restarts' \in 0 .. MaxRestarts
  BY QuietMoves DEF TypeOK
<1>2. counted' \subseteq Triples /\ given' \subseteq Triples
  BY DEF Quiet, Check, RefuseFull, TurnAway, Begin, Resume, CountRefused, Note, EndOfFile,
         Disconnect, Arrive, TypeOK, Request, history
<1>3. Working \in SUBSET Reqs  BY DEF Working
<1>4. CASE Begin(r)
  <2>1. r \notin Working /\ Working' = Working \cup {r} /\ inflight' = inflight + 1
    BY <1>4 DEF Begin, Goto, Working, TypeOK, Request
  <2>2. QED  BY <1>1, <1>2, <1>3, <2>1, Counting DEF TypeOK, InflightExact
<1>5. CASE CountRefused(r) \/ EndOfFile(r)
  <2>1. r \in Working /\ Working' = Working \ {r} /\ inflight' = inflight - 1
    BY <1>5, IdleType DEF CountRefused, EndOfFile, Finish, Drop, Working, TypeOK, Request
  <2>2. QED  BY <1>1, <1>2, <1>3, <2>1, Counting DEF TypeOK, InflightExact
<1>6. CASE \/ Check(r) \/ RefuseFull(r) \/ TurnAway(r) \/ Resume(r) \/ Note(r) \/ Disconnect(r)
           \/ \E t \in Triples, get \in BOOLEAN : Arrive(r, t, get)
  <2>1. Working' = Working /\ inflight' = inflight
    <3>1. CASE Check(r) \/ Resume(r) \/ Note(r) \/ Disconnect(r)
      BY <3>1 DEF Check, Resume, Note, Disconnect, Goto, Working, TypeOK, Request
    <3>2. CASE RefuseFull(r) \/ TurnAway(r)
      BY <3>2, IdleType DEF RefuseFull, TurnAway, Drop, Working, TypeOK, Request
    <3>3. CASE \E t \in Triples, get \in BOOLEAN : Arrive(r, t, get)
      BY <3>3, IdleType DEF Arrive, Open, Working, TypeOK, Request
    <3>4. QED  BY <1>6, <3>1, <3>2, <3>3
  <2>2. QED  BY <1>1, <1>2, <2>1 DEF TypeOK, InflightExact
<1>7. QED  BY <1>4, <1>5, <1>6 DEF Quiet

LEMMA CountsStep ==
  ASSUME TypeOK, InflightExact, LimitsFixed, [Next]_vars
  PROVE  TypeOK' /\ InflightExact' /\ LimitsFixed'
<1>1. ASSUME NEW r \in Reqs, Quiet(r)
      PROVE  TypeOK' /\ InflightExact' /\ LimitsFixed'
  BY <1>1, QuietCounts, QuietMoves DEF LimitsFixed
<1>2. ASSUME NEW r \in Reqs, NEW k \in Links, k = LinkOf(r), Count(r)
      PROVE  TypeOK' /\ InflightExact' /\ LimitsFixed'
  <2>1. Working' = Working
    <3>1. req' = [req EXCEPT ![r].pc = "reserved"]  BY <1>2, CountMoves
    <3>2. QED  BY <1>2, <3>1 DEF Count, Working, TypeOK, Request
  <2>2. QED  BY <1>2, <2>1, CountMoves DEF TypeOK, InflightExact, LimitsFixed
<1>3. ASSUME NEW r \in Reqs, NEW k \in Links, k = LinkOf(r), Record(r)
      PROVE  TypeOK' /\ InflightExact' /\ LimitsFixed'
  <2>1. Working' = Working
    <3>1. req' = [req EXCEPT ![r].pc = "sending"]  BY <1>3, RecordMoves
    <3>2. QED  BY <1>3, <3>1 DEF Record, Working, TypeOK, Request
  <2>2. given' \subseteq Triples /\ sent' \in [Links -> Nat]
    <3>1. /\ given' = given \cup {req[r].what}
          /\ sent' = [sent EXCEPT ![k] = @ + 1]
      BY <1>3, RecordMoves
    <3>2. \A l \in Links : sent[l] + 1 \in Nat  BY DEF TypeOK
    <3>3. QED  BY <3>1, <3>2 DEF TypeOK, Request
  <2>3. QED  BY <1>3, <2>1, <2>2, RecordMoves DEF TypeOK, InflightExact, LimitsFixed
<1>4. ASSUME NEW l \in Links, CreateLink(l) \/ Revoke(l) \/ Expire(l)
      PROVE  TypeOK' /\ InflightExact' /\ LimitsFixed'
  BY <1>4, LinkMoves DEF TypeOK, InflightExact, Working
<1>5. CASE Restart
  <2>1. Working' = {}  BY <1>5, RestartMoves, IdleType DEF Working
  <2>2. req' \in [Reqs -> Request]  BY <1>5, RestartMoves, IdleType
  <2>3. QED
    BY <1>5, <2>1, <2>2, RestartMoves, FS_EmptySet DEF TypeOK, InflightExact, LimitsFixed
<1>6. CASE PruneGrants
  BY <1>6 DEF PruneGrants, history, TypeOK, InflightExact, Working, LimitsFixed
<1>7. CASE UNCHANGED vars
  BY <1>7 DEF vars, history, TypeOK, InflightExact, Working, LimitsFixed
<1>8. \A r \in Reqs : LinkOf(r) \in Links  BY LinkOfLink
<1>9. QED
  BY <1>1, <1>2, <1>3, <1>4, <1>5, <1>6, <1>7, <1>8 DEF Next, Handler, Quiet

-------------------------------------------------------------------------------

(* Whoever is sure to have the file counts for the link. *)
LEMMA SureCovered ==
  ASSUME TypeOK, NEW t \in Sure
  PROVE  t \in Triples /\ t[1] \in Links /\ t \in Covered(t[1])
<1>1. given \subseteq Triples /\ \A q \in Reqs : req[q].what \in Triples
  BY DEF TypeOK, Request
<1>2. t \in Triples /\ t[1] \in Links  BY <1>1 DEF Sure, Triples
<1>3. CASE t \in given  BY <1>2, <1>3 DEF Covered, OfLink
<1>4. CASE \E q \in Reqs : req[q].pc = "noted" /\ t = req[q].what
  BY <1>2, <1>4 DEF Covered, Taken, LinkOf
<1>5. QED  BY <1>2, <1>3, <1>4 DEF Sure

(* Nobody the map or a request remembers is forgotten while vaultd runs. *)
LEMMA RememberedStep ==
  ASSUME TypeOK, Remembered, [Next]_vars
  PROVE  Remembered'
<1>1. ASSUME NEW r \in Reqs, Quiet(r)
      PROVE  Remembered'
  <2>1. req'[r] \in Request /\ req' = [req EXCEPT ![r] = req'[r]] /\ req \in [Reqs -> Request]
    BY <1>1, QuietMoves DEF TypeOK
  <2>2. given \subseteq given'
    BY <1>1 DEF Quiet, Check, RefuseFull, TurnAway, Begin, Resume, CountRefused, Note, EndOfFile,
                Disconnect, Arrive, history
  <2>3. req[r].pc = "noted" => req'[r].pc = "noted" /\ req'[r].what = req[r].what
    BY <1>1, <2>1 DEF Quiet, Check, RefuseFull, TurnAway, Begin, Resume, CountRefused, Note,
                EndOfFile, Disconnect, Arrive, Open, Request
  <2>4. Sure \subseteq Sure'
    BY <2>1, <2>2, <2>3 DEF Sure
  <2>5. counted' \subseteq Sure'
    <3>1. CASE Note(r)
      <4>1. req'[r].pc = "noted" /\ req'[r].what = req[r].what
        BY <2>1, <3>1 DEF Note, Goto, Request
      <4>2. req[r].what \in Sure'  BY <4>1 DEF Sure
      <4>3. QED  BY <2>4, <3>1, <4>2 DEF Note, Remembered
    <3>2. CASE counted' = counted  BY <2>4, <3>2 DEF Remembered
    <3>3. QED
      BY <1>1, <3>1, <3>2 DEF Quiet, Check, RefuseFull, TurnAway, Begin, Resume, CountRefused,
                EndOfFile, Disconnect, Arrive
  <2>6. req'[r].known => req'[r].what \in Sure
    <3>1. CASE Check(r)
      BY <2>1, <3>1 DEF Check, WasCounted, Remembered, Request
    <3>2. CASE RefuseFull(r) \/ TurnAway(r) \/ CountRefused(r) \/ EndOfFile(r)
      BY <2>1, <3>2, IdleType DEF RefuseFull, TurnAway, CountRefused, EndOfFile, Drop, Finish
    <3>3. CASE \E t \in Triples, get \in BOOLEAN : Arrive(r, t, get)
      BY <2>1, <3>3, IdleType DEF Arrive, Request
    <3>4. CASE Begin(r) \/ Resume(r) \/ Note(r) \/ Disconnect(r)
      BY <2>1, <3>4 DEF Begin, Resume, Note, Disconnect, Goto, Remembered, Request
    <3>5. QED  BY <1>1, <3>1, <3>2, <3>3, <3>4 DEF Quiet
  <2>7. QED  BY <2>1, <2>4, <2>5, <2>6 DEF Remembered
<1>2. ASSUME NEW r \in Reqs, NEW k \in Links, k = LinkOf(r), Count(r)
      PROVE  Remembered'
  <2>1. req' = [req EXCEPT ![r].pc = "reserved"] /\ counted' = counted /\ given' = given
    BY <1>2, CountMoves
  <2>2. Sure \subseteq Sure'
    BY <1>2, <2>1 DEF Count, Sure, TypeOK, Request
  <2>3. \A q \in Reqs : req'[q].known = req[q].known /\ req'[q].what = req[q].what
    BY <2>1 DEF TypeOK, Request
  <2>4. QED  BY <2>1, <2>2, <2>3 DEF Remembered
<1>3. ASSUME NEW r \in Reqs, NEW k \in Links, k = LinkOf(r), Record(r)
      PROVE  Remembered'
  <2>1. /\ req' = [req EXCEPT ![r].pc = "sending"] /\ counted' = counted
        /\ given' = given \cup {req[r].what}
    BY <1>3, RecordMoves
  <2>2. Sure \subseteq Sure'
    BY <2>1 DEF Sure, TypeOK, Request
  <2>3. \A q \in Reqs : req'[q].known = req[q].known /\ req'[q].what = req[q].what
    BY <2>1 DEF TypeOK, Request
  <2>4. QED  BY <2>1, <2>2, <2>3 DEF Remembered
<1>4. ASSUME NEW l \in Links, CreateLink(l) \/ Revoke(l) \/ Expire(l)
      PROVE  Remembered'
  BY <1>4 DEF CreateLink, Revoke, Expire, history, Remembered, Sure
<1>5. CASE Restart
  BY <1>5, RestartMoves, IdleType DEF Remembered
<1>6. CASE PruneGrants
  BY <1>6 DEF PruneGrants, history, Remembered, Sure
<1>7. CASE UNCHANGED vars
  BY <1>7 DEF vars, history, Remembered, Sure
<1>8. \A r \in Reqs : LinkOf(r) \in Links  BY LinkOfLink
<1>9. QED
  BY <1>1, <1>2, <1>3, <1>4, <1>5, <1>6, <1>7, <1>8 DEF Next, Handler, Quiet

-------------------------------------------------------------------------------

LEMMA OneMore ==
  ASSUME NEW S, IsFiniteSet(S), NEW x
  PROVE  /\ IsFiniteSet(S \cup {x}) /\ Cardinality(S \cup {x}) \in Nat
         /\ Cardinality(S \cup {x}) <= Cardinality(S) + 1
<1>1. Cardinality(S) \in Nat  BY FS_CardinalityType
<1>2. IsFiniteSet(S \cup {x})  BY FS_AddElement
<1>3. Cardinality(S \cup {x}) \in {Cardinality(S), Cardinality(S) + 1}  BY FS_AddElement
<1>4. QED  BY <1>1, <1>2, <1>3

(* What a link covers grows only when Reserve counts one download more. *)
LEMMA WithinCountStep ==
  ASSUME IInv, [Next]_vars
  PROVE  WithinCount'
<1> USE DEF IInv
<1>1. \A l \in Links : /\ store[l].files \in Nat /\ store[l].maxFiles \in Nat
                       /\ IsFiniteSet(Covered(l)) /\ Cardinality(Covered(l)) \in Nat
  BY FS_CardinalityType DEF TypeOK, Session, WithinCount
<1>2. ASSUME \A l \in Links : /\ Covered(l)' = Covered(l)
                              /\ store'[l].files = store[l].files
                              /\ store'[l].maxFiles = store[l].maxFiles
      PROVE  WithinCount'
  BY <1>2 DEF WithinCount
<1>3. ASSUME NEW r \in Reqs, Quiet(r)
      PROVE  WithinCount'
  <2>1. /\ req' = [req EXCEPT ![r] = req'[r]] /\ req \in [Reqs -> Request] /\ store' = store
        /\ \A l \in Links : Taken(l)' = Taken(l)
        /\ req[r].pc \in {"reserved", "noted"} => req'[r].what = req[r].what
    BY <1>3, QuietMoves DEF TypeOK
  <2>2. \A l \in Links : {req'[q].what : q \in Taken(l)'} = {req[q].what : q \in Taken(l)}
    BY <2>1 DEF Taken
  <2>3. CASE given' = given
    BY <1>2, <2>1, <2>2, <2>3 DEF Covered, OfLink
  <2>4. CASE Resume(r)
    <3>1. given' \subseteq given \cup Sure /\ given \subseteq given'
      BY <2>4 DEF Resume, Remembered
    <3>2. \A t \in given' : t \in given \/ t \in Covered(t[1])
      BY <3>1, SureCovered
    <3>3. \A l \in Links : Covered(l)' = Covered(l)
      BY <2>2, <3>1, <3>2 DEF Covered, OfLink
    <3>4. QED  BY <1>2, <2>1, <3>3
  <2>5. QED
    BY <1>3, <2>3, <2>4 DEF Quiet, Check, RefuseFull, TurnAway, Begin, CountRefused, Note,
                            EndOfFile, Disconnect, Arrive, history
<1>4. ASSUME NEW r \in Reqs, NEW k \in Links, k = LinkOf(r), Count(r)
      PROVE  WithinCount'
  <2>1. /\ req' = [req EXCEPT ![r].pc = "reserved"] /\ req \in [Reqs -> Request]
        /\ given' = given
        /\ Taken(k)' = Taken(k) \cup {r}
        /\ \A l \in Links \ {k} : Taken(l)' = Taken(l) /\ store'[l] = store[l]
        /\ store'[k].files = store[k].files + 1
        /\ store[k].files < store[k].maxFiles
        /\ store'[k].maxFiles = store[k].maxFiles
    BY <1>4, CountMoves DEF TypeOK
  <2>2. \A q \in Reqs : req'[q].what = req[q].what  BY <2>1 DEF Request
  <2>3. \A l \in Links : Taken(l) \subseteq Reqs  BY DEF Taken
  <2>4. \A l \in Links \ {k} : Covered(l)' = Covered(l)
    BY <2>1, <2>2, <2>3 DEF Covered, OfLink
  <2>5. Covered(k)' = Covered(k) \cup {req[r].what}
    <3>1. {req'[q].what : q \in Taken(k) \cup {r}} = {req[q].what : q \in Taken(k)} \cup {req[r].what}
      BY <2>2, <2>3
    <3>2. QED  BY <2>1, <3>1 DEF Covered
  <2>6. /\ IsFiniteSet(Covered(k)') /\ Cardinality(Covered(k)') \in Nat
        /\ Cardinality(Covered(k)') <= Cardinality(Covered(k)) + 1
    BY <1>1, <2>5, OneMore
  <2>7. Cardinality(Covered(k)') <= store'[k].files /\ store'[k].files <= store'[k].maxFiles
    BY <1>1, <2>1, <2>6 DEF WithinCount
  <2>8. QED  BY <2>1, <2>4, <2>6, <2>7 DEF WithinCount
<1>5. ASSUME NEW r \in Reqs, NEW k \in Links, k = LinkOf(r), Record(r)
      PROVE  WithinCount'
  <2>1. /\ req' = [req EXCEPT ![r].pc = "sending"] /\ req \in [Reqs -> Request]
        /\ given' = given \cup {req[r].what}
        /\ r \in Taken(k) /\ Taken(k)' = Taken(k) \ {r}
        /\ \A l \in Links \ {k} : Taken(l)' = Taken(l)
        /\ \A l \in Links : /\ store'[l].files = store[l].files
                            /\ store'[l].maxFiles = store[l].maxFiles
    BY <1>5, RecordMoves DEF TypeOK
  <2>2. \A q \in Reqs : req'[q].what = req[q].what  BY <2>1 DEF Request
  <2>3. \A l \in Links : Taken(l) \subseteq Reqs  BY DEF Taken
  <2>4. req[r].what[1] = k  BY <1>5 DEF LinkOf
  <2>5. \A l \in Links \ {k} : Covered(l)' = Covered(l)
    BY <2>1, <2>2, <2>3, <2>4 DEF Covered, OfLink
  <2>6. Covered(k)' = Covered(k)
    <3>1. OfLink(given', k) = OfLink(given, k) \cup {req[r].what}  BY <2>1, <2>4 DEF OfLink
    <3>2. {req[q].what : q \in Taken(k)} = {req'[q].what : q \in Taken(k) \ {r}} \cup {req[r].what}
      BY <2>1, <2>2, <2>3
    <3>3. Covered(k)' = OfLink(given', k) \cup {req'[q].what : q \in Taken(k) \ {r}}
      BY <2>1 DEF Covered, OfLink
    <3>4. QED  BY <3>1, <3>2, <3>3 DEF Covered
  <2>7. \A l \in Links : Covered(l)' = Covered(l)  BY <2>5, <2>6
  <2>8. QED  BY <1>2, <2>1, <2>7
<1>6. ASSUME NEW k \in Links, CreateLink(k) \/ Revoke(k) \/ Expire(k)
      PROVE  WithinCount'
  <2>1. /\ store' \in [Links -> Session]
        /\ \A l \in Links : store'[l].files = store[l].files
        /\ \A l \in Links : store'[l].maxFiles >= store[l].maxFiles
        /\ UNCHANGED <<req, given>>
    BY <1>6, LinkMoves
  <2>2. \A l \in Links : Covered(l)' = Covered(l)
    BY <2>1 DEF Covered, OfLink, Taken, LinkOf
  <2>3. \A l \in Links : store'[l].maxFiles \in Nat  BY <2>1 DEF Session
  <2>4. QED  BY <1>1, <2>1, <2>2, <2>3 DEF WithinCount
<1>7. CASE Restart
  <2>1. \A l \in Links : /\ store'[l].files = store[l].files
                         /\ store'[l].maxFiles = store[l].maxFiles
                         /\ Covered(l)' \subseteq Covered(l)
    BY <1>7, RestartMoves DEF Covered, OfLink
  <2>2. \A l \in Links : /\ IsFiniteSet(Covered(l)') /\ Cardinality(Covered(l)') \in Nat
                         /\ Cardinality(Covered(l)') <= Cardinality(Covered(l))
    BY <1>1, <2>1, FS_Subset, FS_CardinalityType
  <2>3. QED  BY <1>1, <2>1, <2>2 DEF WithinCount
<1>8. CASE PruneGrants
  BY <1>8 DEF PruneGrants, history, WithinCount, Covered, OfLink, Taken, LinkOf
<1>9. CASE UNCHANGED vars
  BY <1>9 DEF vars, history, WithinCount, Covered, OfLink, Taken, LinkOf
<1>10. \A r \in Reqs : LinkOf(r) \in Links  BY LinkOfLink
<1>11. QED
  BY <1>3, <1>4, <1>5, <1>6, <1>7, <1>8, <1>9, <1>10 DEF Next, Handler, Quiet

LEMMA IInvStep ==
  ASSUME IInv, [Next]_vars
  PROVE  IInv'
<1>1. TypeOK' /\ InflightExact' /\ LimitsFixed'  BY CountsStep DEF IInv
<1>2. Remembered'  BY RememberedStep DEF IInv
<1>3. WithinCount'  BY WithinCountStep
<1>4. QED  BY <1>1, <1>2, <1>3 DEF IInv

LEMMA Invariance == Spec => []IInv
<1>1. IInv /\ [Next]_vars => IInv'  BY IInvStep
<1>2. QED  BY InitIInv, <1>1, PTL DEF Spec

(* Type correctness of Download. *)
THEOREM TypeCorrect == Spec => []TypeOK
<1>1. IInv => TypeOK  BY DEF IInv
<1>2. QED  BY Invariance, <1>1, PTL

(* Server.inflight is exactly the number of downloads between the count of *)
(* send and its deferred decrement, also after a restart.                  *)
THEOREM BusyExact == Spec => []InflightExact
<1>1. IInv => InflightExact  BY DEF IInv
<1>2. QED  BY Invariance, <1>1, PTL

(* Whatever overlaps, is resumed or is restarted, the phones and files a   *)
(* link has served, remembers or is about to serve are never more than its *)
(* count, and the count never passes the owner's limit.                    *)
THEOREM GivenWithin == Spec => []GivenWithinLimit
<1>1. IInv => GivenWithinLimit
  <2>1. SUFFICES ASSUME IInv, NEW l \in Links
                 PROVE  /\ Cardinality(OfLink(given, l) \cup TakenTriples(l)) <= store[l].files
                        /\ store[l].files <= store[l].maxFiles
    BY DEF GivenWithinLimit
  <2>2. \A t \in counted : t \in Covered(t[1])
    BY <2>1, SureCovered DEF IInv, Remembered
  <2>3. OfLink(given, l) \cup TakenTriples(l) = Covered(l)
    BY <2>2 DEF TakenTriples, Covered, OfLink
  <2>4. QED  BY <2>1, <2>3 DEF IInv, WithinCount
<1>2. QED  BY Invariance, <1>1, PTL

-------------------------------------------------------------------------------

LEMMA BudgetInit == Init => Budget!Init
<1> SUFFICES ASSUME Init PROVE Budget!Init  OBVIOUS
<1>1. \A l \in Links : Taken(l) = {}  BY IdleType DEF Init, Taken
<1>2. \A l \in Links : Cardinality(Taken(l)) = 0  BY <1>1, FS_EmptySet
<1>3. \A l \in Links : store[l].files = 0 /\ store[l].revoked = FALSE
  BY NewRow DEF Init
<1>4. QED  BY <1>2, <1>3 DEF Init, Budget!Init, Spent, Held, StoppedLinks

(* Reserve takes a slot, Record completes it, Stop stops the link, a       *)
(* restart loses what was taken; nothing else touches the budget.          *)
LEMMA BudgetStep ==
  ASSUME IInv, [Next]_vars
  PROVE  [Budget!Next]_(Budget!budgetVars)
<1>1. TypeOK /\ WithinCount /\ LimitsFixed  BY DEF IInv
<1>2. \A l \in Links : /\ Taken(l) \in SUBSET Reqs /\ Cardinality(Taken(l)) \in Nat
                       /\ store[l].files \in Nat
  BY <1>1, Counting DEF Taken, TypeOK, Session
<1>3. ASSUME \A l \in Links : /\ store'[l].files = store[l].files
                              /\ Taken(l)' = Taken(l)
                              /\ store'[l].revoked = store[l].revoked,
             sent' = sent
      PROVE  UNCHANGED Budget!budgetVars
  BY <1>3 DEF Budget!budgetVars, Spent, Held, StoppedLinks
<1>4. ASSUME NEW k \in Links, CreateLink(k) \/ Revoke(k) \/ Expire(k)
      PROVE  Budget!Next \/ UNCHANGED Budget!budgetVars
  <2>1. /\ \A l \in Links : store'[l].files = store[l].files
        /\ \A l \in Links \ {k} : store'[l] = store[l]
        /\ store'[k].revoked \in {store[k].revoked, TRUE}
        /\ req' = req /\ sent' = sent
    BY <1>1, <1>4, LinkMoves
  <2>2. \A l \in Links : Taken(l)' = Taken(l)  BY <2>1 DEF Taken, LinkOf
  <2>3. CASE store'[k].revoked = store[k].revoked
    <3>1. \A l \in Links : store'[l].revoked = store[l].revoked  BY <2>1, <2>3
    <3>2. QED  BY <1>3, <2>1, <2>2, <3>1
  <2>4. CASE store'[k].revoked = TRUE
    <3>1. StoppedLinks' = [StoppedLinks EXCEPT ![k] = TRUE]
      BY <2>1, <2>4 DEF StoppedLinks
    <3>2. Spent' = Spent /\ Held' = Held  BY <2>1, <2>2 DEF Spent, Held
    <3>3. Budget!Stop(k)  BY <2>1, <3>1, <3>2 DEF Budget!Stop
    <3>4. QED  BY <3>3 DEF Budget!Next
  <2>5. QED  BY <2>1, <2>3, <2>4
<1>5. ASSUME NEW r \in Reqs, Quiet(r)
      PROVE  UNCHANGED Budget!budgetVars
  BY <1>1, <1>3, <1>5, QuietMoves
<1>6. ASSUME NEW r \in Reqs, NEW k \in Links, k = LinkOf(r), Count(r)
      PROVE  Budget!Take(k)
  <2>1. store[k].files < MaxFiles
    BY <1>1, <1>2, <1>6, CountMoves, DownloadAssumption DEF LimitsFixed
  <2>2. Cardinality(Taken(k)') = Cardinality(Taken(k)) + 1
    BY <1>1, <1>2, <1>6, CountMoves, Counting
  <2>3. Spent' = [Spent EXCEPT ![k] = @ + 1]
    <3>1. /\ store'[k].files = store[k].files + 1
          /\ \A l \in Links \ {k} : store'[l] = store[l]
      BY <1>1, <1>6, CountMoves
    <3>2. QED  BY <3>1 DEF Spent
  <2>4. Held' = [Held EXCEPT ![k] = @ + 1]
    BY <1>1, <1>6, <2>2, CountMoves DEF Held
  <2>5. StoppedLinks' = StoppedLinks /\ ~StoppedLinks[k] /\ sent' = sent
    BY <1>1, <1>6, CountMoves DEF StoppedLinks
  <2>6. QED  BY <2>1, <2>3, <2>4, <2>5 DEF Budget!Take, Spent
<1>7. ASSUME NEW r \in Reqs, NEW k \in Links, k = LinkOf(r), Record(r)
      PROVE  Budget!Complete(k)
  <2>1. Cardinality(Taken(k)') = Cardinality(Taken(k)) - 1 /\ Cardinality(Taken(k)) > 0
    BY <1>1, <1>2, <1>7, RecordMoves, Counting
  <2>2. Held' = [Held EXCEPT ![k] = @ - 1] /\ Held[k] > 0
    BY <1>1, <1>7, <2>1, RecordMoves DEF Held
  <2>3. Spent' = Spent /\ StoppedLinks' = StoppedLinks
    BY <1>1, <1>7, RecordMoves DEF Spent, StoppedLinks
  <2>4. sent' = [sent EXCEPT ![k] = @ + 1]  BY <1>1, <1>7, RecordMoves
  <2>5. QED  BY <2>2, <2>3, <2>4 DEF Budget!Complete
<1>8. ASSUME Restart
      PROVE  Budget!Next
  <2>1. \A l \in Links : Cardinality(Taken(l)') = 0
    BY <1>1, <1>8, RestartMoves, FS_EmptySet
  <2>2. Held' \in [Links -> Nat] /\ \A l \in Links : Held'[l] <= Held[l]
    BY <1>2, <2>1 DEF Held
  <2>3. Spent' = Spent /\ StoppedLinks' = StoppedLinks /\ sent' = sent
    BY <1>1, <1>8, RestartMoves DEF Spent, StoppedLinks
  <2>4. QED  BY <2>2, <2>3 DEF Budget!Lose, Budget!Next
<1>9. CASE PruneGrants \/ UNCHANGED vars
  BY <1>3, <1>9 DEF PruneGrants, vars, history, Taken, LinkOf
<1>10. \A r \in Reqs : LinkOf(r) \in Links  BY <1>1, LinkOfLink
<1>11. ASSUME NEW r \in Reqs, Count(r) \/ Record(r)
       PROVE  Budget!Next
  BY <1>6, <1>7, <1>10, <1>11 DEF Budget!Next
<1>12. QED
  BY <1>4, <1>5, <1>8, <1>9, <1>11 DEF Next, Handler, Quiet

(* A link used for downloads or shares implements the budget of            *)
(* LinkBudget, as a link used for uploads does (UploadProofs): a slot is   *)
(* taken before a byte is sent, and none is taken once the link is stopped. *)
THEOREM DownloadImplementsBudget == Spec => ImplementsBudget
<1>1. IInv /\ [Next]_vars => [Budget!Next]_(Budget!budgetVars)  BY BudgetStep
<1>2. QED
  BY Invariance, BudgetInit, <1>1, PTL DEF Spec, ImplementsBudget, Budget!Spec

-------------------------------------------------------------------------------

(***************************************************************************)
(* Counted once per phone and file.  What makes the count exact is that,   *)
(* as long as no phone asked twice at the same time for a file, the map is *)
(* what the requests believe it is: whoever was found in it, was put into  *)
(* it or was sent a file is in it until the link expires, and whoever was  *)
(* not found in it is still not in it.                                     *)
(***************************************************************************)

Live(t) == ~store[t[1]].expired

(* Who did not ask twice asks alone. *)
Solo ==
  \A r, q \in Reqs :
    Open(r) /\ Open(q) /\ req[r].what = req[q].what /\ req[r].what \notin raced => r = q

InMap ==
  \A r \in Reqs :
    (req[r].known \/ req[r].pc = "noted") /\ Live(req[r].what) => req[r].what \in counted

Unknown ==
  \A r \in Reqs :
    /\ req[r].pc \in {"allowed", "begun"} /\ ~req[r].known
    /\ Live(req[r].what) /\ req[r].what \notin raced
    => req[r].what \notin counted

GivenIn == restarts = 0 => \A t \in given : Live(t) => t \in counted

OnceInv == Solo /\ InMap /\ Unknown /\ GivenIn /\ CountedOnceUnlessRaced

LEMMA TwoAsk ==
  ASSUME NEW S \in SUBSET Reqs, NEW r \in S, NEW q \in S, r # q
  PROVE  Cardinality(S) > 1
<1>1. Cardinality(S) \in Nat /\ Cardinality(S \ {r}) = Cardinality(S) - 1
  BY Counting
<1>2. Cardinality(S \ {r}) > 0 /\ Cardinality(S \ {r}) \in Nat
  <2>1. S \ {r} \in SUBSET Reqs /\ q \in S \ {r}  OBVIOUS
  <2>2. QED  BY <2>1, Counting
<1>3. QED  BY <1>1, <1>2

(* expires_at never moves into the future again. *)
LEMMA ExpiryStays ==
  ASSUME TypeOK, [Next]_vars, NEW l \in Links, ~store'[l].expired
  PROVE  ~store[l].expired
<1>1. \A k \in Links : store[k] \in Session  BY DEF TypeOK
<1>2. ASSUME NEW k \in Links, CreateLink(k) \/ Revoke(k) \/ Expire(k)
      PROVE  ~store[l].expired
  <2>1. CASE l # k
    <3>1. store'[l] = store[l]  BY <1>2, <2>1 DEF CreateLink, Revoke, Expire, TypeOK
    <3>2. QED  BY <3>1
  <2>2. CASE l = k
    <3>1. CASE CreateLink(k)
      BY <2>2, <3>1 DEF CreateLink, NoSession
    <3>2. CASE Revoke(k)
      BY <1>1, <2>2, <3>2 DEF Revoke, Stopped, TypeOK, Session
    <3>3. CASE Expire(k)
      BY <2>2, <3>3 DEF Expire
    <3>4. QED  BY <1>2, <3>1, <3>2, <3>3
  <2>3. QED  BY <2>1, <2>2
<1>3. ASSUME NEW r \in Reqs, Handler(r) \/ Disconnect(r)
      PROVE  ~store[l].expired
  <2>1. CASE Count(r)
    BY <1>1, <2>1, LinkOfLink DEF Count, Reserved, TypeOK, Session
  <2>2. CASE Record(r)
    BY <1>1, <2>2, LinkOfLink DEF Record, Recorded, TypeOK, Session
  <2>3. CASE Quiet(r)
    <3>1. store' = store  BY <2>3, QuietMoves
    <3>2. QED  BY <3>1
  <2>4. QED  BY <1>3, <2>1, <2>2, <2>3 DEF Handler, Quiet
<1>4. CASE \E r \in Reqs, t \in Triples, get \in BOOLEAN : Arrive(r, t, get)
  <2>1. store' = store  BY <1>4 DEF Arrive
  <2>2. QED  BY <2>1
<1>5. CASE Restart
  <2>1. PICK old \in SUBSET Links :
          store' = [k \in Links |-> IF k \in old THEN Pruned(store[k]) ELSE store[k]]
    BY <1>5 DEF Restart
  <2>2. QED  BY <1>1, <2>1 DEF Pruned, Session
<1>6. CASE PruneGrants \/ UNCHANGED vars
  <2>1. store' = store  BY <1>6 DEF PruneGrants, vars
  <2>2. QED  BY <2>1
<1>7. QED  BY <1>2, <1>3, <1>4, <1>5, <1>6 DEF Next

(* The steps of a request. *)
Moving(r) ==
  Handler(r) \/ Disconnect(r) \/ \E t \in Triples, get \in BOOLEAN : Arrive(r, t, get)

(* What one request does to itself, to the map and to the phones served.  *)
LEMMA MapMoves ==
  ASSUME TypeOK, NEW r \in Reqs, Moving(r)
  PROVE  /\ \A q \in Reqs \ {r} : req'[q] = req[q]
         /\ restarts' = restarts
         /\ \/ counted' = counted
            \/ counted' = counted \cup {req'[r].what} /\ req'[r].pc = "noted"
         /\ \/ given' = given
            \/ given' = given \cup {req[r].what} /\ (req[r].known \/ req[r].pc = "noted")
         /\ \/ ~req'[r].known /\ req'[r].pc # "noted"
            \/ req'[r].what = req[r].what /\ (req[r].known \/ req[r].pc = "noted")
            \/ req'[r].what \in counted'
         /\ \/ req'[r].known \/ req'[r].pc \notin {"allowed", "begun"}
            \/ req'[r].what = req[r].what /\ req[r].pc \in {"allowed", "begun"} /\ ~req[r].known
            \/ req'[r].what = req[r].what /\ counted' = counted /\ store' = store /\ ~WasCounted(req[r].what)
<1> USE DEF TypeOK
<1>1. CASE \E t \in Triples, get \in BOOLEAN : Arrive(r, t, get)
  <2>1. PICK t \in Triples, get \in BOOLEAN : Arrive(r, t, get)  BY <1>1
  <2>2. req'[r].pc = "looked" /\ ~req'[r].known  BY <2>1, IdleType DEF Arrive, Request
  <2>3. QED  BY <2>1, <2>2 DEF Arrive, history
<1>2. CASE Check(r)
  <2> DEFINE was == WasCounted(req[r].what)
  <2>1. was \in BOOLEAN /\ (was => req[r].what \in counted)  BY Zenon DEF WasCounted
  <2>2. /\ req' = [req EXCEPT ![r] = [req[r] EXCEPT !.pc = "allowed", !.known = was]]
        /\ UNCHANGED <<store, counted, given, restarts>>
    BY <1>2 DEF Check, history
  <2> HIDE DEF was
  <2>3. /\ req'[r].pc = "allowed" /\ req'[r].known = was /\ req'[r].what = req[r].what
        /\ \A q \in Reqs \ {r} : req'[q] = req[q]
    BY <2>2 DEF Request
  <2>4. QED  BY <2>1, <2>2, <2>3 DEF was
<1>3. CASE RefuseFull(r) \/ TurnAway(r) \/ CountRefused(r) \/ EndOfFile(r)
  <2>1. req' = [req EXCEPT ![r] = Idle] /\ UNCHANGED <<counted, given, restarts>>
    BY <1>3 DEF RefuseFull, TurnAway, CountRefused, EndOfFile, Drop, Finish, history
  <2>2. QED  BY <2>1, IdleType
<1>4. CASE Begin(r)
  BY <1>4 DEF Begin, Goto, history, Request
<1>5. CASE Resume(r)
  BY <1>5 DEF Resume, Goto, Request
<1>6. CASE Count(r)
  BY <1>6 DEF Count, Goto, history, Request
<1>7. CASE Note(r)
  BY <1>7 DEF Note, Goto, history, Request
<1>8. CASE Record(r)
  BY <1>8 DEF Record, Goto, Request
<1>9. CASE Disconnect(r)
  BY <1>9 DEF Disconnect, history, Request
<1>10. QED
  BY <1>1, <1>2, <1>3, <1>4, <1>5, <1>6, <1>7, <1>8, <1>9 DEF Moving, Handler

LEMMA NextMoves ==
  ASSUME Next
  PROVE  \/ \E r \in Reqs : Moving(r)
         \/ \E l \in Links : CreateLink(l) \/ Revoke(l) \/ Expire(l)
         \/ PruneGrants
         \/ Restart
BY DEF Next, Moving

(* Everything but a restart leaves the map of a live link complete. *)
LEMMA MapStays ==
  ASSUME TypeOK, [Next]_vars, ~Restart, NEW t \in counted, Live(t)'
  PROVE  t \in counted'
<1>1. t[1] \in Links  BY DEF TypeOK, Triples
<1>2. CASE \E r \in Reqs : Moving(r)
  BY <1>2, MapMoves
<1>3. CASE \E l \in Links : CreateLink(l) \/ Revoke(l) \/ Expire(l)
  BY <1>3 DEF CreateLink, Revoke, Expire
<1>4. CASE PruneGrants
  BY <1>4 DEF PruneGrants, Live
<1>5. CASE UNCHANGED vars
  BY <1>5 DEF vars
<1>6. QED  BY <1>2, <1>3, <1>4, <1>5, NextMoves

LEMMA LiveStays ==
  ASSUME TypeOK, [Next]_vars, NEW t \in Triples, Live(t)'
  PROVE  Live(t)
<1>1. t[1] \in Links  BY DEF Triples
<1>2. QED  BY <1>1, ExpiryStays DEF Live

LEMMA SoloStep ==
  ASSUME TypeOK', MCNext
  PROVE  Solo'
<1> SUFFICES ASSUME NEW r \in Reqs, NEW q \in Reqs, NEW t \in Triples, Open(r)', Open(q)',
                    req'[r].what = t, req'[q].what = t, t \notin raced', r # q
             PROVE  FALSE
  BY DEF Solo, TypeOK, Request
<1>1. Asking(t)' \in SUBSET Reqs /\ r \in Asking(t)' /\ q \in Asking(t)'
  BY DEF Asking
<1>2. Cardinality(Asking(t)') > 1  BY <1>1, TwoAsk
<1>3. QED  BY <1>2 DEF MCNext

(* A step that is neither a request's nor a restart changes no request. *)
LEMMA OthersIdle ==
  ASSUME [Next]_vars, ~Restart, ~\E r \in Reqs : Moving(r)
  PROVE  UNCHANGED <<req, given, restarts>> /\ counted' \subseteq counted
<1>1. CASE \E l \in Links : CreateLink(l) \/ Revoke(l) \/ Expire(l)
  BY <1>1 DEF CreateLink, Revoke, Expire, history
<1>2. CASE PruneGrants
  BY <1>2 DEF PruneGrants, history
<1>3. CASE UNCHANGED vars
  BY <1>3 DEF vars, history
<1>4. QED  BY <1>1, <1>2, <1>3, NextMoves

LEMMA InMapStep ==
  ASSUME TypeOK, TypeOK', InMap, [Next]_vars
  PROVE  InMap'
<1>1. CASE Restart
  BY <1>1, RestartMoves, IdleType DEF InMap
<1>2. CASE ~Restart
  <2> SUFFICES ASSUME NEW q \in Reqs, NEW t \in Triples, t = req'[q].what,
                      req'[q].known \/ req'[q].pc = "noted", Live(t)'
               PROVE  t \in counted'
    BY DEF InMap, TypeOK, Request, Live
  <2>2. Live(t)  BY LiveStays
  <2>3. t \in counted => t \in counted'  BY <1>2, MapStays
  <2>4. ASSUME t = req[q].what, req[q].known \/ req[q].pc = "noted"
        PROVE  t \in counted'
    BY <2>2, <2>3, <2>4 DEF InMap
  <2>5. CASE \E r \in Reqs : Moving(r)
    <3>1. PICK r \in Reqs : Moving(r)  BY <2>5
    <3>2. CASE q = r  BY <2>4, <3>1, <3>2, MapMoves
    <3>3. CASE q # r  BY <2>4, <3>1, <3>3, MapMoves
    <3>4. QED  BY <3>2, <3>3
  <2>6. CASE ~\E r \in Reqs : Moving(r)
    BY <1>2, <2>4, <2>6, OthersIdle
  <2>7. QED  BY <2>5, <2>6
<1>3. QED  BY <1>1, <1>2

(* Only a request of its own phone and file puts a triple into the map, *)
(* and the requests of a triple that did not race are one.              *)
LEMMA UnknownStep ==
  ASSUME TypeOK, TypeOK', Unknown, MCNext
  PROVE  Unknown'
<1>1. CASE Restart
  BY <1>1, RestartMoves, IdleType DEF Unknown
<1>2. CASE ~Restart
  <2> SUFFICES ASSUME NEW q \in Reqs, req'[q].pc \in {"allowed", "begun"}, ~req'[q].known,
                      NEW t \in Triples, t = req'[q].what, Live(t)', t \notin raced'
               PROVE  t \notin counted'
    BY DEF Unknown, TypeOK, Request, Live
  <2>1. t \notin raced  BY DEF MCNext
  <2>2. Live(t)  BY LiveStays DEF MCNext
  <2>3. ASSUME t = req[q].what, req[q].pc \in {"allowed", "begun"}, ~req[q].known
        PROVE  t \notin counted
    BY <2>1, <2>2, <2>3 DEF Unknown
  <2>4. CASE \E r \in Reqs : Moving(r)
    <3>1. PICK r \in Reqs : Moving(r)  BY <2>4
    <3>2. CASE q = r
      <4>1. counted' = counted  BY <3>1, <3>2, MapMoves
      <4>2. CASE t = req[q].what /\ req[q].pc \in {"allowed", "begun"} /\ ~req[q].known
        BY <2>3, <4>1, <4>2
      <4>3. CASE t = req[q].what /\ ~WasCounted(req[q].what)
        BY <2>2, <4>1, <4>3 DEF WasCounted, Live
      <4>4. QED  BY <3>1, <3>2, <4>2, <4>3, MapMoves
    <3>3. CASE q # r
      <4>1. req'[q] = req[q] /\ t \notin counted  BY <2>3, <3>1, <3>3, MapMoves
      <4>2. CASE counted' = counted  BY <4>1, <4>2
      <4>3. CASE counted' = counted \cup {req'[r].what} /\ req'[r].pc = "noted"
        <5>1. Open(r)' /\ Open(q)'  BY <4>3 DEF Open
        <5>2. req'[r].what # t  BY <3>3, <5>1, SoloStep DEF Solo
        <5>3. QED  BY <4>1, <4>3, <5>2
      <4>4. QED  BY <3>1, <4>2, <4>3, MapMoves
    <3>4. QED  BY <3>2, <3>3
  <2>5. CASE ~\E r \in Reqs : Moving(r)
    BY <1>2, <2>3, <2>5, OthersIdle DEF MCNext
  <2>6. QED  BY <2>4, <2>5
<1>3. QED  BY <1>1, <1>2

LEMMA GivenInStep ==
  ASSUME TypeOK, TypeOK', InMap, GivenIn, [Next]_vars
  PROVE  GivenIn'
<1>1. CASE Restart
  <2>1. restarts' # 0  BY <1>1, DownloadAssumption DEF Restart, TypeOK
  <2>2. QED  BY <2>1 DEF GivenIn
<1>2. CASE ~Restart
  <2> SUFFICES ASSUME restarts' = 0, NEW t \in given', Live(t)'
               PROVE  t \in counted'
    BY DEF GivenIn
  <2>1. t \in Triples  BY DEF TypeOK
  <2>2. Live(t)  BY <2>1, LiveStays
  <2>3. t \in counted => t \in counted'  BY <1>2, MapStays
  <2>4. CASE \E r \in Reqs : Moving(r)
    <3>1. PICK r \in Reqs : Moving(r)  BY <2>4
    <3>2. restarts = 0  BY <3>1, MapMoves
    <3>3. CASE t \in given  BY <2>2, <2>3, <3>2, <3>3 DEF GivenIn
    <3>4. CASE t = req[r].what /\ (req[r].known \/ req[r].pc = "noted")
      BY <2>2, <2>3, <3>4 DEF InMap
    <3>5. QED  BY <3>1, <3>3, <3>4, MapMoves
  <2>5. CASE ~\E r \in Reqs : Moving(r)
    BY <1>2, <2>2, <2>3, <2>5, OthersIdle DEF GivenIn
  <2>6. QED  BY <2>4, <2>5
<1>3. QED  BY <1>1, <1>2

(* What a link remembers or has taken is finite, and grows by one at Count. *)
LEMMA TakenTriplesFinite ==
  ASSUME IInv, NEW l \in Links
  PROVE  IsFiniteSet(TakenTriples(l)) /\ Cardinality(TakenTriples(l)) \in Nat
<1>1. \A t \in counted : t \in Covered(t[1])  BY SureCovered DEF IInv, Remembered
<1>2. TakenTriples(l) \subseteq Covered(l)  BY <1>1 DEF TakenTriples, Covered, OfLink
<1>3. IsFiniteSet(Covered(l))  BY DEF IInv, WithinCount
<1>4. QED  BY <1>2, <1>3, FS_Subset, FS_CardinalityType

LEMMA CountedStep ==
  ASSUME IInv, IInv', OnceInv, MCNext
  PROVE  CountedOnceUnlessRaced'
<1>1. TypeOK /\ TypeOK' /\ [Next]_vars /\ raced \subseteq raced'  BY DEF IInv, MCNext
<1> SUFFICES ASSUME restarts' = 0, NEW l \in Links, ~store'[l].expired, OfLink(raced', l) = {}
             PROVE  store'[l].files <= Cardinality(TakenTriples(l)')
  BY DEF CountedOnceUnlessRaced
<1>2. ~Restart  BY <1>1, DownloadAssumption DEF Restart, TypeOK
<1>3. restarts = 0
  <2>1. restarts' = restarts  BY <1>1, <1>2, MapMoves, OthersIdle
  <2>2. QED  BY <2>1
<1>4. ~store[l].expired /\ OfLink(raced, l) = {}  BY <1>1, ExpiryStays DEF OfLink
<1>5. store[l].files <= Cardinality(TakenTriples(l)) /\ store[l].files \in Nat
  BY <1>1, <1>3, <1>4 DEF OnceInv, CountedOnceUnlessRaced, TypeOK, Session
<1>6. ASSUME store'[l].files = store[l].files, TakenTriples(l)' = TakenTriples(l)
      PROVE  store'[l].files <= Cardinality(TakenTriples(l)')
  BY <1>5, <1>6
<1>7. Taken(l) \subseteq Reqs /\ \A r \in Reqs : req[r].what \in Triples /\ req'[r].what \in Triples
  BY <1>1 DEF Taken, TypeOK, Request
<1>8. ASSUME NEW r \in Reqs, Quiet(r)
      PROVE  store'[l].files <= Cardinality(TakenTriples(l)')
  <2>1. /\ store' = store /\ Taken(l)' = Taken(l)
        /\ \A q \in Taken(l) : req'[q].what = req[q].what
    BY <1>1, <1>7, <1>8, QuietMoves DEF Taken, TypeOK
  <2>2. {req'[q].what : q \in Taken(l)'} = {req[q].what : q \in Taken(l)}  BY <2>1
  <2>3. CASE Note(r)
    <3>1. counted' = counted \cup {req[r].what} /\ (LinkOf(r) = l => r \in Taken(l))
      BY <1>7, <2>3 DEF Note, Taken
    <3>2. QED  BY <1>6, <2>1, <2>2, <3>1 DEF TakenTriples, OfLink, LinkOf
  <2>4. CASE counted' = counted
    BY <1>6, <2>1, <2>2, <2>4 DEF TakenTriples
  <2>5. QED
    BY <1>8, <2>3, <2>4 DEF Quiet, Check, RefuseFull, TurnAway, Begin, Resume, CountRefused,
                            EndOfFile, Disconnect, Arrive, history
<1>9. ASSUME NEW r \in Reqs, NEW k \in Links, k = LinkOf(r), Count(r)
      PROVE  store'[l].files <= Cardinality(TakenTriples(l)')
  <2>1. /\ req' = [req EXCEPT ![r].pc = "reserved"] /\ req \in [Reqs -> Request]
        /\ counted' = counted /\ Taken(k)' = Taken(k) \cup {r}
        /\ \A m \in Links \ {k} : Taken(m)' = Taken(m) /\ store'[m] = store[m]
        /\ store'[k].files = store[k].files + 1
    BY <1>1, <1>9, CountMoves DEF TypeOK
  <2>2. \A q \in Reqs : req'[q].what = req[q].what  BY <2>1 DEF Request
  <2>3. CASE l # k
    BY <1>6, <1>7, <2>1, <2>2, <2>3 DEF TakenTriples
  <2>4. CASE l = k
    <3> DEFINE t == req[r].what
    <3>1. t \notin raced /\ Live(t) /\ t[1] = k
      BY <1>4, <1>9, <2>4 DEF OfLink, Live, LinkOf, MCNext
    <3>2. t \notin counted
      BY <1>9, <3>1 DEF OnceInv, Unknown, Count
    <3>3. \A q \in Taken(k) : req[q].what # t
      <4>1. ASSUME NEW q \in Taken(k), req[q].what = t
            PROVE  FALSE
        <5>1. q \in Reqs /\ Open(q) /\ Open(r) /\ q # r
          BY <1>9, <4>1 DEF Taken, Open, Count
        <5>2. QED  BY <3>1, <4>1, <5>1 DEF OnceInv, Solo
      <4>2. QED  BY <4>1
    <3>4. t \notin TakenTriples(k)
      BY <3>2, <3>3 DEF TakenTriples, OfLink
    <3>5. TakenTriples(k)' = TakenTriples(k) \cup {t}
      <4>1. {req'[q].what : q \in Taken(k) \cup {r}} = {req[q].what : q \in Taken(k)} \cup {t}
        BY <1>7, <2>2, <2>4
      <4>2. QED  BY <2>1, <4>1 DEF TakenTriples
    <3>6. Cardinality(TakenTriples(k)') = Cardinality(TakenTriples(k)) + 1
      BY <3>4, <3>5, TakenTriplesFinite, FS_AddElement
    <3>7. QED  BY <1>5, <2>1, <2>4, <3>6, TakenTriplesFinite
  <2>5. QED  BY <2>3, <2>4
<1>10. ASSUME NEW r \in Reqs, NEW k \in Links, k = LinkOf(r), Record(r)
       PROVE  store'[l].files <= Cardinality(TakenTriples(l)')
  <2>1. /\ req' = [req EXCEPT ![r].pc = "sending"] /\ req \in [Reqs -> Request]
        /\ counted' = counted
        /\ r \in Taken(k) /\ Taken(k)' = Taken(k) \ {r}
        /\ \A m \in Links \ {k} : Taken(m)' = Taken(m)
        /\ store'[l].files = store[l].files
    BY <1>1, <1>10, RecordMoves DEF TypeOK
  <2>2. \A q \in Reqs : req'[q].what = req[q].what  BY <2>1 DEF Request
  <2>3. CASE l # k
    BY <1>6, <1>7, <2>1, <2>2, <2>3 DEF TakenTriples
  <2>4. CASE l = k
    <3>1. req[r].what \in counted /\ req[r].what[1] = k
      BY <1>4, <1>10, <2>4 DEF OnceInv, InMap, Record, Live, LinkOf
    <3>2. {req'[q].what : q \in Taken(k) \ {r}} \cup {req[r].what} = {req[q].what : q \in Taken(k)}
      BY <1>7, <2>1, <2>2, <2>4
    <3>3. TakenTriples(k)' = TakenTriples(k)
      BY <2>1, <3>1, <3>2 DEF TakenTriples, OfLink
    <3>4. QED  BY <1>6, <2>1, <2>4, <3>3
  <2>5. QED  BY <2>3, <2>4
<1>11. ASSUME NEW k \in Links, CreateLink(k) \/ Revoke(k) \/ Expire(k)
       PROVE  store'[l].files <= Cardinality(TakenTriples(l)')
  <2>1. store'[l].files = store[l].files /\ UNCHANGED <<counted, req>>
    BY <1>1, <1>11, LinkMoves DEF IInv
  <2>2. QED  BY <1>6, <2>1 DEF TakenTriples, Taken, LinkOf
<1>12. CASE PruneGrants
  <2>1. UNCHANGED <<store, req>> /\ OfLink(counted', l) = OfLink(counted, l)
    BY <1>4, <1>12 DEF PruneGrants, OfLink
  <2>2. QED  BY <1>6, <2>1 DEF TakenTriples, Taken, LinkOf
<1>13. \A r \in Reqs : LinkOf(r) \in Links  BY <1>1, LinkOfLink
<1>14. QED
  BY <1>2, <1>8, <1>9, <1>10, <1>11, <1>12, <1>13 DEF MCNext, Next, Handler, Quiet

LEMMA OnceInit == MCInit => OnceInv
<1> SUFFICES ASSUME MCInit PROVE OnceInv  OBVIOUS
<1>1. /\ \A r \in Reqs : req[r] = Idle
      /\ counted = {} /\ given = {} /\ \A l \in Links : store[l] = NoSession
  BY DEF MCInit, Init
<1>2. Solo /\ InMap /\ Unknown /\ GivenIn
  BY <1>1, IdleType DEF Solo, Open, InMap, Unknown, GivenIn
<1>3. \A l \in Links : TakenTriples(l) = {} /\ store[l].files = 0
  BY <1>1, IdleType, NewRow DEF TakenTriples, OfLink, Taken
<1>4. CountedOnceUnlessRaced
  BY <1>3, FS_EmptySet DEF CountedOnceUnlessRaced
<1>5. QED  BY <1>2, <1>4 DEF OnceInv

(* A step that changes nothing, raced included. *)
LEMMA OnceStutter ==
  ASSUME OnceInv, UNCHANGED <<vars, raced>>
  PROVE  OnceInv'
<1>1. UNCHANGED <<store, counted, req, given, restarts, raced>>  BY DEF vars, history
<1>2. Solo' /\ InMap' /\ Unknown' /\ GivenIn'
  BY <1>1 DEF OnceInv, Solo, InMap, Unknown, GivenIn, Open, Live
<1>3. CountedOnceUnlessRaced'
  BY <1>1 DEF OnceInv, CountedOnceUnlessRaced, OfLink, TakenTriples, Taken, LinkOf
<1>4. QED  BY <1>2, <1>3 DEF OnceInv

LEMMA OnceInvariance == MCSpec => [](IInv /\ OnceInv)
<1>1. MCInit => IInv /\ OnceInv  BY InitIInv, OnceInit DEF MCInit
<1>2. IInv /\ [MCNext]_<<vars, raced>> => IInv'
  <2>1. [MCNext]_<<vars, raced>> => [Next]_vars  BY DEF MCNext
  <2>2. QED  BY <2>1, IInvStep
<1>3. IInv /\ OnceInv /\ [MCNext]_<<vars, raced>> => OnceInv'
  <2> SUFFICES ASSUME IInv, OnceInv, MCNext PROVE OnceInv'
    BY OnceStutter
  <2>1. IInv' /\ TypeOK /\ TypeOK' /\ [Next]_vars  BY IInvStep DEF MCNext, IInv
  <2>2. Solo' /\ InMap' /\ Unknown' /\ GivenIn'
    BY <2>1, SoloStep, InMapStep, UnknownStep, GivenInStep DEF OnceInv
  <2>3. CountedOnceUnlessRaced'  BY <2>1, CountedStep
  <2>4. QED  BY <2>2, <2>3 DEF OnceInv
<1>4. QED  BY <1>1, <1>2, <1>3, PTL DEF MCSpec

(* SECURITY.md: "A download is counted once per phone (network address)    *)
(* and file": for any links, phones, files and requests, as long as no     *)
(* phone asked twice at the same time for a file of the link and vaultd    *)
(* was not restarted, a link that has not expired counts no more downloads *)
(* than the phones and files it remembers or is about to serve.            *)
THEOREM CountedOnce == MCSpec => []CountedOnceUnlessRaced
<1>1. IInv /\ OnceInv => CountedOnceUnlessRaced  BY DEF OnceInv
<1>2. QED  BY OnceInvariance, <1>1, PTL

(* SECURITY.md: "The same phone can resume or retry an interrupted         *)
(* download until the link expires without using it up": both refusals     *)
(* (usable, send) of a phone that was sent the file come after a race of   *)
(* its own, a restart, or the end of the link.                             *)
THEOREM ResumeRight == MCSpec => ResumeUnlessRaced
<1> DEFINE Kept ==
      \A r \in Reqs : RefuseFull(r) \/ CountRefused(r) =>
        \/ req[r].what \notin given \/ req[r].what \in raced \/ restarts > 0
        \/ store[LinkOf(r)].expired \/ store[LinkOf(r)].revoked
<1>1. IInv /\ OnceInv => Kept
  <2> SUFFICES ASSUME IInv, OnceInv, NEW r \in Reqs, RefuseFull(r) \/ CountRefused(r),
                      req[r].what \in given, req[r].what \notin raced, ~(restarts > 0),
                      ~store[LinkOf(r)].expired
               PROVE  FALSE
    OBVIOUS
  <2>1. restarts = 0  BY DownloadAssumption DEF IInv, TypeOK
  <2>2. Live(req[r].what) /\ req[r].what \in counted
    BY <2>1 DEF OnceInv, GivenIn, Live, LinkOf
  <2>3. CASE RefuseFull(r)
    BY <2>2, <2>3 DEF RefuseFull, WasCounted, Live
  <2>4. CASE CountRefused(r)
    BY <2>2, <2>4 DEF CountRefused, OnceInv, Unknown
  <2>5. QED  BY <2>3, <2>4
<1>2. IInv /\ OnceInv /\ [MCNext]_<<vars, raced>> => [Kept]_vars  BY <1>1
<1>3. [](IInv /\ OnceInv) /\ [][MCNext]_<<vars, raced>> => [][Kept]_vars  BY <1>2, PTL
<1>4. QED  BY OnceInvariance, <1>3, PTL DEF MCSpec, ResumeUnlessRaced
===============================================================================
