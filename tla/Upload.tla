-------------------------------- MODULE Upload --------------------------------
(***************************************************************************)
(* Phone uploads: the concurrent runs of Server.receive and saveOne        *)
(* (internal/transfer/server.go), each streaming the parts of one          *)
(* multipart request to the drive under one link of the store.             *)
(*                                                                         *)
(* A request is a goroutine; req[r].pc is where it stands between two      *)
(* calls that other goroutines can see.  Its context is cancelled by       *)
(* net/http the moment a read from the phone fails, and every statement    *)
(* of the store given a cancelled context fails without running.           *)
(***************************************************************************)
EXTENDS TransferStore, FiniteSets

CONSTANTS
  Links,       \* upload links that may be created
  Reqs,        \* upload requests that may run at the same time
  MaxFiles,    \* uploadMaxFiles
  MaxBytes,    \* uploadMaxBytes, in units
  DiskSize,    \* free space of the drive at the start, in units
  ReserveBytes,\* reserveBytes, in units
  MaxCrashes   \* bound on how often vaultd is killed

ASSUME UploadAssumption ==
  /\ IsFiniteSet(Reqs)
  /\ Links # {}
  /\ MaxFiles \in Nat \ {0}
  /\ MaxBytes \in Nat \ {0}
  /\ DiskSize \in Nat
  /\ ReserveBytes \in Nat
  /\ MaxCrashes \in Nat

VARIABLES
  store,    \* the sessions table (durable)
  landed,   \* files published in the destination folder, per link (durable)
  taken,    \* how many bytes they are (durable)
  stale,    \* .vault-partial files a crash left behind (durable)
  free,     \* free space of the drive (durable)
  inflight, \* Server.inflight
  req,      \* the upload requests
  crashes   \* how often vaultd was killed

durable == <<store, landed, taken, stale, free>>
vars == <<durable, inflight, req, crashes>>

(***************************************************************************)
(* Where a request stands:                                                 *)
(*   idle       no request                                                 *)
(*   found      lookup accepted the token                                  *)
(*   parts      between two parts of the body                              *)
(*   reserved   the store counted a file for the next part                 *)
(*   copying    the partial file is open, its limit is known               *)
(*   written    the partial file is complete                               *)
(*   published  the file has its final name                                *)
(*   failing    Save or the room check failed, Release comes next          *)
(***************************************************************************)
PCs == {"idle", "found", "parts", "reserved", "copying", "written", "published", "failing"}

(* live is FALSE once the request's context is cancelled; bytes is what the *)
(* current part may take (copying) or took (written, published); wrote is  *)
(* what a part still copying has in its partial file.                      *)
Request == [pc: PCs, link: Links, live: BOOLEAN, bytes: Nat, wrote: Nat]

Idle == [pc |-> "idle", link |-> CHOOSE l \in Links : TRUE, live |-> TRUE, bytes |-> 0, wrote |-> 0]

(* Requests of link l whose file is counted and not yet in the folder. *)
Unsaved(l) == {r \in Reqs : req[r].link = l /\ req[r].pc \in {"reserved", "copying", "written", "failing"}}

(* Those of them with a partial file on the drive. *)
Partial(l) == {r \in Unsaved(l) : req[r].pc \in {"copying", "written"}}

(* Requests counted as in flight. *)
Working == {r \in Reqs : req[r].pc \notin {"idle", "found"}}

Open(r) == req[r].pc # "idle"

Goto(r, pc) == req' = [req EXCEPT ![r].pc = pc]

(* The current part is done with. *)
Leave(r, pc) == req' = [req EXCEPT ![r].pc = pc, ![r].bytes = 0, ![r].wrote = 0]

(* The request ends: the deferred inflight.Add(-1) runs. *)
Finish(r) ==
  /\ req' = [req EXCEPT ![r] = Idle]
  /\ inflight' = inflight - 1

-------------------------------------------------------------------------------

Init ==
  /\ store = [l \in Links |-> NoSession]
  /\ landed = [l \in Links |-> 0]
  /\ taken = [l \in Links |-> 0]
  /\ stale = [l \in Links |-> 0]
  /\ free = DiskSize
  /\ inflight = 0
  /\ req = [r \in Reqs |-> Idle]
  /\ crashes = 0

(* The owner creates a link. *)
CreateLink(l) ==
  /\ store[l] = NoSession
  /\ store' = [store EXCEPT ![l] = NewSession(MaxFiles, MaxBytes)]
  /\ UNCHANGED <<landed, taken, stale, free, inflight, req, crashes>>

(* The owner presses Stop. *)
Revoke(l) ==
  /\ store[l].exists /\ ~store[l].revoked
  /\ store' = [store EXCEPT ![l] = Stopped(@)]
  /\ UNCHANGED <<landed, taken, stale, free, inflight, req, crashes>>

(* expires_at passes. *)
Expire(l) ==
  /\ store[l].exists /\ ~store[l].expired
  /\ store' = [store EXCEPT ![l].expired = TRUE]
  /\ UNCHANGED <<landed, taken, stale, free, inflight, req, crashes>>

(* receive: the token's link is looked up once for the whole request.  A   *)
(* refused token changes nothing here.                                     *)
Lookup(r, l) ==
  /\ ~Open(r)
  /\ Outcome(store[l]) = "ok"
  /\ req' = [req EXCEPT ![r] = [Idle EXCEPT !.pc = "found", !.link = l]]
  /\ UNCHANGED <<durable, inflight, crashes>>

(* receive: Dest reports the drive offline, or the body is not a form. *)
TurnAway(r) ==
  /\ req[r].pc = "found"
  /\ req' = [req EXCEPT ![r] = Idle]
  /\ UNCHANGED <<durable, inflight, crashes>>

(* receive: the drive is there; the request is counted as in flight. *)
Accept(r) ==
  /\ req[r].pc = "found"
  /\ Goto(r, "parts")
  /\ inflight' = inflight + 1
  /\ UNCHANGED <<durable, crashes>>

(* The phone goes away: net/http cancels the request's context. *)
Disconnect(r) ==
  /\ Open(r) /\ req[r].live
  /\ req' = [req EXCEPT ![r].live = FALSE]
  /\ UNCHANGED <<durable, inflight, crashes>>

(* receive: no more parts, or the body broke off between two parts. *)
EndOfBody(r) ==
  /\ req[r].pc = "parts"
  /\ Finish(r)
  /\ UNCHANGED <<durable, crashes>>

(* Mutant of Reserve: only checks, and leaves counting to a later step. *)
ReserveOnlyChecks(r) ==
  /\ req[r].pc = "parts"
  /\ req[r].live /\ CanReserve(store[req[r].link])
  /\ Goto(r, "reserved")
  /\ UNCHANGED <<durable, inflight, crashes>>

(* saveOne: Reserve counts the next file. *)
Reserve(r) ==
  /\ req[r].pc = "parts"
  /\ req[r].live /\ CanReserve(store[req[r].link])
  /\ store' = [store EXCEPT ![req[r].link] = Reserved(@)]
  /\ Goto(r, "reserved")
  /\ UNCHANGED <<landed, taken, stale, free, inflight, crashes>>

(* saveOne: Reserve refuses (link full or stopped, or the context is       *)
(* cancelled) and the request ends.                                        *)
ReserveRefused(r) ==
  /\ req[r].pc = "parts"
  /\ ~(req[r].live /\ CanReserve(store[req[r].link]))
  /\ Finish(r)
  /\ UNCHANGED <<durable, crashes>>

(* Save opens the partial file of a part that may take limit bytes. *)
Allow(r, limit) == req' = [req EXCEPT ![r].pc = "copying", ![r].bytes = limit]

(* Mutant of Measure: the free space is not a limit. *)
MeasureIgnoresRoom(r) ==
  /\ req[r].pc = "reserved"
  /\ req[r].live /\ free > ReserveBytes
  /\ Allow(r, Remaining(store[req[r].link]))
  /\ UNCHANGED <<durable, inflight, crashes>>

(* saveOne: Remaining and Statfs give the limit of the file. *)
Measure(r) ==
  LET room == free - ReserveBytes
      left == Remaining(store[req[r].link])
  IN /\ req[r].pc = "reserved"
     /\ req[r].live /\ free > ReserveBytes
     /\ Allow(r, IF room < left THEN room ELSE left)
     /\ UNCHANGED <<durable, inflight, crashes>>

(* saveOne: Statfs fails, which is no error there; the free space and the  *)
(* reserve are then no limit.                                              *)
MeasureBlind(r) ==
  /\ req[r].pc = "reserved" /\ req[r].live
  /\ Allow(r, Remaining(store[req[r].link]))
  /\ UNCHANGED <<durable, inflight, crashes>>

(* Mutant of NoRoom: the error of Remaining is not handled. *)
NoRoomOnlyDisk(r) ==
  /\ req[r].pc = "reserved"
  /\ free <= ReserveBytes
  /\ Goto(r, "failing")
  /\ UNCHANGED <<durable, inflight, crashes>>

(* saveOne: Remaining fails, or the drive has no room left. *)
NoRoom(r) ==
  /\ req[r].pc = "reserved"
  /\ ~req[r].live \/ free <= ReserveBytes
  /\ Goto(r, "failing")
  /\ UNCHANGED <<durable, inflight, crashes>>

(* Save: more of the part arrives, at most limit bytes (the byte beyond it *)
(* that io.LimitReader lets through is less than a unit).                  *)
Write(r) ==
  /\ req[r].pc = "copying"
  /\ req[r].wrote < req[r].bytes /\ free > 0
  /\ req' = [req EXCEPT ![r].wrote = @ + 1]
  /\ free' = free - 1
  /\ UNCHANGED <<store, landed, taken, stale, inflight, crashes>>

(* Save: the part is complete and synced. *)
Copy(r) ==
  /\ req[r].pc = "copying"
  /\ req' = [req EXCEPT ![r].pc = "written", ![r].bytes = req[r].wrote, ![r].wrote = 0]
  /\ UNCHANGED <<durable, inflight, crashes>>

(* The partial file of size bytes is removed; should the drive refuse, that *)
(* is ignored and the file stays.                                          *)
Discard(size) == free' \in {free, free + size}

(* Save: the body breaks off, is larger than the limit, or cannot be       *)
(* written.                                                                *)
CopyFails(r) ==
  /\ req[r].pc = "copying"
  /\ Discard(req[r].wrote)
  /\ Leave(r, "failing")
  /\ UNCHANGED <<store, landed, taken, stale, inflight, crashes>>

(* Save: publish gives the file its final name. *)
Publish(r) ==
  /\ req[r].pc = "written"
  /\ landed' = [landed EXCEPT ![req[r].link] = @ + 1]
  /\ taken' = [taken EXCEPT ![req[r].link] = @ + req[r].bytes]
  /\ Goto(r, "published")
  /\ UNCHANGED <<store, stale, free, inflight, crashes>>

(* Save: publish fails. *)
PublishFails(r) ==
  /\ req[r].pc = "written"
  /\ Discard(req[r].bytes)
  /\ Leave(r, "failing")
  /\ UNCHANGED <<store, landed, taken, stale, inflight, crashes>>

(* saveOne: Record adds the bytes. *)
Record(r) ==
  /\ req[r].pc = "published" /\ req[r].live
  /\ store' = [store EXCEPT ![req[r].link] = Recorded(@, req[r].bytes)]
  /\ Leave(r, "parts")
  /\ UNCHANGED <<landed, taken, stale, free, inflight, crashes>>

(* saveOne: the context is cancelled or the store cannot write: Record     *)
(* fails, which is only logged, and the file stays without its size.       *)
RecordFails(r) ==
  /\ req[r].pc = "published"
  /\ Leave(r, "parts")
  /\ UNCHANGED <<durable, inflight, crashes>>

(* saveOne: Release, with the request's own context, and the request ends. *)
Release(r) ==
  /\ req[r].pc = "failing"
  /\ store' = IF req[r].live
              THEN [store EXCEPT ![req[r].link] = Released(@)]
              ELSE store
  /\ Finish(r)
  /\ UNCHANGED <<landed, taken, stale, free, crashes>>

(* vaultd dies, or its five seconds of grace end: the requests are gone,   *)
(* the partial files stay, and the next start prunes old rows.             *)
Restart ==
  /\ crashes < MaxCrashes
  /\ crashes' = crashes + 1
  /\ stale' = [l \in Links |-> stale[l] + Cardinality(Partial(l))]
  /\ \E old \in SUBSET {l \in Links : store[l].exists /\ store[l].expired} :
       store' = [l \in Links |-> IF l \in old THEN Pruned(store[l]) ELSE store[l]]
  /\ req' = [r \in Reqs |-> Idle]
  /\ inflight' = 0
  /\ UNCHANGED <<landed, taken, free>>

Handler(r) ==
  \/ TurnAway(r) \/ Accept(r)
  \/ EndOfBody(r) \/ Reserve(r) \/ ReserveRefused(r)
  \/ Measure(r) \/ MeasureBlind(r) \/ NoRoom(r)
  \/ Write(r) \/ Copy(r) \/ CopyFails(r)
  \/ Publish(r) \/ PublishFails(r)
  \/ Record(r) \/ RecordFails(r) \/ Release(r)

Next ==
  \/ \E l \in Links : CreateLink(l) \/ Revoke(l) \/ Expire(l)
  \/ \E r \in Reqs : Handler(r) \/ Disconnect(r)
  \/ \E r \in Reqs, l \in Links : Lookup(r, l)
  \/ Restart

(* A handler's own steps are never postponed for ever: its reads of the    *)
(* body end with data, an error or the six-hour read deadline.  Nothing    *)
(* makes the owner or a phone act.                                         *)
Fairness == \A r \in Reqs : WF_vars(Handler(r))

Spec == Init /\ [][Next]_vars /\ Fairness

-------------------------------------------------------------------------------

TypeOK ==
  /\ store \in [Links -> Session]
  /\ landed \in [Links -> Nat]
  /\ taken \in [Links -> Nat]
  /\ stale \in [Links -> Nat]
  /\ free \in Nat
  /\ inflight \in Nat
  /\ req \in [Reqs -> Request]
  /\ crashes \in 0 .. MaxCrashes

(* Server.inflight counts exactly the requests past the drive check, so    *)
(* Busy is exact whenever auto-off or StopIfIdle asks.                     *)
InflightExact == inflight = Cardinality(Working)

(* However uploads, Stop, failures and restarts interleave, every file a   *)
(* link put on the drive, every file still on its way and every partial    *)
(* file a crash left behind is covered by a counted file of the link, and  *)
(* the count never passes max_files.  Release can therefore never give     *)
(* away the slot of a file that was saved (saveOne, Reserve, Release).     *)
SlotAccounting ==
  \A l \in Links :
    /\ landed[l] + stale[l] + Cardinality(Unsaved(l)) <= store[l].files
    /\ store[l].files <= store[l].maxFiles

(* Once a link is stopped, no request starts another file on it, not even  *)
(* one that looked the link up before: Reserve checks revoked_at again.    *)
StoppedLinkTakesNoFile ==
  [][\A l \in Links : store[l].revoked => Unsaved(l)' \subseteq Unsaved(l)]_vars

(* A link used for uploads is a budget of max_files slots.                 *)
Spent == [l \in Links |-> store[l].files]
Held == [l \in Links |-> Cardinality(Unsaved(l))]
StoppedLinks == [l \in Links |-> store[l].revoked]

Budget == INSTANCE LinkBudget WITH
            Slots <- MaxFiles, spent <- Spent, held <- Held,
            done <- landed, stopped <- StoppedLinks

ImplementsBudget == Budget!Spec

(* Every accepted request ends, and Server.Busy can become false again:    *)
(* the listener and auto-off wait for it.                                  *)
RequestsEnd == \A r \in Reqs : Open(r) ~> ~Open(r)
===============================================================================
