------------------------------- MODULE Download -------------------------------
(***************************************************************************)
(* Phone downloads and shares: the concurrent runs of downloadFile,        *)
(* shareFile and shareZip of internal/transfer/serve_download.go, which    *)
(* count a link's downloads once per phone (address) and file key.         *)
(*                                                                         *)
(* counted is a map in memory from session|ip|key to the link's expiry, so *)
(* an entry is valid exactly while its link has not expired.  The share    *)
(* password, the drive and the file itself can only turn a request away;   *)
(* TurnAway stands for all of them.                                        *)
(***************************************************************************)
EXTENDS TransferStore, FiniteSetsExt

CONSTANTS
  Links,       \* download and share links that may be created
  Phones,      \* client addresses
  Keys,        \* what a link can serve: "", "zip" or one file of a share
  Reqs,        \* requests that may run at the same time
  MaxFiles,    \* downloads a link allows
  NoByteLimit, \* the byte limit of these links
  MaxRestarts  \* bound on how often vaultd is started again

ASSUME DownloadAssumption ==
  /\ IsFiniteSet(Reqs)
  /\ Links # {} /\ Phones # {} /\ Keys # {}
  /\ MaxFiles \in Nat \ {0}
  /\ NoByteLimit \in Nat /\ NoByteLimit > MaxFiles
  /\ MaxRestarts \in Nat

VARIABLES
  store,    \* the sessions table (durable)
  counted,  \* Server.counted
  inflight, \* Server.inflight
  req,      \* the requests
  given,    \* history: the triples whose phone was sent the file
  sent,     \* history: counted downloads that were sent, per link
  restarts

history == <<given, sent>>
vars == <<store, counted, inflight, req, history, restarts>>

Triples == Links \X Phones \X Keys

OfLink(S, l) == {t \in S : t[1] = l}

(***************************************************************************)
(* Where a request stands:                                                 *)
(*   idle      no request                                                  *)
(*   looked    lookupKind answered "ok" or "used_up" (full)                *)
(*   allowed   usable accepted it, and knows whether it was counted        *)
(*   begun     the file is there; the request is in flight                 *)
(*   reserved  Reserve counted it; the map does not know yet               *)
(*   noted     the map knows                                               *)
(*   sending   bytes go out                                                *)
(***************************************************************************)
PCs == {"idle", "looked", "allowed", "begun", "reserved", "noted", "sending"}

Request == [pc: PCs, what: Triples, full: BOOLEAN, known: BOOLEAN, get: BOOLEAN, live: BOOLEAN]

Idle == [pc |-> "idle", what |-> CHOOSE t \in Triples : TRUE,
         full |-> FALSE, known |-> FALSE, get |-> TRUE, live |-> TRUE]

LinkOf(r) == req[r].what[1]

Open(r) == req[r].pc # "idle"

Working == {r \in Reqs : req[r].pc \notin {"idle", "looked", "allowed"}}

(* Requests of link l that took one of its downloads and send nothing yet. *)
Taken(l) == {r \in Reqs : LinkOf(r) = l /\ req[r].pc \in {"reserved", "noted"}}

(* Mutant of WasCounted: the map is keyed by link alone. *)
WasCountedByLink(t) == OfLink(counted, t[1]) # {} /\ ~store[t[1]].expired

WasCounted(t) == t \in counted /\ ~store[t[1]].expired

Goto(r, pc) == req' = [req EXCEPT ![r].pc = pc]

Drop(r) == req' = [req EXCEPT ![r] = Idle]

Finish(r) ==
  /\ Drop(r)
  /\ inflight' = inflight - 1

-------------------------------------------------------------------------------

Init ==
  /\ store = [l \in Links |-> NoSession]
  /\ counted = {}
  /\ inflight = 0
  /\ req = [r \in Reqs |-> Idle]
  /\ given = {}
  /\ sent = [l \in Links |-> 0]
  /\ restarts = 0

CreateLink(l) ==
  /\ store[l] = NoSession
  /\ store' = [store EXCEPT ![l] = NewSession(MaxFiles, NoByteLimit)]
  /\ UNCHANGED <<counted, inflight, req, history, restarts>>

Revoke(l) ==
  /\ store[l].exists /\ ~store[l].revoked
  /\ store' = [store EXCEPT ![l] = Stopped(@)]
  /\ UNCHANGED <<counted, inflight, req, history, restarts>>

Expire(l) ==
  /\ store[l].exists /\ ~store[l].expired
  /\ store' = [store EXCEPT ![l].expired = TRUE]
  /\ UNCHANGED <<counted, inflight, req, history, restarts>>

(* usable: the link is looked up; only a full one may still be resumed. *)
Arrive(r, t, get) ==
  /\ ~Open(r)
  /\ Outcome(store[t[1]]) \in {"ok", "used_up"}
  /\ req' = [req EXCEPT ![r] = [Idle EXCEPT !.pc = "looked", !.what = t, !.get = get,
                                            !.full = (Outcome(store[t[1]]) = "used_up")]]
  /\ UNCHANGED <<store, counted, inflight, history, restarts>>

(* usable: the map is read, and tells whether this phone has this file. *)
Check(r) ==
  /\ req[r].pc = "looked"
  /\ ~req[r].full \/ WasCounted(req[r].what)
  /\ req' = [req EXCEPT ![r].pc = "allowed", ![r].known = WasCounted(req[r].what)]
  /\ UNCHANGED <<store, counted, inflight, history, restarts>>

(* usable: the link is full and this phone does not have the file. *)
RefuseFull(r) ==
  /\ req[r].pc = "looked"
  /\ req[r].full /\ ~WasCounted(req[r].what)
  /\ Drop(r)
  /\ UNCHANGED <<store, counted, inflight, history, restarts>>

(* The share is locked for this phone, or drive or file is missing. *)
TurnAway(r) ==
  /\ req[r].pc = "allowed"
  /\ Drop(r)
  /\ UNCHANGED <<store, counted, inflight, history, restarts>>

(* send: the file is there; the request is counted as in flight. *)
Begin(r) ==
  /\ req[r].pc = "allowed"
  /\ Goto(r, "begun")
  /\ inflight' = inflight + 1
  /\ UNCHANGED <<store, counted, history, restarts>>

Disconnect(r) ==
  /\ Open(r) /\ req[r].live
  /\ req' = [req EXCEPT ![r].live = FALSE]
  /\ UNCHANGED <<store, counted, inflight, history, restarts>>

(* send: a phone that has the file, or a HEAD request, is not counted. *)
Resume(r) ==
  /\ req[r].pc = "begun"
  /\ req[r].known \/ ~req[r].get
  /\ Goto(r, "sending")
  /\ given' = IF req[r].get THEN given \cup {req[r].what} ELSE given
  /\ UNCHANGED <<store, counted, inflight, sent, restarts>>

(* count: Reserve takes one download of the link. *)
Count(r) ==
  /\ req[r].pc = "begun"
  /\ ~req[r].known /\ req[r].get
  /\ req[r].live /\ CanReserve(store[LinkOf(r)])
  /\ store' = [store EXCEPT ![LinkOf(r)] = Reserved(@)]
  /\ Goto(r, "reserved")
  /\ UNCHANGED <<counted, inflight, history, restarts>>

(* count: Reserve refuses; the phone is told that the link is used up. *)
CountRefused(r) ==
  /\ req[r].pc = "begun"
  /\ ~req[r].known /\ req[r].get
  /\ ~(req[r].live /\ CanReserve(store[LinkOf(r)]))
  /\ Finish(r)
  /\ UNCHANGED <<store, counted, history, restarts>>

(* Mutant of Note: the map is not told. *)
NoteForgets(r) ==
  /\ req[r].pc = "reserved"
  /\ Goto(r, "noted")
  /\ UNCHANGED <<store, counted, inflight, history, restarts>>

(* count: the map remembers this phone and file. *)
Note(r) ==
  /\ req[r].pc = "reserved"
  /\ counted' = counted \cup {req[r].what}
  /\ Goto(r, "noted")
  /\ UNCHANGED <<store, inflight, history, restarts>>

(* count: the transfer is recorded (one unit of bytes), unless the context *)
(* is cancelled, and the file is sent either way.                          *)
Record(r) ==
  /\ req[r].pc = "noted"
  /\ store' = IF req[r].live THEN [store EXCEPT ![LinkOf(r)] = Recorded(@, 1)] ELSE store
  /\ given' = given \cup {req[r].what}
  /\ sent' = [sent EXCEPT ![LinkOf(r)] = @ + 1]
  /\ Goto(r, "sending")
  /\ UNCHANGED <<counted, inflight, restarts>>

(* The file was sent, or the phone went away in the middle. *)
EndOfFile(r) ==
  /\ req[r].pc = "sending"
  /\ Finish(r)
  /\ UNCHANGED <<store, counted, history, restarts>>

(* Mutant of PruneGrants: everything goes. *)
PruneAll ==
  /\ counted' = {}
  /\ UNCHANGED <<store, inflight, req, history, restarts>>

(* Run's ticker: pruneGrants forgets what belongs to expired links. *)
PruneGrants ==
  /\ counted' = {t \in counted : ~store[t[1]].expired}
  /\ UNCHANGED <<store, inflight, req, history, restarts>>

(* vaultd ends and starts again: only the table is left, without the rows  *)
(* that expired long ago.  (Whether a phone can then reach it is Listener's *)
(* subject.)                                                               *)
Restart ==
  /\ restarts < MaxRestarts
  /\ restarts' = restarts + 1
  /\ counted' = {}
  /\ inflight' = 0
  /\ req' = [r \in Reqs |-> Idle]
  /\ \E old \in SUBSET {l \in Links : store[l].exists /\ store[l].expired} :
       store' = [l \in Links |-> IF l \in old THEN Pruned(store[l]) ELSE store[l]]
  /\ UNCHANGED history

Handler(r) ==
  \/ Check(r) \/ RefuseFull(r) \/ TurnAway(r) \/ Begin(r)
  \/ Resume(r) \/ Count(r) \/ CountRefused(r)
  \/ Note(r) \/ Record(r) \/ EndOfFile(r)

Next ==
  \/ \E l \in Links : CreateLink(l) \/ Revoke(l) \/ Expire(l)
  \/ \E r \in Reqs : Handler(r) \/ Disconnect(r)
  \/ \E r \in Reqs, t \in Triples, get \in BOOLEAN : Arrive(r, t, get)
  \/ PruneGrants
  \/ Restart

Spec == Init /\ [][Next]_vars

-------------------------------------------------------------------------------

TypeOK ==
  /\ store \in [Links -> Session]
  /\ counted \subseteq Triples
  /\ inflight \in Nat
  /\ req \in [Reqs -> Request]
  /\ given \subseteq Triples
  /\ sent \in [Links -> Nat]
  /\ restarts \in 0 .. MaxRestarts

(* Server.inflight counts exactly the downloads that passed the drive and  *)
(* file checks, whichever way they end (send).                             *)
InflightExact == inflight = Cardinality(Working)

(* What a link has given, remembers or is about to remember is covered by  *)
(* its count, which never passes its limit: whatever overlaps or restarts, *)
(* a link never serves more phones and files than its owner allowed.       *)
TakenTriples(l) == OfLink(counted, l) \cup {req[r].what : r \in Taken(l)}

GivenWithinLimit ==
  \A l \in Links :
    /\ Cardinality(OfLink(given, l) \cup TakenTriples(l)) <= store[l].files
    /\ store[l].files <= store[l].maxFiles

(* A link used for downloads is a budget of max_files slots: a request     *)
(* takes one before it sends anything, and none after the link is stopped. *)
Spent == [l \in Links |-> store[l].files]
Held == [l \in Links |-> Cardinality(Taken(l))]
StoppedLinks == [l \in Links |-> store[l].revoked]

Budget == INSTANCE LinkBudget WITH
            Slots <- MaxFiles, spent <- Spent, held <- Held,
            done <- sent, stopped <- StoppedLinks

ImplementsBudget == Budget!Spec
===============================================================================
