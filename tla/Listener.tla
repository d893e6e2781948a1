------------------------------- MODULE Listener -------------------------------
(***************************************************************************)
(* The phone listener of internal/transfer/server.go (Ensure, StopIfIdle,  *)
(* Stop, Run) together with everyone who drives it: the handlers that      *)
(* create and stop links (internal/api/download_handlers.go), the phones'  *)
(* transfers, auto-off (internal/api/autooff.go), and vaultd's ends and    *)
(* starts.                                                                 *)
(*                                                                         *)
(* Server.mu makes Ensure and the first half of Stop atomic; the questions *)
(* StopIfIdle and idle ask (is a transfer in flight, is a link active) are *)
(* asked one after the other, with nothing held.                           *)
(***************************************************************************)
EXTENDS TransferStore, FiniteSetsExt

CONSTANTS
  Links,       \* links that may be created
  Transfers,   \* phone transfers that may run at the same time
  Ticker,      \* Run's loop, which calls StopIfIdle every 30 seconds
  NoLink,      \* a value that is no link
  MaxFiles,    \* transfers a link allows
  AutoOffMinutes, \* auto_off_minutes; 0 turns auto-off off
  MaxStarts    \* bound on how often vaultd is started again

ASSUME ListenerAssumption ==
  /\ IsFiniteSet(Transfers)
  /\ Ticker \notin Links /\ NoLink \notin Links
  /\ MaxFiles \in Nat \ {0}
  /\ AutoOffMinutes \in Nat
  /\ MaxStarts \in Nat

(* Callers of StopIfIdle: the ticker, and the handler that stops a link.   *)
Closers == Links \cup {Ticker}

VARIABLES
  store,     \* the sessions table (durable)
  on,        \* vaultd runs
  open,      \* Server.ln and Server.addr are set
  bound,     \* the socket is bound to the phone port
  inflight,  \* Server.inflight
  transfer,  \* the phones' transfers
  creator,   \* per link: where the handler that creates it stands
  closer,    \* per caller of StopIfIdle: where it stands
  auto,      \* where auto-off stands
  recent,    \* the dashboard was used within auto_off_minutes
  ending,    \* how far the end of vaultd is
  missed,    \* history: links that StopIfIdle or the start may have missed
  starts     \* how often vaultd was started again

process == <<open, bound, inflight, transfer, creator, closer, auto, recent, ending>>
history == <<missed, starts>>
vars == <<store, on, process, history>>

(* A transfer: none, found (its link was looked up), running (in flight),  *)
(* counted (Reserve took one file or download).                            *)
Transfer == [pc: {"none", "found", "running", "counted"}, link: Links \cup {NoLink}]

(* issue: nothing yet, the row is inserted, the answer was sent (and the   *)
(* QR code shown), or Ensure failed and the row is about to be revoked.    *)
CreatorPCs == {"none", "created", "issued", "failed", "over"}

(* StopIfIdle and Stop: not called; called; no transfer was in flight;     *)
(* no link was active; Server.ln was cleared, Shutdown comes next.         *)
CloserPCs == {"out", "called", "quiet", "unused", "cleared"}

(* RunAutoOff: waiting; not used recently; and no transfer in flight; and  *)
(* no link active.                                                         *)
AutoPCs == {"waiting", "unwatched", "quiet", "decided"}

(* Nothing; PowerOff cancelled the context; Run went to its last Stop.     *)
Endings == {"no", "asked", "left"}

Active == {l \in Links : IsActive(store[l])}

Working == {t \in Transfers : transfer[t].pc \in {"running", "counted"}}

NoTransfer == [pc |-> "none", link |-> NoLink]

(* A check that no link is active has passed, and is about to be acted on. *)
Closing == \E c \in Closers : closer[c] = "unused"

-------------------------------------------------------------------------------

Fresh ==
  /\ open = FALSE /\ bound = FALSE /\ inflight = 0
  /\ transfer = [t \in Transfers |-> NoTransfer]
  /\ creator = [l \in Links |-> "none"]
  /\ closer = [c \in Closers |-> "out"]
  /\ auto = "waiting" /\ recent = TRUE /\ ending = "no"

Init ==
  /\ store = [l \in Links |-> NoSession]
  /\ on = TRUE
  /\ Fresh
  /\ missed = {} /\ starts = 0

(* issue: Create inserts the row.  Every API request counts as use. *)
Create(l) ==
  /\ on /\ store[l] = NoSession
  /\ store' = [store EXCEPT ![l] = NewSession(MaxFiles, 2 * MaxFiles)]
  /\ creator' = [creator EXCEPT ![l] = "created"]
  /\ recent' = TRUE
  /\ missed' = IF Closing THEN missed \cup {l} ELSE missed
  /\ UNCHANGED <<on, open, bound, inflight, transfer, closer, auto, ending, starts>>

(* issue: Ensure starts the listener, or finds it running. *)
Ensure(l) ==
  /\ creator[l] = "created"
  /\ open \/ ~bound
  /\ open' = TRUE /\ bound' = TRUE
  /\ creator' = [creator EXCEPT ![l] = "issued"]
  /\ missed' = IF Closing THEN missed ELSE {}
  /\ UNCHANGED <<store, on, inflight, transfer, closer, auto, recent, ending, starts>>

(* issue: no network, or the port is taken: by another program, or by the  *)
(* old socket of a listener that is just being stopped.                    *)
EnsureFails(l) ==
  /\ creator[l] = "created" /\ ~open
  /\ creator' = [creator EXCEPT ![l] = "failed"]
  /\ UNCHANGED <<store, on, open, bound, inflight, transfer, closer, auto, recent, ending, history>>

(* issue: the row is revoked, unless the caller's context is cancelled. *)
RevokeFailed(l) ==
  /\ creator[l] = "failed"
  /\ store' \in {store, [store EXCEPT ![l] = Stopped(@)]}
  /\ creator' = [creator EXCEPT ![l] = "over"]
  /\ UNCHANGED <<on, open, bound, inflight, transfer, closer, auto, recent, ending, history>>

(* handleStopLink: Revoke, and then StopIfIdle. *)
StopLink(l) ==
  /\ on /\ store[l].exists /\ closer[l] = "out"
  /\ store' = [store EXCEPT ![l] = Stopped(@)]
  /\ closer' = [closer EXCEPT ![l] = "called"]
  /\ recent' = TRUE
  /\ UNCHANGED <<on, open, bound, inflight, transfer, creator, auto, ending, history>>

(* Run: the ticker calls StopIfIdle. *)
Tick ==
  /\ on /\ ending = "no" /\ closer[Ticker] = "out"
  /\ closer' = [closer EXCEPT ![Ticker] = "called"]
  /\ UNCHANGED <<store, on, open, bound, inflight, transfer, creator, auto, recent, ending, history>>

CloserGoto(c, pc) ==
  /\ closer' = [closer EXCEPT ![c] = pc]
  /\ UNCHANGED <<store, on, inflight, transfer, creator, auto, recent, ending, history>>

(* StopIfIdle: inflight is read. *)
AskInflight(c) ==
  /\ closer[c] = "called"
  /\ CloserGoto(c, IF inflight > 0 THEN "out" ELSE "quiet")
  /\ UNCHANGED <<open, bound>>

(* Mutant of AskActive: nobody asks. *)
AskNothing(c) ==
  /\ closer[c] = "quiet"
  /\ CloserGoto(c, "unused")
  /\ UNCHANGED <<open, bound>>

(* StopIfIdle: the active links are read; not with Run's context, once     *)
(* that is cancelled.                                                      *)
AskActive(c) ==
  /\ closer[c] = "quiet"
  /\ CloserGoto(c, IF Active # {} \/ (c = Ticker /\ ending # "no") THEN "out" ELSE "unused")
  /\ UNCHANGED <<open, bound>>

(* Mutant of Clear: the address is left set. *)
ClearKeepsAddress(c) ==
  /\ closer[c] = "unused"
  /\ CloserGoto(c, IF open THEN "cleared" ELSE "out")
  /\ UNCHANGED <<open, bound>>

(* Stop: Server.ln is cleared under the lock; nothing to do if it was. *)
Clear(c) ==
  /\ closer[c] = "unused"
  /\ CloserGoto(c, IF open THEN "cleared" ELSE "out")
  /\ open' = FALSE
  /\ UNCHANGED bound

(* Stop: Shutdown closes the socket and waits five seconds for transfers;  *)
(* it does not break off the ones that take longer.                        *)
Shutdown(c) ==
  /\ closer[c] = "cleared"
  /\ CloserGoto(c, "out")
  /\ bound' = FALSE
  /\ UNCHANGED open

(* A phone's request: the link is looked up. *)
Arrive(t, l) ==
  /\ on /\ bound /\ transfer[t].pc = "none"
  /\ Outcome(store[l]) = "ok"
  /\ transfer' = [transfer EXCEPT ![t] = [pc |-> "found", link |-> l]]
  /\ UNCHANGED <<store, on, open, bound, inflight, creator, closer, auto, recent, ending, history>>

(* The drive and the file are there: the transfer is in flight. *)
Begin(t) ==
  /\ transfer[t].pc = "found"
  /\ transfer' = [transfer EXCEPT ![t].pc = "running"]
  /\ inflight' = inflight + 1
  /\ UNCHANGED <<store, on, open, bound, creator, closer, auto, recent, ending, history>>

(* Reserve takes one of the link's files or downloads. *)
Reserve(t) ==
  /\ transfer[t].pc = "running"
  /\ CanReserve(store[transfer[t].link])
  /\ store' = [store EXCEPT ![transfer[t].link] = Reserved(@)]
  /\ transfer' = [transfer EXCEPT ![t].pc = "counted"]
  /\ UNCHANGED <<on, open, bound, inflight, creator, closer, auto, recent, ending, history>>

(* An uploaded file was saved; the next one of the request may follow. *)
Saved(t) ==
  /\ transfer[t].pc = "counted"
  /\ transfer' = [transfer EXCEPT ![t].pc = "running"]
  /\ UNCHANGED <<store, on, open, bound, inflight, creator, closer, auto, recent, ending, history>>

(* An uploaded file was not saved: Release gives its slot back, and a link *)
(* that was used up is active again.                                       *)
Release(t) ==
  LET l == transfer[t].link
  IN /\ transfer[t].pc = "counted"
     /\ store' = [store EXCEPT ![l] = Released(@)]
     /\ missed' = IF UsedUp(store[l]) THEN missed \cup {l} ELSE missed
     /\ transfer' = [transfer EXCEPT ![t] = NoTransfer]
     /\ inflight' = inflight - 1
     /\ UNCHANGED <<on, open, bound, creator, closer, auto, recent, ending, starts>>

(* Mutant of EndTransfer: the defer is missing. *)
EndTransferKeepsCount(t) ==
  /\ transfer[t].pc \in {"running", "counted"}
  /\ transfer' = [transfer EXCEPT ![t] = NoTransfer]
  /\ UNCHANGED <<store, on, open, bound, inflight, creator, closer, auto, recent, ending, history>>

(* The transfer ends, complete or not, or Reserve refused it. *)
EndTransfer(t) ==
  /\ transfer[t].pc \in {"running", "counted"}
  /\ transfer' = [transfer EXCEPT ![t] = NoTransfer]
  /\ inflight' = inflight - 1
  /\ UNCHANGED <<store, on, open, bound, creator, closer, auto, recent, ending, history>>

(* The drive or the file is missing. *)
TurnAway(t) ==
  /\ transfer[t].pc = "found"
  /\ transfer' = [transfer EXCEPT ![t] = NoTransfer]
  /\ UNCHANGED <<store, on, open, bound, inflight, creator, closer, auto, recent, ending, history>>

Expire(l) ==
  /\ store[l].exists /\ ~store[l].expired
  /\ store' = [store EXCEPT ![l].expired = TRUE]
  /\ UNCHANGED <<on, process, history>>

(* auto_off_minutes pass without a dashboard or API request.  (Nothing but *)
(* auto-off asks.)                                                         *)
GrowIdle ==
  /\ on /\ recent /\ AutoOffMinutes > 0
  /\ recent' = FALSE
  /\ UNCHANGED <<store, on, open, bound, inflight, transfer, creator, closer, auto, ending, history>>

AutoGoto(pc) ==
  /\ auto' = pc
  /\ UNCHANGED <<store, on, open, bound, inflight, transfer, creator, closer, recent, ending, history>>

(* RunAutoOff, idle: the time since the last use is read. *)
AutoAskUse == on /\ ending = "no" /\ AutoOffMinutes > 0 /\ auto = "waiting" /\ ~recent /\ AutoGoto("unwatched")

(* idle: Busy. *)
AutoAskInflight ==
  /\ auto = "unwatched"
  /\ AutoGoto(IF inflight > 0 THEN "waiting" ELSE "quiet")

(* Mutant of AutoAskActive: the links are not asked for. *)
AutoAskNoLinks ==
  /\ auto = "quiet"
  /\ AutoGoto("decided")

(* idle: Active. *)
AutoAskActive ==
  /\ auto = "quiet"
  /\ AutoGoto(IF Active # {} THEN "waiting" ELSE "decided")

(* stop: the context of main's goroutines is cancelled, and RunAutoOff     *)
(* returns.  The handlers that run, and the phones' transfers, go on.      *)
Cancel ==
  /\ ending = "no"
  /\ ending' = "asked"
  /\ auto' = "waiting"
  /\ UNCHANGED <<store, on, open, bound, inflight, transfer, creator, closer, recent, history>>

(* RunAutoOff calls PowerOff. *)
AutoOff == auto = "decided" /\ Cancel

(* The owner turns Vault off (handlePowerOff, or a signal). *)
PowerOff == on /\ Cancel

(* Run returns: it stops the listener without any question. *)
LastStop ==
  /\ ending = "asked" /\ closer[Ticker] = "out"
  /\ ending' = "left"
  /\ closer' = [closer EXCEPT ![Ticker] = "unused"]
  /\ UNCHANGED <<store, on, open, bound, inflight, transfer, creator, auto, recent, history>>

(* The process ends: main waited five seconds for handlers, and not for    *)
(* Run; or it is killed.  Nothing of it is left, but a QR code that was    *)
(* shown stays on the phone.                                               *)
Off ==
  /\ on
  /\ on' = FALSE
  /\ open' = FALSE /\ bound' = FALSE /\ inflight' = 0
  /\ transfer' = [t \in Transfers |-> NoTransfer]
  /\ creator' = [l \in Links |-> IF creator[l] = "issued" THEN "issued" ELSE "over"]
  /\ closer' = [c \in Closers |-> "out"]
  /\ auto' = "waiting" /\ recent' = TRUE /\ ending' = "no"
  /\ UNCHANGED <<store, history>>

(* vaultd starts again, over the same table.  Run prunes old rows first;   *)
(* it opens no listener.                                                   *)
Start ==
  /\ ~on /\ starts < MaxStarts
  /\ on' = TRUE
  /\ starts' = starts + 1
  /\ \E old \in SUBSET {l \in Links : store[l].exists /\ store[l].expired} :
       store' = [l \in Links |-> IF l \in old THEN Pruned(store[l]) ELSE store[l]]
  /\ missed' = {l \in Links : store[l].exists}
  /\ UNCHANGED process

CreateSteps(l) == Ensure(l) \/ EnsureFails(l) \/ RevokeFailed(l)
CloseSteps(c) == AskInflight(c) \/ AskActive(c) \/ Clear(c) \/ Shutdown(c)
TransferSteps(t) == Begin(t) \/ Reserve(t) \/ Saved(t) \/ Release(t) \/ EndTransfer(t) \/ TurnAway(t)
AutoSteps == AutoAskUse \/ AutoAskInflight \/ AutoAskActive \/ AutoOff

Next ==
  \/ \E l \in Links : Create(l) \/ CreateSteps(l) \/ StopLink(l) \/ Expire(l)
  \/ \E c \in Closers : CloseSteps(c)
  \/ \E t \in Transfers : TransferSteps(t) \/ \E l \in Links : Arrive(t, l)
  \/ Tick \/ GrowIdle \/ AutoSteps \/ PowerOff \/ LastStop \/ Off \/ Start

(* While vaultd runs its goroutines do, and time passes: the ticker ticks, *)
(* links expire, transfers meet their deadlines, and main returns five     *)
(* seconds after the context is cancelled.  Nothing makes the owner or a   *)
(* phone act, or kills vaultd.                                             *)
Fairness ==
  /\ WF_vars(Tick) /\ WF_vars(AutoSteps) /\ WF_vars(GrowIdle)
  /\ WF_vars(ending # "no" /\ Off)
  /\ \A l \in Links : WF_vars(CreateSteps(l)) /\ WF_vars(Expire(l))
  /\ \A c \in Closers : WF_vars(CloseSteps(c))
  /\ \A t \in Transfers : WF_vars(TransferSteps(t))

Spec == Init /\ [][Next]_vars /\ Fairness

-------------------------------------------------------------------------------

TypeOK ==
  /\ store \in [Links -> Session]
  /\ on \in BOOLEAN /\ open \in BOOLEAN /\ bound \in BOOLEAN
  /\ inflight \in Nat
  /\ transfer \in [Transfers -> Transfer]
  /\ creator \in [Links -> CreatorPCs]
  /\ closer \in [Closers -> CloserPCs]
  /\ auto \in AutoPCs /\ recent \in BOOLEAN /\ ending \in Endings
  /\ missed \subseteq Links
  /\ starts \in 0 .. MaxStarts

(* The address the status reports always has a socket behind it, and only  *)
(* one Stop at a time has a socket to shut down: a Stop never closes the   *)
(* socket of a listener that was started after it (Ensure, Stop).          *)
AddressIsServed ==
  /\ open => bound
  /\ Cardinality({c \in Closers : closer[c] = "cleared"}) = (IF bound /\ ~open THEN 1 ELSE 0)

(* A link whose QR code was shown is served, except one of these: it was   *)
(* created, or got a slot back, after StopIfIdle had asked for the active  *)
(* links, or it was there when vaultd started (issue, StopIfIdle, Run); as *)
(* long as vaultd is not about to end, when Run stops the listener first.  *)
IssuedLinkServed ==
  on /\ ending = "no" => \A l \in Active : creator[l] = "issued" => bound \/ l \in missed

(* The phone port closes after the last link expired, was used up or was   *)
(* stopped, whatever transfers were still in progress (SECURITY.md).       *)
ListenerCloses == <>[](Active = {}) => <>[](~bound)

(* Once nobody uses the dashboard any more, Vault turns itself off.        *)
TurnsItselfOff == AutoOffMinutes > 0 /\ <>[](on => ~recent) => <>[](~on)
===============================================================================
