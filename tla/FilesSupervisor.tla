--------------------------- MODULE FilesSupervisor ---------------------------
(***************************************************************************)
(* internal/files/manager.go: the goroutine that keeps SFTPGo running      *)
(* while the storage monitor wants it, and SetWanted, with which other     *)
(* goroutines tell it.                                                     *)
(*                                                                         *)
(* want is protected by Manager.mu; wake is a channel with room for one    *)
(* token.  SetWanted writes want, unlocks, and only then posts the token,  *)
(* so a caller can be between the two (posting) while others run.          *)
(***************************************************************************)
EXTENDS Naturals

CONSTANTS
    Callers,    \* goroutines that call SetWanted
    MaxFaults   \* bound: failures of processes and of link updates, and restarts

ASSUME FaultsAssumption == MaxFaults \in Nat

VARIABLES
    want,      \* Manager.want
    wake,      \* a token is in Manager.wake
    posting,   \* callers of SetWanted that wrote want and have not posted yet
    sup,       \* where supervise is
    proc,      \* the SFTPGo process: none, up, or exited and not waited for
    faults     \* how many failures have happened

filesVars == <<want, wake, posting, sup, proc, faults>>

Places ==
    {"look", "waiting", "start", "health", "serving", "ask", "stopping", "sleep"}

FilesTypeOK ==
    /\ want \in BOOLEAN /\ wake \in BOOLEAN
    /\ posting \subseteq Callers
    /\ sup \in Places
    /\ proc \in {"none", "up", "exited"}
    \* supervise holds every process there is, and starts no second one
    /\ proc # "none" <=> sup \in {"health", "serving", "ask", "stopping"}
    /\ faults \in 0 .. MaxFaults

\* A new Manager: nothing wanted, nothing running.
FilesInit ==
    /\ want = FALSE /\ wake = FALSE /\ posting = {}
    /\ sup = "look" /\ proc = "none" /\ faults = 0

Fault == faults < MaxFaults /\ faults' = faults + 1

-----------------------------------------------------------------------------
(* SetWanted *)

\* Mutant of SetWanted: only a start is announced.
SetWantedOnlyStarts(c, w) ==
    /\ want' = w
    /\ posting' = IF w /\ ~want THEN posting \cup {c} ELSE posting
    /\ UNCHANGED <<wake, sup, proc, faults>>

\* The part under the lock; posting is where a changed answer still has to
\* be announced.
SetWanted(c, w) ==
    /\ want' = w
    /\ posting' = IF w # want THEN posting \cup {c} ELSE posting
    /\ UNCHANGED <<wake, sup, proc, faults>>

\* The send on a channel of capacity 1: a second token is dropped.
Post(c) ==
    /\ c \in posting
    /\ posting' = posting \ {c}
    /\ wake' = TRUE
    /\ UNCHANGED <<want, sup, proc, faults>>

-----------------------------------------------------------------------------
(* supervise *)

GoTo(from, to) == sup = from /\ sup' = to

\* The head of the loop.
ReadWanted ==
    /\ GoTo("look", IF want THEN "start" ELSE "waiting")
    /\ UNCHANGED <<want, wake, posting, proc, faults>>

\* Blocked until a token comes.
Woken ==
    /\ GoTo("waiting", "look")
    /\ wake /\ wake' = FALSE
    /\ UNCHANGED <<want, posting, proc, faults>>

\* initprovider, the first time, and serve.
Start ==
    /\ GoTo("start", "health")
    /\ proc' = "up"
    /\ UNCHANGED <<want, wake, posting, faults>>

\* initprovider fails, or the process cannot be started.
StartFails ==
    /\ GoTo("start", "sleep")
    /\ Fault
    /\ UNCHANGED <<want, wake, posting, proc>>

\* Mutant of Healthy: tokens that came during the start are thrown away.
HealthyDrains ==
    /\ GoTo("health", "serving")
    /\ proc = "up"
    /\ wake' = FALSE
    /\ UNCHANGED <<want, posting, proc, faults>>

\* /healthz answers, and OnReady (SyncFiles) runs; its error only changes the
\* message shown.
Healthy ==
    /\ GoTo("health", "serving")
    /\ proc = "up"
    /\ UNCHANGED <<want, wake, posting, proc, faults>>

\* The process is gone before it answers.
NotHealthy ==
    /\ GoTo("health", "sleep")
    /\ proc = "exited" /\ proc' = "none"
    /\ UNCHANGED <<want, wake, posting, faults>>

\* It never answers within 30 s: it is stopped and waited for.
HealthTimesOut ==
    /\ GoTo("health", "sleep")
    /\ proc' = "none"
    /\ Fault
    /\ UNCHANGED <<want, wake, posting>>

\* waitWhileRunning, the process exits.
Crashed ==
    /\ GoTo("serving", "sleep")
    /\ proc = "exited" /\ proc' = "none"
    /\ UNCHANGED <<want, wake, posting, faults>>

\* waitWhileRunning, a token: received here, want is read in the next step.
Notified ==
    /\ GoTo("serving", "ask")
    /\ wake /\ wake' = FALSE
    /\ UNCHANGED <<want, posting, proc, faults>>

StillWanted ==
    /\ GoTo("ask", "serving")
    /\ want
    /\ UNCHANGED <<want, wake, posting, proc, faults>>

Stop ==
    /\ GoTo("ask", "stopping")
    /\ ~want
    /\ UNCHANGED <<want, wake, posting, proc, faults>>

\* The signalled process has exited.
Stopped ==
    /\ GoTo("stopping", "look")
    /\ proc' = "none"
    /\ UNCHANGED <<want, wake, posting, faults>>

\* sleep ends by the clock, or by a token, which it takes.
SleepOver ==
    /\ GoTo("sleep", "look")
    /\ wake' \in {wake, FALSE}
    /\ UNCHANGED <<want, posting, proc, faults>>

\* The process dies by itself.
Dies ==
    /\ proc = "up" /\ proc' = "exited"
    /\ Fault
    /\ UNCHANGED <<want, wake, posting, sup>>

\* What supervise does by itself, failures apart.
Supervise ==
    \/ ReadWanted \/ Woken \/ Start \/ Healthy \/ NotHealthy
    \/ Crashed \/ Notified \/ StillWanted \/ Stop \/ Stopped \/ SleepOver

Fails == StartFails \/ HealthTimesOut \/ Dies

-----------------------------------------------------------------------------
\* Between reading want as true and reading it again.
Committed == {"start", "health", "serving"}

\* A change of mind is never lost: whoever sleeps or serves on an answer that
\* no longer holds has a token waiting, or one about to be posted
\* (SetWanted, supervise, waitWhileRunning; a lost token would leave SFTPGo
\* running without its drive).
NoLostWake ==
    \/ wake
    \/ posting # {}
    \/ /\ sup = "waiting" => ~want
       /\ sup \in Committed => want
=============================================================================
