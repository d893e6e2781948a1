------------------------------- MODULE Storage -------------------------------
(***************************************************************************)
(* The drive, the data link and the file service: the monitor              *)
(* (api/files_proxy.go: RunMonitor, checkStorage), the handlers that adopt *)
(* and forget a drive (api/storage_handlers.go), and the supervisor.       *)
(*                                                                         *)
(* The handlers hold writeMu from beginning to end, so one of them runs at *)
(* a time.  The monitor does not take writeMu: it judges, changes the link *)
(* and tells the supervisor in three steps that a handler can run between. *)
(***************************************************************************)
EXTENDS FilesSupervisor

CONSTANTS
    Drives,        \* the data folders that can be adopted
    None

ASSUME NoneAssumption == None \notin Drives
ASSUME CallersAssumption == Callers = {"monitor", "handler"}

VARIABLES
    mounted,   \* drives that are mounted now, with their Vault folder
    scanned,   \* drives in Scanner.last, the cached inventory
    config,    \* the adopted drive; config.Save makes it durable
    link,      \* where the data link points
    check,     \* per caller of checkStorage: where it is, and what it judged
    hand       \* where the handler that holds writeMu is

linkVars == <<mounted, scanned, config, link, check, hand>>
storageVars == <<filesVars, linkVars>>

MaybeDrive == Drives \cup {None}
Unchecked == [at |-> "idle", dir |-> None, ready |-> FALSE]

\* Types, and the place of supervise tells whether there is a process (no
\* SFTPGo is left behind by a failed start, a stop or a crash).
StorageTypeOK ==
    /\ FilesTypeOK
    /\ mounted \subseteq Drives /\ scanned \subseteq Drives
    /\ config \in MaybeDrive /\ link \in MaybeDrive
    /\ check \in [Callers -> [at : {"idle", "judged", "tell"},
                              dir : MaybeDrive, ready : BOOLEAN]]
    /\ hand \in {"free", "adopted", "linked", "forgot", "unlinked", "ending"}

StorageInit ==
    /\ FilesInit
    /\ mounted \in SUBSET Drives /\ scanned = mounted
    /\ config = None /\ link = None
    /\ check = [c \in Callers |-> Unchecked]
    /\ hand = "free"

\* A link operation succeeds, or fails and leaves the link as it was.
PointLink(to) ==
    \/ link' = to /\ UNCHANGED faults
    \/ link' = link /\ Fault

-----------------------------------------------------------------------------
(* The world *)

Plug(d) ==
    /\ d \notin mounted /\ mounted' = mounted \cup {d}
    /\ UNCHANGED <<filesVars, scanned, config, link, check, hand>>

Unplug(d) ==
    /\ d \in mounted /\ mounted' = mounted \ {d}
    /\ UNCHANGED <<filesVars, scanned, config, link, check, hand>>

\* Scanner.Inventory finds its cache too old, whoever asks.
Rescan ==
    /\ scanned # mounted /\ scanned' = mounted
    /\ UNCHANGED <<filesVars, mounted, config, link, check, hand>>

-----------------------------------------------------------------------------
(* checkStorage, by the monitor or at the end of an adoption *)

\* Inspect: the drive is in the inventory (if there is one: known = Drives
\* stands for a failed scan) and the kernel sees it mounted.
Judge(c) ==
    /\ check[c].at = "idle" /\ c \notin posting
    /\ c = "handler" => hand = "linked"
    /\ \E known \in {scanned, Drives} :
         check' = [check EXCEPT ![c] =
                     [at |-> "judged", dir |-> config,
                      ready |-> config \in mounted \cap known]]
    /\ UNCHANGED <<filesVars, mounted, scanned, config, link, hand>>

\* Mutant of UpdateLink: a link that exists is taken to be right.
UpdateMissingLink(c) ==
    LET k == check[c]
        to == IF k.dir = None \/ (k.ready /\ link # None) THEN link
              ELSE IF k.ready THEN k.dir ELSE None
    IN
    /\ k.at = "judged"
    /\ check' = [check EXCEPT ![c].at = "tell"]
    /\ IF to = link THEN UNCHANGED <<link, faults>> ELSE PointLink(to)
    /\ UNCHANGED <<want, wake, posting, sup, proc,
                   mounted, scanned, config, hand>>

\* The link follows the judgement, unless no drive is configured.
UpdateLink(c) ==
    LET k == check[c]
        to == IF k.dir = None THEN link ELSE IF k.ready THEN k.dir ELSE None
    IN
    /\ k.at = "judged"
    /\ check' = [check EXCEPT ![c].at = "tell"]
    /\ IF to = link THEN UNCHANGED <<link, faults>> ELSE PointLink(to)
    /\ UNCHANGED <<want, wake, posting, sup, proc,
                   mounted, scanned, config, hand>>

Tell(c) ==
    /\ check[c].at = "tell"
    /\ SetWanted(c, check[c].ready)
    /\ check' = [check EXCEPT ![c] = Unchecked]
    /\ hand' = IF c = "handler" THEN "ending" ELSE hand
    /\ UNCHANGED <<mounted, scanned, config, link>>

-----------------------------------------------------------------------------
(* The handlers *)

\* handleAdopt: a fresh scan, the drive in it and mounted; config.Save and
\* setConfig.  A refused or failed adoption changes nothing.
Adopt(d) ==
    /\ hand = "free" /\ d \in mounted
    /\ scanned' \in {scanned, mounted} /\ d \in scanned'
    /\ config' = d
    /\ hand' = "adopted"
    /\ UNCHANGED <<filesVars, mounted, link, check>>

AdoptLink ==
    /\ hand = "adopted" /\ hand' = "linked"
    /\ PointLink(config)
    /\ UNCHANGED <<want, wake, posting, sup, proc,
                   mounted, scanned, config, check>>

\* handleForget up to setConfig.
Forget ==
    /\ hand = "free" /\ config # None
    /\ config' = None
    /\ hand' = "forgot"
    /\ UNCHANGED <<filesVars, mounted, scanned, link, check>>

\* Mutant of ForgetLink: the link is left to the monitor.
ForgetKeepsLink ==
    /\ hand = "forgot" /\ hand' = "unlinked"
    /\ UNCHANGED <<want, wake, posting, sup, proc, faults,
                   mounted, scanned, config, link, check>>

ForgetLink ==
    /\ hand = "forgot" /\ hand' = "unlinked"
    /\ PointLink(None)
    /\ UNCHANGED <<want, wake, posting, sup, proc,
                   mounted, scanned, config, check>>

ForgetTell ==
    /\ hand = "unlinked" /\ hand' = "ending"
    /\ SetWanted("handler", FALSE)
    /\ UNCHANGED <<mounted, scanned, config, link, check>>

\* writeMu is unlocked when the handler returns.
Release ==
    /\ hand = "ending" /\ "handler" \notin posting
    /\ hand' = "free"
    /\ UNCHANGED <<filesVars, mounted, scanned, config, link, check>>

-----------------------------------------------------------------------------
\* vaultd ends, at any place, and starts again.  SFTPGo ends with it
\* (Pdeathsig); the configuration and the link stay.
Restart ==
    /\ Fault
    /\ want' = FALSE /\ wake' = FALSE /\ posting' = {}
    /\ sup' = "look" /\ proc' = "none"
    /\ scanned' = mounted
    /\ check' = [c \in Callers |-> Unchecked]
    /\ hand' = "free"
    /\ UNCHANGED <<mounted, config, link>>

Monitor ==
    \/ Judge("monitor") \/ UpdateLink("monitor") \/ Tell("monitor")
    \/ Post("monitor") /\ UNCHANGED linkVars

Handler ==
    \/ Judge("handler") \/ UpdateLink("handler") \/ Tell("handler")
    \/ Post("handler") /\ UNCHANGED linkVars
    \/ AdoptLink \/ ForgetLink \/ ForgetTell \/ Release

StorageNext ==
    \/ Monitor \/ Handler \/ Rescan \/ Restart
    \/ (Supervise \/ Fails) /\ UNCHANGED linkVars
    \/ \E d \in Drives : Plug(d) \/ Unplug(d) \/ Adopt(d)
    \/ Forget

\* The monitor's ticker, the scanner's age limit and the supervisor's own
\* steps go on; nobody has to plug, adopt or forget anything.
Fairness ==
    /\ WF_storageVars(Monitor)
    /\ WF_storageVars(Handler)
    /\ WF_storageVars(Rescan)
    /\ WF_storageVars(Supervise /\ UNCHANGED linkVars)

StorageSpec == StorageInit /\ [][StorageNext]_storageVars /\ Fairness

-----------------------------------------------------------------------------
\* The file service follows the drive: when the adopted drive is there to
\* stay, SFTPGo ends up running, and when it is gone or forgotten for good,
\* SFTPGo ends up stopped, whatever judgements were still under way
\* (checkStorage: "keeps the file service ... in step with the drive").
FilesFollowDrive ==
    /\ \A d \in Drives : <>[](config = d /\ d \in mounted) => <>[](proc = "up")
    /\ <>[](config \notin mounted) => <>[](proc = "none")

\* The link follows the drive that is configured: it ends up at a drive that
\* is there to stay, and nowhere when that drive is gone for good
\* (checkStorage; a link changed by a judgement of before a switch of drives is
\* put right by the next one).
LinkFollowsDrive ==
    \A d \in Drives :
        /\ <>[](config = d /\ d \in mounted) => <>[](link = d)
        /\ <>[](config = d /\ d \notin mounted) => <>[](link = None)
=============================================================================
