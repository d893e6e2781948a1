------------------------------ MODULE MCStorage ------------------------------
(* Instances of Storage, with a history variable.                          *)
EXTENDS Storage

VARIABLE astray   \* the link was left at, or put back to, a drive that is not configured

MCInit == StorageInit /\ astray = FALSE

\* What can lead the link astray: a check that acts on a configuration that is
\* no longer the configuration, a link operation of a handler that fails, or a
\* restart between the configuration and the link.
LedAstray ==
    \/ \E c \in Callers : check[c].at = "judged" /\ check[c].dir # config /\ UpdateLink(c)
    \/ (AdoptLink \/ ForgetLink) /\ faults' # faults
    \/ Restart /\ hand \in {"adopted", "forgot"}

MCNext ==
    /\ StorageNext
    /\ astray' = (link' \notin {None, config'} /\ (astray \/ LedAstray))

MCSpec == MCInit /\ [][MCNext]_<<storageVars, astray>> /\ Fairness

\* The link points at the configured drive or nowhere, except while a handler
\* is between saving the configuration and changing the link, and after one of
\* the three events of LedAstray, until it is put right (handleAdopt,
\* handleForget and checkStorage, which do not share a lock).
LinkMeansConfigured ==
    link \notin {None, config} => astray \/ hand \in {"adopted", "forgot"}

\* ARCHITECTURE.md: "When the drive is ready it keeps the data link and SFTPGo
\* running; otherwise it removes the link and stops SFTPGo."
OtherwiseRemoved == <>[](config \notin mounted) => <>[](link = None)
=============================================================================
