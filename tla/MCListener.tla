------------------------------ MODULE MCListener ------------------------------
(***************************************************************************)
(* Instances of Listener for TLC, and the statement of the repository's    *)
(* documents that a restart refutes.  A history variable tells whether     *)
(* anything began while auto-off asked its questions.                      *)
(***************************************************************************)
EXTENDS Listener

CONSTANTS l1, t1, t2

VARIABLE disturbed

(* A link or a transfer came up, or somebody used the dashboard. *)
Stirred == Active' \ Active # {} \/ Working' \ Working # {} \/ (recent' /\ ~recent)

MCInit == Init /\ disturbed = FALSE

MCNext ==
  /\ Next
  /\ disturbed' = (auto' # "waiting" /\ (disturbed \/ Stirred))

MCSpec == MCInit /\ [][MCNext]_<<vars, disturbed>> /\ Fairness

(* autooff.go, RunAutoOff: Vault turns itself off only with no recent use, *)
(* no active link and no transfer in progress, unless one of them came up  *)
(* while idle was asking for the others.                                   *)
OffOnlyIdleUnlessDisturbed ==
  [][AutoOff => disturbed \/ (~recent /\ Active = {} /\ inflight = 0)]_vars

(* transfer_handlers.go, liveLinks: "after a restart old links still work  *)
(* from the phone".                                                        *)
OldLinksWork ==
  on /\ starts > 0 => \A l \in Active : creator[l] = "issued" => bound
===============================================================================
