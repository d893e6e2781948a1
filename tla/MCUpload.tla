------------------------------- MODULE MCUpload -------------------------------
(***************************************************************************)
(* Instances of Upload for TLC, with a history of what makes the limits on *)
(* bytes inexact: parts on their way together, sizes that were never       *)
(* recorded, and free space that could not be read.                        *)
(***************************************************************************)
EXTENDS Upload

CONSTANTS l1, r1, r2

VARIABLES
  overlapped,  \* two parts were on their way together
  blind,       \* Statfs failed for a part the drive had too little room for
  missed       \* saved files whose size was never recorded, per link

history == <<overlapped, blind, missed>>

(* Parts between the reading of their limit and the recording of their size. *)
OnTheirWay == {r \in Reqs : req[r].pc \in {"copying", "written", "published"}}

(* Requests of l that leave a saved file without recording its size in this *)
(* step: Record fails, or vaultd is killed before it.                      *)
Unrecorded(l) ==
  {r \in Reqs : /\ req[r].link = l /\ req[r].pc = "published" /\ req[r].bytes > 0
                /\ RecordFails(r) \/ Restart}

MCInit ==
  /\ Init
  /\ overlapped = FALSE /\ blind = FALSE
  /\ missed = [l \in Links |-> 0]

MCNext ==
  /\ Next
  /\ overlapped' = (overlapped \/ Cardinality(OnTheirWay') > 1)
  /\ blind' = (blind \/ \E r \in Reqs : MeasureBlind(r) /\ ~Measure(r))
  /\ missed' = [l \in Links |-> missed[l] + Cardinality(Unrecorded(l))]

MCSpec == MCInit /\ [][MCNext]_<<vars, history>> /\ Fairness

(* What a link puts on the drive.  saveOne reads Remaining before the copy *)
(* and Record adds the size after publish, so the limit of SECURITY.md:137 *)
(* ("1000 files and 100 GB per link") is not kept as it stands: each saved *)
(* file whose size is never recorded, because the phone went away, the     *)
(* store failed or vaultd was killed after publish, lets the link take one *)
(* more limit, and so does each further part that overlaps.  That is all:  *)
(* a phone that sends one part after the other is held to one limit plus   *)
(* one for each size that was missed, and parts that overlap add one limit *)
(* for each request that runs at the same time at most.                    *)
BytesWithinLimit ==
  \A l \in Links :
    /\ ~overlapped => taken[l] <= MaxBytes * (1 + missed[l])
    /\ taken[l] <= MaxBytes * (Cardinality(Reqs) + missed[l])

(* The reserve of the drive is touched only after two parts, of any links, *)
(* were on their way together (saveOne calls Statfs before the copy), or   *)
(* after Statfs failed for a part that was given more than there was room  *)
(* for; on a drive that never had the reserve, nothing else is written.    *)
(* Partial files the drive refuses to remove or a crash leaves count too.  *)
KeepsReserve == ~overlapped /\ ~blind => free >= ReserveBytes \/ free >= DiskSize

(* store.go, Release: "Release undoes a Reserve for a file that was not    *)
(* saved."  As long as vaultd was not killed, a link's count is then the   *)
(* files it saved and the files on their way.                              *)
ReleaseUndoesReserve ==
  \A l \in Links : store[l].files = landed[l] + Cardinality(Unsaved(l))
===============================================================================
