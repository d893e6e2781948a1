------------------------------ MODULE MCDownload ------------------------------
(***************************************************************************)
(* Instances of Download for TLC.  A history variable collects the phones  *)
(* and files that two requests asked for at the same time: the promises of *)
(* SECURITY.md about one phone hold until then, and only until then.       *)
(***************************************************************************)
EXTENDS Download, TLC

CONSTANTS l1, p1, p2, k1, k2, r1, r2

VARIABLE raced

ReqSymmetry == Permutations(Reqs)

Asking(t) == {r \in Reqs : Open(r) /\ req[r].what = t}

MCInit == Init /\ raced = {}

MCNext ==
  /\ Next
  /\ raced' = raced \cup {t \in Triples : Cardinality(Asking(t)') > 1}

MCSpec == MCInit /\ [][MCNext]_<<vars, raced>>

(* SECURITY.md, Token model: "A download is counted once per phone         *)
(* (network address) and file": the count of a link that has not expired   *)
(* is the number of phones and files it serves (wasCounted, count), as     *)
(* long as no phone asked twice at the same time for a file of the link.   *)
CountedOnceUnlessRaced ==
  restarts = 0 =>
    \A l \in Links :
      ~store[l].expired /\ OfLink(raced, l) = {} => store[l].files <= Cardinality(TakenTriples(l))

(* SECURITY.md: "The same phone can resume or retry an interrupted         *)
(* download until the link expires without using it up".  A phone that was *)
(* sent a file is never refused as if others had used the link up, unless  *)
(* it asked twice at the same time or vaultd was started again: counted is *)
(* only in memory (usable, send).                                          *)
ResumeUnlessRaced ==
  [][\A r \in Reqs : RefuseFull(r) \/ CountRefused(r) =>
        \/ req[r].what \notin given \/ req[r].what \in raced \/ restarts > 0
        \/ store[LinkOf(r)].expired \/ store[LinkOf(r)].revoked]_vars
===============================================================================
