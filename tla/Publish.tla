-------------------------------- MODULE Publish --------------------------------
(***************************************************************************)
(* Save and publish of internal/transfer/save.go: several uploads of files *)
(* with the same cleaned name, in one folder of the drive, next to people  *)
(* who use the folder through Files or the file manager.  Each system call *)
(* is one step.                                                            *)
(*                                                                         *)
(* The name an upload wants is candidate 0, "name (i)" is candidate i; the *)
(* partial file has a random name of its own, so it is kept per upload.    *)
(***************************************************************************)
EXTENDS Naturals

CONSTANTS
  Uploads,
  MaxTries,   \* names publish tries, 10000 in the code
  None,       \* no file
  Foreign     \* a file Vault did not put there

ASSUME PublishAssumption ==
  /\ MaxTries \in Nat \ {0}
  /\ None # Foreign /\ None \notin Uploads \cup Nat /\ Foreign \notin Uploads

Candidates == 0 .. MaxTries - 1

(* System calls the drive's filesystem supports. *)
Calls == {"rename_noreplace", "link"}

VARIABLES
  fs,       \* the calls this drive supports
  dir,      \* candidate name -> the upload whose file it names, or another
  partial,  \* uploads whose .vault-partial name exists
  whole,    \* uploads whose file is complete and synced
  stuck,    \* uploads whose partial name the drive refused to remove
  up        \* the Save calls

vars == <<fs, dir, partial, whole, stuck, up>>

(***************************************************************************)
(* pc of a Save call:                                                      *)
(*   start    nothing created yet                                          *)
(*   copying  partial file open                                            *)
(*   rename   about to call renameat2 for candidate try                    *)
(*   link     about to call linkat for candidate try                       *)
(*   unlink   linked, about to unlink the partial name                     *)
(*   cleanup  failed, about to remove the partial file                     *)
(*   done, refused, dead                                                   *)
(***************************************************************************)
PCs == {"start", "copying", "rename", "link", "unlink", "cleanup", "done", "refused", "dead"}

Call == [pc: PCs, try: 0 .. MaxTries, useLink: BOOLEAN, final: Candidates \cup {None}]

Goto(u, pc) == up' = [up EXCEPT ![u].pc = pc]

Init ==
  /\ fs \in SUBSET Calls
  /\ dir \in [Candidates -> {None, Foreign}]
  /\ partial = {}
  /\ whole = {}
  /\ stuck = {}
  /\ up = [u \in Uploads |-> [pc |-> "start", try |-> 0, useLink |-> FALSE, final |-> None]]

(* The partial file is created with O_EXCL under a fresh random name. *)
OpenPartial(u) ==
  /\ up[u].pc = "start"
  /\ partial' = partial \cup {u}
  /\ Goto(u, "copying")
  /\ UNCHANGED <<fs, dir, whole, stuck>>

(* The destination is missing or no plain folder: nothing was created. *)
NoFolder(u) ==
  /\ up[u].pc = "start"
  /\ Goto(u, "refused")
  /\ UNCHANGED <<fs, dir, partial, whole, stuck>>

(* The whole body was copied, synced and closed. *)
CopyAll(u) ==
  /\ up[u].pc = "copying"
  /\ whole' = whole \cup {u}
  /\ Goto(u, "rename")
  /\ UNCHANGED <<fs, dir, partial, stuck>>

(* Mutant of CopyFails: the error is lost. *)
CopyFailsUnseen(u) ==
  /\ up[u].pc = "copying"
  /\ Goto(u, "rename")
  /\ UNCHANGED <<fs, dir, partial, whole, stuck>>

(* Too large, interrupted, or a write, sync or close failed. *)
CopyFails(u) ==
  /\ up[u].pc = "copying"
  /\ Goto(u, "cleanup")
  /\ UNCHANGED <<fs, dir, partial, whole, stuck>>

(* The file of u takes the free name it was trying. *)
Claim(u, pc) ==
  /\ dir' = [dir EXCEPT ![up[u].try] = u]
  /\ up' = [up EXCEPT ![u].pc = pc, ![u].final = up[u].try]

(* Mutant of NextName: the first name again. *)
NextNameAround(u) ==
  up' = [up EXCEPT ![u].try = (@ + 1) % MaxTries,
                   ![u].pc = IF up[u].useLink THEN "link" ELSE "rename"]

(* EEXIST: the next candidate, or give up after the last one.  A call that *)
(* fell back to linkat stays with it.                                      *)
NextName(u) ==
  up' = [up EXCEPT ![u].try = @ + 1,
                   ![u].pc = IF up[u].try + 1 = MaxTries THEN "cleanup"
                             ELSE IF up[u].useLink THEN "link" ELSE "rename"]

RenameOK(u) ==
  /\ up[u].pc = "rename" /\ "rename_noreplace" \in fs
  /\ dir[up[u].try] = None
  /\ Claim(u, "done")
  /\ partial' = partial \ {u}
  /\ UNCHANGED <<fs, whole, stuck>>

RenameExists(u) ==
  /\ up[u].pc = "rename" /\ "rename_noreplace" \in fs
  /\ dir[up[u].try] # None
  /\ NextName(u)
  /\ UNCHANGED <<fs, dir, partial, whole, stuck>>

(* unsupported(err): this and every later candidate use linkat. *)
RenameUnsupported(u) ==
  /\ up[u].pc = "rename" /\ "rename_noreplace" \notin fs
  /\ up' = [up EXCEPT ![u].pc = "link", ![u].useLink = TRUE]
  /\ UNCHANGED <<fs, dir, partial, whole, stuck>>

(* Mutant of LinkOK: the old file is removed first. *)
LinkReplaces(u) ==
  /\ up[u].pc = "link" /\ "link" \in fs
  /\ Claim(u, "unlink")
  /\ UNCHANGED <<fs, partial, whole, stuck>>

LinkOK(u) ==
  /\ up[u].pc = "link" /\ "link" \in fs
  /\ dir[up[u].try] = None
  /\ Claim(u, "unlink")
  /\ UNCHANGED <<fs, partial, whole, stuck>>

LinkExists(u) ==
  /\ up[u].pc = "link" /\ "link" \in fs
  /\ dir[up[u].try] # None
  /\ NextName(u)
  /\ UNCHANGED <<fs, dir, partial, whole, stuck>>

(* ErrNoSafePublish: no fallback that could replace a file. *)
LinkUnsupported(u) ==
  /\ up[u].pc = "link" /\ "link" \notin fs
  /\ Goto(u, "cleanup")
  /\ UNCHANGED <<fs, dir, partial, whole, stuck>>

(* Any other error of renameat2 or linkat. *)
CallFails(u) ==
  /\ up[u].pc \in {"rename", "link"}
  /\ Goto(u, "cleanup")
  /\ UNCHANGED <<fs, dir, partial, whole, stuck>>

(* The partial name goes, unless the drive refuses; the error is ignored. *)
RemovePartial(u) ==
  \/ partial' = partial \ {u} /\ stuck' = stuck
  \/ stuck' = stuck \cup {u} /\ partial' = partial

(* The partial name of a linked file. *)
Unlink(u) ==
  /\ up[u].pc = "unlink"
  /\ RemovePartial(u)
  /\ Goto(u, "done")
  /\ UNCHANGED <<fs, dir, whole>>

(* Mutant of Cleanup: the partial file stays. *)
CleanupForgets(u) ==
  /\ up[u].pc = "cleanup"
  /\ Goto(u, "refused")
  /\ UNCHANGED <<fs, dir, partial, whole, stuck>>

(* Save asks for the partial file's removal, once, and reports the error *)
(* that brought it here.                                                 *)
Cleanup(u) ==
  /\ up[u].pc = "cleanup"
  /\ RemovePartial(u)
  /\ Goto(u, "refused")
  /\ UNCHANGED <<fs, dir, whole>>

(* vaultd is killed in the middle of the call. *)
Die(u) ==
  /\ up[u].pc \notin {"done", "refused", "dead"}
  /\ Goto(u, "dead")
  /\ UNCHANGED <<fs, dir, partial, whole, stuck>>

Save(u) ==
  \/ OpenPartial(u) \/ NoFolder(u) \/ CopyAll(u) \/ CopyFails(u)
  \/ RenameOK(u) \/ RenameExists(u) \/ RenameUnsupported(u)
  \/ LinkOK(u) \/ LinkExists(u) \/ LinkUnsupported(u)
  \/ CallFails(u) \/ Unlink(u) \/ Cleanup(u)

(* Others add and remove files under the same names. *)
Appear(c) ==
  /\ dir[c] = None
  /\ dir' = [dir EXCEPT ![c] = Foreign]
  /\ UNCHANGED <<fs, partial, whole, stuck, up>>

Vanish(c) ==
  /\ dir[c] # None
  /\ dir' = [dir EXCEPT ![c] = None]
  /\ UNCHANGED <<fs, partial, whole, stuck, up>>

Next ==
  \/ \E u \in Uploads : Save(u) \/ Die(u)
  \/ \E c \in Candidates : Appear(c) \/ Vanish(c)

Spec == Init /\ [][Next]_vars /\ \A u \in Uploads : WF_vars(Save(u))

-------------------------------------------------------------------------------

TypeOK ==
  /\ fs \subseteq Calls
  /\ dir \in [Candidates -> Uploads \cup {None, Foreign}]
  /\ partial \subseteq Uploads
  /\ whole \subseteq Uploads
  /\ stuck \subseteq Uploads
  /\ up \in [Uploads -> Call]
  /\ \A u \in Uploads : up[u].pc \in {"rename", "link"} => up[u].try \in Candidates

(* A name in the folder never shows a file that is still arriving or was   *)
(* given up, and an upload shows under one name at most, its final one     *)
(* (Save, publish).                                                        *)
OnlyWholeFiles ==
  \A c \in Candidates, u \in Uploads :
    dir[c] = u => /\ u \in whole
                  /\ up[u].final = c
                  /\ up[u].pc \in {"unlink", "done", "dead"}

(* A refused upload shows under no name, and whoever was answered has a    *)
(* partial file left only if the drive refused to remove it: no error path *)
(* of Save forgets it, and a saved file keeps its partial name only where  *)
(* renameat2 is missing.  (Save ignores that refusal, and tries once.)     *)
NothingLeftBehind ==
  \A u \in Uploads :
    /\ up[u].pc = "refused" => \A c \in Candidates : dir[c] # u
    /\ up[u].pc \in {"refused", "done"} /\ u \in partial => u \in stuck
    /\ up[u].pc = "done" /\ u \in partial => "rename_noreplace" \notin fs

(* No step of an upload ever changes what an occupied name shows, even if  *)
(* the file appeared the moment before (publish never replaces).           *)
NeverReplaces ==
  [][(\E u \in Uploads : Save(u) \/ Die(u)) =>
       \A c \in Candidates : dir[c] # None => dir'[c] = dir[c]]_vars

(* Every upload is decided, although others may keep taking its next name. *)
Decided == \A u \in Uploads : <>(up[u].pc \in {"done", "refused", "dead"})

(* Save looks, to everybody else in the folder, like one atomic step. *)
OutcomeOf(u) ==
  IF up[u].final # None THEN "saved"
  ELSE IF up[u].pc \in {"refused", "dead"} THEN "refused" ELSE "pending"

Outcomes == [u \in Uploads |-> OutcomeOf(u)]

Folder == INSTANCE SafeFolder WITH Names <- Candidates, folder <- dir, outcome <- Outcomes

ImplementsSafeFolder == Folder!Spec
===============================================================================
