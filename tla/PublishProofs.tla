----------------------------- MODULE PublishProofs -----------------------------
(***************************************************************************)
(* Proofs about Publish for any uploads, any number of names and every     *)
(* kind of filesystem.  The inductive invariant adds to OnlyWholeFiles and *)
(* NothingLeftBehind what each place of a Save call knows: which calls     *)
(* have claimed a name, whose file is whole, and that only a filesystem    *)
(* without renameat2 brings a call to linkat.                              *)
(***************************************************************************)
EXTENDS Publish, TLAPS

(* A call has a final name once it claimed one, and keeps it if it dies. *)
Claimed ==
  \A u \in Uploads :
    /\ up[u].pc \in {"start", "copying", "rename", "link", "cleanup", "refused"} => up[u].final = None
    /\ up[u].pc \in {"unlink", "done"} => up[u].final # None

(* Nothing is published before it was copied whole, and nothing is left    *)
(* where nothing was created.                                              *)
Copied ==
  \A u \in Uploads :
    /\ up[u].pc \in {"rename", "link", "unlink", "done"} => u \in whole
    /\ up[u].pc = "start" => u \notin partial
    /\ up[u].pc \in {"start", "copying"} => up[u].try \in Candidates

(* Only where renameat2 is missing does a call use linkat. *)
Fallback ==
  \A u \in Uploads :
    up[u].useLink \/ up[u].pc \in {"link", "unlink"} => "rename_noreplace" \notin fs

IInv == TypeOK /\ Claimed /\ Copied /\ Fallback /\ OnlyWholeFiles /\ NothingLeftBehind

LEMMA CandidateFacts ==
  /\ Candidates \subseteq Nat
  /\ None \notin Candidates
  /\ 0 \in Candidates /\ 0 \in 0 .. MaxTries
BY PublishAssumption DEF Candidates

LEMMA InitInv == Init => IInv
BY CandidateFacts, PublishAssumption
DEF Init, IInv, TypeOK, Claimed, Copied, Fallback, OnlyWholeFiles, NothingLeftBehind, Call, PCs

(* The next name is a candidate, or there is none and the call gives up. *)
LEMMA NextNameInv ==
  ASSUME IInv, NEW u \in Uploads, up[u].pc \in {"rename", "link"},
         NextName(u), UNCHANGED <<fs, dir, partial, whole, stuck>>
  PROVE  IInv'
<1>1. up[u].try + 1 \in 0 .. MaxTries /\ (up[u].try + 1 # MaxTries => up[u].try + 1 \in Candidates)
  BY PublishAssumption DEF IInv, TypeOK, Candidates
<1>2. PICK pc \in {"cleanup", "link", "rename"} :
        /\ up' = [up EXCEPT ![u] = [up[u] EXCEPT !.try = up[u].try + 1, !.pc = pc]]
        /\ pc # "cleanup" => up[u].try + 1 \in Candidates
        /\ pc = "link" => up[u].useLink
  <2>1. up' = [up EXCEPT ![u] = [up[u] EXCEPT !.try = up[u].try + 1,
                  !.pc = IF up[u].try + 1 = MaxTries THEN "cleanup"
                         ELSE IF up[u].useLink THEN "link" ELSE "rename"]]
    BY DEF NextName, IInv, TypeOK, Call
  <2>2. QED  BY <1>1, <2>1
<1>3. up'[u] \in Call /\ up'[u] = [up[u] EXCEPT !.try = up[u].try + 1, !.pc = pc]
  BY <1>1, <1>2 DEF IInv, TypeOK, Call, PCs
<1>4. TypeOK'
  BY <1>1, <1>2, <1>3 DEF IInv, TypeOK, Call
<1>5. QED
  BY <1>2, <1>3, <1>4 DEF IInv, Claimed, Copied, Fallback, OnlyWholeFiles, NothingLeftBehind, TypeOK, Call

LEMMA ClaimInv ==
  ASSUME IInv, NEW u \in Uploads, up[u].pc \in {"rename", "link"},
         dir[up[u].try] = None, NEW pc \in {"done", "unlink"}, Claim(u, pc),
         pc = "done" => up[u].pc = "rename" /\ partial' = partial \ {u},
         pc = "unlink" => up[u].pc = "link" /\ partial' = partial,
         UNCHANGED <<fs, whole, stuck>>
  PROVE  IInv'
<1>1. up[u].try \in Candidates /\ u # None /\ u # Foreign /\ None \notin Candidates
  BY CandidateFacts, PublishAssumption DEF IInv, TypeOK
<1>2. up[u].final = None /\ \A c \in Candidates : dir[c] # u
  BY DEF IInv, Claimed, OnlyWholeFiles
<1>3. TypeOK'
  <2>1. dir' \in [Candidates -> Uploads \cup {None, Foreign}]
    BY <1>1 DEF Claim, IInv, TypeOK
  <2>2. up' \in [Uploads -> Call]
    <3>1. [up[u] EXCEPT !.pc = pc, !.final = up[u].try] \in Call
      BY <1>1 DEF IInv, TypeOK, Call, PCs
    <3>2. up' = [up EXCEPT ![u] = [up[u] EXCEPT !.pc = pc, !.final = up[u].try]]
      BY DEF Claim
    <3>3. QED  BY <3>1, <3>2 DEF IInv, TypeOK
  <2>3. \A v \in Uploads : up'[v].pc \in {"rename", "link"} => up'[v].try \in Candidates
    BY DEF Claim, IInv, TypeOK, Call
  <2>4. partial' \subseteq Uploads
    BY DEF IInv, TypeOK
  <2>5. QED  BY <2>1, <2>2, <2>3, <2>4 DEF IInv, TypeOK
<1>4. QED
  BY <1>1, <1>2, <1>3 DEF Claim, IInv, TypeOK, Claimed, Copied, Fallback, OnlyWholeFiles, NothingLeftBehind, Call

(* A call that goes over to linkat. *)
LEMMA FallbackInv ==
  ASSUME IInv, NEW u \in Uploads, RenameUnsupported(u)
  PROVE  IInv'
<1>1. /\ up[u].pc = "rename" /\ "rename_noreplace" \notin fs
      /\ UNCHANGED <<fs, dir, partial, whole, stuck>>
      /\ up' = [up EXCEPT ![u] = [up[u] EXCEPT !.pc = "link", !.useLink = TRUE]]
  BY DEF RenameUnsupported
<1>2. /\ [up[u] EXCEPT !.pc = "link", !.useLink = TRUE] \in Call
      /\ up'[u] = [up[u] EXCEPT !.pc = "link", !.useLink = TRUE]
      /\ up' \in [Uploads -> Call]
  BY <1>1 DEF IInv, TypeOK, Call, PCs
<1>3. /\ up'[u].pc = "link" /\ up'[u].try = up[u].try /\ up'[u].final = up[u].final
      /\ \A v \in Uploads \ {u} : up'[v] = up[v]
  BY <1>1, <1>2 DEF IInv, TypeOK, Call
<1>4. TypeOK'
  BY <1>1, <1>2, <1>3 DEF IInv, TypeOK
<1>5. Claimed' /\ Copied'
  BY <1>1, <1>3 DEF IInv, Claimed, Copied
<1>6. Fallback'
  BY <1>1 DEF Fallback
<1>7. OnlyWholeFiles'
  BY <1>1, <1>3 DEF IInv, OnlyWholeFiles
<1>8. NothingLeftBehind'
  BY <1>1, <1>3 DEF IInv, NothingLeftBehind
<1>9. QED  BY <1>4, <1>5, <1>6, <1>7, <1>8 DEF IInv

(* A call that takes no name keeps the invariant. *)
LEMMA CallInv ==
  ASSUME IInv, NEW u \in Uploads, Save(u) \/ Die(u)
  PROVE  IInv'
<1> USE DEF IInv, TypeOK, Claimed, Copied, Fallback, OnlyWholeFiles, NothingLeftBehind, Call, PCs, Goto
<1>1. CASE OpenPartial(u)  BY <1>1 DEF OpenPartial
<1>2. CASE NoFolder(u)  BY <1>2 DEF NoFolder
<1>3. CASE CopyAll(u)  BY <1>3 DEF CopyAll
<1>4. CASE CopyFails(u)  BY <1>4 DEF CopyFails
<1>5. CASE RenameUnsupported(u)  BY <1>5, FallbackInv
<1>6. CASE LinkUnsupported(u)  BY <1>6 DEF LinkUnsupported
<1>7. CASE CallFails(u)  BY <1>7 DEF CallFails
<1>8. CASE Unlink(u)  BY <1>8 DEF Unlink, RemovePartial
<1>9. CASE Cleanup(u)  BY <1>9 DEF Cleanup, RemovePartial
<1>10. CASE Die(u)  BY <1>10 DEF Die
<1>11. CASE RenameOK(u)  BY <1>11, ClaimInv DEF RenameOK
<1>12. CASE LinkOK(u)  BY <1>12, ClaimInv DEF LinkOK
<1>13. CASE RenameExists(u) \/ LinkExists(u)
  BY <1>13, NextNameInv DEF RenameExists, LinkExists
<1>14. QED
  BY <1>1, <1>2, <1>3, <1>4, <1>5, <1>6, <1>7, <1>8, <1>9, <1>10, <1>11, <1>12, <1>13 DEF Save

(* Other programs use names and remove files, their own and Vault's. *)
LEMMA OthersInv ==
  ASSUME IInv, NEW c \in Candidates, Appear(c) \/ Vanish(c)
  PROVE  IInv'
BY PublishAssumption
DEF Appear, Vanish, IInv, TypeOK, Claimed, Copied, Fallback, OnlyWholeFiles, NothingLeftBehind, Call, PCs

LEMMA NextInv == IInv /\ [Next]_vars => IInv'
<1> SUFFICES ASSUME IInv, [Next]_vars PROVE IInv'
  OBVIOUS
<1>1. CASE UNCHANGED vars
  BY <1>1 DEF vars, IInv, TypeOK, Claimed, Copied, Fallback, OnlyWholeFiles, NothingLeftBehind, Call, PCs
<1>2. CASE Next
  BY <1>2, CallInv, OthersInv DEF Next
<1>3. QED  BY <1>1, <1>2

LEMMA Invariance == Spec => []IInv
<1>1. Init => IInv  BY InitInv
<1>2. IInv /\ [Next]_vars => IInv'  BY NextInv
<1>3. QED  BY <1>1, <1>2, PTL DEF Spec

(* Every Save call is where the code can be, with a name left to try while *)
(* it tries one, for every number of uploads and names.                    *)
THEOREM TypeCorrect == Spec => []TypeOK
<1>1. IInv => TypeOK  BY DEF IInv
<1>2. QED  BY <1>1, Invariance, PTL

(* Whatever the filesystem, the failures and the crashes: a name never     *)
(* shows a file that is not whole, nor one upload twice (Save, publish).   *)
THEOREM ShownWhole == Spec => []OnlyWholeFiles
<1>1. IInv => OnlyWholeFiles  BY DEF IInv
<1>2. QED  BY <1>1, Invariance, PTL

(* A Save that was refused shows under no name; no error path leaves its   *)
(* partial file unless the drive refuses the removal, and a saved file has *)
(* a second name only where renameat2 is missing (Save, publish).          *)
THEOREM LeftClean == Spec => []NothingLeftBehind
<1>1. IInv => NothingLeftBehind  BY DEF IInv
<1>2. QED  BY <1>1, Invariance, PTL

(* No system call of an upload changes what a taken name shows (publish).  *)
THEOREM ReplacesNothing == Spec => NeverReplaces
<1>1. IInv /\ [Next]_vars =>
        [(\E u \in Uploads : Save(u) \/ Die(u)) =>
           \A c \in Candidates : dir[c] # None => dir'[c] = dir[c]]_vars
  <2> SUFFICES ASSUME IInv, NEW u \in Uploads, Save(u) \/ Die(u),
                      NEW c \in Candidates, dir[c] # None
               PROVE  dir'[c] = dir[c]
    OBVIOUS
  <2>1. CASE RenameOK(u) \/ LinkOK(u)
    BY <2>1 DEF RenameOK, LinkOK, Claim, IInv, TypeOK
  <2>2. CASE ~(RenameOK(u) \/ LinkOK(u))
    BY <2>2 DEF Save, Die, OpenPartial, NoFolder, CopyAll, CopyFails, RenameExists, RenameUnsupported,
                LinkExists, LinkUnsupported, CallFails, Unlink, Cleanup
  <2>3. QED  BY <2>1, <2>2
<1>2. QED  BY <1>1, Invariance, PTL DEF Spec, NeverReplaces

-------------------------------------------------------------------------------

LEMMA RefineInit == Init => Folder!Init
BY DEF Init, Folder!Init, Outcomes, OutcomeOf

(* A call that claims no name changes no outcome, or gives its upload up. *)
LEMMA RefineQuiet ==
  ASSUME IInv, IInv', NEW u \in Uploads, NEW pc \in PCs,
         up' = [up EXCEPT ![u] = up'[u]], up'[u].pc = pc, up'[u].final = up[u].final,
         up[u].pc \notin {"refused", "dead"},
         UNCHANGED dir
  PROVE  [Folder!Next]_(Folder!folderVars)
<1>1. \A v \in Uploads \ {u} : Outcomes'[v] = Outcomes[v]
  BY DEF IInv, TypeOK, Outcomes, OutcomeOf
<1>2. CASE up[u].final # None \/ pc \notin {"refused", "dead"}
  <2>1. Outcomes'[u] = Outcomes[u]  BY <1>2 DEF IInv, TypeOK, Outcomes, OutcomeOf
  <2>2. Outcomes' = Outcomes  BY <1>1, <2>1 DEF Outcomes
  <2>3. QED  BY <2>2 DEF Folder!folderVars
<1>3. CASE up[u].final = None /\ pc \in {"refused", "dead"}
  <2>1. Outcomes[u] = "pending" /\ Outcomes'[u] = "refused"
    BY <1>3 DEF IInv, TypeOK, Outcomes, OutcomeOf
  <2>2. Outcomes' = [Outcomes EXCEPT ![u] = "refused"]  BY <1>1, <2>1 DEF Outcomes
  <2>3. QED  BY <2>1, <2>2 DEF Folder!Next, Folder!Refuse
<1>4. QED  BY <1>2, <1>3

LEMMA RefineClaim ==
  ASSUME IInv, NEW u \in Uploads, NEW pc \in {"done", "unlink"}, Claim(u, pc),
         up[u].pc \in {"rename", "link"}, dir[up[u].try] = None
  PROVE  Folder!Next
<1>1. up[u].try \in Candidates /\ up[u].try # None
  BY CandidateFacts DEF IInv, TypeOK
<1>2. \A v \in Uploads \ {u} : Outcomes'[v] = Outcomes[v]
  BY DEF Claim, IInv, TypeOK, Outcomes, OutcomeOf
<1>3. Outcomes[u] = "pending"
  BY DEF IInv, TypeOK, Claimed, Outcomes, OutcomeOf
<1>4. Outcomes'[u] = "saved"
  BY <1>1 DEF Claim, IInv, TypeOK, Call, Outcomes, OutcomeOf
<1>5. Outcomes' = [Outcomes EXCEPT ![u] = "saved"]  BY <1>2, <1>4 DEF Outcomes
<1>6. Folder!Add(u, up[u].try)
  BY <1>3, <1>5 DEF Folder!Add, Claim
<1>7. QED  BY <1>1, <1>6 DEF Folder!Next

LEMMA RefineStep == IInv /\ IInv' /\ [Next]_vars => [Folder!Next]_(Folder!folderVars)
<1> SUFFICES ASSUME IInv, IInv', [Next]_vars PROVE [Folder!Next]_(Folder!folderVars)
  OBVIOUS
<1>1. CASE UNCHANGED vars
  BY <1>1 DEF vars, Folder!folderVars, Outcomes, OutcomeOf
<1>2. ASSUME NEW c \in Candidates, Appear(c) \/ Vanish(c)
      PROVE  [Folder!Next]_(Folder!folderVars)
  <2>1. Outcomes' = Outcomes  BY <1>2 DEF Appear, Vanish, Outcomes, OutcomeOf
  <2>2. QED  BY <1>2, <2>1 DEF Appear, Vanish, Folder!Next, Folder!Put, Folder!Remove
<1>3. ASSUME NEW u \in Uploads, RenameOK(u) \/ LinkOK(u)
      PROVE  [Folder!Next]_(Folder!folderVars)
  BY <1>3, RefineClaim DEF RenameOK, LinkOK
<1>4. ASSUME NEW u \in Uploads, Save(u) \/ Die(u), ~(RenameOK(u) \/ LinkOK(u))
      PROVE  [Folder!Next]_(Folder!folderVars)
  <2>1. /\ up' = [up EXCEPT ![u] = up'[u]]
        /\ up'[u].final = up[u].final
        /\ up[u].pc \notin {"refused", "dead"}
        /\ UNCHANGED dir
    BY <1>4 DEF IInv, TypeOK, Call, Save, Die, OpenPartial, NoFolder, CopyAll, CopyFails, RenameExists,
                RenameUnsupported, LinkExists, LinkUnsupported, CallFails, Unlink, Cleanup, Goto, NextName
  <2>2. up'[u].pc \in PCs  BY DEF IInv, TypeOK, Call
  <2>3. QED  BY <2>1, <2>2, RefineQuiet
<1>5. QED  BY <1>1, <1>2, <1>3, <1>4 DEF Next

(* Save, with all its system calls, failures and crashes, looks like the   *)
(* one atomic step of SafeFolder.                                          *)
THEOREM PublishImplementsSafeFolder == Spec => ImplementsSafeFolder
<1>1. Init => Folder!Init  BY RefineInit
<1>2. IInv /\ IInv' /\ [Next]_vars => [Folder!Next]_(Folder!folderVars)  BY RefineStep
<1>3. QED  BY <1>1, <1>2, Invariance, PTL DEF Spec, ImplementsSafeFolder, Folder!Spec
===============================================================================
