---------------------------- MODULE StorageProofs ----------------------------
(***************************************************************************)
(* Proofs about the two state machines of the storage: first the data link *)
(* and the file service (Storage), then the drives and what is adopted of  *)
(* them (Drives).  Neither part uses the other.                            *)
(*                                                                         *)
(* Storage, for every set of drives and every bound.  StorageTypeOK is     *)
(* inductive.  NoLostWake is too: no step that takes a token, or leaves    *)
(* the place it was taken for, trusts an answer older than the token.      *)
(* LinkMeansConfigured needs StorageTypeOK, because a failed link          *)
(* operation shows in the count of faults, and HandlerChecks: a handler    *)
(* checks only after it has set the link, so the check's end cannot cover  *)
(* up a link that was not set.                                             *)
(***************************************************************************)
EXTENDS MCStorage, Drives, FiniteSetTheorems, WellFoundedInduction, TLAPS

Checks == [Callers -> [at : {"idle", "judged", "tell"}, dir : MaybeDrive, ready : BOOLEAN]]

\* The callers of checkStorage are all idle at a start.
LEMMA IdleTyped == [c \in Callers |-> Unchecked] \in Checks
<1>1. Unchecked \in [at : {"idle", "judged", "tell"}, dir : MaybeDrive, ready : BOOLEAN]
  BY DEF Unchecked, MaybeDrive
<1> QED BY <1>1 DEF Checks

\* The type invariant holds in the initial states.
LEMMA InitTyped == StorageInit => StorageTypeOK
<1> SUFFICES ASSUME StorageInit PROVE StorageTypeOK
  OBVIOUS
<1>1. FilesTypeOK
  <2>1. want \in BOOLEAN /\ wake \in BOOLEAN
    BY Zenon DEF StorageInit, FilesInit
  <2>2. faults \in 0 .. MaxFaults
    BY FaultsAssumption DEF StorageInit, FilesInit
  <2> QED BY <2>1, <2>2 DEF StorageInit, FilesInit, FilesTypeOK, Places
<1>2. check \in Checks
  BY IdleTyped DEF StorageInit
<1> QED BY <1>1, <1>2 DEF StorageInit, StorageTypeOK, MaybeDrive, Checks

\* SetWanted and Post keep the supervisor's part of the types.
LEMMA ToldTyped ==
    ASSUME FilesTypeOK, NEW c \in Callers, NEW w \in BOOLEAN,
           SetWanted(c, w) \/ Post(c)
    PROVE  FilesTypeOK'
  BY DEF FilesTypeOK, SetWanted, Post, Places

\* So does every step of supervise, its failures included.
LEMMA SuperviseTyped ==
    ASSUME FilesTypeOK, Supervise \/ Fails
    PROVE  FilesTypeOK'
<1>1. CASE Supervise
  BY <1>1
  DEF FilesTypeOK, Supervise, ReadWanted, Woken, Start, Healthy, NotHealthy, Crashed,
      Notified, StillWanted, Stop, Stopped, SleepOver, GoTo, Places
<1>2. CASE Fails
  BY <1>2, FaultsAssumption
  DEF FilesTypeOK, Fails, StartFails, HealthTimesOut, Dies, Fault, GoTo, Places
<1> QED BY <1>1, <1>2

\* A link operation leaves the supervisor alone, except for the count of faults.
LEMMA PointLinkTyped ==
    ASSUME FilesTypeOK, NEW to, PointLink(to) \/ UNCHANGED <<link, faults>>,
           UNCHANGED <<want, wake, posting, sup, proc>>
    PROVE  FilesTypeOK' /\ link' \in {to, link}
  BY FaultsAssumption DEF FilesTypeOK, PointLink, Fault, Places

\* Every step keeps the type invariant.
LEMMA StepTyped ==
    ASSUME StorageTypeOK, [StorageNext]_storageVars
    PROVE  StorageTypeOK'
<1> USE DEF StorageTypeOK, MaybeDrive
<1>callers. "monitor" \in Callers /\ "handler" \in Callers
  BY CallersAssumption
<1>1. ASSUME NEW c \in Callers, Judge(c) PROVE StorageTypeOK'
  BY <1>1 DEF Judge, filesVars, FilesTypeOK
<1>2. ASSUME NEW c \in Callers, UpdateLink(c) PROVE StorageTypeOK'
  <2> DEFINE k == check[c]
             to == IF k.dir = None THEN link ELSE IF k.ready THEN k.dir ELSE None
  <2>1. to \in MaybeDrive
    BY <1>2 DEF UpdateLink
  <2>2. FilesTypeOK' /\ link' \in {to, link}
    <3>1. PointLink(to) \/ UNCHANGED <<link, faults>>
      BY <1>2 DEF UpdateLink
    <3> QED BY <3>1, <1>2, PointLinkTyped DEF UpdateLink
  <2> QED BY <1>2, <2>1, <2>2 DEF UpdateLink
<1>3. ASSUME NEW c \in Callers, Tell(c) PROVE StorageTypeOK'
  <2>1. FilesTypeOK'
    BY <1>3, ToldTyped DEF Tell
  <2> QED BY <1>3, <2>1 DEF Tell, Unchecked
<1>4. ASSUME NEW c \in Callers, Post(c), UNCHANGED linkVars PROVE StorageTypeOK'
  BY <1>4, ToldTyped DEF linkVars
<1>5. ASSUME AdoptLink \/ ForgetLink PROVE StorageTypeOK'
  <2>1. FilesTypeOK' /\ link' \in MaybeDrive
    BY <1>5, PointLinkTyped DEF AdoptLink, ForgetLink
  <2> QED BY <1>5, <2>1 DEF AdoptLink, ForgetLink
<1>6. ASSUME ForgetTell PROVE StorageTypeOK'
  <2>1. FilesTypeOK'
    BY <1>6, <1>callers, ToldTyped DEF ForgetTell
  <2> QED BY <1>6, <2>1 DEF ForgetTell
<1>7. ASSUME Release \/ Rescan \/ Forget PROVE StorageTypeOK'
  BY <1>7 DEF Release, Rescan, Forget, filesVars, FilesTypeOK
<1>8. ASSUME NEW d \in Drives, Plug(d) \/ Unplug(d) \/ Adopt(d) PROVE StorageTypeOK'
  BY <1>8 DEF Plug, Unplug, Adopt, filesVars, FilesTypeOK
<1>9. ASSUME Restart PROVE StorageTypeOK'
  <2>1. FilesTypeOK'
    <3>1. want' \in BOOLEAN /\ wake' \in BOOLEAN
      BY <1>9, Zenon DEF Restart
    <3>2. faults' \in 0 .. MaxFaults
      BY <1>9, FaultsAssumption DEF Restart, Fault, FilesTypeOK
    <3> QED BY <1>9, <3>1, <3>2 DEF Restart, FilesTypeOK, Places
  <2>2. check' \in Checks
    BY <1>9, IdleTyped DEF Restart
  <2> QED BY <1>9, <2>1, <2>2 DEF Restart, Checks
<1>10. ASSUME Supervise \/ Fails, UNCHANGED linkVars PROVE StorageTypeOK'
  BY <1>10, SuperviseTyped DEF linkVars
<1>11. ASSUME UNCHANGED storageVars PROVE StorageTypeOK'
  BY <1>11 DEF storageVars, filesVars, linkVars, FilesTypeOK
<1> QED
  BY <1>callers, <1>1, <1>2, <1>3, <1>4, <1>5, <1>6, <1>7, <1>8, <1>9, <1>10, <1>11
  DEF StorageNext, Monitor, Handler

\* Storage is well typed, and no SFTPGo process is ever left without
\* supervise holding it (internal/files/manager.go: supervise).
THEOREM StorageTyped == StorageSpec => []StorageTypeOK
<1>1. StorageTypeOK /\ [StorageNext]_storageVars => StorageTypeOK'
  BY StepTyped
<1> QED BY InitTyped, <1>1, PTL DEF StorageSpec

-----------------------------------------------------------------------------
\* Steps that are not SetWanted, Post or a step of supervise do not touch
\* what NoLostWake speaks of.
LEMMA OthersKeepWake ==
    ASSUME NoLostWake, UNCHANGED <<want, wake, posting, sup>>
    PROVE  NoLostWake'
  BY DEF NoLostWake, Committed

\* Every step keeps NoLostWake.
LEMMA StepNotLost ==
    ASSUME StorageTypeOK, NoLostWake, [StorageNext]_storageVars
    PROVE  NoLostWake'
<1>1. ASSUME NEW c \in Callers, NEW w \in BOOLEAN, SetWanted(c, w) PROVE NoLostWake'
  BY <1>1 DEF NoLostWake, SetWanted, Committed
<1>2. ASSUME NEW c \in Callers, Post(c) PROVE NoLostWake'
  BY <1>2 DEF NoLostWake, Post
<1>3. ASSUME Supervise PROVE NoLostWake'
  BY <1>3
  DEF NoLostWake, Committed, Supervise, ReadWanted, Woken, Start, Healthy, NotHealthy,
      Crashed, Notified, StillWanted, Stop, Stopped, SleepOver, GoTo
<1>4. ASSUME Fails PROVE NoLostWake'
  BY <1>4 DEF NoLostWake, Committed, Fails, StartFails, HealthTimesOut, Dies, GoTo
<1>5. ASSUME NEW c \in Callers, Tell(c) PROVE NoLostWake'
  BY <1>5, <1>1 DEF Tell, StorageTypeOK
<1>6. ASSUME ForgetTell PROVE NoLostWake'
  BY <1>6, <1>1, CallersAssumption DEF ForgetTell
<1>7. ASSUME Restart PROVE NoLostWake'
  BY <1>7 DEF Restart, NoLostWake, Committed
<1>8. ASSUME NEW c \in Callers, Judge(c) \/ UpdateLink(c) PROVE NoLostWake'
  BY <1>8, OthersKeepWake DEF Judge, UpdateLink, filesVars
<1>9. ASSUME AdoptLink \/ ForgetLink \/ Release \/ Rescan \/ Forget PROVE NoLostWake'
  BY <1>9, OthersKeepWake
  DEF AdoptLink, ForgetLink, Release, Rescan, Forget, filesVars
<1>10. ASSUME NEW d \in Drives, Plug(d) \/ Unplug(d) \/ Adopt(d) PROVE NoLostWake'
  BY <1>10, OthersKeepWake DEF Plug, Unplug, Adopt, filesVars
<1>11. ASSUME UNCHANGED storageVars PROVE NoLostWake'
  BY <1>11, OthersKeepWake DEF storageVars, filesVars
<1>callers. "monitor" \in Callers /\ "handler" \in Callers
  BY CallersAssumption
<1> QED
  BY <1>callers, <1>2, <1>3, <1>4, <1>5, <1>6, <1>7, <1>8, <1>9, <1>10, <1>11
  DEF StorageNext, Monitor, Handler

\* The supervisor never sleeps, starts or serves on an answer that no longer
\* holds without a token that will tell it (SetWanted and supervise).
THEOREM WakeNotLost == StorageSpec => []NoLostWake
<1>1. StorageInit => NoLostWake
  BY DEF StorageInit, FilesInit, NoLostWake, Committed
<1>2. StorageTypeOK /\ NoLostWake /\ [StorageNext]_storageVars => NoLostWake'
  BY StepNotLost
<1> QED BY StorageTyped, <1>1, <1>2, PTL DEF StorageSpec

-----------------------------------------------------------------------------
HandlerChecks == check["handler"].at # "idle" => hand = "linked"

\* Every step keeps HandlerChecks.
LEMMA StepHandlerChecks ==
    ASSUME StorageTypeOK, HandlerChecks, [StorageNext]_storageVars
    PROVE  HandlerChecks'
<1> USE DEF HandlerChecks
<1>callers. "monitor" \in Callers /\ "handler" \in Callers
  BY CallersAssumption
<1>1. ASSUME NEW c \in Callers, Judge(c) \/ UpdateLink(c) \/ Tell(c) PROVE HandlerChecks'
  BY <1>1, <1>callers DEF Judge, UpdateLink, Tell, StorageTypeOK, Unchecked
<1>2. ASSUME AdoptLink \/ ForgetLink \/ ForgetTell \/ Release \/ Rescan \/ Forget
      PROVE HandlerChecks'
  BY <1>2 DEF AdoptLink, ForgetLink, ForgetTell, Release, Rescan, Forget
<1>3. ASSUME NEW d \in Drives, Plug(d) \/ Unplug(d) \/ Adopt(d) PROVE HandlerChecks'
  BY <1>3 DEF Plug, Unplug, Adopt
<1>4. ASSUME Restart PROVE HandlerChecks'
  BY <1>4, <1>callers DEF Restart, Unchecked
<1>5. ASSUME UNCHANGED linkVars PROVE HandlerChecks'
  BY <1>5 DEF linkVars
<1> QED
  BY <1>callers, <1>1, <1>2, <1>3, <1>4, <1>5 DEF StorageNext, Monitor, Handler, storageVars

\* Every step keeps LinkMeansConfigured.
LEMMA StepConfigured ==
    ASSUME StorageTypeOK, HandlerChecks, LinkMeansConfigured, [MCNext]_<<storageVars, astray>>
    PROVE  LinkMeansConfigured'
<1> SUFFICES ASSUME link' \notin {None, config'}, hand' \notin {"adopted", "forgot"}
             PROVE  astray'
  BY DEF LinkMeansConfigured
<1>1. CASE UNCHANGED <<storageVars, astray>>
  BY <1>1 DEF LinkMeansConfigured, storageVars, linkVars
<1>2. ASSUME MCNext, UNCHANGED <<link, config, hand>> PROVE astray'
  BY <1>2 DEF MCNext, LinkMeansConfigured
<1>3. ASSUME MCNext, NEW c \in Callers, UpdateLink(c) PROVE astray'
  <2>1. CASE check[c].dir # config
    BY <1>3, <2>1 DEF MCNext, LedAstray, UpdateLink
  <2>2. CASE check[c].dir = config
    <3>1. link' \in {link, config, None}
      BY <1>3, <2>2 DEF UpdateLink, PointLink
    <3>2. UNCHANGED <<config, hand>>
      BY <1>3 DEF UpdateLink
    <3>3. link' = link
      BY <3>1, <3>2
    <3> QED BY <1>2, <1>3, <3>2, <3>3
  <2> QED BY <2>1, <2>2
<1>4. ASSUME MCNext, AdoptLink \/ ForgetLink PROVE astray'
  <2>1. Fault
    BY <1>4 DEF AdoptLink, ForgetLink, PointLink
  <2>2. faults' # faults
    BY <2>1, FaultsAssumption DEF Fault, StorageTypeOK, FilesTypeOK
  <2> QED BY <1>4, <2>2 DEF MCNext, LedAstray
<1>5. ASSUME MCNext, Restart PROVE astray'
  <2>1. CASE hand \in {"adopted", "forgot"}
    BY <1>5, <2>1 DEF MCNext, LedAstray
  <2>2. CASE hand \notin {"adopted", "forgot"}
    BY <1>5, <2>2 DEF MCNext, LinkMeansConfigured, Restart
  <2> QED BY <2>1, <2>2
<1>6. ASSUME MCNext, NEW c \in Callers, Tell(c) PROVE astray'
  <2>1. CASE c = "handler"
    BY <1>6, <2>1 DEF MCNext, LinkMeansConfigured, Tell, HandlerChecks
  <2>2. CASE c # "handler"
    BY <1>6, <2>2, <1>2 DEF Tell
  <2> QED BY <2>1, <2>2
<1>14. ASSUME MCNext, ForgetTell \/ Release PROVE astray'
  BY <1>14 DEF MCNext, LinkMeansConfigured, ForgetTell, Release
<1>7. ASSUME NEW d \in Drives, Adopt(d) PROVE FALSE
  BY <1>7 DEF Adopt
<1>8. ASSUME Forget PROVE FALSE
  BY <1>8 DEF Forget
<1>9. ASSUME MCNext, NEW c \in Callers, Judge(c) PROVE astray'
  BY <1>9, <1>2 DEF Judge
<1>10. ASSUME MCNext, UNCHANGED linkVars PROVE astray'
  BY <1>10, <1>2 DEF linkVars
<1>11. ASSUME MCNext, Rescan PROVE astray'
  BY <1>11, <1>2 DEF Rescan
<1>12. ASSUME MCNext, NEW d \in Drives, Plug(d) \/ Unplug(d) PROVE astray'
  BY <1>12, <1>2 DEF Plug, Unplug
<1>callers. "monitor" \in Callers /\ "handler" \in Callers
  BY CallersAssumption
<1>13. CASE MCNext
  <2>1. CASE Monitor \/ Handler
    BY <1>13, <2>1, <1>callers, <1>3, <1>4, <1>6, <1>14, <1>9, <1>10 DEF Monitor, Handler
  <2>2. CASE Rescan \/ Restart \/ Forget \/ (\E d \in Drives : Plug(d) \/ Unplug(d) \/ Adopt(d))
    BY <1>13, <2>2, <1>5, <1>7, <1>8, <1>11, <1>12
  <2>3. CASE (Supervise \/ Fails) /\ UNCHANGED linkVars
    BY <1>13, <2>3, <1>10
  <2> QED BY <1>13, <2>1, <2>2, <2>3 DEF MCNext, StorageNext
<1> QED BY <1>1, <1>13

\* The link is at the configured drive or nowhere, but for the window between
\* configuration and link, and after one of the events LedAstray names
\* (handleAdopt, handleForget and checkStorage).
THEOREM LinkConfigured == MCSpec => []LinkMeansConfigured
<1>1. MCInit => StorageTypeOK /\ HandlerChecks /\ LinkMeansConfigured
  <2>1. StorageInit => LinkMeansConfigured
    BY DEF StorageInit, LinkMeansConfigured
  <2>2. StorageInit => HandlerChecks
    BY CallersAssumption DEF StorageInit, HandlerChecks, Unchecked
  <2> QED BY <2>1, <2>2, InitTyped DEF MCInit
<1>2. StorageTypeOK /\ HandlerChecks /\ LinkMeansConfigured /\ [MCNext]_<<storageVars, astray>>
        => StorageTypeOK' /\ HandlerChecks' /\ LinkMeansConfigured'
  <2>1. [MCNext]_<<storageVars, astray>> => [StorageNext]_storageVars
    BY DEF MCNext
  <2> QED BY <2>1, StepTyped, StepHandlerChecks, StepConfigured
<1> QED BY <1>1, <1>2, PTL DEF MCSpec

-----------------------------------------------------------------------------
(***************************************************************************)
(* Proofs about Drives for any machines, places to mount at, contents and  *)
(* number of mounts and unmounts: a system drive is never offered, the     *)
(* drive that is adopted is the one that was asked for, and what Adopt     *)
(* accepts inspectSource finds ready.                                      *)
(*                                                                         *)
(* All rest on OnePlace, that a place has one volume on it and that       *)
(* nobody moves the system's.  What an inventory said of a volume is worth *)
(* something after drives have changed for that reason alone (Honest): a   *)
(* place where a data volume was is never one where the system's is.       *)
(* Ready adds what is still true of the drive and the folder while nothing *)
(* changes between two steps of the request.                               *)
(***************************************************************************)

(* Where a volume is mounted. *)
On(n) == Seqs!ToSet(mounts[n])

OnePlace ==
  /\ \A x, y \in Names : x # y => On(x) \cap On(y) \subseteq {Swap}
  /\ \A x \in Names : Swap \in On(x) => mounts[x] = <<Swap>>
  /\ \A x \in Names \ Data : mounts[x] = machine.mounts[x]

(* Of the volumes of the system, only v can be at t. *)
Clear(t, v) == \A x \in Names \ Data : t \in Seqs!ToSet(machine.mounts[x]) \ {Swap} => x = v

Honest(inv) == \A e \in Entries(inv) : \A t \in Seqs!ToSet(e.vol.mounts) : Clear(t, e.vol.name)

(* What the cache and the request know, as long as nothing changed. *)
Cached == Honest(cache.inv) /\ (cache.recent /\ ~cache.stale => cache.inv \in Scans)

Adopting ==
  /\ adopt.pc # "idle" => adopt.vol \in Names
  /\ adopt.pc \in {"table", "check"} =>
       /\ Honest(adopt.inv)
       /\ adopt.moved = "no" => adopt.inv \in Scans
  /\ adopt.pc \notin {"idle", "table"} /\ adopt.moved # "after" => adopt.table = Table
  /\ adopt.pc = "open" =>
       /\ Clear(adopt.mount, adopt.vol)
       /\ adopt.mount \in adopt.table
       /\ adopt.moved = "no" => adopt.mount \in On(adopt.vol)
  /\ adopt.pc \notin {"idle", "table", "check", "open"} =>
       /\ adopt.moved # "after" => adopt.root \in Data \cup {adopt.vol}
       /\ adopt.moved = "no" => adopt.root = adopt.vol

IInv == TypeOK /\ OnePlace /\ Cached /\ Adopting /\ ~stray

-------------------------------------------------------------------------------
(* Paths and mount points. *)

LEMMA NatMin ==
  ASSUME NEW T \in SUBSET Nat, T # {}
  PROVE  \E x \in T : \A y \in T : x <= y
<1> DEFINE R == OpToRel(<, Nat)
<1>1. IsWellFoundedOn(R, Nat)  BY NatLessThanWellFounded
<1>2. \A x, y \in Nat : <<y, x>> \in R <=> y < x  BY DEF OpToRel
<1> HIDE DEF R
<1>3. PICK x \in T : \A y \in T : ~(<<y, x>> \in R)  BY <1>1, WFMin
<1>4. \A y \in T : x \in Nat /\ y \in Nat /\ ~(y < x)  BY <1>2, <1>3
<1>5. \A y \in T : x <= y  BY <1>4
<1>6. QED  BY <1>5

(* A path is in its longest mount point, for any mount table in which it   *)
(* is in one at all.                                                       *)
LEMMA ContainingIs ==
  ASSUME NEW table \in SUBSET Path, NEW S, NEW path \in Seq(S), NEW k \in table, Seqs!IsPrefix(k, path)
  PROVE  /\ Containing(table, path) \in table
         /\ Seqs!IsPrefix(Containing(table, path), path)
         /\ Len(k) <= Len(Containing(table, path))
<1> DEFINE around == {m \in table : Seqs!IsPrefix(m, path)}
           T == {Len(path) - Len(m) : m \in around}
<1>1. \A m \in around : Len(m) \in Nat /\ Len(path) \in Nat /\ Len(m) <= Len(path)
  BY DEF Path, Seqs!IsPrefix
<1>2. T \in SUBSET Nat /\ T # {}  BY <1>1
<1> HIDE DEF T
<1>3. PICK x \in T : \A y \in T : x <= y  BY <1>2, NatMin
<1>4. PICK m \in around : x = Len(path) - Len(m)  BY <1>3 DEF T
<1>5. \A n \in around : Len(n) <= Len(m)
  <2>1. \A n \in around : Len(path) - Len(m) <= Len(path) - Len(n)  BY <1>3, <1>4 DEF T
  <2>2. QED  BY <1>1, <2>1
<1>6. Containing(table, path) = CHOOSE n \in around : \A l \in around : Len(l) <= Len(n)
  BY DEF Containing
<1>7. /\ Containing(table, path) \in around
      /\ \A l \in around : Len(l) <= Len(Containing(table, path))
  BY <1>5, <1>6
<1>8. QED  BY <1>7

LEMMA ContainingSelf ==
  ASSUME NEW table \in SUBSET Path, NEW m \in table
  PROVE  Containing(table, m) = m
<1> DEFINE c == Containing(table, m)
<1>1. Seqs!IsPrefix(m, m)  BY DEF Path, Seqs!IsPrefix
<1>2. c \in table /\ Seqs!IsPrefix(c, m) /\ Len(m) <= Len(c)  BY <1>1, ContainingIs DEF Path
<1> HIDE DEF c
<1>3. Len(c) = Len(m)  BY <1>2 DEF Seqs!IsPrefix, Path
<1>4. SubSeq(c, 1, Len(c)) = c /\ SubSeq(m, 1, Len(m)) = m  BY <1>2 DEF Path
<1>5. c = m  BY <1>2, <1>3, <1>4 DEF Seqs!IsPrefix
<1>6. QED  BY <1>5 DEF c

LEMMA SetOf ==
  ASSUME NEW S, NEW s \in Seq(S)
  PROVE  /\ Seqs!ToSet(s) \subseteq S
         /\ s # << >> => s[1] \in Seqs!ToSet(s)
         /\ \A a : Seqs!ToSet(<<a>>) = {a}
         /\ Seqs!ToSet(<< >>) = {}
BY DEF Seqs!ToSet

LEMMA NoneIn == Seqs!ToSet(<< >>) = {}
BY DEF Seqs!ToSet

-------------------------------------------------------------------------------
(* Machines. *)

LEMMA MachineFacts ==
  ASSUME machine \in Machines
  PROVE  /\ IsFiniteSet(machine.drives) /\ machine.drives \subseteq Drive
         /\ \A d, e \in machine.drives : d.top = e.top => d = e
         /\ Nodes \subseteq Node /\ Names \subseteq STRING
         /\ Data \subseteq Names
         /\ machine.mounts \in [Names -> Seq(Path)]
         /\ \A x, y \in Names : x # y =>
              Seqs!ToSet(machine.mounts[x]) \cap Seqs!ToSet(machine.mounts[y]) \subseteq {Swap}
         /\ \A x \in Names : Swap \in Seqs!ToSet(machine.mounts[x]) => machine.mounts[x] = <<Swap>>
         /\ \E x \in Names \ Data : << >> \in Seqs!ToSet(machine.mounts[x])
         /\ machine.lsblk \in {"all", "one", "none"} /\ machine.udev \in BOOLEAN
<1>1. IsMachine(machine)  BY DrivesAssumption
<1>2. Nodes \subseteq Node /\ Names \subseteq STRING
  BY <1>1 DEF IsMachine, Nodes, Names, Drive, Node
<1>3. QED  BY <1>1, <1>2 DEF IsMachine, Nodes, Names, Data

LEMMA TableFacts ==
  ASSUME TypeOK, OnePlace
  PROVE  /\ Table \in SUBSET Path /\ << >> \in Table
         /\ \A t \in Table : \E n \in Names : t \in On(n)
         /\ \A n \in Names : On(n) \subseteq Path /\ On(n) \subseteq Table \cup {Swap}
<1>1. \A n \in Names : On(n) \subseteq Path  BY SetOf DEF TypeOK, On
<1>2. << >> \in Table
  <2>1. PICK x \in Names \ Data : << >> \in Seqs!ToSet(machine.mounts[x])  BY MachineFacts DEF TypeOK
  <2>2. << >> \in On(x)  BY <2>1 DEF OnePlace, On
  <2>3. << >> # Swap  BY DEF Swap
  <2>4. QED  BY <2>2, <2>3 DEF Table, On
<1>3. QED  BY <1>1, <1>2 DEF Table, On

(* There is one volume that holds a path. *)
LEMMA AtIs ==
  ASSUME TypeOK, OnePlace, NEW S, NEW path \in Seq(S)
  PROVE  /\ Containing(Table, path) \in Table
         /\ At(path) \in Names /\ Containing(Table, path) \in On(At(path))
         /\ \A n \in Names : Containing(Table, path) \in On(n) => n = At(path)
<1>1. Seqs!IsPrefix(<< >>, path)  BY DEF Seqs!IsPrefix
<1>2. Containing(Table, path) \in Table  BY <1>1, TableFacts, ContainingIs
<1>3. \E n \in Names : Containing(Table, path) \in On(n)  BY <1>2, TableFacts
<1>4. At(path) \in Names /\ Containing(Table, path) \in On(At(path))  BY <1>3 DEF At, On
<1>5. Containing(Table, path) # Swap  BY <1>2 DEF Table
<1>6. QED  BY <1>2, <1>4, <1>5 DEF OnePlace

-------------------------------------------------------------------------------
(* Inventories. *)

(* A drive as lsblk shows it now. *)
Seen(d) == [top |-> d.top, nodes |-> {Shown(n) : n \in d.nodes}]

LEMMA ShownFacts ==
  ASSUME TypeOK, NEW n \in Nodes
  PROVE  /\ Shown(n).name = n.name /\ Shown(n).uuid = n.uuid /\ Shown(n).mounts \in Seq(Path)
         /\ Seqs!ToSet(Shown(n).mounts) \subseteq On(n.name)
         /\ machine.lsblk = "all" => Shown(n).mounts = mounts[n.name]
         /\ machine.lsblk = "one" /\ mounts[n.name] # << >> => Shown(n).mounts = <<mounts[n.name][1]>>
         /\ machine.lsblk = "one" /\ mounts[n.name] = << >> => Shown(n).mounts = << >>
         /\ machine.lsblk = "none" => Shown(n).mounts = << >>
<1>1. n \in Node /\ n.name \in Names /\ mounts[n.name] \in Seq(Path)
      /\ machine.lsblk \in {"all", "one", "none"}
  BY MachineFacts DEF TypeOK, Names
<1> DEFINE m == CASE machine.lsblk = "all" -> mounts[n.name]
                  [] machine.lsblk = "one" /\ mounts[n.name] # << >> -> <<mounts[n.name][1]>>
                  [] OTHER -> << >>
           fs == IF machine.udev THEN n.fs ELSE ""
<1>2. /\ machine.lsblk = "all" => m = mounts[n.name]
      /\ machine.lsblk = "one" /\ mounts[n.name] # << >> => m = <<mounts[n.name][1]>>
      /\ machine.lsblk = "one" /\ mounts[n.name] = << >> => m = << >>
      /\ machine.lsblk = "none" => m = << >>
  OBVIOUS
<1>3. Shown(n) = [n EXCEPT !.mounts = m, !.fs = fs]  BY DEF Shown
<1> HIDE DEF m, fs
<1>4. m \in Seq(Path) /\ Seqs!ToSet(m) \subseteq On(n.name)
  <2>1. CASE mounts[n.name] = << >>
    BY <1>1, <1>2, <2>1 DEF On
  <2>2. CASE mounts[n.name] # << >>
    <3>1. mounts[n.name][1] \in On(n.name) /\ On(n.name) \subseteq Path
      BY <1>1, <2>2, SetOf DEF On
    <3>2. Seqs!ToSet(<<mounts[n.name][1]>>) = {mounts[n.name][1]}  BY DEF Seqs!ToSet
    <3>3. Seqs!ToSet(<< >>) = {}  BY DEF Seqs!ToSet
    <3>4. <<mounts[n.name][1]>> \in Seq(Path) /\ << >> \in Seq(Path)  BY <3>1
    <3>5. m \in {mounts[n.name], <<mounts[n.name][1]>>, << >>}  BY <1>1, <1>2, <2>2
    <3>6. CASE m = mounts[n.name]  BY <1>1, <3>6 DEF On
    <3>7. CASE m = <<mounts[n.name][1]>>  BY <3>1, <3>2, <3>4, <3>7
    <3>8. CASE m = << >>  BY <3>3, <3>4, <3>8
    <3>9. QED  BY <3>5, <3>6, <3>7, <3>8
  <2>3. QED  BY <2>1, <2>2
<1>5. Shown(n).name = n.name /\ Shown(n).uuid = n.uuid /\ Shown(n).mounts = m
  BY <1>1, <1>3 DEF Node
<1>6. QED  BY <1>2, <1>4, <1>5

LEMMA StatusType ==
  ASSUME NEW n, NEW d, NEW f
  PROVE  /\ VolumeStatus(n, d, f) \in {"system", "swap", "container", "unmounted", "mounted", "unsupported"}
         /\ DiskStatus(d, f) \in {"system", "available", "read-only", "unmounted", "unsupported"}
<1>1. VolumeStatus(n, d, f) \in {"system", "swap", "container", "unmounted", "mounted", "unsupported"}
  <2> DEFINE fs == FSType(n, f)
             free == n.mounts = << >>
             inner == ~n.leaf
  <2>1. VolumeStatus(n, d, f) = IF System(d, f) THEN "system"
          ELSE CASE fs = "swap" -> "swap"
                 [] fs \in containerFS \cup {""} /\ inner -> "container"
                 [] fs \in fsSupport /\ free -> "unmounted"
                 [] fs \in fsSupport /\ ~free -> "mounted"
                 [] OTHER -> "unsupported"
    BY DEF VolumeStatus
  <2> HIDE DEF fs, free, inner
  <2>2. QED  BY <2>1
<1>2. DiskStatus(d, f) \in {"system", "available", "read-only", "unmounted", "unsupported"}
  BY DEF DiskStatus
<1>3. QED  BY <1>1, <1>2

(* What an inventory says of a volume, however findmnt was read: it is one *)
(* of a drive's, with the places that lsblk shows.                         *)
LEMMA EntryIs ==
  ASSUME TypeOK, NEW f, NEW e \in Entries(Build(Lsblk, f))
  PROVE  \E d \in machine.drives : \E n \in d.nodes :
           /\ e.disk.name = d.top /\ (e.disk.system <=> System(Seen(d), f))
           /\ e.vol.name = n.name /\ e.vol.uuid = n.uuid /\ e.vol.mounts = Shown(n).mounts
           /\ e.vol.adoptable => VolumeAdoptable(Shown(n), Seen(d), f)
           /\ e.vol.adoptable => Build(Lsblk, f).detected
<1> DEFINE inv == Build(Lsblk, f)
           drives == {d \in Lsblk : ~skipTopLevel(d)}
           detected == Detected(drives, f)
<1>1. inv = [detected |-> detected,
             disks |-> {[name |-> d.top, system |-> System(d, f), status |-> DiskStatus(d, f),
                         volumes |-> Volumes(d, f, detected)] : d \in drives}]
  BY DEF Build
<1> HIDE DEF inv, detected
<1>2. e.disk \in inv.disks /\ e.vol \in e.disk.volumes  BY DEF Entries, inv
<1>3. PICK s \in drives : e.disk = [name |-> s.top, system |-> System(s, f), status |-> DiskStatus(s, f),
                                    volumes |-> Volumes(s, f, detected)]
  BY <1>1, <1>2
<1>4. PICK d \in machine.drives : s = Seen(d)  BY DEF Lsblk, Seen
<1> HIDE DEF drives
<1>5. e.disk.name = d.top /\ (e.disk.system <=> System(s, f)) /\ e.disk.volumes = Volumes(s, f, detected)
  <2>1. e.disk.name = s.top /\ s.top = d.top  BY <1>3, <1>4 DEF Seen
  <2>2. QED  BY <1>3, <2>1
<1> DEFINE offers(m) == detected /\ VolumeAdoptable(m, s, f)
<1>6. PICK m \in s.nodes :
        e.vol = [name |-> m.name, uuid |-> m.uuid, mounts |-> m.mounts, status |-> VolumeStatus(m, s, f),
                 adoptable |-> offers(m)]
  BY <1>2, <1>5 DEF Volumes
<1> HIDE DEF offers
<1>7. PICK n \in d.nodes : m = Shown(n)  BY <1>4 DEF Seen
<1>8. n \in Nodes  BY DEF Nodes
<1>9. e.vol.name = n.name /\ e.vol.uuid = n.uuid /\ e.vol.mounts = Shown(n).mounts
  BY <1>6, <1>7, <1>8, ShownFacts
<1>10. e.vol.adoptable => detected /\ VolumeAdoptable(Shown(n), s, f)
  <2>1. e.vol.adoptable = offers(m)  BY <1>6
  <2>2. QED  BY <1>7, <2>1 DEF offers
<1>11. detected = inv.detected  BY <1>1
<1>12. QED  BY <1>4, <1>5, <1>9, <1>10, <1>11 DEF inv

LEMMA ScanIs ==
  ASSUME NEW inv \in Scans
  PROVE  \E f \in {Findmnt, NoFindmnt} : inv = Build(Lsblk, f)
BY DEF Scans

LEMMA BuildType ==
  ASSUME TypeOK, NEW f
  PROVE  Build(Lsblk, f) \in Inventory
<1> DEFINE inv == Build(Lsblk, f)
           drives == {d \in Lsblk : ~skipTopLevel(d)}
           detected == Detected(drives, f)
           disk(d) == [name |-> d.top, system |-> System(d, f), status |-> DiskStatus(d, f),
                       volumes |-> Volumes(d, f, detected)]
<1>1. inv = [detected |-> detected, disks |-> {disk(d) : d \in drives}]  BY DEF Build
<1>2. detected \in BOOLEAN  BY DEF Detected
<1> HIDE DEF detected
<1>3. ASSUME NEW s \in drives PROVE disk(s) \in Disk
  <2>1. PICK d \in machine.drives : s = Seen(d)  BY DEF Lsblk, Seen
  <2>2. s.top = d.top /\ d.top \in STRING /\ s.nodes = {Shown(n) : n \in d.nodes} /\ d.nodes \subseteq Nodes
    <3>1. s.top = d.top /\ s.nodes = {Shown(n) : n \in d.nodes}  BY <2>1 DEF Seen
    <3>2. d \in Drive  BY MachineFacts DEF TypeOK
    <3>3. QED  BY <3>1, <3>2 DEF Drive, Nodes
  <2>3. \A m \in s.nodes : m.name \in STRING /\ m.uuid \in STRING /\ m.mounts \in Seq(Path)
    <3> SUFFICES ASSUME NEW n \in d.nodes
                 PROVE  Shown(n).name \in STRING /\ Shown(n).uuid \in STRING /\ Shown(n).mounts \in Seq(Path)
      BY <2>2
    <3>1. n \in Nodes /\ n \in Node  BY <2>2, MachineFacts DEF TypeOK
    <3>2. n.name \in STRING /\ n.uuid \in STRING  BY <3>1 DEF Node
    <3>3. QED  BY <3>1, <3>2, ShownFacts
  <2> DEFINE offers(m) == detected /\ VolumeAdoptable(m, s, f)
             volume(m) == [name |-> m.name, uuid |-> m.uuid, mounts |-> m.mounts,
                           status |-> VolumeStatus(m, s, f), adoptable |-> offers(m)]
  <2>4. \A m : offers(m) \in BOOLEAN  OBVIOUS
  <2>5. Volumes(s, f, detected) = {volume(m) : m \in {m \in s.nodes : IsVolume(m)}}
    BY DEF Volumes
  <2> HIDE DEF offers
  <2>6. \A m \in s.nodes : volume(m) \in Volume  BY <2>3, <2>4, StatusType DEF Volume
  <2> HIDE DEF volume
  <2>7. Volumes(s, f, detected) \in SUBSET Volume  BY <2>5, <2>6
  <2> DEFINE sys == System(s, f)
  <2>8. sys \in BOOLEAN  BY DEF System
  <2> HIDE DEF sys
  <2>9. [name |-> s.top, system |-> sys, status |-> DiskStatus(s, f), volumes |-> Volumes(s, f, detected)] \in Disk
    BY <2>2, <2>7, <2>8, StatusType DEF Disk
  <2>10. QED  BY <2>9 DEF sys
<1> HIDE DEF disk
<1>4. {disk(d) : d \in drives} \in SUBSET Disk  BY <1>3
<1>5. QED  BY <1>1, <1>2, <1>4 DEF Inventory, inv

(* A scan tells of every volume where it is, and so of no volume of the    *)
(* system that it is where another one is.                                 *)
LEMMA ScanHonest ==
  ASSUME TypeOK, OnePlace, NEW inv \in Scans
  PROVE  inv \in Inventory /\ Honest(inv)
<1>1. PICK f : inv = Build(Lsblk, f)  BY ScanIs
<1>2. ASSUME NEW e \in Entries(inv), NEW t \in Seqs!ToSet(e.vol.mounts), NEW x \in Names \ Data,
             t \in Seqs!ToSet(machine.mounts[x]) \ {Swap}
      PROVE  x = e.vol.name
  <2>1. PICK d \in machine.drives : \E n \in d.nodes : e.vol.name = n.name /\ e.vol.mounts = Shown(n).mounts
    BY <1>1, EntryIs
  <2>0. PICK n \in d.nodes : e.vol.name = n.name /\ e.vol.mounts = Shown(n).mounts  BY <2>1
  <2>2. n \in Nodes /\ n.name \in Names  BY DEF Nodes, Names
  <2>3. t \in On(n.name)  BY <1>2, <2>0, <2>2, ShownFacts
  <2>4. t \in On(x)  BY <1>2 DEF OnePlace, On
  <2>5. QED  BY <1>2, <2>0, <2>2, <2>3, <2>4 DEF OnePlace
<1>3. QED  BY <1>1, <1>2, BuildType DEF Honest, Clear

LEMMA NothingHonest == Honest(NoCache.inv)
BY DEF Honest, Entries, NoCache

(* What is read now, or was read and kept. *)
LEMMA InventoriesFacts ==
  ASSUME TypeOK, OnePlace, Cached, NEW c \in Inventories
  PROVE  /\ c \in [inv: Inventory, recent: BOOLEAN, stale: BOOLEAN]
         /\ Honest(c.inv)
         /\ c.recent /\ (~c.stale => c.inv \in Scans)
<1>1. CASE cache.recent
  BY <1>1 DEF Inventories, Cached, TypeOK
<1>2. CASE ~cache.recent
  <2>1. PICK i \in Scans : c = [inv |-> i, recent |-> TRUE, stale |-> FALSE]  BY <1>2 DEF Inventories
  <2>2. i \in Inventory /\ Honest(i)  BY <2>1, ScanHonest
  <2>3. c.inv = i /\ c.recent = TRUE /\ c.stale = FALSE  BY <2>1
  <2>4. QED  BY <2>1, <2>2, <2>3
<1>3. QED  BY <1>1, <1>2

(* Nobody mounts or unmounts anything. *)
LEMMA Still ==
  ASSUME UNCHANGED <<machine, mounts>>
  PROVE  /\ Nodes' = Nodes /\ Names' = Names /\ Data' = Data /\ Table' = Table
         /\ \A n : On(n)' = On(n)
         /\ \A t, v : Clear(t, v)' <=> Clear(t, v)
         /\ \A inv : Honest(inv)' <=> Honest(inv)
         /\ OnePlace' <=> OnePlace
         /\ Scans' = Scans
<1>1. Nodes' = Nodes  BY DEF Nodes
<1>2. Names' = Names  BY <1>1 DEF Names
<1>3. Data' = Data  BY DEF Data
<1>4. Table' = Table  BY <1>2 DEF Table
<1>5. \A n : On(n)' = On(n)  BY DEF On
<1>6. \A t, v : Clear(t, v)' <=> Clear(t, v)  BY <1>2, <1>3 DEF Clear
<1>7. \A inv : Honest(inv)' <=> Honest(inv)  BY <1>6 DEF Honest
<1>8. OnePlace' <=> OnePlace  BY <1>2, <1>3, <1>5 DEF OnePlace
<1>9. \A n : Shown(n)' = Shown(n)  BY DEF Shown
<1>10. Lsblk' = Lsblk  BY <1>9 DEF Lsblk
<1>11. Findmnt' = Findmnt  BY <1>1, <1>4 DEF Findmnt
<1>12. Scans' = Scans  BY <1>10, <1>11 DEF Scans, NoFindmnt
<1>13. QED  BY <1>1, <1>2, <1>3, <1>4, <1>5, <1>6, <1>7, <1>8, <1>12

-------------------------------------------------------------------------------
(* The invariant. *)

LEMMA IdleType == Idle \in Request
<1>1. "idle" \in AdoptPCs /\ << >> \in Folders /\ << >> \in Path  BY DEF AdoptPCs, Folders, Path
<1>2. NoCache.inv \in Inventory  BY DEF NoCache, Inventory
<1>3. QED  BY <1>1, <1>2 DEF Idle, Request

LEMMA InitIInv == Init => IInv
<1> SUFFICES ASSUME Init PROVE IInv  OBVIOUS
<1>1. machine \in Machines  BY DEF Init
<1>2. files \in [Data -> [Rels -> Kinds]]
  BY DrivesAssumption DEF Init, Data
<1>3. NoCache \in [inv: Inventory, recent: BOOLEAN, stale: BOOLEAN]  BY DEF NoCache, Inventory
<1>4. Idle \in Request  BY IdleType
<1>5. TypeOK
  <2>1. mounts \in [Names -> Seq(Path)]  BY <1>1, MachineFacts DEF Init
  <2>2. changes \in 0 .. MaxChanges  BY DrivesAssumption DEF Init
  <2>3. stray \in BOOLEAN /\ cache = NoCache /\ adopt = Idle  BY DEF Init
  <2>4. QED  BY <1>1, <1>2, <1>3, <1>4, <2>1, <2>2, <2>3 DEF TypeOK
<1>6. OnePlace  BY <1>1, MachineFacts DEF Init, OnePlace, On
<1>7. Cached
  <2>1. cache.inv = NoCache.inv /\ cache.recent = FALSE  BY DEF Init, NoCache
  <2>2. QED  BY <2>1, NothingHonest DEF Cached
<1>8. Adopting  BY DEF Init, Idle, Adopting
<1>9. QED  BY <1>5, <1>6, <1>7, <1>8 DEF Init, IInv

(* A data volume is mounted where nothing is, or unmounted. *)
LEMMA ChangedStep ==
  ASSUME IInv, NEW v \in Data, NEW to \in {<< >>} \cup {<<spot>> : spot \in Spots \ Table}, Changed(v, to)
  PROVE  IInv'
<1> USE DEF IInv
<1> DEFINE m == CASE adopt.pc = "idle" -> "no" [] adopt.pc = "table" -> "before" [] OTHER -> "after"
<1>1. adopt' = [adopt EXCEPT !.moved = m]  BY DEF Changed
<1>2. m \in {"no", "before", "after"} /\ (adopt.pc = "table" => m = "before")
      /\ (adopt.pc \notin {"idle", "table"} => m = "after")
  OBVIOUS
<1> HIDE DEF m
<1>3. mounts' = [mounts EXCEPT ![v] = to] /\ cache' = [cache EXCEPT !.stale = TRUE]
      /\ changes < MaxChanges /\ changes' = changes + 1
      /\ machine' = machine /\ files' = files /\ stray' = stray
  BY DEF Changed
<1>4. Nodes' = Nodes /\ Names' = Names /\ Data' = Data  BY <1>3 DEF Nodes, Names, Data
<1>5. v \in Names /\ Data \subseteq Names  BY MachineFacts DEF TypeOK
<1>6. to \in Seq(Path)
  <2>1. Spots \subseteq Path  BY DrivesAssumption
  <2>2. << >> \in Seq(Path)  OBVIOUS
  <2>3. \A spot \in Spots : <<spot>> \in Seq(Path)  BY <2>1
  <2>4. QED  BY <2>2, <2>3
<1>7. TypeOK'
  <2>1. mounts' \in [Names' -> Seq(Path)]  BY <1>3, <1>4, <1>5, <1>6 DEF TypeOK
  <2>2. changes' \in 0 .. MaxChanges
    <3>1. changes \in 0 .. MaxChanges /\ MaxChanges \in Nat  BY DrivesAssumption DEF TypeOK
    <3>2. QED  BY <1>3, <3>1
  <2>3. adopt' \in Request
    BY <1>1, <1>2 DEF TypeOK, Request
  <2>4. cache' \in [inv: Inventory, recent: BOOLEAN, stale: BOOLEAN]  BY <1>3 DEF TypeOK
  <2>5. machine' \in Machines /\ files' \in [Data' -> [Rels -> Kinds]] /\ stray' \in BOOLEAN
    BY <1>3, <1>4 DEF TypeOK
  <2>6. QED  BY <1>4, <2>1, <2>2, <2>3, <2>4, <2>5 DEF TypeOK, Request
<1>8. OnePlace'
  <2>1. \A x \in Names : x # v => On(x)' = On(x) /\ mounts'[x] = mounts[x]
    BY <1>3 DEF On, TypeOK
  <2>2. mounts'[v] = to /\ On(v)' = Seqs!ToSet(to)  BY <1>3, <1>5 DEF On, TypeOK
  <2>3. Seqs!ToSet(to) \cap (Table \cup {Swap}) = {}
    <3>1. CASE to = << >>  BY <3>1, NoneIn
    <3>2. ASSUME NEW spot \in Spots \ Table, to = <<spot>> PROVE Seqs!ToSet(to) \cap (Table \cup {Swap}) = {}
      <4>1. spot # Swap  BY DrivesAssumption
      <4>2. Seqs!ToSet(to) = {spot}  BY <3>2 DEF Seqs!ToSet
      <4>3. QED  BY <4>1, <4>2
    <3>3. QED  BY <3>1, <3>2
  <2>4. \A x \in Names : On(x) \subseteq Table \cup {Swap}  BY TableFacts
  <2>5. \A x, y \in Names : x # y => On(x)' \cap On(y)' \subseteq {Swap}
    BY <2>1, <2>2, <2>3, <2>4 DEF OnePlace
  <2>6. \A x \in Names : Swap \in On(x)' => mounts'[x] = <<Swap>>
    BY <2>1, <2>2, <2>3 DEF OnePlace
  <2>7. \A x \in Names \ Data : mounts'[x] = machine'.mounts[x]
    BY <1>3, <2>1 DEF OnePlace
  <2>8. QED  BY <1>4, <2>5, <2>6, <2>7 DEF OnePlace
<1>9. (\A t, w : Clear(t, w)' <=> Clear(t, w)) /\ (\A inv : Honest(inv)' <=> Honest(inv))
  <2>1. \A t, w : Clear(t, w)' <=> Clear(t, w)  BY <1>3, <1>4 DEF Clear
  <2>2. QED  BY <2>1 DEF Honest
<1>10. Cached'
  <2>1. cache'.inv = cache.inv /\ cache'.stale = TRUE  BY <1>3 DEF TypeOK
  <2>2. Honest(cache.inv)'  BY <1>9, <2>1 DEF Cached, Honest
  <2>3. QED  BY <2>1, <2>2 DEF Cached
<1>11. Adopting'
  <2>1. /\ adopt'.pc = adopt.pc /\ adopt'.vol = adopt.vol /\ adopt'.inv = adopt.inv /\ adopt'.table = adopt.table
        /\ adopt'.mount = adopt.mount /\ adopt'.root = adopt.root /\ adopt'.moved = m
    BY <1>1 DEF TypeOK, Request
  <2>2. QED  BY <1>2, <1>4, <1>9, <2>1 DEF Adopting
<1>12. QED  BY <1>3, <1>7, <1>8, <1>10, <1>11

(* The inventory is read, kept, or grows old. *)
LEMMA CacheStep ==
  ASSUME IInv, GrowsOld \/ Look
  PROVE  IInv'
<1> USE DEF IInv
<1>1. UNCHANGED <<machine, mounts, files, stray, adopt, changes>>  BY DEF GrowsOld, Look
<1>2. /\ cache' \in [inv: Inventory, recent: BOOLEAN, stale: BOOLEAN]
      /\ Honest(cache'.inv)
      /\ cache'.recent /\ ~cache'.stale => cache'.inv \in Scans
  <2>1. CASE GrowsOld
    <3>1. cache' = NoCache  BY <2>1 DEF GrowsOld
    <3>2. NoCache.recent = FALSE /\ NoCache \in [inv: Inventory, recent: BOOLEAN, stale: BOOLEAN]
      BY DEF NoCache, Inventory
    <3>3. QED  BY <3>1, <3>2, NothingHonest
  <2>2. CASE Look
    <3>1. cache' \in Inventories  BY <2>2 DEF Look
    <3>2. QED  BY <3>1, InventoriesFacts
  <2>3. QED  BY <2>1, <2>2
<1>3. TypeOK'  BY <1>1, <1>2, Still DEF TypeOK, Request
<1>4. OnePlace'  BY <1>1, Still
<1>5. Cached'  BY <1>1, <1>2, Still DEF Cached, Honest
<1>6. Adopting'  BY <1>1, Still DEF Adopting, Honest
<1>7. QED  BY <1>1, <1>3, <1>4, <1>5, <1>6

LEMMA AdoptScanStep ==
  ASSUME IInv, NEW vol \in Names, NEW folder \in Folders, AdoptScan(vol, folder)
  PROVE  IInv'
<1> USE DEF IInv
<1>1. UNCHANGED <<machine, mounts, files, stray, changes>>  BY DEF AdoptScan
<1>2. /\ cache' \in [inv: Inventory, recent: BOOLEAN, stale: BOOLEAN]
      /\ Honest(cache'.inv)
      /\ cache'.recent /\ (~cache'.stale => cache'.inv \in Scans)
  BY InventoriesFacts DEF AdoptScan
<1> DEFINE m == IF cache'.stale THEN "before" ELSE "no"
<1>3. m \in {"no", "before", "after"} /\ (m = "no" => ~cache'.stale)  OBVIOUS
<1>4. adopt' = [pc |-> "table", vol |-> vol, folder |-> folder, inv |-> cache'.inv, table |-> {},
                mount |-> << >>, root |-> "", moved |-> m, uuid |-> ""]
  BY DEF AdoptScan, Idle
<1> HIDE DEF m
<1>5. adopt' \in Request
  <2>1. "table" \in AdoptPCs /\ << >> \in Path /\ cache'.inv \in Inventory  BY <1>2 DEF AdoptPCs, Path
  <2>2. QED  BY <1>3, <1>4, <2>1 DEF Request
<1>6. TypeOK'  BY <1>1, <1>2, <1>5, Still DEF TypeOK, Request
<1>7. OnePlace'  BY <1>1, Still
<1>8. Cached'  BY <1>1, <1>2, Still DEF Cached, Honest
<1>9. Adopting'
  <2>1. adopt'.pc = "table" /\ adopt'.vol = vol /\ adopt'.inv = cache'.inv /\ adopt'.moved = m  BY <1>4
  <2>2. Honest(adopt'.inv)  BY <1>2, <2>1
  <2>3. adopt'.moved = "no" => adopt'.inv \in Scans  BY <1>2, <1>3, <2>1
  <2>4. QED  BY <1>1, <2>1, <2>2, <2>3, Still DEF Adopting, Honest
<1>10. QED  BY <1>1, <1>6, <1>7, <1>8, <1>9

(* A step of the request that changes nothing but the request and files.   *)
LEMMA RequestStep ==
  ASSUME IInv, UNCHANGED <<machine, mounts, stray, cache, changes>>, files' \in [Data -> [Rels -> Kinds]],
         adopt' \in Request,
         Adopting'
  PROVE  IInv'
<1> USE DEF IInv
<1>1. TypeOK'  BY Still DEF TypeOK, Request
<1>2. OnePlace'  BY Still
<1>3. Cached'  BY Still DEF Cached, Honest
<1>4. QED  BY <1>1, <1>2, <1>3

LEMMA RefusedStep ==
  ASSUME IInv, Refused
  PROVE  IInv'
<1>1. Idle \in Request  BY IdleType
<1>2. adopt' = Idle /\ UNCHANGED <<machine, mounts, files, stray, cache, changes>>  BY DEF Refused
<1>3. adopt'.pc = "idle" /\ adopt'.moved = "no"  BY <1>2 DEF Idle
<1>4. Adopting'  BY <1>3 DEF Adopting
<1>5. files' \in [Data -> [Rels -> Kinds]]  BY <1>2 DEF IInv, TypeOK
<1>6. QED  BY <1>1, <1>2, <1>4, <1>5, RequestStep

LEMMA AdoptTableStep ==
  ASSUME IInv, AdoptTable
  PROVE  IInv'
<1> USE DEF IInv
<1>1. adopt.pc = "table" /\ adopt' = [adopt EXCEPT !.pc = "check", !.table = Table]
      /\ UNCHANGED <<machine, mounts, files, stray, cache, changes>>
  BY DEF AdoptTable
<1>2. adopt' \in Request
  <2>1. Table \in SUBSET Path /\ "check" \in AdoptPCs  BY TableFacts DEF AdoptPCs
  <2>2. QED  BY <1>1, <2>1 DEF TypeOK, Request
<1>3. /\ adopt'.pc = "check" /\ adopt'.table = Table
      /\ adopt'.vol = adopt.vol /\ adopt'.inv = adopt.inv /\ adopt'.moved = adopt.moved
  BY <1>1 DEF TypeOK, Request
<1>4. Adopting'
  <2>1. Honest(adopt'.inv) /\ (adopt'.moved = "no" => adopt'.inv \in Scans) /\ adopt'.vol \in Names
    BY <1>1, <1>3 DEF Adopting
  <2>2. QED  BY <1>1, <1>3, <2>1, Still DEF Adopting, Honest
<1>5. files' \in [Data -> [Rels -> Kinds]]  BY <1>1 DEF TypeOK
<1>6. QED  BY <1>1, <1>2, <1>4, <1>5, RequestStep

(* The entry that is found is of the volume that was asked for, and what   *)
(* it says is good as long as nothing changed.                             *)
LEMMA FoundFacts ==
  ASSUME IInv, adopt.pc = "check", NEW e \in Found, e.vol.mounts # << >>
  PROVE  /\ e.vol.name = adopt.vol /\ e.vol.mounts[1] \in Path /\ e.vol.uuid \in STRING
         /\ Clear(e.vol.mounts[1], adopt.vol)
         /\ adopt.moved = "no" => e.vol.mounts[1] \in On(adopt.vol)
<1> USE DEF IInv
<1>1. e \in Entries(adopt.inv) /\ e.vol.name = adopt.vol  BY DEF Found, Last
<1>2. adopt.inv \in Inventory  BY DEF TypeOK, Request
<1>3. e.vol \in Volume
  <2>1. e.disk \in adopt.inv.disks /\ e.vol \in e.disk.volumes  BY <1>1 DEF Entries
  <2>2. e.disk \in Disk  BY <1>2, <2>1 DEF Inventory
  <2>3. QED  BY <2>1, <2>2 DEF Disk
<1>4. e.vol.mounts \in Seq(Path) /\ e.vol.uuid \in STRING  BY <1>3 DEF Volume
<1>5. e.vol.mounts[1] \in Seqs!ToSet(e.vol.mounts)  BY <1>4, SetOf
<1>6. Honest(adopt.inv) /\ (adopt.moved = "no" => adopt.inv \in Scans)  BY DEF Adopting
<1>7. Clear(e.vol.mounts[1], adopt.vol)  BY <1>1, <1>5, <1>6 DEF Honest
<1>8. ASSUME adopt.moved = "no" PROVE e.vol.mounts[1] \in On(adopt.vol)
  <2>1. PICK f : adopt.inv = Build(Lsblk, f)  BY <1>6, <1>8, ScanIs
  <2>2. PICK d \in machine.drives : \E n \in d.nodes : e.vol.name = n.name /\ e.vol.mounts = Shown(n).mounts
    BY <1>1, <2>1, EntryIs
  <2>3. PICK n \in d.nodes : e.vol.name = n.name /\ e.vol.mounts = Shown(n).mounts  BY <2>2
  <2>4. n \in Nodes  BY DEF Nodes
  <2>5. Seqs!ToSet(Shown(n).mounts) \subseteq On(n.name)  BY <2>4, ShownFacts
  <2>6. QED  BY <1>1, <1>5, <2>3, <2>5
<1>9. e.vol.mounts[1] \in Path  BY <1>4
<1>10. QED  BY <1>1, <1>4, <1>7, <1>8, <1>9

LEMMA AdoptCheckStep ==
  ASSUME IInv, AdoptCheck
  PROVE  IInv'
<1>1. CASE Refused  BY <1>1, RefusedStep
<1>2. ASSUME NEW e \in Found, Offered(e), IsMountPoint(adopt.table, e.vol.mounts[1]),
             adopt' = [adopt EXCEPT !.pc = "open", !.mount = e.vol.mounts[1], !.uuid = e.vol.uuid,
                                    !.inv = NoCache.inv],
             UNCHANGED <<machine, mounts, files, stray, cache, changes>>
      PROVE  IInv'
  <2> USE DEF IInv
  <2>1. adopt.pc = "check"  BY DEF AdoptCheck
  <2>2. e.vol.mounts # << >>  BY <1>2 DEF Offered
  <2>3. /\ e.vol.name = adopt.vol /\ e.vol.mounts[1] \in Path /\ e.vol.uuid \in STRING
        /\ Clear(e.vol.mounts[1], adopt.vol)
        /\ adopt.moved = "no" => e.vol.mounts[1] \in On(adopt.vol)
    BY <2>1, <2>2, FoundFacts
  <2>4. adopt' \in Request
    <3>1. "open" \in AdoptPCs /\ NoCache.inv \in Inventory  BY DEF AdoptPCs, NoCache, Inventory
    <3>2. QED  BY <1>2, <2>3, <3>1 DEF TypeOK, Request
  <2>5. /\ adopt'.pc = "open" /\ adopt'.mount = e.vol.mounts[1] /\ adopt'.vol = adopt.vol
        /\ adopt'.table = adopt.table /\ adopt'.moved = adopt.moved
    BY <1>2 DEF TypeOK, Request
  <2>6. Adopting'
    <3>1. Clear(adopt'.mount, adopt'.vol)  BY <2>3, <2>5
    <3>2. adopt'.mount \in adopt'.table  BY <1>2, <2>5 DEF IsMountPoint
    <3>3. adopt'.moved = "no" => adopt'.mount \in On(adopt'.vol)  BY <2>3, <2>5
    <3>4. adopt'.vol \in Names /\ (adopt'.moved # "after" => adopt'.table = Table)  BY <2>1, <2>5 DEF Adopting
    <3>5. QED  BY <1>2, <2>5, <3>1, <3>2, <3>3, <3>4, Still DEF Adopting, Clear, On
  <2>7. files' \in [Data -> [Rels -> Kinds]]  BY <1>2 DEF TypeOK
  <2>8. QED  BY <1>2, <2>4, <2>6, <2>7, RequestStep
<1>3. QED  BY <1>1, <1>2 DEF AdoptCheck

(* The root that is held is of the volume that was asked for, or of        *)
(* another one that people plug in and that came in its place.             *)
LEMMA AdoptOpenStep ==
  ASSUME IInv, AdoptOpen
  PROVE  IInv'
<1> USE DEF IInv
<1> DEFINE r == At(adopt.mount)
           c == Containing(Table, adopt.mount)
           pc == IF adopt.folder = << >> THEN "resolve" ELSE "folder"
<1>1. adopt.pc = "open" /\ adopt' = [adopt EXCEPT !.pc = pc, !.root = r]
      /\ UNCHANGED <<machine, mounts, files, stray, cache, changes>>
  BY DEF AdoptOpen
<1>2. pc \in {"resolve", "folder"}  OBVIOUS
<1>3. adopt.mount \in Path /\ adopt.mount \in Seq(STRING)  BY DEF TypeOK, Request, Path
<1>4. r \in Names /\ c \in On(r) /\ \A n \in Names : c \in On(n) => n = r  BY <1>3, AtIs
<1>5. /\ adopt.vol \in Names /\ Clear(adopt.mount, adopt.vol) /\ adopt.mount \in adopt.table
      /\ adopt.moved = "no" => adopt.mount \in On(adopt.vol)
      /\ adopt.moved # "after" => adopt.table = Table
  BY <1>1 DEF Adopting
<1>6. adopt.moved # "after" => c = adopt.mount /\ adopt.mount \in Table  BY <1>5, TableFacts, ContainingSelf
<1> HIDE DEF r, c, pc
<1>7. adopt.moved # "after" => r \in Data \cup {adopt.vol}
  <2> SUFFICES ASSUME adopt.moved # "after", r \notin Data PROVE r = adopt.vol  OBVIOUS
  <2>1. mounts[r] = machine.mounts[r]  BY <1>4 DEF OnePlace
  <2>2. adopt.mount \in Seqs!ToSet(machine.mounts[r]) \ {Swap}  BY <1>4, <1>6, <2>1 DEF On, Table
  <2>3. QED  BY <1>4, <1>5, <2>2 DEF Clear
<1>8. adopt.moved = "no" => r = adopt.vol  BY <1>4, <1>5, <1>6
<1>9. adopt' \in Request
  <2>1. pc \in AdoptPCs  BY <1>2 DEF AdoptPCs
  <2>2. QED  BY <1>1, <1>4, <2>1 DEF TypeOK, Request
<1>10. /\ adopt'.pc = pc /\ adopt'.root = r /\ adopt'.vol = adopt.vol
       /\ adopt'.table = adopt.table /\ adopt'.moved = adopt.moved
  BY <1>1 DEF TypeOK, Request
<1>11. Adopting'
  <2>1. Data' = Data /\ Table' = Table /\ Names' = Names  BY <1>1, Still
  <2>2. QED  BY <1>2, <1>5, <1>7, <1>8, <1>10, <2>1 DEF Adopting
<1>12. files' \in [Data -> [Rels -> Kinds]]  BY <1>1 DEF TypeOK
<1>13. QED  BY <1>1, <1>9, <1>11, <1>12, RequestStep

LEMMA MadeType ==
  ASSUME TypeOK, adopt.root \in Data, NEW rel
  PROVE  Made(rel) \in [Data -> [Rels -> Kinds]]
BY DEF Made, TypeOK, Kinds

(* From here on the request moves on, and changes nothing of itself.       *)
LEMMA GotoStep ==
  ASSUME IInv, adopt.pc \in {"folder", "resolve", "folders"}, NEW pc \in {"resolve", "folders", "done"},
         Goto(pc), UNCHANGED <<machine, mounts, stray, cache, changes>>,
         files' \in [Data -> [Rels -> Kinds]]
  PROVE  IInv'
<1> USE DEF IInv
<1>1. adopt' = [adopt EXCEPT !.pc = pc]  BY DEF Goto
<1>2. adopt' \in Request
  <2>1. pc \in AdoptPCs  BY DEF AdoptPCs
  <2>2. QED  BY <1>1, <2>1 DEF TypeOK, Request
<1>3. /\ adopt'.pc = pc /\ adopt'.root = adopt.root /\ adopt'.vol = adopt.vol
      /\ adopt'.table = adopt.table /\ adopt'.moved = adopt.moved
  BY <1>1 DEF TypeOK, Request
<1>4. Adopting'
  <2>1. Data' = Data /\ Table' = Table /\ Names' = Names  BY Still
  <2>2. QED  BY <1>3, <2>1 DEF Adopting
<1>5. QED  BY <1>2, <1>4, RequestStep

LEMMA AdoptFolderStep ==
  ASSUME IInv, AdoptFolder
  PROVE  IInv'
<1>1. adopt.pc = "folder"  BY DEF AdoptFolder
<1>2. CASE adopt.root \notin Data
  <2>1. /\ Goto("resolve") /\ UNCHANGED <<machine, mounts, files, cache, changes>>
        /\ stray' = (stray \/ (adopt.root # adopt.vol /\ adopt.moved # "after"))
    BY <1>2 DEF AdoptFolder
  <2>2. adopt.moved # "after" => adopt.root = adopt.vol  BY <1>1, <1>2 DEF IInv, Adopting
  <2>3. stray' = stray
    <3>1. stray = FALSE  BY DEF IInv, TypeOK
    <3>2. (adopt.root # adopt.vol /\ adopt.moved # "after") = FALSE  BY <2>2
    <3>3. QED  BY <2>1, <3>1, <3>2
  <2>4. QED  BY <1>1, <2>1, <2>3, GotoStep DEF IInv, TypeOK
<1>3. CASE adopt.root \in Data /\ Goto("resolve")
  <2>1. /\ UNCHANGED <<machine, mounts, stray, cache, changes>>
        /\ files' = files \/ files' = Made(adopt.folder)
    BY <1>3, <1>1 DEF AdoptFolder, Goto, Refused, Idle, IInv, TypeOK
  <2>2. files' \in [Data -> [Rels -> Kinds]]
    <3>1. TypeOK  BY DEF IInv
    <3>2. files \in [Data -> [Rels -> Kinds]]  BY <3>1 DEF TypeOK
    <3>3. QED  BY <1>3, <2>1, <3>1, <3>2, MadeType
  <2>3. QED  BY <1>1, <1>3, <2>1, <2>2, GotoStep
<1>4. CASE Refused  BY <1>4, RefusedStep
<1>5. QED  BY <1>2, <1>3, <1>4 DEF AdoptFolder

LEMMA AdoptResolveStep ==
  ASSUME IInv, AdoptResolve
  PROVE  IInv'
<1>1. CASE Refused  BY <1>1, RefusedStep
<1>2. CASE Goto("folders") /\ UNCHANGED <<machine, mounts, files, stray, cache, changes>>
  BY <1>2, GotoStep DEF AdoptResolve, IInv, TypeOK
<1>3. QED  BY <1>1, <1>2 DEF AdoptResolve

LEMMA AdoptFoldersStep ==
  ASSUME IInv, AdoptFolders
  PROVE  IInv'
<1>1. files' = files \/ (adopt.root \in Data /\ files' = Made(<<"Vault", "Photos">>))  BY DEF AdoptFolders
<1>2. files' \in [Data -> [Rels -> Kinds]]
  <2>1. TypeOK  BY DEF IInv
  <2>2. files \in [Data -> [Rels -> Kinds]]  BY <2>1 DEF TypeOK
  <2>3. QED  BY <1>1, <2>1, <2>2, MadeType
<1>3. adopt.pc = "folders" /\ Goto("done") /\ UNCHANGED <<machine, mounts, stray, cache, changes>>
  BY DEF AdoptFolders
<1>4. QED  BY <1>2, <1>3, GotoStep

LEMMA ReturnStep ==
  ASSUME IInv, Return
  PROVE  IInv'
<1>1. Refused  BY DEF Return, Refused
<1>2. QED  BY <1>1, RefusedStep

LEMMA NextIInv == IInv /\ [Next]_vars => IInv'
<1> SUFFICES ASSUME IInv, [Next]_vars PROVE IInv'  OBVIOUS
<1>1. ASSUME NEW v \in Data, Unmount(v) PROVE IInv'
  <2>1. Changed(v, << >>)  BY <1>1 DEF Unmount
  <2>2. QED  BY <2>1, ChangedStep
<1>2. ASSUME NEW v \in Data, NEW spot \in Spots, Mount(v, spot) PROVE IInv'
  <2>1. Changed(v, <<spot>>) /\ spot \in Spots \ Table  BY <1>2 DEF Mount
  <2>2. <<spot>> \in {<< >>} \cup {<<s>> : s \in Spots \ Table}  BY <2>1
  <2>3. QED  BY <2>1, <2>2, ChangedStep
<1>3. CASE GrowsOld \/ Look  BY <1>3, CacheStep
<1>4. ASSUME NEW vol \in Names, NEW folder \in Folders, AdoptScan(vol, folder) PROVE IInv'
  BY <1>4, AdoptScanStep
<1>5. CASE AdoptTable  BY <1>5, AdoptTableStep
<1>6. CASE AdoptCheck  BY <1>6, AdoptCheckStep
<1>7. CASE AdoptOpen  BY <1>7, AdoptOpenStep
<1>8. CASE AdoptFolder  BY <1>8, AdoptFolderStep
<1>9. CASE AdoptResolve  BY <1>9, AdoptResolveStep
<1>10. CASE AdoptFolders  BY <1>10, AdoptFoldersStep
<1>11. CASE Return  BY <1>11, ReturnStep
<1>12. CASE UNCHANGED vars
  <2>1. UNCHANGED <<machine, mounts, files, stray, cache, adopt, changes>>  BY <1>12 DEF vars
  <2>2. files' \in [Data -> [Rels -> Kinds]]
        /\ adopt' \in Request
    BY <2>1 DEF IInv, TypeOK
  <2>3. Adopting'  BY <2>1, Still DEF IInv, Adopting, Honest, Clear, On
  <2>4. QED  BY <2>1, <2>2, <2>3, RequestStep
<1>13. QED
  BY <1>1, <1>2, <1>3, <1>4, <1>5, <1>6, <1>7, <1>8, <1>9, <1>10, <1>11, <1>12 DEF Next

LEMMA Invariance == Spec => []IInv
BY InitIInv, NextIInv, PTL DEF Spec

-------------------------------------------------------------------------------
(* What is offered. *)

LEMMA SystemStatus ==
  ASSUME NEW n, NEW d, NEW f, VolumeAdoptable(n, d, f)
  PROVE  ~System(d, f) /\ n.mounts # << >>
<1>1. VolumeStatus(n, d, f) = "mounted"  BY DEF VolumeAdoptable
<1> DEFINE fs == FSType(n, f)
<1>2. ~System(d, f)  BY <1>1 DEF VolumeStatus
<1>3. n.mounts # << >>
  <2> HIDE DEF fs
  <2>1. (CASE fs = "swap" -> "swap"
           [] fs \in containerFS \cup {""} /\ ~n.leaf -> "container"
           [] fs \in fsSupport /\ n.mounts = << >> -> "unmounted"
           [] fs \in fsSupport /\ n.mounts # << >> -> "mounted"
           [] OTHER -> "unsupported") = "mounted"
    BY <1>1, <1>2 DEF VolumeStatus, fs
  <2>2. QED  BY <2>1
<1>4. QED  BY <1>2, <1>3

(* A drive of the system is found to be one: by lsblk when it shows every  *)
(* mount point, by the kernel's mount table otherwise, but for swap.       *)
LEMMA SystemFound ==
  ASSUME TypeOK, OnePlace, NEW s \in SystemDrives, NEW f,
         machine.lsblk = "all" \/ (machine.lsblk = "one" /\ f = Findmnt)
  PROVE  System(Seen(s), f)
<1>1. PICK m \in s.nodes : \E t \in On(m.name) : isSystemMount(t)  BY DEF SystemDrives, On
<1>2. PICK t \in On(m.name) : isSystemMount(t)  BY <1>1
<1>3. s \in machine.drives /\ m \in Nodes /\ m.name \in Names  BY DEF SystemDrives, Nodes, Names
<1>4. Shown(m) \in Seen(s).nodes  BY DEF Seen
<1>5. CASE t \in Targets(Shown(m))  BY <1>2, <1>4, <1>5 DEF System
<1>6. CASE machine.lsblk = "all"
  <2>1. Shown(m).mounts = mounts[m.name]  BY <1>3, <1>6, ShownFacts
  <2>2. QED  BY <1>2, <1>5, <2>1 DEF Targets, On
<1>7. CASE machine.lsblk = "one" /\ f = Findmnt /\ t = Swap
  <2>1. mounts[m.name] = <<Swap>>  BY <1>2, <1>3, <1>7 DEF OnePlace
  <2>2. Shown(m).mounts = <<Swap>>
    <3>1. <<Swap>> # << >> /\ <<Swap>>[1] = Swap  OBVIOUS
    <3>2. QED  BY <1>3, <1>7, <2>1, <3>1, ShownFacts
  <2>3. Seqs!ToSet(<<Swap>>) = {Swap}  BY DEF Seqs!ToSet
  <2>4. QED  BY <1>5, <1>7, <2>2, <2>3 DEF Targets
<1>8. CASE f = Findmnt /\ t # Swap
  <2>1. t \in Table  BY <1>2, <1>3, <1>8 DEF Table, On
  <2> DEFINE x == CHOOSE n \in Nodes : t \in Seqs!ToSet(mounts[n.name])
  <2>2. x \in Nodes /\ t \in On(x.name)  BY <1>2, <1>3 DEF On
  <2>3. Findmnt[t].source = x.name /\ DOMAIN Findmnt = Table  BY <2>1 DEF Findmnt
  <2> HIDE DEF x
  <2>4. x.name = m.name  BY <1>2, <1>3, <1>8, <2>2 DEF OnePlace, Names
  <2>5. Shown(m).name = m.name  BY <1>3, ShownFacts
  <2>6. Shown(m).name \in systemSources(f)  BY <1>2, <1>8, <2>1, <2>3, <2>4, <2>5 DEF systemSources
  <2>7. QED  BY <1>4, <2>6 DEF System
<1>9. QED  BY <1>6, <1>7, <1>8

(* And what is found to be one is a drive of the system.                   *)
LEMMA FoundSystem ==
  ASSUME TypeOK, NEW f \in {Findmnt, NoFindmnt}, NEW s \in machine.drives, System(Seen(s), f)
  PROVE  s \in SystemDrives
<1>1. PICK m \in s.nodes : (\E t \in Targets(Shown(m)) : isSystemMount(t)) \/ Shown(m).name \in systemSources(f)
  BY DEF System, Seen
<1>2. m \in Nodes  BY DEF Nodes
<1>3. CASE \E t \in Targets(Shown(m)) : isSystemMount(t)
  <2>1. Targets(Shown(m)) \subseteq On(m.name)  BY <1>2, ShownFacts DEF Targets
  <2>2. QED  BY <1>3, <2>1 DEF SystemDrives, On
<1>4. CASE Shown(m).name \in systemSources(f)
  <2>1. PICK t \in DOMAIN f : isSystemMount(t) /\ Shown(m).name = f[t].source  BY <1>4 DEF systemSources
  <2>2. f = Findmnt /\ t \in Table  BY <2>1 DEF Findmnt, NoFindmnt
  <2> DEFINE x == CHOOSE n \in Nodes : t \in Seqs!ToSet(mounts[n.name])
  <2>3. x \in Nodes /\ t \in On(x.name)  BY <2>2 DEF Table, Names, On
  <2>4. f[t].source = x.name  BY <2>2 DEF Findmnt
  <2> HIDE DEF x
  <2>5. Shown(m).name = m.name  BY <1>2, ShownFacts
  <2>6. QED  BY <2>1, <2>3, <2>4, <2>5 DEF SystemDrives, On
<1>5. QED  BY <1>1, <1>3, <1>4

LEMMA SystemIsSafe ==
  ASSUME TypeOK, OnePlace
  PROVE  SystemNeverOffered
<1> SUFFICES ASSUME NEW inv \in (IF machine.lsblk = "all" \/ Cardinality(SystemDrives) = 1 THEN Scans ELSE {Build(Lsblk, Findmnt)}),
                    NEW disk \in inv.disks, NEW v \in disk.volumes, v.adoptable,
                    NEW s \in SystemDrives, disk.name = s.top
             PROVE  FALSE
  BY DEF SystemNeverOffered
<1> DEFINE one == Cardinality(SystemDrives) = 1
<1>1. PICK f \in {Findmnt, NoFindmnt} : inv = Build(Lsblk, f) /\ (machine.lsblk = "all" \/ one \/ f = Findmnt)
  BY DEF Scans
<1>2. [disk |-> disk, vol |-> v] \in Entries(Build(Lsblk, f))  BY <1>1 DEF Entries
<1>3. PICK d \in machine.drives : \E n \in d.nodes :
        disk.name = d.top /\ VolumeAdoptable(Shown(n), Seen(d), f) /\ Build(Lsblk, f).detected
  <2> DEFINE e == [disk |-> disk, vol |-> v]
  <2>1. e.disk = disk /\ e.vol = v  OBVIOUS
  <2>2. e \in Entries(Build(Lsblk, f))  BY <1>2
  <2> HIDE DEF e
  <2>3. QED  BY <2>1, <2>2, EntryIs
<1>4. PICK n \in d.nodes : VolumeAdoptable(Shown(n), Seen(d), f) /\ disk.name = d.top /\ Build(Lsblk, f).detected
  BY <1>3
<1>5. d = s
  <2>1. s \in machine.drives  BY DEF SystemDrives
  <2>2. QED  BY <1>4, <2>1, MachineFacts DEF TypeOK
<1>6. ~System(Seen(s), f) /\ Shown(n).mounts # << >>  BY <1>4, <1>5, SystemStatus
<1>7. machine.lsblk \in {"all", "one"}
  <2>1. n \in Nodes  BY DEF Nodes
  <2>2. machine.lsblk # "none"  BY <1>6, <2>1, ShownFacts
  <2>3. QED  BY <2>2, MachineFacts DEF TypeOK
<1>8. one /\ f = NoFindmnt  BY <1>1, <1>6, <1>7, SystemFound
<1>9. PICK e \in machine.drives : System(Seen(e), f)
  <2>1. Detected({b \in Lsblk : ~skipTopLevel(b)}, f)  BY <1>4 DEF Build
  <2>2. QED  BY <2>1 DEF Detected, Lsblk, Seen
<1>10. e \in SystemDrives  BY <1>8, <1>9, FoundSystem
<1>11. e = s
  <2>1. IsFiniteSet(SystemDrives)
    <3>1. IsFiniteSet(machine.drives)  BY MachineFacts DEF TypeOK
    <3>2. SystemDrives \subseteq machine.drives  BY DEF SystemDrives
    <3>3. QED  BY <3>1, <3>2, FS_Subset
  <2>2. \E b : SystemDrives = {b}  BY <1>8, <2>1, FS_Singleton
  <2>3. QED  BY <1>10, <2>2
<1>12. QED  BY <1>6, <1>9, <1>11

-------------------------------------------------------------------------------

(* Whatever people mount and unmount while drives are looked at and        *)
(* adopted, the state stays of its type.                                   *)
THEOREM DrivesTyped == Spec => []TypeOK
<1>1. IInv => TypeOK  BY DEF IInv
<1>2. QED  BY <1>1, Invariance, PTL

(* On every machine a drive that backs a mount of the system is never      *)
(* offered for adoption, however its partitions, containers and mounts     *)
(* lie: disks.go, Build and classifyVolume.                                *)
THEOREM SystemSafe == Spec => []SystemNeverOffered
<1>1. IInv => SystemNeverOffered  BY SystemIsSafe DEF IInv
<1>2. QED  BY <1>1, Invariance, PTL

(* Adopt makes Vault's folder on the drive that was asked for, unless      *)
(* drives were mounted or unmounted after its inventory was made, and      *)
(* never on the system's through an empty mount point unless that was      *)
(* after the mount table was read.                                         *)
THEOREM NamedDrive == Spec => []AdoptsNamedDrive
<1>1. IInv => AdoptsNamedDrive  BY DEF IInv, Adopting, AdoptsNamedDrive
<1>2. QED  BY <1>1, Invariance, PTL

-------------------------------------------------------------------------------
(* What Adopt accepts is ready, on machines whose filesystems can be told  *)
(* apart and whose lsblk shows the mounts of the drives with data volumes. *)

(* The inventory still has what was adopted. *)
Listed ==
  \E inv \in Scans : \E e \in Entries(inv) :
    /\ e.vol.name = adopt.vol /\ e.vol.uuid = adopt.uuid /\ ~e.disk.system
    /\ adopt.mount \in Seqs!ToSet(e.vol.mounts)

Ready ==
  adopt.moved = "no" =>
    /\ adopt.pc \in {"open", "folder", "resolve", "folders", "done"} => Listed /\ adopt.mount \in Table
    /\ adopt.pc = "resolve" /\ adopt.vol \in Data =>
         adopt.folder = << >> \/ Covered \/ files[adopt.vol][adopt.folder] = "dir"
    /\ adopt.pc \in {"folders", "done"} =>
         /\ Containing(Table, adopt.mount \o adopt.folder) = adopt.mount
         /\ adopt.vol \in Data => adopt.folder = << >> \/ files[adopt.vol][adopt.folder] = "dir"

Small == \A x \in Names : Len(machine.mounts[x]) <= 1 => Len(mounts[x]) <= 1

(* On a drive with a data volume both readings find the system, or neither. *)
LEMMA SystemShown ==
  ASSUME TypeOK, OnePlace, Small, Recognised(machine), NEW f \in {Findmnt, NoFindmnt},
         NEW d \in machine.drives, NEW v \in d.nodes, v.name \in Data, machine.lsblk # "none"
  PROVE  System(Seen(d), f) <=> d \in SystemDrives
<1>1. System(Seen(d), f) => d \in SystemDrives  BY FoundSystem
<1>2. ASSUME d \in SystemDrives PROVE System(Seen(d), f)
  <2>1. CASE machine.lsblk = "all"  BY <1>2, <2>1, SystemFound
  <2>2. CASE machine.lsblk = "one"
    <3>1. PICK m \in d.nodes : \E t \in On(m.name) : isSystemMount(t)  BY <1>2 DEF SystemDrives, On
    <3>2. PICK t \in On(m.name) : isSystemMount(t)  BY <3>1
    <3>3. m \in Nodes /\ m.name \in Names  BY DEF Nodes, Names
    <3>4. Len(machine.mounts[m.name]) <= 1  BY <2>2 DEF Recognised, Data
    <3>5. mounts[m.name] \in Seq(Path) /\ Len(mounts[m.name]) <= 1  BY <3>3, <3>4 DEF Small, TypeOK
    <3>6. mounts[m.name] # << >> /\ t = mounts[m.name][1]  BY <3>2, <3>5 DEF On, Seqs!ToSet
    <3>7. Shown(m).mounts = <<t>>  BY <2>2, <3>3, <3>6, ShownFacts
    <3>8. t \in Targets(Shown(m))
      <4>1. Seqs!ToSet(<<t>>) = {t}  BY DEF Seqs!ToSet
      <4>2. QED  BY <3>7, <4>1 DEF Targets
    <3>9. Shown(m) \in Seen(d).nodes  BY DEF Seen
    <3>10. QED  BY <3>2, <3>8, <3>9 DEF System
  <2>3. QED  BY <2>1, <2>2, MachineFacts DEF TypeOK
<1>3. QED  BY <1>1, <1>2

(* Volumes of one name are shown at the same places. *)
LEMMA ShownSame ==
  ASSUME TypeOK, NEW m \in Nodes, NEW n \in Nodes, m.name = n.name
  PROVE  Shown(m).mounts = Shown(n).mounts
<1>1. machine.lsblk \in {"all", "one", "none"}  BY MachineFacts DEF TypeOK
<1>2. CASE machine.lsblk = "all"  BY <1>2, ShownFacts
<1>3. CASE machine.lsblk = "one" /\ mounts[n.name] # << >>  BY <1>3, ShownFacts
<1>4. CASE machine.lsblk = "one" /\ mounts[n.name] = << >>  BY <1>4, ShownFacts
<1>5. CASE machine.lsblk = "none"  BY <1>5, ShownFacts
<1>6. QED  BY <1>1, <1>2, <1>3, <1>4, <1>5

(* Two entries, with the one and the other reading of findmnt, of a node.  *)
OfNode(e, f, o, g, d, n) ==
  /\ e.vol.name = n.name /\ e.vol.uuid = n.uuid /\ e.vol.mounts = Shown(n).mounts
  /\ o.vol.uuid = e.vol.uuid
  /\ e.disk.system <=> System(Seen(d), f)
  /\ o.disk.system <=> System(Seen(d), g)

(* What one reading of findmnt lists, the other does. *)
LEMMA BothList ==
  ASSUME TypeOK, NEW f, NEW g, NEW e \in Entries(Build(Lsblk, f))
  PROVE  \E d \in machine.drives : \E n \in d.nodes : \E o \in Entries(Build(Lsblk, g)) : OfNode(e, f, o, g, d, n)
<1> DEFINE drives == {d \in Lsblk : ~skipTopLevel(d)}
           disk(s, h) == [name |-> s.top, system |-> System(s, h), status |-> DiskStatus(s, h),
                          volumes |-> Volumes(s, h, Detected(drives, h))]
<1>1. \A h : Build(Lsblk, h).disks = {disk(s, h) : s \in drives}  BY DEF Build
<1>2. e.disk \in Build(Lsblk, f).disks /\ e.vol \in e.disk.volumes  BY DEF Entries
<1>3. PICK s \in drives : e.disk = disk(s, f)  BY <1>1, <1>2
<1>4. PICK d \in machine.drives : s = Seen(d)  BY DEF Lsblk, Seen
<1>5. \A h : disk(s, h).volumes = Volumes(s, h, Detected(drives, h)) /\ (disk(s, h).system <=> System(s, h))
             /\ disk(s, h) \in Build(Lsblk, h).disks
  BY <1>1
<1> HIDE DEF drives, disk
<1> DEFINE offers(m, h) == Detected(drives, h) /\ VolumeAdoptable(m, s, h)
           volume(m, h) == [name |-> m.name, uuid |-> m.uuid, mounts |-> m.mounts,
                            status |-> VolumeStatus(m, s, h), adoptable |-> offers(m, h)]
<1>6. \A h : Volumes(s, h, Detected(drives, h)) = {volume(m, h) : m \in {m \in s.nodes : IsVolume(m)}}
  BY DEF Volumes
<1> HIDE DEF offers, volume
<1>7. PICK m \in s.nodes : IsVolume(m) /\ e.vol = volume(m, f)
  <2>1. e.vol \in {volume(m, f) : m \in {m \in s.nodes : IsVolume(m)}}  BY <1>2, <1>3, <1>5, <1>6
  <2>2. QED  BY <2>1
<1>8. PICK n \in d.nodes : m = Shown(n)  BY <1>4, <1>7 DEF Seen
<1>9. n \in Nodes  BY DEF Nodes
<1> DEFINE o == [disk |-> disk(s, g), vol |-> volume(m, g)]
<1>10. o.disk = disk(s, g) /\ o.vol = volume(m, g) /\ o.vol.uuid = m.uuid
  BY DEF volume
<1>11. volume(m, g) \in disk(s, g).volumes  BY <1>5, <1>6, <1>7
<1>12. o \in Entries(Build(Lsblk, g))  BY <1>5, <1>11 DEF Entries
<1>13. e.vol.name = m.name /\ e.vol.uuid = m.uuid /\ e.vol.mounts = m.mounts  BY <1>7 DEF volume
<1> HIDE DEF o
<1>14. e.vol.name = n.name /\ e.vol.uuid = n.uuid /\ e.vol.mounts = Shown(n).mounts
  BY <1>8, <1>9, <1>13, ShownFacts
<1>15. (e.disk.system <=> System(Seen(d), f)) /\ (o.disk.system <=> System(Seen(d), g))
  BY <1>3, <1>4, <1>5, <1>10
<1>16. OfNode(e, f, o, g, d, n)  BY <1>10, <1>13, <1>14, <1>15 DEF OfNode
<1>17. QED  BY <1>12, <1>16

(* A drive that is listed passes inspectSource's look at the inventory.     *)
LEMMA ListedIsFound ==
  ASSUME TypeOK, OnePlace, Small, Recognised(machine), Listed, adopt.vol \in Data, adopt.uuid # "",
         NEW inv \in Scans, NEW found, found = Last({e \in Entries(inv) : e.vol.uuid = adopt.uuid})
  PROVE  /\ found # {}
         /\ \A e \in found : ~e.disk.system /\ adopt.mount \in Seqs!ToSet(e.vol.mounts)
<1> DEFINE all == {e \in Entries(inv) : e.vol.uuid = adopt.uuid}
<1>1. PICK g \in {Findmnt, NoFindmnt} : inv = Build(Lsblk, g)  BY ScanIs
<1>2. PICK was \in Scans : \E e \in Entries(was) :
        /\ e.vol.name = adopt.vol /\ e.vol.uuid = adopt.uuid /\ ~e.disk.system
        /\ adopt.mount \in Seqs!ToSet(e.vol.mounts)
  BY DEF Listed
<1>3. PICK f \in {Findmnt, NoFindmnt} : was = Build(Lsblk, f)  BY ScanIs
<1>4. PICK e \in Entries(Build(Lsblk, f)) :
        /\ e.vol.name = adopt.vol /\ e.vol.uuid = adopt.uuid /\ ~e.disk.system
        /\ adopt.mount \in Seqs!ToSet(e.vol.mounts)
  BY <1>2, <1>3
<1>5. PICK d \in machine.drives : \E n \in d.nodes : \E o \in Entries(Build(Lsblk, g)) : OfNode(e, f, o, g, d, n)
  BY BothList
<1>6. PICK n \in d.nodes : \E o \in Entries(Build(Lsblk, g)) : OfNode(e, f, o, g, d, n)
  BY <1>5
<1>7. PICK o \in Entries(Build(Lsblk, g)) : OfNode(e, f, o, g, d, n)  BY <1>6
<1>8. n \in Nodes /\ n.name \in Data /\ n.uuid = adopt.uuid
      /\ adopt.mount \in Seqs!ToSet(Shown(n).mounts)
  BY <1>4, <1>7 DEF Nodes, OfNode
<1>9. machine.lsblk # "none"
  <2>1. Shown(n).mounts # << >>  BY <1>8, NoneIn
  <2>2. QED  BY <1>8, <2>1, ShownFacts
<1>10. ~o.disk.system  BY <1>4, <1>7, <1>8, <1>9, SystemShown DEF OfNode
<1>11. o \in all  BY <1>1, <1>4, <1>7 DEF OfNode
<1>12. found = {e1 \in all : ~e1.disk.system}  BY <1>10, <1>11 DEF Last
<1>13. ASSUME NEW e1 \in all PROVE adopt.mount \in Seqs!ToSet(e1.vol.mounts)
  <2>1. PICK d1 \in machine.drives : \E n1 \in d1.nodes :
          e1.vol.uuid = n1.uuid /\ e1.vol.mounts = Shown(n1).mounts
    BY <1>1, <1>13, EntryIs
  <2>2. PICK n1 \in d1.nodes : e1.vol.uuid = n1.uuid /\ e1.vol.mounts = Shown(n1).mounts  BY <2>1
  <2>3. n1 \in Nodes /\ n1.uuid = adopt.uuid  BY <1>13, <2>2 DEF Nodes
  <2>4. n1.name = n.name  BY <1>8, <2>3 DEF Recognised, Nodes
  <2>5. Shown(n1).mounts = Shown(n).mounts  BY <1>8, <2>3, <2>4, ShownSame
  <2>6. QED  BY <1>8, <2>2, <2>5
<1> HIDE DEF all
<1>14. QED  BY <1>10, <1>11, <1>12, <1>13

LEMMA ReadyIsReady ==
  ASSUME IInv, Ready, Small, Recognised(machine)
  PROVE  AdoptedIsReady
<1> USE DEF IInv
<1> SUFFICES ASSUME adopt.pc = "done", adopt.vol \in Data, adopt.moved = "no", NEW inv \in Scans
             PROVE  InspectSource(adopt.uuid, adopt.mount, adopt.folder, inv) = {"ready"}
  BY DEF AdoptedIsReady
<1> DEFINE found == Last({e \in Entries(inv) : e.vol.uuid = adopt.uuid})
           known == adopt.uuid # ""
           missing == adopt.folder # << >> /\ At(adopt.mount) \in Data /\ files[At(adopt.mount)][adopt.folder] # "dir"
           away == Containing(Table, adopt.mount \o adopt.folder) # adopt.mount
           here == IsMountPoint(Table, adopt.mount)
           state(e) == IF known /\ e.disk.system THEN "problem"
                       ELSE IF known /\ adopt.mount \notin Seqs!ToSet(e.vol.mounts)
                            THEN IF e.vol.mounts = << >> THEN "drive_missing" ELSE "drive_moved"
                       ELSE IF ~here THEN "drive_missing"
                       ELSE IF missing THEN "problem"
                       ELSE IF away THEN "problem"
                       ELSE "ready"
           looked == IF known THEN found ELSE {[disk |-> "", vol |-> ""]}
<1>1. Listed /\ adopt.mount \in Table /\ ~away
      /\ (adopt.folder = << >> \/ files[adopt.vol][adopt.folder] = "dir")
  BY DEF Ready
<1>2. here  BY <1>1 DEF IsMountPoint
<1>3. ~missing
  <2>1. adopt.mount \in Seq(STRING) /\ Containing(Table, adopt.mount) = adopt.mount
    BY <1>1, TableFacts, ContainingSelf DEF Path
  <2>2. adopt.mount \in On(adopt.vol)
    <3>1. PICK was \in Scans : \E e \in Entries(was) :
            e.vol.name = adopt.vol /\ adopt.mount \in Seqs!ToSet(e.vol.mounts)
      BY <1>1 DEF Listed
    <3>2. PICK e \in Entries(was) : e.vol.name = adopt.vol /\ adopt.mount \in Seqs!ToSet(e.vol.mounts)
      BY <3>1
    <3>3. PICK f : was = Build(Lsblk, f)  BY ScanIs
    <3>4. PICK d \in machine.drives : \E n \in d.nodes : e.vol.name = n.name /\ e.vol.mounts = Shown(n).mounts
      BY <3>2, <3>3, EntryIs
    <3>5. PICK n \in d.nodes : e.vol.name = n.name /\ e.vol.mounts = Shown(n).mounts  BY <3>4
    <3>6. n \in Nodes  BY DEF Nodes
    <3>7. QED  BY <3>2, <3>5, <3>6, ShownFacts
  <2>3. adopt.vol \in Names  BY MachineFacts DEF TypeOK
  <2>4. At(adopt.mount) = adopt.vol  BY <2>1, <2>2, <2>3, AtIs
  <2>5. QED  BY <1>1, <2>4
<1>4. known => found # {} /\ \A e \in found : ~e.disk.system /\ adopt.mount \in Seqs!ToSet(e.vol.mounts)
  BY <1>1, ListedIsFound
<1>5. InspectSource(adopt.uuid, adopt.mount, adopt.folder, inv) =
        IF known /\ found = {} THEN {"drive_missing"} ELSE {state(e) : e \in looked}
  BY DEF InspectSource
<1> HIDE DEF found, known, missing, away, here
<1>6. \A e \in looked : state(e) = "ready"  BY <1>1, <1>2, <1>3, <1>4
<1>7. looked # {}  BY <1>4
<1> HIDE DEF state, looked
<1>8. {state(e) : e \in looked} = {"ready"}  BY <1>6, <1>7
<1>9. QED  BY <1>4, <1>5, <1>8

(* A step of the request that keeps what it looks at. *)
LEMMA ListedKept ==
  ASSUME UNCHANGED <<machine, mounts>>, adopt'.vol = adopt.vol, adopt'.uuid = adopt.uuid, adopt'.mount = adopt.mount
  PROVE  Listed' <=> Listed
<1>1. Scans' = Scans  BY Still
<1>2. QED  BY <1>1 DEF Listed

LEMMA SmallStep ==
  ASSUME IInv, Small, [Next]_vars
  PROVE  Small'
<1> USE DEF IInv
<1>1. CASE UNCHANGED <<machine, mounts>>
  <2>1. Names' = Names  BY <1>1, Still
  <2>2. QED  BY <1>1, <2>1 DEF Small
<1>2. ASSUME NEW v \in Data, NEW to, to = << >> \/ \E spot \in Spots : to = <<spot>>, Changed(v, to)
      PROVE  Small'
  <2>1. machine' = machine /\ mounts' = [mounts EXCEPT ![v] = to]  BY <1>2 DEF Changed
  <2>2. Names' = Names  BY <2>1 DEF Names, Nodes
  <2>3. Len(to) <= 1
    <3>1. CASE to = << >>  BY <3>1
    <3>2. ASSUME NEW spot, to = <<spot>> PROVE Len(to) <= 1  BY <3>2
    <3>3. QED  BY <1>2, <3>1, <3>2
  <2>4. QED  BY <2>1, <2>2, <2>3 DEF Small, TypeOK
<1>3. CASE Next
  <2>1. CASE \E v \in Data : Unmount(v) \/ \E spot \in Spots : Mount(v, spot)
    <3>1. PICK v \in Data : Unmount(v) \/ \E spot \in Spots : Mount(v, spot)  BY <2>1
    <3>2. CASE Unmount(v)
      <4>1. Changed(v, << >>)  BY <3>2 DEF Unmount
      <4>2. QED  BY <1>2, <4>1
    <3>3. CASE \E spot \in Spots : Mount(v, spot)
      <4>1. PICK spot \in Spots : Mount(v, spot)  BY <3>3
      <4>2. Changed(v, <<spot>>)  BY <4>1 DEF Mount
      <4>3. QED  BY <1>2, <4>2
    <3>4. QED  BY <3>1, <3>2, <3>3
  <2>2. CASE ~\E v \in Data : Unmount(v) \/ \E spot \in Spots : Mount(v, spot)
    <3>1. UNCHANGED <<machine, mounts>>
      BY <1>3, <2>2 DEF Next, GrowsOld, Look, AdoptScan, AdoptTable, AdoptCheck, AdoptOpen, AdoptFolder,
                        AdoptResolve, AdoptFolders, Return, Refused
    <3>2. QED  BY <1>1, <3>1
  <2>3. QED  BY <2>1, <2>2
<1>4. QED  BY <1>1, <1>3 DEF vars

(* Nothing but the request moves, and it stays where Ready says little. *)
LEMMA ReadySame ==
  ASSUME Ready, UNCHANGED <<machine, mounts, files, adopt>>
  PROVE  Ready'
<1>1. Table' = Table /\ Data' = Data  BY Still
<1>2. Listed' <=> Listed  BY ListedKept
<1>3. Covered' <=> Covered  BY <1>1 DEF Covered
<1>4. Containing(Table, adopt.mount \o adopt.folder)' = Containing(Table, adopt.mount \o adopt.folder)
  BY <1>1
<1>5. QED  BY <1>1, <1>2, <1>3, <1>4 DEF Ready

LEMMA ReadyChecked ==
  ASSUME IInv, AdoptCheck
  PROVE  Ready'
<1> USE DEF IInv
<1>1. CASE Refused  BY <1>1 DEF Refused, Idle, Ready
<1>2. ASSUME NEW e \in Found, Offered(e), IsMountPoint(adopt.table, e.vol.mounts[1]),
             adopt' = [adopt EXCEPT !.pc = "open", !.mount = e.vol.mounts[1], !.uuid = e.vol.uuid,
                                    !.inv = NoCache.inv],
             UNCHANGED <<machine, mounts, files, stray, cache, changes>>
      PROVE  Ready'
  <2>1. /\ adopt'.pc = "open" /\ adopt'.mount = e.vol.mounts[1] /\ adopt'.vol = adopt.vol
        /\ adopt'.uuid = e.vol.uuid /\ adopt'.moved = adopt.moved
    BY <1>2 DEF TypeOK, Request
  <2> SUFFICES ASSUME adopt.moved = "no" PROVE Listed' /\ adopt'.mount \in Table'
    BY <2>1 DEF Ready
  <2>2. adopt.pc = "check" /\ adopt.inv \in Scans /\ adopt.table = Table  BY DEF AdoptCheck, Adopting
  <2>3. e \in Entries(adopt.inv) /\ e.vol.name = adopt.vol  BY DEF Found, Last
  <2>4. ~e.disk.system /\ e.vol.mounts # << >>  BY <1>2 DEF Offered
  <2>5. e.vol.mounts[1] \in Seqs!ToSet(e.vol.mounts)
    <3>1. PICK f : adopt.inv = Build(Lsblk, f)  BY <2>2, ScanIs
    <3>2. PICK d \in machine.drives : \E n \in d.nodes : e.vol.mounts = Shown(n).mounts
      BY <2>3, <3>1, EntryIs
    <3>3. PICK n \in d.nodes : e.vol.mounts = Shown(n).mounts  BY <3>2
    <3>4. n \in Nodes  BY DEF Nodes
    <3>5. e.vol.mounts \in Seq(Path)  BY <3>3, <3>4, ShownFacts
    <3>6. QED  BY <2>4, <3>5, SetOf
  <2>6. Scans' = Scans /\ Table' = Table  BY <1>2, Still
  <2>7. Listed'  BY <2>1, <2>2, <2>3, <2>4, <2>5, <2>6 DEF Listed
  <2>8. adopt'.mount \in Table'  BY <1>2, <2>1, <2>2, <2>6 DEF IsMountPoint
  <2>9. QED  BY <2>7, <2>8
<1>3. QED  BY <1>1, <1>2 DEF AdoptCheck

(* What the request asks is its own until it is over. *)
LEMMA GoesOn ==
  ASSUME IInv, NEW pc, NEW root, adopt' = [adopt EXCEPT !.pc = pc, !.root = root], UNCHANGED <<machine, mounts>>
  PROVE  /\ adopt'.pc = pc /\ adopt'.vol = adopt.vol /\ adopt'.mount = adopt.mount /\ adopt'.uuid = adopt.uuid
         /\ adopt'.folder = adopt.folder /\ adopt'.moved = adopt.moved
         /\ Listed' <=> Listed
         /\ Covered' <=> Covered
         /\ Table' = Table /\ Data' = Data
<1>1. /\ adopt'.pc = pc /\ adopt'.vol = adopt.vol /\ adopt'.mount = adopt.mount /\ adopt'.uuid = adopt.uuid
      /\ adopt'.folder = adopt.folder /\ adopt'.moved = adopt.moved
  BY DEF IInv, TypeOK, Request
<1>2. Table' = Table /\ Data' = Data  BY Still
<1>3. Listed' <=> Listed  BY <1>1, ListedKept
<1>4. Covered' <=> Covered  BY <1>1, <1>2 DEF Covered
<1>5. QED  BY <1>1, <1>2, <1>3, <1>4

LEMMA ReadyOpened ==
  ASSUME IInv, Ready, AdoptOpen
  PROVE  Ready'
<1> DEFINE pc == IF adopt.folder = << >> THEN "resolve" ELSE "folder"
           root == At(adopt.mount)
<1>1. adopt.pc = "open" /\ adopt' = [adopt EXCEPT !.pc = pc, !.root = root] /\ UNCHANGED <<machine, mounts, files>>
  BY DEF AdoptOpen
<1>2. pc \in {"resolve", "folder"} /\ (pc = "resolve" => adopt.folder = << >>)  OBVIOUS
<1> HIDE DEF pc, root
<1>3. /\ adopt'.pc = pc /\ adopt'.mount = adopt.mount /\ adopt'.folder = adopt.folder /\ adopt'.moved = adopt.moved
      /\ Listed' <=> Listed
      /\ Table' = Table
  BY <1>1, GoesOn
<1>4. QED  BY <1>1, <1>2, <1>3 DEF Ready

LEMMA ReadyFoldered ==
  ASSUME IInv, Ready, AdoptFolder
  PROVE  Ready'
<1> USE DEF IInv
<1>1. CASE Refused  BY <1>1 DEF Refused, Idle, Ready
<1>2. CASE Goto("resolve") /\ UNCHANGED <<machine, mounts>>
  <2>1. adopt.pc = "folder"  BY DEF AdoptFolder
  <2>2. adopt' = [adopt EXCEPT !.pc = "resolve", !.root = adopt.root]  BY <1>2 DEF Goto, TypeOK, Request
  <2>3. /\ adopt'.pc = "resolve" /\ adopt'.vol = adopt.vol /\ adopt'.mount = adopt.mount
        /\ adopt'.folder = adopt.folder /\ adopt'.moved = adopt.moved
        /\ Listed' <=> Listed
        /\ Covered' <=> Covered
        /\ Table' = Table /\ Data' = Data
    BY <1>2, <2>2, GoesOn
  <2>4. ASSUME adopt.vol \in Data, adopt.moved = "no", ~Covered, adopt.folder # << >>
        PROVE  files'[adopt.vol][adopt.folder] = "dir"
    <3>1. adopt.root = adopt.vol  BY <2>1, <2>4 DEF Adopting
    <3>2. Usable(files[adopt.root][adopt.folder]) /\ files' = Made(adopt.folder)
      BY <1>2, <2>1, <2>4, <3>1 DEF AdoptFolder, Goto, Refused, Idle, TypeOK
    <3>3. adopt.folder \in Rels  BY <2>4 DEF TypeOK, Request, Folders, Rels
    <3>4. files \in [Data -> [Rels -> Kinds]]  BY DEF TypeOK
    <3>5. QED  BY <2>4, <3>1, <3>2, <3>3, <3>4 DEF Made, Usable
  <2>5. QED  BY <2>1, <2>3, <2>4 DEF Ready
<1>3. QED  BY <1>1, <1>2 DEF AdoptFolder

LEMMA ReadyResolved ==
  ASSUME IInv, Ready, AdoptResolve
  PROVE  Ready'
<1> USE DEF IInv
<1>1. CASE Refused  BY <1>1 DEF Refused, Idle, Ready
<1>2. CASE OneFilesystem(adopt.table, adopt.mount \o adopt.folder, adopt.mount) /\ Goto("folders")
           /\ UNCHANGED <<machine, mounts, files>>
  <2>1. adopt.pc = "resolve"  BY DEF AdoptResolve
  <2>2. adopt' = [adopt EXCEPT !.pc = "folders", !.root = adopt.root]  BY <1>2 DEF Goto, TypeOK, Request
  <2>3. /\ adopt'.pc = "folders" /\ adopt'.vol = adopt.vol /\ adopt'.mount = adopt.mount
        /\ adopt'.folder = adopt.folder /\ adopt'.moved = adopt.moved
        /\ Listed' <=> Listed
        /\ Table' = Table /\ Data' = Data
    BY <1>2, <2>2, GoesOn
  <2> SUFFICES ASSUME adopt.moved = "no"
               PROVE  /\ Containing(Table, adopt.mount \o adopt.folder) = adopt.mount
                      /\ adopt.vol \in Data => adopt.folder = << >> \/ files[adopt.vol][adopt.folder] = "dir"
    BY <1>2, <2>1, <2>3 DEF Ready
  <2>4. Containing(Table, adopt.mount \o adopt.folder) = adopt.mount
    BY <1>2, <2>1 DEF OneFilesystem, Adopting
  <2>5. ~Covered
    <3> SUFFICES ASSUME Covered PROVE FALSE  OBVIOUS
    <3>1. adopt.mount \o adopt.folder \in Table /\ adopt.folder # << >>  BY DEF Covered
    <3>2. adopt.mount \o adopt.folder = adopt.mount  BY <2>4, <3>1, TableFacts, ContainingSelf
    <3>3. adopt.mount \in Seq(STRING) /\ adopt.folder = <<"Vault">>  BY <3>1 DEF TypeOK, Request, Path, Folders
    <3>4. Len(adopt.mount \o <<"Vault">>) = Len(adopt.mount) + 1  BY <3>3
    <3>5. QED  BY <3>2, <3>3, <3>4
  <2>6. QED  BY <2>1, <2>4, <2>5 DEF Ready
<1>3. QED  BY <1>1, <1>2 DEF AdoptResolve

LEMMA ReadyMade ==
  ASSUME IInv, Ready, AdoptFolders
  PROVE  Ready'
<1> USE DEF IInv
<1>1. adopt.pc = "folders" /\ Goto("done") /\ UNCHANGED <<machine, mounts>>
      /\ (files' = files \/ (adopt.root \in Data /\ files' = Made(<<"Vault", "Photos">>)))
  BY DEF AdoptFolders
<1>2. adopt' = [adopt EXCEPT !.pc = "done", !.root = adopt.root]  BY <1>1 DEF Goto, TypeOK, Request
<1>3. /\ adopt'.pc = "done" /\ adopt'.vol = adopt.vol /\ adopt'.mount = adopt.mount
      /\ adopt'.folder = adopt.folder /\ adopt'.moved = adopt.moved
      /\ Listed' <=> Listed
      /\ Table' = Table /\ Data' = Data
  BY <1>1, <1>2, GoesOn
<1>4. ASSUME adopt.vol \in Data, adopt.folder # << >>, files[adopt.vol][adopt.folder] = "dir"
      PROVE  files'[adopt.vol][adopt.folder] = "dir"
  <2>1. adopt.folder \in Rels /\ files \in [Data -> [Rels -> Kinds]]
    BY <1>4 DEF TypeOK, Request, Folders, Rels
  <2> DEFINE rel == <<"Vault", "Photos">>
  <2>2. ASSUME adopt.root \in Data, files' = Made(rel) PROVE files'[adopt.vol][adopt.folder] = "dir"
    <3>1. rel \in Rels  BY DEF Rels
    <3> HIDE DEF rel
    <3>2. CASE files' = files  BY <1>4, <3>2
    <3>3. CASE files' = [files EXCEPT ![adopt.root][rel] = "dir"]
      BY <1>4, <2>1, <2>2, <3>1, <3>3
    <3>4. QED  BY <2>2, <3>2, <3>3 DEF Made
  <2>3. QED  BY <1>1, <1>4, <2>2
<1>5. QED  BY <1>1, <1>3, <1>4 DEF Ready

LEMMA ReadyStep ==
  ASSUME IInv, Ready, [Next]_vars
  PROVE  Ready'
<1>1. ASSUME NEW v \in Data, NEW to, Changed(v, to) PROVE Ready'
  <2> DEFINE m == CASE adopt.pc = "idle" -> "no" [] adopt.pc = "table" -> "before" [] OTHER -> "after"
  <2>1. adopt' = [adopt EXCEPT !.moved = m]  BY <1>1 DEF Changed
  <2>2. m = "no" => adopt.pc = "idle"  OBVIOUS
  <2> HIDE DEF m
  <2>3. adopt'.moved = m /\ adopt'.pc = adopt.pc  BY <2>1 DEF IInv, TypeOK, Request
  <2>4. QED  BY <2>2, <2>3 DEF Ready
<1>2. ASSUME NEW v \in Data, Unmount(v) PROVE Ready'
  <2>1. Changed(v, << >>)  BY <1>2 DEF Unmount
  <2>2. QED  BY <1>1, <2>1
<1>3. ASSUME NEW v \in Data, NEW spot \in Spots, Mount(v, spot) PROVE Ready'
  <2>1. Changed(v, <<spot>>)  BY <1>3 DEF Mount
  <2>2. QED  BY <1>1, <2>1
<1>4. CASE GrowsOld \/ Look \/ UNCHANGED vars  BY <1>4, ReadySame DEF GrowsOld, Look, vars
<1>5. ASSUME NEW vol \in Names, NEW folder \in Folders, AdoptScan(vol, folder) PROVE Ready'
  <2>1. adopt'.pc = "table"  BY <1>5 DEF AdoptScan, Idle
  <2>2. QED  BY <2>1 DEF Ready
<1>6. CASE AdoptTable
  <2>1. adopt'.pc = "check"  BY <1>6 DEF AdoptTable, IInv, TypeOK, Request
  <2>2. QED  BY <2>1 DEF Ready
<1>7. CASE Return
  <2>1. adopt'.pc = "idle"  BY <1>7 DEF Return, Idle
  <2>2. QED  BY <2>1 DEF Ready
<1>8. QED
  BY <1>2, <1>3, <1>4, <1>5, <1>6, <1>7, ReadyChecked, ReadyOpened, ReadyFoldered, ReadyResolved, ReadyMade DEF Next

(* What Adopt accepts, inspectSource finds ready, on every machine whose   *)
(* filesystems have UUIDs of their own and whose lsblk shows the mounts of *)
(* the drives with data volumes, unless drives changed meanwhile.          *)
THEOREM AdoptedReady ==
  ASSUME \A m \in Machines : Recognised(m)
  PROVE  Spec => []AdoptedIsReady
<1>1. Init => IInv /\ Ready /\ Small
  <2>1. Init => IInv  BY InitIInv
  <2>2. Init => Ready
    <3> SUFFICES ASSUME Init PROVE Ready  OBVIOUS
    <3>1. adopt.pc = "idle"  BY DEF Init, Idle
    <3>2. QED  BY <3>1 DEF Ready
  <2>3. Init => Small  BY DEF Init, Small
  <2>4. QED  BY <2>1, <2>2, <2>3
<1>2. IInv /\ Ready /\ Small /\ [Next]_vars => (IInv /\ Ready /\ Small)'
  BY NextIInv, ReadyStep, SmallStep
<1>3. IInv /\ Ready /\ Small => AdoptedIsReady
  <2> SUFFICES ASSUME IInv, Ready, Small PROVE AdoptedIsReady  OBVIOUS
  <2>1. Recognised(machine)  BY DEF IInv, TypeOK
  <2>2. QED  BY <2>1, ReadyIsReady
<1>4. QED  BY <1>1, <1>2, <1>3, PTL DEF Spec
=============================================================================
