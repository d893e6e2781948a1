-------------------------------- MODULE Drives ---------------------------------
(***************************************************************************)
(* Adopting a drive: Adopt of internal/storage/adopt.go and inspectSource  *)
(* of internal/storage/storage.go, on the inventory that Disks computes    *)
(* and Scanner caches, while people mount and unmount drives.              *)
(*                                                                         *)
(* Every reading of the machine is a step of its own: the inventory (which *)
(* may be the cached one), the mount table, opening the drive, making the  *)
(* folder, resolving it.  The rest of handleAdopt is in module Storage.    *)
(***************************************************************************)
EXTENDS Disks, FiniteSets

CONSTANTS
  Machines,   \* the drives of a machine, and how its lsblk shows them
  Spots,      \* where a data volume can be mounted
  Contents,   \* what a data volume may have at first under the names Vault asks for
  MaxChanges  \* bound on mounts and unmounts

VARIABLES
  machine,  \* the machine
  mounts,   \* where every node is mounted, in order
  files,    \* what a data volume has under the names Vault asks for
  stray,    \* (history) a folder was made on a system drive that nobody asked
            \* for although nothing was mounted or unmounted since the mount table was read
  cache,    \* Scanner.last, whether it is younger than MinRefresh, and
            \* (history) whether something was mounted or unmounted since
  adopt,    \* the request that adopts a drive; moved (history) says whether
            \* something was mounted or unmounted since its inventory, and
            \* whether that was before or after it read the mount table
  changes

vars == <<machine, mounts, files, stray, cache, adopt, changes>>

Kinds == {"none", "dir", "file", "link"}
Rels == {<<"Vault">>, <<"Vault", "Photos">>}
Folders == {<< >>, <<"Vault">>}

Swap == <<"[SWAP]">>

(* Names are unique, of lsblk's drives and of the kernel's devices; a mount *)
(* point has one volume on it, swap is not mounted anywhere, and nobody     *)
(* plugs in the root filesystem.                                            *)
IsMachine(m) ==
  LET names == {n.name : n \in UNION {d.nodes : d \in m.drives}}
      targets(x) == Seqs!ToSet(m.mounts[x])
  IN /\ IsFiniteSet(m.drives) /\ m.drives \subseteq Drive
     /\ \A d, e \in m.drives : d.top = e.top => d = e
     /\ m.data \subseteq names
     /\ m.mounts \in [names -> Seq(Path)]
     /\ \A x, y \in names : x # y => targets(x) \cap targets(y) \subseteq {Swap}
     /\ \A x \in names : Swap \in targets(x) => m.mounts[x] = <<Swap>>
     /\ \E x \in names \ m.data : << >> \in targets(x)
     /\ m.lsblk \in {"all", "one", "none"} /\ m.udev \in BOOLEAN

(* A filesystem's UUID is its own, and an lsblk that shows one mount point  *)
(* of each node shows all there are on a drive with a data volume.          *)
Recognised(m) ==
  /\ \A a, b \in UNION {d.nodes : d \in m.drives} : a.uuid = b.uuid /\ a.uuid # "" => a.name = b.name
  /\ m.lsblk = "one" =>
       \A d \in m.drives : (\E n \in d.nodes : n.name \in m.data) =>
         \A n \in d.nodes : Len(m.mounts[n.name]) <= 1

ASSUME DrivesAssumption ==
  /\ \A m \in Machines : IsMachine(m)
  /\ Spots \subseteq Path \ {Swap}
  /\ Contents \subseteq [Rels -> Kinds]
  /\ \A c \in Contents : c[<<"Vault">>] # "dir" => c[<<"Vault", "Photos">>] = "none"
  /\ MaxChanges \in Nat

Nodes == UNION {d.nodes : d \in machine.drives}
Names == {n.name : n \in Nodes}
Data == machine.data            \* names of the volumes people plug in

(* The kernel's mount table, which does not list swap. *)
Table == (UNION {Seqs!ToSet(mounts[n]) : n \in Names}) \ {Swap}

(* The volume that holds a path now. *)
At(path) == CHOOSE n \in Names : Containing(Table, path) \in Seqs!ToSet(mounts[n])

(* lsblkNode.mounts: every mount point, or (legacy) one of them, or none   *)
(* when lsblk cannot see them; udev may not know the filesystem.           *)
Shown(n) ==
  [n EXCEPT !.mounts = CASE machine.lsblk = "all" -> mounts[n.name]
                         [] machine.lsblk = "one" /\ mounts[n.name] # << >> -> <<mounts[n.name][1]>>
                         [] OTHER -> << >>,
            !.fs = IF machine.udev THEN n.fs ELSE ""]

Lsblk == {[top |-> d.top, nodes |-> {Shown(n) : n \in d.nodes}] : d \in machine.drives}

(* parseFindmnt, or nothing when findmnt fails. *)
Findmnt == [t \in Table |-> LET n == CHOOSE n \in Nodes : t \in Seqs!ToSet(mounts[n.name])
                            IN [source |-> n.name, fs |-> n.fs]]
NoFindmnt == [t \in {} |-> [source |-> "", fs |-> ""]]

(* What a scan may return now. *)
Scans == {Build(Lsblk, Findmnt), Build(Lsblk, NoFindmnt)}

Entries(inv) ==
  {e \in {[disk |-> d, vol |-> v] : d \in inv.disks, v \in UNION {d.volumes : d \in inv.disks}} : e.vol \in e.disk.volumes}

(* Of the entries that match, the loops over the inventory keep the last,  *)
(* and Build puts the system's drives first.                               *)
Last(found) == IF \A e \in found : e.disk.system THEN found ELSE {e \in found : ~e.disk.system}

NoCache == [inv |-> [detected |-> FALSE, disks |-> {}], recent |-> FALSE, stale |-> FALSE]

Idle == [pc |-> "idle", vol |-> "", folder |-> << >>, inv |-> NoCache.inv, table |-> {},
         mount |-> << >>, root |-> "", moved |-> "no", uuid |-> ""]

Goto(pc) == adopt' = [adopt EXCEPT !.pc = pc]

-------------------------------------------------------------------------------

Init ==
  /\ machine \in Machines
  /\ mounts = machine.mounts
  /\ files \in [machine.data -> Contents]
  /\ stray = FALSE
  /\ cache = NoCache
  /\ adopt = Idle
  /\ changes = 0

(* People. A volume is mounted at one place, a place holds one volume, and *)
(* a volume that is held open or has another one inside is busy.           *)
Changed(v, to) ==
  /\ changes < MaxChanges
  /\ changes' = changes + 1
  /\ mounts' = [mounts EXCEPT ![v] = to]
  /\ cache' = [cache EXCEPT !.stale = TRUE]
  /\ adopt' = [adopt EXCEPT !.moved = CASE adopt.pc = "idle" -> "no" [] adopt.pc = "table" -> "before" [] OTHER -> "after"]
  /\ UNCHANGED <<machine, files, stray>>

Mount(v, spot) ==
  /\ mounts[v] = << >> /\ spot \notin Table
  /\ Len(spot) > 1 /\ spot[Len(spot)] = "Vault" =>
       At(spot) \in Data /\ files[At(spot)][<<"Vault">>] = "dir"
  /\ Changed(v, <<spot>>)

Unmount(v) ==
  /\ mounts[v] # << >> /\ adopt.root # v
  /\ \A t \in Table : t # mounts[v][1] => Containing({mounts[v][1]} \cup {<< >>}, t) = << >>
  /\ Changed(v, << >>)

(* Scanner.Inventory: force rescans what is not younger than MinRefresh.   *)
(* The inventory grows old on its own, and only forced ones are modelled,  *)
(* for which an old one is as good as none.                                *)
GrowsOld ==
  /\ cache.recent
  /\ cache' = NoCache
  /\ UNCHANGED <<machine, mounts, files, stray, adopt, changes>>

Inventories == IF cache.recent THEN {cache} ELSE {[inv |-> i, recent |-> TRUE, stale |-> FALSE] : i \in Scans}

(* GET /api/disks. *)
Look ==
  /\ adopt.pc = "idle" /\ ~cache.recent
  /\ cache' \in Inventories
  /\ UNCHANGED <<machine, mounts, files, stray, adopt, changes>>

-------------------------------------------------------------------------------
(* handleAdopt and Adopt. *)

AdoptScan(vol, folder) ==
  /\ adopt.pc = "idle"
  /\ cache' \in Inventories
  /\ adopt' = [Idle EXCEPT !.pc = "table", !.vol = vol, !.folder = folder,
                           !.inv = cache'.inv, !.moved = IF cache'.stale THEN "before" ELSE "no"]
  /\ UNCHANGED <<machine, mounts, files, stray, changes>>

AdoptTable ==
  /\ adopt.pc = "table"
  /\ adopt' = [adopt EXCEPT !.pc = "check", !.table = Table]
  /\ UNCHANGED <<machine, mounts, files, stray, cache, changes>>

Found == Last({e \in Entries(adopt.inv) : e.vol.name = adopt.vol})

Offered(e) == ~e.disk.system /\ e.vol.status # "system" /\ e.vol.adoptable /\ e.vol.mounts # << >>

(* A refusal answers and leaves everything as it is. *)
Refused ==
  /\ adopt' = Idle
  /\ UNCHANGED <<machine, mounts, files, stray, cache, changes>>

AdoptCheck ==
  /\ adopt.pc = "check"
  /\ IF adopt.inv.detected
     THEN \/ /\ Found = {}
             /\ Refused
          \/ \E e \in Found :
               IF Offered(e) /\ IsMountPoint(adopt.table, e.vol.mounts[1])
               THEN /\ adopt' = [adopt EXCEPT !.pc = "open", !.mount = e.vol.mounts[1], !.uuid = e.vol.uuid,
                                               !.inv = NoCache.inv]
                    /\ UNCHANGED <<machine, mounts, files, stray, cache, changes>>
               ELSE Refused
     ELSE Refused

(* os.OpenRoot: from here on the drive is held, whatever is mounted. *)
AdoptOpen ==
  /\ adopt.pc = "open"
  /\ adopt' = [adopt EXCEPT !.pc = IF adopt.folder = << >> THEN "resolve" ELSE "folder", !.root = At(adopt.mount)]
  /\ UNCHANGED <<machine, mounts, files, stray, cache, changes>>

(* ensureDir: a folder is reused or made, a file or a link is left alone. *)
Usable(kind) == kind \in {"none", "dir"}

Made(rel) == IF files[adopt.root][rel] = "none" THEN [files EXCEPT ![adopt.root][rel] = "dir"] ELSE files

(* The folder is on another mount that lies over it. *)
Covered == \E t \in Table : t = adopt.mount \o adopt.folder /\ adopt.folder # << >>

AdoptFolder ==
  /\ adopt.pc = "folder"
  /\ IF adopt.root \notin Data
     THEN stray' = (stray \/ (adopt.root # adopt.vol /\ adopt.moved # "after")) /\ Goto("resolve") /\ UNCHANGED <<machine, mounts, files, cache, changes>>
     ELSE IF Covered \/ Usable(files[adopt.root][adopt.folder])
          THEN /\ files' = IF Covered THEN files ELSE Made(adopt.folder)
               /\ Goto("resolve")
               /\ UNCHANGED <<machine, mounts, stray, cache, changes>>
          ELSE Refused

(* Mutant of OneFilesystem: the mount table is not asked again. *)
OneFilesystemAny(table, dir, mount) == TRUE

OneFilesystem(table, dir, mount) == Containing(table, dir) = mount

(* filepath.EvalSymlinks: the folder leads to itself. *)
LeadsToItself(mount, folder) ==
  LET v == At(mount \o folder)
  IN folder = << >> \/ Covered \/ (v \in Data /\ files[v][folder] \in {"dir", "file"}) \/ v \notin Data

AdoptResolve ==
  /\ adopt.pc = "resolve"
  /\ IF LeadsToItself(adopt.mount, adopt.folder)
        /\ OneFilesystem(adopt.table, adopt.mount \o adopt.folder, adopt.mount)
     THEN Goto("folders") /\ UNCHANGED <<machine, mounts, files, stray, cache, changes>>
     ELSE Refused

(* The default folders: one that cannot be made is skipped.  Photos stands *)
(* for them all.                                                           *)
AdoptFolders ==
  /\ adopt.pc = "folders"
  /\ files' = IF adopt.folder # << >> /\ adopt.root \in Data /\ ~Covered
                 /\ Usable(files[adopt.root][<<"Vault", "Photos">>])
              THEN Made(<<"Vault", "Photos">>) ELSE files
  /\ Goto("done")
  /\ UNCHANGED <<machine, mounts, stray, cache, changes>>

Return ==
  /\ adopt.pc = "done"
  /\ adopt' = Idle
  /\ UNCHANGED <<machine, mounts, files, stray, cache, changes>>

Next ==
  \/ \E v \in Data : Unmount(v) \/ \E spot \in Spots : Mount(v, spot)
  \/ GrowsOld \/ Look
  \/ \E vol \in Names, folder \in Folders : AdoptScan(vol, folder)
  \/ AdoptTable \/ AdoptCheck \/ AdoptOpen \/ AdoptFolder \/ AdoptResolve \/ AdoptFolders \/ Return

Spec == Init /\ [][Next]_vars

-------------------------------------------------------------------------------

(* inspectSource: the state of a source, by an inventory and the kernel. *)
InspectSource(uuid, path, folder, inv) ==
  LET found == Last({e \in Entries(inv) : e.vol.uuid = uuid})
      known == uuid # ""
      dir == path \o folder
  IN IF known /\ found = {} THEN {"drive_missing"}
     ELSE {IF known /\ e.disk.system THEN "problem"
           ELSE IF known /\ path \notin Seqs!ToSet(e.vol.mounts)
                THEN IF e.vol.mounts = << >> THEN "drive_missing" ELSE "drive_moved"
           ELSE IF ~IsMountPoint(Table, path) THEN "drive_missing"
           ELSE IF folder # << >> /\ At(path) \in Data /\ files[At(path)][folder] # "dir" THEN "problem"
           ELSE IF Containing(Table, dir) # path THEN "problem"
           ELSE "ready" : e \in IF known THEN found ELSE {[disk |-> "", vol |-> ""]}}

AdoptPCs == {"idle", "table", "check", "open", "folder", "resolve", "folders", "done"}

Request == [pc: AdoptPCs, vol: Names \cup {""}, folder: Folders, inv: Inventory,
            table: SUBSET Path, mount: Path, root: Names \cup {""},
            moved: {"no", "before", "after"}, uuid: STRING \cup {""}]

TypeOK ==
  /\ machine \in Machines
  /\ mounts \in [Names -> Seq(Path)]
  /\ files \in [Data -> [Rels -> Kinds]]
  /\ stray \in BOOLEAN
  /\ cache \in [inv: Inventory, recent: BOOLEAN, stale: BOOLEAN]
  /\ adopt \in Request
  /\ changes \in 0 .. MaxChanges

(* The drives that back a mount of the system. *)
SystemDrives == {d \in machine.drives : \E n \in d.nodes : \E t \in Seqs!ToSet(mounts[n.name]) : isSystemMount(t)}

(* disks.go: a drive that backs any mount of the system is never offered,  *)
(* however its partitions, containers and mounts lie, when lsblk shows     *)
(* every mount point, or findmnt can be read, or the system is on one      *)
(* drive: that nothing is offered unless it was found covers the rest.     *)
SystemNeverOffered ==
  \A inv \in IF machine.lsblk = "all" \/ Cardinality(SystemDrives) = 1 THEN Scans ELSE {Build(Lsblk, Findmnt)} :
    \A d \in inv.disks : \A v \in d.volumes : v.adoptable => d.name \notin {s.top : s \in SystemDrives}

(* adopt.go: Vault's folder is made on the volume that was asked for,      *)
(* unless drives were mounted or unmounted after the inventory that        *)
(* decided (which may be one that was cached); and never on the system's   *)
(* drive through an empty mount point, unless that happened after the      *)
(* mount table was read.                                                   *)
AdoptsNamedDrive ==
  /\ ~stray
  /\ adopt.pc \in {"folder", "resolve", "folders", "done"} /\ adopt.moved = "no" => adopt.root = adopt.vol

(* A data volume that was adopted is ready for use: what Adopt accepts,    *)
(* inspectSource accepts, unless drives changed in between.                *)
AdoptedIsReady ==
  adopt.pc = "done" /\ adopt.vol \in Data /\ adopt.moved = "no" =>
    \A inv \in Scans : inv.detected => InspectSource(adopt.uuid, adopt.mount, adopt.folder, inv) = {"ready"}
===============================================================================
