--------------------------------- MODULE Disks ---------------------------------
(***************************************************************************)
(* internal/disks: what Build makes of the readings of lsblk and findmnt,  *)
(* as operators on them.                                                   *)
(*                                                                         *)
(* A path is the sequence of its names (the root is << >>, swap is mounted *)
(* at <<"[SWAP]">>).  A node of lsblk is a record; of its tree it keeps    *)
(* the names of the nodes above it and whether it has children, so that a  *)
(* drive is its top node's name with the set of the nodes in its tree.     *)
(***************************************************************************)
EXTENDS Naturals, Sequences

Seqs == INSTANCE SequencesExt

Path == Seq(STRING)

Node == [name: STRING, type: STRING, fs: STRING, mounts: Seq(Path), ro: BOOLEAN,
         above: SUBSET STRING, leaf: BOOLEAN, empty: BOOLEAN, uuid: STRING]

Drive == [top: STRING, nodes: SUBSET Node]

systemMounts == {<< >>, <<"boot">>, <<"boot", "efi">>, <<"efi">>, <<"usr">>, <<"var">>, <<"home">>, <<"[SWAP]">>}

reservedPrefixes == {"boot", "efi", "usr", "etc", "var", "proc", "sys", "dev", "root", "tmp", "bin", "sbin", "lib", "lib64"}

fsSupport == {"ext4", "ext3", "xfs", "btrfs", "f2fs", "exfat", "vfat", "ntfs", "ntfs3", "fuseblk"}

containerFS == {"crypto_LUKS", "LVM2_member", "linux_raid_member", "zfs_member", "bcache"}

isSystemMount(t) == t \in systemMounts \/ (Len(t) > 1 /\ t[1] = "boot")

isReservedTarget(t) ==
  \/ t \in {<< >>, <<"home">>, <<"[SWAP]">>}
  \/ Len(t) > 0 /\ t[1] \in reservedPrefixes

(* MountTable.Containing: the longest mount point that path is in. *)
Containing(table, path) ==
  LET around == {m \in table : Seqs!IsPrefix(m, path)}
  IN CHOOSE m \in around : \A k \in around : Len(k) <= Len(m)

(* Mutant of IsMountPoint: the folder of an unplugged drive will do. *)
IsMountPointAlways(table, path) == TRUE

IsMountPoint(table, path) == path \in table

-------------------------------------------------------------------------------

Targets(n) == Seqs!ToSet(n.mounts)

(* Build: the devices that findmnt says a system mount comes from.         *)
(* findmnt maps targets to the source device and the filesystem type.      *)
systemSources(findmnt) == {findmnt[t].source : t \in {t \in DOMAIN findmnt : isSystemMount(t)}}

skipTopLevel(drive) ==
  \E n \in drive.nodes : n.name = drive.top /\ (n.type \in {"loop", "rom", "ram"} \/ n.empty)

(* Mutant of System: only what lsblk shows is looked at. *)
SystemByLsblk(drive, findmnt) == \E n \in drive.nodes : \E t \in Targets(n) : isSystemMount(t)

(* buildDisk: a node anywhere in the tree backs a system mount, by lsblk's *)
(* own mount points or by the kernel's mount table.                        *)
System(drive, findmnt) ==
  \E n \in drive.nodes :
    \/ \E t \in Targets(n) : isSystemMount(t)
    \/ n.name \in systemSources(findmnt)

(* collectVolumes: which nodes are volumes. *)
IsVolume(n) == n.type # "disk" \/ n.fs # "" \/ n.mounts # << >>

(* collectVolumes: without a type from lsblk, the one that the kernel      *)
(* gives for the first of its mount points that has one.                   *)
FSType(n, findmnt) ==
  LET known == {i \in DOMAIN n.mounts : n.mounts[i] \in DOMAIN findmnt}
  IN IF n.fs # "" \/ known = {} THEN n.fs
     ELSE findmnt[n.mounts[CHOOSE i \in known : \A j \in known : i <= j]].fs

ReadOnly(n, drive) == \E m \in drive.nodes : m.ro /\ (m.name = n.name \/ m.name \in n.above)

(* classifyVolume. *)
VolumeStatus(n, drive, findmnt) ==
  LET fs == FSType(n, findmnt)
  IN IF System(drive, findmnt) THEN "system"
     ELSE CASE fs = "swap" -> "swap"
            [] fs \in containerFS \cup {""} /\ ~n.leaf -> "container"
            [] fs \in fsSupport /\ n.mounts = << >> -> "unmounted"
            [] fs \in fsSupport /\ n.mounts # << >> -> "mounted"
            [] OTHER -> "unsupported"

VolumeAdoptable(n, drive, findmnt) ==
  /\ VolumeStatus(n, drive, findmnt) = "mounted"
  /\ ~ReadOnly(n, drive)
  /\ \A t \in Targets(n) : ~isReservedTarget(t)

Volumes(drive, findmnt, detected) ==
  {[name |-> n.name, uuid |-> n.uuid, mounts |-> n.mounts, status |-> VolumeStatus(n, drive, findmnt),
    adoptable |-> detected /\ VolumeAdoptable(n, drive, findmnt)] : n \in {m \in drive.nodes : IsVolume(m)}}

(* diskStatus, which is decided before Build takes the offers back. *)
DiskStatus(drive, findmnt) ==
  LET volumes == Volumes(drive, findmnt, TRUE)
      top == CHOOSE n \in drive.nodes : n.name = drive.top
  IN IF System(drive, findmnt) THEN "system"
     ELSE IF \E v \in volumes : v.adoptable THEN "available"
     ELSE IF top.ro THEN "read-only"
     ELSE IF \E v \in volumes : v.status = "unmounted" THEN "unmounted" ELSE "unsupported"

Detected(drives, findmnt) == \E d \in drives : System(d, findmnt)

(* What Build returns: Inventory, Disk and Volume of disks.go. *)
Volume == [name: STRING, uuid: STRING, mounts: Seq(Path), adoptable: BOOLEAN,
           status: {"system", "swap", "container", "unmounted", "mounted", "unsupported"}]

Disk == [name: STRING, system: BOOLEAN, volumes: SUBSET Volume,
         status: {"system", "available", "read-only", "unmounted", "unsupported"}]

Inventory == [detected: BOOLEAN, disks: SUBSET Disk]

(* Build: when no drive is the system's, no drive is offered. *)
Build(lsblk, findmnt) ==
  LET drives == {d \in lsblk : ~skipTopLevel(d)}
      detected == Detected(drives, findmnt)
  IN [detected |-> detected,
      disks |-> {[name |-> d.top, system |-> System(d, findmnt), status |-> DiskStatus(d, findmnt),
                  volumes |-> Volumes(d, findmnt, detected)] : d \in drives}]
===============================================================================
