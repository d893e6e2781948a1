-------------------------------- MODULE MCDrives -------------------------------
EXTENDS Drives, TLC

MCSpot == <<"mnt">>

N(name, type, fs, above, leaf, uuid) ==
  [name |-> name, type |-> type, fs |-> fs, mounts |-> << >>, ro |-> FALSE, above |-> above,
   leaf |-> leaf, empty |-> FALSE, uuid |-> uuid]

RO(n) == [n EXCEPT !.ro = TRUE]

(* A btrfs system that is also mounted elsewhere, an ext4 partition, and a *)
(* stick without a partition table.                                        *)
Desktop ==
  [drives |-> {[top |-> "a", nodes |-> {N("a", "disk", "", {}, FALSE, ""), N("a1", "part", "btrfs", {"a"}, TRUE, "u0")}],
               [top |-> "b", nodes |-> {N("b", "disk", "", {}, FALSE, ""), N("b1", "part", "ext4", {"b"}, TRUE, "u1")}],
               [top |-> "c", nodes |-> {N("c", "disk", "exfat", {}, TRUE, "")}]},
   data   |-> {"b1", "c"},
   mounts |-> ("a" :> << >> @@ "a1" :> << <<"srv">>, << >>, <<"home">> >> @@ "b" :> << >> @@ "b1" :> << >> @@ "c" :> << >>)]

(* Both drives are encrypted; the second also holds the swap of the system *)
(* when swap is TRUE.                                                      *)
Encrypted(swap) ==
  [drives |-> {[top |-> "a", nodes |-> {N("a", "disk", "", {}, FALSE, ""), N("a1", "part", "crypto_LUKS", {"a"}, FALSE, ""),
                                         N("root", "crypt", "btrfs", {"a", "a1"}, TRUE, "u0")}],
               [top |-> "b", nodes |-> {N("b", "disk", "", {}, FALSE, ""), N("b1", "part", "crypto_LUKS", {"b"}, FALSE, ""),
                                         N("v", "crypt", "ext4", {"b", "b1"}, TRUE, "u1"),
                                         N("b2", "part", "swap", {"b"}, TRUE, "")}],
               [top |-> "c", nodes |-> {RO(N("c", "disk", "", {}, FALSE, "")), N("c1", "part", "vfat", {"c"}, TRUE, "u2")}]},
   data   |-> {"v", "c1"},
   mounts |-> ("a" :> << >> @@ "a1" :> << >> @@ "root" :> << << >> >> @@ "b" :> << >> @@ "b1" :> << >> @@ "v" :> << >>
               @@ "b2" :> (IF swap THEN << <<"[SWAP]">> >> ELSE << >>) @@ "c" :> << >> @@ "c1" :> << >>)]

(* The same with the boot partition on a drive of its own. *)
TwoDrives ==
  [Desktop EXCEPT !.drives = @ \cup {[top |-> "d", nodes |-> {N("d", "disk", "", {}, FALSE, ""), N("d1", "part", "vfat", {"d"}, TRUE, "u3")}]},
                  !.mounts = @ @@ "d" :> << >> @@ "d1" :> << <<"boot">> >>]

(* A volume over two drives, the first of which is the system's. *)
Raid ==
  [drives |-> {[top |-> "a", nodes |-> {N("a", "disk", "", {}, FALSE, ""), N("a1", "part", "ext4", {"a"}, TRUE, "u0"),
                                         N("a2", "part", "linux_raid_member", {"a"}, FALSE, ""),
                                         N("md", "raid1", "ext4", {"a", "a2"}, TRUE, "u1")}],
               [top |-> "b", nodes |-> {N("b", "disk", "linux_raid_member", {}, FALSE, ""),
                                         N("md", "raid1", "ext4", {"b"}, TRUE, "u1")}]},
   data   |-> {"md"},
   mounts |-> ("a" :> << >> @@ "a1" :> << << >> >> @@ "a2" :> << >> @@ "md" :> << >> @@ "b" :> << >>)]

(* The machine with v mounted on /mnt from the start. *)
With(m, v) == [m EXCEPT !.mounts[v] = <<MCSpot>>]

As(m, lsblk, udev) == [drives |-> m.drives, data |-> m.data, mounts |-> m.mounts, lsblk |-> lsblk, udev |-> udev]

MCMachines ==
  {As(With(Desktop, "b1"), "all", TRUE), As(With(Desktop, "b1"), "one", TRUE), As(Desktop, "all", FALSE), As(TwoDrives, "one", TRUE),
   As(With(Encrypted(FALSE), "v"), "all", TRUE), As(Encrypted(FALSE), "none", FALSE),
   As(Encrypted(TRUE), "all", TRUE), As(With(Raid, "md"), "one", TRUE)}

ASSUME MCRecognised == \A m \in MCMachines : Recognised(m)

MCSpots == {MCSpot, <<"mnt", "Vault">>, <<"home">>}

MCContents == {<<"Vault">> :> k[1] @@ <<"Vault", "Photos">> :> k[2] :
                 k \in {<<"none", "none">>, <<"link", "none">>, <<"dir", "none">>, <<"dir", "file">>}}
===============================================================================
