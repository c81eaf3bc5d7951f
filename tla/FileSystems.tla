----------------------------- MODULE FileSystems -----------------------------
(***************************************************************************)
(* What MakeFs and SetLabel do with each file system type, and the type    *)
(* parted prints for what they wrote.                                      *)
(***************************************************************************)
CONSTANTS
  FsTypes,      \* file system types recipes ask for
  Names,        \* partition names and file system labels of recipes
  NoName        \* the empty string

ASSUME NamesAssumption == NoName \notin Names
ASSUME FsTypesAssumption == "" \notin FsTypes

NoFs    == ""
Name    == Names \cup {NoName}
Fs      == FsTypes \cup {NoFs}
Content == [fs : Fs, label : Name]
Blank   == [fs |-> NoFs, label |-> NoName]

(* MakeFs has a command for these; any other type ends in an error.        *)
Formattable ==
  FsTypes \cap {"btrfs", "ext2", "ext3", "ext4", "fat16", "fat32",
                "linux-swap", "ntfs", "reiserfs", "xfs"}

(* SetLabel has a command for these.  The commands of the second set need  *)
(* a label, the others only print the old one when it is empty.            *)
Labellable ==
  FsTypes \cap {"btrfs", "ext2", "ext3", "ext4", "fat16", "fat32", "ntfs",
                "reiserfs", "xfs"}
NeedsLabel == {"reiserfs", "xfs"}

(* "There's no way to rename swap after it has been created": SetLabel     *)
(* returns nil without a command.                                          *)
Unlabelled == FsTypes \cap {"linux-swap"}

CanLabel(fs, label) ==
  \/ fs \in Unlabelled
  \/ fs \in Labellable /\ label # NoName
  \/ fs \in Labellable \ NeedsLabel /\ label = NoName

Relabel(c, label) == [c EXCEPT !.label = IF label = NoName THEN @ ELSE label]

(* The type parted prints for a file system, which becomes                 *)
(* Partition.Filesystem.  Swap is printed with its version.                *)
Reported(fs) == IF fs = "linux-swap" THEN "linux-swap(v1)" ELSE fs
==============================================================================
