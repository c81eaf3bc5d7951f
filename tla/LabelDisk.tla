------------------------------ MODULE LabelDisk ------------------------------
(***************************************************************************)
(* The label operation: unmount the disk's partitions, remove the volume   *)
(* groups and physical volumes on it, and write a new partition table.     *)
(* Each step is a command that the state of the machine may refuse, and    *)
(* what earlier steps did stays done.                                      *)
(***************************************************************************)
EXTENDS Naturals, Sequences, SequencesExt, LvmReports

CONSTANTS
  MaxPart,      \* partitions of the disk
  Other,        \* partitions of other disks
  Lookalike,    \* those whose path contains the disk's path, as
                \* /dev/sdaa1 contains /dev/sda
  Vg,           \* volume groups, each with one logical volume
  Places        \* paths where file systems are mounted, as sequences

Own  == 1..MaxPart
Part == Own \cup Other

ASSUME MaxPartAssumption == MaxPart \in Nat
ASSUME OtherAssumption == Other \cap Own = {} /\ Lookalike \subseteq Other
ASSUME VgAssumption == Vg \cap {"no pv", "free pv"} = {}
ASSUME PlacesAssumption == <<>> \notin Places

Nowhere == <<>>

VARIABLES
  table,        \* the disk's partitions
  pv,           \* each partition's volume group, "free pv" or "no pv"
  luks,         \* partitions that are LUKS containers
  open,         \* those that are open under luks-<uuid>
  at,           \* the places where a partition, or its open container, is
                \* mounted: a bind of one of its directories is one more
  lvAt,         \* where each volume group's volume is mounted
  vgs,          \* volume groups that exist
  prefixed,     \* LVM puts blanks before each row, as it does by default
  pc,
  number,       \* the partition UnmountPartition is at
  listed,       \* volume groups of Vgs() not looked at yet
  shown,        \* the physical volumes that Pvs() returns to Vgs()
  pvsToRemove,
  inUse,        \* history: something was in use when the operation began
  sole,         \* history: the machine's physical volumes, then, were all
                \* of one group and of the disk
  multiple      \* history: partitions that were mounted more than once, then

machine == <<table, luks, open, at, prefixed>>
lvm     == <<pv, vgs, lvAt>>
lists   == <<listed, shown>>
history == <<inUse, sole, multiple>>
vars    == <<machine, lvm, pc, number, lists, pvsToRemove, history>>

PvsOf(vg) == {p \in Part : pv[p] = vg}

(* strings.Contains(pv.Path, disk.Path)                                    *)
OfDisk(p) == p \in Own \cup Lookalike

(* Something else is mounted strictly below a place of a partition.  Its   *)
(* own mounts are not in the way: umount takes the last one first.         *)
InTheWay(p, place) ==
  \/ \E q \in Part \ {p} : \E other \in at[q] : IsStrictPrefix(place, other)
  \/ \E g \in vgs : lvAt[g] # Nowhere /\ IsStrictPrefix(place, lvAt[g])

(* lsblk lists the mountpoints of a partition and of all stacked on it.    *)
IsMounted(p) ==
  at[p] # {} \/ \E g \in vgs : pv[p] = g /\ lvAt[g] # Nowhere

AnythingMounted == \E p \in table : IsMounted(p)

(* A mount, an open container, a group in use that label will reach.       *)
AnythingInUse ==
  \/ AnythingMounted
  \/ table \cap open # {}
  \/ \E g \in vgs : lvAt[g] # Nowhere /\ \E p \in PvsOf(g) : OfDisk(p)

MountedTwice(p) == \E place, other \in at[p] : place # other

(* No physical volume but those of one group, all of them on the disk.     *)
OneGroup ==
  \E g \in Vg : \A p \in Part : pv[p] # "no pv" => pv[p] = g /\ p \in Own

-----------------------------------------------------------------------------
(* What an earlier system or an earlier run left: nothing is mounted from  *)
(* a physical volume or a closed container, each place is used once, and   *)
(* a volume group that exists has a physical volume.                       *)
Init ==
  /\ table \in SUBSET Own
  /\ pv \in [Part -> Vg \cup {"no pv", "free pv"}]
  /\ luks \in SUBSET {p \in Part : pv[p] = "no pv"}
  /\ open \in SUBSET luks
  /\ at \in [Part -> SUBSET Places]
  /\ vgs = {g \in Vg : PvsOf(g) # {}}
  /\ lvAt \in [Vg -> Places \cup {Nowhere}]
  /\ \A p \in Part :
       /\ at[p] # {} => pv[p] = "no pv" /\ (p \in luks => p \in open)
       /\ p \in Own \ table => at[p] = {} /\ pv[p] = "no pv" /\ p \notin luks
  /\ \A g \in Vg \ vgs : lvAt[g] = Nowhere
  /\ \A p, q \in Part : p # q => at[p] \cap at[q] = {}
  /\ \A p \in Part, g \in Vg : lvAt[g] \notin at[p]
  /\ \A g, h \in Vg : g # h /\ lvAt[g] # Nowhere => lvAt[g] # lvAt[h]
  /\ prefixed \in BOOLEAN
  /\ pc = "idle" /\ number = 1
  /\ listed = {} /\ shown = {} /\ pvsToRemove = {}
  /\ inUse = FALSE /\ sole = FALSE /\ multiple = {}

Begin ==
  /\ pc = "idle"
  /\ pc' = "unmount"
  /\ number' = 1 /\ listed' = {} /\ shown' = {} /\ pvsToRemove' = {}
  /\ inUse' = AnythingInUse /\ sole' = OneGroup
  /\ multiple' = {p \in table : MountedTwice(p)}
  /\ UNCHANGED <<machine, lvm>>

\* A slip: one step too many.
SkipUnmountedPastEnd ==
  /\ pc = "unmount" /\ number \in 1..MaxPart + 1
  /\ number \in table => ~IsMounted(number)
  /\ number' = number + 1
  /\ UNCHANGED <<machine, lvm, pc, lists, pvsToRemove, history>>

(* UnmountPartition, for the partitions in the order of their numbers: one *)
(* that is not mounted is left as it is, its container open or not.        *)
SkipUnmounted ==
  /\ pc = "unmount" /\ number \in Own
  /\ number \in table => ~IsMounted(number)
  /\ number' = number + 1
  /\ UNCHANGED <<machine, lvm, pc, lists, pvsToRemove, history>>

\* A slip: close a container without looking whether it is mounted.
CloseAnyway ==
  /\ pc = "unmount" /\ number \in table
  /\ number \in luks
  /\ pc' = "close refused"
  /\ UNCHANGED <<machine, lvm, number, lists, pvsToRemove, history>>

(* A LUKS partition's container is closed before it is unmounted, which    *)
(* cryptsetup refuses.                                                     *)
CloseMounted ==
  /\ pc = "unmount" /\ number \in table /\ IsMounted(number)
  /\ number \in luks
  /\ pc' = "close refused"
  /\ UNCHANGED <<machine, lvm, number, lists, pvsToRemove, history>>

\* A slip: a refusal of umount is not an error.
UmountCarryingOn ==
  /\ pc = "unmount" /\ number \in table /\ IsMounted(number)
  /\ number \notin luks
  /\ \/ /\ at[number] = {} \/ \E place \in at[number] : InTheWay(number, place)
        /\ UNCHANGED at
     \/ \E place \in at[number] :
          ~InTheWay(number, place) /\ at' = [at EXCEPT ![number] = @ \ {place}]
  /\ number' = number + 1
  /\ UNCHANGED <<table, luks, open, prefixed, lvm, pc, lists, pvsToRemove,
                 history>>

(* umount by the partition's path, which undoes one of its mounts, the     *)
(* last: which of them that is the model leaves open.  It is refused when  *)
(* something is mounted below, and for a physical volume, which is not     *)
(* mounted itself.                                                         *)
(* The loop goes on, whether that was the only mount or not.               *)
Umount ==
  /\ pc = "unmount" /\ number \in table /\ IsMounted(number)
  /\ number \notin luks
  /\ \/ /\ at[number] = {} \/ \E place \in at[number] : InTheWay(number, place)
        /\ pc' = "umount refused" /\ UNCHANGED <<at, number>>
     \/ \E place \in at[number] :
          /\ ~InTheWay(number, place)
          /\ at' = [at EXCEPT ![number] = @ \ {place}]
          /\ number' = number + 1
          /\ UNCHANGED pc
  /\ UNCHANGED <<table, luks, open, prefixed, lvm, lists, pvsToRemove, history>>

(* Vgs: the groups that keep their names, each with the physical volumes   *)
(* of its name among those that Pvs returns.  The rows that do not keep    *)
(* their name match no physical volume, and the loop passes over them.     *)
ListVgs ==
  /\ pc = "unmount" /\ number \notin Own
  /\ listed' \in Intact(vgs, prefixed)
  /\ shown' \in Intact({p \in Part : pv[p] # "no pv"}, prefixed)
  /\ pc' = "vgremove"
  /\ UNCHANGED <<machine, lvm, number, pvsToRemove, history>>

\* A slip: only look at groups that lie on one physical volume.
VgRemoveSmall ==
  /\ pc = "vgremove"
  /\ \E g \in listed :
       LET mine == {p \in PvsOf(g) \cap shown : OfDisk(p) /\ PvsOf(g) = {p}} IN
       /\ listed' = listed \ {g}
       /\ IF mine = {} THEN UNCHANGED <<lvm, pc, pvsToRemove>>
          ELSE IF lvAt[g] # Nowhere
          THEN pc' = "vgremove refused" /\ UNCHANGED <<lvm, pvsToRemove>>
          ELSE /\ vgs' = vgs \ {g}
               /\ pv' = [p \in Part |-> IF pv[p] = g THEN "free pv" ELSE pv[p]]
               /\ \E p \in mine : pvsToRemove' = pvsToRemove \cup {p}
               /\ UNCHANGED <<lvAt, pc>>
  /\ UNCHANGED <<machine, number, shown, history>>

(* A group with a physical volume of the disk is removed, unless its       *)
(* volume is in use.  The loop over its physical volumes ends at the first *)
(* that is of the disk, so one is remembered.                              *)
VgRemove ==
  /\ pc = "vgremove"
  /\ \E g \in listed :
       LET mine == {p \in PvsOf(g) \cap shown : OfDisk(p)} IN
       /\ listed' = listed \ {g}
       /\ IF mine = {} THEN UNCHANGED <<lvm, pc, pvsToRemove>>
          ELSE IF lvAt[g] # Nowhere
          THEN pc' = "vgremove refused" /\ UNCHANGED <<lvm, pvsToRemove>>
          ELSE /\ vgs' = vgs \ {g}
               /\ pv' = [p \in Part |-> IF pv[p] = g THEN "free pv" ELSE pv[p]]
               /\ \E p \in mine : pvsToRemove' = pvsToRemove \cup {p}
               /\ UNCHANGED <<lvAt, pc>>
  /\ UNCHANGED <<machine, number, shown, history>>

PvRemove ==
  /\ pc = "vgremove" /\ listed = {}
  /\ \E p \in pvsToRemove :
       /\ pv' = [pv EXCEPT ![p] = "no pv"]
       /\ pvsToRemove' = pvsToRemove \ {p}
  /\ UNCHANGED <<machine, vgs, lvAt, pc, number, lists, history>>

RemovedAll ==
  /\ pc = "vgremove" /\ listed = {} /\ pvsToRemove = {}
  /\ pc' = "mklabel"
  /\ UNCHANGED <<machine, lvm, number, lists, pvsToRemove, history>>

(* parted fails on a disk of which the kernel has a partition in use: one  *)
(* mounted, an open container, or a physical volume of a group, which has  *)
(* its volumes active or not.  A new table takes the partitions away and   *)
(* leaves what is written in their place.                                  *)
Mklabel ==
  /\ pc = "mklabel"
  /\ \/ /\ \E p \in table : IsMounted(p) \/ p \in open \/ pv[p] \in vgs
        /\ pc' = "mklabel refused" /\ UNCHANGED table
     \/ /\ \A p \in table : ~IsMounted(p) /\ p \notin open
        /\ pc' = "done" /\ table' = {}
  /\ UNCHANGED <<luks, open, at, prefixed, lvm, number, lists, pvsToRemove,
                 history>>

Fail ==
  /\ pc \in {"unmount", "vgremove", "mklabel"}
  /\ pc' = "failed"
  /\ UNCHANGED <<machine, lvm, number, lists, pvsToRemove, history>>

Refused == {"close refused", "umount refused", "vgremove refused",
            "mklabel refused"}

(* The installer is started again on what it left.                         *)
Rerun ==
  /\ pc \in {"failed", "done"} \cup Refused
  /\ pc' = "idle"
  /\ UNCHANGED <<machine, lvm, number, lists, pvsToRemove, history>>

(* The machine is started again: nothing is mounted, nothing open.         *)
Reboot ==
  /\ pc \in {"failed"} \cup Refused
  /\ pc' = "idle"
  /\ open' = {}
  /\ at' = [p \in Part |-> {}]
  /\ lvAt' = [g \in Vg |-> Nowhere]
  /\ UNCHANGED <<table, luks, prefixed, pv, vgs, number, lists, pvsToRemove,
                 history>>

Next ==
  \/ Begin \/ SkipUnmounted \/ CloseMounted \/ Umount \/ ListVgs \/ VgRemove
  \/ PvRemove \/ RemovedAll \/ Mklabel \/ Fail \/ Rerun \/ Reboot

Spec == Init /\ [][Next]_vars

-----------------------------------------------------------------------------
(* Every variable keeps its type; a group exists as long as it has         *)
(* physical volumes, and only existing groups are mounted.                 *)
TypeOK ==
  /\ table \subseteq Own
  /\ pv \in [Part -> Vg \cup {"no pv", "free pv"}]
  /\ luks \subseteq Part /\ open \subseteq luks
  /\ at \in [Part -> SUBSET Places]
  /\ lvAt \in [Vg -> Places \cup {Nowhere}]
  /\ vgs = {g \in Vg : PvsOf(g) # {}}
  /\ \A g \in Vg \ vgs : lvAt[g] = Nowhere
  /\ pc \in {"idle", "unmount", "vgremove", "mklabel", "done", "failed"}
              \cup Refused
  /\ number \in 1..MaxPart + 1
  /\ listed \subseteq Vg /\ shown \subseteq Part /\ pvsToRemove \subseteq Part
  /\ prefixed \in BOOLEAN /\ inUse \in BOOLEAN /\ sole \in BOOLEAN
  /\ multiple \subseteq Own

(* When parted is run to write the table (disk.go:185), no partition is    *)
(* mounted any more, directly or through a logical volume, but those that  *)
(* had more than one mount when label was called: umount is run once for   *)
(* each (partition.go:147), and a refusal of it ends the operation.        *)
SinglesUnmounted ==
  pc = "mklabel" => \A p \in table \ multiple : ~IsMounted(p)

NoGroupLeft == \A g \in vgs : PvsOf(g) \cap Own = {}

(* When the table is gone, no group that survives had a physical volume on *)
(* the disk (disk.go:160-183), if LVM's rows come without blanks or if     *)
(* there was nothing on the machine but one group of this disk.            *)
NoGroupTorn == pc = "done" /\ (~prefixed \/ sole) => NoGroupLeft

(* "Remove VGs and PVs belonging to disk" (disk.go:160), each with its     *)
(* physical volumes ("Filter Pvs matching Vg", lvm.go:191): the same,      *)
(* however LVM prints its rows and whatever else the machine has.          *)
GroupsRemoved == pc = "done" => NoGroupLeft

(* The label is only ever refused for something that was in use when it    *)
(* was asked for, or for a group that the listing missed: what an earlier  *)
(* label that failed half way has removed does not stand in the way of     *)
(* the next (disk.go:150-191).                                             *)
RefusedOnlyInUse == pc \in Refused => inUse \/ (prefixed /\ ~sole)

(* "Unmount partitions" (disk.go:153), "Pass unmount operation to          *)
(* cryptsetup if it's a LUKS-encrypted partition" (partition.go:124): with *)
(* nothing mounted but the disk's own file systems, label is not refused   *)
(* on their account, and when parted is run none is left.                  *)
OwnMountsUnmounted ==
  \/ pc = "close refused"
  \/ pc = "umount refused" /\ at[number] # {}
  \/ pc = "mklabel" /\ \E p \in table : at[p] # {}
  => \/ \E p \in Other : at[p] # {}
     \/ \E g \in vgs : lvAt[g] # Nowhere
==============================================================================
