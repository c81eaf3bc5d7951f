------------------------------ MODULE DiskSetup ------------------------------
(***************************************************************************)
(* The partitioning operations of a recipe's setup phase on one GPT disk:  *)
(* mkpart, rm, resizepart, namepart, setflag, setlabel and format, run one *)
(* after the other by RunSetup.                                            *)
(*                                                                         *)
(* Albius keeps two copies of what the disk says: `snap', the partition    *)
(* list read by LocateDisk, and `part', the Partition it works on.  The    *)
(* world has three more: the partition table parted edits, the partitions  *)
(* the kernel knows of (what lsblk lists and what mkfs opens), and what is *)
(* written inside each partition.  They change at different times, and the *)
(* program runs one command at a time between them.                        *)
(***************************************************************************)
EXTENDS Naturals, FiniteSets, DevicePaths, FileSystems

CONSTANTS
  MaxPart,      \* number of partitions the table has room for
  DiskPath,     \* the disk's path, as the runs of DevicePaths
  FoundFs,      \* file system types found on the disk at first
  MaxOps        \* bound on the operations explored

ASSUME MaxPartAssumption == MaxPart \in Nat \ {0}
ASSUME MaxOpsAssumption == MaxOps \in Nat
ASSUME FoundFsAssumption == FoundFs \subseteq FsTypes
ASSUME DiskPathAssumption == \A n \in 1..MaxPart : RoundTrips(DiskPath, n)

PartNum == 1..MaxPart
EntryOps == {"resizepart", "namepart", "setflag"}
Kinds    == EntryOps \cup {"mkpart", "rm", "setlabel", "format"}

(* One entry of the recipe's setup list.  Fields an operation does not     *)
(* take hold 0, NoFs or NoName; namepart, resizepart and setflag all       *)
(* replace the entry's attributes, of which `name' stands for any.         *)
Op == [kind : {"mkpart"}, num : {0}, fs : Fs, name : Name]
        \cup [kind : {"rm"}, num : PartNum, fs : {NoFs}, name : {NoName}]
        \cup [kind : EntryOps \cup {"setlabel"}, num : PartNum,
              fs : {NoFs}, name : Names]
        \cup [kind : {"format"}, num : PartNum, fs : FsTypes, name : Name]
NoOp == [kind |-> "none", num |-> 0, fs |-> NoFs, name |-> NoName]

VARIABLES
  table,      \* numbers in the partition table
  node,       \* what the kernel has under each number
  holders,    \* partitions with a mapping or logical volume on top
  content,    \* what is written inside each partition
  entry,      \* the attributes of each table entry
  pc,         \* the command the program runs next
  op,         \* the operation of the recipe it is in
  snap,       \* numbers in Disk.Partitions
  part,       \* the *Partition it works on
  began,      \* history: the world when the operation began
  ops         \* operations begun so far

world == <<table, node, holders, content, entry>>
vars  == <<table, node, holders, content, entry, pc, op, snap, part, began,
           ops>>

World ==
  [table |-> table, node |-> node, holders |-> holders, content |-> content,
   entry |-> entry]

Running == {"mkpart", "probe", "wait", "update", "mkfs", "setlabel", "name",
            "edit", "rm"}
PCs     == Running \cup {"idle", "done", "failed"}
NodeState == {"absent", "stale", "current"}
WorldType == [table : SUBSET PartNum, node : [PartNum -> NodeState],
              holders : SUBSET PartNum, content : [PartNum -> Content],
              entry : [PartNum -> Name]]

NoPart  == [num |-> 0, fs |-> NoFs]
NoWorld == [table |-> {}, node |-> [n \in PartNum |-> "absent"], holders |-> {},
            content |-> [n \in PartNum |-> Blank],
            entry |-> [n \in PartNum |-> NoName]]

(* The lines `lsblk -nr' prints under the disk, itself not counted.        *)
Lines == Cardinality({n \in PartNum : node[n] # "absent"})
           + Cardinality(holders)

(* parted gives a new partition the lowest free number.                    *)
IsFirstFree(n) ==
  n \in PartNum \ table /\ \A m \in PartNum : m < n => m \in table

IsLast(n, S) == n \in S /\ \A m \in S : m <= n

-----------------------------------------------------------------------------
(* A disk between two installs: any table, the kernel up to date with it   *)
(* or still holding an entry that has been replaced or removed.            *)
Init ==
  /\ table \in SUBSET PartNum
  /\ node \in [PartNum -> NodeState]
  /\ \A n \in table : node[n] # "absent"
  /\ \A n \in PartNum \ table : node[n] # "current"
  /\ holders \in SUBSET {n \in PartNum : node[n] # "absent"}
  /\ content \in [PartNum -> [fs : FoundFs, label : {NoName}]]
  /\ entry = [n \in PartNum |-> NoName]
  /\ pc = "idle"
  /\ op = NoOp
  /\ snap = {}
  /\ part = NoPart
  /\ began = NoWorld
  /\ ops = 0

(* LocateDisk and the jump on the operation's name.  GetPartition returns  *)
(* nil for a number that is not in the list, and the caller dereferences   *)
(* it.                                                                     *)
First(o) ==
  CASE o.kind = "mkpart"   -> "mkpart"
    [] o.kind = "rm"       -> "rm"
    [] o.kind \in EntryOps -> "edit"
    [] o.kind = "setlabel" -> "setlabel"
    [] o.kind = "format"   -> "mkfs"

\* A slip: format forgets the type the recipe asks for.
SelectedAsFound(o) ==
  [num |-> o.num, fs |-> Reported(content[o.num].fs)]

(* The Partition LocateDisk decoded, with the type the recipe asks for     *)
(* written over it by format.                                              *)
Selected(o) ==
  [num |-> o.num,
   fs  |-> IF o.kind = "format" THEN o.fs ELSE Reported(content[o.num].fs)]

\* A slip: use what GetPartition returns without looking.
BeginUnchecked(o) ==
  /\ pc = "idle" /\ ops < MaxOps
  /\ op' = o
  /\ ops' = ops + 1
  /\ snap' = table
  /\ began' = World
  /\ pc' = First(o)
  /\ part' = IF o.num \in table THEN Selected(o) ELSE NoPart
  /\ UNCHANGED world

Begin(o) ==
  /\ pc = "idle" /\ ops < MaxOps
  /\ op' = o
  /\ ops' = ops + 1
  /\ snap' = table
  /\ began' = World
  /\ IF o.kind = "mkpart" THEN pc' = "mkpart" /\ part' = NoPart
     ELSE IF o.num \in table THEN pc' = First(o) /\ part' = Selected(o)
     ELSE pc' = "failed" /\ part' = NoPart
  /\ UNCHANGED world

-----------------------------------------------------------------------------
(* NewPartition: parted writes the entry and its name.  The area may hold  *)
(* what an earlier partition left in it.                                   *)
PartedMkpart ==
  /\ pc = "mkpart"
  /\ \E n \in PartNum :
       /\ IsFirstFree(n)
       /\ table' = table \cup {n}
       /\ entry' = [entry EXCEPT ![n] = op.name]
       /\ \E c \in {Blank, content[n]} : content' = [content EXCEPT ![n] = c]
  /\ pc' = "probe"
  /\ UNCHANGED <<node, holders, op, snap, part, began, ops>>

(* partprobe only asks: the kernel follows in KernelNotice.                *)
Partprobe ==
  /\ pc = "probe"
  /\ pc' = "wait"
  /\ UNCHANGED <<world, op, snap, part, began, ops>>

\* A slip: wait for exactly one line more than the list read before.
LeaveWaitOneMore ==
  /\ pc = "wait"
  /\ Lines = Cardinality(snap) + 1
  /\ pc' = "update"
  /\ UNCHANGED <<world, op, snap, part, began, ops>>

\* A slip: count the disk's own line too.
LeaveWaitCountingDisk ==
  /\ pc = "wait"
  /\ Lines + 1 # Cardinality(snap)
  /\ pc' = "update"
  /\ UNCHANGED <<world, op, snap, part, began, ops>>

(* waitForNewPartition: leave the loop once lsblk's count differs from the *)
(* list read when the operation began.                                     *)
LeaveWait ==
  /\ pc = "wait"
  /\ Lines # Cardinality(snap)
  /\ pc' = "update"
  /\ UNCHANGED <<world, op, snap, part, began, ops>>

AfterMkfs(o) == IF o.name = NoName THEN "done" ELSE "name"

\* A slip: pick the partition from the list read before parted ran.
UpdateStaleList ==
  /\ pc = "update"
  /\ \E n \in PartNum :
       /\ IsLast(n, IF snap = {} THEN table ELSE snap)
       /\ part' = [num |-> n, fs |-> op.fs]
  /\ snap' = table
  /\ pc' = IF op.fs = NoFs THEN AfterMkfs(op) ELSE "mkfs"
  /\ UNCHANGED <<world, op, began, ops>>

(* Update the list, take its last element as the new partition.            *)
Update ==
  /\ pc = "update"
  /\ snap' = table
  /\ \E n \in PartNum :
       /\ IsLast(n, snap')
       /\ part' = [num |-> n,
                   fs |-> IF op.fs = NoFs THEN Reported(content[n].fs)
                          ELSE op.fs]
  /\ pc' = IF op.fs = NoFs THEN AfterMkfs(op) ELSE "mkfs"
  /\ UNCHANGED <<world, op, began, ops>>

-----------------------------------------------------------------------------
(* The partitions a command that opens part.Path may write: the one the    *)
(* path names, or, through an entry the kernel has not refreshed, any that *)
(* now lies where that entry points, or none.                              *)
Written ==
  CASE node[part.num] = "current" -> {{part.num}}
    [] node[part.num] = "stale"   -> {{}} \cup {{n} : n \in table}
    [] node[part.num] = "absent"  -> {}

(* MakeFs, from NewPartition and from format.                              *)
MakeFs ==
  /\ pc = "mkfs"
  /\ part.fs \in Formattable
  /\ \E W \in Written :
       content' = [n \in PartNum |->
                     IF n \in W THEN [fs |-> part.fs, label |-> NoName]
                     ELSE content[n]]
  /\ pc' = IF op.kind = "format" /\ op.name = NoName THEN "done"
           ELSE "setlabel"
  /\ UNCHANGED <<table, node, holders, entry, op, snap, part, began, ops>>

AfterLabel(o) == IF o.kind = "mkpart" THEN AfterMkfs(o) ELSE "done"

SetLabel ==
  /\ pc = "setlabel"
  /\ CanLabel(part.fs, op.name)
  /\ \E W \in IF part.fs \in Unlabelled THEN {{}} ELSE Written :
       content' = [n \in PartNum |->
                     IF n \in W THEN Relabel(content[n], op.name)
                     ELSE content[n]]
  /\ pc' = AfterLabel(op)
  /\ UNCHANGED <<table, node, holders, entry, op, snap, part, began, ops>>

(* parted is given the disk and the number that SeparateDiskPart finds in  *)
(* the partition's path.                                                   *)
PartedNumber == SeparateDiskPart(FillPath(DiskPath, part.num))[2]

(* NamePartition at the end of NewPartition.                               *)
NamePartition ==
  /\ pc = "name"
  /\ entry' = [entry EXCEPT ![PartedNumber] = op.name]
  /\ pc' = "done"
  /\ UNCHANGED <<table, node, holders, content, op, snap, part, began, ops>>

(* resizepart, namepart, setflag.                                          *)
EditEntry ==
  /\ pc = "edit"
  /\ entry' = [entry EXCEPT ![PartedNumber] = op.name]
  /\ pc' = "done"
  /\ UNCHANGED <<table, node, holders, content, op, snap, part, began, ops>>

\* A slip: remove the last partition of the list.
RemoveLast ==
  /\ pc = "rm"
  /\ \E n \in PartNum :
       /\ IsLast(n, table)
       /\ table' = table \ {n}
       /\ node' = [node EXCEPT ![n] = IF @ = "current" THEN "stale" ELSE @]
  /\ pc' = "done"
  /\ UNCHANGED <<holders, content, entry, op, snap, part, began, ops>>

(* RemovePartition: the kernel drops the partition later.                  *)
RemovePartition ==
  /\ pc = "rm"
  /\ table' = table \ {PartedNumber}
  /\ node' = [node EXCEPT ![PartedNumber] = IF @ = "current" THEN "stale" ELSE @]
  /\ pc' = "done"
  /\ UNCHANGED <<holders, content, entry, op, snap, part, began, ops>>

-----------------------------------------------------------------------------
(* The Disk and the Partition are locals of runSetupOperation.             *)
Forget ==
  /\ op' = NoOp
  /\ snap' = {}
  /\ part' = NoPart
  /\ began' = NoWorld

(* The operation returned nil: RunSetup goes on to the next.               *)
Return ==
  /\ pc = "done"
  /\ pc' = "idle"
  /\ Forget
  /\ UNCHANGED <<world, ops>>

(* A command fails or the process dies: RunSetup returns the error and     *)
(* main panics.  What the operation did so far stays on the disk.          *)
Fail ==
  /\ pc \in Running \cup {"done"}
  /\ pc' = "failed"
  /\ UNCHANGED <<world, op, snap, part, began, ops>>

(* The installer is started again.                                         *)
Rerun ==
  /\ pc = "failed"
  /\ pc' = "idle"
  /\ Forget
  /\ UNCHANGED <<world, ops>>

(* The kernel and udev catch up with the table on an entry nobody uses.    *)
KernelNotice(n) ==
  /\ n \notin holders
  /\ node' = [node EXCEPT ![n] = IF n \in table THEN "current" ELSE "absent"]
  /\ node' # node
  /\ UNCHANGED <<table, holders, content, entry, pc, op, snap, part, began,
                 ops>>

(* Between two partitioning operations others (luks-format, the LVM        *)
(* operations, the previous install) stack a device on a partition.        *)
Stack(n) ==
  /\ pc = "idle"
  /\ node[n] = "current" /\ n \notin holders
  /\ holders' = holders \cup {n}
  /\ UNCHANGED <<table, node, content, entry, pc, op, snap, part, began, ops>>

Unstack(n) ==
  /\ pc = "idle"
  /\ n \in holders
  /\ holders' = holders \ {n}
  /\ UNCHANGED <<table, node, content, entry, pc, op, snap, part, began, ops>>

Program ==
  \/ \E o \in Op : Begin(o)
  \/ PartedMkpart \/ Partprobe \/ LeaveWait \/ Update
  \/ MakeFs \/ SetLabel \/ NamePartition \/ EditEntry \/ RemovePartition
  \/ Return \/ Fail \/ Rerun

Environment == \E n \in PartNum : KernelNotice(n) \/ Stack(n) \/ Unstack(n)

Next == Program \/ Environment

Spec == Init /\ [][Next]_vars

(* The wait loop polls without pause, and the kernel catches up.           *)
Fairness ==
  WF_vars(LeaveWait) /\ \A n \in PartNum : WF_vars(KernelNotice(n))

FairSpec == Spec /\ Fairness

-----------------------------------------------------------------------------
(* Every variable keeps its type, and the operations that work on a        *)
(* partition have one: none of them runs on the nil GetPartition returns.  *)
TypeOK ==
  /\ World \in WorldType
  /\ pc \in PCs
  /\ op \in Op \cup {NoOp}
  /\ snap \subseteq PartNum
  /\ part \in [num : PartNum \cup {0}, fs : Fs \cup {"linux-swap(v1)"}]
  /\ pc \in {"edit", "rm", "mkfs", "setlabel", "name"} => part.num \in PartNum
  /\ began \in WorldType
  /\ ops \in Nat

(* The numbers in use have no hole, as after `label' and a run of mkpart.  *)
Dense(w) == \A m, n \in PartNum : n \in w.table /\ m < n => m \in w.table

(* The kernel knows the table, and nothing is stacked on the partitions.   *)
Synced(w) ==
  \A n \in PartNum : w.node[n] = IF n \in w.table THEN "current" ELSE "absent"
Quiet(w) == Synced(w) /\ w.holders = {}

(* NewPartition (disk.go:238) formats, names and returns the last          *)
(* partition of the refreshed list.  When the numbers have no hole, that   *)
(* is the partition parted has just made, whatever the kernel knows.       *)
PickedMade ==
  /\ op.kind = "mkpart"
  /\ pc \in {"mkfs", "setlabel", "name"}
  /\ Dense(began)
  => /\ part.num \notin began.table
     /\ table = began.table \cup {part.num}

(* "NewPartition creates a new partition on Disk with the provided name,   *)
(* filesystem type" (disk.go:193): what it formats and names is no         *)
(* partition the disk had before.                                          *)
WorksOnNewPartition ==
  op.kind = "mkpart" /\ pc \in {"mkfs", "setlabel", "name"}
    => part.num \notin began.table

(* waitForNewPartition (disk.go:124-148) lets NewPartition go on only when *)
(* the kernel has every partition of the table, provided it had them all   *)
(* and nothing was stacked on the disk when the operation began.           *)
AwareWhenQuiet ==
  /\ op.kind = "mkpart"
  /\ pc \in {"update", "mkfs", "setlabel", "name", "done"}
  /\ Quiet(began)
  => \A n \in table : node[n] = "current"

(* "ensure the system is aware of it before proceeding" (disk.go:126): the *)
(* new partition, when the wait is over, is one the kernel knows, if it    *)
(* knew the others to begin with.                                          *)
AwareAfterWait ==
  op.kind = "mkpart" /\ pc = "update" /\ Synced(began)
    => \A n \in table \ began.table : node[n] = "current"

(* What the operations need to be certain of their partition.              *)
Prepared ==
  IF op.kind = "mkpart" THEN Dense(began) /\ Quiet(began)
  ELSE op.num \in began.table /\ began.node[op.num] = "current"

(* From its start to its end, its failure included, a prepared operation   *)
(* leaves the other partitions' entries and contents as they were.         *)
NoCollateral ==
  pc # "idle" /\ Prepared =>
    \A n \in began.table \ {op.num} :
      /\ n \in table
      /\ content[n] = began.content[n]
      /\ entry[n] = began.entry[n]

Labelled(n, fs) ==
  /\ content[n].fs = fs
  /\ op.name # NoName /\ fs \notin Unlabelled => content[n].label = op.name

(* What each operation promises once it has returned nil.                  *)
Promised ==
  CASE op.kind = "mkpart" ->
         \E n \in PartNum \ began.table :
           /\ table = began.table \cup {n}
           /\ entry[n] = op.name
           /\ op.fs # NoFs => Labelled(n, op.fs)
    [] op.kind = "rm" -> table = began.table \ {op.num}
    [] op.kind \in EntryOps -> table = began.table /\ entry[op.num] = op.name
    [] op.kind = "setlabel" ->
         table = began.table /\ Labelled(op.num, began.content[op.num].fs)
    [] op.kind = "format" -> table = began.table /\ Labelled(op.num, op.fs)

(* A prepared operation that returned nil has done what the recipe asked,  *)
(* on the partition the recipe meant.                                      *)
Delivered == pc = "done" /\ Prepared => Promised

(* waitForNewPartition's loop has no timeout: it ends because the kernel   *)
(* ends up with the new partition, whatever is stacked on the disk.        *)
WaitEnds == pc = "wait" ~> pc # "wait"
==============================================================================
