--------------------------- MODULE DiskSetupProofs ---------------------------
(***************************************************************************)
(* Theorems about DiskSetup, for a table of any size, any file system      *)
(* types and names, and any number of operations.                          *)
(*                                                                         *)
(* TypeOK is inductive by itself once the program counter is tied to the   *)
(* kind of operation (Dispatched).  PickedMade, AwareWhenQuiet and         *)
(* NoCollateral need to know what an operation in progress has done to the *)
(* table so far (Progress), what the kernel knows meanwhile (Known) and    *)
(* which partition the operation is on (OnTarget); Delivered also needs    *)
(* what it has written there so far (MakingDeeds, OtherDeeds).             *)
(*                                                                         *)
(* Two theorems are about functions: taking device paths apart, and the    *)
(* free ranges of a disk (Sectors).                                        *)
(***************************************************************************)
EXTENDS DiskSetup, Sectors, SequenceFacts, SequenceTheorems, FiniteSetTheorems, TLAPS

(* Which operations reach which command.                                   *)
Dispatched ==
  /\ pc \in Running \cup {"done"} => op \in Op
  /\ pc \in {"mkpart", "probe", "wait", "update", "name"} => op.kind = "mkpart"
  /\ pc = "rm" => op.kind = "rm"
  /\ pc = "edit" => op.kind \in EntryOps
  /\ pc = "mkfs" => op.kind \in {"mkpart", "format"}
  /\ pc = "setlabel" => op.kind \in {"mkpart", "format", "setlabel"}

TypeInv == TypeOK /\ Dispatched

(* The partition mkpart made is the first free number of the old table.    *)
Made(n) ==
  /\ n \in PartNum \ began.table
  /\ \A m \in PartNum : m < n => m \in began.table
  /\ table = began.table \cup {n}

Making == {"probe", "wait", "update", "mkfs", "setlabel", "name", "done"}

Progress ==
  op.kind = "mkpart" =>
    /\ pc = "mkpart" => table = began.table
    /\ pc \in {"mkpart", "probe", "wait"} => snap = began.table
    /\ pc \in Making => \E n \in PartNum : Made(n)
    /\ pc \in {"mkfs", "setlabel", "name"} /\ Dense(began) => Made(part.num)

(* In a quiet world only the new partition can be unknown to the kernel,   *)
(* and only until the wait is over.                                        *)
Known ==
  op.kind = "mkpart" /\ Quiet(began) /\ pc \in {"mkpart"} \cup Making =>
    /\ holders = {}
    /\ \A n \in PartNum :
         /\ n \in began.table => node[n] = "current"
         /\ n \notin table => node[n] = "absent"
         /\ n \in table => node[n] # "stale"
         /\ n \in table /\ pc \notin {"mkpart", "probe", "wait"}
              => node[n] = "current"

(* Operations other than mkpart work on the partition the recipe names.    *)
OnTarget ==
  op.kind # "mkpart" /\ pc \in Running =>
    /\ part.num = op.num
    /\ part.num \in table
    /\ Prepared => node[part.num] = "current"

(* What a prepared mkpart has done so far to the partition it made.        *)
MakingDeeds ==
  op.kind = "mkpart" /\ Prepared =>
    /\ pc \in Making => \A n \in PartNum : Made(n) => entry[n] = op.name
    /\ pc \in {"mkfs", "setlabel"} => part.fs = op.fs /\ op.fs # NoFs
    /\ pc = "setlabel" => content[part.num].fs = op.fs
    /\ pc \in {"name", "done"} /\ op.fs # NoFs
         => \A n \in PartNum : Made(n) => Labelled(n, op.fs)

(* And any other prepared operation to the partition the recipe names.     *)
OtherDeeds ==
  op.kind # "mkpart" /\ Prepared /\ pc \in Running =>
    /\ table = began.table
    /\ op.kind = "format" => part.fs = op.fs
    /\ op.kind = "format" /\ pc = "setlabel" => content[op.num].fs = op.fs
    /\ op.kind = "setlabel" =>
         /\ part.fs = Reported(began.content[op.num].fs)
         /\ content[op.num] = began.content[op.num]

-----------------------------------------------------------------------------
(* Of a path of at least k runs, the first k.                              *)
LEMMA FirstRuns ==
  ASSUME NEW S, NEW path \in Seq(S), NEW k \in 1..Len(path)
  PROVE  /\ SubSeq(path, 1, k) \in Seq(S) /\ Len(SubSeq(path, 1, k)) = k
         /\ \A i \in 1..k : SubSeq(path, 1, k)[i] = path[i]
<1>1. \A i \in 1..k : path[i] \in S
  OBVIOUS
<1>2. k \in Nat /\ 1 <= k /\ k - 1 + 1 = k /\ \A i \in 1..k : 1 + i - 1 = i
  OBVIOUS
<1>. QED
  BY <1>1, <1>2, SubSeqProperties

(* SeparateDiskPart (util.go:62) gives back the disk and the number that   *)
(* FillPath (partition.go:216) has put together exactly when the disk's    *)
(* name is one run, as sda, or has the form of nvme0n1.  So these are the  *)
(* disks of DiskPathAssumption: on any other, mmcblk0 or loop0, the        *)
(* commands that are given a disk and a number get a wrong name.          *)
THEOREM PathsRecoveredExactly ==
  ASSUME NEW Run, NEW base \in Seq(Run), base # <<>>, NEW n
  PROVE  RoundTrips(base, n) <=>
           \/ Len(base) = 1
           \/ Len(base) = 4 /\ IsNum(base[2]) /\ IsLetter(base[3]) /\ IsNum(base[4])
<1>. DEFINE path == FillPath(base, n)
            len  == Len(base)
            Runs == Run \cup {Letter("p"), Num(n)}
<1>1. base \in Seq(Runs) /\ len \in Nat /\ len >= 1
  OBVIOUS
<1>2. /\ path \in Seq(Runs)
      /\ Len(path) \in {len + 1, len + 2} /\ path[Len(path)] = Num(n)
      /\ \A i \in 1..len : path[i] = base[i]
  <2>. HIDE DEF Runs
  <2>1. CASE IsNum(base[len])
    <3>1. path = base \o <<Letter("p"), Num(n)>>
      BY <2>1 DEF FillPath
    <3>2. <<Letter("p"), Num(n)>> \in Seq(Runs)
      BY DEF Runs
    <3>. QED
      BY <1>1, <3>1, <3>2
  <2>2. CASE ~IsNum(base[len])
    <3>1. path = base \o <<Num(n)>>
      BY <2>2 DEF FillPath
    <3>2. <<Num(n)>> \in Seq(Runs)
      BY DEF Runs
    <3>. QED
      BY <1>1, <3>1, <3>2
  <2>. QED
    BY <2>1, <2>2
<1>. HIDE DEF path, Runs
<1>3. PartExpr(path) = n
  BY <1>2 DEF PartExpr, IsNum, Num
<1>4. RoundTrips(base, n) <=> DiskExpr(path) = base
  BY <1>3 DEF RoundTrips, SeparateDiskPart, path
<1>. DEFINE long == Len(path) >= 4 /\ IsNum(path[2]) /\ IsLetter(path[3]) /\ IsNum(path[4])
<1>5. CASE long
  <2>1. /\ DiskExpr(path) \in Seq(Runs) /\ Len(DiskExpr(path)) = 4
        /\ \A i \in 1..4 : DiskExpr(path)[i] = path[i]
    <3>1. DiskExpr(path) = SubSeq(path, 1, 4)
      BY <1>5 DEF DiskExpr
    <3>2. 4 \in 1..Len(path)
      BY <1>1, <1>2, <1>5
    <3>. QED
      BY <1>2, <3>1, <3>2, FirstRuns
  <2>2. len = 4 => DiskExpr(path) = base
    BY <1>1, <1>2, <2>1
  <2>3. len = 4 => IsNum(base[2]) /\ IsLetter(base[3]) /\ IsNum(base[4])
    BY <1>2, <1>5
  <2>4. len # 1
    BY <1>2, <1>5
  <2>. QED
    BY <1>4, <2>1, <2>2, <2>3, <2>4
<1>6. CASE ~long
  <2>1. /\ DiskExpr(path) \in Seq(Runs) /\ Len(DiskExpr(path)) = 1
        /\ \A i \in 1..1 : DiskExpr(path)[i] = path[i]
    <3>1. DiskExpr(path) = SubSeq(path, 1, 1)
      BY <1>6 DEF DiskExpr
    <3>2. 1 \in 1..Len(path)
      BY <1>1, <1>2
    <3>. QED
      BY <1>2, <3>1, <3>2, FirstRuns
  <2>2. len = 1 => DiskExpr(path) = base
    BY <1>1, <1>2, <2>1
  <2>3. ~(len = 4 /\ IsNum(base[2]) /\ IsLetter(base[3]) /\ IsNum(base[4]))
    BY <1>2, <1>6
  <2>. QED
    BY <1>4, <2>1, <2>2, <2>3
<1>. QED
  BY <1>5, <1>6

-----------------------------------------------------------------------------
LEMMA OpFields ==
  ASSUME NEW o \in Op
  PROVE  /\ o.kind \in Kinds
         /\ o.num \in PartNum \cup {0}
         /\ o.fs \in Fs
         /\ o.name \in Name
         /\ o.kind # "mkpart" => o.num \in PartNum
         /\ o.kind \in EntryOps \cup {"setlabel"} => o.name \in Names
         /\ o.kind = "format" => o.fs \in FsTypes
BY DEF Op, Kinds, EntryOps, Fs, Name

LEMMA ReportedType ==
  ASSUME NEW f \in Fs
  PROVE  Reported(f) \in Fs \cup {"linux-swap(v1)"}
BY DEF Reported

(* The number given to parted is the partition's own.                      *)
LEMMA PartedNumberIs ==
  ASSUME part.num \in PartNum
  PROVE  PartedNumber = part.num
<1>1. RoundTrips(DiskPath, part.num)
  BY DiskPathAssumption DEF PartNum
<1>2. SeparateDiskPart(FillPath(DiskPath, part.num)) = <<DiskPath, part.num>>
  BY <1>1 DEF RoundTrips
<1>. QED
  BY <1>2 DEF PartedNumber

(* The conjuncts of TypeOK that concern the world, one by one.             *)
LEMMA WorldFields ==
  World \in WorldType <=>
    /\ table \in SUBSET PartNum
    /\ node \in [PartNum -> NodeState]
    /\ holders \in SUBSET PartNum
    /\ content \in [PartNum -> Content]
    /\ entry \in [PartNum -> Name]
BY DEF World, WorldType

-----------------------------------------------------------------------------
LEMMA TypeInit == Init => TypeInv
<1>. SUFFICES ASSUME Init PROVE TypeInv
  OBVIOUS
<1>1. World \in WorldType
  <2>1. content \in [PartNum -> Content]
    BY FoundFsAssumption DEF Init, Content, Fs, Name
  <2>2. entry \in [PartNum -> Name]
    BY DEF Init, Name
  <2>. QED
    BY <2>1, <2>2, WorldFields DEF Init
<1>2. began \in WorldType
  BY DEF Init, NoWorld, WorldType, NodeState, Content, Blank, Fs, Name
<1>3. part \in [num : PartNum \cup {0}, fs : Fs \cup {"linux-swap(v1)"}]
  BY DEF Init, NoPart, Fs
<1>4. pc = "idle" /\ op = NoOp /\ snap = {} /\ ops = 0
  BY DEF Init
<1>. QED
  BY <1>1, <1>2, <1>3, <1>4 DEF TypeInv, TypeOK, Dispatched, PCs, Running

LEMMA TypeNext == TypeInv /\ [Next]_vars => TypeInv'
<1>. SUFFICES ASSUME TypeInv, [Next]_vars PROVE TypeInv'
  OBVIOUS
<1>. USE DEF TypeInv, TypeOK, PCs, Running
<1>w. /\ table \in SUBSET PartNum
      /\ node \in [PartNum -> NodeState]
      /\ holders \in SUBSET PartNum
      /\ content \in [PartNum -> Content]
      /\ entry \in [PartNum -> Name]
  BY WorldFields
<1>v. (World \in WorldType)' <=>
        /\ table' \in SUBSET PartNum
        /\ node' \in [PartNum -> NodeState]
        /\ holders' \in SUBSET PartNum
        /\ content' \in [PartNum -> Content]
        /\ entry' \in [PartNum -> Name]
  BY DEF World, WorldType
<1>1. ASSUME NEW o \in Op, Begin(o) PROVE TypeInv'
  <2>1. part' \in [num : PartNum \cup {0}, fs : Fs \cup {"linux-swap(v1)"}]
    <3>1. CASE part' = NoPart
      BY <3>1 DEF NoPart, Fs
    <3>2. CASE o.num \in table /\ part' = Selected(o)
      <4>1. content[o.num].fs \in Fs
        BY <1>w, <3>2 DEF Content
      <4>2. Reported(content[o.num].fs) \in Fs \cup {"linux-swap(v1)"}
        BY <4>1, ReportedType
      <4>. QED
        BY <1>w, <3>2, <4>2, OpFields DEF Selected
    <3>. QED
      BY <1>1, <3>1, <3>2 DEF Begin
  <2>2. pc' \in PCs /\ Dispatched'
    BY <1>1, OpFields DEF Begin, First, Dispatched, Kinds, EntryOps
  <2>3. pc' \in {"edit", "rm", "mkfs", "setlabel", "name"} => part'.num \in PartNum
    BY <1>1, <1>w, OpFields DEF Begin, First, Selected, Kinds, EntryOps
  <2>4. began' \in WorldType /\ snap' \subseteq PartNum /\ ops' \in Nat /\ op' \in Op
    BY <1>1, <1>w DEF Begin
  <2>5. (World \in WorldType)'
    BY <1>1, <1>w, <1>v DEF Begin, world
  <2>. QED
    BY <2>1, <2>2, <2>3, <2>4, <2>5
<1>2. CASE PartedMkpart
  <2>1. /\ table' \in SUBSET PartNum
        /\ content' \in [PartNum -> Content]
        /\ entry' \in [PartNum -> Name]
    BY <1>2, <1>w, OpFields
    DEF PartedMkpart, IsFirstFree, Dispatched, Blank, Content, Fs, Name
  <2>. QED
    BY <1>2, <1>w, <1>v, <2>1 DEF PartedMkpart, Dispatched
<1>3. CASE Partprobe
  BY <1>3, <1>w, <1>v DEF Partprobe, Dispatched, world
<1>4. CASE LeaveWait
  BY <1>4, <1>w, <1>v DEF LeaveWait, Dispatched, world
<1>5. CASE Update
  <2>1. PICK n \in PartNum :
          part' = [num |-> n, fs |-> IF op.fs = NoFs THEN Reported(content[n].fs)
                                     ELSE op.fs]
    BY <1>5 DEF Update
  <2>2. content[n].fs \in Fs /\ op.fs \in Fs
    BY <1>5, <1>w, OpFields DEF Update, Dispatched, Content
  <2>3. part' \in [num : PartNum, fs : Fs \cup {"linux-swap(v1)"}]
    BY <2>1, <2>2, ReportedType
  <2>. QED
    BY <1>5, <1>w, <1>v, <2>3 DEF Update, AfterMkfs, Dispatched, world
<1>6. CASE MakeFs
  <2>1. content' \in [PartNum -> Content]
    BY <1>6, <1>w DEF MakeFs, Formattable, Content, Fs, Name
  <2>. QED
    BY <1>6, <1>w, <1>v, <2>1 DEF MakeFs, Dispatched
<1>7. CASE SetLabel
  <2>1. op.name \in Name
    BY <1>7, OpFields DEF SetLabel, Dispatched
  <2>2. content' \in [PartNum -> Content]
    BY <1>7, <1>w, <2>1 DEF SetLabel, Relabel, Content
  <2>. QED
    BY <1>7, <1>w, <1>v, <2>2 DEF SetLabel, AfterLabel, AfterMkfs, Dispatched
<1>8. CASE NamePartition
  <2>1. op.name \in Name
    BY <1>8, OpFields DEF NamePartition, Dispatched
  <2>. QED
    BY <1>8, <1>w, <1>v, <2>1 DEF NamePartition, Dispatched
<1>9. CASE EditEntry
  <2>1. op.name \in Name
    BY <1>9, OpFields DEF EditEntry, Dispatched
  <2>. QED
    BY <1>9, <1>w, <1>v, <2>1 DEF EditEntry, Dispatched
<1>10. CASE RemovePartition
  <2>1. node' \in [PartNum -> NodeState]
    BY <1>10, <1>w DEF RemovePartition, NodeState
  <2>. QED
    BY <1>10, <1>w, <1>v, <2>1 DEF RemovePartition, Dispatched
<1>11. ASSUME Return \/ Rerun PROVE TypeInv'
  <2>1. op' = NoOp /\ snap' = {} /\ part' = NoPart /\ began' = NoWorld
    BY <1>11 DEF Return, Rerun, Forget
  <2>2. began' \in WorldType
    BY <2>1 DEF NoWorld, WorldType, NodeState, Content, Blank, Fs, Name
  <2>3. part' \in [num : PartNum \cup {0}, fs : Fs \cup {"linux-swap(v1)"}]
    BY <2>1 DEF NoPart, Fs
  <2>. QED
    BY <1>11, <1>w, <1>v, <2>1, <2>2, <2>3 DEF Return, Rerun, Dispatched, world
<1>12. CASE Fail
  BY <1>12, <1>w, <1>v DEF Fail, Dispatched, world
<1>13. ASSUME NEW n \in PartNum, KernelNotice(n) PROVE TypeInv'
  <2>1. node' \in [PartNum -> NodeState]
    BY <1>13, <1>w DEF KernelNotice, NodeState
  <2>. QED
    BY <1>13, <1>w, <1>v, <2>1 DEF KernelNotice, Dispatched
<1>14. ASSUME NEW n \in PartNum, Stack(n) \/ Unstack(n) PROVE TypeInv'
  BY <1>14, <1>w, <1>v DEF Stack, Unstack, Dispatched
<1>15. CASE UNCHANGED vars
  BY <1>15, <1>w, <1>v DEF vars, Dispatched
<1>. QED
  BY <1>1, <1>2, <1>3, <1>4, <1>5, <1>6, <1>7, <1>8, <1>9, <1>10, <1>11, <1>12,
     <1>13, <1>14, <1>15 DEF Next, Program, Environment

LEMMA TypeInvariant == Spec => []TypeInv
BY TypeInit, TypeNext, PTL DEF Spec

(* Every variable keeps its type, and no operation works on the nil that   *)
(* GetPartition returns for a number the disk does not have.               *)
THEOREM TypeCorrect == Spec => []TypeOK
<1>1. TypeInv => TypeOK
  BY DEF TypeInv
<1>. QED
  BY TypeInvariant, <1>1, PTL

-----------------------------------------------------------------------------
(* A mkpart in progress has made one partition, the first free one, and    *)
(* works on it if the old table had no hole.                               *)
LEMMA ProgressNext == TypeInv /\ Progress /\ [Next]_vars => Progress'
<1>. SUFFICES ASSUME TypeInv, Progress, [Next]_vars PROVE Progress'
  OBVIOUS
<1>. USE DEF Making
<1>t. table \in SUBSET PartNum /\ Dispatched /\ pc \in PCs
  BY WorldFields DEF TypeInv, TypeOK
<1>1. ASSUME NEW o \in Op, Begin(o) PROVE Progress'
  <2>1. op' = o /\ snap' = table /\ table' = table /\ began' = World
    BY <1>1 DEF Begin, world
  <2>2. began'.table = table
    BY <2>1 DEF World
  <2>3. o.kind = "mkpart" => pc' = "mkpart"
    BY <1>1 DEF Begin
  <2>. QED
    BY <2>1, <2>2, <2>3 DEF Progress
<1>2. CASE PartedMkpart
  <2>1. op.kind = "mkpart" /\ table = began.table /\ snap = began.table
    BY <1>2, <1>t DEF PartedMkpart, Dispatched, Progress
  <2>2. PICK n \in PartNum : IsFirstFree(n) /\ table' = table \cup {n}
    BY <1>2 DEF PartedMkpart
  <2>3. Made(n)'
    BY <1>2, <2>1, <2>2 DEF PartedMkpart, Made, IsFirstFree
  <2>. QED
    BY <1>2, <2>1, <2>3 DEF PartedMkpart, Progress
<1>3. ASSUME Partprobe \/ LeaveWait PROVE Progress'
  BY <1>3, <1>t DEF Partprobe, LeaveWait, world, Progress, Made, Dispatched
<1>5. CASE Update
  <2>1. op.kind = "mkpart"
    BY <1>5, <1>t DEF Update, Dispatched
  <2>2. PICK n \in PartNum : Made(n)
    BY <1>5, <2>1 DEF Update, Progress
  <2>3. /\ table' = table /\ began' = began /\ op' = op
        /\ pc' \in {"mkfs", "name", "done"}
    BY <1>5 DEF Update, world, AfterMkfs
  <2>4. PICK k \in PartNum : IsLast(k, table) /\ part'.num = k
    <3>1. PICK k \in PartNum :
            /\ IsLast(k, snap')
            /\ part' = [num |-> k,
                        fs |-> IF op.fs = NoFs THEN Reported(content[k].fs)
                               ELSE op.fs]
      BY <1>5 DEF Update
    <3>2. part'.num = k /\ snap' = table
      BY <1>5, <3>1 DEF Update
    <3>. QED
      BY <3>1, <3>2
  <2>5. ASSUME Dense(began) PROVE k = n
    <3>1. n <= k
      BY <2>2, <2>4 DEF Made, IsLast
    <3>2. ~(n < k)
      BY <2>2, <2>4, <2>5 DEF Made, IsLast, Dense, PartNum
    <3>. QED
      BY <3>1, <3>2 DEF PartNum
  <2>6. Made(n)'
    BY <2>2, <2>3 DEF Made
  <2>7. Dense(began)' => Made(part.num)'
    <3>1. Dense(began)' <=> Dense(began)
      BY <2>3 DEF Dense
    <3>. QED
      BY <3>1, <2>3, <2>2, <2>4, <2>5 DEF Made
  <2>. QED
    BY <2>3, <2>6, <2>7 DEF Progress
<1>6. ASSUME MakeFs \/ SetLabel \/ NamePartition PROVE Progress'
  <2>1. /\ table' = table /\ began' = began /\ op' = op /\ part' = part
        /\ pc \in {"mkfs", "setlabel", "name"}
        /\ pc' \in {"setlabel", "name", "done"}
    BY <1>6 DEF MakeFs, SetLabel, NamePartition, AfterLabel, AfterMkfs
  <2>. QED
    BY <2>1 DEF Progress, Made, Dense
<1>7. ASSUME EditEntry \/ RemovePartition PROVE Progress'
  <2>1. op.kind # "mkpart" /\ op' = op
    BY <1>7, <1>t DEF EditEntry, RemovePartition, Dispatched, EntryOps
  <2>. QED
    BY <2>1 DEF Progress
<1>8. ASSUME Return \/ Rerun PROVE Progress'
  BY <1>8 DEF Return, Rerun, Forget, NoOp, Progress
<1>9. CASE Fail
  BY <1>9 DEF Fail, world, Progress
<1>10. ASSUME NEW n \in PartNum, KernelNotice(n) \/ Stack(n) \/ Unstack(n)
       PROVE  Progress'
  BY <1>10 DEF KernelNotice, Stack, Unstack, Progress, Made, Dense
<1>11. CASE UNCHANGED vars
  BY <1>11 DEF vars, Progress, Made, Dense
<1>. QED
  BY <1>1, <1>2, <1>3, <1>5, <1>6, <1>7, <1>8, <1>9, <1>10, <1>11
  DEF Next, Program, Environment

(* The wait cannot end before the kernel has the new partition: until then *)
(* lsblk prints exactly the lines it printed when the operation began.     *)
LEMMA WaitIsLongEnough ==
  ASSUME TypeInv, Progress, Known, LeaveWait, Quiet(began)
  PROVE  \A n \in table : node[n] = "current"
<1>1. op.kind = "mkpart" /\ pc = "wait"
  BY DEF LeaveWait, TypeInv, Dispatched
<1>2. PICK new \in PartNum : Made(new)
  BY <1>1 DEF Progress, Making
<1>3. snap = began.table /\ holders = {}
  BY <1>1 DEF Progress, Known, Making
<1>4. /\ table \in SUBSET PartNum
      /\ node \in [PartNum -> NodeState]
      /\ began.table \in SUBSET PartNum
  BY WorldFields DEF TypeInv, TypeOK, WorldType
<1>5. \A n \in PartNum :
        /\ n \in began.table => node[n] = "current"
        /\ n \notin table => node[n] = "absent"
        /\ n \in table => node[n] # "stale"
  BY <1>1 DEF Known, Making
<1>6. ASSUME node[new] = "absent" PROVE FALSE
  <2>1. {n \in PartNum : node[n] # "absent"} = snap
    BY <1>2, <1>3, <1>4, <1>5, <1>6 DEF Made
  <2>2. Cardinality(holders) = 0
    BY <1>3, FS_EmptySet
  <2>3. IsFiniteSet(snap) /\ Cardinality(snap) \in Nat
    <3>1. IsFiniteSet(PartNum)
      BY FS_Interval, MaxPartAssumption DEF PartNum
    <3>2. IsFiniteSet(snap)
      BY <1>3, <1>4, <3>1, FS_Subset
    <3>. QED
      BY <3>2, FS_CardinalityType
  <2>4. Lines = Cardinality(snap)
    BY <2>1, <2>2, <2>3 DEF Lines
  <2>. QED
    BY <2>4 DEF LeaveWait
<1>7. node[new] = "current"
  BY <1>2, <1>4, <1>5, <1>6 DEF NodeState, Made
<1>. QED
  BY <1>2, <1>4, <1>5, <1>7 DEF Made

LEMMA KnownNext == TypeInv /\ Progress /\ Known /\ [Next]_vars => Known'
<1>. SUFFICES ASSUME TypeInv, Progress, Known, [Next]_vars PROVE Known'
  OBVIOUS
<1>. USE DEF Making
<1>t. /\ table \in SUBSET PartNum
      /\ node \in [PartNum -> NodeState]
      /\ Dispatched
  BY WorldFields DEF TypeInv, TypeOK
<1>1. ASSUME NEW o \in Op, Begin(o) PROVE Known'
  <2>1. /\ op' = o /\ table' = table /\ node' = node /\ holders' = holders
        /\ began'.table = table /\ began'.node = node
        /\ began'.holders = holders
    BY <1>1 DEF Begin, world, World
  <2>. QED
    BY <2>1 DEF Known, Quiet, Synced
<1>2. CASE PartedMkpart
  <2>1. op.kind = "mkpart" /\ pc = "mkpart" /\ table = began.table
    BY <1>2, <1>t DEF PartedMkpart, Dispatched, Progress
  <2>2. PICK n \in PartNum : n \notin table /\ table' = table \cup {n}
    BY <1>2 DEF PartedMkpart, IsFirstFree
  <2>3. /\ op' = op /\ began' = began /\ node' = node /\ holders' = holders
        /\ pc' = "probe"
    BY <1>2 DEF PartedMkpart
  <2>. QED
    BY <2>1, <2>2, <2>3 DEF Known, Quiet, Synced
<1>3. CASE Partprobe
  BY <1>3, <1>t DEF Partprobe, world, Known, Quiet, Synced, Dispatched
<1>4. CASE LeaveWait
  <2>1. Quiet(began) => \A n \in table : node[n] = "current"
    BY <1>4, WaitIsLongEnough
  <2>2. /\ UNCHANGED <<op, began, node, holders, table>>
        /\ pc = "wait" /\ pc' = "update"
    BY <1>4 DEF LeaveWait, world
  <2>. QED
    BY <2>1, <2>2 DEF Known, Quiet, Synced
<1>5. ASSUME Update \/ MakeFs \/ SetLabel \/ NamePartition PROVE Known'
  <2>1. /\ UNCHANGED <<op, began, node, holders, table>>
        /\ pc \in {"update", "mkfs", "setlabel", "name"}
        /\ pc' \in {"mkfs", "setlabel", "name", "done"}
    BY <1>5 DEF Update, MakeFs, SetLabel, NamePartition, AfterLabel, AfterMkfs,
                world
  <2>. QED
    BY <2>1 DEF Known, Quiet, Synced
<1>6. ASSUME EditEntry \/ RemovePartition PROVE Known'
  BY <1>6, <1>t DEF EditEntry, RemovePartition, Dispatched, EntryOps, Known
<1>7. ASSUME Return \/ Rerun \/ Fail PROVE Known'
  BY <1>7 DEF Return, Rerun, Fail, Known
<1>8. ASSUME NEW n \in PartNum, KernelNotice(n) PROVE Known'
  <2>1. /\ UNCHANGED <<op, began, pc, holders, table>>
        /\ node' = [node EXCEPT ![n] = IF n \in table THEN "current"
                                       ELSE "absent"]
    BY <1>8 DEF KernelNotice
  <2>. QED
    BY <2>1, <1>t DEF Known, Quiet, Synced
<1>9. ASSUME NEW n \in PartNum, Stack(n) \/ Unstack(n) PROVE Known'
  BY <1>9 DEF Stack, Unstack, Known
<1>10. CASE UNCHANGED vars
  BY <1>10 DEF vars, Known, Quiet, Synced
<1>. QED
  BY <1>1, <1>2, <1>3, <1>4, <1>5, <1>6, <1>7, <1>8, <1>9, <1>10
  DEF Next, Program, Environment

LEMMA OnTargetNext == TypeInv /\ OnTarget /\ [Next]_vars => OnTarget'
<1>. SUFFICES ASSUME TypeInv, OnTarget, [Next]_vars PROVE OnTarget'
  OBVIOUS
<1>. USE DEF Running
<1>t. /\ table \in SUBSET PartNum
      /\ node \in [PartNum -> NodeState]
      /\ Dispatched
  BY WorldFields DEF TypeInv, TypeOK
<1>1. ASSUME NEW o \in Op, Begin(o) PROVE OnTarget'
  <2>1. /\ op' = o /\ node' = node
        /\ began'.table = table /\ began'.node = node
    BY <1>1 DEF Begin, world, World
  <2>2. o.kind # "mkpart" /\ pc' \in Running => part'.num = o.num /\ o.num \in table'
    BY <1>1 DEF Begin, Selected, world
  <2>. QED
    BY <2>1, <2>2 DEF OnTarget, Prepared
<1>2. ASSUME PartedMkpart \/ Partprobe \/ LeaveWait \/ Update \/ NamePartition
      PROVE  OnTarget'
  BY <1>2, <1>t DEF PartedMkpart, Partprobe, LeaveWait, Update, NamePartition,
                    Dispatched, OnTarget
<1>3. ASSUME MakeFs \/ SetLabel PROVE OnTarget'
  <2>1. pc \in Running /\ UNCHANGED <<op, part, began, node, table>>
    BY <1>3 DEF MakeFs, SetLabel
  <2>. QED
    BY <2>1 DEF OnTarget, Prepared, Quiet, Synced, Dense
<1>4. ASSUME EditEntry \/ RemovePartition \/ Return \/ Rerun \/ Fail
      PROVE  OnTarget'
  BY <1>4 DEF EditEntry, RemovePartition, Return, Rerun, Fail, OnTarget
<1>5. ASSUME NEW n \in PartNum, KernelNotice(n) PROVE OnTarget'
  <2>1. /\ UNCHANGED <<op, began, pc, part, table>>
        /\ node' = [node EXCEPT ![n] = IF n \in table THEN "current"
                                       ELSE "absent"]
    BY <1>5 DEF KernelNotice
  <2>2. op.kind # "mkpart" /\ pc \in Running => part.num \in table
    BY DEF OnTarget
  <2>. QED
    BY <2>1, <2>2, <1>t DEF OnTarget, Prepared
<1>6. ASSUME NEW n \in PartNum, Stack(n) \/ Unstack(n) PROVE OnTarget'
  BY <1>6 DEF Stack, Unstack, OnTarget
<1>7. CASE UNCHANGED vars
  BY <1>7 DEF vars, OnTarget, Prepared, Quiet, Synced, Dense
<1>. QED
  BY <1>1, <1>2, <1>3, <1>4, <1>5, <1>6, <1>7
  DEF Next, Program, Environment

(* A command that opens a path the kernel knows writes that partition.     *)
LEMMA WrittenIs ==
  ASSUME node[part.num] = "current"
  PROVE  Written = {{part.num}}
BY DEF Written

(* A prepared operation about to write has a partition that it may write.  *)
LEMMA WritesTarget ==
  ASSUME TypeInv, Progress, Known, OnTarget, Prepared,
         pc \in {"mkfs", "setlabel", "name", "edit", "rm"}
  PROVE  /\ part.num \notin began.table \ {op.num}
         /\ pc \in {"mkfs", "setlabel"} => Written = {{part.num}}
<1>1. CASE op.kind = "mkpart"
  <2>1. pc \in {"mkfs", "setlabel", "name"}
    BY <1>1 DEF TypeInv, Dispatched, EntryOps
  <2>2. Made(part.num) /\ Quiet(began)
    BY <1>1, <2>1 DEF Progress, Prepared
  <2>3. node[part.num] = "current"
    BY <1>1, <2>1, <2>2 DEF Known, Made, Making
  <2>. QED
    BY <2>2, <2>3, WrittenIs DEF Made
<1>2. CASE op.kind # "mkpart"
  <2>1. part.num = op.num /\ node[part.num] = "current"
    BY <1>2 DEF OnTarget, Running
  <2>. QED
    BY <2>1, WrittenIs
<1>. QED
  BY <1>1, <1>2

LEMMA CollateralNext ==
  TypeInv /\ Progress /\ Known /\ OnTarget /\ NoCollateral /\ [Next]_vars
    => NoCollateral'
<1>. SUFFICES ASSUME TypeInv, Progress, Known, OnTarget, NoCollateral,
                     [Next]_vars
              PROVE  NoCollateral'
  OBVIOUS
<1>t. /\ table \in SUBSET PartNum
      /\ content \in [PartNum -> Content]
      /\ entry \in [PartNum -> Name]
      /\ began.table \in SUBSET PartNum
      /\ Dispatched
  BY WorldFields DEF TypeInv, TypeOK, WorldType
<1>p. UNCHANGED <<op, began>> => (Prepared' <=> Prepared)
  BY DEF Prepared, Quiet, Synced, Dense
<1>m. pc \in {"edit", "rm", "mkfs", "setlabel", "name"} => part.num \in PartNum
  BY DEF TypeInv, TypeOK
<1>1. ASSUME NEW o \in Op, Begin(o) PROVE NoCollateral'
  BY <1>1 DEF Begin, world, World, NoCollateral
<1>2. CASE PartedMkpart
  <2>1. table = began.table
    BY <1>2, <1>t DEF PartedMkpart, Dispatched, Progress
  <2>2. PICK n \in PartNum :
          /\ n \notin table
          /\ table' = table \cup {n}
          /\ entry' = [entry EXCEPT ![n] = op.name]
          /\ \E c \in {Blank, content[n]} : content' = [content EXCEPT ![n] = c]
    BY <1>2 DEF PartedMkpart, IsFirstFree
  <2>3. UNCHANGED <<op, began>> /\ pc # "idle"
    BY <1>2 DEF PartedMkpart
  <2>. QED
    BY <2>1, <2>2, <2>3, <1>t, <1>p DEF NoCollateral
<1>3. ASSUME Partprobe \/ LeaveWait \/ Update \/ Fail PROVE NoCollateral'
  <2>1. UNCHANGED <<op, began, table, entry, content>> /\ pc # "idle"
    BY <1>3 DEF Partprobe, LeaveWait, Update, Fail, Running, world
  <2>. QED
    BY <2>1, <1>p DEF NoCollateral
<1>4. ASSUME MakeFs \/ SetLabel PROVE NoCollateral'
  <2>1. /\ UNCHANGED <<op, began, table, entry>>
        /\ pc \in {"mkfs", "setlabel"}
    BY <1>4 DEF MakeFs, SetLabel
  <2>2. ASSUME Prepared
        PROVE  \A n \in began.table \ {op.num} : content'[n] = content[n]
    <3>1. /\ Written = {{part.num}}
          /\ part.num \notin began.table \ {op.num}
      BY <2>1, <2>2, WritesTarget
    <3>2. CASE MakeFs
      BY <3>1, <3>2, <1>t DEF MakeFs
    <3>3. CASE SetLabel
      BY <3>1, <3>3, <1>t DEF SetLabel
    <3>. QED
      BY <1>4, <3>2, <3>3
  <2>. QED
    BY <2>1, <2>2, <1>p DEF NoCollateral
<1>5. ASSUME NamePartition \/ EditEntry PROVE NoCollateral'
  <2>1. /\ UNCHANGED <<op, began, table, content>>
        /\ pc \in {"name", "edit"}
        /\ entry' = [entry EXCEPT ![part.num] = op.name]
    BY <1>5, <1>m, PartedNumberIs DEF NamePartition, EditEntry
  <2>. QED
    BY <2>1, <1>t, <1>p, WritesTarget DEF NoCollateral
<1>6. CASE RemovePartition
  <2>1. /\ UNCHANGED <<op, began, entry, content>>
        /\ pc = "rm"
        /\ table' = table \ {part.num}
    BY <1>6, <1>m, PartedNumberIs DEF RemovePartition
  <2>. QED
    BY <2>1, <1>p, WritesTarget DEF NoCollateral
<1>7. ASSUME Return \/ Rerun PROVE NoCollateral'
  BY <1>7 DEF Return, Rerun, NoCollateral
<1>8. ASSUME NEW n \in PartNum, KernelNotice(n) \/ Stack(n) \/ Unstack(n)
      PROVE  NoCollateral'
  <2>1. UNCHANGED <<op, began, table, entry, content, pc>>
    BY <1>8 DEF KernelNotice, Stack, Unstack
  <2>. QED
    BY <2>1, <1>p DEF NoCollateral
<1>9. CASE UNCHANGED vars
  BY <1>9, <1>p DEF vars, NoCollateral
<1>. QED
  BY <1>1, <1>2, <1>3, <1>4, <1>5, <1>6, <1>7, <1>8, <1>9
  DEF Next, Program, Environment

-----------------------------------------------------------------------------
(* mkpart makes one partition only.                                        *)
LEMMA MadeOnce ==
  ASSUME NEW m \in PartNum, NEW n \in PartNum, Made(m), Made(n)
  PROVE  m = n
BY DEF Made

(* Formatting and labelling the one partition that the commands write.     *)
LEMMA Formatted ==
  ASSUME TypeInv, MakeFs, Written = {{part.num}}
  PROVE  content'[part.num] = [fs |-> part.fs, label |-> NoName]
BY DEF MakeFs, TypeInv, TypeOK

LEMMA LabelWritten ==
  ASSUME TypeInv, SetLabel, Written = {{part.num}}
  PROVE  /\ content'[part.num].fs = content[part.num].fs
         /\ op.name # NoName /\ part.fs \notin Unlabelled
              => content'[part.num].label = op.name
<1>1. /\ part.num \in PartNum
      /\ content[part.num] \in Content
  BY WorldFields DEF SetLabel, TypeInv, TypeOK
<1>2. CASE part.fs \in Unlabelled
  <2>1. content'[part.num] = content[part.num]
    BY <1>1, <1>2 DEF SetLabel
  <2>. QED
    BY <1>2, <2>1
<1>3. CASE part.fs \notin Unlabelled
  <2>1. content'[part.num] = Relabel(content[part.num], op.name)
    BY <1>1, <1>3 DEF SetLabel
  <2>. QED
    BY <1>1, <2>1 DEF Relabel, Content
<1>. QED
  BY <1>2, <1>3

LEMMA MakingDeedsNext ==
  TypeInv /\ Progress /\ Known /\ OnTarget /\ MakingDeeds /\ [Next]_vars
    => MakingDeeds'
<1>. SUFFICES ASSUME TypeInv, Progress, Known, OnTarget, MakingDeeds,
                     [Next]_vars
              PROVE  MakingDeeds'
  OBVIOUS
<1>. USE DEF Making
<1>t. /\ table \in SUBSET PartNum
      /\ content \in [PartNum -> Content]
      /\ entry \in [PartNum -> Name]
      /\ Dispatched
  BY WorldFields DEF TypeInv, TypeOK
<1>p. UNCHANGED <<op, began>> => (Prepared' <=> Prepared)
  BY DEF Prepared, Quiet, Synced, Dense
<1>q. UNCHANGED <<table, began>> => \A n \in PartNum : Made(n)' <=> Made(n)
  BY DEF Made
<1>r. ASSUME op.kind = "mkpart", Prepared, pc \in {"mkfs", "setlabel", "name"}
      PROVE  /\ part.num \in PartNum /\ Made(part.num)
             /\ pc \in {"mkfs", "setlabel"} => Written = {{part.num}}
  BY <1>r, WritesTarget DEF TypeInv, TypeOK, Progress, Prepared
<1>1. ASSUME NEW o \in Op, Begin(o) PROVE MakingDeeds'
  <2>1. op' = o /\ (o.kind = "mkpart" => pc' = "mkpart")
    BY <1>1 DEF Begin
  <2>. QED
    BY <2>1 DEF MakingDeeds
<1>2. CASE PartedMkpart
  <2>1. op.kind = "mkpart" /\ table = began.table
    BY <1>2, <1>t DEF PartedMkpart, Dispatched, Progress
  <2>2. PICK n \in PartNum :
          /\ n \notin table
          /\ table' = table \cup {n}
          /\ entry' = [entry EXCEPT ![n] = op.name]
    BY <1>2 DEF PartedMkpart, IsFirstFree
  <2>3. pc' = "probe" /\ UNCHANGED <<op, began>>
    BY <1>2 DEF PartedMkpart
  <2>4. \A m \in PartNum : Made(m)' => m = n
    BY <2>1, <2>2, <2>3 DEF Made
  <2>5. entry'[n] = op'.name
    BY <2>2, <2>3, <1>t
  <2>. QED
    BY <2>3, <2>4, <2>5 DEF MakingDeeds
<1>3. ASSUME Partprobe \/ LeaveWait PROVE MakingDeeds'
  <2>1. /\ UNCHANGED <<op, began, table, entry>>
        /\ pc \in {"probe", "wait"} /\ pc' \in {"wait", "update"}
    BY <1>3 DEF Partprobe, LeaveWait, world
  <2>. QED
    BY <2>1, <1>p, <1>q DEF MakingDeeds
<1>4. CASE Update
  <2>1. UNCHANGED <<op, began, table, entry, content>> /\ pc = "update"
    BY <1>4 DEF Update, world
  <2>2. op.fs = NoFs => pc' \in {"name", "done"}
    BY <1>4 DEF Update, AfterMkfs
  <2>3. op.fs # NoFs => pc' = "mkfs" /\ part'.fs = op.fs
    BY <1>4 DEF Update
  <2>. QED
    BY <2>1, <2>2, <2>3, <1>p, <1>q DEF MakingDeeds
<1>5. CASE MakeFs
  <2>1. UNCHANGED <<op, began, table, entry, part>> /\ pc = "mkfs"
    BY <1>5 DEF MakeFs
  <2>2. op.kind = "mkpart" => pc' = "setlabel"
    BY <1>5 DEF MakeFs
  <2>3. op.kind = "mkpart" /\ Prepared => content'[part.num].fs = part.fs
    BY <1>r, <2>1, <1>5, Formatted
  <2>. QED
    BY <2>1, <2>2, <2>3, <1>p, <1>q DEF MakingDeeds
<1>6. CASE SetLabel
  <2>1. UNCHANGED <<op, began, table, entry, part>> /\ pc = "setlabel"
    BY <1>6 DEF SetLabel
  <2>2. op.kind = "mkpart" => pc' \in {"name", "done"}
    BY <1>6 DEF SetLabel, AfterLabel, AfterMkfs
  <2>3. ASSUME op.kind = "mkpart", Prepared
        PROVE  Labelled(part.num, op.fs)'
    <3>1. /\ content[part.num].fs = op.fs /\ part.fs = op.fs
          /\ Written = {{part.num}}
      BY <2>1, <2>3, <1>r DEF MakingDeeds
    <3>2. /\ content'[part.num].fs = op.fs
          /\ op.name # NoName /\ op.fs \notin Unlabelled
               => content'[part.num].label = op.name
      BY <3>1, <1>6, LabelWritten
    <3>. QED
      BY <2>1, <3>2 DEF Labelled
  <2>4. ASSUME op.kind = "mkpart", Prepared, NEW n \in PartNum, Made(n)
        PROVE  Labelled(n, op.fs)'
    BY <2>1, <2>3, <2>4, <1>r, MadeOnce
  <2>5. ASSUME op.kind = "mkpart", Prepared, NEW n \in PartNum, Made(n)
        PROVE  entry'[n] = op'.name
    BY <2>1, <2>5 DEF MakingDeeds
  <2>6. ASSUME op'.kind = "mkpart", Prepared', NEW n \in PartNum, Made(n)'
        PROVE  entry'[n] = op'.name /\ Labelled(n, op.fs)'
    BY <2>1, <2>4, <2>5, <2>6, <1>p, <1>q
  <2>7. Labelled(part.num, op.fs)' \/ ~(op'.kind = "mkpart" /\ Prepared')
    BY <2>1, <2>3, <1>p
  <2>. QED
    BY <2>1, <2>2, <2>6, <2>7 DEF MakingDeeds
<1>7. CASE NamePartition
  <2>1. /\ UNCHANGED <<op, began, table, content, part>>
        /\ pc = "name" /\ pc' = "done"
    BY <1>7 DEF NamePartition
  <2>2. part.num \in PartNum
    BY <2>1 DEF TypeInv, TypeOK
  <2>3. entry' = [entry EXCEPT ![part.num] = op.name]
    BY <1>7, <2>2, PartedNumberIs DEF NamePartition
  <2>4. ASSUME op.kind = "mkpart", Prepared, NEW n \in PartNum, Made(n)
        PROVE  /\ entry'[n] = op'.name
               /\ op.fs # NoFs => Labelled(n, op.fs)'
    <3>1. n = part.num
      BY <2>1, <2>4, <1>r, MadeOnce
    <3>2. entry'[n] = op'.name
      BY <2>1, <2>3, <3>1, <1>t
    <3>3. op.fs # NoFs => Labelled(n, op.fs)
      BY <2>1, <2>4 DEF MakingDeeds
    <3>. QED
      BY <2>1, <3>2, <3>3 DEF Labelled
  <2>. QED
    BY <2>1, <2>4, <1>p, <1>q DEF MakingDeeds
<1>8. ASSUME EditEntry \/ RemovePartition PROVE MakingDeeds'
  <2>1. op.kind # "mkpart" /\ op' = op
    BY <1>8, <1>t DEF EditEntry, RemovePartition, Dispatched, EntryOps
  <2>. QED
    BY <2>1 DEF MakingDeeds
<1>9. ASSUME Return \/ Rerun \/ Fail PROVE MakingDeeds'
  <2>1. pc' \in {"idle", "failed"}
    BY <1>9 DEF Return, Rerun, Fail
  <2>. QED
    BY <2>1 DEF MakingDeeds
<1>10. ASSUME \/ UNCHANGED vars
              \/ \E n \in PartNum : KernelNotice(n) \/ Stack(n) \/ Unstack(n)
       PROVE  MakingDeeds'
  <2>1. UNCHANGED <<op, began, pc, part, table, entry, content>>
    BY <1>10 DEF vars, KernelNotice, Stack, Unstack
  <2>2. \A n \in PartNum : Labelled(n, op.fs) => Labelled(n, op.fs)'
    BY <2>1 DEF Labelled
  <2>. QED
    BY <2>1, <2>2, <1>p, <1>q DEF MakingDeeds
<1>. QED
  BY <1>1, <1>2, <1>3, <1>4, <1>5, <1>6, <1>7, <1>8, <1>9, <1>10
  DEF Next, Program, Environment

LEMMA OtherDeedsNext ==
  TypeInv /\ Progress /\ Known /\ OnTarget /\ OtherDeeds /\ [Next]_vars
    => OtherDeeds'
<1>. SUFFICES ASSUME TypeInv, Progress, Known, OnTarget, OtherDeeds,
                     [Next]_vars
              PROVE  OtherDeeds'
  OBVIOUS
<1>t. content \in [PartNum -> Content] /\ Dispatched
  BY WorldFields DEF TypeInv, TypeOK
<1>p. UNCHANGED <<op, began>> => (Prepared' <=> Prepared)
  BY DEF Prepared, Quiet, Synced, Dense
<1>1. ASSUME NEW o \in Op, Begin(o) PROVE OtherDeeds'
  <2>1. /\ op' = o /\ table' = table /\ content' = content
        /\ began'.table = table /\ began'.content = content
    BY <1>1 DEF Begin, world, World
  <2>2. ASSUME o.kind # "mkpart", pc' \in Running
        PROVE  /\ pc' = First(o)
               /\ part'.fs = IF o.kind = "format" THEN o.fs
                             ELSE Reported(content[o.num].fs)
    BY <1>1, <2>2 DEF Begin, Running, Selected
  <2>3. o.kind = "format" => First(o) = "mkfs"
    BY DEF First, EntryOps
  <2>. QED
    BY <2>1, <2>2, <2>3 DEF OtherDeeds
<1>2. ASSUME PartedMkpart \/ Partprobe \/ LeaveWait \/ Update \/ NamePartition
      PROVE  OtherDeeds'
  <2>1. op.kind = "mkpart" /\ op' = op
    BY <1>2, <1>t
    DEF PartedMkpart, Partprobe, LeaveWait, Update, NamePartition, Dispatched
  <2>. QED
    BY <2>1 DEF OtherDeeds
<1>3. CASE MakeFs
  <2>1. /\ UNCHANGED <<op, began, table, part>>
        /\ pc = "mkfs" /\ pc \in Running
    BY <1>3 DEF MakeFs, Running
  <2>2. op.kind \in {"mkpart", "format"}
    BY <2>1, <1>t DEF Dispatched
  <2>3. op.kind = "format" /\ Prepared
          => content'[op.num].fs = part.fs
    BY <2>1, <1>3, WritesTarget, Formatted DEF OnTarget
  <2>. QED
    BY <2>1, <2>2, <2>3, <1>p DEF OtherDeeds
<1>4. ASSUME SetLabel \/ EditEntry \/ RemovePartition PROVE OtherDeeds'
  <2>1. (op.kind = "mkpart" /\ op' = op) \/ pc' = "done"
    BY <1>4, <1>t
    DEF SetLabel, AfterLabel, EditEntry, RemovePartition, Dispatched
  <2>. QED
    BY <2>1 DEF OtherDeeds, Running
<1>5. ASSUME Return \/ Rerun \/ Fail PROVE OtherDeeds'
  <2>1. pc' \in {"idle", "failed"}
    BY <1>5 DEF Return, Rerun, Fail
  <2>. QED
    BY <2>1 DEF OtherDeeds, Running
<1>6. ASSUME \/ UNCHANGED vars
             \/ \E n \in PartNum : KernelNotice(n) \/ Stack(n) \/ Unstack(n)
      PROVE  OtherDeeds'
  <2>1. UNCHANGED <<op, began, pc, part, table, content>>
    BY <1>6 DEF vars, KernelNotice, Stack, Unstack
  <2>. QED
    BY <2>1, <1>p DEF OtherDeeds
<1>. QED
  BY <1>1, <1>2, <1>3, <1>4, <1>5, <1>6 DEF Next, Program, Environment

(* The last command of an operation keeps the operation's promise.         *)
LEMMA DeliveredNext ==
  TypeInv /\ Progress /\ Known /\ OnTarget /\ MakingDeeds /\ OtherDeeds
    /\ Delivered /\ [Next]_vars => Delivered'
<1>. SUFFICES ASSUME TypeInv, Progress, Known, OnTarget, MakingDeeds,
                     OtherDeeds, Delivered, [Next]_vars,
                     pc' = "done", Prepared'
              PROVE  Promised'
  BY DEF Delivered
<1>t. /\ content \in [PartNum -> Content]
      /\ entry \in [PartNum -> Name]
      /\ Dispatched
  BY WorldFields DEF TypeInv, TypeOK
<1>p. UNCHANGED <<op, began>> => Prepared
  BY DEF Prepared, Quiet, Synced, Dense
<1>m. MakingDeeds' /\ Progress'
  BY MakingDeedsNext, ProgressNext
<1>1. CASE op'.kind = "mkpart"
  <2>1. PICK n \in PartNum : Made(n)'
    BY <1>1, <1>m DEF Progress, Making
  <2>2. entry'[n] = op'.name /\ (op'.fs # NoFs => Labelled(n, op.fs)')
    BY <1>1, <1>m, <2>1 DEF MakingDeeds, Making
  <2>. QED
    BY <1>1, <2>1, <2>2 DEF Promised, Made, EntryOps
<1>2. CASE op'.kind # "mkpart"
  <2>1. ASSUME NEW o \in Op, Begin(o) PROVE Promised'
    BY <1>2, <2>1 DEF Begin, First, Op, EntryOps
  <2>2. ASSUME PartedMkpart \/ Partprobe \/ LeaveWait \/ Update
               \/ NamePartition \/ Return \/ Rerun \/ Fail
        PROVE  Promised'
    <3>1. \/ op.kind = "mkpart" /\ op' = op
          \/ pc' \in {"idle", "failed"}
      BY <2>2, <1>t
      DEF PartedMkpart, Partprobe, LeaveWait, Update, NamePartition, Return,
          Rerun, Fail, Dispatched
    <3>. QED
      BY <1>2, <3>1
  <2>3. CASE MakeFs
    <3>1. /\ UNCHANGED <<op, began, table, part>>
          /\ pc = "mkfs" /\ pc \in Running
          /\ op.kind = "format" /\ op.name = NoName
      BY <2>3 DEF MakeFs, Running
    <3>2. content'[op.num].fs = op.fs /\ table = began.table
      BY <3>1, <2>3, <1>p, WritesTarget, Formatted DEF OnTarget, OtherDeeds
    <3>. QED
      BY <3>1, <3>2 DEF Promised, Labelled, EntryOps
  <2>4. CASE SetLabel
    <3>1. /\ UNCHANGED <<op, began, table, part>>
          /\ pc = "setlabel" /\ pc \in Running
          /\ CanLabel(part.fs, op.name)
      BY <2>4 DEF SetLabel, Running
    <3>2. op.kind \in {"format", "setlabel"} /\ Prepared
      BY <3>1, <1>2, <1>p, <1>t DEF Dispatched
    <3>3. table = began.table /\ part.num = op.num
      BY <3>1, <3>2 DEF OtherDeeds, OnTarget
    <3>4. /\ content'[op.num].fs = content[op.num].fs
          /\ op.name # NoName /\ part.fs \notin Unlabelled
               => content'[op.num].label = op.name
      BY <3>1, <3>2, <3>3, <2>4, WritesTarget, LabelWritten
    <3>5. CASE op.kind = "format"
      <4>1. content[op.num].fs = op.fs /\ part.fs = op.fs
        BY <3>1, <3>2, <3>5 DEF OtherDeeds
      <4>2. Labelled(op.num, op.fs)'
        BY <3>1, <3>4, <4>1 DEF Labelled
      <4>. QED
        BY <3>1, <3>3, <3>5, <4>2 DEF Promised, EntryOps
    <3>6. CASE op.kind = "setlabel"
      <4>. DEFINE old == began.content[op.num].fs
      <4>1. content[op.num].fs = old /\ part.fs = Reported(old)
        BY <3>1, <3>2, <3>6 DEF OtherDeeds
      <4>2. part.fs = old
        BY <3>1, <4>1 DEF Reported, CanLabel, Labellable, Unlabelled
      <4>3. Labelled(op.num, began.content[op.num].fs)'
        BY <3>1, <3>4, <4>1, <4>2 DEF Labelled
      <4>. QED
        BY <3>1, <3>3, <3>6, <4>3 DEF Promised, EntryOps
    <3>. QED
      BY <3>2, <3>5, <3>6
  <2>5. ASSUME EditEntry \/ RemovePartition PROVE Promised'
    <3>1. /\ UNCHANGED <<op, began, part>>
          /\ pc \in {"edit", "rm"} /\ pc \in Running
      BY <2>5 DEF EditEntry, RemovePartition, Running
    <3>2. table = began.table /\ part.num = op.num /\ part.num \in PartNum
      BY <3>1, <1>2, <1>p DEF OtherDeeds, OnTarget, TypeInv, TypeOK
    <3>3. PartedNumber = op.num
      BY <3>2, PartedNumberIs
    <3>4. CASE EditEntry
      <4>1. op.kind \in EntryOps
        BY <3>4, <1>t DEF EditEntry, Dispatched
      <4>2. table' = table /\ entry'[op.num] = op.name
        BY <3>2, <3>3, <3>4, <1>t DEF EditEntry
      <4>. QED
        BY <3>1, <3>2, <4>1, <4>2 DEF Promised, EntryOps
    <3>5. CASE RemovePartition
      <4>1. op.kind = "rm" /\ table' = table \ {op.num}
        BY <3>3, <3>5, <1>t DEF RemovePartition, Dispatched
      <4>. QED
        BY <3>1, <3>2, <4>1 DEF Promised, EntryOps
    <3>. QED
      BY <2>5, <3>4, <3>5
  <2>6. ASSUME \/ UNCHANGED vars
               \/ \E n \in PartNum : KernelNotice(n) \/ Stack(n) \/ Unstack(n)
        PROVE  Promised'
    <3>1. UNCHANGED <<op, began, pc, table, entry, content>>
      BY <2>6 DEF vars, KernelNotice, Stack, Unstack
    <3>2. Promised
      BY <3>1, <1>p DEF Delivered
    <3>. QED
      BY <3>1, <3>2 DEF Promised, Labelled, Made
  <2>. QED
    BY <2>1, <2>2, <2>3, <2>4, <2>5, <2>6 DEF Next, Program, Environment
<1>. QED
  BY <1>1, <1>2

-----------------------------------------------------------------------------
IInv ==
  /\ TypeInv /\ Progress /\ Known /\ OnTarget /\ NoCollateral
  /\ MakingDeeds /\ OtherDeeds /\ Delivered

LEMMA IInvariant == Spec => []IInv
<1>1. Init => IInv
  <2>. SUFFICES ASSUME Init PROVE IInv
    OBVIOUS
  <2>1. pc = "idle" /\ op = NoOp
    BY DEF Init
  <2>. QED
    BY <2>1, TypeInit
    DEF IInv, Progress, Known, OnTarget, NoCollateral, MakingDeeds, OtherDeeds,
        Delivered, NoOp, Running, Making
<1>2. IInv /\ [Next]_vars => IInv'
  BY TypeNext, ProgressNext, KnownNext, OnTargetNext, CollateralNext,
     MakingDeedsNext, OtherDeedsNext, DeliveredNext
  DEF IInv
<1>. QED
  BY <1>1, <1>2, PTL DEF Spec

(* Without a hole in the old numbers, the partition NewPartition formats   *)
(* and names is the one parted made.                                       *)
THEOREM PickedIsMade == Spec => []PickedMade
<1>1. IInv => PickedMade
  BY DEF IInv, Progress, PickedMade, Made
<1>. QED
  BY IInvariant, <1>1, PTL

(* In a quiet world, nothing after the wait loop runs before the kernel    *)
(* knows every partition.                                                  *)
THEOREM WaitMakesAware == Spec => []AwareWhenQuiet
<1>1. IInv => AwareWhenQuiet
  <2>. SUFFICES ASSUME IInv, op.kind = "mkpart", Quiet(began),
                       pc \in {"update", "mkfs", "setlabel", "name", "done"},
                       NEW n \in table
                PROVE  node[n] = "current"
    BY DEF AwareWhenQuiet
  <2>1. n \in PartNum
    BY WorldFields DEF IInv, TypeInv, TypeOK
  <2>. QED
    BY <2>1 DEF IInv, Known, Making
<1>. QED
  BY IInvariant, <1>1, PTL

(* A prepared operation leaves the other partitions as they were, at every *)
(* step, failures and deaths of the process included.                      *)
THEOREM OthersUntouched == Spec => []NoCollateral
<1>1. IInv => NoCollateral
  BY DEF IInv
<1>. QED
  BY IInvariant, <1>1, PTL

(* A prepared operation that returned nil has done what the recipe asked:  *)
(* the partition it made, removed, edited, formatted or labelled is the    *)
(* one the recipe meant, and it has the file system, label and attributes  *)
(* the recipe gives.                                                       *)
THEOREM Delivers == Spec => []Delivered
<1>1. IInv => Delivered
  BY DEF IInv
<1>. QED
  BY IInvariant, <1>1, PTL

-----------------------------------------------------------------------------
(* The free ranges of a disk.                                             *)

(* The gaps that AvailableSectors has found after n partitions.            *)
GapsUpto(parts, gaps, n) ==
  IF n = 1 THEN <<>>
  ELSE IF parts[n - 1][2] = parts[n][1] THEN gaps[n - 1]
  ELSE Append(gaps[n - 1], <<parts[n - 1][2], parts[n][1]>>)

(* A position is within a range of a longer sequence if it is within one   *)
(* of its parts.                                                           *)
LEMMA WithinAppend ==
  ASSUME NEW S, NEW old \in Seq(S), NEW gap \in S, NEW x
  PROVE  Within(Append(old, gap), x) <=> Within(old, x) \/ (gap[1] <= x /\ x < gap[2])
<1>. DEFINE In(range) == range[1] <= x /\ x < range[2]
<1>1. \A s : Within(s, x) <=> \E i \in DOMAIN s : In(s[i])
  BY DEF Within
<1>. HIDE DEF In
<1>2. /\ Len(old) \in Nat /\ DOMAIN old = 1..Len(old)
      /\ DOMAIN Append(old, gap) = 1..Len(old) + 1
      /\ Append(old, gap)[Len(old) + 1] = gap
      /\ \A i \in 1..Len(old) : Append(old, gap)[i] = old[i]
  OBVIOUS
<1>3. 1..Len(old) + 1 = 1..Len(old) \cup {Len(old) + 1}
  BY <1>2
<1>4. Within(Append(old, gap), x) <=> Within(old, x) \/ In(gap)
  BY <1>1, <1>2, <1>3, Zenon
<1>. QED
  BY <1>4 DEF In

LEMMA WithinConcat ==
  ASSUME NEW S, NEW first \in Seq(S), NEW second \in Seq(S), NEW x
  PROVE  Within(first \o second, x) <=> Within(first, x) \/ Within(second, x)
<1>. DEFINE In(range) == range[1] <= x /\ x < range[2]
            L == Len(first)
            M == Len(second)
<1>1. \A s : Within(s, x) <=> \E i \in DOMAIN s : In(s[i])
  BY DEF Within
<1>. HIDE DEF In
<1>2. /\ L \in Nat /\ M \in Nat /\ DOMAIN first = 1..L /\ DOMAIN second = 1..M
      /\ DOMAIN (first \o second) = 1..L + M
      /\ \A i \in 1..L : (first \o second)[i] = first[i]
      /\ \A i \in 1..M : (first \o second)[L + i] = second[i]
  <2>1. \A i \in 1..M : (first \o second)[L + i] = second[i]
    <3>. TAKE i \in 1..M
    <3>1. L + i \in 1..L + M /\ L + i > L /\ (L + i) - L = i
      OBVIOUS
    <3>. QED
      BY <3>1, ConcatProperties
  <2>. QED
    BY <2>1
<1>. HIDE DEF L, M
<1>3. \A i \in 1..L + M : i \in 1..L \/ \E j \in 1..M : i = L + j
  <2>. TAKE i \in 1..L + M
  <2>1. i \in 1..L \/ (i - L \in 1..M /\ i = L + (i - L))
    BY <1>2
  <2>. QED
    BY <2>1
<1>4. \A i \in 1..L : i \in 1..L + M
  BY <1>2
<1>5. \A i \in 1..M : L + i \in 1..L + M
  BY <1>2
<1>6. ASSUME Within(first \o second, x) PROVE Within(first, x) \/ Within(second, x)
  <2>1. PICK i \in 1..L + M : In((first \o second)[i])
    BY <1>1, <1>2, <1>6, Zenon
  <2>2. CASE i \in 1..L
    BY <1>1, <1>2, <2>1, <2>2, Zenon
  <2>3. CASE \E j \in 1..M : i = L + j
    BY <1>1, <1>2, <2>1, <2>3, Zenon
  <2>. QED
    BY <1>3, <2>2, <2>3
<1>7. Within(first, x) => Within(first \o second, x)
  BY <1>1, <1>2, <1>4, Zenon
<1>8. Within(second, x) => Within(first \o second, x)
  BY <1>1, <1>2, <1>5, Zenon
<1>. QED
  BY <1>6, <1>7, <1>8

(* Between ranges in order, and behind the last, is what none of them has. *)
LEMMA BetweenRanges ==
  ASSUME NEW n \in Nat \ {0}, NEW lo \in [1..n -> Int], NEW hi \in [1..n -> Int],
         \A i \in 1..n : lo[i] <= hi[i],
         \A i, j \in 1..n : i < j => hi[i] <= lo[j],
         NEW x \in Int, x >= lo[1]
  PROVE  (\A i \in 1..n : ~(lo[i] <= x /\ x < hi[i]))
           <=> (\E i \in 1..n - 1 : hi[i] <= x /\ x < lo[i + 1]) \/ hi[n] <= x
<1>1. ASSUME \A i \in 1..n : ~(lo[i] <= x /\ x < hi[i])
      PROVE  (\E i \in 1..n - 1 : hi[i] <= x /\ x < lo[i + 1]) \/ hi[n] <= x
  <2>. DEFINE Begun == {i \in 1..n : lo[i] <= x}
  <2>1. Begun \in SUBSET 1..n /\ Begun # {}
    OBVIOUS
  <2>. HIDE DEF Begun
  <2>2. PICK i \in Begun : \A j \in Begun : j <= i
    BY <2>1, LastIndex
  <2>. USE DEF Begun
  <2>3. i \in 1..n /\ hi[i] <= x
    BY <1>1, <2>2
  <2>4. CASE i = n
    BY <2>3, <2>4
  <2>5. CASE i # n
    <3>1. i \in 1..n - 1 /\ i + 1 \in 1..n /\ ~(i + 1 <= i)
      BY <2>2, <2>5
    <3>2. ~(lo[i + 1] <= x)
      BY <2>2, <3>1
    <3>. QED
      BY <2>3, <3>1, <3>2
  <2>. QED
    BY <2>4, <2>5
<1>2. ASSUME NEW i \in 1..n - 1, hi[i] <= x, x < lo[i + 1], NEW j \in 1..n
      PROVE  ~(lo[j] <= x /\ x < hi[j])
  <2>1. i \in 1..n /\ i + 1 \in 1..n
    OBVIOUS
  <2>2. CASE j <= i
    BY <1>2, <2>1, <2>2
  <2>3. CASE ~(j <= i)
    BY <1>2, <2>1, <2>3
  <2>. QED
    BY <2>2, <2>3
<1>3. ASSUME hi[n] <= x, NEW j \in 1..n
      PROVE  ~(lo[j] <= x /\ x < hi[j])
  BY <1>3
<1>. QED
  BY <1>1, <1>2, <1>3

(* The loop ends with a range for each two neighbours that do not touch.   *)
LEMMA BetweenIs ==
  ASSUME NEW disk, disk.parts \in Seq(Int \X Int), disk.parts # <<>>
  PROVE  /\ Between(disk) \in Seq(Int \X Int)
         /\ \A x \in Int : Within(Between(disk), x) <=>
              \E i \in 1..Len(disk.parts) - 1 :
                disk.parts[i][2] <= x /\ x < disk.parts[i + 1][1]
<1>. DEFINE parts == disk.parts
            N == Len(parts)
            Upto == {k \in 1..N : \E f : f = [n \in 1..k |-> GapsUpto(parts, f, n)]}
            gaps[n \in DOMAIN parts] == GapsUpto(parts, gaps, n)
<1>1. N \in Nat \ {0} /\ DOMAIN parts = 1..N
  OBVIOUS
<1>2. ASSUME NEW k \in 1..N, \A j \in 1..k - 1 : j \in Upto
      PROVE  k \in Upto
  <2>0. \A n \in 1..k : n # 1 => n - 1 \in 1..k - 1
    <3>. HIDE DEF N
    <3>. QED
      BY <1>1
  <2>1. CASE k = 1
    <3>. DEFINE f == [n \in 1..1 |-> <<>>]
    <3>1. f = [n \in 1..1 |-> GapsUpto(parts, f, n)]
      BY DEF GapsUpto
    <3>. QED
      BY <2>1, <3>1
  <2>2. CASE k # 1
    <3>1. k - 1 \in 1..k - 1 /\ k - 1 \in 1..N
      BY <1>1, <2>2
    <3>2. PICK f : f = [n \in 1..k - 1 |-> GapsUpto(parts, f, n)]
      BY <1>2, <3>1
    <3>. DEFINE g == [n \in 1..k |-> IF n = k THEN GapsUpto(parts, f, k) ELSE f[n]]
    <3>3. \A n \in 1..k - 1 : g[n] = f[n] /\ f[n] = GapsUpto(parts, f, n)
      <4>1. \A n \in 1..k - 1 : f[n] = GapsUpto(parts, f, n)
        BY <3>2, Zenon
      <4>2. \A n \in 1..k - 1 : n \in 1..k /\ n # k
        BY <1>1
      <4>. QED
        BY <4>1, <4>2
    <3>4. \A n \in 1..k : GapsUpto(parts, f, n) = GapsUpto(parts, g, n)
      <4>. TAKE n \in 1..k
      <4>1. n # 1 => n - 1 \in 1..k - 1
        BY <2>0
      <4>. HIDE DEF g
      <4>. QED
        BY <3>3, <4>1 DEF GapsUpto
    <3>5. \A n \in 1..k : g[n] = GapsUpto(parts, g, n)
      <4>. TAKE n \in 1..k
      <4>1. n # k => n \in 1..k - 1
        BY <1>1
      <4>2. g[n] = GapsUpto(parts, f, n)
        BY <3>3, <4>1
      <4>. QED
        BY <3>4, <4>2
    <3>6. g = [n \in 1..k |-> GapsUpto(parts, g, n)]
      BY <3>5
    <3>. QED
      BY <3>6, Zenon
  <2>. QED
    BY <2>1, <2>2
<1>3. N \in Upto
  <2>. HIDE DEF Upto, N
  <2>1. \A k \in 1..N : k \in Upto
    BY <1>1, <1>2, EachIndex, Zenon
  <2>. QED
    BY <1>1, <2>1
<1>4. gaps = [n \in 1..N |-> GapsUpto(parts, gaps, n)]
  <2>1. \E f : f = [n \in DOMAIN parts |-> GapsUpto(parts, f, n)]
    BY <1>1, <1>3
  <2>2. gaps = [n \in DOMAIN parts |-> GapsUpto(parts, gaps, n)]
    BY <2>1, Zenon
  <2>. QED
    BY <1>1, <2>2
<1>5. Between(disk) = gaps[N]
  BY DEF Between, GapsUpto
<1>. HIDE DEF gaps
<1>. DEFINE Counted == {n \in 1..N :
              /\ gaps[n] \in Seq(Int \X Int)
              /\ \A x \in Int : Within(gaps[n], x) <=>
                   \E i \in 1..n - 1 : parts[i][2] <= x /\ x < parts[i + 1][1]}
<1>6. ASSUME NEW n \in 1..N, \A j \in 1..n - 1 : j \in Counted
      PROVE  n \in Counted
  <2>0. gaps[n] = GapsUpto(parts, gaps, n)
    BY <1>4
  <2>1. CASE n = 1
    <3>1. gaps[n] = <<>>
      BY <2>0, <2>1 DEF GapsUpto
    <3>2. \A x : ~Within(<<>>, x)
      BY DEF Within
    <3>3. \A x : ~\E i \in 1..n - 1 : parts[i][2] <= x /\ x < parts[i + 1][1]
      BY <2>1
    <3>4. <<>> \in Seq(Int \X Int)
      OBVIOUS
    <3>. QED
      BY <3>1, <3>2, <3>3, <3>4, Zenon
  <2>2. CASE n # 1
    <3>. DEFINE from == parts[n - 1][2]
                to == parts[n][1]
                old == gaps[n - 1]
                Before(x) == \E i \in 1..n - 2 : parts[i][2] <= x /\ x < parts[i + 1][1]
    <3>1. /\ n - 1 \in 1..N /\ n - 1 \in 1..n - 1 /\ (n - 1) - 1 = n - 2 /\ (n - 1) + 1 = n
          /\ 1..n - 1 = 1..n - 2 \cup {n - 1}
      BY <1>1, <2>2
    <3>2. old \in Seq(Int \X Int) /\ \A x \in Int : Within(old, x) <=> Before(x)
      BY <1>6, <3>1
    <3>3. from \in Int /\ to \in Int
      <4>1. parts[n - 1] \in Int \X Int /\ parts[n] \in Int \X Int
        BY <3>1
      <4>. QED
        BY <4>1
    <3>4. \A x : (\E i \in 1..n - 1 : parts[i][2] <= x /\ x < parts[i + 1][1])
                  <=> Before(x) \/ (from <= x /\ x < to)
      BY <3>1, Zenon
    <3>5. /\ from = to => gaps[n] = old
          /\ from # to => gaps[n] = Append(old, <<from, to>>)
      BY <2>0, <2>2 DEF GapsUpto
    <3>. HIDE DEF from, to, old, Before
    <3>6. \A x \in Int : from = to => ~(from <= x /\ x < to)
      BY <3>3
    <3>7. /\ Append(old, <<from, to>>) \in Seq(Int \X Int)
          /\ \A x : Within(Append(old, <<from, to>>), x)
                       <=> Within(old, x) \/ (from <= x /\ x < to)
      <4>1. <<from, to>> \in Int \X Int /\ <<from, to>>[1] = from /\ <<from, to>>[2] = to
        BY <3>3
      <4>. DEFINE gap == <<from, to>>
      <4>. HIDE DEF gap
      <4>2. gap \in Int \X Int /\ gap[1] = from /\ gap[2] = to
        BY <4>1 DEF gap
      <4>3. Append(old, gap) \in Seq(Int \X Int)
        BY <3>2, <4>2
      <4>4. \A x : Within(Append(old, gap), x) <=> Within(old, x) \/ (from <= x /\ x < to)
        BY <3>2, <4>2, WithinAppend
      <4>. QED
        BY <4>3, <4>4 DEF gap
    <3>8. gaps[n] \in Seq(Int \X Int)
      BY <3>2, <3>5, <3>7
    <3>9. \A x \in Int : Within(gaps[n], x) <=> Before(x) \/ (from <= x /\ x < to)
      <4>1. CASE from = to
        BY <3>2, <3>5, <3>6, <4>1, Zenon
      <4>2. CASE from # to
        BY <3>2, <3>5, <3>7, <4>2, Zenon
      <4>. QED
        BY <4>1, <4>2
    <3>. QED
      BY <3>4, <3>8, <3>9, Zenon
  <2>. QED
    BY <2>1, <2>2
<1>7. N \in Counted
  <2>. HIDE DEF Counted, N
  <2>1. \A k \in 1..N : k \in Counted
    BY <1>1, <1>6, EachIndex, Zenon
  <2>. QED
    BY <1>1, <2>1
<1>. QED
  BY <1>5, <1>7

(* For a disk with partitions in the order of their numbers and no         *)
(* position that parted prints with decimals, AvailableSectors             *)
(* (disk.go:38-75) answers with exactly the space behind the start of the  *)
(* first partition that no partition has.                                  *)
THEOREM FreeSpaceFoundExactly ==
  ASSUME NEW disk, disk.parts \in Seq(Int \X Int), disk.size \in Int, InOrder(disk),
         \A i \in DOMAIN disk.parts : disk.parts[i][1] <= disk.parts[i][2],
         AvailableSectors(disk).result = "ok",
         NEW x \in Int, x >= disk.parts[1][1], x < disk.size
  PROVE  Within(AvailableSectors(disk).sectors, x) <=> Free(disk, x)
<1>. DEFINE parts == disk.parts
            N == Len(parts)
            lo == [i \in 1..N |-> parts[i][1]]
            hi == [i \in 1..N |-> parts[i][2]]
            between == Between(disk)
            after == AfterLast(disk)
<1>1. parts # <<>> /\ AvailableSectors(disk).sectors = between \o after
  BY DEF AvailableSectors
<1>2. N \in Nat \ {0} /\ DOMAIN parts = 1..N /\ N \in 1..N /\ 1 \in 1..N
  BY <1>1
<1>3. /\ lo \in [1..N -> Int] /\ hi \in [1..N -> Int]
      /\ \A i \in 1..N : lo[i] = parts[i][1] /\ hi[i] = parts[i][2]
  <2>1. \A i \in 1..N : parts[i] \in Int \X Int
    BY <1>2
  <2>2. \A i \in 1..N : parts[i][1] \in Int /\ parts[i][2] \in Int
    BY <2>1
  <2>. QED
    BY <2>2
<1>4. \A i \in 1..N - 1 : i \in 1..N /\ i + 1 \in 1..N
  BY <1>2
<1>5. \A i, j \in 1..N : i < j => parts[i][2] <= parts[j][1]
  BY <1>2, Zenon DEF InOrder
<1>. HIDE DEF lo, hi
<1>6. Free(disk, x) <=> \A i \in 1..N : ~(lo[i] <= x /\ x < hi[i])
  BY <1>2, <1>3, Zenon DEF Free, Within
<1>7. Free(disk, x) <=>
        (\E i \in 1..N - 1 : hi[i] <= x /\ x < lo[i + 1]) \/ hi[N] <= x
  <2>1. \A i \in 1..N : lo[i] <= hi[i]
    BY <1>2, <1>3, Zenon
  <2>2. \A i, j \in 1..N : i < j => hi[i] <= lo[j]
    BY <1>3, <1>5, Zenon
  <2>3. x >= lo[1]
    BY <1>2, <1>3, Zenon
  <2>. HIDE DEF N
  <2>. QED
    BY <1>2, <1>3, <1>6, <2>1, <2>2, <2>3, BetweenRanges
<1>8. /\ between \in Seq(Int \X Int)
      /\ Within(between, x) <=> \E i \in 1..N - 1 : hi[i] <= x /\ x < lo[i + 1]
  <2>1. /\ between \in Seq(Int \X Int)
        /\ Within(between, x) <=>
             \E i \in 1..N - 1 : parts[i][2] <= x /\ x < parts[i + 1][1]
    BY <1>1, BetweenIs
  <2>. QED
    BY <1>3, <1>4, <2>1, Zenon
<1>9. /\ after \in Seq(Int \X Int)
      /\ Within(after, x) <=> hi[N] <= x
  <2>. DEFINE end == hi[N]
  <2>0. end \in Int
    BY <1>2, <1>3
  <2>1. after = IF end < disk.size THEN <<<<end, disk.size>>>> ELSE <<>>
    BY <1>2, <1>3, Zenon DEF AfterLast
  <2>. HIDE DEF end, after
  <2>2. CASE end < disk.size
    <3>. DEFINE range == <<end, disk.size>>
    <3>1. range \in Int \X Int /\ range[1] = end /\ range[2] = disk.size
      BY <2>0
    <3>. HIDE DEF range
    <3>2. after = <<range>>
      BY <2>1, <2>2 DEF range
    <3>3. DOMAIN after = {1} /\ after[1] = range /\ after \in Seq(Int \X Int)
      BY <3>1, <3>2
    <3>4. Within(after, x) <=> end <= x /\ x < disk.size
      BY <3>1, <3>3, Zenon DEF Within
    <3>. QED
      BY <3>3, <3>4 DEF end
  <2>3. CASE ~(end < disk.size)
    <3>1. after = <<>>
      BY <2>1, <2>3
    <3>2. ~Within(after, x) /\ after \in Seq(Int \X Int)
      BY <3>1 DEF Within
    <3>3. ~(end <= x)
      BY <2>0, <2>3
    <3>. QED
      BY <3>2, <3>3 DEF end
  <2>. QED
    BY <2>2, <2>3
<1>. HIDE DEF between, after
<1>10. Within(between \o after, x) <=> Within(between, x) \/ Within(after, x)
  BY <1>8, <1>9, WithinConcat
<1>. QED
  BY <1>1, <1>7, <1>8, <1>9, <1>10
=============================================================================
