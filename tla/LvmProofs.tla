------------------------------ MODULE LvmProofs ------------------------------
(***************************************************************************)
(* Theorems about Lvm, for any devices and names and any number of groups  *)
(* and volumes.                                                            *)
(*                                                                         *)
(* No two volumes have an identity in common (VolumesInv), a command runs  *)
(* only with the names its operation needs (OpInv), and between a renaming *)
(* and the listing that follows it a struct stands for what has the new    *)
(* name (OwnGroupStep, OwnVolumeStep), while the name that it has lost is  *)
(* nobody's until it is given away (GroupNameStep, VolumeNameStep): that   *)
(* is what OwnGroup, OwnVolume and OnlyNamedVolumes rest on.               *)
(***************************************************************************)
EXTENDS Lvm, SequenceFacts

GroupsInv ==
  /\ nodes \subseteq Known
  /\ pv \in [Device -> {NotPv, FreePv} \cup 1..MaxVg]
  /\ group \in [VgName -> 0..MaxVg]
  /\ \A n, m \in VgName : n # m /\ group[n] # NoGroup => group[n] # group[m]
  /\ \A n \in VgName : group[n] # NoGroup => PvsOf(group[n]) # {}

VolumeType ==
  [id : 1..MaxLv, vg : 1..MaxVg, name : LvName, kind : {"linear", "thin", "pool"},
   pool : 0..MaxLv, on : SUBSET Device, fs : {"blank", "written"}]

VolumesInv ==
  /\ lvs \subseteq VolumeType
  /\ \A x, y \in lvs : x.id = y.id => x = y
  /\ \A x, y \in lvs : x.vg = y.vg /\ x.name = y.name => x = y
  /\ \A x \in lvs : \A d \in x.on : pv[d] = x.vg
  /\ \A x \in lvs : \E n \in VgName : group[n] = x.vg
  /\ \A x \in lvs : x.kind = "thin" <=> x.pool # 0
  /\ \A x \in lvs : x.kind = "thin" =>
       \E p \in lvs : p.vg = x.vg /\ p.id = x.pool /\ p.kind = "pool"

NeedVg == {"vgcreate", "vgextend", "vgreduce", "vgrename", "vgremove", "lvremove",
           "lvm-format", "lvcreate", "lvrename", "make-thin-pool", "lvcreate-thin"}
NeedLv == {"lvcreate", "lvrename", "make-thin-pool", "lvcreate-thin"}

OpInv ==
  /\ pc \in {"idle", "wait", "command", "list", "mkfs", "label"}
  /\ op \in RecipeOps \cup {NoOp} \/ op.via \in {"vg", "lv"}
  /\ op.pvs \subseteq Device
  /\ op.do \in NeedVg => op.vg \in VgName
  /\ op.do = "vgrename" => op.new \in VgName
  /\ op.do \in NeedLv => op.lv \in LvName
  /\ op.do \in {"lvrename", "make-thin-pool", "lvcreate-thin"} => op.new \in LvName
  /\ op.via = "vg" => vg # NoVg /\ op.vg = vg.name
  /\ op.via = "lv" => lv # NoLv /\ op.vg = lv.vg /\ op.lv = lv.name
  /\ pc = "idle" => op = NoOp
  /\ pc = "list" => op.do \in {"vgrename", "lvrename"}
  /\ pc \in {"mkfs", "label"} =>
       /\ op.do = "lvm-format"
       /\ \E x \in Argument(op.vg, op.lv) : x.id = found

Standings == {"own", "lost", "taken"}

HeldInv ==
  /\ found \in 0..MaxLv
  /\ vg = NoVg \/ vg \in [name : VgName, id : 0..MaxVg]
  /\ lv = NoLv \/ lv \in [vg : VgName, name : LvName, id : 0..MaxLv]
  /\ vgStanding \in Standings /\ lvStanding \in Standings

(* In the middle of its own renaming, a struct is what has the new name.   *)
OwnGroupStep ==
  vg.id # 0 /\ vgStanding = "own" =>
    IF pc = "list" /\ op.do = "vgrename" /\ op.via = "vg"
    THEN group[op.new] = vg.id ELSE group[vg.name] = vg.id

OwnVolumeStep ==
  lv.id # 0 /\ lvStanding = "own" =>
    IF pc = "list" /\ op.do = "lvrename" /\ op.via = "lv"
    THEN \E x \in Named(group[op.vg], op.new) : x.id = lv.id
    ELSE \E x \in Named(group[lv.vg], lv.name) : x.id = lv.id

(* The name of a struct that has lost what it was read from is nobody's.   *)
GroupNameStep ==
  vg.id # 0 /\ vgStanding # "taken" =>
    /\ group[vg.name] \in {vg.id, NoGroup}
    /\ pc = "list" /\ op.do = "vgrename" /\ op.via = "vg" => group[op.new] = vg.id

VolumeNameStep ==
  lv.id # 0 /\ lvStanding # "taken" =>
    /\ \A x \in Named(group[lv.vg], lv.name) : x.id = lv.id
    /\ pc = "list" /\ op.do = "lvrename" /\ op.via = "lv" =>
         \A x \in Named(group[op.vg], op.new) : x.id = lv.id

IInv ==
  /\ GroupsInv /\ VolumesInv /\ OpInv /\ HeldInv
  /\ OwnGroupStep /\ OwnVolumeStep /\ GroupNameStep /\ VolumeNameStep
-----------------------------------------------------------------------------
LEMMA MinIn == ASSUME NEW n \in Nat, NEW S \in SUBSET 1..n, S # {} PROVE Min(S) \in S
<1>1. S \in SUBSET Nat
  OBVIOUS
<1>2. PICK m \in S : \A k \in S : ~(k < m)
  <2>1. IsWellFoundedOn(OpToRel(<, Nat), Nat)
    BY NatLessThanWellFounded
  <2>2. PICK m \in S : \A k \in S : <<k, m>> \notin OpToRel(<, Nat)
    BY <1>1, <2>1, WFMin
  <2> QED
    BY <1>1, <2>2 DEF OpToRel
<1>3. \A k \in S : m =< k
  BY <1>1, <1>2
<1> QED
  BY <1>3 DEF Min

(* What each operation is about.                                           *)
Aimed(o) ==
  /\ o.pvs \subseteq Device
  /\ o.do \in NeedVg => o.vg \in VgName
  /\ o.do = "vgrename" => o.new \in VgName
  /\ o.do \in NeedLv => o.lv \in LvName
  /\ o.do \in {"lvrename", "make-thin-pool", "lvcreate-thin"} => o.new \in LvName

LEMMA RecipeAims == ASSUME NEW o \in RecipeOps PROVE Aimed(o) /\ o.via = "recipe"
<1> USE DEF Operation, Aimed, NeedVg, NeedLv
<1>1. CASE o \in {Operation(do, None, None, None, {d}, "recipe") :
                   do \in {"pvcreate", "pvresize", "pvremove"}, d \in Device}
  BY <1>1
<1>2. CASE o \in {Operation(do, g, None, None, pvs, "recipe") :
                   do \in {"vgcreate", "vgextend", "vgreduce"}, g \in VgName,
                   pvs \in SUBSET Device}
  BY <1>2
<1>3. CASE o \in {Operation("vgrename", g, None, new, {}, "recipe") : g, new \in VgName}
  BY <1>3
<1>4. CASE o \in {Operation("vgremove", g, None, None, {}, "recipe") : g \in VgName}
  BY <1>4
<1>5. CASE o \in {Operation(do, g, n, None, {}, "recipe") :
                   do \in {"lvremove", "lvm-format"}, g \in VgName,
                   n \in LvName \cup {None}}
  BY <1>5
<1>6. CASE o \in {Operation("lvcreate", g, n, None, {}, "recipe") :
                   g \in VgName, n \in LvName}
  BY <1>6
<1>7. CASE o \in {Operation(do, g, n, new, {}, "recipe") :
                   do \in {"lvrename", "make-thin-pool", "lvcreate-thin"},
                   g \in VgName, n, new \in LvName}
  BY <1>7
<1> QED
  BY <1>1, <1>2, <1>3, <1>4, <1>5, <1>6, <1>7 DEF RecipeOps

LEMMA MethodAims ==
  ASSUME HeldInv, NEW o \in Methods
  PROVE  /\ Aimed(o) /\ o.via \in {"vg", "lv"}
         /\ o.via = "vg" => vg # NoVg /\ o.vg = vg.name
         /\ o.via = "lv" => lv # NoLv /\ o.vg = lv.vg /\ o.lv = lv.name
<1> USE DEF Operation, Aimed, NeedVg, NeedLv
<1>1. vg # NoVg => vg.name \in VgName
  BY DEF HeldInv
<1>2. lv # NoLv => lv.vg \in VgName /\ lv.name \in LvName
  BY DEF HeldInv
<1>3. CASE vg # NoVg /\ o \in {Operation(do, vg.name, None, None, pvs, "vg") :
                               do \in {"vgextend", "vgreduce"}, pvs \in SUBSET Device}
  BY <1>1, <1>3
<1>4. CASE vg # NoVg /\ o \in {Operation("vgrename", vg.name, None, new, {}, "vg") :
                               new \in VgName}
  BY <1>1, <1>4
<1>5. CASE vg # NoVg /\ o = Operation("vgremove", vg.name, None, None, {}, "vg")
  BY <1>1, <1>5
<1>6. CASE lv # NoLv /\ o \in {Operation("lvrename", lv.vg, lv.name, new, {}, "lv") :
                               new \in LvName}
  BY <1>2, <1>6
<1>7. CASE lv # NoLv /\ o = Operation("lvremove", lv.vg, lv.name, None, {}, "lv")
  BY <1>2, <1>7
<1> QED
  BY <1>3, <1>4, <1>5, <1>6, <1>7 DEF Methods

-----------------------------------------------------------------------------
LEMMA InitInv == Init => IInv
<1> SUFFICES ASSUME Init PROVE IInv
  OBVIOUS
<1>1. GroupsInv /\ VolumesInv
  <2>1. pv \in [Device -> {NotPv, FreePv} \cup 1..MaxVg] /\ nodes \subseteq Known
    BY DEF Init
  <2>2. group \in [VgName -> 0..MaxVg] /\ \A n \in VgName : group[n] = NoGroup
    BY BoundAssumption DEF Init, NoGroup
  <2> QED
    BY <2>1, <2>2 DEF Init, GroupsInv, VolumesInv
<1>2. OpInv
  BY DEF Init, OpInv, NoOp, None, NeedVg, NeedLv
<1>3. OwnGroupStep /\ OwnVolumeStep
  BY DEF Init, NoVg, NoLv, OwnGroupStep, OwnVolumeStep
<1>4. HeldInv
  <2>1. found \in 0..MaxLv
    BY BoundAssumption DEF Init
  <2>2. vgStanding \in Standings /\ lvStanding \in Standings
    BY DEF Init, Standings
  <2> QED
    BY <2>1, <2>2, Zenon DEF Init, HeldInv
<1>5. GroupNameStep /\ VolumeNameStep
  BY DEF Init, NoVg, NoLv, GroupNameStep, VolumeNameStep
<1> QED
  BY <1>1, <1>2, <1>3, <1>4, <1>5 DEF IInv

-----------------------------------------------------------------------------
(* The operation.                                                          *)
LEMMA DoneOp == Done => OpInv'
BY DEF Done, OpInv, NoOp, None, NeedVg, NeedLv

(* Every step is one of these: it ends the operation, or leaves it, or is  *)
(* one of a few that take it further.                                      *)
LEMMA Steps ==
  ASSUME [Next]_vars
  PROVE  \/ Done
         \/ UNCHANGED <<pv, group, lvs, pc, op, found, held, standing>>
         \/ Begin \/ WaitUntilAvailable \/ Vgrename \/ Lvrename \/ FindLv
         \/ MakeFs \/ HoldVg \/ HoldLv
BY DEF Next, NodeAppears, Pvcreate, Pvresize, Pvremove, OnGroups, Vgcreate, Vgextend,
       Vgreduce, Vgremove, ListRenamedVg, OnVolumes, Lvcreate, LvThinCreate,
       ListRenamedLv, Lvremove, MakeThinPool, SetLabel, Fail, vars, machine, held, standing

(* mkfs and the label change what the volume found holds, nothing else.    *)
LEMMA WriteKeeps ==
  ASSUME IInv, pc \in {"mkfs", "label"}, Write, group' = group
  PROVE  \E x \in Argument(op.vg, op.lv) :
           /\ x \in lvs /\ x.id = found
           /\ \A y \in lvs : y.id = found => y = x
           /\ lvs' = (lvs \ {x}) \cup {[x EXCEPT !.fs = "written"]}
<1>1. PICK x \in Argument(op.vg, op.lv) : x.id = found
  BY DEF IInv, OpInv
<1>2. x \in lvs
  BY <1>1 DEF Argument, Volumes, Named
<1>3. \A y \in lvs : y.id = found => y = x
  BY <1>1, <1>2 DEF IInv, VolumesInv
<1> QED
  BY <1>1, <1>2, <1>3 DEF Write

LEMMA OpNext == IInv /\ [Next]_vars => OpInv'
<1> SUFFICES ASSUME IInv, [Next]_vars PROVE OpInv'
  OBVIOUS
<1>0. OpInv
  BY DEF IInv
<1>9. RecipeOps' = RecipeOps
  BY DEF RecipeOps
<1>10. ASSUME UNCHANGED <<op, vg, lv>>, pc' \in {"wait", "command", "list", "mkfs"},
              pc' = "list" => op.do \in {"vgrename", "lvrename"},
              pc' = "mkfs" => /\ op.do = "lvm-format"
                              /\ \E x \in Argument(op.vg, op.lv)' : x.id = found'
       PROVE  OpInv'
  BY <1>0, <1>9, <1>10 DEF OpInv
<1>1. CASE Done
  BY <1>1, DoneOp
<1>2. CASE UNCHANGED <<pv, group, lvs, pc, op, found, held, standing>>
  <2>1. Argument(op.vg, op.lv)' = Argument(op.vg, op.lv)
    BY <1>2 DEF Argument, Volumes, Named
  <2> QED
    BY <1>0, <1>9, <1>2, <2>1 DEF OpInv, held
<1>3. CASE Begin
  <2>1. /\ op' \in RecipeOps \cup Methods /\ pc' \in {"wait", "command"}
        /\ UNCHANGED <<vg, lv>>
    BY <1>3 DEF Begin, held
  <2>2. Aimed(op') /\ (op' \in RecipeOps \/ op'.via \in {"vg", "lv"})
        /\ (op'.via = "vg" => vg # NoVg /\ op'.vg = vg.name)
        /\ (op'.via = "lv" => lv # NoLv /\ op'.vg = lv.vg /\ op'.lv = lv.name)
    <3>1. CASE op' \in RecipeOps
      BY <3>1, RecipeAims
    <3>2. CASE op' \in Methods
      BY <3>2, MethodAims DEF IInv
    <3> QED
      BY <2>1, <3>1, <3>2
  <2>3. RecipeOps' = RecipeOps
    BY DEF RecipeOps
  <2> QED
    BY <2>1, <2>2, <2>3 DEF OpInv, Aimed
<1>4. CASE WaitUntilAvailable
  <2>1. UNCHANGED <<op, vg, lv>> /\ pc' = "command"
    BY <1>4 DEF WaitUntilAvailable, held
  <2> QED
    BY <1>10, <2>1
<1>5. CASE Vgrename \/ Lvrename
  <2>1. UNCHANGED <<op, vg, lv>> /\ pc' = "list" /\ op.do \in {"vgrename", "lvrename"}
    BY <1>5 DEF Vgrename, Lvrename, Command, held
  <2> QED
    BY <1>10, <2>1
<1>6. CASE FindLv
  <2>1. \E x \in Argument(op.vg, op.lv) : x.id = found'
    BY <1>6 DEF FindLv
  <2>2. Argument(op.vg, op.lv)' = Argument(op.vg, op.lv)
    BY <1>6 DEF FindLv, machine, Argument, Volumes, Named
  <2>3. UNCHANGED <<op, vg, lv>> /\ pc' = "mkfs" /\ op.do = "lvm-format"
    BY <1>6 DEF FindLv, Command, held
  <2> QED
    BY <1>10, <2>1, <2>2, <2>3
<1>7. CASE MakeFs /\ ~Done
  <2>1. /\ pc = "mkfs" /\ pc' = "label" /\ op' = op /\ found' = found
        /\ UNCHANGED <<group, vg, lv>> /\ Write
    BY <1>7 DEF MakeFs, held
  <2>2. PICK x \in Argument(op.vg, op.lv) :
          /\ x \in lvs /\ x.id = found
          /\ lvs' = (lvs \ {x}) \cup {[x EXCEPT !.fs = "written"]}
    BY <2>1, WriteKeeps
  <2> DEFINE y == [x EXCEPT !.fs = "written"]
  <2>3. y \in lvs' /\ y.id = x.id /\ y.vg = x.vg /\ y.name = x.name
    BY <2>2 DEF IInv, VolumesInv, VolumeType
  <2>4. y \in Argument(op.vg, op.lv)'
    BY <2>1, <2>2, <2>3 DEF Argument, Volumes, Named
  <2> HIDE DEF y
  <2> QED
    BY <1>0, <1>9, <2>1, <2>2, <2>3, <2>4 DEF OpInv
<1>8. CASE HoldVg \/ HoldLv
  <2>1. op' = NoOp /\ pc' = "idle"
    BY <1>0, <1>8 DEF HoldVg, HoldLv, OpInv
  <2> QED
    BY <2>1 DEF OpInv, NoOp, None, NeedVg, NeedLv
<1> QED
  BY <1>1, <1>2, <1>3, <1>4, <1>5, <1>6, <1>7, <1>8, Steps

-----------------------------------------------------------------------------
(* The structs.                                                            *)
LEMMA HeldNext == IInv /\ [Next]_vars => HeldInv'
<1> SUFFICES ASSUME IInv, [Next]_vars PROVE HeldInv'
  OBVIOUS
<1>0. /\ HeldInv /\ group \in [VgName -> 0..MaxVg] /\ lvs \subseteq VolumeType
      /\ op.do = "vgrename" => op.new \in VgName
      /\ op.do = "lvrename" => op.new \in LvName /\ op.vg \in VgName
  BY DEF IInv, GroupsInv, VolumesInv, OpInv, NeedVg, NeedLv
<1>1. vgStanding' \in Standings /\ lvStanding' \in Standings
  <2>1. vgStanding \in Standings /\ lvStanding \in Standings
    BY <1>0 DEF HeldInv
  <2> QED
    BY <2>1, Zenon DEF Next, NodeAppears, Begin, WaitUntilAvailable, Pvcreate, Pvresize,
         Pvremove, OnGroups, Vgcreate, Vgextend, Vgreduce, Vgremove, Vgrename,
         ListRenamedVg, OnVolumes, Lvcreate, LvThinCreate, Lvrename, ListRenamedLv,
         Lvremove, MakeThinPool, FindLv, MakeFs, SetLabel, Fail, HoldVg, HoldLv, Takes,
         After, Standings, vars, standing
<1>2. found' \in 0..MaxLv
  <2>1. CASE FindLv
    <3>1. PICK x \in Argument(op.vg, op.lv) : found' = x.id
      BY <2>1 DEF FindLv
    <3>2. x \in lvs
      BY <3>1 DEF Argument, Volumes, Named
    <3> QED
      BY <1>0, <3>1, <3>2, BoundAssumption DEF VolumeType
  <2>2. CASE ~FindLv
    <3>1. found' \in {0, found}
      BY <2>2, Steps DEF Done, Begin, WaitUntilAvailable, Vgrename, Lvrename, MakeFs,
                         HoldVg, HoldLv
    <3> QED
      BY <1>0, <3>1, BoundAssumption DEF HeldInv
  <2> QED
    BY <2>1, <2>2
<1>3. vg' = NoVg \/ vg' \in [name : VgName, id : 0..MaxVg]
  <2>1. vg = NoVg \/ vg \in [name : VgName, id : 0..MaxVg]
    BY <1>0 DEF HeldInv
  <2>2. CASE ListRenamedVg
    <3>1. /\ op.new \in VgName /\ (op.via = "vg" => vg # NoVg)
          /\ vg' = IF op.via = "vg" THEN [vg EXCEPT !.name = op.new] ELSE vg
      BY <1>0, <2>2 DEF ListRenamedVg, IInv, OpInv
    <3> QED
      BY <2>1, <3>1
  <2>3. CASE HoldVg
    BY <1>0, <2>3 DEF HoldVg
  <2>4. CASE ~ListRenamedVg /\ ~HoldVg
    <3>1. vg' \in {NoVg, vg}
      BY <2>4 DEF Next, NodeAppears, Begin, WaitUntilAvailable, Pvcreate, Pvresize,
         Pvremove, OnGroups, Vgcreate, Vgextend, Vgreduce, Vgremove, Vgrename,
         OnVolumes, Lvcreate, LvThinCreate, Lvrename, ListRenamedLv,
         Lvremove, MakeThinPool, FindLv, MakeFs, SetLabel, Fail, HoldLv, vars, held
    <3> QED
      BY <2>1, <3>1
  <2> QED
    BY <2>2, <2>3, <2>4
<1>4. lv' = NoLv \/ lv' \in [vg : VgName, name : LvName, id : 0..MaxLv]
  <2>1. lv = NoLv \/ lv \in [vg : VgName, name : LvName, id : 0..MaxLv]
    BY <1>0 DEF HeldInv
  <2>2. \A x \in lvs : x.id \in 0..MaxLv /\ x.name \in LvName
    BY <1>0, BoundAssumption DEF VolumeType
  <2>3. CASE ListRenamedLv
    <3>1. /\ op.new \in LvName /\ (op.via = "lv" => lv # NoLv)
          /\ lv' = IF op.via = "lv" THEN [lv EXCEPT !.name = op.new] ELSE lv
      BY <1>0, <2>3 DEF ListRenamedLv, IInv, OpInv
    <3> QED
      BY <2>1, <3>1
  <2>4. CASE HoldLv
    BY <1>0, <2>2, <2>4 DEF HoldLv, Volumes
  <2>5. CASE ~ListRenamedLv /\ ~HoldLv
    <3>1. lv' \in {NoLv, lv}
      BY <2>5 DEF Next, NodeAppears, Begin, WaitUntilAvailable, Pvcreate, Pvresize,
         Pvremove, OnGroups, Vgcreate, Vgextend, Vgreduce, Vgremove, Vgrename,
         ListRenamedVg, OnVolumes, Lvcreate, LvThinCreate, Lvrename,
         Lvremove, MakeThinPool, FindLv, MakeFs, SetLabel, Fail, HoldVg, vars, held
    <3> QED
      BY <2>1, <3>1
  <2> QED
    BY <2>3, <2>4, <2>5
<1> QED
  BY <1>1, <1>2, <1>3, <1>4 DEF HeldInv

-----------------------------------------------------------------------------
(* The groups.                                                             *)
LEMMA FreshGroup ==
  ASSUME GroupsInv, FreshVg # {}
  PROVE  /\ Min(FreshVg) \in 1..MaxVg /\ Min(FreshVg) # vg.id
         /\ \A n \in VgName : group[n] # Min(FreshVg)
<1>1. Min(FreshVg) \in FreshVg
  BY BoundAssumption, MinIn DEF FreshVg
<1> QED
  BY <1>1 DEF FreshVg

(* The steps that change groups or physical volumes.                       *)
LEMMA GroupSteps ==
  ASSUME [Next]_vars
  PROVE  \/ UNCHANGED <<pv, group>>
         \/ Pvcreate \/ Pvremove \/ Vgcreate \/ Vgextend \/ Vgreduce \/ Vgremove \/ Vgrename
BY DEF Next, NodeAppears, Begin, WaitUntilAvailable, Pvresize, OnGroups, ListRenamedVg,
       OnVolumes, Lvcreate, LvThinCreate, Lvrename, ListRenamedLv, Lvremove, MakeThinPool,
       FindLv, MakeFs, SetLabel, Fail, HoldVg, HoldLv, vars, machine

LEMMA GroupsNext == IInv /\ [Next]_vars => GroupsInv'
<1> SUFFICES ASSUME IInv, [Next]_vars PROVE GroupsInv'
  OBVIOUS
<1>0. /\ pv \in [Device -> {NotPv, FreePv} \cup 1..MaxVg]
      /\ group \in [VgName -> 0..MaxVg]
      /\ \A n, m \in VgName : n # m /\ group[n] # NoGroup => group[n] # group[m]
      /\ \A n \in VgName : group[n] # NoGroup => \E d \in Device : pv[d] = group[n]
      /\ op.do \in NeedVg => op.vg \in VgName
      /\ op.do = "vgrename" => op.new \in VgName
      /\ op.pvs \subseteq Device
      /\ MaxVg \in Nat
  BY BoundAssumption DEF IInv, GroupsInv, OpInv, PvsOf
<1>1. nodes' \subseteq Known
  BY DEF IInv, GroupsInv, Next, NodeAppears, Begin, WaitUntilAvailable, Pvcreate, Pvresize,
         Pvremove, OnGroups, Vgcreate, Vgextend, Vgreduce, Vgremove, Vgrename,
         ListRenamedVg, OnVolumes, Lvcreate, LvThinCreate, Lvrename, ListRenamedLv,
         Lvremove, MakeThinPool, FindLv, MakeFs, SetLabel, Fail, HoldVg, HoldLv, vars, machine
<1>2. SUFFICES
        /\ pv' \in [Device -> {NotPv, FreePv} \cup 1..MaxVg]
        /\ group' \in [VgName -> 0..MaxVg]
        /\ \A n, m \in VgName : n # m /\ group'[n] # NoGroup => group'[n] # group'[m]
        /\ \A n \in VgName : group'[n] # NoGroup => \E d \in Device : pv'[d] = group'[n]
  BY <1>1 DEF GroupsInv, PvsOf
<1>3. CASE UNCHANGED <<pv, group>>
  BY <1>0, <1>3
<1>4. CASE Pvcreate \/ Pvremove
  <2>1. group' = group
    BY <1>4 DEF Pvcreate, Pvremove
  <2>2. pv' \in [Device -> {NotPv, FreePv} \cup 1..MaxVg]
    BY <1>0, <1>4 DEF Pvcreate, Pvremove
  <2>3. \A d \in Device : pv[d] \in 1..MaxVg => pv'[d] = pv[d]
    BY <1>0, <1>4 DEF Pvcreate, Pvremove, Usable, NotPv, FreePv
  <2> QED
    BY <1>0, <2>1, <2>2, <2>3 DEF NoGroup
<1>5. CASE Vgcreate
  <2> DEFINE g == Min(FreshVg)
  <2>1. /\ g \in 1..MaxVg /\ \A n \in VgName : group[n] # g
    BY <1>5, FreshGroup DEF IInv, Vgcreate
  <2>2. /\ op.vg \in VgName /\ op.pvs # {} /\ Usable(op.pvs)
        /\ group' = [group EXCEPT ![op.vg] = g]
        /\ pv' = [d \in Device |-> IF d \in op.pvs THEN g ELSE pv[d]]
    BY <1>0, <1>5 DEF Vgcreate, Command, NeedVg
  <2> HIDE DEF g
  <2>3. \A d \in Device : pv[d] \in 1..MaxVg => pv'[d] = pv[d]
    BY <1>0, <2>2 DEF Usable, NotPv, FreePv
  <2>4. \E d \in Device : pv'[d] = g
    BY <1>0, <2>2
  <2>5. pv' \in [Device -> {NotPv, FreePv} \cup 1..MaxVg] /\ group' \in [VgName -> 0..MaxVg]
    BY <1>0, <2>1, <2>2
  <2>6. \A n \in VgName : group'[n] = IF n = op.vg THEN g ELSE group[n]
    BY <1>0, <2>2
  <2> QED
    BY <1>0, <2>1, <2>3, <2>4, <2>5, <2>6 DEF NoGroup
<1>6. CASE Vgextend
  <2>1. /\ op.vg \in VgName /\ Usable(op.pvs) /\ group' = group /\ group[op.vg] # NoGroup
        /\ pv' = [d \in Device |-> IF d \in op.pvs THEN group[op.vg] ELSE pv[d]]
    BY <1>0, <1>6 DEF Vgextend, Command, NeedVg
  <2>2. \A d \in Device : pv[d] \in 1..MaxVg => pv'[d] = pv[d]
    BY <1>0, <2>1 DEF Usable, NotPv, FreePv
  <2>3. pv' \in [Device -> {NotPv, FreePv} \cup 1..MaxVg]
    BY <1>0, <2>1 DEF NoGroup
  <2> QED
    BY <1>0, <2>1, <2>2, <2>3 DEF NoGroup
<1>7. CASE Vgreduce
  <2>1. /\ op.vg \in VgName /\ group' = group /\ group[op.vg] # NoGroup
        /\ op.pvs \subseteq PvsOf(group[op.vg]) /\ op.pvs # PvsOf(group[op.vg])
        /\ pv' = [d \in Device |-> IF d \in op.pvs THEN FreePv ELSE pv[d]]
    BY <1>0, <1>7 DEF Vgreduce, Command, NeedVg
  <2>2. pv' \in [Device -> {NotPv, FreePv} \cup 1..MaxVg]
    BY <1>0, <2>1
  <2>3. ASSUME NEW n \in VgName, group[n] # NoGroup PROVE \E d \in Device : pv'[d] = group[n]
    <3>1. CASE n = op.vg
      BY <2>1, <3>1 DEF PvsOf
    <3>2. CASE n # op.vg
      BY <1>0, <2>1, <2>3, <3>2 DEF PvsOf
    <3> QED
      BY <3>1, <3>2
  <2> QED
    BY <1>0, <2>1, <2>2, <2>3
<1>8. CASE Vgremove
  <2>1. /\ op.vg \in VgName /\ group[op.vg] # NoGroup
        /\ group' = [group EXCEPT ![op.vg] = NoGroup]
        /\ pv' = [d \in Device |-> IF pv[d] = group[op.vg] THEN FreePv ELSE pv[d]]
    BY <1>0, <1>8 DEF Vgremove, Command, NeedVg
  <2>2. pv' \in [Device -> {NotPv, FreePv} \cup 1..MaxVg] /\ group' \in [VgName -> 0..MaxVg]
    BY <1>0, <2>1 DEF NoGroup
  <2>3. \A n \in VgName : group'[n] = IF n = op.vg THEN NoGroup ELSE group[n]
    BY <1>0, <2>1
  <2> QED
    BY <1>0, <2>1, <2>2, <2>3
<1>9. CASE Vgrename
  <2>1. /\ op.vg \in VgName /\ op.new \in VgName
        /\ group[op.vg] # NoGroup /\ group[op.new] = NoGroup /\ pv' = pv
        /\ group' = [group EXCEPT ![op.vg] = NoGroup, ![op.new] = group[op.vg]]
    BY <1>0, <1>9 DEF Vgrename, Command, NeedVg
  <2>2. \A n \in VgName : group'[n] = IF n = op.new THEN group[op.vg]
                                     ELSE IF n = op.vg THEN NoGroup ELSE group[n]
    BY <1>0, <2>1
  <2>3. group' \in [VgName -> 0..MaxVg]
    BY <1>0, <2>1, <2>2 DEF NoGroup
  <2> QED
    BY <1>0, <2>1, <2>2, <2>3
<1> QED
  BY <1>3, <1>4, <1>5, <1>6, <1>7, <1>8, <1>9, GroupSteps

-----------------------------------------------------------------------------
(* The volumes.                                                            *)
LEMMA FreshVolume ==
  ASSUME VolumesInv, FreshLv # {}
  PROVE  /\ Min(FreshLv) \in 1..MaxLv /\ Min(FreshLv) # lv.id
         /\ \A x \in lvs : x.id # Min(FreshLv)
<1>1. Min(FreshLv) \in FreshLv
  BY BoundAssumption, MinIn DEF FreshLv
<1> QED
  BY <1>1 DEF FreshLv

(* The steps that change volumes.                                          *)
LEMMA VolumeSteps ==
  ASSUME [Next]_vars
  PROVE  \/ lvs' = lvs
         \/ Vgremove \/ Lvcreate \/ LvThinCreate \/ Lvrename \/ Lvremove \/ MakeThinPool
         \/ pc = "mkfs" /\ Write /\ UNCHANGED <<pv, group, held, standing>> /\ MakeFs
         \/ pc = "label" /\ Write /\ UNCHANGED <<pv, group, held, standing>> /\ SetLabel
BY DEF Next, NodeAppears, Begin, WaitUntilAvailable, Pvcreate, Pvresize, Pvremove, OnGroups,
       Vgcreate, Vgextend, Vgreduce, Vgrename, ListRenamedVg, OnVolumes, ListRenamedLv,
       FindLv, MakeFs, SetLabel, Fail, HoldVg, HoldLv, vars, machine

(* The volumes stay, and so does what each of them rests on.               *)
LEMMA VolumesStay ==
  ASSUME VolumesInv, lvs' = lvs,
         \A x \in lvs : \A d \in x.on : pv'[d] = pv[d],
         \A x \in lvs : \E n \in VgName : group'[n] = x.vg
  PROVE  VolumesInv'
BY DEF VolumesInv, VolumeType

(* Some volumes go, and with each pool what is in it.                      *)
LEMMA VolumesGo ==
  ASSUME VolumesInv, NEW gone \in SUBSET lvs, lvs' = lvs \ gone,
         \A x \in lvs, p \in gone : p.kind = "pool" /\ x.vg = p.vg /\ x.pool = p.id => x \in gone,
         \A x \in lvs \ gone : \A d \in x.on : pv'[d] = pv[d],
         \A x \in lvs \ gone : \E n \in VgName : group'[n] = x.vg
  PROVE  VolumesInv'
<1>1. ASSUME NEW x \in lvs', x.kind = "thin"
      PROVE  \E p \in lvs' : p.vg = x.vg /\ p.id = x.pool /\ p.kind = "pool"
  <2>1. PICK p \in lvs : p.vg = x.vg /\ p.id = x.pool /\ p.kind = "pool"
    BY <1>1 DEF VolumesInv
  <2> QED
    BY <2>1
<1> QED
  BY <1>1 DEF VolumesInv, VolumeType

(* A volume is replaced by itself under another name, or with other        *)
(* contents.                                                               *)
LEMMA VolumeReplaced ==
  ASSUME VolumesInv, UNCHANGED <<pv, group>>, NEW x \in lvs, NEW y \in VolumeType,
         lvs' = (lvs \ {x}) \cup {y},
         y.id = x.id, y.vg = x.vg, y.kind = x.kind, y.pool = x.pool, y.on = x.on,
         \A z \in lvs : z.vg = y.vg /\ z.name = y.name => z = x
  PROVE  VolumesInv'
<1>1. ASSUME NEW z \in lvs', z.kind = "thin"
      PROVE  \E p \in lvs' : p.vg = z.vg /\ p.id = z.pool /\ p.kind = "pool"
  <2>1. PICK w \in lvs : w.kind = "thin" /\ w.vg = z.vg /\ w.pool = z.pool
    BY <1>1
  <2>2. PICK p \in lvs : p.vg = w.vg /\ p.id = w.pool /\ p.kind = "pool"
    BY <2>1 DEF VolumesInv
  <2>3. CASE p = x
    BY <2>1, <2>2, <2>3
  <2>4. CASE p # x
    BY <2>1, <2>2, <2>4
  <2> QED
    BY <2>3, <2>4
<1>2. lvs' \subseteq VolumeType
  BY DEF VolumesInv
<1>3. /\ \A a, b \in lvs' : a.id = b.id => a = b
      /\ \A a, b \in lvs' : a.vg = b.vg /\ a.name = b.name => a = b
  BY DEF VolumesInv
<1>4. /\ \A z \in lvs' : \A d \in z.on : pv'[d] = z.vg
      /\ \A z \in lvs' : \E n \in VgName : group'[n] = z.vg
      /\ \A z \in lvs' : z.kind = "thin" <=> z.pool # 0
  BY DEF VolumesInv
<1> QED
  BY <1>1, <1>2, <1>3, <1>4 DEF VolumesInv, VolumeType

(* A volume is added.                                                      *)
LEMMA VolumeAdded ==
  ASSUME VolumesInv, UNCHANGED <<pv, group>>, NEW y \in VolumeType, lvs' = lvs \cup {y},
         \A z \in lvs : z.id # y.id /\ ~(z.vg = y.vg /\ z.name = y.name),
         \A d \in y.on : pv[d] = y.vg,
         \E n \in VgName : group[n] = y.vg,
         y.kind = "thin" <=> y.pool # 0,
         y.kind = "thin" => \E p \in lvs : p.vg = y.vg /\ p.id = y.pool /\ p.kind = "pool"
  PROVE  VolumesInv'
<1>1. ASSUME NEW z \in lvs', z.kind = "thin"
      PROVE  \E p \in lvs' : p.vg = z.vg /\ p.id = z.pool /\ p.kind = "pool"
  BY <1>1 DEF VolumesInv
<1>2. lvs' \subseteq VolumeType
  BY DEF VolumesInv
<1>3. /\ \A a, b \in lvs' : a.id = b.id => a = b
      /\ \A a, b \in lvs' : a.vg = b.vg /\ a.name = b.name => a = b
  BY DEF VolumesInv
<1>4. /\ \A z \in lvs' : \A d \in z.on : pv'[d] = z.vg
      /\ \A z \in lvs' : \E n \in VgName : group'[n] = z.vg
      /\ \A z \in lvs' : z.kind = "thin" <=> z.pool # 0
  BY DEF VolumesInv
<1> QED
  BY <1>1, <1>2, <1>3, <1>4 DEF VolumesInv, VolumeType

LEMMA VolumesNext == IInv /\ [Next]_vars => VolumesInv'
<1> SUFFICES ASSUME IInv, [Next]_vars PROVE VolumesInv'
  OBVIOUS
<1>0. /\ VolumesInv /\ lvs \subseteq VolumeType
      /\ pv \in [Device -> {NotPv, FreePv} \cup 1..MaxVg]
      /\ group \in [VgName -> 0..MaxVg]
      /\ op.do \in NeedVg => op.vg \in VgName
      /\ op.do \in NeedLv => op.lv \in LvName
      /\ op.do \in {"lvrename", "make-thin-pool", "lvcreate-thin"} => op.new \in LvName
      /\ op.do = "vgrename" => op.new \in VgName
      /\ op.pvs \subseteq Device
      /\ MaxVg \in Nat /\ MaxLv \in Nat
  BY BoundAssumption DEF IInv, GroupsInv, VolumesInv, OpInv
<1>1. /\ \A x \in lvs : x.vg \in 1..MaxVg /\ x.on \subseteq Device
      /\ \A x \in lvs : \A d \in x.on : pv[d] = x.vg
      /\ \A x \in lvs : \E n \in VgName : group[n] = x.vg
  BY <1>0 DEF VolumesInv, VolumeType
<1>2. CASE lvs' = lvs
  <2>1. CASE UNCHANGED <<pv, group>>
    BY <1>0, <1>1, <1>2, <2>1, VolumesStay
  <2>2. CASE Pvcreate \/ Pvremove \/ Vgcreate \/ Vgextend
    <3>1. \A d \in Device : pv[d] \in 1..MaxVg => pv'[d] = pv[d]
      <4>1. CASE Vgcreate
        <5>1. /\ Usable(op.pvs)
              /\ \E g : pv' = [d \in Device |-> IF d \in op.pvs THEN g ELSE pv[d]]
          BY <4>1, Zenon DEF Vgcreate
        <5> QED
          BY <1>0, <5>1 DEF Usable, NotPv, FreePv
      <4>2. CASE Pvcreate \/ Pvremove \/ Vgextend
        BY <1>0, <4>2 DEF Pvcreate, Pvremove, Vgextend, Usable, NotPv, FreePv
      <4> QED
        BY <2>2, <4>1, <4>2
    <3>2. \A n \in VgName : group[n] # NoGroup => group'[n] = group[n]
      <4>1. CASE Vgcreate
        <5>1. group[op.vg] = NoGroup /\ \E g : group' = [group EXCEPT ![op.vg] = g]
          BY <4>1, Zenon DEF Vgcreate
        <5> QED
          BY <1>0, <5>1
      <4>2. CASE Pvcreate \/ Pvremove \/ Vgextend
        BY <4>2 DEF Pvcreate, Pvremove, Vgextend
      <4> QED
        BY <2>2, <4>1, <4>2
    <3>3. \A x \in lvs : \A d \in x.on : pv'[d] = pv[d]
      BY <1>1, <3>1
    <3>4. \A x \in lvs : \E n \in VgName : group'[n] = x.vg
      BY <1>0, <1>1, <3>2 DEF NoGroup
    <3> QED
      BY <1>0, <1>2, <3>3, <3>4, VolumesStay
  <2>3. CASE Vgreduce
    <3>1. /\ op.pvs \subseteq PvsOf(group[op.vg])
          /\ \A x \in lvs : x.vg = group[op.vg] => x.on \cap op.pvs = {}
          /\ pv' = [d \in Device |-> IF d \in op.pvs THEN FreePv ELSE pv[d]]
          /\ group' = group
      BY <2>3 DEF Vgreduce, Volumes
    <3>2. \A x \in lvs : \A d \in x.on : pv'[d] = pv[d]
      BY <1>1, <3>1 DEF PvsOf
    <3> QED
      BY <1>0, <1>1, <1>2, <3>1, <3>2, VolumesStay
  <2>4. CASE Vgrename
    <3>1. /\ pv' = pv /\ op.vg \in VgName /\ op.new \in VgName
          /\ group[op.vg] # NoGroup /\ group[op.new] = NoGroup
          /\ group' = [group EXCEPT ![op.vg] = NoGroup, ![op.new] = group[op.vg]]
      BY <1>0, <2>4 DEF Vgrename, Command, NeedVg
    <3>2. \A n \in VgName : group'[n] = IF n = op.new THEN group[op.vg]
                                       ELSE IF n = op.vg THEN NoGroup ELSE group[n]
      BY <1>0, <3>1
    <3>3. ASSUME NEW x \in lvs PROVE \E n \in VgName : group'[n] = x.vg
      <4>1. PICK n \in VgName : group[n] = x.vg /\ x.vg # NoGroup
        BY <1>1 DEF NoGroup
      <4>2. CASE n = op.vg
        BY <3>1, <3>2, <4>1, <4>2
      <4>3. CASE n # op.vg
        BY <3>1, <3>2, <4>1, <4>3
      <4> QED
        BY <4>2, <4>3
    <3> QED
      BY <1>0, <1>1, <1>2, <3>1, <3>3, VolumesStay
  <2>5. CASE Vgremove
    <3>1. /\ op.vg \in VgName
          /\ group' = [group EXCEPT ![op.vg] = NoGroup]
          /\ pv' = [d \in Device |-> IF pv[d] = group[op.vg] THEN FreePv ELSE pv[d]]
          /\ \A x \in lvs : x.vg # group[op.vg]
      BY <1>0, <1>2, <2>5 DEF Vgremove, Command, NeedVg, Volumes
    <3>2. \A n \in VgName : n # op.vg => group'[n] = group[n]
      BY <1>0, <3>1
    <3>3. \A x \in lvs : \E n \in VgName : group'[n] = x.vg
      BY <1>1, <3>1, <3>2
    <3>4. \A x \in lvs : \A d \in x.on : pv'[d] = pv[d]
      BY <1>0, <1>1, <3>1
    <3> QED
      BY <1>0, <1>2, <3>3, <3>4, VolumesStay
  <2> QED
    BY <2>1, <2>2, <2>3, <2>4, <2>5, GroupSteps
<1>3. CASE Vgremove
  <2> DEFINE g == group[op.vg]
  <2>1. /\ op.vg \in VgName
        /\ group' = [group EXCEPT ![op.vg] = NoGroup]
        /\ pv' = [d \in Device |-> IF pv[d] = g THEN FreePv ELSE pv[d]]
        /\ lvs' = lvs \ Volumes(g)
    BY <1>0, <1>3 DEF Vgremove, Command, NeedVg
  <2>2. \A x \in lvs \ Volumes(g) : x.vg # g
    BY DEF Volumes
  <2>3. \A n \in VgName : n # op.vg => group'[n] = group[n]
    BY <1>0, <2>1
  <2>4. \A x \in lvs \ Volumes(g) : \E n \in VgName : group'[n] = x.vg
    BY <1>1, <2>2, <2>3
  <2>5. \A x \in lvs \ Volumes(g) : \A d \in x.on : pv'[d] = pv[d]
    BY <1>0, <1>1, <2>1, <2>2
  <2>6. /\ Volumes(g) \in SUBSET lvs
        /\ \A x \in lvs, p \in Volumes(g) : x.vg = p.vg => x \in Volumes(g)
    BY DEF Volumes
  <2> QED
    BY <1>0, <2>1, <2>4, <2>5, <2>6, VolumesGo
<1>4. CASE Lvcreate
  <2>1. /\ op.vg \in VgName /\ op.lv \in LvName /\ group[op.vg] # NoGroup
        /\ Named(group[op.vg], op.lv) = {} /\ FreshLv # {} /\ UNCHANGED <<pv, group>>
    BY <1>0, <1>4 DEF Lvcreate, Command, NeedVg, NeedLv
  <2>2. PICK d \in PvsOf(group[op.vg]) :
          lvs' = lvs \cup {Volume(Min(FreshLv), group[op.vg], op.lv, "linear", 0, {d})}
    BY <1>4 DEF Lvcreate
  <2> DEFINE y == Volume(Min(FreshLv), group[op.vg], op.lv, "linear", 0, {d})
  <2>3. /\ d \in Device /\ pv[d] = group[op.vg] /\ group[op.vg] \in 1..MaxVg
        /\ Min(FreshLv) \in 1..MaxLv /\ \A z \in lvs : z.id # Min(FreshLv)
    BY <1>0, <2>1, FreshVolume DEF PvsOf, NoGroup
  <2>4. /\ y \in VolumeType /\ y.id = Min(FreshLv) /\ y.vg = group[op.vg]
        /\ y.name = op.lv /\ y.kind = "linear" /\ y.pool = 0 /\ y.on = {d}
    BY <1>0, <2>1, <2>3 DEF Volume, VolumeType
  <2> HIDE DEF y
  <2>5. \A z \in lvs : ~(z.vg = y.vg /\ z.name = y.name)
    BY <2>1, <2>4 DEF Named
  <2> QED
    BY <1>0, <2>1, <2>2, <2>3, <2>4, <2>5, VolumeAdded DEF y
<1>5. CASE LvThinCreate
  <2>1. /\ op.vg \in VgName /\ op.lv \in LvName /\ group[op.vg] # NoGroup
        /\ Named(group[op.vg], op.lv) = {} /\ FreshLv # {} /\ UNCHANGED <<pv, group>>
    BY <1>0, <1>5 DEF LvThinCreate, Command, NeedVg, NeedLv
  <2>2. PICK p \in Named(group[op.vg], op.new) :
          /\ p.kind = "pool"
          /\ lvs' = lvs \cup {Volume(Min(FreshLv), group[op.vg], op.lv, "thin", p.id, {})}
    BY <1>5 DEF LvThinCreate
  <2> DEFINE y == Volume(Min(FreshLv), group[op.vg], op.lv, "thin", p.id, {})
  <2>3. /\ group[op.vg] \in 1..MaxVg /\ p \in lvs /\ p.vg = group[op.vg]
        /\ p.id \in 1..MaxLv
        /\ Min(FreshLv) \in 1..MaxLv /\ \A z \in lvs : z.id # Min(FreshLv)
    BY <1>0, <2>1, FreshVolume DEF Named, NoGroup, VolumeType
  <2>4. /\ y \in VolumeType /\ y.id = Min(FreshLv) /\ y.vg = group[op.vg]
        /\ y.name = op.lv /\ y.kind = "thin" /\ y.pool = p.id /\ y.on = {}
    BY <1>0, <2>1, <2>3 DEF Volume, VolumeType
  <2> HIDE DEF y
  <2>5. \A z \in lvs : ~(z.vg = y.vg /\ z.name = y.name)
    BY <2>1, <2>4 DEF Named
  <2>6. y.pool # 0
    BY <1>0, <2>3, <2>4
  <2> QED
    BY <1>0, <2>1, <2>2, <2>3, <2>4, <2>5, <2>6, VolumeAdded DEF y
<1>6. CASE Lvrename
  <2>1. /\ op.vg \in VgName /\ op.new \in LvName
        /\ Named(group[op.vg], op.new) = {} /\ UNCHANGED <<pv, group>>
    BY <1>0, <1>6 DEF Lvrename, Command, NeedVg
  <2>2. PICK x \in Named(group[op.vg], op.lv) :
          lvs' = (lvs \ {x}) \cup {[x EXCEPT !.name = op.new]}
    BY <1>6 DEF Lvrename
  <2> DEFINE y == [x EXCEPT !.name = op.new]
  <2>3. x \in lvs /\ x.vg = group[op.vg]
    BY DEF Named
  <2>4. /\ y \in VolumeType /\ y.id = x.id /\ y.vg = x.vg /\ y.kind = x.kind
        /\ y.pool = x.pool /\ y.on = x.on /\ y.name = op.new
    BY <1>0, <2>1, <2>3 DEF VolumeType
  <2> HIDE DEF y
  <2>5. \A z \in lvs : z.vg = y.vg /\ z.name = y.name => z = x
    BY <2>1, <2>3, <2>4 DEF Named
  <2> QED
    BY <1>0, <2>1, <2>2, <2>3, <2>4, <2>5, VolumeReplaced DEF y
<1>7. CASE Lvremove
  <2> DEFINE arg == Argument(op.vg, op.lv)
             gone == WithThin(arg)
  <2>1. lvs' = lvs \ gone /\ UNCHANGED <<pv, group>>
    BY <1>7 DEF Lvremove
  <2>2. arg \subseteq lvs /\ gone = arg \cup {x \in lvs : \E p \in arg : x.pool = p.id}
    BY DEF Argument, Volumes, Named, WithThin
  <2>3. \A x \in lvs : x.kind = "thin" <=> x.pool # 0
    BY <1>0 DEF VolumesInv
  <2>4. \A x \in lvs : x.id # 0
    BY <1>0 DEF VolumeType
  <2> HIDE DEF gone, arg
  <2>5. \A x \in lvs, p \in gone : p.kind = "pool" /\ x.pool = p.id => x \in gone
    BY <2>2, <2>3, <2>4
  <2> QED
    BY <1>0, <1>1, <2>1, <2>2, <2>5, VolumesGo
<1>8. CASE MakeThinPool
  <2>1. PICK data \in Named(group[op.vg], op.lv), meta \in Named(group[op.vg], op.new) :
          /\ data # meta /\ data.kind = "linear" /\ meta.kind = "linear"
          /\ lvs' = (lvs \ {data, meta})
                    \cup {[data EXCEPT !.kind = "pool", !.fs = "blank", !.on = @ \cup meta.on]}
    BY <1>8 DEF MakeThinPool
  <2> DEFINE y == [data EXCEPT !.kind = "pool", !.fs = "blank", !.on = @ \cup meta.on]
  <2>2. UNCHANGED <<pv, group>>
    BY <1>8 DEF MakeThinPool
  <2>3. data \in lvs /\ meta \in lvs /\ data.vg = meta.vg
    BY DEF Named
  <2>4. /\ y \in VolumeType /\ y.id = data.id /\ y.vg = data.vg /\ y.kind = "pool"
        /\ y.pool = data.pool /\ y.on = data.on \cup meta.on /\ y.name = data.name
    BY <1>0, <2>3 DEF VolumeType
  <2>5. lvs' = (lvs \ {data, meta}) \cup {y}
    BY <2>1
  <2> HIDE DEF y
  <2>6. /\ \A a, b \in lvs : a.id = b.id => a = b
        /\ \A a, b \in lvs : a.vg = b.vg /\ a.name = b.name => a = b
        /\ \A x \in lvs : x.kind = "thin" <=> x.pool # 0
        /\ \A x \in lvs : x.kind = "thin" =>
             \E p \in lvs : p.vg = x.vg /\ p.id = x.pool /\ p.kind = "pool"
    BY <1>0 DEF VolumesInv
  <2>7. ASSUME NEW z \in lvs', z.kind = "thin"
        PROVE  \E p \in lvs' : p.vg = z.vg /\ p.id = z.pool /\ p.kind = "pool"
    <3>1. z \in lvs
      BY <2>4, <2>5, <2>7
    <3>2. PICK p \in lvs : p.vg = z.vg /\ p.id = z.pool /\ p.kind = "pool"
      BY <2>6, <2>7, <3>1
    <3>3. p # data /\ p # meta
      BY <2>1, <3>2
    <3> QED
      BY <2>5, <3>2, <3>3
  <2>8. lvs' \subseteq VolumeType
    BY <1>0, <2>4, <2>5
  <2>9. /\ \A a, b \in lvs' : a.id = b.id => a = b
        /\ \A a, b \in lvs' : a.vg = b.vg /\ a.name = b.name => a = b
    BY <2>3, <2>4, <2>5, <2>6
  <2>10. /\ \A z \in lvs' : \A d \in z.on : pv'[d] = z.vg
         /\ \A z \in lvs' : \E n \in VgName : group'[n] = z.vg
    BY <1>1, <2>2, <2>3, <2>4, <2>5
  <2>11. \A z \in lvs' : z.kind = "thin" <=> z.pool # 0
    BY <2>1, <2>3, <2>4, <2>5, <2>6
  <2> QED
    BY <2>7, <2>8, <2>9, <2>10, <2>11 DEF VolumesInv, VolumeType
<1>9. CASE pc \in {"mkfs", "label"} /\ Write /\ UNCHANGED <<pv, group>>
  <2>1. PICK x \in lvs : lvs' = (lvs \ {x}) \cup {[x EXCEPT !.fs = "written"]}
    BY <1>9 DEF Write
  <2> DEFINE y == [x EXCEPT !.fs = "written"]
  <2>2. /\ y \in VolumeType /\ y.id = x.id /\ y.vg = x.vg /\ y.kind = x.kind
        /\ y.pool = x.pool /\ y.on = x.on /\ y.name = x.name
    BY <1>0 DEF VolumeType
  <2> HIDE DEF y
  <2>3. \A z \in lvs : z.vg = y.vg /\ z.name = y.name => z = x
    BY <1>0, <2>2 DEF VolumesInv
  <2> QED
    BY <1>0, <1>9, <2>1, <2>2, <2>3, VolumeReplaced DEF y
<1> QED
  BY <1>2, <1>3, <1>4, <1>5, <1>6, <1>7, <1>8, <1>9, VolumeSteps

-----------------------------------------------------------------------------
(* The structs and what they name.                                         *)
LEMMA OwnGroupNext == IInv /\ [Next]_vars => OwnGroupStep'
<1> SUFFICES ASSUME IInv, [Next]_vars, vg'.id # 0, vgStanding' = "own"
             PROVE  IF pc' = "list" /\ op'.do = "vgrename" /\ op'.via = "vg"
                    THEN group'[op'.new] = vg'.id ELSE group'[vg'.name] = vg'.id
  BY DEF OwnGroupStep
<1> DEFINE Renaming == pc = "list" /\ op.do = "vgrename" /\ op.via = "vg"
<1>0. /\ OwnGroupStep /\ group \in [VgName -> 0..MaxVg]
      /\ \A n, m \in VgName : n # m /\ group[n] # NoGroup => group[n] # group[m]
      /\ op.do \in NeedVg => op.vg \in VgName
      /\ op.do = "vgrename" => op.new \in VgName
      /\ vg.id # 0 => vg.name \in VgName
      /\ op.via = "vg" => op.vg = vg.name
      /\ pc = "idle" => op = NoOp
      /\ pc = "list" => op.do \in {"vgrename", "lvrename"}
  BY DEF IInv, GroupsInv, OpInv, HeldInv, NoVg
<1>1. CASE Vgcreate
  <2>1. /\ op.vg \in VgName /\ group[op.vg] = NoGroup /\ ~Renaming
        /\ group' = [group EXCEPT ![op.vg] = Min(FreshVg)]
        /\ vg' = vg /\ vgStanding = "own" /\ pc' = "idle"
    BY <1>0, <1>1 DEF Vgcreate, Command, NeedVg, Done, held, After
  <2>2. vg.name \in VgName /\ group[vg.name] = vg.id
    BY <1>0, <2>1 DEF OwnGroupStep
  <2>3. vg.name # op.vg
    BY <2>1, <2>2 DEF NoGroup
  <2> QED
    BY <1>0, <2>1, <2>2, <2>3
<1>2. CASE Vgremove
  <2>1. /\ op.vg \in VgName /\ ~Renaming /\ vg.id # group[op.vg]
        /\ group' = [group EXCEPT ![op.vg] = NoGroup]
        /\ vg' = vg /\ vgStanding = "own" /\ pc' = "idle"
    BY <1>0, <1>2 DEF Vgremove, Command, NeedVg, Done, held, After
  <2>2. vg.name \in VgName /\ group[vg.name] = vg.id
    BY <1>0, <2>1 DEF OwnGroupStep
  <2>3. vg.name # op.vg
    BY <2>1, <2>2
  <2> QED
    BY <1>0, <2>1, <2>2, <2>3
<1>3. CASE Vgrename
  <2>1. /\ op.vg \in VgName /\ op.new \in VgName /\ ~Renaming /\ op.do = "vgrename"
        /\ group[op.vg] # NoGroup /\ group[op.new] = NoGroup
        /\ group' = [group EXCEPT ![op.vg] = NoGroup, ![op.new] = group[op.vg]]
        /\ vg' = vg /\ op' = op /\ vgStanding = "own" /\ pc' = "list"
        /\ vg.id = group[op.vg] => op.via = "vg"
    BY <1>0, <1>3 DEF Vgrename, Command, NeedVg, held, After
  <2>2. vg.name \in VgName /\ group[vg.name] = vg.id
    BY <1>0, <2>1 DEF OwnGroupStep
  <2>3. \A n \in VgName : group'[n] = IF n = op.new THEN group[op.vg]
                                     ELSE IF n = op.vg THEN NoGroup ELSE group[n]
    BY <1>0, <2>1
  <2>4. CASE op.via = "vg"
    BY <1>0, <2>1, <2>2, <2>3, <2>4
  <2>5. CASE op.via # "vg"
    <3>1. vg.name # op.vg /\ vg.name # op.new
      BY <2>1, <2>2, <2>5 DEF NoGroup
    <3> QED
      BY <2>1, <2>2, <2>3, <2>5, <3>1
  <2> QED
    BY <2>4, <2>5
<1>4. CASE ListRenamedVg
  <2>1. /\ pc = "list" /\ op.do = "vgrename" /\ pc' = "idle" /\ op.new \in VgName
        /\ group' = group /\ vgStanding' = vgStanding
        /\ vg' = IF op.via = "vg" THEN [vg EXCEPT !.name = op.new] ELSE vg
    BY <1>0, <1>4 DEF ListRenamedVg, Done, machine, standing
  <2>2. CASE op.via = "vg"
    <3>1. vg'.id = vg.id /\ vg'.name = op.new
      BY <2>1, <2>2 DEF IInv, HeldInv, NoVg
    <3> QED
      BY <1>0, <2>1, <2>2, <3>1 DEF OwnGroupStep
  <2>3. CASE op.via # "vg"
    BY <1>0, <2>1, <2>3 DEF OwnGroupStep
  <2> QED
    BY <2>2, <2>3
<1>5. CASE HoldVg
  BY <1>0, <1>5 DEF HoldVg, machine
<1>6. CASE HoldLv
  BY <1>6 DEF HoldLv, NoVg
<1>7. CASE Fail
  <2>1. ~Renaming /\ vgStanding = "own" /\ pc' = "idle" /\ UNCHANGED <<group, vg>>
    BY <1>7 DEF Fail, Done, machine, held, After
  <2> QED
    BY <1>0, <2>1 DEF OwnGroupStep
<1>8. CASE /\ UNCHANGED <<group, vg, vgStanding>>
           /\ \/ pc' # "list" /\ ~Renaming
              \/ pc' = "list" /\ op' = op /\ (pc = "list" \/ op.do # "vgrename")
  BY <1>0, <1>8 DEF OwnGroupStep
<1>9. \/ Vgcreate \/ Vgremove \/ Vgrename \/ ListRenamedVg \/ HoldVg \/ HoldLv \/ Fail
      \/ /\ UNCHANGED <<group, vg, vgStanding>>
         /\ \/ pc' # "list" /\ ~Renaming
            \/ pc' = "list" /\ op' = op /\ (pc = "list" \/ op.do # "vgrename")
  <2>1. CASE UNCHANGED vars \/ \E d \in Device : NodeAppears(d)
    BY <2>1 DEF vars, NodeAppears, machine, held, standing
  <2>2. CASE Begin \/ WaitUntilAvailable
    BY <2>2 DEF Begin, WaitUntilAvailable, machine, held, standing
  <2>3. CASE Pvcreate \/ Pvresize \/ Pvremove \/ Vgextend \/ Vgreduce \/ Lvcreate \/ LvThinCreate
             \/ Lvremove \/ MakeThinPool
    BY <2>3 DEF Pvcreate, Pvresize, Pvremove, Vgextend, Vgreduce, Lvcreate, LvThinCreate,
                Takes, Lvremove, MakeThinPool, Command, Done, machine, held, standing
  <2>4. CASE Lvrename \/ ListRenamedLv
    BY <2>4 DEF Lvrename, ListRenamedLv, Command, Done, machine, held, standing
  <2>5. CASE FindLv \/ MakeFs \/ SetLabel
    BY <2>5 DEF FindLv, MakeFs, SetLabel, Command, Done, machine, held, standing
  <2> QED
    BY <2>1, <2>2, <2>3, <2>4, <2>5 DEF Next, OnGroups, OnVolumes
<1> QED
  BY <1>1, <1>2, <1>3, <1>4, <1>5, <1>6, <1>7, <1>8, <1>9

(* Who takes the name of a struct takes it from nobody, until it is given  *)
(* away: what a command gives a name to is what the struct was read from.  *)
LEMMA GroupNameNext == IInv /\ [Next]_vars => GroupNameStep'
<1> DEFINE Renaming == pc = "list" /\ op.do = "vgrename" /\ op.via = "vg"
<1> SUFFICES ASSUME IInv, [Next]_vars, vg'.id # 0, vgStanding' # "taken"
             PROVE  /\ group'[vg'.name] \in {vg'.id, NoGroup}
                    /\ Renaming' => group'[op'.new] = vg'.id
  BY DEF GroupNameStep
<1>0. /\ group \in [VgName -> 0..MaxVg]
      /\ op.do \in NeedVg => op.vg \in VgName
      /\ op.do = "vgrename" => op.new \in VgName
      /\ op.via = "vg" => op.vg = vg.name
      /\ pc = "idle" => op = NoOp
      /\ pc = "list" => op.do \in {"vgrename", "lvrename"}
      /\ vg.id # 0 => vg.name \in VgName
  <2>1. vg.id # 0 => vg.name \in VgName
    BY DEF IInv, HeldInv, NoVg
  <2> QED
    BY <2>1 DEF IInv, GroupsInv, OpInv
<1>1. ASSUME vg.id # 0, vgStanding # "taken"
      PROVE  /\ group[vg.name] \in {vg.id, NoGroup} /\ vg.name \in VgName
             /\ Renaming => group[op.new] = vg.id
  BY <1>0, <1>1 DEF IInv, GroupNameStep
<1>2. CASE Vgcreate
  <2>1. /\ op.vg \in VgName /\ vgStanding # "taken" /\ op.vg # vg.name
        /\ \E g : group' = [group EXCEPT ![op.vg] = g]
        /\ vg' = vg /\ pc' = "idle"
    BY <1>0, <1>2 DEF Vgcreate, Command, NeedVg, Done, held, After
  <2> QED
    BY <1>0, <1>1, <2>1
<1>3. CASE Vgremove
  <2>1. /\ op.vg \in VgName /\ vgStanding # "taken"
        /\ group' = [group EXCEPT ![op.vg] = NoGroup]
        /\ vg' = vg /\ pc' = "idle"
    BY <1>0, <1>3 DEF Vgremove, Command, NeedVg, Done, held, After
  <2> QED
    BY <1>0, <1>1, <2>1
<1>4. CASE Vgrename
  <2>1. /\ op.vg \in VgName /\ op.new \in VgName /\ op.do = "vgrename"
        /\ group[op.vg] # NoGroup /\ group[op.new] = NoGroup
        /\ group' = [group EXCEPT ![op.vg] = NoGroup, ![op.new] = group[op.vg]]
        /\ vg' = vg /\ op' = op /\ vgStanding # "taken"
        /\ op.new = vg.name => vg.id = group[op.vg]
    BY <1>0, <1>4 DEF Vgrename, Command, NeedVg, held, After
  <2>2. group[vg.name] \in {vg.id, NoGroup} /\ vg.name \in VgName
    BY <1>1, <2>1
  <2>3. \A n \in VgName : group'[n] = IF n = op.new THEN group[op.vg]
                                     ELSE IF n = op.vg THEN NoGroup ELSE group[n]
    BY <1>0, <2>1
  <2>4. op.via = "vg" => group'[op.new] = vg.id
    BY <1>0, <2>1, <2>2, <2>3
  <2> QED
    BY <2>1, <2>2, <2>3, <2>4
<1>5. CASE ListRenamedVg
  <2>1. /\ pc = "list" /\ op.do = "vgrename" /\ pc' = "idle" /\ group' = group
        /\ vgStanding # "taken"
        /\ vg' = IF op.via = "vg" THEN [vg EXCEPT !.name = op.new] ELSE vg
    BY <1>5 DEF ListRenamedVg, Done, machine, standing
  <2>2. op.via = "vg" => vg'.id = vg.id /\ vg'.name = op.new
    BY <2>1 DEF IInv, OpInv, HeldInv
  <2> QED
    BY <1>1, <2>1, <2>2
<1>6. CASE HoldVg \/ HoldLv
  <2>1. CASE HoldVg
    BY <2>1 DEF HoldVg, machine
  <2>2. CASE HoldLv
    BY <2>2 DEF HoldLv, NoVg
  <2> QED
    BY <1>6, <2>1, <2>2
<1>7. CASE Fail
  <2>1. vgStanding # "taken" /\ pc' = "idle" /\ UNCHANGED <<group, vg>>
    BY <1>7 DEF Fail, Done, machine, held, After
  <2> QED
    BY <1>1, <2>1
<1>8. CASE /\ UNCHANGED <<group, vg, vgStanding>>
           /\ pc' = "list" => op' = op /\ (pc = "list" \/ op.do # "vgrename")
  BY <1>1, <1>8
<1>9. \/ Vgcreate \/ Vgremove \/ Vgrename \/ ListRenamedVg \/ HoldVg \/ HoldLv \/ Fail
      \/ /\ UNCHANGED <<group, vg, vgStanding>>
         /\ pc' = "list" => op' = op /\ (pc = "list" \/ op.do # "vgrename")
  <2>1. CASE UNCHANGED vars \/ \E d \in Device : NodeAppears(d)
    BY <2>1 DEF vars, NodeAppears, machine, held, standing
  <2>2. CASE Begin \/ WaitUntilAvailable
    BY <2>2 DEF Begin, WaitUntilAvailable, machine, held, standing
  <2>3. CASE Pvcreate \/ Pvresize \/ Pvremove \/ Vgextend \/ Vgreduce \/ Lvcreate
             \/ LvThinCreate \/ Lvremove \/ MakeThinPool
    BY <2>3 DEF Pvcreate, Pvresize, Pvremove, Vgextend, Vgreduce, Lvcreate, LvThinCreate,
                Takes, Lvremove, MakeThinPool, Command, Done, machine, held, standing
  <2>4. CASE Lvrename \/ ListRenamedLv
    BY <2>4 DEF Lvrename, ListRenamedLv, Command, Done, machine, held, standing
  <2>5. CASE FindLv \/ MakeFs \/ SetLabel
    BY <2>5 DEF FindLv, MakeFs, SetLabel, Command, Done, machine, held, standing
  <2> QED
    BY <2>1, <2>2, <2>3, <2>4, <2>5 DEF Next, OnGroups, OnVolumes
<1> QED
  BY <1>2, <1>3, <1>4, <1>5, <1>6, <1>7, <1>8, <1>9

(* A volume goes away, or is replaced by one with its name, its group and  *)
(* its identity.                                                           *)
LEMMA VolumeKept ==
  ASSUME IInv, [Next]_vars, lvStanding' = "own", lv' = lv,
         Lvremove \/ MakeThinPool \/ MakeFs \/ SetLabel \/ Lvcreate \/ LvThinCreate,
         NEW y \in lvs, y.id = lv.id
  PROVE  \E z \in lvs' : z.id = y.id /\ z.vg = y.vg /\ z.name = y.name
<1>0. lvs \subseteq VolumeType /\ \A a, b \in lvs : a.id = b.id => a = b
  BY DEF IInv, VolumesInv
<1>1. CASE Lvremove
  <2>1. lvs' = lvs \ WithThin(Argument(op.vg, op.lv))
        /\ \A x \in WithThin(Argument(op.vg, op.lv)) : x.id # lv.id
    BY <1>1 DEF Lvremove, After
  <2> QED
    BY <2>1
<1>2. CASE MakeThinPool
  <2>1. PICK data \in Named(group[op.vg], op.lv), meta \in Named(group[op.vg], op.new) :
          /\ data # meta
          /\ lvs' = (lvs \ {data, meta})
                    \cup {[data EXCEPT !.kind = "pool", !.fs = "blank", !.on = @ \cup meta.on]}
          /\ meta.id # lv.id
    BY <1>2 DEF MakeThinPool, After
  <2> DEFINE z == [data EXCEPT !.kind = "pool", !.fs = "blank", !.on = @ \cup meta.on]
  <2>2. data \in lvs /\ y # meta
    BY <2>1 DEF Named
  <2>3. z.id = data.id /\ z.vg = data.vg /\ z.name = data.name /\ z \in lvs'
    BY <1>0, <2>1, <2>2 DEF VolumeType
  <2> HIDE DEF z
  <2>4. CASE y = data
    BY <2>3, <2>4
  <2>5. CASE y # data
    BY <2>1, <2>2, <2>5
  <2> QED
    BY <2>4, <2>5
<1>3. CASE MakeFs \/ SetLabel
  <2>1. PICK x \in lvs : lvs' = (lvs \ {x}) \cup {[x EXCEPT !.fs = "written"]}
    BY <1>3 DEF MakeFs, SetLabel, Write
  <2> DEFINE z == [x EXCEPT !.fs = "written"]
  <2>2. z.id = x.id /\ z.vg = x.vg /\ z.name = x.name /\ z \in lvs'
    BY <1>0, <2>1 DEF VolumeType
  <2> HIDE DEF z
  <2>3. CASE y = x
    BY <2>2, <2>3
  <2>4. CASE y # x
    BY <2>1, <2>4
  <2> QED
    BY <2>3, <2>4
<1>4. CASE Lvcreate \/ LvThinCreate
  <2>1. lvs \subseteq lvs'
    BY <1>4 DEF Lvcreate, LvThinCreate
  <2> QED
    BY <2>1
<1> QED
  BY <1>1, <1>2, <1>3, <1>4

LEMMA OwnVolumeNext == IInv /\ [Next]_vars => OwnVolumeStep'
<1> DEFINE Renaming == pc = "list" /\ op.do = "lvrename" /\ op.via = "lv"
           Kept == \E x \in lvs' : x.vg = group'[lv'.vg] /\ x.name = lv'.name /\ x.id = lv'.id
<1> SUFFICES ASSUME IInv, [Next]_vars, lv'.id # 0, lvStanding' = "own"
             PROVE  IF pc' = "list" /\ op'.do = "lvrename" /\ op'.via = "lv"
                    THEN \E x \in lvs' :
                           x.vg = group'[op'.vg] /\ x.name = op'.new /\ x.id = lv'.id
                    ELSE Kept
  BY DEF OwnVolumeStep, Named
<1>0. /\ group \in [VgName -> 0..MaxVg] /\ lvs \subseteq VolumeType
      /\ \A x, y \in lvs : x.vg = y.vg /\ x.name = y.name => x = y
      /\ \A x, y \in lvs : x.id = y.id => x = y
      /\ \A n, m \in VgName : n # m /\ group[n] # NoGroup => group[n] # group[m]
      /\ op.do \in NeedVg => op.vg \in VgName
      /\ op.do = "vgrename" => op.new \in VgName
      /\ lv.id # 0 => lv.vg \in VgName
      /\ op.via = "lv" => op.vg = lv.vg /\ op.lv = lv.name
      /\ pc = "idle" => op = NoOp
      /\ pc = "list" => op.do \in {"vgrename", "lvrename"}
  BY DEF IInv, GroupsInv, VolumesInv, OpInv, HeldInv, NoLv
<1>1. ASSUME ~Renaming, lv.id # 0, lvStanding = "own"
      PROVE  \E x \in lvs : /\ x.vg = group[lv.vg] /\ x.name = lv.name /\ x.id = lv.id
                            /\ x.vg # NoGroup /\ lv.vg \in VgName
  BY <1>0, <1>1, BoundAssumption DEF IInv, OwnVolumeStep, Named, VolumeType, NoGroup
<1>2. CASE Vgcreate
  <2>1. /\ op.vg \in VgName /\ group[op.vg] = NoGroup /\ ~Renaming
        /\ group' = [group EXCEPT ![op.vg] = Min(FreshVg)]
        /\ UNCHANGED <<lv, lvStanding, lvs>> /\ pc' = "idle"
    BY <1>0, <1>2 DEF Vgcreate, Command, NeedVg, Done, held
  <2>2. PICK x \in lvs : /\ x.vg = group[lv.vg] /\ x.name = lv.name /\ x.id = lv.id
                         /\ x.vg # NoGroup /\ lv.vg \in VgName
    BY <1>1, <2>1
  <2>3. lv.vg # op.vg
    BY <2>1, <2>2
  <2> QED
    BY <1>0, <2>1, <2>2, <2>3
<1>3. CASE Vgremove
  <2>1. /\ op.vg \in VgName /\ ~Renaming /\ \A x \in Volumes(group[op.vg]) : x.id # lv.id
        /\ group' = [group EXCEPT ![op.vg] = NoGroup]
        /\ lvs' = lvs \ Volumes(group[op.vg])
        /\ lv' = lv /\ lvStanding = "own" /\ pc' = "idle"
    BY <1>0, <1>3 DEF Vgremove, Command, NeedVg, Done, held, After
  <2>2. PICK x \in lvs : /\ x.vg = group[lv.vg] /\ x.name = lv.name /\ x.id = lv.id
                         /\ x.vg # NoGroup /\ lv.vg \in VgName
    BY <1>1, <2>1
  <2>3. x \in lvs' /\ lv.vg # op.vg
    BY <2>1, <2>2 DEF Volumes
  <2> QED
    BY <1>0, <2>1, <2>2, <2>3
<1>4. CASE Vgrename
  <2>1. /\ op.vg \in VgName /\ op.new \in VgName /\ ~Renaming /\ op.do = "vgrename"
        /\ group[op.new] = NoGroup /\ \A x \in Volumes(group[op.vg]) : x.id # lv.id
        /\ group' = [group EXCEPT ![op.vg] = NoGroup, ![op.new] = group[op.vg]]
        /\ UNCHANGED <<lvs, lv, op>> /\ lvStanding = "own"
    BY <1>0, <1>4 DEF Vgrename, Command, NeedVg, held, After
  <2>2. PICK x \in lvs : /\ x.vg = group[lv.vg] /\ x.name = lv.name /\ x.id = lv.id
                         /\ x.vg # NoGroup /\ lv.vg \in VgName
    BY <1>1, <2>1
  <2>3. lv.vg # op.vg /\ lv.vg # op.new
    BY <2>1, <2>2 DEF Volumes
  <2> QED
    BY <1>0, <2>1, <2>2, <2>3
<1>5. CASE Lvrename
  <2>1. /\ op.vg \in VgName /\ ~Renaming /\ op.do = "lvrename"
        /\ UNCHANGED <<group, lv, op>> /\ pc' = "list"
    BY <1>0, <1>5 DEF Lvrename, Command, NeedVg, held
  <2>2. PICK x \in Named(group[op.vg], op.lv) :
          /\ lvs' = (lvs \ {x}) \cup {[x EXCEPT !.name = op.new]}
          /\ x.id = lv.id => op.via = "lv"
          /\ lvStanding = "own"
    BY <1>5 DEF Lvrename, After
  <2>3. PICK y \in lvs : /\ y.vg = group[lv.vg] /\ y.name = lv.name /\ y.id = lv.id
    BY <1>1, <2>1, <2>2
  <2>4. x \in lvs /\ x.vg = group[op.vg] /\ x.name = op.lv
    BY DEF Named
  <2>5. CASE op.via = "lv"
    <3>1. x = y
      BY <1>0, <2>3, <2>4, <2>5
    <3> DEFINE z == [x EXCEPT !.name = op.new]
    <3>2. z.vg = x.vg /\ z.name = op.new /\ z.id = x.id /\ z \in lvs'
      BY <1>0, <2>2, <2>4 DEF VolumeType
    <3> HIDE DEF z
    <3>3. z.vg = group'[op'.vg] /\ z.name = op'.new /\ z.id = lv'.id
      BY <2>1, <2>3, <2>4, <3>1, <3>2
    <3> QED
      BY <2>1, <2>5, <3>2, <3>3
  <2>6. CASE op.via # "lv"
    <3>1. y # x
      BY <2>2, <2>3, <2>6
    <3>2. y \in lvs'
      BY <2>2, <3>1
    <3> QED
      BY <2>1, <2>3, <2>6, <3>2
  <2> QED
    BY <2>5, <2>6
<1>6. CASE ListRenamedLv
  <2>1. /\ pc = "list" /\ op.do = "lvrename" /\ pc' = "idle"
        /\ UNCHANGED <<group, lvs, lvStanding>>
    BY <1>6 DEF ListRenamedLv, Done, machine, standing
  <2>2. PICK x \in lvs :
          /\ x.vg = group[op.vg] /\ x.name = op.new
          /\ lv' = IF op.via = "lv" THEN [lv EXCEPT !.name = op.new] ELSE lv
    BY <1>6 DEF ListRenamedLv, Named
  <2>3. CASE op.via = "lv"
    <3>1. lv'.vg = lv.vg /\ lv'.name = op.new /\ lv'.id = lv.id
      BY <2>2, <2>3 DEF IInv, HeldInv, NoLv
    <3>2. \E y \in Named(group[op.vg], op.new) : y.id = lv.id
      BY <2>1, <2>3, <3>1 DEF IInv, OwnVolumeStep
    <3> QED
      BY <1>0, <2>1, <2>3, <3>1, <3>2 DEF Named
  <2>4. CASE op.via # "lv"
    BY <1>1, <2>1, <2>2, <2>4
  <2> QED
    BY <2>3, <2>4
<1>7. CASE HoldLv
  <2>1. PICK n \in VgName :
          \E x \in Volumes(group[n]) : lv' = [vg |-> n, name |-> x.name, id |-> x.id]
    BY <1>7 DEF HoldLv
  <2>3. PICK x \in Volumes(group[n]) : lv' = [vg |-> n, name |-> x.name, id |-> x.id]
    BY <2>1
  <2>2. UNCHANGED <<group, lvs, op, pc>> /\ pc = "idle" /\ x \in lvs /\ x.vg = group[n]
    BY <1>7 DEF HoldLv, machine, Volumes
  <2> QED
    BY <2>2, <2>3
<1>8. CASE HoldVg
  BY <1>8 DEF HoldVg, NoLv
<1>9. CASE Fail
  <2>1. ~Renaming /\ lvStanding = "own" /\ pc' = "idle" /\ UNCHANGED <<group, lv, lvs>>
    BY <1>9 DEF Fail, Done, machine, held, After
  <2> QED
    BY <1>1, <2>1
<1>10. CASE Lvremove \/ MakeThinPool \/ MakeFs \/ SetLabel \/ Lvcreate \/ LvThinCreate
  <2>1. /\ UNCHANGED <<group, lv>> /\ lvStanding = "own" /\ ~Renaming /\ pc' # "list"
    <3>1. CASE Lvremove
      BY <3>1 DEF Lvremove, Command, Done, held, After
    <3>2. CASE MakeThinPool
      BY <3>2 DEF MakeThinPool, Command, Done, held, After
    <3>3. CASE Lvcreate \/ LvThinCreate
      BY <3>3 DEF Lvcreate, LvThinCreate, Takes, Command, Done, held, After
    <3>4. CASE MakeFs \/ SetLabel
      BY <3>4 DEF MakeFs, SetLabel, Done, held, standing
    <3> QED
      BY <1>10, <3>1, <3>2, <3>3, <3>4
  <2>2. PICK y \in lvs : y.vg = group[lv.vg] /\ y.name = lv.name /\ y.id = lv.id
    BY <1>1, <2>1
  <2>3. \E z \in lvs' : z.id = y.id /\ z.vg = y.vg /\ z.name = y.name
    BY <1>10, <2>1, <2>2, VolumeKept
  <2> QED
    BY <2>1, <2>2, <2>3
<1>11. CASE /\ UNCHANGED <<group, lvs, lv, lvStanding>>
            /\ \/ pc' # "list" /\ ~Renaming
               \/ pc' = "list" /\ op' = op /\ (pc = "list" \/ op.do # "lvrename")
  <2>1. CASE Renaming
    BY <1>11, <2>1 DEF IInv, OwnVolumeStep, Named
  <2>2. CASE ~Renaming
    BY <1>1, <1>11, <2>2
  <2> QED
    BY <2>1, <2>2
<1>12. \/ Vgcreate \/ Vgremove \/ Vgrename \/ Lvrename \/ ListRenamedLv \/ HoldVg \/ HoldLv \/ Fail
       \/ Lvremove \/ MakeThinPool \/ MakeFs \/ SetLabel \/ Lvcreate \/ LvThinCreate
       \/ /\ UNCHANGED <<group, lvs, lv, lvStanding>>
          /\ \/ pc' # "list" /\ ~Renaming
             \/ pc' = "list" /\ op' = op /\ (pc = "list" \/ op.do # "lvrename")
  <2>1. CASE UNCHANGED vars \/ \E d \in Device : NodeAppears(d)
    BY <2>1 DEF vars, NodeAppears, machine, held, standing
  <2>2. CASE Begin \/ WaitUntilAvailable
    BY <2>2 DEF Begin, WaitUntilAvailable, machine, held, standing
  <2>3. CASE Pvcreate \/ Pvresize \/ Pvremove \/ Vgextend \/ Vgreduce
    BY <2>3 DEF Pvcreate, Pvresize, Pvremove, Vgextend, Vgreduce, Command, Done, machine,
                held, standing
  <2>4. CASE ListRenamedVg
    BY <2>4 DEF ListRenamedVg, Done, machine, held, standing
  <2>5. CASE FindLv
    BY <2>5 DEF FindLv, Command, machine, held, standing
  <2> QED
    BY <2>1, <2>2, <2>3, <2>4, <2>5 DEF Next, OnGroups, OnVolumes
<1> QED
  BY <1>2, <1>3, <1>4, <1>5, <1>6, <1>7, <1>8, <1>9, <1>10, <1>11, <1>12

(* The same of the volumes: whatever has the name of the struct is what it *)
(* was read from.                                                          *)
LEMMA VolumeNameNext == IInv /\ [Next]_vars => VolumeNameStep'
<1> DEFINE Renaming == pc = "list" /\ op.do = "lvrename" /\ op.via = "lv"
<1> SUFFICES ASSUME IInv, [Next]_vars, lv'.id # 0, lvStanding' # "taken"
             PROVE  /\ \A y \in lvs' :
                         y.vg = group'[lv'.vg] /\ y.name = lv'.name => y.id = lv'.id
                    /\ Renaming' => \A y \in lvs' :
                         y.vg = group'[op'.vg] /\ y.name = op'.new => y.id = lv'.id
  BY DEF VolumeNameStep, Named
<1>0. /\ group \in [VgName -> 0..MaxVg] /\ lvs \subseteq VolumeType
      /\ \A n, m \in VgName : n # m /\ group[n] # NoGroup => group[n] # group[m]
      /\ op.do \in NeedVg => op.vg \in VgName
      /\ op.do = "vgrename" => op.new \in VgName
      /\ op.via = "lv" => op.vg = lv.vg /\ op.lv = lv.name
      /\ pc = "idle" => op = NoOp
      /\ pc = "list" => op.do \in {"vgrename", "lvrename"}
      /\ lv.id # 0 => lv.vg \in VgName
      /\ \A x \in lvs : x.vg # NoGroup
  <2>1. lv.id # 0 => lv.vg \in VgName
    BY DEF IInv, HeldInv, NoLv
  <2>2. \A x \in lvs : x.vg # NoGroup
    BY BoundAssumption DEF IInv, VolumesInv, VolumeType, NoGroup
  <2> QED
    BY <2>1, <2>2 DEF IInv, GroupsInv, VolumesInv, OpInv
<1>1. ASSUME lv.id # 0, lvStanding # "taken"
      PROVE  /\ \A x \in lvs : x.vg = group[lv.vg] /\ x.name = lv.name => x.id = lv.id
             /\ Renaming => \A x \in lvs :
                  x.vg = group[op.vg] /\ x.name = op.new => x.id = lv.id
             /\ lv.vg \in VgName
  BY <1>0, <1>1 DEF IInv, VolumeNameStep, Named
<1>2. CASE Vgcreate
  <2>1. /\ op.vg \in VgName /\ FreshVg # {} /\ pc' = "idle"
        /\ group' = [group EXCEPT ![op.vg] = Min(FreshVg)]
        /\ UNCHANGED <<lv, lvStanding, lvs>>
    <3>1. /\ op.do = "vgcreate" /\ FreshVg # {} /\ pc' = "idle"
          /\ group' = [group EXCEPT ![op.vg] = Min(FreshVg)]
          /\ held' = held /\ lvStanding' = lvStanding /\ lvs' = lvs
      BY <1>2, Zenon DEF Vgcreate, Command, Done
    <3> QED
      BY <1>0, <3>1 DEF held, NeedVg
  <2>2. \A x \in lvs : x.vg # Min(FreshVg)
    BY <2>1, FreshGroup DEF IInv, VolumesInv
  <2> QED
    BY <1>0, <1>1, <2>1, <2>2
<1>3. CASE Vgremove
  <2>1. /\ op.vg \in VgName /\ lvStanding # "taken" /\ pc' = "idle"
        /\ group' = [group EXCEPT ![op.vg] = NoGroup]
        /\ lvs' \subseteq lvs /\ lv' = lv
    BY <1>0, <1>3 DEF Vgremove, Command, NeedVg, Done, held, After
  <2> QED
    BY <1>0, <1>1, <2>1
<1>4. CASE Vgrename
  <2>1. /\ op.vg \in VgName /\ op.new \in VgName /\ op.do = "vgrename" /\ op' = op
        /\ group' = [group EXCEPT ![op.vg] = NoGroup, ![op.new] = group[op.vg]]
        /\ UNCHANGED <<lvs, lv>> /\ lvStanding # "taken"
        /\ op.new = lv.vg => \A x \in Named(group[op.vg], lv.name) : x.id = lv.id
    BY <1>0, <1>4 DEF Vgrename, Command, NeedVg, held, After
  <2>2. \A n \in VgName : group'[n] = IF n = op.new THEN group[op.vg]
                                     ELSE IF n = op.vg THEN NoGroup ELSE group[n]
    BY <1>0, <2>1
  <2>3. ASSUME NEW y \in lvs, y.vg = group'[lv.vg], y.name = lv.name
        PROVE  y.id = lv.id
    <3>1. CASE lv.vg = op.new
      BY <2>1, <2>2, <2>3, <3>1 DEF Named
    <3>2. CASE lv.vg # op.new
      BY <1>0, <1>1, <2>1, <2>2, <2>3, <3>2
    <3> QED
      BY <3>1, <3>2
  <2> QED
    BY <2>1, <2>3
<1>5. CASE Lvrename
  <2>1. /\ op.vg \in VgName /\ op.do = "lvrename" /\ group[op.vg] # NoGroup
        /\ Named(group[op.vg], op.new) = {}
        /\ UNCHANGED <<group, lv, op>> /\ pc' = "list"
    BY <1>0, <1>5 DEF Lvrename, Command, NeedVg, held
  <2>2. PICK x \in Named(group[op.vg], op.lv) :
          /\ lvs' = (lvs \ {x}) \cup {[x EXCEPT !.name = op.new]}
          /\ op.vg = lv.vg /\ op.new = lv.name => x.id = lv.id
          /\ lvStanding # "taken"
    BY <1>5 DEF Lvrename, After
  <2> DEFINE z == [x EXCEPT !.name = op.new]
  <2>3. x \in lvs /\ x.vg = group[op.vg] /\ x.name = op.lv
    BY DEF Named
  <2>4. z.vg = x.vg /\ z.name = op.new /\ z.id = x.id
    BY <1>0, <2>3 DEF VolumeType
  <2>5. \A y \in lvs' : y \in lvs \/ y = z
    BY <2>2
  <2> HIDE DEF z
  <2>6. ASSUME NEW y \in lvs', y.vg = group[lv.vg], y.name = lv.name PROVE y.id = lv.id
    <3>1. CASE y \in lvs
      BY <1>1, <2>1, <2>2, <2>6, <3>1
    <3>2. CASE y = z
      <4>1. group[lv.vg] = group[op.vg] /\ lv.vg \in VgName
        BY <1>0, <2>1, <2>3, <2>4, <2>6, <3>2
      <4>2. lv.vg = op.vg
        BY <1>0, <2>1, <4>1
      <4> QED
        BY <2>2, <2>4, <2>6, <3>2, <4>2
    <3> QED
      BY <2>5, <3>1, <3>2
  <2>7. ASSUME op.via = "lv", NEW y \in lvs', y.vg = group[op.vg], y.name = op.new
        PROVE  y.id = lv.id
    <3>1. y = z
      BY <2>1, <2>5, <2>7 DEF Named
    <3>2. x.id = lv.id
      BY <1>0, <1>1, <2>1, <2>2, <2>3, <2>7
    <3> QED
      BY <2>4, <3>1, <3>2
  <2> QED
    BY <2>1, <2>6, <2>7
<1>6. CASE ListRenamedLv
  <2>1. /\ pc = "list" /\ op.do = "lvrename" /\ pc' = "idle" /\ lvStanding # "taken"
        /\ UNCHANGED <<group, lvs>>
        /\ lv' = IF op.via = "lv" THEN [lv EXCEPT !.name = op.new] ELSE lv
    BY <1>6 DEF ListRenamedLv, Done, machine, standing
  <2>2. CASE op.via = "lv"
    <3>1. lv'.id = lv.id /\ lv'.vg = lv.vg /\ lv'.name = op.new
      BY <2>1, <2>2 DEF IInv, OpInv, HeldInv
    <3> QED
      BY <1>0, <1>1, <2>1, <2>2, <3>1
  <2>3. CASE op.via # "lv"
    BY <1>1, <2>1, <2>3
  <2> QED
    BY <2>2, <2>3
<1>7. CASE HoldLv
  <2>1. PICK n \in VgName :
          \E x \in Volumes(group[n]) : lv' = [vg |-> n, name |-> x.name, id |-> x.id]
    BY <1>7 DEF HoldLv
  <2>2. PICK x \in Volumes(group[n]) : lv' = [vg |-> n, name |-> x.name, id |-> x.id]
    BY <2>1
  <2>3. UNCHANGED <<group, lvs, pc>> /\ pc = "idle" /\ x \in lvs /\ x.vg = group[n]
    BY <1>7 DEF HoldLv, machine, Volumes
  <2>4. \A y \in lvs : y.vg = x.vg /\ y.name = x.name => y = x
    BY <2>3 DEF IInv, VolumesInv
  <2> QED
    BY <2>2, <2>3, <2>4
<1>8. CASE HoldVg
  BY <1>8 DEF HoldVg, NoLv
<1>9. CASE Lvcreate \/ LvThinCreate
  <2>1. /\ op.vg \in VgName /\ group[op.vg] # NoGroup /\ lvStanding # "taken"
        /\ ~(op.vg = lv.vg /\ op.lv = lv.name)
        /\ pc' = "idle" /\ UNCHANGED <<group, lv>>
    BY <1>0, <1>9 DEF Lvcreate, LvThinCreate, Takes, After, Command, NeedVg, Done, held
  <2>2. PICK v : /\ lvs' = lvs \cup {v}
                 /\ v.vg = group[op.vg] /\ v.name = op.lv
    <3>1. \E x, kind, pool, on :
            lvs' = lvs \cup {Volume(x, group[op.vg], op.lv, kind, pool, on)}
      <4>1. CASE Lvcreate
        BY <4>1 DEF Lvcreate
      <4>2. CASE LvThinCreate
        BY <4>2 DEF LvThinCreate
      <4> QED
        BY <1>9, <4>1, <4>2
    <3>2. PICK x, kind, pool, on :
            lvs' = lvs \cup {Volume(x, group[op.vg], op.lv, kind, pool, on)}
      BY <3>1
    <3> DEFINE v == Volume(x, group[op.vg], op.lv, kind, pool, on)
    <3>3. v.vg = group[op.vg] /\ v.name = op.lv
      BY DEF Volume
    <3>4. lvs' = lvs \cup {v}
      BY <3>2
    <3> HIDE DEF v
    <3> QED
      BY <3>3, <3>4
  <2>3. ~(v.vg = group[lv.vg] /\ v.name = lv.name)
    BY <1>0, <1>1, <2>1, <2>2
  <2> QED
    BY <1>1, <2>1, <2>2, <2>3
<1>10. CASE Lvremove \/ MakeThinPool \/ MakeFs \/ SetLabel
  <2>1. UNCHANGED <<group, lv>> /\ lvStanding # "taken" /\ pc' # "list"
    <3>1. CASE Lvremove
      BY <3>1 DEF Lvremove, Command, Done, held, After
    <3>2. CASE MakeThinPool
      BY <3>2 DEF MakeThinPool, Command, Done, held, After
    <3>3. CASE MakeFs \/ SetLabel
      BY <3>3 DEF MakeFs, SetLabel, Done, held, standing
    <3> QED
      BY <1>10, <3>1, <3>2, <3>3
  <2>2. \A y \in lvs' : \E x \in lvs : y.vg = x.vg /\ y.name = x.name /\ y.id = x.id
    <3>1. CASE Lvremove
      BY <3>1 DEF Lvremove
    <3>2. CASE MakeThinPool
      <4>1. PICK data \in lvs, meta \in lvs :
              lvs' = (lvs \ {data, meta})
                    \cup {[data EXCEPT !.kind = "pool", !.fs = "blank", !.on = @ \cup meta.on]}
        BY <3>2 DEF MakeThinPool, Named
      <4> DEFINE z == [data EXCEPT !.kind = "pool", !.fs = "blank", !.on = @ \cup meta.on]
      <4>2. z.vg = data.vg /\ z.name = data.name /\ z.id = data.id
        BY <1>0 DEF VolumeType
      <4>3. \A y \in lvs' : y \in lvs \/ y = z
        BY <4>1
      <4> HIDE DEF z
      <4> QED
        BY <4>2, <4>3
    <3>3. CASE MakeFs \/ SetLabel
      <4>1. PICK x \in lvs : lvs' = (lvs \ {x}) \cup {[x EXCEPT !.fs = "written"]}
        BY <3>3 DEF MakeFs, SetLabel, Write
      <4> DEFINE z == [x EXCEPT !.fs = "written"]
      <4>2. z.vg = x.vg /\ z.name = x.name /\ z.id = x.id
        BY <1>0 DEF VolumeType
      <4>3. \A y \in lvs' : y \in lvs \/ y = z
        BY <4>1
      <4> HIDE DEF z
      <4> QED
        BY <4>2, <4>3
    <3> QED
      BY <1>10, <3>1, <3>2, <3>3
  <2> QED
    BY <1>1, <2>1, <2>2
<1>11. CASE Fail
  <2>1. lvStanding # "taken" /\ pc' = "idle" /\ UNCHANGED <<group, lv, lvs>>
    BY <1>11 DEF Fail, Done, machine, held, After
  <2> QED
    BY <1>1, <2>1
<1>12. CASE /\ UNCHANGED <<group, lvs, lv, lvStanding>>
            /\ pc' = "list" => op' = op /\ (pc = "list" \/ op.do # "lvrename")
  BY <1>1, <1>12
<1>13. \/ Vgcreate \/ Vgremove \/ Vgrename \/ Lvrename \/ ListRenamedLv \/ HoldVg
       \/ HoldLv \/ Fail \/ Lvremove \/ MakeThinPool \/ MakeFs \/ SetLabel \/ Lvcreate
       \/ LvThinCreate
       \/ /\ UNCHANGED <<group, lvs, lv, lvStanding>>
          /\ pc' = "list" => op' = op /\ (pc = "list" \/ op.do # "lvrename")
  <2>1. CASE UNCHANGED vars \/ \E d \in Device : NodeAppears(d)
    BY <2>1 DEF vars, NodeAppears, machine, held, standing
  <2>2. CASE Begin \/ WaitUntilAvailable
    BY <2>2 DEF Begin, WaitUntilAvailable, machine, held, standing
  <2>3. CASE Pvcreate \/ Pvresize \/ Pvremove \/ Vgextend \/ Vgreduce
    BY <2>3 DEF Pvcreate, Pvresize, Pvremove, Vgextend, Vgreduce, Command, Done, machine,
                held, standing
  <2>4. CASE ListRenamedVg
    BY <2>4 DEF ListRenamedVg, Done, machine, held, standing
  <2>5. CASE FindLv
    BY <2>5 DEF FindLv, Command, machine, held, standing
  <2> QED
    BY <2>1, <2>2, <2>3, <2>4, <2>5 DEF Next, OnGroups, OnVolumes
<1> QED
  BY <1>2, <1>3, <1>4, <1>5, <1>6, <1>7, <1>8, <1>9, <1>10, <1>11, <1>12, <1>13

LEMMA Inductive == Spec => []IInv
<1>1. IInv /\ [Next]_vars => IInv'
  BY GroupsNext, VolumesNext, OpNext, HeldNext, OwnGroupNext, OwnVolumeNext,
     GroupNameNext, VolumeNameNext DEF IInv
<1> QED
  BY InitInv, <1>1, PTL DEF Spec

-----------------------------------------------------------------------------
(* Every variable keeps its type; a group has physical volumes of its own, *)
(* a volume a group, a name of its own in it and its place on the group's  *)
(* physical volumes, and a thin volume its pool, after any operations and  *)
(* wherever one of them failed (vg.go, lv.go, recipe.go:360-620).          *)
THEOREM TypeCorrect == Spec => []TypeOK
<1>1. IInv => TypeOK
  <2> SUFFICES ASSUME IInv PROVE TypeOK
    OBVIOUS
  <2>1. ASSUME NEW x \in lvs
        PROVE  /\ x.on \subseteq PvsOf(x.vg) /\ \E n \in VgName : group[n] = x.vg
               /\ Named(x.vg, x.name) = {x}
               /\ x.kind = "thin" <=> \E p \in Volumes(x.vg) : p.id = x.pool /\ p.kind = "pool"
    <3>1. x \in VolumeType /\ lvs \subseteq VolumeType
      BY DEF IInv, VolumesInv
    <3>2. x.on \subseteq PvsOf(x.vg) /\ \E n \in VgName : group[n] = x.vg
      BY <3>1 DEF IInv, VolumesInv, VolumeType, PvsOf
    <3>3. Named(x.vg, x.name) = {x}
      BY DEF IInv, VolumesInv, Named
    <3>4. \A p \in lvs : p.id # 0
      BY <3>1, BoundAssumption DEF VolumeType
    <3>5. x.kind = "thin" => \E p \in Volumes(x.vg) : p.id = x.pool /\ p.kind = "pool"
      BY DEF IInv, VolumesInv, Volumes
    <3>6. (\E p \in Volumes(x.vg) : p.id = x.pool) => x.kind = "thin"
      BY <3>4 DEF IInv, VolumesInv, Volumes
    <3> QED
      BY <3>2, <3>3, <3>5, <3>6
  <2>2. /\ vg \in [name : VgName \cup {None}, id : 0..MaxVg]
        /\ lv \in [vg : VgName \cup {None}, name : LvName \cup {None}, id : 0..MaxLv]
    BY BoundAssumption DEF IInv, HeldInv, NoVg, NoLv
  <2>3. {vgStanding, lvStanding} \subseteq {"own", "lost", "taken"}
    BY DEF IInv, HeldInv, Standings
  <2> QED
    BY <2>1, <2>2, <2>3 DEF IInv, GroupsInv, OpInv, HeldInv, TypeOK
<1> QED
  BY <1>1, Inductive, PTL

(* A Vg that is held names the group it was read from until something else *)
(* has renamed or removed that group, or the listing after its own         *)
(* renaming has failed; from then on it names that group or none, wherever *)
(* the operations fail, until another group is given its name              *)
(* (vg.go:88-108).                                                         *)
THEOREM GroupHeld == Spec => []OwnGroup
<1>1. IInv => OwnGroup
  BY DEF IInv, OwnGroupStep, GroupNameStep, OwnGroup
<1> QED
  BY <1>1, Inductive, PTL

(* The same of an Lv and its volume (lv.go:312-324).                       *)
THEOREM VolumeHeld == Spec => []OwnVolume
<1>1. IInv => OwnVolume
  <2> SUFFICES ASSUME IInv, pc = "idle", lv.id # 0
               PROVE  /\ lvStanding = "own" => Exists(lv.vg, lv.name)
                      /\ lvStanding # "taken" =>
                           \A x \in Named(group[lv.vg], lv.name) : x.id = lv.id
    BY DEF OwnVolume
  <2>1. ASSUME lvStanding = "own" PROVE Exists(lv.vg, lv.name)
    <3>1. PICK x \in Named(group[lv.vg], lv.name) : x.id = lv.id
      BY <2>1 DEF IInv, OwnVolumeStep
    <3>2. x.vg = group[lv.vg] /\ x.vg # NoGroup
      BY <3>1, BoundAssumption DEF IInv, VolumesInv, VolumeType, Named, NoGroup
    <3> QED
      BY <3>1, <3>2 DEF Exists
  <2> QED
    BY <2>1 DEF IInv, VolumeNameStep
<1> QED
  BY <1>1, Inductive, PTL

(* No operation takes away, renames or formats a volume that it does not   *)
(* name, itself or by its pool or its group (recipe.go:544-620,            *)
(* lv.go:278-310).                                                         *)
THEOREM OthersKept == Spec => OnlyNamedVolumes
<1> DEFINE Kept == \A x \in lvs :
                     x \notin lvs' =>
                       \/ x \in MayRemove(op)
                       \/ x \in MayChange(op) /\ \E y \in lvs' : y.id = x.id
<1>1. IInv /\ [Next]_vars => [Kept]_vars
  <2> SUFFICES ASSUME IInv, [Next]_vars PROVE Kept
    OBVIOUS
  <2>0. lvs \subseteq VolumeType
    BY DEF IInv, VolumesInv
  <2>8. op.do \in {"lvrename", "make-thin-pool"} => op.lv # None
    BY NameAssumption DEF IInv, OpInv, NeedLv
  <2>1. CASE lvs' = lvs
    BY <2>1
  <2>2. CASE Vgremove
    BY <2>2 DEF Vgremove, Command, MayRemove
  <2>3. CASE Lvcreate \/ LvThinCreate
    <3>1. lvs \subseteq lvs'
      BY <2>3 DEF Lvcreate, LvThinCreate
    <3> QED
      BY <3>1
  <2>4. CASE Lvrename
    <3>1. op.do = "lvrename" /\ op.lv # None
      <4>1. op.do = "lvrename"
        BY <2>4 DEF Lvrename, Command
      <4> QED
        BY <2>8, <4>1
    <3>2. PICK x \in Named(group[op.vg], op.lv) :
            lvs' = (lvs \ {x}) \cup {[x EXCEPT !.name = op.new]}
      BY <2>4 DEF Lvrename
    <3>3. x \in MayChange(op)
      BY <3>1, <3>2 DEF MayChange, Argument
    <3>4. [x EXCEPT !.name = op.new].id = x.id
      BY <2>0, <3>2 DEF Named, VolumeType
    <3> QED
      BY <3>2, <3>3, <3>4
  <2>5. CASE Lvremove
    BY <2>5 DEF Lvremove, Command, MayRemove
  <2>6. CASE MakeThinPool
    <3>1. op.do = "make-thin-pool" /\ op.lv # None
      <4>1. op.do = "make-thin-pool"
        BY <2>6 DEF MakeThinPool, Command
      <4> QED
        BY <2>8, <4>1
    <3>2. PICK data \in Named(group[op.vg], op.lv), meta \in Named(group[op.vg], op.new) :
            lvs' = (lvs \ {data, meta})
                    \cup {[data EXCEPT !.kind = "pool", !.fs = "blank", !.on = @ \cup meta.on]}
      BY <2>6 DEF MakeThinPool
    <3>3. data \in MayChange(op) /\ meta \in MayRemove(op)
      BY <3>1, <3>2 DEF MayChange, MayRemove, Argument
    <3>4. [data EXCEPT !.kind = "pool", !.fs = "blank", !.on = @ \cup meta.on].id = data.id
      BY <2>0, <3>2 DEF Named, VolumeType
    <3> QED
      BY <3>2, <3>3, <3>4
  <2>7. CASE pc \in {"mkfs", "label"} /\ Write /\ UNCHANGED <<pv, group>>
    <3>1. PICK x \in Argument(op.vg, op.lv) :
            x \in lvs /\ lvs' = (lvs \ {x}) \cup {[x EXCEPT !.fs = "written"]}
      BY <2>7, WriteKeeps
    <3>2. x \in MayChange(op)
      BY <2>7, <3>1 DEF IInv, OpInv, MayChange
    <3>3. [x EXCEPT !.fs = "written"].id = x.id
      BY <2>0, <3>1 DEF VolumeType
    <3> QED
      BY <3>1, <3>2, <3>3
  <2> QED
    BY <2>1, <2>2, <2>3, <2>4, <2>5, <2>6, <2>7, VolumeSteps
<1> QED
  BY <1>1, Inductive, PTL DEF Spec, OnlyNamedVolumes
==============================================================================
