--------------------------------- MODULE Lvm ---------------------------------
(***************************************************************************)
(* The LVM operations of a recipe's setup phase, against the state that    *)
(* LVM keeps, and the structs Vg and Lv of package lvm, which are copies   *)
(* of it and are passed to the same functions by their methods.            *)
(*                                                                         *)
(* Groups and volumes have names, which change, and identities, which LVM  *)
(* keeps as UUIDs and the program never sees.  Sizes and extents are left  *)
(* out: what does not fit is refused, which is a failed command (Fail).    *)
(***************************************************************************)
EXTENDS Integers, FiniteSetsExt

CONSTANTS
  Device,       \* paths a recipe names as physical volumes
  Known,        \* those of partitions that exist; the others are mistyped
  Late,         \* those of partitions that udev has not seen when this begins
  VgName, LvName,
  MaxVg, MaxLv  \* bounds on the groups and volumes there are at a time

None == "none"

ASSUME KnownAssumption == Late \subseteq Known /\ Known \subseteq Device
ASSUME BoundAssumption == MaxVg \in Nat /\ MaxLv \in Nat
ASSUME NameAssumption  == None \notin VgName \cup LvName

NotPv   == -1   \* no physical volume
FreePv  == 0    \* one without a group; a group's have its identity
NoGroup == 0

VARIABLES
  nodes,        \* devices whose path exists
  pv,           \* what each device is
  group,        \* the identity of the group of each name, or NoGroup
  lvs,          \* the logical volumes
  pc, op,
  found,        \* identity of the volume FindLv has found
  vg, lv,       \* the structs held, with the identity they were read from
  vgStanding, lvStanding  \* history: whether what a struct was read from may
                          \* have lost the name it holds, and whether that
                          \* name has been given to something else

machine  == <<nodes, pv, group, lvs>>
held     == <<vg, lv>>
standing == <<vgStanding, lvStanding>>
vars     == <<machine, pc, op, found, held, standing>>

NoOp == [do |-> None, vg |-> None, lv |-> None, new |-> None, pvs |-> {},
         via |-> None]

NoVg == [name |-> None, id |-> 0]
NoLv == [vg |-> None, name |-> None, id |-> 0]

PvsOf(g) == {d \in Device : pv[d] = g}
Volumes(g) == {x \in lvs : x.vg = g}
Named(g, n) == {x \in lvs : x.vg = g /\ x.name = n}

(* Identities that nothing has, and no struct refers to.                   *)
FreshVg == (1..MaxVg) \ ({group[n] : n \in VgName} \cup {vg.id})
FreshLv == (1..MaxLv) \ ({x.id : x \in lvs} \cup {lv.id})

(* A pool takes its thin volumes with it.                                  *)
WithThin(set) == set \cup {x \in lvs : \E p \in set : x.pool = p.id}

(* What becomes of a standing: what has been given away is not won back.   *)
After(was, lost, given) ==
  IF given THEN "taken" ELSE IF lost /\ was = "own" THEN "lost" ELSE was

-----------------------------------------------------------------------------
Init ==
  /\ nodes = Known \ Late
  /\ pv \in [Device -> {NotPv, FreePv}]
  /\ \A d \in Device \ Known : pv[d] = NotPv
  /\ group = [n \in VgName |-> NoGroup]
  /\ lvs = {}
  /\ pc = "idle" /\ op = NoOp /\ found = 0
  /\ vg = NoVg /\ lv = NoLv
  /\ vgStanding = "own" /\ lvStanding = "own"

(* udev makes the path of a partition some time after the partition.       *)
NodeAppears(d) ==
  /\ d \in Known \ nodes
  /\ nodes' = nodes \cup {d}
  /\ UNCHANGED <<pv, group, lvs, pc, op, found, held, standing>>

Operation(do, g, n, new, pvs, via) ==
  [do |-> do, vg |-> g, lv |-> n, new |-> new, pvs |-> pvs, via |-> via]

(* The operations of a recipe.  lvremove and lvm-format take one argument  *)
(* for the volume, which may name a group alone.                           *)
RecipeOps ==
  {Operation(do, None, None, None, {d}, "recipe") :
     do \in {"pvcreate", "pvresize", "pvremove"}, d \in Device}
  \cup {Operation(do, g, None, None, pvs, "recipe") :
     do \in {"vgcreate", "vgextend", "vgreduce"}, g \in VgName, pvs \in SUBSET Device}
  \cup {Operation("vgrename", g, None, new, {}, "recipe") : g, new \in VgName}
  \cup {Operation("vgremove", g, None, None, {}, "recipe") : g \in VgName}
  \cup {Operation(do, g, n, None, {}, "recipe") :
     do \in {"lvremove", "lvm-format"}, g \in VgName, n \in LvName \cup {None}}
  \cup {Operation("lvcreate", g, n, None, {}, "recipe") : g \in VgName, n \in LvName}
  \cup {Operation(do, g, n, new, {}, "recipe") :
     do \in {"lvrename", "make-thin-pool", "lvcreate-thin"}, g \in VgName, n, new \in LvName}

(* The methods of the structs call the same functions with the names that  *)
(* the structs hold.                                                       *)
Methods ==
  (IF vg = NoVg THEN {} ELSE
   {Operation(do, vg.name, None, None, pvs, "vg") :
      do \in {"vgextend", "vgreduce"}, pvs \in SUBSET Device}
   \cup {Operation("vgrename", vg.name, None, new, {}, "vg") : new \in VgName}
   \cup {Operation("vgremove", vg.name, None, None, {}, "vg")})
  \cup
  (IF lv = NoLv THEN {} ELSE
   {Operation("lvrename", lv.vg, lv.name, new, {}, "lv") : new \in LvName}
   \cup {Operation("lvremove", lv.vg, lv.name, None, {}, "lv")})

(* LVM refuses what names something that does not exist, or gives a name   *)
(* that is taken, or no physical volume: such operations fail without a    *)
(* change and are left out here.                                           *)
Exists(g, n) == group[g] # NoGroup /\ Named(group[g], n) # {}
Applicable(o) ==
  /\ o.vg # None => (group[o.vg] = NoGroup <=> o.do = "vgcreate")
  /\ o.lv # None => (Exists(o.vg, o.lv) <=> o.do \notin {"lvcreate", "lvcreate-thin"})
  /\ o.do = "vgrename" => group[o.new] = NoGroup
  /\ o.do = "lvrename" => ~Exists(o.vg, o.new)
  /\ o.do \in {"make-thin-pool", "lvcreate-thin"} => Exists(o.vg, o.new)
  /\ o.do \in {"vgcreate", "vgextend", "vgreduce"} => o.pvs # {}
  /\ o.do \notin {"pvcreate", "vgcreate"} => o.pvs \subseteq Known

Begin ==
  /\ pc = "idle"
  /\ op' \in {o \in RecipeOps \cup Methods : Applicable(o)}
  /\ pc' = IF op'.do \in {"pvcreate", "vgcreate"} THEN "wait" ELSE "command"
  /\ UNCHANGED <<machine, found, held, standing>>

\* A slip: wait for what udev reads from the device, too.
WaitForSignature ==
  /\ pc = "wait" /\ op.pvs \subseteq nodes
  /\ \A d \in op.pvs : pv[d] # NotPv
  /\ pc' = "command"
  /\ UNCHANGED <<machine, op, found, held, standing>>

(* WaitUntilAvailable, for a Partition that has nothing but a path, waits  *)
(* until the path exists; there is no timeout.                             *)
WaitUntilAvailable ==
  /\ pc = "wait" /\ op.pvs \subseteq nodes
  /\ pc' = "command"
  /\ UNCHANGED <<machine, op, found, held, standing>>

(* LVM takes a device that has no group, whatever else is on it.           *)
Usable(pvs) == pvs \subseteq nodes /\ \A d \in pvs : pv[d] \in {NotPv, FreePv}

Command(do) == pc = "command" /\ op.do = do

Done == pc' = "idle" /\ op' = NoOp /\ found' = 0

(* That `pvscan --cache` fails afterwards is ignored.                      *)
Pvcreate ==
  /\ Command("pvcreate") /\ Usable(op.pvs)
  /\ pv' = [d \in Device |-> IF d \in op.pvs THEN FreePv ELSE pv[d]]
  /\ Done
  /\ UNCHANGED <<nodes, group, lvs, held, standing>>

Pvresize ==
  /\ Command("pvresize") /\ \A d \in op.pvs : pv[d] # NotPv
  /\ Done
  /\ UNCHANGED <<machine, held, standing>>

Pvremove ==
  /\ Command("pvremove") /\ \A d \in op.pvs : pv[d] = FreePv
  /\ pv' = [d \in Device |-> IF d \in op.pvs THEN NotPv ELSE pv[d]]
  /\ Done
  /\ UNCHANGED <<nodes, group, lvs, held, standing>>

(* The list of physical volumes is optional for the recipe, not for LVM.   *)
Vgcreate ==
  /\ Command("vgcreate")
  /\ op.pvs # {} /\ Usable(op.pvs) /\ group[op.vg] = NoGroup
  /\ FreshVg # {}
  /\ group' = [group EXCEPT ![op.vg] = Min(FreshVg)]
  /\ pv' = [d \in Device |-> IF d \in op.pvs THEN Min(FreshVg) ELSE pv[d]]
  /\ vgStanding' = After(vgStanding, FALSE, op.vg = vg.name)
  /\ Done
  /\ UNCHANGED <<nodes, lvs, held, lvStanding>>

Vgextend ==
  /\ Command("vgextend")
  /\ op.pvs # {} /\ Usable(op.pvs) /\ group[op.vg] # NoGroup
  /\ pv' = [d \in Device |-> IF d \in op.pvs THEN group[op.vg] ELSE pv[d]]
  /\ Done
  /\ UNCHANGED <<nodes, group, lvs, held, standing>>

\* A slip: vgreduce is made to give up physical volumes that are used.
VgreduceForced ==
  /\ Command("vgreduce")
  /\ group[op.vg] # NoGroup
  /\ op.pvs \subseteq PvsOf(group[op.vg]) /\ op.pvs # PvsOf(group[op.vg])
  /\ pv' = [d \in Device |-> IF d \in op.pvs THEN FreePv ELSE pv[d]]
  /\ Done
  /\ UNCHANGED <<nodes, group, lvs, held, standing>>

(* Not a physical volume that is used, and not the last.                   *)
Vgreduce ==
  /\ Command("vgreduce")
  /\ group[op.vg] # NoGroup
  /\ op.pvs # {} /\ op.pvs \subseteq PvsOf(group[op.vg])
  /\ op.pvs # PvsOf(group[op.vg])
  /\ \A x \in Volumes(group[op.vg]) : x.on \cap op.pvs = {}
  /\ pv' = [d \in Device |-> IF d \in op.pvs THEN FreePv ELSE pv[d]]
  /\ Done
  /\ UNCHANGED <<nodes, group, lvs, held, standing>>

Vgremove ==
  /\ Command("vgremove") /\ group[op.vg] # NoGroup
  /\ LET g == group[op.vg] IN
     /\ group' = [group EXCEPT ![op.vg] = NoGroup]
     /\ pv' = [d \in Device |-> IF pv[d] = g THEN FreePv ELSE pv[d]]
     /\ lvs' = lvs \ Volumes(g)
     /\ vgStanding' = After(vgStanding, vg.id = g, FALSE)
     /\ lvStanding' = After(lvStanding, \E x \in Volumes(g) : x.id = lv.id, FALSE)
  /\ Done
  /\ UNCHANGED <<nodes, held>>

(* Vgrename: the group is renamed, then listed under its new name.         *)
Vgrename ==
  /\ Command("vgrename")
  /\ group[op.vg] # NoGroup /\ group[op.new] = NoGroup
  /\ LET g == group[op.vg] IN
     /\ group' = [group EXCEPT ![op.vg] = NoGroup, ![op.new] = g]
     /\ vgStanding' = After(vgStanding, vg.id = g /\ op.via # "vg",
                            vg.id # g /\ op.new = vg.name)
     /\ lvStanding' = After(lvStanding, \E x \in Volumes(g) : x.id = lv.id,
                            op.new = lv.vg /\ \E x \in Named(g, lv.name) : x.id # lv.id)
  /\ pc' = "list"
  /\ UNCHANGED <<nodes, pv, lvs, op, found, held>>

\* A slip: the struct is not replaced by what the listing found.
ListRenamedVgUnused ==
  /\ pc = "list" /\ op.do = "vgrename"
  /\ Done
  /\ UNCHANGED <<machine, held, standing>>

(* Vgs(newName)[0] replaces the struct whose method was called; what the   *)
(* struct was first read from is the caller's business, and stays.         *)
ListRenamedVg ==
  /\ pc = "list" /\ op.do = "vgrename"
  /\ vg' = IF op.via = "vg" THEN [vg EXCEPT !.name = op.new] ELSE vg
  /\ Done
  /\ UNCHANGED <<machine, lv, standing>>

Volume(x, g, n, kind, pool, on) ==
  [id |-> x, vg |-> g, name |-> n, kind |-> kind, pool |-> pool, on |-> on,
   fs |-> "blank"]

(* A new volume may be given the name that the struct holds.               *)
Takes ==
  lvStanding' = After(lvStanding, FALSE, op.vg = lv.vg /\ op.lv = lv.name)

(* A linear volume stands for every type that is not thin; it lies on one  *)
(* physical volume, a pool on those of its two parts.                      *)
Lvcreate ==
  /\ Command("lvcreate")
  /\ group[op.vg] # NoGroup /\ Named(group[op.vg], op.lv) = {}
  /\ FreshLv # {}
  /\ \E d \in PvsOf(group[op.vg]) :
       lvs' = lvs \cup {Volume(Min(FreshLv), group[op.vg], op.lv, "linear", 0, {d})}
  /\ Takes
  /\ Done
  /\ UNCHANGED <<nodes, pv, group, held, vgStanding>>

(* op.new is the pool.                                                     *)
LvThinCreate ==
  /\ Command("lvcreate-thin")
  /\ group[op.vg] # NoGroup /\ Named(group[op.vg], op.lv) = {}
  /\ FreshLv # {}
  /\ \E p \in Named(group[op.vg], op.new) :
       /\ p.kind = "pool"
       /\ lvs' = lvs \cup {Volume(Min(FreshLv), group[op.vg], op.lv, "thin", p.id, {})}
  /\ Takes
  /\ Done
  /\ UNCHANGED <<nodes, pv, group, held, vgStanding>>

Lvrename ==
  /\ Command("lvrename")
  /\ group[op.vg] # NoGroup /\ Named(group[op.vg], op.new) = {}
  /\ \E x \in Named(group[op.vg], op.lv) :
       /\ lvs' = (lvs \ {x}) \cup {[x EXCEPT !.name = op.new]}
       /\ lvStanding' = After(lvStanding, x.id = lv.id /\ op.via # "lv",
                              x.id # lv.id /\ op.vg = lv.vg /\ op.new = lv.name)
  /\ pc' = "list"
  /\ UNCHANGED <<nodes, pv, group, op, found, held, vgStanding>>

\* A slip: the struct is not replaced by what the listing found.
ListRenamedLvUnused ==
  /\ pc = "list" /\ op.do = "lvrename"
  /\ Done
  /\ UNCHANGED <<machine, held, standing>>

(* Lvs(vgName/newName)[0] replaces the struct whose method was called.     *)
ListRenamedLv ==
  /\ pc = "list" /\ op.do = "lvrename"
  /\ Named(group[op.vg], op.new) # {}
  /\ lv' = IF op.via = "lv" THEN [lv EXCEPT !.name = op.new] ELSE lv
  /\ Done
  /\ UNCHANGED <<machine, vg, standing>>

(* What an argument names: a volume, or all of a group's.                  *)
Argument(g, n) == IF n = None THEN Volumes(group[g]) ELSE Named(group[g], n)

Lvremove ==
  /\ Command("lvremove")
  /\ group[op.vg] # NoGroup /\ Argument(op.vg, op.lv) # {}
  /\ LET gone == WithThin(Argument(op.vg, op.lv)) IN
     /\ lvs' = lvs \ gone
     /\ lvStanding' = After(lvStanding, \E x \in gone : x.id = lv.id, FALSE)
  /\ Done
  /\ UNCHANGED <<nodes, pv, group, held, vgStanding>>

(* MakeThinPool(thinMetaLV, thinDataLV): the recipe names the data first.  *)
(* op.lv becomes the pool, and the volume op.new a hidden part of it.      *)
MakeThinPool ==
  /\ Command("make-thin-pool") /\ group[op.vg] # NoGroup
  /\ \E data \in Named(group[op.vg], op.lv), meta \in Named(group[op.vg], op.new) :
       /\ data # meta /\ data.kind = "linear" /\ meta.kind = "linear"
       /\ lvs' = (lvs \ {data, meta})
                 \cup {[data EXCEPT !.kind = "pool", !.fs = "blank", !.on = @ \cup meta.on]}
       /\ lvStanding' = After(lvStanding, meta.id = lv.id, FALSE)
  /\ Done
  /\ UNCHANGED <<nodes, pv, group, held, vgStanding>>

\* A slip: list every volume and take the first.
FindLvUnfiltered ==
  /\ Command("lvm-format") /\ group[op.vg] # NoGroup
  /\ \E x \in lvs : found' = x.id
  /\ pc' = "mkfs"
  /\ UNCHANGED <<machine, op, held, standing>>

(* FindLv: the first of the volumes listed for the argument.               *)
FindLv ==
  /\ Command("lvm-format") /\ group[op.vg] # NoGroup
  /\ \E x \in Argument(op.vg, op.lv) : found' = x.id
  /\ pc' = "mkfs"
  /\ UNCHANGED <<machine, op, held, standing>>

Write ==
  \E x \in lvs :
    /\ x.id = found /\ x.kind # "pool"
    /\ lvs' = (lvs \ {x}) \cup {[x EXCEPT !.fs = "written"]}

(* A label is optional.                                                    *)
MakeFs ==
  /\ pc = "mkfs" /\ Write
  /\ \/ Done
     \/ pc' = "label" /\ UNCHANGED <<op, found>>
  /\ UNCHANGED <<nodes, pv, group, held, standing>>

SetLabel ==
  /\ pc = "label" /\ Write
  /\ Done
  /\ UNCHANGED <<nodes, pv, group, held, standing>>

(* A command that LVM refuses or that fails ends the operation; a method   *)
(* that reports an error leaves its struct as it was, though the renaming  *)
(* before a listing that failed has been done.  FindLv of a group without  *)
(* volumes ends the program.                                               *)
Fail ==
  /\ pc \in {"command", "list", "mkfs", "label"}
  /\ vgStanding' =
       After(vgStanding, pc = "list" /\ op.do = "vgrename" /\ op.via = "vg", FALSE)
  /\ lvStanding' =
       After(lvStanding, pc = "list" /\ op.do = "lvrename" /\ op.via = "lv", FALSE)
  /\ Done
  /\ UNCHANGED <<machine, held>>

(* FindVg and FindLv, for a caller that keeps the struct; it keeps one.    *)
HoldVg ==
  /\ pc = "idle"
  /\ \E n \in VgName :
       /\ group[n] # NoGroup
       /\ vg' = [name |-> n, id |-> group[n]]
  /\ lv' = NoLv
  /\ vgStanding' = "own" /\ lvStanding' = "own"
  /\ UNCHANGED <<machine, pc, op, found>>

HoldLv ==
  /\ pc = "idle"
  /\ \E n \in VgName : \E x \in Volumes(group[n]) :
       lv' = [vg |-> n, name |-> x.name, id |-> x.id]
  /\ vg' = NoVg
  /\ vgStanding' = "own" /\ lvStanding' = "own"
  /\ UNCHANGED <<machine, pc, op, found>>

OnGroups ==
  \/ Vgcreate \/ Vgextend \/ Vgreduce \/ Vgremove \/ Vgrename \/ ListRenamedVg

OnVolumes ==
  \/ Lvcreate \/ LvThinCreate \/ Lvrename \/ ListRenamedLv \/ Lvremove
  \/ MakeThinPool \/ FindLv \/ MakeFs \/ SetLabel

Next ==
  \/ \E d \in Device : NodeAppears(d)
  \/ Begin \/ WaitUntilAvailable \/ Pvcreate \/ Pvresize \/ Pvremove
  \/ OnGroups \/ OnVolumes \/ Fail \/ HoldVg \/ HoldLv

Spec == Init /\ [][Next]_vars

(* udev makes the path of every partition in the end; the loop polls.      *)
FairSpec ==
  Spec /\ WF_vars(WaitUntilAvailable) /\ \A d \in Device : WF_vars(NodeAppears(d))

-----------------------------------------------------------------------------
(* Every variable keeps its type; groups have physical volumes, volumes a  *)
(* group and a name of their own in it, and lie on its physical volumes.   *)
TypeOK ==
  /\ nodes \subseteq Known
  /\ pv \in [Device -> {NotPv, FreePv} \cup 1..MaxVg]
  /\ group \in [VgName -> 0..MaxVg]
  /\ \A n, m \in VgName : n # m /\ group[n] # NoGroup => group[n] # group[m]
  /\ \A n \in VgName : group[n] # NoGroup => PvsOf(group[n]) # {}
  /\ \A x \in lvs :
       /\ x.on \subseteq PvsOf(x.vg) /\ \E n \in VgName : group[n] = x.vg
       /\ Named(x.vg, x.name) = {x}
       /\ x.kind = "thin" <=> \E p \in Volumes(x.vg) : p.id = x.pool /\ p.kind = "pool"
  /\ pc \in {"idle", "wait", "command", "list", "mkfs", "label"}
  /\ op \in RecipeOps \cup {NoOp} \/ op.via \in {"vg", "lv"}
  /\ found \in 0..MaxLv
  /\ vg \in [name : VgName \cup {None}, id : 0..MaxVg]
  /\ lv \in [vg : VgName \cup {None}, name : LvName \cup {None}, id : 0..MaxLv]
  /\ {vgStanding, lvStanding} \subseteq {"own", "lost", "taken"}

(* The volumes an operation may change, and those of them it may take away *)
(* with what is in them (recipe.go:501-620).                               *)
MayChange(o) ==
  IF o.do \in {"lvrename", "lvm-format", "make-thin-pool"}
  THEN Argument(o.vg, o.lv) ELSE {}

MayRemove(o) ==
  CASE o.do = "vgremove" -> Volumes(group[o.vg])
    [] o.do = "lvremove" -> WithThin(Argument(o.vg, o.lv))
    [] o.do = "make-thin-pool" -> Named(group[o.vg], o.new)
    [] OTHER -> {}

(* A volume that an operation does not name keeps its name, its kind and   *)
(* its file system, whatever the operation goes through to find the ones   *)
(* it names; only the metadata volume of a pool and what is removed go     *)
(* away (recipe.go:544-620, lv.go:278-310).                                *)
OnlyNamedVolumes ==
  [][\A x \in lvs :
       x \notin lvs' =>
         \/ x \in MayRemove(op)
         \/ x \in MayChange(op) /\ \E y \in lvs' : y.id = x.id]_vars

(* A Vg struct names the group it was read from, through renamings by its  *)
(* own method.  When that group is renamed otherwise or is removed, and    *)
(* when the listing after its own renaming fails (vg.go:88-108), the name  *)
(* it holds names that group or nothing, so that its methods are refused,  *)
(* for as long as nobody gives the name to another group.  From then on    *)
(* they act on that one, and nothing in the program prevents it.           *)
OwnGroup ==
  pc = "idle" /\ vg.id # 0 =>
    /\ vgStanding = "own" => group[vg.name] = vg.id
    /\ vgStanding = "lost" => group[vg.name] \in {vg.id, NoGroup}

(* The same of an Lv struct and its volume (lv.go:312-324), which also     *)
(* loses its name when its group is renamed, even by the method of a Vg.   *)
OwnVolume ==
  pc = "idle" /\ lv.id # 0 =>
    /\ lvStanding = "own" => Exists(lv.vg, lv.name)
    /\ lvStanding # "taken" =>
         \A x \in Named(group[lv.vg], lv.name) : x.id = lv.id

(* pvcreate and vgcreate do not wait for ever for a partition that exists, *)
(* however late its path appears and whatever it holds (recipe.go:371,     *)
(* 423).  For a path that names none there is no such promise.             *)
WaitEnds == (pc = "wait" /\ op.pvs \subseteq Known) ~> pc # "wait"
==============================================================================
