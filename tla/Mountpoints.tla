----------------------------- MODULE Mountpoints -----------------------------
(***************************************************************************)
(* SetupMountpoints: the recipe's mountpoints are put in order of depth    *)
(* and mounted one by one under RootA, the second "/" under RootB.  A path *)
(* is the sequence of its names; the first is the root it starts from.     *)
(*                                                                         *)
(* The mounts outlive the program: the installer may fail between any two  *)
(* of them and be started again on what it left.                           *)
(***************************************************************************)
EXTENDS Naturals, Sequences, SequencesExt

CONSTANTS
  Targets,      \* the targets recipes mount on, "/" being <<>>
  MaxMounts,    \* bound on the mountpoints of a recipe
  MaxRuns       \* bound on the runs of the installer explored

(* Targets are written as the kernel prints them, without a slash too many. *)
ASSUME TargetsAssumption == Targets \subseteq Seq(STRING \ {""})
ASSUME BoundsAssumption  == MaxMounts \in Nat /\ MaxRuns \in Nat

RootA == "/mnt/a"
RootB == "/mnt/b"

VARIABLES
  recipe,       \* the recipe's mountpoints, as [dev, target]
  mounts,       \* what is mounted, as [dev, at], oldest first
  ordered,      \* ordered_mountpoints: pointers into the recipe
  depth, scan,  \* mount_depth, and the index of the loop over the recipe
  next,         \* index of the mountpoint to mount next
  rootAMounted,
  pc,
  runs          \* runs begun so far

sorting == <<ordered, depth, scan>>
vars == <<recipe, mounts, sorting, next, rootAMounted, pc, runs>>

(* Recipes mount a device once, and only "/" twice (for an A/B system).    *)
Recipes ==
  {[k \in DOMAIN ts |-> [dev |-> k, target |-> ts[k]]] :
     ts \in {ts \in BoundedSeq(Targets, MaxMounts) :
               \A j, k \in DOMAIN ts : j < k /\ ts[j] = ts[k] =>
                 ts[j] = <<>> /\ \A i \in 1..j - 1 : ts[i] # <<>>}}

(* One slash for each name; the target "/" counts none.                    *)
Depth(mnt) == Len(mnt.target)

mountpoint == recipe[ordered[next]]

BaseRoot == IF mountpoint.target = <<>> /\ rootAMounted THEN RootB ELSE RootA

(* baseRoot + mnt.Target: for "/" it ends in a slash, an empty last name.  *)
Location == <<BaseRoot>> \o IF mountpoint.target = <<>> THEN <<"">>
                            ELSE mountpoint.target

(* Where the kernel puts it, and how lsblk prints it.                      *)
At == <<BaseRoot>> \o mountpoint.target

Mounted(m) == \E k \in DOMAIN mounts : mounts[k] = m

-----------------------------------------------------------------------------
NewProcess ==
  /\ ordered' = <<>> /\ depth' = 0 /\ scan' = 1
  /\ next' = 1
  /\ rootAMounted' = FALSE

Init ==
  /\ recipe \in Recipes
  /\ mounts = <<>>
  /\ ordered = <<>> /\ depth = 0 /\ scan = 1
  /\ next = 1
  /\ rootAMounted = FALSE
  /\ pc = "idle"
  /\ runs = 0

Begin ==
  /\ pc = "idle" /\ runs < MaxRuns
  /\ NewProcess
  /\ pc' = IF Len(recipe) > 0 THEN "order" ELSE "mount"
  /\ runs' = runs + 1
  /\ UNCHANGED <<recipe, mounts>>

-----------------------------------------------------------------------------
(* The order: pass after pass over the recipe, one depth at a time.        *)

\* A slip: the recipe's own order.
ConsiderAny ==
  /\ pc = "order" /\ scan <= Len(recipe)
  /\ ordered' = Append(ordered, scan)
  /\ scan' = scan + 1
  /\ UNCHANGED <<recipe, mounts, depth, next, rootAMounted, pc, runs>>

\* A slip: everything that is not too deep.
ConsiderUpTo ==
  /\ pc = "order" /\ scan <= Len(recipe)
  /\ ordered' = IF Depth(recipe[scan]) <= depth THEN Append(ordered, scan) ELSE ordered
  /\ scan' = scan + 1
  /\ UNCHANGED <<recipe, mounts, depth, next, rootAMounted, pc, runs>>

Consider ==
  /\ pc = "order" /\ scan <= Len(recipe)
  /\ ordered' = IF Depth(recipe[scan]) = depth THEN Append(ordered, scan) ELSE ordered
  /\ scan' = scan + 1
  /\ UNCHANGED <<recipe, mounts, depth, next, rootAMounted, pc, runs>>

NextDepth ==
  /\ pc = "order" /\ scan > Len(recipe)
  /\ depth' = depth + 1
  /\ scan' = 1
  /\ pc' = IF Len(ordered) < Len(recipe) THEN "order" ELSE "mount"
  /\ UNCHANGED <<recipe, mounts, ordered, next, rootAMounted, runs>>

-----------------------------------------------------------------------------
(* The mounts, in that order.                                              *)

\* A slip: do not look where the partition is mounted already.
AlreadyNever == FALSE

(* "Check if partition is already mounted at location".                    *)
Already == Mounted([dev |-> mountpoint.dev, at |-> Location])

(* mount(2) refuses to put a file system on top of itself.                 *)
Busy ==
  \E k \in DOMAIN mounts :
    /\ mounts[k] = [dev |-> mountpoint.dev, at |-> At]
    /\ \A j \in DOMAIN mounts : j > k => mounts[j].at # At

Mounting == pc = "mount" /\ next <= Len(ordered)

\* A slip: the second root is not told from the first.
MountSameRoot ==
  /\ Mounting /\ ~Already /\ ~Busy
  /\ mounts' = Append(mounts, [dev |-> mountpoint.dev, at |-> At])
  /\ next' = next + 1
  /\ UNCHANGED <<recipe, sorting, rootAMounted, pc, runs>>

Mount ==
  /\ Mounting /\ ~Already /\ ~Busy
  /\ mounts' = Append(mounts, [dev |-> mountpoint.dev, at |-> At])
  /\ next' = next + 1
  /\ rootAMounted' = (rootAMounted \/ mountpoint.target = <<>>)
  /\ UNCHANGED <<recipe, sorting, pc, runs>>

Skip ==
  /\ Mounting /\ Already
  /\ next' = next + 1
  /\ rootAMounted' = (rootAMounted \/ mountpoint.target = <<>>)
  /\ UNCHANGED <<recipe, mounts, sorting, pc, runs>>

MountFails ==
  /\ Mounting /\ ~Already /\ Busy
  /\ pc' = "busy"
  /\ UNCHANGED <<recipe, mounts, sorting, next, rootAMounted, runs>>

Finish ==
  /\ pc = "mount" /\ next > Len(ordered)
  /\ pc' = "done"
  /\ UNCHANGED <<recipe, mounts, sorting, next, rootAMounted, runs>>

(* The process dies, or another error ends it.                             *)
Fail ==
  /\ pc \in {"order", "mount"}
  /\ pc' = "failed"
  /\ UNCHANGED <<recipe, mounts, sorting, next, rootAMounted, runs>>

(* The installer has ended and the operator looks at what it left.         *)
End ==
  /\ pc \in {"done", "busy", "failed"}
  /\ pc' = "idle"
  /\ NewProcess
  /\ UNCHANGED <<recipe, mounts, runs>>

Umount(k) ==
  /\ pc = "idle"
  /\ \A j \in DOMAIN mounts : ~IsStrictPrefix(mounts[k].at, mounts[j].at)
  /\ mounts' = RemoveAt(mounts, k)
  /\ UNCHANGED <<recipe, sorting, next, rootAMounted, pc, runs>>

Reboot ==
  /\ pc = "idle" /\ mounts # <<>>
  /\ mounts' = <<>>
  /\ UNCHANGED <<recipe, sorting, next, rootAMounted, pc, runs>>

Next ==
  \/ Begin \/ Consider \/ NextDepth
  \/ Mount \/ Skip \/ MountFails \/ Finish \/ Fail \/ End \/ Reboot
  \/ \E k \in DOMAIN mounts : Umount(k)

Spec == Init /\ [][Next]_vars

-----------------------------------------------------------------------------
(* Every variable keeps its type, no mountpoint is ordered twice, and the  *)
(* ordering makes no pass below the deepest of them, so that it ends       *)
(* (recipe.go:958 asks for the number of those it has, not for a depth).   *)
TypeOK ==
  /\ recipe \in Recipes
  /\ mounts \in Seq([dev : 1..MaxMounts,
                     at : {<<r>> \o t : r \in {RootA, RootB}, t \in Targets}])
  /\ ordered \in Seq(DOMAIN recipe)
  /\ \A j, k \in DOMAIN ordered : ordered[j] = ordered[k] => j = k
  /\ depth \in Nat /\ scan \in 1..Len(recipe) + 1
  /\ pc = "order" => \E k \in DOMAIN recipe : depth <= Depth(recipe[k])
  /\ next \in 1..Len(ordered) + 1
  /\ rootAMounted \in BOOLEAN
  /\ pc \in {"idle", "order", "mount", "done", "busy", "failed"}
  /\ runs \in 0..MaxRuns

(* Where the recipe puts its k-th mountpoint: the second "/" is RootB.     *)
PlaceOf(k) ==
  LET second == recipe[k].target = <<>>
                  /\ \E j \in 1..k - 1 : recipe[j].target = <<>>
  IN  <<IF second THEN RootB ELSE RootA>> \o recipe[k].target

Plan == {[dev |-> recipe[k].dev, at |-> PlaceOf(k)] : k \in DOMAIN recipe}

(* Files written below a path go to the device mounted at the longest      *)
(* prefix that shows; 0 is the installer's own file system.                *)
LandsOn(path) ==
  LET Shows(k) == /\ IsPrefix(mounts[k].at, path)
                  /\ \A j \in k + 1..Len(mounts) : ~IsPrefix(mounts[j].at, path)
  IN  IF \E k \in DOMAIN mounts : Shows(k)
      THEN mounts[CHOOSE k \in DOMAIN mounts : Shows(k)].dev ELSE 0

DeclaredFor(path) ==
  LET above == {m \in Plan : IsPrefix(m.at, path)}
  IN  IF above = {} THEN 0
      ELSE (CHOOSE m \in above : \A n \in above : Len(n.at) <= Len(m.at)).dev

(* Once SetupMountpoints has returned nil, in this run or a later one,     *)
(* what Install copies goes to the file systems the recipe declares for    *)
(* it, whatever the order of the recipe (recipe.go:950-969): "if we mount  *)
(* /boot first ... any files copied over to /mnt/a/boot will end up in the *)
(* root partition" does not happen.                                        *)
FilesLandAsDeclared ==
  pc = "done" =>
    \A r \in {RootA, RootB} : \A t \in Targets :
      LandsOn(<<r>> \o t) = DeclaredFor(<<r>> \o t)

(* A file system that is in place is never hidden by a later one, at no    *)
(* step of any run.                                                        *)
NothingHidden ==
  \A j, k \in DOMAIN mounts : j < k => ~IsPrefix(mounts[k].at, mounts[j].at)

(* "Check if partition is already mounted at location instead of throwing  *)
(* error" (debian/changelog 0.1.6) is kept for every mountpoint but the    *)
(* roots: no other is refused because an earlier run has mounted it        *)
(* (partition.go:64-71).                                                   *)
BusyOnlyAtRoot == pc = "busy" => mountpoint.target = <<>>

(* SetupMountpoints implements MountOrder.                                 *)
InOrder == INSTANCE MountOrder WITH plan <- Plan, placed <- ToSet(mounts)
PlacesInOrder == InOrder!Spec
==============================================================================
