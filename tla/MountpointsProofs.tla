-------------------------- MODULE MountpointsProofs --------------------------
(***************************************************************************)
(* Theorems about Mountpoints, for recipes of any length over any targets  *)
(* and any number of runs.                                                 *)
(*                                                                         *)
(* The loop that orders the mountpoints leaves them sorted by depth and,   *)
(* within a depth, in the order of the recipe (Sorting); so when one is    *)
(* mounted, everything above it has been looked at in this run, and it is  *)
(* the second "/" exactly when the recipe says so (Progress).  What is     *)
(* mounted is closed under going up (Closed): nothing is ever mounted      *)
(* above something that is in place, and mount(2) refuses what is in place *)
(* itself.                                                                 *)
(***************************************************************************)
EXTENDS Mountpoints, SequenceFacts

Size     == Len(recipe)
Indices  == 1..Size
Target(k) == recipe[k].target
Entry(k) == [dev |-> k, at |-> PlaceOf(k)]

(* The order of two mountpoints of the recipe.                             *)
Before(j, k) ==
  Len(Target(j)) < Len(Target(k)) \/ (Len(Target(j)) = Len(Target(k)) /\ j < k)

TypeInv ==
  /\ recipe \in Recipes
  /\ ordered \in Seq(Indices)
  /\ depth \in Nat /\ scan \in 1..Size + 1
  /\ next \in 1..Len(ordered) + 1
  /\ rootAMounted \in BOOLEAN
  /\ pc \in {"idle", "order", "mount", "done", "busy", "failed"}
  /\ runs \in 0..MaxRuns

(* There is always a mountpoint that the ordering still has to come to.    *)
Reaching == pc = "order" => \E k \in Indices : depth <= Len(Target(k))

Listed(k) == \E i \in DOMAIN ordered : ordered[i] = k

Sorting ==
  /\ \A i, j \in DOMAIN ordered : i < j => Before(ordered[i], ordered[j])
  /\ pc = "order" =>
       \A k \in Indices :
         Listed(k) <=> \/ Len(Target(k)) < depth
                       \/ Len(Target(k)) = depth /\ k < scan
  /\ pc \in {"mount", "busy", "done"} => \A k \in Indices : Listed(k)

(* What this run has come past.                                            *)
Passed(k) == \E i \in 1..next - 1 : ordered[i] = k

Progress ==
  /\ pc \in {"order", "idle"} => next = 1 /\ ~rootAMounted
  /\ pc \in {"mount", "busy", "done"} =>
       /\ rootAMounted <=> \E i \in 1..next - 1 : Target(ordered[i]) = <<>>
       /\ \A i \in 1..next - 1 : Mounted(Entry(ordered[i]))
  /\ pc = "busy" => next <= Len(ordered)
  /\ pc = "done" => next > Len(ordered)

Closed ==
  /\ mounts \in Seq(Plan)
  /\ \A m, n \in Plan : Mounted(m) /\ IsStrictPrefix(n.at, m.at) => Mounted(n)

IInv ==
  /\ TypeInv /\ Sorting /\ Reaching /\ Progress /\ Closed /\ NothingHidden /\ BusyOnlyAtRoot
-----------------------------------------------------------------------------
(* Recipes and the places they give.                                       *)
Names == STRING \ {""}
Words == Names \cup {RootA, RootB}

LEMMA RecipeFacts ==
  ASSUME recipe \in Recipes
  PROVE  /\ Size \in Nat /\ DOMAIN recipe = Indices /\ Size <= MaxMounts
         /\ \A k \in Indices : /\ recipe[k].dev = k
                               /\ Target(k) \in Targets /\ Target(k) \in Seq(Names)
         /\ \A j, k \in Indices : j < k /\ Target(j) = Target(k) =>
              Target(j) = <<>> /\ \A i \in 1..j - 1 : Target(i) # <<>>
<1>1. PICK ts \in BoundedSeq(Targets, MaxMounts) :
        /\ recipe = [k \in DOMAIN ts |-> [dev |-> k, target |-> ts[k]]]
        /\ \A j, k \in DOMAIN ts : j < k /\ ts[j] = ts[k] =>
             ts[j] = <<>> /\ \A i \in 1..j - 1 : ts[i] # <<>>
  BY DEF Recipes
<1>2. PICK m \in 0..MaxMounts : ts \in [1..m -> Targets]
  BY DEF BoundedSeq, SeqOf
<1>3. m \in Nat /\ DOMAIN ts = 1..m /\ m <= MaxMounts
  BY <1>2, BoundsAssumption
<1>4. Len(recipe) = m
  BY <1>1, <1>3
<1>5. \A k \in 1..m : recipe[k].dev = k /\ recipe[k].target = ts[k] /\ ts[k] \in Targets
  BY <1>1, <1>2, <1>3
<1>6. \A j \in 1..m : \A i \in 1..j - 1 : i \in 1..m
  BY <1>3
<1> QED
  BY <1>1, <1>3, <1>4, <1>5, <1>6, TargetsAssumption DEF Size, Indices, Target, Names

LEMMA PlaceFacts ==
  ASSUME recipe \in Recipes, NEW k \in Indices
  PROVE  /\ PlaceOf(k) \in Seq(Words)
         /\ Len(PlaceOf(k)) = Len(Target(k)) + 1
         /\ PlaceOf(k)[1] =
              IF Target(k) = <<>> /\ \E j \in 1..k - 1 : Target(j) = <<>>
              THEN RootB ELSE RootA
         /\ \A i \in 1..Len(Target(k)) : PlaceOf(k)[i + 1] = Target(k)[i]
<1> DEFINE r == IF Target(k) = <<>> /\ \E j \in 1..k - 1 : Target(j) = <<>>
                THEN RootB ELSE RootA
           t == Target(k)
<1>1. PlaceOf(k) = <<r>> \o t
  BY DEF PlaceOf, Target
<1>2. t \in Seq(Words) /\ <<r>> \in Seq(Words) /\ Len(<<r>>) = 1 /\ <<r>>[1] = r
  <2>1. t \in Seq(Names)
    BY RecipeFacts
  <2>2. t \in Seq(Words)
    BY <2>1, SeqMonotonic DEF Words
  <2>3. r \in Words
    BY DEF Words
  <2>4. \A S : \A x \in S : <<x>> \in Seq(S) /\ Len(<<x>>) = 1 /\ <<x>>[1] = x
    OBVIOUS
  <2> HIDE DEF r, t
  <2> QED
    BY <2>2, <2>3, <2>4
<1> HIDE DEF r, t
<1>3. /\ <<r>> \o t \in Seq(Words)
      /\ Len(<<r>> \o t) = Len(<<r>>) + Len(t)
      /\ \A i \in 1..Len(<<r>>) + Len(t) :
           (<<r>> \o t)[i] = IF i <= Len(<<r>>) THEN <<r>>[i] ELSE t[i - Len(<<r>>)]
  BY <1>2, ConcatProperties
<1>4. /\ Len(t) \in Nat /\ 1 \in 1..1 + Len(t)
      /\ \A i \in 1..Len(t) : /\ i + 1 \in 1..1 + Len(t) /\ ~(i + 1 <= 1)
                              /\ (i + 1) - 1 = i
  BY <1>2
<1>5. /\ PlaceOf(k)[1] = r
      /\ \A i \in 1..Len(t) : PlaceOf(k)[i + 1] = t[i]
  BY <1>1, <1>2, <1>3, <1>4
<1> QED
  BY <1>1, <1>2, <1>3, <1>4, <1>5 DEF r, t

LEMMA PlacesDiffer ==
  ASSUME recipe \in Recipes, NEW j \in Indices, NEW k \in Indices,
         PlaceOf(j) = PlaceOf(k)
  PROVE  j = k
<1> SUFFICES ASSUME NEW a \in Indices, NEW b \in Indices, a < b,
                    PlaceOf(a) = PlaceOf(b)
             PROVE  FALSE
  BY RecipeFacts DEF Indices
<1>1. Len(Target(a)) = Len(Target(b))
  <2>1. Target(a) \in Seq(Names) /\ Target(b) \in Seq(Names)
    BY RecipeFacts
  <2>2. Len(Target(a)) \in Nat /\ Len(Target(b)) \in Nat
    BY <2>1
  <2>3. Len(Target(a)) + 1 = Len(Target(b)) + 1
    BY PlaceFacts
  <2> QED
    BY <2>2, <2>3
<1>2. \A i \in 1..Len(Target(a)) : Target(a)[i] = Target(b)[i]
  <2>1. /\ \A i \in 1..Len(Target(a)) : PlaceOf(a)[i + 1] = Target(a)[i]
        /\ \A i \in 1..Len(Target(b)) : PlaceOf(b)[i + 1] = Target(b)[i]
    BY PlaceFacts
  <2> QED
    BY <1>1, <2>1
<1>3. Target(a) = Target(b)
  BY <1>1, <1>2, RecipeFacts, SeqEqual
<1>4. Target(a) = <<>> /\ Target(b) = <<>> /\ \A i \in 1..a - 1 : Target(i) # <<>>
  BY <1>3, RecipeFacts
<1>5. PlaceOf(a)[1] = RootA
  BY <1>4, PlaceFacts
<1>6. a \in 1..b - 1
  BY RecipeFacts DEF Indices
<1>7. PlaceOf(b)[1] = RootB
  BY <1>4, <1>6, PlaceFacts
<1> QED
  BY <1>5, <1>7 DEF RootA, RootB

LEMMA PlanEntries ==
  ASSUME recipe \in Recipes
  PROVE  /\ Plan = {Entry(k) : k \in Indices}
         /\ \A m \in Plan : m.at \in Seq(Words) /\ m.dev \in Indices /\ m = Entry(m.dev)
         /\ \A m, n \in Plan : m.at = n.at => m = n
<1>1. Plan = {Entry(k) : k \in Indices}
  BY RecipeFacts DEF Plan, Entry
<1>2. \A m \in Plan : m.at \in Seq(Words) /\ m.dev \in Indices /\ m = Entry(m.dev)
  BY <1>1, PlaceFacts DEF Entry
<1>3. ASSUME NEW m \in Plan, NEW n \in Plan, m.at = n.at PROVE m = n
  <2>1. PICK j \in Indices, k \in Indices : m = Entry(j) /\ n = Entry(k)
    BY <1>1
  <2>2. PlaceOf(j) = PlaceOf(k)
    BY <1>3, <2>1 DEF Entry
  <2> QED
    BY <2>1, <2>2, PlacesDiffer
<1> QED
  BY <1>1, <1>2, <1>3

-----------------------------------------------------------------------------
LEMMA InitInv == Init => IInv
<1> SUFFICES ASSUME Init PROVE IInv
  OBVIOUS
<1>1. TypeInv
  <2>1. recipe \in Recipes /\ Size \in Nat
    BY RecipeFacts DEF Init
  <2>2. ordered \in Seq(Indices) /\ Len(ordered) = 0 /\ depth \in Nat
    BY DEF Init
  <2>3. scan \in 1..Size + 1 /\ next \in 1..Len(ordered) + 1 /\ runs \in 0..MaxRuns
    BY <2>1, <2>2, BoundsAssumption DEF Init
  <2> QED
    BY <2>1, <2>2, <2>3 DEF Init, TypeInv
<1>2. Sorting /\ Reaching /\ Progress
  BY DEF Init, Sorting, Reaching, Progress
<1>3. Closed /\ NothingHidden /\ BusyOnlyAtRoot
  BY DEF Init, Closed, Mounted, NothingHidden, BusyOnlyAtRoot
<1> QED
  BY <1>1, <1>2, <1>3 DEF IInv

-----------------------------------------------------------------------------
(* The ordering.                                                           *)
LEMMA ConsiderSorts == IInv /\ Consider => ordered' \in Seq(Indices) /\ Sorting'
<1> SUFFICES ASSUME IInv, Consider PROVE ordered' \in Seq(Indices) /\ Sorting'
  OBVIOUS
<1>1. /\ pc = "order" /\ pc' = "order" /\ scan <= Size /\ scan' = scan + 1
      /\ recipe' = recipe /\ depth' = depth
      /\ ordered' = IF Len(Target(scan)) = depth THEN Append(ordered, scan) ELSE ordered
  BY DEF Consider, Size, Target, Depth
<1>2. /\ ordered \in Seq(Indices) /\ DOMAIN ordered = 1..Len(ordered)
      /\ Len(ordered) \in Nat /\ depth \in Nat /\ Size \in Nat /\ scan \in Indices
      /\ \A i \in DOMAIN ordered : ordered[i] \in Indices
      /\ \A k \in Indices : Len(Target(k)) \in Nat
  <2>1. ordered \in Seq(Indices) /\ depth \in Nat /\ scan \in 1..Size + 1 /\ Size \in Nat
    BY RecipeFacts DEF IInv, TypeInv
  <2>2. \A k \in Indices : Len(Target(k)) \in Nat
    BY RecipeFacts DEF IInv, TypeInv
  <2> QED
    BY <1>1, <2>1, <2>2 DEF Indices
<1>3. /\ Indices' = Indices /\ Size' = Size
      /\ \A k : Target(k)' = Target(k)
      /\ \A j, k : Before(j, k)' <=> Before(j, k)
  BY <1>1 DEF Indices, Size, Target, Before
<1>4. /\ \A i, j \in DOMAIN ordered : i < j => Before(ordered[i], ordered[j])
      /\ \A k \in Indices : Listed(k) <=> \/ Len(Target(k)) < depth
                                          \/ Len(Target(k)) = depth /\ k < scan
  BY <1>1 DEF IInv, Sorting
<1>5. CASE Len(Target(scan)) # depth
  <2>1. ordered' = ordered
    BY <1>1, <1>5
  <2>2. \A k \in Indices : Listed(k)' <=> Listed(k)
    BY <2>1 DEF Listed
  <2>3. \A k \in Indices : Len(Target(k)) = depth => (k < scan + 1 <=> k < scan)
    BY <1>2, <1>5 DEF Indices
  <2>4. \A k \in Indices : Listed(k)' <=> \/ Len(Target(k)) < depth
                                          \/ Len(Target(k)) = depth /\ k < scan + 1
    BY <1>4, <2>2, <2>3
  <2> QED
    BY <1>1, <1>2, <1>3, <1>4, <2>1, <2>4 DEF Sorting
<1>6. CASE Len(Target(scan)) = depth
  <2> DEFINE n == Len(ordered)
  <2>1. /\ ordered' \in Seq(Indices) /\ DOMAIN ordered' = 1..n + 1
        /\ \A i \in 1..n : ordered'[i] = ordered[i]
        /\ ordered'[n + 1] = scan
    <3>1. ordered' = Append(ordered, scan)
      BY <1>1, <1>6
    <3>2. /\ Append(ordered, scan) \in Seq(Indices)
          /\ Len(Append(ordered, scan)) = Len(ordered) + 1
          /\ \A i \in 1..Len(ordered) : Append(ordered, scan)[i] = ordered[i]
          /\ Append(ordered, scan)[Len(ordered) + 1] = scan
      BY <1>2, AppendProperties
    <3> QED
      BY <3>1, <3>2, LenProperties
  <2>2. \A i \in 1..n + 1 : i \in 1..n \/ i = n + 1
    BY <1>2
  <2>3. \A k \in Indices : Listed(k)' <=> Listed(k) \/ k = scan
    BY <1>2, <2>1, <2>2 DEF Listed
  <2>4. \A k \in Indices : k < scan + 1 <=> k < scan \/ k = scan
    BY <1>2 DEF Indices
  <2>5. \A k \in Indices : Listed(k)' <=> \/ Len(Target(k)) < depth
                                          \/ Len(Target(k)) = depth /\ k < scan + 1
    BY <1>4, <1>6, <2>3, <2>4
  <2>6. ASSUME NEW i \in 1..n PROVE Before(ordered[i], scan)
    <3>1. ordered[i] \in Indices /\ Listed(ordered[i])
      BY <1>2 DEF Listed
    <3> QED
      BY <1>2, <1>4, <1>6, <3>1 DEF Before
  <2>7. ASSUME NEW i \in DOMAIN ordered', NEW j \in DOMAIN ordered', i < j
        PROVE  Before(ordered'[i], ordered'[j])
    <3>1. i \in 1..n
      BY <1>2, <2>1, <2>7
    <3>2. CASE j = n + 1
      BY <2>1, <2>6, <3>1, <3>2
    <3>3. CASE j # n + 1
      BY <1>2, <1>4, <2>1, <2>2, <2>7, <3>1, <3>3
    <3> QED
      BY <3>2, <3>3
  <2> HIDE DEF n
  <2> QED
    BY <1>1, <1>3, <2>1, <2>5, <2>7 DEF Sorting
<1> QED
  BY <1>5, <1>6

LEMMA Ordered ==
  ASSUME IInv
  PROVE  \A i, j \in DOMAIN ordered : ordered[i] = ordered[j] => i = j
<1>1. /\ DOMAIN ordered = 1..Len(ordered) /\ Len(ordered) \in Nat
      /\ \A i \in DOMAIN ordered : ordered[i] \in Indices
  BY DEF IInv, TypeInv
<1>2. \A k \in Indices : ~Before(k, k)
  <2>1. \A k \in Indices : k \in Nat /\ Len(Target(k)) \in Nat
    BY RecipeFacts DEF IInv, TypeInv, Indices
  <2> QED
    BY <2>1 DEF Before
<1>3. \A i, j \in DOMAIN ordered : i < j => Before(ordered[i], ordered[j])
  BY DEF IInv, Sorting
<1>4. \A i, j \in DOMAIN ordered : i < j => ordered[i] # ordered[j]
  BY <1>1, <1>2, <1>3
<1> QED
  BY <1>1, <1>4

LEMMA NextDepthSorts == IInv /\ NextDepth => Sorting'
<1> SUFFICES ASSUME IInv, NextDepth PROVE Sorting'
  OBVIOUS
<1>1. /\ pc = "order" /\ scan > Size /\ depth' = depth + 1 /\ scan' = 1
      /\ pc' = IF Len(ordered) < Size THEN "order" ELSE "mount"
      /\ recipe' = recipe /\ ordered' = ordered
  BY DEF NextDepth, Size
<1>2. /\ ordered \in Seq(Indices) /\ Len(ordered) \in Nat /\ depth \in Nat
      /\ Size \in Nat /\ scan = Size + 1
      /\ \A k \in Indices : Len(Target(k)) \in Nat
  BY <1>1, RecipeFacts DEF IInv, TypeInv
<1>3. /\ Indices' = Indices /\ Size' = Size
      /\ \A k : Target(k)' = Target(k)
      /\ \A j, k : Before(j, k)' <=> Before(j, k)
      /\ \A k : Listed(k)' <=> Listed(k)
  BY <1>1 DEF Indices, Size, Target, Before, Listed
<1>4. /\ \A i, j \in DOMAIN ordered : i < j => Before(ordered[i], ordered[j])
      /\ \A k \in Indices : Listed(k) <=> \/ Len(Target(k)) < depth
                                          \/ Len(Target(k)) = depth /\ k < scan
  BY <1>1 DEF IInv, Sorting
<1>5. ASSUME NEW k \in Indices
      PROVE  Listed(k) <=> \/ Len(Target(k)) < depth + 1
                           \/ Len(Target(k)) = depth + 1 /\ k < 1
  <2>1. k < scan /\ ~(k < 1)
    BY <1>2 DEF Indices
  <2>2. Len(Target(k)) < depth + 1 <=> Len(Target(k)) < depth \/ Len(Target(k)) = depth
    BY <1>2
  <2> QED
    BY <1>4, <2>1, <2>2
<1>6. ASSUME ~(Len(ordered) < Size), NEW k \in Indices PROVE Listed(k)
  <2>1. Size <= Len(ordered)
    BY <1>2, <1>6
  <2>2. \E i \in DOMAIN ordered : ordered[i] = k
    BY <1>2, <2>1, Ordered, FullSequence DEF Indices
  <2> QED
    BY <2>2 DEF Listed
<1> QED
  BY <1>1, <1>3, <1>4, <1>5, <1>6 DEF Sorting

LEMMA SortingNext == IInv /\ [Next]_vars => Sorting'
<1> SUFFICES ASSUME IInv, [Next]_vars PROVE Sorting'
  OBVIOUS
<1>1. CASE Consider
  BY <1>1, ConsiderSorts
<1>2. CASE NextDepth
  BY <1>2, NextDepthSorts
<1>3. CASE Begin \/ End
  <2>1. /\ recipe' = recipe /\ ordered' = <<>> /\ depth' = 0 /\ scan' = 1
        /\ pc' = "mount" => Size = 0
        /\ pc' \in {"order", "mount", "idle"}
    <3>1. Size \in Nat
      BY RecipeFacts DEF IInv, TypeInv
    <3> QED
      BY <1>3, <3>1 DEF Begin, End, NewProcess, Size
  <2>2. /\ Indices' = Indices
        /\ \A k : Target(k)' = Target(k)
        /\ \A k : ~Listed(k)'
    BY <2>1 DEF Indices, Size, Target, Listed
  <2>3. \A k \in Indices : Len(Target(k)) \in Nat /\ k \in Nat /\ ~(k < 1)
    BY RecipeFacts DEF IInv, TypeInv, Indices
  <2>4. \A k \in Indices : ~(Len(Target(k)) < 0) /\ (pc' # "mount")
    BY <2>1, <2>3 DEF Indices
  <2> QED
    BY <2>1, <2>2, <2>3, <2>4 DEF Sorting
<1>4. CASE \/ Mount \/ Skip \/ MountFails \/ Finish \/ Fail \/ Reboot
           \/ (\E k \in DOMAIN mounts : Umount(k)) \/ UNCHANGED vars
  <2>1. /\ recipe' = recipe /\ ordered' = ordered /\ depth' = depth /\ scan' = scan
        /\ pc' = "order" => pc = "order"
        /\ pc' \in {"mount", "busy", "done"} => pc \in {"mount", "busy", "done"}
    BY <1>4 DEF Mount, Skip, MountFails, Finish, Fail, Reboot, Umount, Mounting,
                vars, sorting
  <2>2. /\ Indices' = Indices
        /\ \A k : Target(k)' = Target(k)
        /\ \A k : Listed(k)' <=> Listed(k)
        /\ \A j, k : Before(j, k)' <=> Before(j, k)
    BY <2>1 DEF Indices, Size, Target, Listed, Before
  <2>3. Sorting
    BY DEF IInv
  <2> QED
    BY <2>1, <2>2, <2>3 DEF Sorting
<1> QED
  BY <1>1, <1>2, <1>3, <1>4 DEF Next

(* A pass after which mountpoints are left leaves one that is deeper.      *)
LEMMA ReachingNext == IInv /\ [Next]_vars => Reaching'
<1> SUFFICES ASSUME IInv, [Next]_vars, pc' = "order" PROVE Reaching'
  BY DEF Reaching
<1>0. /\ TypeInv /\ Size \in Nat /\ depth \in Nat
      /\ \A k \in Indices : Len(Target(k)) \in Nat
  BY RecipeFacts DEF IInv, TypeInv
<1>9. recipe' = recipe => Indices' = Indices /\ \A k : Target(k)' = Target(k)
  BY DEF Indices, Size, Target
<1>1. CASE Begin
  <2>1. recipe' = recipe /\ depth' = 0 /\ Size > 0
    BY <1>0, <1>1 DEF Begin, NewProcess, Size
  <2>2. 1 \in Indices /\ 0 <= Len(Target(1))
    BY <1>0, <2>1 DEF Indices
  <2> QED
    BY <1>9, <2>1, <2>2 DEF Reaching
<1>2. CASE NextDepth
  <2>1. /\ recipe' = recipe /\ depth' = depth + 1
        /\ pc = "order" /\ scan > Size /\ Len(ordered) < Size
    BY <1>2 DEF NextDepth, Size
  <2>2. PICK k \in Indices : ~Listed(k)
    BY <1>0, <2>1, ShortSequence DEF TypeInv, Indices, Listed
  <2>3. k < scan /\ k \in Nat
    BY <1>0, <2>1 DEF TypeInv, Indices
  <2>4. ~(Len(Target(k)) < depth) /\ Len(Target(k)) # depth
    BY <2>1, <2>2, <2>3 DEF IInv, Sorting
  <2>5. depth + 1 <= Len(Target(k))
    BY <1>0, <2>4
  <2> QED
    BY <1>9, <2>1, <2>5 DEF Reaching
<1>3. CASE \/ Consider \/ Mount \/ Skip \/ MountFails \/ Finish \/ Fail \/ End \/ Reboot
           \/ (\E k \in DOMAIN mounts : Umount(k)) \/ UNCHANGED vars
  <2>1. pc = "order" /\ recipe' = recipe /\ depth' = depth
    BY <1>3 DEF Consider, Mount, Skip, MountFails, Finish, Fail, End, Reboot, Umount,
                Mounting, vars, sorting
  <2>2. Reaching
    BY DEF IInv
  <2> QED
    BY <1>9, <2>1, <2>2 DEF Reaching
<1> QED
  BY <1>1, <1>2, <1>3 DEF Next

-----------------------------------------------------------------------------
LEMMA TypeNext == IInv /\ [Next]_vars => TypeInv'
<1> SUFFICES ASSUME IInv, [Next]_vars PROVE TypeInv'
  OBVIOUS
<1>0. /\ TypeInv /\ Size \in Nat /\ Len(ordered) \in Nat
      /\ pc \in {"order", "idle"} => next = 1
  BY RecipeFacts DEF IInv, TypeInv, Progress
<1>9. recipe' = recipe => Indices' = Indices /\ Size' = Size
  BY DEF Indices, Size
<1> USE DEF TypeInv, sorting, Mounting
<1>1. CASE Begin \/ End
  <2>1. runs' \in 0..MaxRuns
    BY <1>0, <1>1, BoundsAssumption DEF Begin, End
  <2>2. ordered' = <<>> /\ depth' = 0 /\ scan' = 1 /\ next' = 1 /\ rootAMounted' = FALSE
        /\ recipe' = recipe /\ pc' \in {"order", "mount", "idle"}
    BY <1>1 DEF Begin, End, NewProcess
  <2>3. ordered' \in Seq(Indices) /\ Len(ordered') = 0
    BY <2>2
  <2>4. depth' \in Nat /\ scan' \in 1..Size + 1 /\ next' \in 1..Len(ordered') + 1
    BY <1>0, <2>2, <2>3
  <2>5. rootAMounted' \in BOOLEAN
    BY <2>2, Zenon
  <2> QED
    BY <1>0, <1>9, <2>1, <2>2, <2>3, <2>4, <2>5
<1>2. CASE Consider
  <2>1. ordered' \in Seq(Indices) /\ Len(ordered') \in Nat
    BY <1>2, ConsiderSorts
  <2>2. scan' \in 1..Size + 1
    BY <1>0, <1>2 DEF Consider, Size
  <2>3. next' \in 1..Len(ordered') + 1
    BY <1>0, <1>2, <2>1 DEF Consider
  <2> QED
    BY <1>0, <1>9, <1>2, <2>1, <2>2, <2>3 DEF Consider
<1>3. CASE NextDepth
  BY <1>0, <1>9, <1>3 DEF NextDepth
<1>4. CASE Mount \/ Skip
  <2>1. next' \in 1..Len(ordered) + 1 /\ ordered' = ordered
    BY <1>0, <1>4 DEF Mount, Skip
  <2>2. rootAMounted' \in BOOLEAN
    BY <1>0, <1>4, Zenon DEF Mount, Skip
  <2> QED
    BY <1>0, <1>9, <1>4, <2>1, <2>2 DEF Mount, Skip
<1>5. CASE MountFails \/ Finish \/ Fail
  BY <1>0, <1>9, <1>5 DEF MountFails, Finish, Fail
<1>7. CASE Reboot \/ \E k \in DOMAIN mounts : Umount(k)
  <2>1. UNCHANGED <<recipe, ordered, depth, scan, next, rootAMounted, pc, runs>>
    BY <1>7 DEF Reboot, Umount
  <2> QED
    BY <1>0, <1>9, <2>1
<1>8. CASE UNCHANGED vars
  BY <1>0, <1>9, <1>8 DEF vars
<1> QED
  BY <1>1, <1>2, <1>3, <1>4, <1>5, <1>7, <1>8 DEF Next

-----------------------------------------------------------------------------
(* The mountpoint whose turn it is.                                        *)
Turn == ordered[next]

LEMMA TurnFacts ==
  ASSUME IInv, pc \in {"mount", "busy"}, next <= Len(ordered)
  PROVE  /\ Turn \in Indices
         /\ mountpoint = recipe[Turn] /\ mountpoint.dev = Turn
         /\ mountpoint.target = Target(Turn)
         /\ \A j \in Indices : Before(j, Turn) => Passed(j)
         /\ At = PlaceOf(Turn)
         /\ [dev |-> mountpoint.dev, at |-> At] = Entry(Turn)
         /\ Entry(Turn) \in Plan
<1>1. /\ recipe \in Recipes /\ ordered \in Seq(Indices) /\ Len(ordered) \in Nat
      /\ next \in 1..Len(ordered) /\ Size \in Nat
      /\ \A i \in 1..Len(ordered) : ordered[i] \in Indices
      /\ DOMAIN ordered = 1..Len(ordered)
  BY RecipeFacts DEF IInv, TypeInv
<1>2. Turn \in Indices
  BY <1>1 DEF Turn
<1>3. mountpoint = recipe[Turn] /\ mountpoint.dev = Turn /\ mountpoint.target = Target(Turn)
  BY <1>1, <1>2, RecipeFacts DEF mountpoint, Turn, Target
<1>4. \A j \in Indices : j \in Nat /\ Len(Target(j)) \in Nat
  BY <1>1, RecipeFacts DEF Indices
<1>5. ASSUME NEW j \in Indices, Before(j, Turn) PROVE Passed(j)
  <2>1. PICK i \in 1..Len(ordered) : ordered[i] = j
    BY <1>1 DEF IInv, Sorting, Listed
  <2>2. ~Before(Turn, j) /\ j # Turn
    BY <1>2, <1>4, <1>5 DEF Before
  <2>3. i # next
    BY <2>1, <2>2 DEF Turn
  <2>4. ~(next < i)
    BY <1>1, <2>1, <2>2 DEF IInv, Sorting, Turn
  <2>5. i \in 1..next - 1
    BY <1>1, <2>3, <2>4
  <2> QED
    BY <2>1, <2>5 DEF Passed
<1>6. ASSUME Target(Turn) = <<>>
      PROVE  rootAMounted <=> \E j \in 1..Turn - 1 : Target(j) = <<>>
  <2>1. rootAMounted <=> \E i \in 1..next - 1 : Target(ordered[i]) = <<>>
    BY DEF IInv, Progress
  <2>2. ASSUME NEW i \in 1..next - 1, Target(ordered[i]) = <<>>
        PROVE  \E j \in 1..Turn - 1 : Target(j) = <<>>
    <3>1. i \in 1..Len(ordered) /\ i < next /\ next \in 1..Len(ordered)
      BY <1>1
    <3>2. Before(ordered[i], Turn) /\ ordered[i] \in Indices
      BY <1>1, <3>1 DEF IInv, Sorting, Turn
    <3>3. Len(Target(ordered[i])) = Len(Target(Turn)) /\ Len(Target(Turn)) = 0
      BY <1>6, <2>2
    <3>4. ordered[i] \in 1..Turn - 1
      BY <1>2, <3>2, <3>3, RecipeFacts, <1>1 DEF Before, Indices
    <3> QED
      BY <2>2, <3>4
  <2>3. ASSUME NEW j \in 1..Turn - 1, Target(j) = <<>>
        PROVE  \E i \in 1..next - 1 : Target(ordered[i]) = <<>>
    <3>1. j \in Indices /\ j < Turn
      BY <1>1, <1>2 DEF Indices
    <3>2. Before(j, Turn)
      BY <1>6, <2>3, <3>1 DEF Before
    <3> QED
      BY <1>5, <2>3, <3>1, <3>2 DEF Passed
  <2> QED
    BY <2>1, <2>2, <2>3
<1>7. At = PlaceOf(Turn)
  BY <1>3, <1>6 DEF At, BaseRoot, PlaceOf, Target
<1>8. Entry(Turn) \in Plan
  BY <1>1, <1>2, PlanEntries
<1> QED
  BY <1>2, <1>3, <1>5, <1>7, <1>8 DEF Entry

(* Mounted already, at this place as lsblk prints it: it is in place.      *)
LEMMA MountedAtTurn ==
  ASSUME IInv, Mounting, Mounted(Entry(Turn))
  PROVE  Busy
<1>1. /\ pc = "mount" /\ next <= Len(ordered)
      /\ mounts \in Seq(Plan) /\ recipe \in Recipes
  BY DEF IInv, TypeInv, Closed, Mounting
<1>2. PICK k \in DOMAIN mounts : mounts[k] = [dev |-> mountpoint.dev, at |-> At]
  BY <1>1, TurnFacts DEF Mounted
<1>3. ASSUME NEW j \in DOMAIN mounts, j > k PROVE mounts[j].at # At
  <2>1. ~IsPrefix(mounts[j].at, mounts[k].at)
    BY <1>3 DEF IInv, NothingHidden
  <2>2. mounts[j] \in Plan /\ mounts[k] \in Plan
    BY <1>1
  <2>3. mounts[j].at \in Seq(Words) /\ mounts[k].at \in Seq(Words)
    BY <1>1, <2>2, PlanEntries
  <2>4. mounts[j].at # mounts[k].at
    BY <2>1, <2>3, PrefixProperties
  <2> QED
    BY <1>2, <2>4
<1> QED
  BY <1>2, <1>3 DEF Busy

LEMMA ProgressNext == IInv /\ [Next]_vars => Progress'
<1> SUFFICES ASSUME IInv, [Next]_vars PROVE Progress'
  OBVIOUS
<1>1. /\ recipe \in Recipes /\ ordered \in Seq(Indices) /\ Len(ordered) \in Nat
      /\ next \in 1..Len(ordered) + 1 /\ mounts \in Seq(Plan)
  BY DEF IInv, TypeInv, Closed
<1>2. \A k : recipe' = recipe => Target(k)' = Target(k) /\ Entry(k)' = Entry(k)
  BY DEF Target, Entry, PlaceOf
<1>3. CASE Mount \/ Skip
  <2>1. /\ pc = "mount" /\ pc' = "mount" /\ next <= Len(ordered) /\ next' = next + 1
        /\ recipe' = recipe /\ ordered' = ordered
    BY <1>3 DEF Mount, Skip, Mounting, sorting
  <2>2. rootAMounted' <=> rootAMounted \/ Target(Turn) = <<>>
    <3>1. mountpoint.target = Target(Turn)
      BY <2>1, TurnFacts
    <3> QED
      BY <1>3, <3>1 DEF Mount, Skip
  <2>3. \A m : Mounted(m) => Mounted(m)'
    <3>1. CASE Mount
      <4>1. mounts' = Append(mounts, [dev |-> mountpoint.dev, at |-> At])
        BY <3>1 DEF Mount
      <4>2. \A k \in DOMAIN mounts : k \in DOMAIN mounts' /\ mounts'[k] = mounts[k]
        BY <1>1, <2>1, <4>1, TurnFacts, AppendProperties
      <4> QED
        BY <4>2 DEF Mounted
    <3>2. CASE Skip
      BY <3>2 DEF Skip, Mounted
    <3> QED
      BY <1>3, <3>1, <3>2
  <2>4. \E k \in DOMAIN mounts' : mounts'[k] = Entry(Turn)
    <3>1. CASE Mount
      <4>1. mounts' = Append(mounts, Entry(Turn)) /\ Entry(Turn) \in Plan
        BY <2>1, <3>1, TurnFacts DEF Mount
      <4>2. Len(mounts) + 1 \in DOMAIN mounts' /\ mounts'[Len(mounts) + 1] = Entry(Turn)
        BY <1>1, <4>1, AppendProperties
      <4> QED
        BY <4>2
    <3>2. CASE Skip
      <4>1. PICK k \in DOMAIN mounts : mounts[k] = [dev |-> mountpoint.dev, at |-> Location]
        BY <3>2 DEF Skip, Already, Mounted
      <4>2. mounts[k] \in Plan /\ mounts[k].dev = Turn
        BY <1>1, <2>1, <4>1, TurnFacts
      <4>3. mounts[k] = Entry(Turn)
        BY <1>1, <4>2, PlanEntries
      <4>4. mounts' = mounts
        BY <3>2 DEF Skip
      <4> QED
        BY <4>3, <4>4
    <3> QED
      BY <1>3, <3>1, <3>2
  <2>5. \A i \in 1..next' - 1 : i \in 1..next - 1 \/ i = next
    BY <1>1, <2>1
  <2>6. \A i \in 1..next - 1 : i \in 1..next' - 1
    BY <1>1, <2>1
  <2>7. next \in 1..next' - 1
    BY <1>1, <2>1
  <2>8. rootAMounted' <=> \E i \in 1..next' - 1 : Target(ordered[i]) = <<>>
    BY <2>1, <2>2, <2>5, <2>6, <2>7 DEF IInv, Progress, Turn
  <2>9. ASSUME NEW i \in 1..next' - 1
        PROVE  \E k \in DOMAIN mounts' : mounts'[k] = Entry(ordered[i])
    <3>1. CASE i = next
      BY <2>4, <3>1 DEF Turn
    <3>2. CASE i \in 1..next - 1
      <4>1. Mounted(Entry(ordered[i]))
        BY <2>1, <3>2 DEF IInv, Progress
      <4> QED
        BY <2>3, <4>1 DEF Mounted
    <3> QED
      BY <2>5, <3>1, <3>2
  <2>10. \A i \in 1..next' - 1 : Mounted(Entry(ordered[i]))'
    BY <2>1, <2>9 DEF Mounted, Entry, PlaceOf
  <2>11. \A i : Target(ordered[i])' = Target(ordered[i])
    BY <2>1 DEF Target
  <2> QED
    BY <2>1, <2>8, <2>10, <2>11 DEF Progress
<1>4. CASE Begin \/ End
  <2>1. next' = 1 /\ ~rootAMounted' /\ pc' \in {"order", "mount", "idle"}
    BY <1>4 DEF Begin, End, NewProcess
  <2>2. \A i \in 1..next' - 1 : FALSE
    BY <2>1
  <2> QED
    BY <2>1, <2>2 DEF Progress
<1>5. CASE Consider \/ NextDepth
  <2>1. next' = 1 /\ ~rootAMounted' /\ pc' \in {"order", "mount"}
    BY <1>5 DEF Consider, NextDepth, IInv, Progress
  <2>2. \A i \in 1..next' - 1 : FALSE
    BY <2>1
  <2> QED
    BY <2>1, <2>2 DEF Progress
<1>6. CASE MountFails \/ Finish
  <2>1. /\ pc = "mount" /\ UNCHANGED <<recipe, mounts, ordered, next, rootAMounted>>
        /\ pc' \in {"busy", "done"}
        /\ pc' = "busy" => next <= Len(ordered)
        /\ pc' = "done" => next > Len(ordered)
    BY <1>6 DEF MountFails, Finish, Mounting, sorting
  <2> QED
    BY <1>2, <2>1 DEF IInv, Progress, Mounted, Entry, PlaceOf, Target
<1>7. CASE Fail
  BY <1>7 DEF Fail, Progress
<1>8. CASE Reboot \/ \E k \in DOMAIN mounts : Umount(k)
  <2>1. pc = "idle" /\ pc' = "idle" /\ next' = next /\ rootAMounted' = rootAMounted
    BY <1>8 DEF Reboot, Umount
  <2> QED
    BY <2>1 DEF IInv, Progress
<1>9. CASE UNCHANGED vars
  BY <1>9 DEF vars, sorting, IInv, Progress, Mounted, Entry, PlaceOf, Target
<1> QED
  BY <1>3, <1>4, <1>5, <1>6, <1>7, <1>8, <1>9 DEF Next

-----------------------------------------------------------------------------
(* What is in place.                                                       *)
LEMMA StepKeepsRecipe == [Next]_vars => recipe' = recipe /\ Plan' = Plan
<1>1. [Next]_vars => recipe' = recipe
  BY DEF Next, vars, Begin, Consider, NextDepth, Mount, Skip, MountFails, Finish,
         Fail, End, Reboot, Umount
<1> QED
  BY <1>1 DEF Plan, PlaceOf

(* Only these steps change it.                                             *)
LEMMA MountsChange ==
  ASSUME [Next]_vars
  PROVE  \/ mounts' = mounts \/ Mount \/ mounts' = <<>>
         \/ \E k \in DOMAIN mounts : Umount(k)
BY DEF Next, vars, Begin, Consider, NextDepth, Skip, MountFails, Finish, Fail, End, Reboot

LEMMA MountAppends ==
  ASSUME IInv, Mount
  PROVE  /\ mounts' \in Seq(Plan) /\ Len(mounts') = Len(mounts) + 1
         /\ \A j \in 1..Len(mounts) : mounts'[j] = mounts[j]
         /\ mounts'[Len(mounts) + 1] = Entry(Turn)
         /\ \A j \in DOMAIN mounts' : j \in DOMAIN mounts \/ j = Len(mounts) + 1
         /\ Entry(Turn) \in Plan /\ Turn \in Indices /\ Entry(Turn).at = PlaceOf(Turn)
         /\ ~Mounted(Entry(Turn))
<1>1. mounts \in Seq(Plan) /\ pc = "mount" /\ next <= Len(ordered)
  BY DEF IInv, Closed, Mount, Mounting
<1>2. mounts' = Append(mounts, Entry(Turn)) /\ Entry(Turn) \in Plan /\ Turn \in Indices
  BY <1>1, TurnFacts DEF Mount
<1>3. ~Mounted(Entry(Turn))
  BY MountedAtTurn DEF Mount
<1>4. Entry(Turn).at = PlaceOf(Turn)
  BY DEF Entry
<1>5. /\ mounts' \in Seq(Plan) /\ Len(mounts') = Len(mounts) + 1
      /\ \A j \in 1..Len(mounts) : mounts'[j] = mounts[j]
      /\ mounts'[Len(mounts) + 1] = Entry(Turn)
  BY <1>1, <1>2, AppendProperties
<1>6. \A j \in DOMAIN mounts' : j \in DOMAIN mounts \/ j = Len(mounts) + 1
  BY <1>1, <1>5
<1> QED
  BY <1>2, <1>3, <1>4, <1>5, <1>6

LEMMA MountedAbove ==
  ASSUME IInv, Mount, NEW n \in Plan, IsStrictPrefix(n.at, PlaceOf(Turn))
  PROVE  Mounted(n)
<1>1. recipe \in Recipes /\ pc = "mount" /\ next <= Len(ordered) /\ Turn \in Indices
  BY TurnFacts DEF IInv, TypeInv, Mount, Mounting
<1>2. PICK j \in Indices : n = Entry(j)
  BY <1>1, PlanEntries
<1>3. PlaceOf(j) \in Seq(Words) /\ PlaceOf(Turn) \in Seq(Words)
  BY <1>1, PlaceFacts
<1>4. Len(PlaceOf(j)) < Len(PlaceOf(Turn))
  BY <1>2, <1>3, PrefixProperties DEF Entry
<1>5. Len(Target(j)) < Len(Target(Turn))
  <2>1. /\ Len(PlaceOf(j)) = Len(Target(j)) + 1
        /\ Len(PlaceOf(Turn)) = Len(Target(Turn)) + 1
    BY <1>1, PlaceFacts
  <2>2. Len(Target(j)) \in Nat /\ Len(Target(Turn)) \in Nat
    BY <1>1, RecipeFacts
  <2> QED
    BY <1>4, <2>1, <2>2
<1>6. Passed(j)
  BY <1>1, <1>5, TurnFacts DEF Before
<1> QED
  BY <1>1, <1>2, <1>6 DEF IInv, Progress, Passed

LEMMA UmountRemoves ==
  ASSUME IInv, NEW k \in DOMAIN mounts, Umount(k)
  PROVE  /\ mounts' \in Seq(Plan) /\ DOMAIN mounts' = 1..Len(mounts) - 1
         /\ \A j \in DOMAIN mounts' :
              mounts'[j] = mounts[IF j < k THEN j ELSE j + 1]
         /\ \A m : Mounted(m)' <=> \E j \in DOMAIN mounts : j # k /\ mounts[j] = m
<1>1. mounts \in Seq(Plan) /\ Len(mounts) \in Nat /\ k \in 1..Len(mounts)
      /\ DOMAIN mounts = 1..Len(mounts)
  BY DEF IInv, Closed
<1>2. /\ mounts' \in Seq(Plan) /\ Len(mounts') = Len(mounts) - 1
      /\ DOMAIN mounts' = 1..Len(mounts) - 1
      /\ \A j \in 1..Len(mounts) - 1 :
           mounts'[j] = mounts[IF j < k THEN j ELSE j + 1]
  <2>1. mounts' = RemoveAt(mounts, k)
    BY DEF Umount
  <2>2. /\ RemoveAt(mounts, k) \in Seq(Plan)
        /\ Len(RemoveAt(mounts, k)) = Len(mounts) - 1
        /\ \A j \in 1..Len(mounts) - 1 :
             RemoveAt(mounts, k)[j] = mounts[IF j < k THEN j ELSE j + 1]
    BY <1>1, RemoveAtProperties
  <2>3. DOMAIN mounts' = 1..Len(mounts')
    BY <2>1, <2>2
  <2> QED
    BY <2>1, <2>2, <2>3
<1>3. ASSUME NEW m, Mounted(m)' PROVE \E j \in DOMAIN mounts : j # k /\ mounts[j] = m
  <2>1. PICK j \in 1..Len(mounts) - 1 : mounts'[j] = m
    BY <1>2, <1>3 DEF Mounted
  <2>2. /\ (IF j < k THEN j ELSE j + 1) \in 1..Len(mounts)
        /\ (IF j < k THEN j ELSE j + 1) # k
    BY <1>1
  <2> QED
    BY <1>1, <1>2, <2>1, <2>2
<1>4. ASSUME NEW j \in DOMAIN mounts, j # k
      PROVE  \E i \in DOMAIN mounts' : mounts'[i] = mounts[j]
  <2>1. PICK i \in 1..Len(mounts) - 1 : (IF i < k THEN i ELSE i + 1) = j
    <3>1. CASE j < k
      <4>1. j \in 1..Len(mounts) - 1 /\ (IF j < k THEN j ELSE j + 1) = j
        BY <1>1, <3>1
      <4> QED
        BY <4>1
    <3>2. CASE ~(j < k)
      <4>1. j - 1 \in 1..Len(mounts) - 1 /\ ~(j - 1 < k) /\ (j - 1) + 1 = j
        BY <1>1, <1>4, <3>2
      <4> QED
        BY <4>1
    <3> QED
      BY <3>1, <3>2
  <2>2. mounts'[i] = mounts[j]
    BY <1>2, <2>1
  <2> QED
    BY <1>2, <2>2
<1> QED
  BY <1>2, <1>3, <1>4 DEF Mounted

LEMMA ClosedNext == IInv /\ [Next]_vars => Closed'
<1> SUFFICES ASSUME IInv, [Next]_vars PROVE Closed'
  OBVIOUS
<1>1. Plan' = Plan /\ recipe \in Recipes /\ mounts \in Seq(Plan)
  BY StepKeepsRecipe DEF IInv, TypeInv, Closed
<1>2. \A m, n \in Plan : Mounted(m) /\ IsStrictPrefix(n.at, m.at) => Mounted(n)
  BY DEF IInv, Closed
<1>3. CASE mounts' = mounts
  BY <1>1, <1>2, <1>3 DEF Closed, Mounted
<1>4. CASE mounts' = <<>>
  BY <1>1, <1>4 DEF Closed, Mounted
<1>5. CASE Mount
  <2>1. \A m : Mounted(m)' <=> Mounted(m) \/ m = Entry(Turn)
    <3>1. /\ DOMAIN mounts = 1..Len(mounts) /\ DOMAIN mounts' = 1..Len(mounts) + 1
          /\ Len(mounts) \in Nat
      BY <1>1, <1>5, MountAppends
    <3>2. DOMAIN mounts \subseteq DOMAIN mounts' /\ Len(mounts) + 1 \in DOMAIN mounts'
      BY <3>1
    <3> QED
      BY <1>5, <3>1, <3>2, MountAppends DEF Mounted
  <2>2. ASSUME NEW m \in Plan, NEW n \in Plan, Mounted(m)', IsStrictPrefix(n.at, m.at)
        PROVE  Mounted(n)
    <3>1. CASE Mounted(m)
      BY <1>2, <2>2, <3>1
    <3>2. CASE m = Entry(Turn)
      BY <1>5, <2>2, <3>2, MountAppends, MountedAbove
    <3> QED
      BY <2>1, <2>2, <3>1, <3>2
  <2>3. mounts' \in Seq(Plan)
    BY <1>5, MountAppends
  <2> QED
    BY <1>1, <2>1, <2>2, <2>3 DEF Closed
<1>6. CASE \E k \in DOMAIN mounts : Umount(k)
  <2>1. PICK k \in DOMAIN mounts : Umount(k)
    BY <1>6
  <2>2. mounts' \in Seq(Plan)
        /\ \A m : Mounted(m)' <=> \E j \in DOMAIN mounts : j # k /\ mounts[j] = m
    BY <2>1, UmountRemoves
  <2>3. ASSUME NEW m \in Plan, NEW n \in Plan, Mounted(m)', IsStrictPrefix(n.at, m.at)
        PROVE  Mounted(n)'
    <3>1. Mounted(m)
      BY <2>2, <2>3 DEF Mounted
    <3>2. PICK j \in DOMAIN mounts : mounts[j] = n
      BY <1>2, <2>3, <3>1 DEF Mounted
    <3>3. j # k
      BY <2>1, <2>3, <3>1, <3>2 DEF Umount, Mounted
    <3> QED
      BY <2>2, <3>2, <3>3
  <2> QED
    BY <1>1, <2>2, <2>3 DEF Closed
<1> QED
  BY <1>3, <1>4, <1>5, <1>6, MountsChange

LEMMA HiddenNext == IInv /\ [Next]_vars => NothingHidden'
<1> SUFFICES ASSUME IInv, [Next]_vars PROVE NothingHidden'
  OBVIOUS
<1>1. recipe \in Recipes /\ mounts \in Seq(Plan)
      /\ DOMAIN mounts = 1..Len(mounts) /\ Len(mounts) \in Nat
  BY DEF IInv, TypeInv, Closed
<1>2. \A i, j \in DOMAIN mounts : i < j => ~IsPrefix(mounts[j].at, mounts[i].at)
  BY DEF IInv, NothingHidden
<1>3. CASE mounts' = mounts
  BY <1>2, <1>3 DEF NothingHidden
<1>4. CASE mounts' = <<>>
  BY <1>4 DEF NothingHidden
<1>5. CASE Mount
  <2>1. ASSUME NEW i \in DOMAIN mounts PROVE ~IsPrefix(PlaceOf(Turn), mounts[i].at)
    <3>1. mounts[i] \in Plan /\ Mounted(mounts[i])
      BY <1>1 DEF Mounted
    <3>2. Entry(Turn) \in Plan /\ Entry(Turn).at = PlaceOf(Turn) /\ ~Mounted(Entry(Turn))
      BY <1>5, MountAppends
    <3>3. mounts[i].at \in Seq(Words) /\ PlaceOf(Turn) \in Seq(Words)
      BY <1>1, <3>1, <3>2, PlanEntries
    <3>4. mounts[i].at # PlaceOf(Turn)
      BY <1>1, <3>1, <3>2, PlanEntries
    <3>5. ~IsStrictPrefix(PlaceOf(Turn), mounts[i].at)
      BY <3>1, <3>2 DEF IInv, Closed
    <3> QED
      BY <3>4, <3>5 DEF IsStrictPrefix
  <2>2. ASSUME NEW i \in DOMAIN mounts', NEW j \in DOMAIN mounts', i < j
        PROVE  ~IsPrefix(mounts'[j].at, mounts'[i].at)
    <3>1. /\ i \in 1..Len(mounts) /\ mounts'[i] = mounts[i]
          /\ j \in 1..Len(mounts) \/ j = Len(mounts) + 1
      <4>1. DOMAIN mounts' = 1..Len(mounts) + 1
        BY <1>5, MountAppends
      <4>2. i \in 1..Len(mounts)
        BY <1>1, <2>2, <4>1
      <4> QED
        BY <1>1, <1>5, <4>1, <4>2, MountAppends
    <3>2. CASE j = Len(mounts) + 1
      BY <1>1, <1>5, <2>1, <3>1, <3>2, MountAppends
    <3>3. CASE j \in 1..Len(mounts)
      BY <1>1, <1>2, <1>5, <2>2, <3>1, <3>3, MountAppends
    <3> QED
      BY <3>1, <3>2, <3>3
  <2> QED
    BY <2>2 DEF NothingHidden
<1>6. CASE \E k \in DOMAIN mounts : Umount(k)
  <2>1. PICK k \in DOMAIN mounts : Umount(k)
    BY <1>6
  <2> DEFINE from(j) == IF j < k THEN j ELSE j + 1
  <2>2. /\ DOMAIN mounts' = 1..Len(mounts) - 1 /\ k \in 1..Len(mounts)
        /\ \A j \in DOMAIN mounts' : mounts'[j] = mounts[from(j)]
    BY <1>1, <2>1, UmountRemoves
  <2>3. \A j \in 1..Len(mounts) - 1 : from(j) \in 1..Len(mounts)
    BY <1>1, <2>2
  <2>4. \A i, j \in 1..Len(mounts) - 1 : i < j => from(i) < from(j)
    BY <1>1, <2>2
  <2> HIDE DEF from
  <2> QED
    BY <1>1, <1>2, <2>2, <2>3, <2>4 DEF NothingHidden
<1> QED
  BY <1>3, <1>4, <1>5, <1>6, MountsChange

LEMMA BusyNext == IInv /\ [Next]_vars => BusyOnlyAtRoot'
<1> SUFFICES ASSUME IInv, [Next]_vars, pc' = "busy" PROVE (mountpoint.target = <<>>)'
  BY DEF BusyOnlyAtRoot
<1>1. CASE MountFails
  <2>1. PICK k \in DOMAIN mounts : mounts[k] = [dev |-> mountpoint.dev, at |-> At]
    BY <1>1 DEF MountFails, Busy
  <2>2. Location # At
    BY <1>1, <2>1 DEF MountFails, Already, Mounted
  <2>3. mountpoint.target = <<>>
    BY <2>2 DEF Location, At
  <2> QED
    BY <1>1, <2>3 DEF MountFails, mountpoint, sorting
<1>2. CASE UNCHANGED vars
  BY <1>2 DEF vars, sorting, IInv, BusyOnlyAtRoot, mountpoint
<1>3. CASE ~MountFails /\ ~UNCHANGED vars
  <2>1. pc' # "busy" \/ (pc = "busy" /\ UNCHANGED <<recipe, ordered, next>>)
    BY <1>3 DEF Next, Begin, Consider, NextDepth, Mount, Skip, Finish, Fail, End,
                Reboot, Umount, Mounting
  <2> QED
    BY <2>1 DEF IInv, BusyOnlyAtRoot, mountpoint
<1> QED
  BY <1>1, <1>2, <1>3

LEMMA Inductive == Spec => []IInv
<1>1. IInv /\ [Next]_vars => IInv'
  BY TypeNext, SortingNext, ReachingNext, ProgressNext, ClosedNext, HiddenNext, BusyNext DEF IInv
<1> QED
  BY InitInv, <1>1, PTL DEF Spec

-----------------------------------------------------------------------------
(* Every variable keeps its type, no mountpoint is ordered twice and no    *)
(* pass is made below the deepest of them, by any number of runs over      *)
(* recipes of any length (recipe.go:950-969).                              *)
THEOREM TypeCorrect == Spec => []TypeOK
<1>1. IInv => TypeOK
  <2> SUFFICES ASSUME IInv PROVE TypeOK
    OBVIOUS
  <2>1. /\ TypeInv /\ Size \in Nat /\ DOMAIN recipe = Indices /\ Size <= MaxMounts
        /\ recipe \in Recipes
    BY RecipeFacts DEF IInv, TypeInv
  <2> DEFINE M == [dev : 1..MaxMounts, at : {<<r>> \o t : r \in {RootA, RootB}, t \in Targets}]
  <2>2. ASSUME NEW k \in Indices PROVE Entry(k) \in M
    <3>1. Target(k) \in Targets /\ k \in 1..MaxMounts
      BY <2>1, RecipeFacts, BoundsAssumption DEF Indices
    <3>2. \E r \in {RootA, RootB} : PlaceOf(k) = <<r>> \o Target(k)
      BY DEF PlaceOf, Target
    <3> QED
      BY <3>1, <3>2 DEF Entry
  <2>3. \A m \in Plan : m \in M
    <3> HIDE DEF M
    <3> SUFFICES ASSUME NEW m \in Plan PROVE m \in M
      OBVIOUS
    <3>1. m.dev \in Indices /\ m = Entry(m.dev)
      BY <2>1, PlanEntries
    <3>2. Entry(m.dev) \in M
      BY <2>2, <3>1
    <3> QED
      BY <3>1, <3>2
  <2>4. mounts \in Seq(M)
    <3>1. mounts \in Seq(Plan)
      BY DEF IInv, Closed
    <3> HIDE DEF M
    <3> QED
      BY <2>3, <3>1, SeqMonotonic
  <2> HIDE DEF M
  <2>5. /\ ordered \in Seq(DOMAIN recipe) /\ scan \in 1..Len(recipe) + 1
        /\ \A j, k \in DOMAIN ordered : ordered[j] = ordered[k] => j = k
    BY <2>1, Ordered DEF TypeInv, Size
  <2>6. pc = "order" => \E k \in DOMAIN recipe : depth <= Depth(recipe[k])
    BY <2>1 DEF IInv, Reaching, Depth, Target
  <2> QED
    BY <2>1, <2>4, <2>5, <2>6 DEF TypeInv, TypeOK, M
<1> QED
  BY <1>1, Inductive, PTL

(* What is in place is never hidden by a file system mounted later, in     *)
(* this run or another, whatever was unmounted between them                *)
(* (recipe.go:950-969, partition.go:60-97).                                *)
THEOREM HidesNothing == Spec => []NothingHidden
BY Inductive, PTL DEF IInv

(* A run that is refused because something is mounted already is refused   *)
(* for "/", of which alone the place is not recognised                     *)
(* (recipe.go:971-983, partition.go:64-71).                                *)
THEOREM RefusedForRoots == Spec => []BusyOnlyAtRoot
BY Inductive, PTL DEF IInv

-----------------------------------------------------------------------------
(* Where files go.                                                         *)
OnTheWay(path) == {k \in DOMAIN mounts : IsPrefix(mounts[k].at, path)}

(* When all of the plan is in place, the file system that shows at a path  *)
(* is the one whose place is the longest prefix of it.                     *)
LEMMA LastIsLongest ==
  ASSUME IInv, NEW path \in Seq(Words), NEW k \in OnTheWay(path), NEW j \in OnTheWay(path),
         j <= k
  PROVE  Len(mounts[j].at) <= Len(mounts[k].at)
<1>1. recipe \in Recipes /\ mounts \in Seq(Plan) /\ DOMAIN mounts = 1..Len(mounts)
      /\ Len(mounts) \in Nat
  BY DEF IInv, TypeInv, Closed
<1> DEFINE a == mounts[j].at
           b == mounts[k].at
<1>2. a \in Seq(Words) /\ b \in Seq(Words)
  BY <1>1, PlanEntries DEF OnTheWay
<1>3. IsPrefix(a, path) /\ IsPrefix(b, path) /\ (j < k => ~IsPrefix(b, a))
  BY <1>1 DEF OnTheWay, IInv, NothingHidden
<1>4. j = k => a = b
  OBVIOUS
<1> HIDE DEF a, b
<1>5. SUFFICES ASSUME Len(b) < Len(a) PROVE FALSE
  <2>1. Len(a) \in Nat /\ Len(b) \in Nat
    BY <1>2
  <2>2. (Len(a) <= Len(b)) \/ (Len(b) < Len(a))
    BY <2>1
  <2> QED
    BY <2>2 DEF a, b
<1>6. Len(a) \in Nat /\ Len(b) \in Nat /\ \A i \in 1..Len(b) : i \in 1..Len(a)
  BY <1>2, <1>5
<1>7. /\ \A i \in 1..Len(a) : a[i] = path[i]
      /\ \A i \in 1..Len(b) : b[i] = path[i]
  BY <1>2, <1>3, PrefixProperties
<1>8. IsPrefix(b, a)
  BY <1>2, <1>5, <1>6, <1>7, PrefixProperties
<1>9. j < k
  BY <1>1, <1>4, <1>5, <1>6 DEF OnTheWay
<1> QED
  BY <1>3, <1>8, <1>9

LEMMA LandsAsDeclared ==
  ASSUME IInv, pc = "done", NEW path \in Seq(Words)
  PROVE  LandsOn(path) = DeclaredFor(path)
<1>1. /\ recipe \in Recipes /\ mounts \in Seq(Plan) /\ Len(mounts) \in Nat
      /\ DOMAIN mounts = 1..Len(mounts)
      /\ next \in 1..Len(ordered) + 1 /\ Len(ordered) \in Nat
      /\ DOMAIN ordered = 1..Len(ordered)
  BY DEF IInv, TypeInv, Closed
<1>2. ASSUME NEW n \in Plan PROVE Mounted(n)
  <2>1. PICK k \in Indices : n = Entry(k)
    BY <1>1, PlanEntries
  <2>2. PICK i \in DOMAIN ordered : ordered[i] = k
    BY DEF IInv, Sorting, Listed
  <2>3. i \in 1..next - 1
    BY <1>1 DEF IInv, Progress
  <2> QED
    BY <2>1, <2>2, <2>3 DEF IInv, Progress
<1> DEFINE I == OnTheWay(path)
           Shows(k) == /\ IsPrefix(mounts[k].at, path)
                       /\ \A j \in k + 1..Len(mounts) : ~IsPrefix(mounts[j].at, path)
           above == {m \in Plan : IsPrefix(m.at, path)}
           Longest(m) == \A n \in above : Len(n.at) <= Len(m.at)
<1>3. /\ LandsOn(path) = IF \E k \in DOMAIN mounts : Shows(k)
                          THEN mounts[CHOOSE k \in DOMAIN mounts : Shows(k)].dev ELSE 0
      /\ DeclaredFor(path) = IF above = {} THEN 0
                              ELSE (CHOOSE m \in above : Longest(m)).dev
  BY DEF LandsOn, DeclaredFor
<1>4. \A k \in I : mounts[k] \in above
  BY <1>1 DEF OnTheWay
<1>5. \A n \in above : \E j \in I : mounts[j] = n
  BY <1>2 DEF OnTheWay, Mounted
<1>6. ASSUME NEW k \in DOMAIN mounts
      PROVE  Shows(k) <=> k \in I /\ \A j \in I : j <= k
  <2> DEFINE Way(j) == IsPrefix(mounts[j].at, path)
  <2>1. \A j \in DOMAIN mounts : j \in I <=> Way(j)
    BY DEF OnTheWay
  <2>2. Shows(k) <=> Way(k) /\ \A j \in k + 1..Len(mounts) : ~Way(j)
    OBVIOUS
  <2>3. I \subseteq DOMAIN mounts
    BY DEF OnTheWay
  <2> HIDE DEF I, Shows, Way
  <2>4. \A j \in k + 1..Len(mounts) : j \in DOMAIN mounts /\ ~(j <= k)
    BY <1>1
  <2>5. \A j \in DOMAIN mounts : j <= k \/ j \in k + 1..Len(mounts)
    BY <1>1
  <2> QED
    BY <2>1, <2>2, <2>3, <2>4, <2>5, Zenon
<1>7. CASE above = {}
  BY <1>3, <1>4, <1>6, <1>7
<1>8. CASE above # {}
  <2>1. I # {} /\ I \in SUBSET 1..Len(mounts)
    BY <1>1, <1>5, <1>8 DEF OnTheWay
  <2>2. \E k \in DOMAIN mounts : Shows(k)
    <3>1. \E k \in I : \A j \in I : j <= k
      BY <1>1, <2>1, LastIndex
    <3> HIDE DEF I, Shows
    <3> QED
      BY <1>1, <1>6, <2>1, <3>1
  <2> DEFINE k0 == CHOOSE k \in DOMAIN mounts : Shows(k)
             m1 == CHOOSE m \in above : Longest(m)
  <2>3. k0 \in DOMAIN mounts /\ Shows(k0)
    BY <2>2
  <2>4. k0 \in I /\ \A j \in I : j <= k0
    BY <1>6, <2>3
  <2>5. LandsOn(path) = mounts[k0].dev /\ DeclaredFor(path) = m1.dev
    BY <1>3, <1>8, <2>2
  <2> HIDE DEF k0
  <2>6. mounts[k0] \in above /\ Longest(mounts[k0])
    <3>1. ASSUME NEW n \in above PROVE Len(n.at) <= Len(mounts[k0].at)
      <4>1. PICK j \in I : mounts[j] = n
        BY <1>5
      <4> QED
        BY <2>4, <4>1, LastIsLongest
    <3> QED
      BY <1>4, <2>4, <3>1
  <2>7. m1 \in above /\ Longest(m1)
    <3> HIDE DEF above, Longest
    <3>1. \E m \in above : Longest(m)
      BY <2>6
    <3> QED
      BY <3>1
  <2> HIDE DEF m1
  <2>8. mounts[k0].at = m1.at
    <3>1. mounts[k0].at \in Seq(Words) /\ m1.at \in Seq(Words)
      BY <1>1, <2>6, <2>7, PlanEntries
    <3>2. Len(mounts[k0].at) = Len(m1.at)
      <4>1. Len(mounts[k0].at) <= Len(m1.at) /\ Len(m1.at) <= Len(mounts[k0].at)
        BY <2>6, <2>7
      <4>2. Len(mounts[k0].at) \in Nat /\ Len(m1.at) \in Nat
        BY <3>1
      <4> QED
        BY <4>1, <4>2
    <3>3. IsPrefix(mounts[k0].at, path) /\ IsPrefix(m1.at, path)
      BY <2>6, <2>7
    <3>4. \A i \in 1..Len(m1.at) : mounts[k0].at[i] = m1.at[i]
      BY <3>1, <3>2, <3>3, PrefixProperties
    <3> QED
      BY <3>1, <3>2, <3>4, SeqEqual
  <2>9. mounts[k0] = m1
    BY <1>1, <2>6, <2>7, <2>8, PlanEntries
  <2> QED
    BY <2>5, <2>9
<1> QED
  BY <1>7, <1>8

(* Once SetupMountpoints has returned nil, every file Install writes below *)
(* a root or a target of the recipe goes to the file system declared for   *)
(* it, whatever the order the recipe lists them in and whatever an earlier *)
(* run left mounted (recipe.go:950-986).                                   *)
THEOREM LandAsDeclared == Spec => []FilesLandAsDeclared
<1>1. IInv => FilesLandAsDeclared
  <2> SUFFICES ASSUME IInv, pc = "done", NEW r \in {RootA, RootB}, NEW t \in Targets
               PROVE  LandsOn(<<r>> \o t) = DeclaredFor(<<r>> \o t)
    BY DEF FilesLandAsDeclared
  <2>1. t \in Seq(Words) /\ <<r>> \in Seq(Words)
    <3>1. t \in Seq(Names)
      BY TargetsAssumption DEF Names
    <3>2. t \in Seq(Words) /\ r \in Words
      BY <3>1, SeqMonotonic DEF Words
    <3> QED
      BY <3>2
  <2>2. <<r>> \o t \in Seq(Words)
    BY <2>1, ConcatProperties
  <2> QED
    BY <2>2, LandsAsDeclared
<1> QED
  BY <1>1, Inductive, PTL

-----------------------------------------------------------------------------
(* The refinement.                                                         *)
LEMMA PlacedSet == ASSUME NEW s PROVE ToSet(s) = {s[k] : k \in DOMAIN s}
BY DEF ToSet

LEMMA AboveIsStrictPrefix == \A p, q : InOrder!Above(p, q) <=> IsStrictPrefix(p, q)
BY DEF InOrder!Above, InOrder!IsStrictPrefix, InOrder!IsPrefix, IsStrictPrefix, IsPrefix

LEMMA PlaceStep == IInv /\ Mount => \E m \in Plan : InOrder!Place(m)
<1> SUFFICES ASSUME IInv, Mount PROVE InOrder!Place(Entry(Turn)) /\ Entry(Turn) \in Plan
  OBVIOUS
<1>1. Entry(Turn) \in Plan \ ToSet(mounts)
  BY MountAppends, PlacedSet DEF Mounted
<1>2. \A n \in Plan : IsStrictPrefix(n.at, Entry(Turn).at) => n \in ToSet(mounts)
  BY MountAppends, MountedAbove, PlacedSet DEF Mounted
<1>3. ToSet(mounts') = ToSet(mounts) \cup {Entry(Turn)}
  <2>1. mounts \in Seq(Plan) /\ Len(mounts) \in Nat /\ DOMAIN mounts = 1..Len(mounts)
    BY DEF IInv, Closed
  <2>2. DOMAIN mounts' = 1..Len(mounts) + 1
    BY MountAppends
  <2>3. DOMAIN mounts \subseteq DOMAIN mounts' /\ Len(mounts) + 1 \in DOMAIN mounts'
    BY <2>1, <2>2
  <2> QED
    BY <2>1, <2>3, MountAppends, PlacedSet
<1>4. ToSet(mounts)' = ToSet(mounts) \cup {Entry(Turn)}
  BY <1>3 DEF ToSet
<1> QED
  BY <1>1, <1>2, <1>4, AboveIsStrictPrefix DEF InOrder!Place

LEMMA LiftStep ==
  IInv /\ (\E k \in DOMAIN mounts : Umount(k)) => \E m \in Plan : InOrder!Lift(m)
<1> SUFFICES ASSUME IInv, NEW k \in DOMAIN mounts, Umount(k)
             PROVE  InOrder!Lift(mounts[k]) /\ mounts[k] \in Plan
  OBVIOUS
<1>1. /\ mounts \in Seq(Plan) /\ DOMAIN mounts = 1..Len(mounts) /\ Len(mounts) \in Nat
      /\ recipe \in Recipes /\ mounts[k] \in Plan
  BY DEF IInv, TypeInv, Closed
<1>2. mounts[k] \in ToSet(mounts)
  BY PlacedSet
<1>3. \A n \in ToSet(mounts) : ~IsStrictPrefix(mounts[k].at, n.at)
  BY PlacedSet DEF Umount
<1>4. ASSUME NEW j \in DOMAIN mounts, j # k PROVE mounts[j] # mounts[k]
  <2>1. mounts[j].at \in Seq(Words) /\ mounts[k].at \in Seq(Words)
    BY <1>1, PlanEntries
  <2>2. IsPrefix(mounts[j].at, mounts[j].at) /\ IsPrefix(mounts[k].at, mounts[k].at)
    BY <2>1, PrefixProperties
  <2>3. j < k \/ k < j
    BY <1>1, <1>4
  <2> QED
    BY <2>2, <2>3 DEF IInv, NothingHidden
<1>5. ToSet(mounts') = ToSet(mounts) \ {mounts[k]}
  <2>1. \A m : Mounted(m)' <=> \E j \in DOMAIN mounts : j # k /\ mounts[j] = m
    BY UmountRemoves
  <2>2. \A m : Mounted(m)' <=> m \in ToSet(mounts')
    BY PlacedSet DEF Mounted
  <2> QED
    BY <1>4, <2>1, <2>2, PlacedSet
<1>6. ToSet(mounts)' = ToSet(mounts) \ {mounts[k]}
  BY <1>5 DEF ToSet
<1> QED
  BY <1>1, <1>2, <1>3, <1>6, AboveIsStrictPrefix DEF InOrder!Lift

(* SetupMountpoints implements MountOrder: every step of it either puts    *)
(* one file system of the recipe in place below those that are, or is a    *)
(* stutter; between the runs they are lifted from the top (recipe.go:950). *)
THEOREM Refines == Spec => PlacesInOrder
<1>1. Init => InOrder!Init
  BY PlacedSet DEF Init, InOrder!Init
<1>2. IInv /\ [Next]_vars => [InOrder!Next]_<<Plan, ToSet(mounts)>>
  <2> SUFFICES ASSUME IInv, [Next]_vars
               PROVE  [InOrder!Next]_<<Plan, ToSet(mounts)>>
    OBVIOUS
  <2>1. Plan' = Plan
    BY StepKeepsRecipe
  <2>2. CASE mounts' = mounts
    BY <2>1, <2>2
  <2>3. CASE mounts' = <<>>
    <3>1. ToSet(mounts') = {}
      BY <2>3, PlacedSet
    <3> QED
      BY <2>1, <3>1 DEF InOrder!Next, InOrder!Clear
  <2>4. CASE Mount
    BY <2>1, <2>4, PlaceStep DEF InOrder!Next
  <2>5. CASE \E k \in DOMAIN mounts : Umount(k)
    BY <2>1, <2>5, LiftStep DEF InOrder!Next
  <2> QED
    BY <2>2, <2>3, <2>4, <2>5, MountsChange
<1> QED
  BY <1>1, <1>2, Inductive, PTL DEF Spec, PlacesInOrder, InOrder!Spec
==============================================================================
