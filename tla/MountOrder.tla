----------------------------- MODULE MountOrder ------------------------------
(***************************************************************************)
(* What SetupMountpoints promises: the recipe's file systems are put in    *)
(* place one at a time, none below the place of one that is still missing, *)
(* so that none is ever hidden by a later one.                             *)
(***************************************************************************)
EXTENDS Sequences, SequencesExt

VARIABLES
  plan,         \* the [dev, at] the recipe declares
  placed        \* those in place

Above(p, q) == IsStrictPrefix(p, q)

Init == placed = {}

Place(m) ==
  /\ m \in plan \ placed
  /\ \A n \in plan : Above(n.at, m.at) => n \in placed
  /\ placed' = placed \cup {m}

(* Somebody unmounts what nothing else rests on.                           *)
Lift(m) ==
  /\ m \in placed
  /\ \A n \in placed : ~Above(m.at, n.at)
  /\ placed' = placed \ {m}

Clear == placed' = {}

Next ==
  /\ UNCHANGED plan
  /\ (\E m \in plan : Place(m) \/ Lift(m)) \/ Clear

Spec == Init /\ [][Next]_<<plan, placed>>
==============================================================================
