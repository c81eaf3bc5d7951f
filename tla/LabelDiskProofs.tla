--------------------------- MODULE LabelDiskProofs ---------------------------
(***************************************************************************)
(* Theorems about LabelDisk, for a disk of any number of partitions, any   *)
(* other partitions, volume groups and places.                             *)
(*                                                                         *)
(* What is to be removed has lost its group (Freed), and what is mounted   *)
(* is no physical volume (PlainMounts): with these TypeOK is inductive.    *)
(* The other invariants say how far the operation has come: which mounts   *)
(* are gone (Passed), that it adds none (Quiet), and which groups of the   *)
(* disk are still to be removed (Accounted).                               *)
(***************************************************************************)
EXTENDS LabelDisk, TLAPS

Freed == \A p \in pvsToRemove : pv[p] = "free pv"

PlainMounts == \A p \in Part : at[p] # {} => pv[p] = "no pv"

TypeInv == TypeOK /\ Freed /\ PlainMounts

(* A partition that was mounted once at most is never mounted more often,  *)
(* so its one umount leaves it unmounted.                                  *)
Passed ==
  pc \in {"unmount", "vgremove", "mklabel"} => \A p \in table \ multiple :
    /\ ~MountedTwice(p)
    /\ pc = "unmount" /\ p < number => ~IsMounted(p)
    /\ pc \in {"vgremove", "mklabel"} => ~IsMounted(p)

Quiet ==
  pc \in {"unmount", "vgremove", "mklabel"} /\ ~inUse => ~AnythingInUse

AllListed ==
  \A g \in vgs : PvsOf(g) \cap Own # {} =>
    g \in listed /\ \E p \in PvsOf(g) \cap shown : OfDisk(p)

(* When LVM's reports can be relied on, each group that has a physical     *)
(* volume on the disk is still listed, with one that the loop will find.   *)
Accounted ==
  ~prefixed \/ sole =>
    /\ pc = "unmount" /\ sole => OneGroup
    /\ pc = "vgremove" => AllListed
    /\ pc \in {"mklabel", "done"} => NoGroupLeft

IInv == TypeInv /\ Passed /\ Quiet /\ Accounted /\ RefusedOnlyInUse

-----------------------------------------------------------------------------
LEMMA Numbers ==
  /\ 1 \in 1..MaxPart + 1
  /\ \A n \in Own : n + 1 \in 1..MaxPart + 1
BY MaxPartAssumption DEF Own

LEMMA Order ==
  /\ \A p \in Own : ~(p < 1)
  /\ \A n, p \in Own : p < n + 1 => p < n \/ p = n
  /\ \A n \in 1..MaxPart + 1 : n \notin Own => \A p \in Own : p < n
BY MaxPartAssumption DEF Own

LEMMA InitInv == Init => IInv
<1> SUFFICES ASSUME Init PROVE IInv
  OBVIOUS
<1>1. TypeOK
  <2>1. number \in 1..MaxPart + 1
    BY Numbers DEF Init
  <2>2. prefixed \in BOOLEAN /\ inUse \in BOOLEAN /\ sole \in BOOLEAN
    BY Zenon DEF Init
  <2>3. multiple \subseteq Own
    BY DEF Init
  <2> QED
    BY <2>1, <2>2, <2>3 DEF Init, TypeOK
<1>2. Freed /\ PlainMounts
  BY DEF Init, Freed, PlainMounts
<1>3. Passed /\ Quiet /\ Accounted /\ RefusedOnlyInUse
  BY DEF Init, Passed, Quiet, Accounted, RefusedOnlyInUse, Refused
<1> QED
  BY <1>1, <1>2, <1>3 DEF IInv, TypeInv

(* A report loses rows only to the blanks, and none of them if it has one.  *)
LEMMA Reported ==
  ASSUME NEW rows, NEW blanks, NEW kept \in Intact(rows, blanks)
  PROVE  /\ kept \subseteq rows
         /\ ~blanks => kept = rows
         /\ rows # {} => kept # {}
         /\ \A row \in rows : rows \subseteq {row} => kept = rows
BY DEF Intact

(* A group is removed: nothing is in it any more, the others are as before. *)
LEMMA GroupRemoved ==
  ASSUME TypeInv, NEW g \in vgs, lvAt[g] = Nowhere,
         vgs' = vgs \ {g},
         pv' = [p \in Part |-> IF pv[p] = g THEN "free pv" ELSE pv[p]],
         UNCHANGED lvAt
  PROVE  /\ pv' \in [Part -> Vg \cup {"no pv", "free pv"}]
         /\ vgs' = {h \in Vg : PvsOf(h)' # {}}
         /\ \A h \in Vg \ vgs' : lvAt'[h] = Nowhere
         /\ \A h \in vgs' : PvsOf(h)' = PvsOf(h)
<1> USE DEF TypeInv, TypeOK
<1>1. g \in Vg /\ g # "free pv" /\ g # "no pv"
  BY VgAssumption
<1>2. pv' \in [Part -> Vg \cup {"no pv", "free pv"}]
  BY <1>1
<1>3. \A h \in Vg : PvsOf(h)' = IF h = g THEN {} ELSE PvsOf(h)
  <2>1. ASSUME NEW h \in Vg, h # g PROVE PvsOf(h)' = PvsOf(h)
    <3>1. h # "free pv"
      BY VgAssumption
    <3> QED
      BY <2>1, <3>1, <1>1 DEF PvsOf
  <2>2. PvsOf(g)' = {}
    BY <1>1 DEF PvsOf
  <2> QED
    BY <2>1, <2>2
<1>4. vgs' = {h \in Vg : PvsOf(h)' # {}}
  BY <1>3
<1>5. \A h \in Vg \ vgs' : lvAt'[h] = Nowhere
  OBVIOUS
<1> QED
  BY <1>2, <1>3, <1>4, <1>5

(* What VgRemove does with one of the listed groups.                       *)
Removes(g) ==
  /\ g \in listed /\ listed' = listed \ {g}
  /\ UNCHANGED <<machine, number, shown, history, lvAt>>
  /\ \/ /\ {p \in PvsOf(g) \cap shown : OfDisk(p)} = {}
        /\ UNCHANGED <<pv, vgs, pc, pvsToRemove>>
     \/ /\ {p \in PvsOf(g) \cap shown : OfDisk(p)} # {} /\ lvAt[g] # Nowhere
        /\ pc' = "vgremove refused" /\ UNCHANGED <<pv, vgs, pvsToRemove>>
     \/ /\ lvAt[g] = Nowhere
        /\ vgs' = vgs \ {g}
        /\ pv' = [p \in Part |-> IF pv[p] = g THEN "free pv" ELSE pv[p]]
        /\ \E p \in {q \in PvsOf(g) \cap shown : OfDisk(q)} :
             pvsToRemove' = pvsToRemove \cup {p}
        /\ UNCHANGED pc

LEMMA VgRemoveCases ==
  ASSUME VgRemove
  PROVE  pc = "vgremove" /\ \E g \in listed : Removes(g)
<1>1. PICK g \in listed :
        LET mine == {p \in PvsOf(g) \cap shown : OfDisk(p)} IN
        /\ listed' = listed \ {g}
        /\ IF mine = {} THEN UNCHANGED <<lvm, pc, pvsToRemove>>
           ELSE IF lvAt[g] # Nowhere
           THEN pc' = "vgremove refused" /\ UNCHANGED <<lvm, pvsToRemove>>
           ELSE /\ vgs' = vgs \ {g}
                /\ pv' = [p \in Part |-> IF pv[p] = g THEN "free pv" ELSE pv[p]]
                /\ \E p \in mine : pvsToRemove' = pvsToRemove \cup {p}
                /\ UNCHANGED <<lvAt, pc>>
  BY DEF VgRemove
<1>2. UNCHANGED <<machine, number, shown, history>>
  BY DEF VgRemove
<1>3. Removes(g)
  BY <1>1, <1>2 DEF Removes, lvm
<1> QED
  BY <1>3 DEF VgRemove

-----------------------------------------------------------------------------
(* Types, and what keeps them, in one step.                                *)
LEMMA TypeNext == TypeInv /\ [Next]_vars => TypeInv'
<1> SUFFICES ASSUME TypeInv, [Next]_vars PROVE TypeInv'
  OBVIOUS
<1> USE DEF TypeInv, TypeOK, Freed, PlainMounts, PvsOf, machine, lvm, lists, history
<1>1. CASE Begin
  <2>1. inUse' \in BOOLEAN /\ sole' \in BOOLEAN
    BY <1>1, Zenon DEF Begin, AnythingInUse, OneGroup
  <2>2. multiple' \subseteq Own
    BY <1>1 DEF Begin
  <2> QED
    BY <1>1, <2>1, <2>2, Numbers DEF Begin
<1>2. CASE SkipUnmounted
  BY <1>2, Numbers DEF SkipUnmounted
<1>3. CASE CloseMounted
  BY <1>3 DEF CloseMounted, Refused
<1>4. CASE Umount
  <2>1. number' \in 1..MaxPart + 1
    BY <1>4, Numbers DEF Umount
  <2>2. /\ at' \in [Part -> SUBSET Places]
        /\ \A p \in Part : at'[p] \subseteq at[p]
    BY <1>4 DEF Umount
  <2>3. pc' \in {"unmount", "umount refused"}
    BY <1>4 DEF Umount
  <2>4. UNCHANGED <<table, pv, luks, open, lvAt, vgs, prefixed, listed, shown,
                    pvsToRemove, inUse, sole, multiple>>
    BY <1>4 DEF Umount
  <2>5. Freed' /\ PlainMounts'
    BY <2>2, <2>4
  <2>6. /\ vgs' = {g \in Vg : PvsOf(g)' # {}}
        /\ \A g \in Vg \ vgs' : lvAt'[g] = Nowhere
    BY <2>4
  <2> QED
    BY <2>1, <2>2, <2>3, <2>4, <2>5, <2>6 DEF Refused
<1>5. CASE ListVgs
  <2>1. listed' \subseteq vgs /\ shown' \subseteq {p \in Part : pv[p] # "no pv"}
    BY <1>5, Reported DEF ListVgs
  <2> QED
    BY <1>5, <2>1 DEF ListVgs
<1>6. CASE VgRemove
  <2>1. PICK g \in listed : Removes(g)
    BY <1>6, VgRemoveCases
  <2>2. CASE UNCHANGED <<pv, vgs, pvsToRemove>>
    BY <1>6, <2>1, <2>2 DEF VgRemove, Removes, Refused
  <2>3. CASE /\ lvAt[g] = Nowhere /\ vgs' = vgs \ {g} /\ UNCHANGED pc
             /\ pv' = [p \in Part |-> IF pv[p] = g THEN "free pv" ELSE pv[p]]
             /\ \E p \in {q \in PvsOf(g) \cap shown : OfDisk(q)} :
                  pvsToRemove' = pvsToRemove \cup {p}
    <3>1. g \in vgs
      BY <2>3
    <3>2. /\ pv' \in [Part -> Vg \cup {"no pv", "free pv"}]
          /\ vgs' = {h \in Vg : PvsOf(h)' # {}}
          /\ \A h \in Vg \ vgs' : lvAt'[h] = Nowhere
      BY ONLY <2>1, <2>3, <3>1, GroupRemoved, TypeInv DEF Removes
    <3>3. Freed' /\ PlainMounts'
      <4>1. PICK q \in PvsOf(g) : pvsToRemove' = pvsToRemove \cup {q}
        BY <2>3
      <4>2. \A p \in Part : pv[p] = "no pv" => pv'[p] = "no pv"
        BY <2>3, <3>1, VgAssumption
      <4>3. UNCHANGED at
        BY <2>1 DEF Removes
      <4> QED
        BY <2>3, <4>1, <4>2, <4>3
    <3> QED
      BY <2>1, <2>3, <3>2, <3>3 DEF Removes
  <2> QED
    BY <2>1, <2>2, <2>3 DEF Removes
<1>7. CASE PvRemove
  <2>1. PICK p \in pvsToRemove : /\ pv' = [pv EXCEPT ![p] = "no pv"]
                                 /\ pvsToRemove' = pvsToRemove \ {p}
    BY <1>7 DEF PvRemove
  <2>2. \A g \in Vg : PvsOf(g)' = PvsOf(g)
    BY <2>1, VgAssumption
  <2>3. pv' \in [Part -> Vg \cup {"no pv", "free pv"}]
    BY <2>1
  <2>4. Freed' /\ PlainMounts'
    BY <1>7, <2>1 DEF PvRemove
  <2>5. vgs' = {g \in Vg : PvsOf(g)' # {}}
    BY <1>7, <2>2 DEF PvRemove
  <2>6. UNCHANGED <<table, luks, open, at, lvAt, vgs, pc, number, listed, shown,
                    prefixed, inUse, sole, multiple>>
        /\ pvsToRemove' \subseteq Part
    BY <1>7, <2>1 DEF PvRemove
  <2> QED
    BY <2>3, <2>4, <2>5, <2>6
<1>8. CASE RemovedAll
  BY <1>8 DEF RemovedAll
<1>9. CASE Mklabel
  BY <1>9 DEF Mklabel, Refused
<1>10. CASE Fail
  BY <1>10 DEF Fail
<1>11. CASE Rerun
  BY <1>11 DEF Rerun
<1>12. CASE Reboot
  BY <1>12 DEF Reboot
<1>13. CASE UNCHANGED vars
  BY <1>13 DEF vars
<1> QED
  BY <1>1, <1>2, <1>3, <1>4, <1>5, <1>6, <1>7, <1>8, <1>9, <1>10, <1>11,
     <1>12, <1>13 DEF Next

-----------------------------------------------------------------------------
(* No step of the operation mounts, opens or creates anything, and a group *)
(* that stays keeps its physical volumes.                                  *)
LEMMA Shrinks ==
  ASSUME TypeInv, [Next]_vars
  PROVE  /\ table' \subseteq table /\ open' \subseteq open /\ vgs' \subseteq vgs
         /\ \A p \in Part : at'[p] \subseteq at[p]
         /\ \A g \in vgs' : lvAt'[g] # Nowhere => lvAt[g] # Nowhere
         /\ \A g \in vgs' : PvsOf(g)' = PvsOf(g)
         /\ UNCHANGED prefixed
<1> USE DEF machine, lvm
<1>1. CASE UNCHANGED <<machine, lvm>>
  BY <1>1 DEF PvsOf
<1>2. CASE Umount
  <2>1. \A p \in Part : at'[p] \subseteq at[p]
    BY <1>2 DEF Umount, TypeInv, TypeOK
  <2> QED
    BY <1>2, <2>1 DEF Umount, PvsOf
<1>3. CASE VgRemove
  <2>1. PICK g \in listed : Removes(g)
    BY <1>3, VgRemoveCases
  <2>2. CASE UNCHANGED <<pv, vgs>>
    BY <2>1, <2>2 DEF Removes, PvsOf
  <2>3. CASE /\ lvAt[g] = Nowhere /\ vgs' = vgs \ {g}
             /\ pv' = [p \in Part |-> IF pv[p] = g THEN "free pv" ELSE pv[p]]
    <3>1. \A h \in vgs' : PvsOf(h)' = PvsOf(h)
      <4>1. CASE g \in vgs
        BY ONLY <2>1, <2>3, <4>1, GroupRemoved, TypeInv DEF Removes
      <4>2. CASE g \notin vgs
        <5>1. \A p \in Part : pv[p] # g
          BY <2>1, <4>2 DEF TypeInv, TypeOK, PvsOf
        <5>2. pv' = pv
          BY <2>3, <5>1 DEF TypeInv, TypeOK
        <5> QED
          BY <5>2 DEF PvsOf
      <4> QED
        BY <4>1, <4>2
    <3> QED
      BY <2>1, <2>3, <3>1 DEF Removes
  <2> QED
    BY <2>1, <2>2, <2>3 DEF Removes
<1>4. CASE PvRemove
  <2>1. PICK p \in pvsToRemove : pv' = [pv EXCEPT ![p] = "no pv"]
    BY <1>4 DEF PvRemove
  <2>2. \A g \in vgs : PvsOf(g)' = PvsOf(g)
    BY <2>1, VgAssumption DEF TypeInv, TypeOK, Freed, PvsOf
  <2> QED
    BY <1>4, <2>2 DEF PvRemove
<1>5. CASE Mklabel
  BY <1>5 DEF Mklabel, PvsOf, TypeInv, TypeOK
<1>6. CASE Reboot
  BY <1>6 DEF Reboot, PvsOf, TypeInv, TypeOK
<1> QED
  BY <1>1, <1>2, <1>3, <1>4, <1>5, <1>6
  DEF Next, Begin, SkipUnmounted, CloseMounted, ListVgs, RemovedAll, Fail,
      Rerun, vars

LEMMA MountsShrink ==
  ASSUME TypeInv, [Next]_vars
  PROVE  /\ \A p \in Part : IsMounted(p)' => IsMounted(p)
         /\ AnythingMounted' => AnythingMounted
         /\ AnythingInUse' => AnythingInUse
<1>1. \A p \in Part : IsMounted(p)' => IsMounted(p)
  <2> SUFFICES ASSUME NEW p \in Part, IsMounted(p)' PROVE IsMounted(p)
    OBVIOUS
  <2>1. CASE at'[p] # {}
    BY <2>1, Shrinks DEF IsMounted
  <2>2. CASE \E g \in vgs' : pv'[p] = g /\ lvAt'[g] # Nowhere
    BY <2>2, Shrinks DEF IsMounted, PvsOf
  <2> QED
    BY <2>1, <2>2 DEF IsMounted
<1>2. table \subseteq Part
  BY DEF TypeInv, TypeOK, Part
<1>3. AnythingMounted' => AnythingMounted
  BY <1>1, <1>2, Shrinks DEF AnythingMounted
<1>4. ASSUME NEW g \in vgs', lvAt'[g] # Nowhere,
             \E p \in PvsOf(g)' : OfDisk(p)
      PROVE  AnythingInUse
  BY <1>4, Shrinks DEF AnythingInUse
<1> QED
  BY <1>1, <1>3, <1>4, Shrinks DEF AnythingInUse

LEMMA PassedNext == TypeInv /\ Passed /\ [Next]_vars => Passed'
<1> SUFFICES ASSUME TypeInv, Passed, [Next]_vars PROVE Passed'
  OBVIOUS
<1>1. \A p \in table' : /\ p \in table /\ p \in Own /\ p \in Part
                        /\ IsMounted(p)' => IsMounted(p)
                        /\ MountedTwice(p)' => MountedTwice(p)
  BY Shrinks, MountsShrink DEF TypeInv, TypeOK, Part, MountedTwice
<1>2. CASE Begin
  <2>1. /\ \A p \in table' : ~(p < number')
        /\ \A p \in table' \ multiple' : ~MountedTwice(p)'
        /\ pc' = "unmount"
    BY <1>1, <1>2, Order DEF Begin, machine, MountedTwice
  <2> QED
    BY <2>1 DEF Passed
<1>3. CASE SkipUnmounted
  <2>1. \A p \in Own : p < number' => p < number \/ p = number
    BY <1>3, Order DEF SkipUnmounted
  <2>2. \A p \in table' \ multiple' : ~MountedTwice(p)'
    BY <1>1, <1>3 DEF SkipUnmounted, Passed, history
  <2>3. \A p \in table' \ multiple' : p < number' => ~IsMounted(p)'
    BY <1>1, <1>3, <2>1 DEF SkipUnmounted, Passed, history
  <2> QED
    BY <1>3, <2>2, <2>3 DEF SkipUnmounted, Passed
<1>4. CASE Umount
  <2>1. \A p \in Own : p < number + 1 => p < number \/ p = number
    BY <1>4, Order DEF Umount, TypeInv, TypeOK
  <2>2. CASE pc' = "umount refused"
    BY <2>2 DEF Passed
  <2>3. CASE /\ \E place \in at[number] : at' = [at EXCEPT ![number] = @ \ {place}]
             /\ number' = number + 1 /\ UNCHANGED pc
    <3>1. PICK place \in at[number] : at' = [at EXCEPT ![number] = @ \ {place}]
      BY <2>3
    <3>2. number \in table /\ number \in Part /\ UNCHANGED <<table, lvm, history>>
      BY <1>4 DEF Umount, TypeInv, TypeOK, Part
    <3>3. ASSUME NEW p \in Own, p = number, p \notin multiple
          PROVE  ~IsMounted(p)'
      <4>1. \A other \in at[number] : other = place
        BY <1>4, <3>1, <3>2, <3>3 DEF Passed, MountedTwice, Umount
      <4>2. at'[p] = {}
        BY <3>1, <3>2, <3>3, <4>1 DEF TypeInv, TypeOK
      <4>3. pv[p] \notin vgs
        BY <3>1, <3>2, <3>3, VgAssumption DEF TypeInv, TypeOK, PlainMounts
      <4> QED
        BY <3>2, <4>2, <4>3 DEF IsMounted, lvm
    <3>4. \A p \in table' \ multiple' : ~MountedTwice(p)'
      BY <1>1, <1>4, <3>2 DEF Umount, Passed, history
    <3>5. \A p \in table' \ multiple' : p < number' => ~IsMounted(p)'
      <4> SUFFICES ASSUME NEW p \in table' \ multiple', p < number', IsMounted(p)'
                   PROVE  FALSE
        OBVIOUS
      <4>1. p \in table \ multiple /\ (p < number \/ p = number)
        BY <1>1, <2>1, <2>3, <3>2 DEF history
      <4>2. CASE p = number
        BY <1>1, <3>3, <4>1, <4>2
      <4>3. CASE p < number
        BY <1>1, <1>4, <4>1, <4>3 DEF Passed, Umount
      <4> QED
        BY <4>1, <4>2, <4>3
    <3> QED
      BY <1>4, <2>3, <3>4, <3>5 DEF Umount, Passed
  <2> QED
    BY <1>4, <2>2, <2>3 DEF Umount
<1>5. CASE ListVgs
  <2>1. \A p \in Own : p < number
    BY <1>5, Order DEF ListVgs, TypeInv, TypeOK
  <2>2. /\ \A p \in table \ multiple : ~MountedTwice(p) /\ ~IsMounted(p)
        /\ UNCHANGED multiple
    BY <1>5, <2>1 DEF ListVgs, Passed, history, TypeInv, TypeOK
  <2> QED
    BY <1>1, <1>5, <2>2 DEF ListVgs, Passed
<1>6. CASE pc' \notin {"unmount", "vgremove", "mklabel"}
  BY <1>6 DEF Passed
<1>7. CASE /\ pc \in {"vgremove", "mklabel"} /\ pc' \in {"vgremove", "mklabel"}
           /\ UNCHANGED multiple
  <2>1. \A p \in table' \ multiple' : ~MountedTwice(p)' /\ ~IsMounted(p)'
    BY <1>1, <1>7 DEF Passed
  <2> QED
    BY <1>7, <2>1 DEF Passed
<1>8. CASE UNCHANGED vars
  BY <1>1, <1>8 DEF Passed, vars, history
<1> QED
  BY <1>2, <1>3, <1>4, <1>5, <1>6, <1>7, <1>8
  DEF Next, CloseMounted, VgRemove, lvm, history, PvRemove, RemovedAll, Mklabel,
      Fail, Rerun, Reboot

LEMMA QuietNext == TypeInv /\ Quiet /\ [Next]_vars => Quiet'
<1> SUFFICES ASSUME TypeInv, Quiet, [Next]_vars PROVE Quiet'
  OBVIOUS
<1>1. CASE Begin
  <2>1. AnythingInUse' <=> AnythingInUse
    BY <1>1, Zenon
    DEF Begin, machine, lvm, AnythingInUse, AnythingMounted, IsMounted, PvsOf
  <2>2. inUse' = AnythingInUse
    BY <1>1 DEF Begin
  <2> QED
    BY <2>1, <2>2, Zenon DEF Quiet
<1>2. CASE /\ UNCHANGED inUse
           /\ pc' \in {"unmount", "vgremove", "mklabel"}
              => pc \in {"unmount", "vgremove", "mklabel"}
  BY <1>2, MountsShrink, Zenon DEF Quiet
<1> QED
  BY <1>1, <1>2
  DEF Next, vars, history, SkipUnmounted, CloseMounted, Umount, ListVgs,
      VgRemove, lvm, PvRemove, RemovedAll, Mklabel, Fail, Rerun, Reboot

(* A refusal of vgremove is for a mounted group of the disk.               *)
LEMMA RefusedNext ==
  ASSUME TypeInv, Quiet, Accounted, RefusedOnlyInUse, [Next]_vars
  PROVE  RefusedOnlyInUse'
<1>1. UNCHANGED prefixed /\ table \subseteq Part
  BY Shrinks DEF TypeInv, TypeOK, Part
<1>2. CASE AnythingInUse /\ pc \in {"unmount", "vgremove", "mklabel"}
           /\ UNCHANGED inUse
  BY <1>2, Zenon DEF Quiet, RefusedOnlyInUse
<1>3. CASE pc' \notin Refused
  BY <1>3 DEF RefusedOnlyInUse
<1>4. CASE CloseMounted \/ Umount
  <2>1. AnythingInUse
    BY <1>4 DEF CloseMounted, Umount, AnythingInUse, AnythingMounted
  <2> QED
    BY <1>2, <1>4, <2>1 DEF CloseMounted, Umount, history
<1>5. CASE VgRemove
  <2>1. PICK g \in listed : Removes(g)
    BY <1>5, VgRemoveCases
  <2>2. UNCHANGED inUse /\ pc = "vgremove"
    BY <1>5 DEF VgRemove, history
  <2>3. CASE {p \in PvsOf(g) \cap shown : OfDisk(p)} # {} /\ lvAt[g] # Nowhere
    <3>1. g \in vgs
      BY <2>1, <2>3 DEF TypeInv, TypeOK
    <3>2. AnythingInUse
      BY <2>3, <3>1 DEF AnythingInUse
    <3> QED
      BY <1>2, <2>2, <3>2
  <2>4. CASE UNCHANGED pc
    BY <1>3, <2>2, <2>4 DEF Refused
  <2> QED
    BY <2>1, <2>3, <2>4 DEF Removes
<1>6. CASE Mklabel
  <2>1. CASE AnythingInUse
    BY <1>2, <1>6, <2>1 DEF Mklabel, history
  <2>2. CASE ~AnythingInUse /\ pc' = "mklabel refused"
    <3>1. PICK p \in table : IsMounted(p) \/ p \in open \/ pv[p] \in vgs
      BY <1>6, <2>2 DEF Mklabel
    <3>2. pv[p] \in vgs
      BY <2>2, <3>1 DEF AnythingInUse, AnythingMounted
    <3>3. ~NoGroupLeft
      BY <3>2 DEF NoGroupLeft, PvsOf, TypeInv, TypeOK, Part
    <3>4. ~(~prefixed \/ sole)
      BY <1>6, <3>3, Zenon DEF Accounted, Mklabel
    <3>5. UNCHANGED sole
      BY <1>6 DEF Mklabel, history
    <3> QED
      BY <1>1, <3>4, <3>5, Zenon DEF RefusedOnlyInUse
  <2>3. CASE pc' # "mklabel refused"
    BY <1>3, <1>6, <2>3 DEF Mklabel, Refused
  <2> QED
    BY <2>1, <2>2, <2>3
<1>7. CASE UNCHANGED vars
  BY <1>7 DEF vars, history, machine, RefusedOnlyInUse
<1>8. Begin \/ SkipUnmounted \/ ListVgs \/ PvRemove \/ RemovedAll \/ Fail
        \/ Rerun \/ Reboot => pc' \notin Refused
  BY DEF Begin, SkipUnmounted, ListVgs, PvRemove, RemovedAll, Fail, Rerun,
         Reboot, Refused
<1> QED
  BY <1>3, <1>4, <1>5, <1>6, <1>7, <1>8 DEF Next

(* Reports that keep all their rows, or of which only one row is needed.   *)
LEMMA Listing ==
  ASSUME TypeInv, ListVgs, ~prefixed \/ OneGroup
  PROVE  AllListed'
<1> DEFINE pvs == {p \in Part : pv[p] # "no pv"}
<1>1. /\ listed' \in Intact(vgs, prefixed) /\ shown' \in Intact(pvs, prefixed)
      /\ UNCHANGED <<pv, vgs>>
  BY DEF ListVgs, lvm
<1>0. /\ shown' \subseteq pvs
      /\ pvs # {} => shown' # {}
      /\ ~prefixed => listed' = vgs /\ shown' = pvs
      /\ \A row \in vgs : vgs \subseteq {row} => listed' = vgs
  <2> HIDE DEF pvs
  <2>1. /\ shown' \subseteq pvs /\ (pvs # {} => shown' # {})
        /\ ~prefixed => shown' = pvs
    BY <1>1, Reported
  <2>2. /\ ~prefixed => listed' = vgs
        /\ \A row \in vgs : vgs \subseteq {row} => listed' = vgs
    BY <1>1, Reported
  <2> QED
    BY <2>1, <2>2
<1> SUFFICES ASSUME NEW g \in vgs, NEW p \in PvsOf(g) \cap Own
             PROVE  g \in listed' /\ \E q \in PvsOf(g) \cap shown' : OfDisk(q)
  BY <1>1 DEF AllListed, PvsOf
<1>2. g \in Vg /\ g # "no pv" /\ p \in pvs /\ pv[p] = g
  BY VgAssumption DEF PvsOf, TypeInv, TypeOK
<1>3. CASE ~prefixed
  <2>1. listed' = vgs /\ shown' = pvs
    BY <1>0, <1>3
  <2> QED
    BY <1>2, <2>1 DEF OfDisk, PvsOf
<1>4. CASE OneGroup
  <2>1. PICK h \in Vg : \A q \in Part : pv[q] # "no pv" => pv[q] = h /\ q \in Own
    BY <1>4 DEF OneGroup
  <2>2. h = g
    BY <1>2, <2>1 DEF PvsOf
  <2>3. vgs \subseteq {g}
    <3> SUFFICES ASSUME NEW k \in vgs PROVE k = g
      OBVIOUS
    <3>1. PICK q \in Part : pv[q] = k
      BY DEF TypeInv, TypeOK, PvsOf
    <3>2. k # "no pv"
      BY VgAssumption DEF TypeInv, TypeOK
    <3> QED
      BY <2>1, <2>2, <3>1, <3>2
  <2>4. listed' = vgs
    BY <1>0, <2>3
  <2>5. PICK q \in shown' : q \in pvs
    BY <1>0, <1>2
  <2> QED
    BY <2>1, <2>2, <2>4, <2>5 DEF OfDisk, PvsOf
<1> QED
  BY <1>3, <1>4

LEMMA AccountedNext == TypeInv /\ Accounted /\ [Next]_vars => Accounted'
<1> SUFFICES ASSUME TypeInv, Accounted, [Next]_vars, ~prefixed' \/ sole'
             PROVE  /\ pc' = "unmount" /\ sole' => OneGroup'
                    /\ pc' = "vgremove" => AllListed'
                    /\ pc' \in {"mklabel", "done"} => NoGroupLeft'
  BY DEF Accounted
<1>1. vgs' \subseteq vgs /\ UNCHANGED prefixed /\ \A g \in vgs' : PvsOf(g)' = PvsOf(g)
  BY Shrinks
<1>2. CASE pc' \notin {"unmount", "vgremove", "mklabel", "done"}
  BY <1>2
<1>3. CASE Begin
  <2>1. pc' = "unmount" /\ sole' = OneGroup /\ UNCHANGED pv
    BY <1>3 DEF Begin, lvm
  <2>2. OneGroup' <=> OneGroup
    BY <2>1, Zenon DEF OneGroup
  <2> QED
    BY <2>1, <2>2, Zenon
<1>4. CASE UNCHANGED <<sole, pv, pc>> /\ pc = "unmount"
  <2>1. OneGroup' <=> OneGroup
    BY <1>4, Zenon DEF OneGroup
  <2> QED
    BY <1>1, <1>4, <2>1, Zenon DEF Accounted
<1>5. CASE ListVgs
  <2>1. pc = "unmount" /\ pc' = "vgremove" /\ UNCHANGED sole
    BY <1>5 DEF ListVgs, history
  <2>2. ~prefixed \/ OneGroup
    BY <1>1, <2>1, Zenon DEF Accounted
  <2> QED
    BY <1>5, <2>1, <2>2, Listing
<1>6. CASE pc = "vgremove" /\ pc' = "vgremove" /\ UNCHANGED sole
  <2>1. AllListed
    BY <1>1, <1>6, Zenon DEF Accounted
  <2>2. CASE VgRemove
    <3>1. PICK g \in listed : Removes(g)
      BY <2>2, VgRemoveCases
    <3>2. \/ g \notin vgs'
          \/ {p \in PvsOf(g) \cap shown : OfDisk(p)} = {}
      BY <1>6, <3>1 DEF Removes
    <3> QED
      BY <1>1, <1>6, <2>1, <3>1, <3>2 DEF AllListed, Removes
  <2>3. CASE UNCHANGED lists
    BY <1>1, <1>6, <2>1, <2>3 DEF AllListed, lists
  <2> QED
    BY <1>6, <2>2, <2>3
    DEF Next, Begin, SkipUnmounted, CloseMounted, Umount, ListVgs, PvRemove,
        RemovedAll, Mklabel, Fail, Rerun, Reboot, vars
<1>7. CASE RemovedAll
  <2>1. pc = "vgremove" /\ pc' = "mklabel" /\ listed = {} /\ UNCHANGED sole
    BY <1>7 DEF RemovedAll, history
  <2>2. AllListed
    BY <1>1, <2>1, Zenon DEF Accounted
  <2> QED
    BY <1>1, <2>1, <2>2 DEF AllListed, NoGroupLeft
<1>8. CASE Mklabel \/ UNCHANGED vars
  <2>1. CASE pc \in {"mklabel", "done"} /\ pc' \in {"mklabel", "done"}
             /\ UNCHANGED sole
    <3>1. NoGroupLeft
      BY <1>1, <2>1, Zenon DEF Accounted
    <3> QED
      BY <1>1, <2>1, <3>1 DEF NoGroupLeft
  <2> QED
    BY <1>2, <1>4, <1>6, <1>8, <2>1 DEF Mklabel, vars, history, lvm
<1> QED
  BY <1>2, <1>3, <1>4, <1>5, <1>6, <1>7, <1>8
  DEF Next, SkipUnmounted, CloseMounted, Umount, VgRemove, PvRemove, Fail,
      Rerun, Reboot, Refused, lvm, history

-----------------------------------------------------------------------------
LEMMA IInvNext == IInv /\ [Next]_vars => IInv'
BY TypeNext, PassedNext, QuietNext, AccountedNext, RefusedNext DEF IInv

LEMMA IInvAlways == Spec => []IInv
<1>1. Init => IInv
  BY InitInv
<1>2. IInv /\ [Next]_vars => IInv'
  BY IInvNext
<1> QED
  BY <1>1, <1>2, PTL DEF Spec

(* Every variable keeps its type, and a group exists while it has physical *)
(* volumes (disk.go:150-191).                                              *)
THEOREM TypeCorrect == Spec => []TypeOK
<1>1. IInv => TypeOK
  BY DEF IInv, TypeInv
<1> QED
  BY <1>1, IInvAlways, PTL

(* parted writes the table of a disk none of whose partitions is mounted,  *)
(* but for those that were mounted more than once when label was called    *)
(* (disk.go:153-158, 185).                                                 *)
THEOREM Unmounted == Spec => []SinglesUnmounted
<1>1. IInv => SinglesUnmounted
  BY DEF IInv, Passed, SinglesUnmounted
<1> QED
  BY <1>1, IInvAlways, PTL

(* When LVM's reports come without blanks, or the machine's physical       *)
(* volumes are all of one group of this disk, a new table leaves no group  *)
(* behind that had a physical volume on the disk (disk.go:160-183).        *)
THEOREM NoneTorn == Spec => []NoGroupTorn
<1>1. IInv => NoGroupTorn
  BY Zenon DEF IInv, Accounted, NoGroupTorn
<1> QED
  BY <1>1, IInvAlways, PTL

(* A refusal is for something that was in use when label was called, or    *)
(* for a group that the reports lost (disk.go:150-191).                    *)
THEOREM RefusedForUse == Spec => []RefusedOnlyInUse
<1>1. IInv => RefusedOnlyInUse
  BY DEF IInv
<1> QED
  BY <1>1, IInvAlways, PTL
==============================================================================
