---------------------------- MODULE InstallProofs ----------------------------
(***************************************************************************)
(* Theorems about Install, for any partitions, mountpoints and images, and *)
(* any number of runs.                                                     *)
(*                                                                         *)
(* None of the properties is inductive.  What a run that reports success   *)
(* promises follows from what each of its steps has achieved so far; what  *)
(* a failed run leaves for the next one are some binds, perhaps a cover of *)
(* /var/tmp, and a root of which only the digest is relied upon.           *)
(***************************************************************************)
EXTENDS Install, SequenceFacts, TLAPS

OciSteps  == {"mkdir", "bindtmp", "pull", "rsync", "umounttmp", "cleantmp", "digest"}
AfterCopy == {"crypttab", "fstab", "pre", "bind", "initramfs", "unbind", "post", "done"}

Dirs     == {"dev", "pts", "proc", "sys"}
Contents == Images \cup {"empty", "mixed", "squashfs"}
Roots == [content : Contents, fstab : SUBSET Entries, crypttab : SUBSET Parts,
          initrd : Initrds \cup {NoInitrd}, digest : Images \cup {"none"},
          tmp : {"absent", "empty", "files"}]

(* TypeOK, variable by variable.                                           *)
Types ==
  /\ method \in {"unsquashfs", "oci"} /\ luks \subseteq Parts /\ remote \in Images
  /\ root \in Roots
  /\ binds \in Seq(Dirs) /\ tmpBound \in 0..MaxRuns
  /\ found \in [binds : Seq(Dirs), tmpBound : 0..MaxRuns]
  /\ ramUsed \in BOOLEAN /\ runs \in 0..MaxRuns
  /\ pc \in {"idle", "unsquashfs", "mkdir", "bindtmp", "pull", "rsync", "umounttmp",
             "cleantmp", "digest", "crypttab", "fstab", "pre", "bind", "initramfs",
             "unbind", "post", "done", "failed"}
  /\ at \in 1..5
  /\ manifest \in Images \cup {"none"} /\ manifestDigest \in Images \cup {"none"}

(* A cover of /var/tmp that a failed run leaves is one for each run.       *)
TypeInv ==
  /\ Types
  /\ pc \in {"bind", "unbind", "pull"} => at \in 1..4
  /\ tmpBound <= runs
  /\ pc \in {"mkdir", "bindtmp"} => tmpBound < runs

(* What the copy has achieved.                                             *)
Copying ==
  /\ pc \in OciSteps => method = "oci"
  /\ pc = "unsquashfs" => method = "unsquashfs"
  /\ method = "unsquashfs" => root.tmp # "files" /\ root.digest = "none"
  /\ root.tmp = "absent" => root.digest = "none"
  /\ pc \in OciSteps \ {"mkdir"} => root.digest = "none"
  /\ pc \in {"rsync", "umounttmp", "cleantmp", "digest"} =>
       manifest \in Images /\ manifestDigest = manifest
  /\ pc \in {"umounttmp", "cleantmp", "digest"} => root.content = manifest
  /\ pc \in AfterCopy \cup {"digest"} => root.tmp = "empty"
  /\ pc \in AfterCopy => root.content \in Images \cup {"squashfs"}

(* What GenCrypttab, GenFstab and update-initramfs have.                   *)
Crypttabbed == CrypttabEntries # {} => root.crypttab = CrypttabEntries
Fstabbed    == root.fstab = Upto(Len(Mounts))
Initramfsed == root.initrd = [content |-> root.content, fstab |-> root.fstab,
                              crypttab |-> root.crypttab]

Tabled ==
  /\ pc \in AfterCopy \ {"crypttab"} => Crypttabbed
  /\ pc \in AfterCopy \ {"crypttab", "fstab"} => Fstabbed
  /\ pc \in {"unbind", "post", "done"} => Initramfsed

(* The mounts of the run on top of those it found: its own cover of        *)
(* /var/tmp, and by the step the binds that UpdateInitramfs has yet made,  *)
(* or not yet undone.                                                      *)
Covering == pc \in {"pull", "rsync", "umounttmp"}

Binding1to4   == << <<>>, <<"dev">>, <<"dev", "pts">>, <<"dev", "pts", "proc">> >>
Unbinding1to4 == << MountOrder, <<"dev", "proc", "sys">>, <<"proc", "sys">>, <<"sys">> >>

Own == CASE pc = "bind"      -> Binding1to4[at]
         [] pc = "initramfs" -> MountOrder
         [] pc = "unbind"    -> Unbinding1to4[at]
         [] OTHER            -> <<>>

Stacked ==
  pc \notin {"idle", "failed"} =>
    /\ tmpBound = found.tmpBound + (IF Covering THEN 1 ELSE 0)
    /\ binds = found.binds \o Own

IInv == TypeInv /\ Copying /\ DigestNamesRoot /\ ~ramUsed /\ Tabled /\ Stacked
-----------------------------------------------------------------------------
(* The stack of binds: what is on top of it, and taking one of its top off. *)
LEMMA TypeOfDirs == ToSet(MountOrder) = Dirs
BY DEF ToSet, MountOrder, Dirs

LEMMA TopBind ==
  ASSUME NEW S, NEW f \in Seq(S), NEW t \in Seq(S), binds = f \o t,
         NEW i \in 1..Len(t), \A j \in 1..Len(t) : j > i => t[j] # t[i],
         NEW d, d = t[i]
  PROVE  LastOf(d) = {Len(f) + i}
<1>1. /\ binds \in Seq(S) /\ Len(binds) = Len(f) + Len(t)
      /\ \A k \in 1..Len(f) + Len(t) :
           binds[k] = IF k <= Len(f) THEN f[k] ELSE t[k - Len(f)]
  BY ConcatProperties
<1>2. DOMAIN binds = 1..Len(f) + Len(t) /\ Len(f) \in Nat /\ Len(t) \in Nat
  BY <1>1
<1>3. Len(f) + i \in DOMAIN binds /\ binds[Len(f) + i] = t[i]
  BY <1>1, <1>2
<1>4. \A k \in DOMAIN binds : k > Len(f) + i => binds[k] # t[i]
  <2> SUFFICES ASSUME NEW k \in DOMAIN binds, k > Len(f) + i
               PROVE  binds[k] # t[i]
    OBVIOUS
  <2>1. k - Len(f) \in 1..Len(t) /\ k - Len(f) > i /\ ~(k <= Len(f))
    BY <1>2
  <2> QED
    BY <1>1, <1>2, <2>1
<1> QED
  <2>1. ASSUME NEW k \in LastOf(d) PROVE k = Len(f) + i
    <3>1. /\ k \in DOMAIN binds /\ binds[k] = t[i]
          /\ \A j \in DOMAIN binds : j > k => binds[j] # t[i]
      BY DEF LastOf
    <3>2. ~(k > Len(f) + i) /\ ~(Len(f) + i > k)
      BY <1>3, <1>4, <3>1
    <3> QED
      <4>1. k \in Int /\ Len(f) + i \in Int
        BY <1>2, <3>1
      <4> QED
        BY <3>2, <4>1
  <2>2. Len(f) + i \in LastOf(d)
    BY <1>3, <1>4 DEF LastOf
  <2> QED
    BY <2>1, <2>2

LEMMA NoTopBind ==
  ASSUME NEW S, NEW f \in Seq(S), NEW t \in Seq(S), binds = f \o t,
         NEW d, \A j \in 1..Len(t) : t[j] # d
  PROVE  LastOf(d) \subseteq 1..Len(f)
<1>1. /\ binds \in Seq(S) /\ Len(binds) = Len(f) + Len(t)
      /\ \A k \in 1..Len(f) + Len(t) :
           binds[k] = IF k <= Len(f) THEN f[k] ELSE t[k - Len(f)]
  BY ConcatProperties
<1>2. DOMAIN binds = 1..Len(f) + Len(t) /\ Len(f) \in Nat /\ Len(t) \in Nat
  BY <1>1
<1> SUFFICES ASSUME NEW k \in DOMAIN binds, binds[k] = d PROVE k <= Len(f)
  BY <1>2 DEF LastOf
<1>3. ~(k <= Len(f)) => k - Len(f) \in 1..Len(t) /\ binds[k] = t[k - Len(f)]
  BY <1>1, <1>2
<1> QED
  BY <1>3

LEMMA RemoveTop ==
  ASSUME NEW S, NEW f \in Seq(S), NEW t \in Seq(S), NEW i \in 1..Len(t)
  PROVE  /\ RemoveAt(f \o t, Len(f) + i) = f \o RemoveAt(t, i)
         /\ RemoveAt(t, i) \in Seq(S)
         /\ Len(RemoveAt(t, i)) = Len(t) - 1
         /\ \A k \in 1..Len(t) - 1 :
              RemoveAt(t, i)[k] = t[IF k < i THEN k ELSE k + 1]
<1> DEFINE b == f \o t
           n == Len(f)
           m == Len(t)
<1>1. /\ b \in Seq(S) /\ Len(b) = n + m
      /\ \A k \in 1..n + m : b[k] = IF k <= n THEN f[k] ELSE t[k - n]
  BY ConcatProperties
<1>2. n \in Nat /\ m \in Nat /\ i \in Nat /\ i >= 1 /\ i <= m
  OBVIOUS
<1>3. /\ RemoveAt(t, i) \in Seq(S) /\ Len(RemoveAt(t, i)) = m - 1
      /\ \A k \in 1..m - 1 : RemoveAt(t, i)[k] = t[IF k < i THEN k ELSE k + 1]
  BY RemoveAtProperties
<1>4. n + i \in 1..Len(b)
  BY <1>1, <1>2
<1> HIDE DEF b
<1>5. /\ RemoveAt(b, n + i) \in Seq(S)
      /\ Len(RemoveAt(b, n + i)) = n + m - 1
      /\ \A k \in 1..n + m - 1 :
           RemoveAt(b, n + i)[k] = b[IF k < n + i THEN k ELSE k + 1]
  <2>1. /\ RemoveAt(b, n + i) \in Seq(S)
        /\ Len(RemoveAt(b, n + i)) = Len(b) - 1
        /\ \A k \in 1..Len(b) - 1 :
             RemoveAt(b, n + i)[k] = b[IF k < n + i THEN k ELSE k + 1]
    BY <1>1, <1>4, RemoveAtProperties
  <2> QED
    BY <1>1, <2>1
<1>6. /\ f \o RemoveAt(t, i) \in Seq(S)
      /\ Len(f \o RemoveAt(t, i)) = n + (m - 1)
      /\ \A k \in 1..n + (m - 1) :
           (f \o RemoveAt(t, i))[k] = IF k <= n THEN f[k] ELSE RemoveAt(t, i)[k - n]
  <2> DEFINE u == RemoveAt(t, i)
  <2>1. u \in Seq(S) /\ Len(u) = m - 1
    BY <1>3
  <2> HIDE DEF u
  <2>2. /\ f \o u \in Seq(S) /\ Len(f \o u) = Len(f) + Len(u)
        /\ \A k \in 1..Len(f) + Len(u) :
             (f \o u)[k] = IF k <= Len(f) THEN f[k] ELSE u[k - Len(f)]
    BY <2>1, ConcatProperties
  <2> QED
    BY <2>1, <2>2 DEF u
<1>7. ASSUME NEW k \in 1..n + m - 1
      PROVE  RemoveAt(b, n + i)[k] = (f \o RemoveAt(t, i))[k]
  <2> HIDE DEF n, m
  <2>1. CASE k <= n
    <3>1. k < n + i /\ k \in 1..n + m /\ k \in 1..n + (m - 1)
      BY <1>2, <2>1
    <3> QED
      BY <1>1, <1>5, <1>6, <2>1, <3>1
  <2>2. CASE ~(k <= n) /\ k < n + i
    <3>1. k - n \in 1..m - 1 /\ k - n < i /\ k \in 1..n + m /\ k \in 1..n + (m - 1)
      BY <1>2, <2>2
    <3>2. RemoveAt(b, n + i)[k] = t[k - n]
      BY <1>1, <1>5, <2>2, <3>1
    <3>3. (f \o RemoveAt(t, i))[k] = t[k - n]
      BY <1>3, <1>6, <2>2, <3>1
    <3> QED
      BY <3>2, <3>3
  <2>3. CASE ~(k < n + i)
    <3>1. /\ ~(k <= n) /\ ~(k + 1 <= n) /\ k - n \in 1..m - 1 /\ ~(k - n < i)
          /\ k + 1 \in 1..n + m /\ k \in 1..n + (m - 1) /\ (k + 1) - n = (k - n) + 1
      BY <1>2, <2>3
    <3>2. RemoveAt(b, n + i)[k] = t[(k - n) + 1]
      BY <1>1, <1>5, <2>3, <3>1
    <3>3. (f \o RemoveAt(t, i))[k] = t[(k - n) + 1]
      BY <1>3, <1>6, <2>3, <3>1
    <3> QED
      BY <3>2, <3>3
  <2> QED
    BY <1>2, <2>1, <2>2, <2>3
<1>8. RemoveAt(b, n + i) = f \o RemoveAt(t, i)
  <2>1. n + m - 1 = n + (m - 1)
    BY <1>2
  <2> QED
    BY <1>5, <1>6, <1>7, <2>1, SeqEqual
<1> QED
  BY <1>3, <1>8 DEF b
-----------------------------------------------------------------------------
(* The stack at each step of UpdateInitramfs.                              *)
LEMMA Tops ==
  /\ \A k \in 1..4 : Binding1to4[k] \in Seq(Dirs) /\ Unbinding1to4[k] \in Seq(Dirs)
  /\ MountOrder \in Seq(Dirs) /\ <<>> \in Seq(Dirs)
<1>1. \A x, y, z, w \in Dirs : /\ <<x>> \in Seq(Dirs) /\ <<x, y>> \in Seq(Dirs)
                               /\ <<x, y, z>> \in Seq(Dirs) /\ <<x, y, z, w>> \in Seq(Dirs)
  OBVIOUS
<1>2. {"dev", "pts", "proc", "sys"} \subseteq Dirs /\ <<>> \in Seq(Dirs)
  BY DEF Dirs
<1>3. \A k \in 1..4 : k = 1 \/ k = 2 \/ k = 3 \/ k = 4
  OBVIOUS
<1> QED
  BY <1>1, <1>2, <1>3 DEF Binding1to4, Unbinding1to4, MountOrder

(* A bind is put on top of those made so far.                              *)
LEMMA BindStep ==
  ASSUME NEW k \in 1..4, NEW f \in Seq(Dirs)
  PROVE  Append(f \o Binding1to4[k], MountOrder[k])
           = f \o (IF k < 4 THEN Binding1to4[k + 1] ELSE MountOrder)
<1> DEFINE t == Binding1to4[k]
           u == IF k < 4 THEN Binding1to4[k + 1] ELSE MountOrder
<1>0. k = 1 \/ k = 2 \/ k = 3 \/ k = 4
  OBVIOUS
<1>1. t \in Seq(Dirs) /\ u \in Seq(Dirs) /\ MountOrder[k] \in Dirs
  <2>1. \A i \in 1..4 : MountOrder[i] \in Dirs
    BY Tops, TypeOfDirs DEF MountOrder, ToSet
  <2>2. k < 4 => k + 1 \in 1..4
    OBVIOUS
  <2> QED
    BY <2>1, <2>2, Tops
<1>2. Append(t, MountOrder[k]) = u
  <2>1. Len(t) = k - 1 /\ Len(u) = k
    <3>1. CASE k = 1
      BY <3>1 DEF Binding1to4, MountOrder
    <3>2. CASE k = 2
      BY <3>2 DEF Binding1to4, MountOrder
    <3>3. CASE k = 3
      BY <3>3 DEF Binding1to4, MountOrder
    <3>4. CASE k = 4
      BY <3>4 DEF Binding1to4, MountOrder
    <3> QED
      BY <1>0, <3>1, <3>2, <3>3, <3>4
  <2>2. /\ \A i \in 1..(k - 1) : t[i] = MountOrder[i]
        /\ \A i \in 1..k : u[i] = MountOrder[i]
    <3>1. CASE k = 1
      BY <3>1 DEF Binding1to4, MountOrder
    <3>2. CASE k = 2
      BY <3>2 DEF Binding1to4, MountOrder
    <3>3. CASE k = 3
      BY <3>3 DEF Binding1to4, MountOrder
    <3>4. CASE k = 4
      BY <3>4 DEF Binding1to4, MountOrder
    <3> QED
      BY <1>0, <3>1, <3>2, <3>3, <3>4
  <2> HIDE DEF t, u
  <2>3. /\ Append(t, MountOrder[k]) \in Seq(Dirs)
        /\ Len(Append(t, MountOrder[k])) = k
        /\ \A i \in 1..(k - 1) : Append(t, MountOrder[k])[i] = MountOrder[i]
        /\ Append(t, MountOrder[k])[k] = MountOrder[k]
    BY <1>1, <2>1, <2>2, AppendProperties
  <2>4. \A i \in 1..k : i \in 1..(k - 1) \/ i = k
    OBVIOUS
  <2> QED
    BY <1>1, <2>1, <2>2, <2>3, <2>4, SeqEqual
<1> HIDE DEF t, u
<1>3. Append(f \o t, MountOrder[k]) = f \o Append(t, MountOrder[k])
  <2>1. /\ f \o t \in Seq(Dirs) /\ <<MountOrder[k]>> \in Seq(Dirs)
        /\ Append(f \o t, MountOrder[k]) = (f \o t) \o <<MountOrder[k]>>
        /\ Append(t, MountOrder[k]) = t \o <<MountOrder[k]>>
    BY <1>1, AppendIsConcat
  <2> QED
    BY <1>1, <2>1, ConcatAssociative
<1> QED
  BY <1>2, <1>3 DEF t, u

(* What UpdateInitramfs unmounts is the last bind of its path, and nothing *)
(* on it is in the way.                                                    *)
LEMMA UnbindStep ==
  ASSUME NEW k \in 1..4, NEW f \in Seq(Dirs), binds = f \o Unbinding1to4[k]
  PROVE  /\ Umountable(UnmountOrder[k]) # {}
         /\ \A i \in Umountable(UnmountOrder[k]) :
              RemoveAt(binds, i) = f \o (IF k < 4 THEN Unbinding1to4[k + 1] ELSE <<>>)
<1> DEFINE t == Unbinding1to4[k]
           u == IF k < 4 THEN Unbinding1to4[k + 1] ELSE <<>>
           top == IF k = 1 THEN 2 ELSE 1
<1>0. k = 1 \/ k = 2 \/ k = 3 \/ k = 4
  OBVIOUS
<1>1. t \in Seq(Dirs) /\ u \in Seq(Dirs)
  <2>1. k < 4 => k + 1 \in 1..4
    OBVIOUS
  <2> QED
    BY <2>1, Tops
<1>2. Len(t) = 5 - k /\ Len(u) = 4 - k
  <2>1. CASE k = 1
    BY <2>1 DEF Unbinding1to4, MountOrder
  <2>2. CASE k = 2
    BY <2>2 DEF Unbinding1to4, MountOrder
  <2>3. CASE k = 3
    BY <2>3 DEF Unbinding1to4, MountOrder
  <2>4. CASE k = 4
    BY <2>4 DEF Unbinding1to4, MountOrder
  <2> QED
    BY <1>0, <2>1, <2>2, <2>3, <2>4
<1>3. /\ t[top] = UnmountOrder[k]
      /\ \A j \in 1..5 - k : j > top => t[j] # t[top]
      /\ \A j \in 1..4 - k : u[j] = t[IF j < top THEN j ELSE j + 1]
      /\ k = 1 => t[1] = "dev" /\ \A j \in 1..5 - k : j > 1 => t[j] # t[1]
      /\ k = 2 => \A j \in 1..5 - k : t[j] # "pts"
  <2>1. CASE k = 1
    BY <2>1 DEF Unbinding1to4, MountOrder, UnmountOrder
  <2>2. CASE k = 2
    BY <2>2 DEF Unbinding1to4, MountOrder, UnmountOrder
  <2>3. CASE k = 3
    BY <2>3 DEF Unbinding1to4, MountOrder, UnmountOrder
  <2>4. CASE k = 4
    BY <2>4 DEF Unbinding1to4, MountOrder, UnmountOrder
  <2> QED
    BY <1>0, <2>1, <2>2, <2>3, <2>4
<1>4. binds = f \o t
  OBVIOUS
<1>5. /\ top \in 1..Len(t) /\ Len(f) \in Nat /\ top \in Nat
      /\ k = 1 => top = 2 /\ 1 \in 1..Len(t)
  BY <1>0, <1>2
<1>6. k = 1 => UnmountOrder[k] = "pts"
  BY DEF UnmountOrder
<1>7. k > 2 => UnmountOrder[k] \notin {"pts", "dev"}
  BY <1>0 DEF UnmountOrder
<1>8. k = 2 => UnmountOrder[k] = "dev"
  BY DEF UnmountOrder
<1> HIDE DEF t, u, top
<1>9. \A i \in 1..Len(t) :
        (\A j \in 1..Len(t) : j > i => t[j] # t[i]) => LastOf(t[i]) = {Len(f) + i}
  BY <1>1, <1>4, TopBind
<1>10. LastOf(UnmountOrder[k]) = {Len(f) + top}
  <2>1. \A j \in 1..Len(t) : j > top => t[j] # t[top]
    BY <1>2, <1>3
  <2> QED
    BY <1>3, <1>5, <1>9, <2>1
<1>11. Umountable(UnmountOrder[k]) = {Len(f) + top}
  <2>1. CASE k = 1
    <3>1. LastOf("dev") = {Len(f) + 1}
      <4>1. \A j \in 1..Len(t) : j > 1 => t[j] # t[1]
        BY <1>2, <1>3, <2>1
      <4> QED
        BY <1>3, <1>5, <1>9, <2>1, <4>1
    <3>2. LastOf("pts") = {Len(f) + 2} /\ UnmountOrder[k] = "pts"
      BY <1>5, <1>6, <1>10, <2>1
    <3>3. Len(f) + 2 > Len(f) + 1
      BY <1>5
    <3>4. Umountable("pts") = {i \in LastOf("pts") : \A j \in LastOf("dev") : i > j}
      BY DEF Umountable
    <3>5. Umountable("pts") = {Len(f) + 2}
      BY <3>1, <3>2, <3>3, <3>4
    <3> QED
      BY <1>5, <2>1, <3>2, <3>5
  <2>2. CASE k = 2
    <3>1. LastOf("pts") \subseteq 1..Len(f)
      <4>1. \A j \in 1..Len(t) : t[j] # "pts"
        BY <1>2, <1>3, <2>2
      <4> QED
        BY <1>1, <1>4, <4>1, NoTopBind
    <3>2. \A j \in LastOf("pts") : j < Len(f) + top
      BY <1>5, <3>1
    <3> QED
      BY <1>8, <1>10, <2>2, <3>2 DEF Umountable
  <2>3. CASE k > 2
    BY <1>7, <1>10, <2>3 DEF Umountable
  <2> QED
    BY <1>0, <2>1, <2>2, <2>3
<1>12. RemoveAt(binds, Len(f) + top) = f \o u
  <2>1. /\ RemoveAt(binds, Len(f) + top) = f \o RemoveAt(t, top)
        /\ RemoveAt(t, top) \in Seq(Dirs)
        /\ Len(RemoveAt(t, top)) = Len(t) - 1
        /\ \A j \in 1..Len(t) - 1 :
             RemoveAt(t, top)[j] = t[IF j < top THEN j ELSE j + 1]
    <3>1. /\ RemoveAt(f \o t, Len(f) + top) = f \o RemoveAt(t, top)
          /\ RemoveAt(t, top) \in Seq(Dirs)
          /\ Len(RemoveAt(t, top)) = Len(t) - 1
          /\ \A j \in 1..Len(t) - 1 :
               RemoveAt(t, top)[j] = t[IF j < top THEN j ELSE j + 1]
      <4>1. \A i \in 1..Len(t) :
              /\ RemoveAt(f \o t, Len(f) + i) = f \o RemoveAt(t, i)
              /\ RemoveAt(t, i) \in Seq(Dirs)
              /\ Len(RemoveAt(t, i)) = Len(t) - 1
              /\ \A j \in 1..Len(t) - 1 :
                   RemoveAt(t, i)[j] = t[IF j < i THEN j ELSE j + 1]
        BY <1>1, RemoveTop
      <4> QED
        BY <1>5, <4>1
    <3> QED
      BY <1>4, <3>1
  <2>2. (5 - k) - 1 = 4 - k
    OBVIOUS
  <2>3. RemoveAt(t, top) = u
    BY <1>1, <1>2, <1>3, <2>1, <2>2, SeqEqual
  <2> QED
    BY <2>1, <2>3
<1> QED
  BY <1>11, <1>12 DEF u
-----------------------------------------------------------------------------
(* Types of the values that the steps write.                               *)
LEMMA TypeParts == TypeOK <=> Types
<1>1. [binds |-> binds, tmpBound |-> tmpBound] \in Binding
        <=> binds \in Seq(Dirs) /\ tmpBound \in 0..MaxRuns
  BY TypeOfDirs DEF Binding
<1>2. Binding = [binds : Seq(Dirs), tmpBound : 0..MaxRuns]
  BY TypeOfDirs DEF Binding
<1>3. 1..Tries + 1 = 1..5
  BY DEF Tries
<1>4. {manifest, manifestDigest} \subseteq Images \cup {"none"}
        <=> manifest \in Images \cup {"none"} /\ manifestDigest \in Images \cup {"none"}
  OBVIOUS
<1> QED
  BY <1>1, <1>2, <1>3, <1>4, Zenon DEF TypeOK, Types, Roots, Contents

LEMMA TableTypes ==
  /\ \A n \in 0..Len(Mounts) : Upto(n) \in SUBSET Entries
  /\ CrypttabEntries \in SUBSET Parts
<1>1. /\ \A i \in 1..Len(Mounts) : Mounts[i] \in [target : STRING, partition : Parts]
      /\ DOMAIN Mounts = 1..Len(Mounts) /\ Len(Mounts) \in Nat
  BY MountsAssumption, LenProperties, ElementOfSeq
<1>2. \A i \in 1..Len(Mounts) : FstabEntry(Mounts[i]) \in Entries
  BY <1>1 DEF FstabEntry, Entries, Sources
<1>3. \A n \in 0..Len(Mounts) : \A i \in 1..n : i \in 1..Len(Mounts)
  BY <1>1
<1> QED
  BY <1>1, <1>2, <1>3 DEF Upto, CrypttabEntries, ToSet

LEMMA CopiedRoot ==
  ASSUME root \in Roots, NEW c \in Contents, NEW ships
  PROVE  /\ Copied(c, ships) \in Roots
         /\ Copied(c, ships).content = c
         /\ Copied(c, ships).digest = root.digest
         /\ Copied(c, ships).tmp = IF root.tmp = "absent" THEN "empty" ELSE root.tmp
BY DEF Roots, Copied

LEMMA InitInv == Init => IInv
<1> SUFFICES ASSUME Init PROVE IInv
  OBVIOUS
<1>1. root \in Roots
  BY DEF Init, EmptyRoot, Roots, Contents
<1>2. /\ binds \in Seq(Dirs) /\ found.binds = <<>> /\ binds = found.binds \o <<>>
      /\ tmpBound = 0 /\ found.tmpBound = 0
  BY DEF Init
<1>3. TypeInv
  <2>1. found \in [binds : Seq(Dirs), tmpBound : 0..MaxRuns]
    BY Tops, MaxRunsAssumption DEF Init
  <2>2. tmpBound \in 0..MaxRuns /\ runs \in 0..MaxRuns /\ at \in 1..5
    BY MaxRunsAssumption DEF Init
  <2>3. ramUsed \in BOOLEAN
    BY DEF Init
  <2>4. /\ luks \subseteq Parts /\ method \in {"unsquashfs", "oci"} /\ remote \in Images
        /\ pc = "idle" /\ manifest = "none" /\ manifestDigest = "none"
    BY DEF Init
  <2>5. Types
    BY <1>1, <1>2, <2>1, <2>2, <2>3, <2>4 DEF Types
  <2> QED
    BY <2>5 DEF Init, TypeInv
<1>4. Copying /\ DigestNamesRoot /\ Tabled
  BY DEF Init, EmptyRoot, Copying, DigestNamesRoot, Tabled, OciSteps, AfterCopy
<1>5. Stacked /\ ~ramUsed
  BY DEF Init, Stacked
<1> QED
  BY <1>3, <1>4, <1>5 DEF IInv

-----------------------------------------------------------------------------
(* What UpdateInitramfs does to the stack, in terms of the step.           *)
LEMMA UnbindOwn ==
  ASSUME IInv, Unbind
  PROVE  /\ binds' = found.binds \o (IF at < 4 THEN Unbinding1to4[at + 1] ELSE <<>>)
         /\ binds' \in Seq(Dirs)
<1>1. at \in 1..4 /\ found.binds \in Seq(Dirs)
  BY DEF IInv, TypeInv, Types, Unbind
<1>2. binds = found.binds \o Unbinding1to4[at]
  BY DEF IInv, Stacked, Own, Unbind
<1>3. PICK i \in Umountable(UnmountOrder[at]) : binds' = RemoveAt(binds, i)
  BY DEF Unbind
<1>4. binds' = found.binds \o (IF at < 4 THEN Unbinding1to4[at + 1] ELSE <<>>)
  BY <1>1, <1>2, <1>3, UnbindStep
<1>5. (IF at < 4 THEN Unbinding1to4[at + 1] ELSE <<>>) \in Seq(Dirs)
  <2>1. at < 4 => at + 1 \in 1..4
    BY <1>1
  <2> QED
    BY <2>1, Tops
<1> QED
  BY <1>1, <1>4, <1>5, ConcatProperties

LEMMA BindOwn ==
  ASSUME IInv, Bind
  PROVE  /\ binds' = found.binds \o (IF at < 4 THEN Binding1to4[at + 1] ELSE MountOrder)
         /\ binds' \in Seq(Dirs)
<1>1. at \in 1..4 /\ found.binds \in Seq(Dirs)
  BY DEF IInv, TypeInv, Types, Bind
<1>2. binds = found.binds \o Binding1to4[at]
  BY DEF IInv, Stacked, Own, Bind
<1>3. binds' = found.binds \o (IF at < 4 THEN Binding1to4[at + 1] ELSE MountOrder)
  BY <1>1, <1>2, BindStep DEF Bind
<1>4. (IF at < 4 THEN Binding1to4[at + 1] ELSE MountOrder) \in Seq(Dirs)
  <2>1. at < 4 => at + 1 \in 1..4
    BY <1>1
  <2> QED
    BY <2>1, Tops
<1> QED
  BY <1>1, <1>3, <1>4, ConcatProperties

LEMMA TypeNext == IInv /\ [Next]_vars => TypeInv'
<1> SUFFICES ASSUME IInv, [Next]_vars PROVE TypeInv'
  OBVIOUS
<1> USE DEF TypeInv, Types, Settled, RootOnly, Step
<1>0. TypeInv
  BY DEF IInv
<1>1. CASE Begin
  <2>1. runs' \in 0..MaxRuns /\ tmpBound < runs'
    BY <1>0, <1>1, MaxRunsAssumption DEF Begin
  <2>2. found' \in [binds : Seq(Dirs), tmpBound : 0..MaxRuns]
    BY <1>0, <1>1 DEF Begin
  <2> QED
    BY <1>0, <1>1, <2>1, <2>2 DEF Begin
<1>2. CASE Unsquashfs \/ Rsync \/ CopyBroken
  <2>1. manifest \in Contents \cup {"none"} /\ (pc = "rsync" => manifest \in Contents)
        /\ {"squashfs", "mixed"} \subseteq Contents
    BY <1>0 DEF IInv, Contents, Copying, OciSteps
  <2>2. root' \in Roots
    BY <1>0, <1>2, <2>1, CopiedRoot DEF Unsquashfs, Rsync, CopyBroken
  <2> QED
    BY <1>0, <1>2, <2>2 DEF Unsquashfs, Rsync, CopyBroken
<1>3. CASE Mkdir \/ CleanTmp \/ WriteDigest \/ MakeInitramfs
  <2>1. root' \in Roots
    <3>1. CASE MakeInitramfs
      <4>1. root.content \in Images \cup {"squashfs"}
        BY <3>1 DEF IInv, Copying, MakeInitramfs, AfterCopy
      <4> QED
        BY <1>0, <3>1, <4>1 DEF MakeInitramfs, Roots, Initrds
    <3> QED
      BY <1>0, <1>3, <3>1 DEF Mkdir, CleanTmp, WriteDigest, Roots
  <2> QED
    BY <1>0, <1>3, <2>1 DEF Mkdir, CleanTmp, WriteDigest, MakeInitramfs
<1>4. CASE BindTmp \/ UmountTmp
  <2>1. tmpBound' \in 0..MaxRuns /\ tmpBound' <= runs
    BY <1>0, <1>4, MaxRunsAssumption DEF BindTmp, UmountTmp
  <2> QED
    BY <1>0, <1>4, <2>1 DEF BindTmp, UmountTmp
<1>5. CASE Pulled \/ PullBroken
  <2>1. root' \in Roots
    BY <1>0, <1>5 DEF Pulled, PullBroken, PullWrites, Roots
  <2>2. ramUsed' \in BOOLEAN
    BY <1>0, <1>5, Zenon DEF Pulled, PullBroken, PullWrites
  <2>3. at' \in 1..5 /\ (pc' \in {"bind", "unbind", "pull"} => at' \in 1..4)
    BY <1>0, <1>5 DEF Pulled, PullBroken, Tries
  <2> QED
    BY <1>0, <1>5, <2>1, <2>2, <2>3 DEF Pulled, PullBroken
<1>6. CASE Crypttab \/ Fstab \/ TableBroken
  <2>0. Len(Mounts) \in Nat /\ 0..(Len(Mounts) - 1) \subseteq 0..Len(Mounts)
    BY MountsAssumption
  <2>1. \E f \in SUBSET Entries, c \in SUBSET Parts :
          root' \in {[root EXCEPT !.fstab = f], [root EXCEPT !.crypttab = c]}
    <3>1. CASE Crypttab
      <4> DEFINE c == IF CrypttabEntries = {} THEN root.crypttab ELSE CrypttabEntries
      <4>1. c \in SUBSET Parts
        BY <1>0, TableTypes DEF Roots
      <4>2. root' = [root EXCEPT !.crypttab = c]
        BY <3>1 DEF Crypttab
      <4> QED
        BY <4>1, <4>2
    <3>2. CASE Fstab
      <4>1. Upto(Len(Mounts)) \in SUBSET Entries
        BY <2>0, TableTypes
      <4>2. root' = [root EXCEPT !.fstab = Upto(Len(Mounts))]
        BY <3>2 DEF Fstab
      <4> QED
        BY <4>1, <4>2
    <3>3. CASE TableBroken
      <4>1. CASE pc = "fstab"
        <5>1. PICK n \in 0..(Len(Mounts) - 1) : root' = [root EXCEPT !.fstab = Upto(n)]
          BY <3>3, <4>1 DEF TableBroken
        <5> QED
          BY <2>0, <5>1, TableTypes
      <4>2. CASE pc # "fstab"
        <5>1. PICK some \in SUBSET CrypttabEntries :
                root' = [root EXCEPT !.crypttab = some]
          BY <3>3, <4>2 DEF TableBroken
        <5> QED
          BY <5>1, TableTypes
      <4> QED
        BY <4>1, <4>2
    <3> QED
      BY <1>6, <3>1, <3>2, <3>3
  <2>2. root' \in Roots
    BY <1>0, <2>1 DEF Roots
  <2> QED
    BY <1>0, <1>6, <2>2 DEF Crypttab, Fstab, TableBroken
<1>7. CASE Bind \/ Unbind
  <2>1. binds' \in Seq(Dirs)
    BY <1>7, BindOwn, UnbindOwn
  <2>2. at' \in 1..4
    BY <1>0, <1>7 DEF Bind, Unbind, MountOrder, UnmountOrder
  <2> QED
    BY <1>0, <1>7, <2>1, <2>2 DEF Bind, Unbind
<1>8. CASE Reboot
  <2>1. root' \in Roots /\ binds' \in Seq(Dirs)
    BY <1>8, Tops DEF Reboot, EmptyRoot, Roots, Contents
  <2> QED
    BY <1>0, <1>8, <2>1, MaxRunsAssumption DEF Reboot
<1>9. CASE PreScripts \/ PostScripts \/ Fail \/ Rerun
  BY <1>0, <1>9 DEF PreScripts, PostScripts, Scripts, Fail, Rerun
<1>10. CASE MoveTag \/ UNCHANGED vars
  BY <1>0, <1>10 DEF MoveTag, vars, prog
<1> QED
  BY <1>1, <1>2, <1>3, <1>4, <1>5, <1>6, <1>7, <1>8, <1>9, <1>10
  DEF Next, Copy, Tables, Initramfs

-----------------------------------------------------------------------------
(* The copy in one step.                                                   *)
LEMMA CopyingNext == IInv /\ [Next]_vars => Copying' /\ ~ramUsed'
<1> SUFFICES ASSUME IInv, [Next]_vars PROVE Copying' /\ ~ramUsed'
  OBVIOUS
<1> USE DEF Copying, OciSteps, AfterCopy, Settled, RootOnly, Step
<1>0. Copying /\ ~ramUsed /\ root \in Roots /\ method \in {"unsquashfs", "oci"}
  BY DEF IInv, TypeInv, Types
<1>1. CASE Begin
  BY <1>0, <1>1 DEF Begin
<1>2. CASE Unsquashfs \/ Rsync \/ CopyBroken
  <2>1. manifest \in Contents \cup {"none"} /\ (pc = "rsync" => manifest \in Contents)
        /\ {"squashfs", "mixed"} \subseteq Contents
    BY <1>0 DEF IInv, TypeInv, Types, Contents
  <2>2. PICK c \in Contents, ships \in SUBSET {"fstab", "crypttab"} :
          /\ root' = Copied(c, ships)
          /\ pc = "unsquashfs" /\ pc' = "crypttab" => c = "squashfs"
          /\ pc = "rsync" /\ pc' # "failed" => c = manifest
    BY <1>0, <1>2, <2>1 DEF Unsquashfs, Rsync, CopyBroken
  <2>3. /\ root'.content = c /\ root'.digest = root.digest
        /\ root'.tmp = IF root.tmp = "absent" THEN "empty" ELSE root.tmp
    BY <1>0, <2>2, CopiedRoot
  <2>4. pc = "unsquashfs" => root'.tmp = "empty"
    BY <1>0, <2>3 DEF Roots
  <2> QED
    BY <1>0, <1>2, <2>2, <2>3, <2>4 DEF Unsquashfs, Rsync, CopyBroken
<1>3. CASE Mkdir
  BY <1>0, <1>3 DEF Mkdir, Roots
<1>4. CASE BindTmp \/ UmountTmp
  BY <1>0, <1>4 DEF BindTmp, UmountTmp
<1>5. CASE Pulled \/ PullBroken
  <2>1. tmpBound > 0 /\ tmpBound # 0
    BY <1>5 DEF IInv, TypeInv, Types, Stacked, Covering, Pulled, PullBroken
  <2>2. ~ramUsed'
    BY <1>0, <1>5, <2>1, Zenon DEF Pulled, PullBroken, PullWrites
  <2>3. /\ root'.tmp = "files" /\ root'.digest = root.digest
        /\ root'.content = root.content
    BY <1>0, <1>5, <2>1 DEF Pulled, PullBroken, PullWrites, Roots
  <2>4. remote \in Images
    BY DEF IInv, TypeInv, Types
  <2> QED
    BY <1>0, <1>5, <2>2, <2>3, <2>4 DEF Pulled, PullBroken, Tries
<1>6. CASE CleanTmp \/ WriteDigest
  BY <1>0, <1>6 DEF CleanTmp, WriteDigest, Roots
<1>7. CASE Crypttab \/ Fstab \/ TableBroken \/ MakeInitramfs
  <2>1. /\ root'.tmp = root.tmp /\ root'.digest = root.digest
        /\ root'.content = root.content
    BY <1>0, <1>7 DEF Crypttab, Fstab, TableBroken, MakeInitramfs, Roots
  <2> QED
    BY <1>0, <1>7, <2>1 DEF Crypttab, Fstab, TableBroken, MakeInitramfs
<1>8. CASE Bind \/ Unbind
  BY <1>0, <1>8 DEF Bind, Unbind, MountOrder, UnmountOrder
<1>9. CASE Reboot
  BY <1>0, <1>9 DEF Reboot, EmptyRoot
<1>10. CASE PreScripts \/ PostScripts \/ Fail \/ Rerun
  BY <1>0, <1>10 DEF PreScripts, PostScripts, Scripts, Fail, Rerun
<1>11. CASE MoveTag \/ UNCHANGED vars
  BY <1>0, <1>11 DEF MoveTag, vars, prog
<1> QED
  BY <1>1, <1>2, <1>3, <1>4, <1>5, <1>6, <1>7, <1>8, <1>9, <1>10, <1>11
  DEF Next, Copy, Tables, Initramfs

(* The digest in one step: what changes the content does so while there is *)
(* no digest.                                                              *)
LEMMA DigestNext == IInv /\ [Next]_vars => DigestNamesRoot'
<1> SUFFICES ASSUME IInv, [Next]_vars PROVE DigestNamesRoot'
  OBVIOUS
<1> USE DEF DigestNamesRoot, Settled, RootOnly, Step
<1>0. DigestNamesRoot /\ root \in Roots
  BY DEF IInv, TypeInv, Types
<1>1. CASE Unsquashfs \/ Rsync \/ CopyBroken
  <2>1. root.digest = "none"
    BY <1>1 DEF IInv, Copying, OciSteps, Unsquashfs, Rsync, CopyBroken
  <2>2. root'.digest = root.digest
    BY <1>0, <1>1 DEF Unsquashfs, Rsync, CopyBroken, Copied, Roots
  <2> QED
    BY <2>1, <2>2
<1>2. CASE WriteDigest
  BY <1>0, <1>2 DEF WriteDigest, IInv, Copying, Roots
<1>3. CASE Reboot
  BY <1>3 DEF Reboot, EmptyRoot
<1>4. CASE \/ Mkdir \/ Pulled \/ PullBroken \/ CleanTmp \/ Crypttab \/ Fstab
           \/ TableBroken \/ MakeInitramfs
  <2>1. root'.digest = root.digest /\ root'.content = root.content
    BY <1>0, <1>4 DEF Mkdir, Pulled, PullBroken, PullWrites, CleanTmp, Crypttab,
                      Fstab, TableBroken, MakeInitramfs, Roots
  <2> QED
    BY <1>0, <2>1
<1>5. CASE \/ Begin \/ BindTmp \/ UmountTmp \/ PreScripts \/ PostScripts \/ Bind
           \/ Unbind \/ Fail \/ Rerun \/ MoveTag \/ UNCHANGED vars
  <2>1. root' = root
    BY <1>5 DEF Begin, BindTmp, UmountTmp, PreScripts, PostScripts, Scripts, Bind,
                Unbind, Fail, Rerun, MoveTag, vars
  <2> QED
    BY <1>0, <2>1
<1> QED
  BY <1>1, <1>2, <1>3, <1>4, <1>5 DEF Next, Copy, Tables, Initramfs

-----------------------------------------------------------------------------
(* The tables and the initramfs in one step.                               *)
LEMMA TabledNext == IInv /\ [Next]_vars => Tabled'
<1> SUFFICES ASSUME IInv, [Next]_vars PROVE Tabled'
  OBVIOUS
<1> USE DEF Settled, RootOnly, Step
<1>0. Tabled /\ root \in Roots
  BY DEF IInv, TypeInv, Types
<1> DEFINE later == {"fstab", "pre", "bind", "initramfs", "unbind", "post", "done"}
<1>1. pc' \in later => luks' = luks
  BY DEF Next, Copy, Tables, Initramfs, Begin, Unsquashfs, Mkdir, BindTmp, Pulled,
         PullBroken, Rsync, CopyBroken, UmountTmp, CleanTmp, WriteDigest, Crypttab,
         Fstab, TableBroken, PreScripts, Bind, MakeInitramfs, Unbind, PostScripts,
         Scripts, Fail, Rerun, Reboot, MoveTag, vars
<1>2. pc' \in later => /\ CrypttabEntries' = CrypttabEntries
                       /\ Upto(Len(Mounts))' = Upto(Len(Mounts))
  BY <1>1 DEF CrypttabEntries, Upto, FstabEntry, IsLuks
<1>3. CASE pc' \notin later
  BY <1>3 DEF Tabled, AfterCopy
<1>4. CASE pc' \in later /\ Crypttab
  <2>1. root'.crypttab = IF CrypttabEntries = {} THEN root.crypttab ELSE CrypttabEntries
    BY <1>0, <1>4 DEF Crypttab, Roots
  <2> QED
    BY <1>2, <1>4, <2>1 DEF Crypttab, Tabled, Crypttabbed, AfterCopy
<1>5. CASE pc' \in later /\ Fstab
  <2>1. root'.crypttab = root.crypttab /\ root'.fstab = Upto(Len(Mounts))
    BY <1>0, <1>5 DEF Fstab, Roots
  <2> QED
    BY <1>0, <1>2, <1>5, <2>1 DEF Fstab, Tabled, Crypttabbed, Fstabbed, AfterCopy
<1>6. CASE pc' \in later /\ MakeInitramfs
  <2>1. /\ root'.crypttab = root.crypttab /\ root'.fstab = root.fstab
        /\ root'.content = root.content
        /\ root'.initrd = [content |-> root.content, fstab |-> root.fstab,
                           crypttab |-> root.crypttab]
    BY <1>0, <1>6 DEF MakeInitramfs, Roots
  <2> QED
    BY <1>0, <1>2, <1>6, <2>1
    DEF MakeInitramfs, Tabled, Crypttabbed, Fstabbed, Initramfsed, AfterCopy
<1>7. CASE /\ pc' \in later
           /\ \/ PreScripts \/ Bind \/ Unbind \/ PostScripts \/ MoveTag
              \/ UNCHANGED vars
  <2>1. root' = root
    BY <1>7 DEF PreScripts, Bind, Unbind, PostScripts, Scripts, MoveTag, vars
  <2>2. /\ pc' \in AfterCopy \ {"crypttab"} => pc \in AfterCopy \ {"crypttab"}
        /\ pc' \in AfterCopy \ {"crypttab", "fstab"} =>
             pc \in AfterCopy \ {"crypttab", "fstab"}
        /\ pc' \in {"unbind", "post", "done"} => pc \in {"unbind", "post", "done"}
    BY <1>7 DEF PreScripts, Bind, Unbind, PostScripts, Scripts, MoveTag, vars, prog,
                AfterCopy, MountOrder
  <2>3. CrypttabEntries' = CrypttabEntries /\ Upto(Len(Mounts))' = Upto(Len(Mounts))
    BY <1>2, <1>7
  <2> QED
    BY <1>0, <2>1, <2>2, <2>3 DEF Tabled, Crypttabbed, Fstabbed, Initramfsed
<1>8. pc' \notin later \/ Crypttab \/ Fstab \/ MakeInitramfs \/ PreScripts \/ Bind
        \/ Unbind \/ PostScripts \/ MoveTag \/ UNCHANGED vars
  BY DEF Next, Copy, Tables, Initramfs, Begin, Unsquashfs, Mkdir, BindTmp, Pulled,
         PullBroken, Rsync, CopyBroken, UmountTmp, CleanTmp, WriteDigest,
         TableBroken, Fail, Rerun, Reboot
<1> QED
  BY <1>3, <1>4, <1>5, <1>6, <1>7, <1>8

(* The mounts in one step.                                                 *)
LEMMA StackedNext == IInv /\ [Next]_vars => Stacked'
<1> SUFFICES ASSUME IInv, [Next]_vars PROVE Stacked'
  OBVIOUS
<1> USE DEF Settled, RootOnly, Step, Covering, Own, Stacked
<1>0. /\ Stacked /\ binds \in Seq(Dirs) /\ tmpBound \in Nat
      /\ found.binds \in Seq(Dirs) /\ found.tmpBound \in Nat
      /\ at \in 1..5
  BY MaxRunsAssumption DEF IInv, TypeInv, Types
<1>1. CASE Begin
  <2>1. binds = binds \o <<>>
    BY <1>0, ConcatEmptySeq
  <2> QED
    BY <1>0, <1>1, <2>1 DEF Begin
<1>2. CASE Unsquashfs \/ Mkdir \/ Rsync \/ CopyBroken \/ CleanTmp \/ WriteDigest
  <2>1. /\ pc' \in {"crypttab", "bindtmp", "failed", "umounttmp", "digest"}
        /\ pc' = "umounttmp" <=> pc = "rsync" /\ pc' # "failed"
        /\ pc \in {"unsquashfs", "mkdir", "rsync", "cleantmp", "digest"}
        /\ UNCHANGED <<binds, tmpBound, found>>
    BY <1>2 DEF Unsquashfs, Mkdir, Rsync, CopyBroken, CleanTmp, WriteDigest
  <2>2. Own = <<>> /\ Own' = <<>>
    BY <2>1
  <2>3. pc' # "failed" => (Covering' <=> Covering)
    BY <2>1
  <2>4. tmpBound = found.tmpBound + (IF Covering THEN 1 ELSE 0) /\ binds = found.binds \o Own
    BY <1>0, <2>1
  <2> HIDE DEF Own, Covering
  <2> QED
    BY <2>1, <2>2, <2>3, <2>4
<1>3. CASE BindTmp \/ UmountTmp
  <2>1. Own = <<>> /\ Own' = <<>> /\ UNCHANGED <<binds, found>>
    BY <1>3 DEF BindTmp, UmountTmp
  <2>2. tmpBound' = found.tmpBound + (IF Covering' THEN 1 ELSE 0)
    <3>1. CASE BindTmp
      BY <1>0, <3>1 DEF BindTmp
    <3>2. CASE UmountTmp
      BY <1>0, <3>2 DEF UmountTmp
    <3> QED
      BY <1>3, <3>1, <3>2
  <2>3. binds = found.binds \o Own
    BY <1>0, <1>3 DEF BindTmp, UmountTmp
  <2> HIDE DEF Own, Covering
  <2> QED
    BY <2>1, <2>2, <2>3
<1>4. CASE Pulled \/ PullBroken
  <2>1. pc' \in {"rsync", "pull", "failed"} /\ pc = "pull"
        /\ UNCHANGED <<binds, tmpBound, found>>
    BY <1>4 DEF Pulled, PullBroken
  <2> QED
    BY <1>0, <2>1
<1>5. CASE Crypttab \/ Fstab \/ TableBroken
  <2>1. pc' \in {"fstab", "pre", "failed"} /\ pc \in {"crypttab", "fstab"}
        /\ UNCHANGED <<binds, tmpBound, found>>
    BY <1>5 DEF Crypttab, Fstab, TableBroken
  <2> QED
    BY <1>0, <2>1
<1>6. CASE PreScripts
  BY <1>0, <1>6 DEF PreScripts, Scripts, Binding1to4
<1>7. CASE Bind
  <2>1. binds' = found.binds \o (IF at < 4 THEN Binding1to4[at + 1] ELSE MountOrder)
    BY <1>7, BindOwn
  <2> QED
    BY <1>0, <1>7, <2>1 DEF Bind, MountOrder
<1>8. CASE MakeInitramfs
  BY <1>0, <1>8 DEF MakeInitramfs, Unbinding1to4
<1>9. CASE Unbind
  <2>1. binds' = found.binds \o (IF at < 4 THEN Unbinding1to4[at + 1] ELSE <<>>)
    BY <1>9, UnbindOwn
  <2>2. Len(UnmountOrder) = 4
    BY DEF UnmountOrder
  <2> QED
    BY <1>0, <1>9, <2>1, <2>2 DEF Unbind
<1>10. CASE PostScripts \/ Fail \/ Rerun
  BY <1>0, <1>10 DEF PostScripts, Scripts, Fail, Rerun
<1>11. CASE Reboot
  BY <1>11 DEF Reboot
<1>12. CASE MoveTag \/ UNCHANGED vars
  BY <1>0, <1>12 DEF MoveTag, vars, prog
<1> QED
  BY <1>1, <1>2, <1>3, <1>4, <1>5, <1>6, <1>7, <1>8, <1>9, <1>10, <1>11, <1>12
  DEF Next, Copy, Tables, Initramfs

-----------------------------------------------------------------------------
LEMMA IInvNext == IInv /\ [Next]_vars => IInv'
BY TypeNext, CopyingNext, DigestNext, TabledNext, StackedNext DEF IInv

LEMMA IInvAlways == Spec => []IInv
<1>1. Init => IInv
  BY InitInv
<1>2. IInv /\ [Next]_vars => IInv'
  BY IInvNext
<1> QED
  BY <1>1, <1>2, PTL DEF Spec

(* Every variable keeps its type, and what update-initramfs is run over is *)
(* always a whole copy, never one that stopped half-way                    *)
(* (filesystem.go:140-223, recipe.go:1105-1164).                           *)
THEOREM TypeCorrect == Spec => []TypeOK
<1>1. IInv => TypeOK
  BY TypeParts DEF IInv, TypeInv
<1> QED
  BY <1>1, IInvAlways, PTL

(* A system that Install reports as installed has the tables its           *)
(* mountpoints need and an initramfs made from them (recipe.go:1020-1164). *)
THEOREM InstalledBootable == Spec => []Bootable
<1>1. IInv => Bootable
  <2> SUFFICES ASSUME IInv, pc = "done" PROVE Bootable
    BY DEF Bootable
  <2>1. Crypttabbed /\ Fstabbed /\ Initramfsed
    BY DEF IInv, Tabled, AfterCopy
  <2>2. /\ DOMAIN Mounts = 1..Len(Mounts)
        /\ ToSet(Mounts) = {Mounts[i] : i \in 1..Len(Mounts)}
    BY MountsAssumption, LenProperties DEF ToSet
  <2>3. root.fstab = {FstabEntry(Mounts[i]) : i \in 1..Len(Mounts)}
    BY <2>1 DEF Fstabbed, Upto
  <2>4. ASSUME NEW mnt \in ToSet(Mounts)
        PROVE  \E e \in root.fstab :
                 /\ e.target = mnt.target
                 /\ e.source[2] = mnt.partition
                 /\ (e.source[1] = "uuid") <=> ~IsLuks(mnt.partition)
                 /\ e.fstype = "inner"
    <3>1. FstabEntry(mnt) \in root.fstab
      BY <2>2, <2>3
    <3> QED
      BY <3>1 DEF FstabEntry
  <2>5. ASSUME NEW e \in root.fstab, e.source[1] = "mapper"
        PROVE  e.source[2] \in root.crypttab
    <3>1. PICK mnt \in ToSet(Mounts) : e = FstabEntry(mnt)
      BY <2>2, <2>3
    <3>2. IsLuks(mnt.partition) /\ e.source[2] = mnt.partition
      BY <2>5, <3>1 DEF FstabEntry
    <3>3. mnt.partition \in CrypttabEntries
      BY <3>2 DEF CrypttabEntries
    <3> QED
      BY <2>1, <3>2, <3>3 DEF Crypttabbed
  <2> QED
    BY <2>1, <2>4, <2>5 DEF Bootable, Initramfsed
<1> QED
  BY <1>1, IInvAlways, PTL

(* The .oci_digest is that of the image in the root, whatever became of    *)
(* earlier tries and runs and wherever the tag has moved                   *)
(* (filesystem.go:216-223).                                                *)
THEOREM DigestCorrect == Spec => []DigestNamesRoot
<1>1. IInv => DigestNamesRoot
  BY DEF IInv
<1> QED
  BY <1>1, IInvAlways, PTL

(* A run that succeeds undoes its own mounts and no others                 *)
(* (filesystem.go:108-132, 140-214).                                       *)
THEOREM MountsUndone == Spec => []BindsRestored
<1>1. IInv => BindsRestored
  <2> SUFFICES ASSUME IInv, pc = "done" PROVE BindsRestored
    BY DEF BindsRestored
  <2>1. /\ found \in [binds : Seq(Dirs), tmpBound : 0..MaxRuns]
        /\ tmpBound = found.tmpBound /\ binds = found.binds \o <<>>
    BY MaxRunsAssumption DEF IInv, TypeInv, Types, Stacked, Own, Covering
  <2>2. binds = found.binds
    BY <2>1, ConcatEmptySeq
  <2> QED
    BY <2>1, <2>2 DEF BindsRestored
<1> QED
  BY <1>1, IInvAlways, PTL

(* No unmount is refused for a mount of albius's own                       *)
(* (filesystem.go:108-132, 140-214).                                       *)
THEOREM UnmountsPossible == Spec => []NeverBusy
<1>1. IInv => NeverBusy
  <2> SUFFICES ASSUME IInv, pc = "unbind" PROVE Umountable(UnmountOrder[at]) # {}
    BY DEF NeverBusy
  <2>1. /\ at \in 1..4 /\ found.binds \in Seq(Dirs)
        /\ binds = found.binds \o Unbinding1to4[at]
    BY DEF IInv, TypeInv, Types, Stacked, Own
  <2> QED
    BY <2>1, UnbindStep
<1> QED
  BY <1>1, IInvAlways, PTL

(* Podman's temporary files stay out of the installation medium's memory   *)
(* and out of the installed system (filesystem.go:140-214).                *)
THEOREM TempFilesKept == Spec => []TempFilesOnDisk
<1>1. IInv => TempFilesOnDisk
  BY Zenon DEF IInv, Copying, AfterCopy, TempFilesOnDisk
<1> QED
  BY <1>1, IInvAlways, PTL
==============================================================================
