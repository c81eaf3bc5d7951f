---------------------------- MODULE SequenceFacts ----------------------------
(***************************************************************************)
(* Facts about sequences that the proofs of several components need.       *)
(***************************************************************************)
EXTENDS Integers, SequencesExt, SequenceTheorems, FiniteSetTheorems, TLAPS

(* What is left of a sequence without one of its elements.                 *)
LEMMA RemoveAtProperties ==
  ASSUME NEW S, NEW s \in Seq(S), NEW j \in 1..Len(s)
  PROVE  /\ RemoveAt(s, j) \in Seq(S)
         /\ Len(RemoveAt(s, j)) = Len(s) - 1
         /\ \A k \in 1..Len(s) - 1 :
              RemoveAt(s, j)[k] = s[IF k < j THEN k ELSE k + 1]
<1> DEFINE lo == SubSeq(s, 1, j - 1)
           hi == SubSeq(s, j + 1, Len(s))
<1>1. j \in Nat /\ j >= 1 /\ j <= Len(s) /\ Len(s) \in Nat
  OBVIOUS
<1>2. \A k \in 1..Len(s) : s[k] \in S
  OBVIOUS
<1>3. /\ lo \in Seq(S) /\ Len(lo) = j - 1
      /\ \A k \in 1..j - 1 : lo[k] = s[k]
  <2>1. \A k \in 1..(j - 1) : s[k] \in S
    BY <1>1, <1>2
  <2>2. /\ lo \in Seq(S) /\ Len(lo) = IF 1 <= j - 1 THEN (j - 1) - 1 + 1 ELSE 0
        /\ \A k \in 1..(j - 1) - 1 + 1 : lo[k] = s[1 + k - 1]
    BY <1>1, <2>1, SubSeqProperties
  <2> HIDE DEF lo
  <2> QED
    BY <1>1, <2>2
<1>4. /\ hi \in Seq(S) /\ Len(hi) = Len(s) - j
      /\ \A k \in 1..Len(s) - j : hi[k] = s[j + k]
  <2>1. \A k \in (j + 1)..Len(s) : s[k] \in S
    BY <1>1, <1>2
  <2>2. /\ hi \in Seq(S)
        /\ Len(hi) = IF j + 1 <= Len(s) THEN Len(s) - (j + 1) + 1 ELSE 0
        /\ \A k \in 1..Len(s) - (j + 1) + 1 : hi[k] = s[(j + 1) + k - 1]
    BY <1>1, <2>1, SubSeqProperties
  <2> HIDE DEF hi
  <2> QED
    BY <1>1, <2>2
<1>5. RemoveAt(s, j) = lo \o hi
  BY DEF RemoveAt
<1> HIDE DEF lo, hi
<1>6. /\ lo \o hi \in Seq(S) /\ Len(lo \o hi) = (j - 1) + (Len(s) - j)
      /\ \A k \in 1..(j - 1) + (Len(s) - j) :
           (lo \o hi)[k] = IF k <= j - 1 THEN lo[k] ELSE hi[k - (j - 1)]
  <2>1. /\ lo \o hi \in Seq(S) /\ Len(lo \o hi) = Len(lo) + Len(hi)
        /\ \A k \in 1..Len(lo) + Len(hi) :
             (lo \o hi)[k] = IF k <= Len(lo) THEN lo[k] ELSE hi[k - Len(lo)]
    BY <1>3, <1>4, ConcatProperties
  <2> QED
    BY <1>3, <1>4, <2>1
<1>7. ASSUME NEW k \in 1..Len(s) - 1
      PROVE  (lo \o hi)[k] = s[IF k < j THEN k ELSE k + 1]
  <2>1. CASE k < j
    BY <1>1, <1>3, <1>6, <2>1
  <2>2. CASE ~(k < j)
    <3>1. k - (j - 1) \in 1..Len(s) - j /\ j + (k - (j - 1)) = k + 1
      BY <1>1, <2>2
    <3>2. (lo \o hi)[k] = hi[k - (j - 1)]
      BY <1>1, <1>6, <2>2
    <3> QED
      BY <1>4, <2>2, <3>1, <3>2
  <2> QED
    BY <2>1, <2>2
<1> QED
  BY <1>1, <1>5, <1>6, <1>7

(* A sequence over 1..n, as long as that and without repetition, has all   *)
(* of it.                                                                  *)
LEMMA FullSequence ==
  ASSUME NEW n \in Nat, NEW s \in Seq(1..n), n <= Len(s),
         \A j, k \in DOMAIN s : s[j] = s[k] => j = k,
         NEW m \in 1..n
  PROVE  \E k \in DOMAIN s : s[k] = m
<1> SUFFICES ASSUME \A k \in DOMAIN s : s[k] # m PROVE FALSE
  OBVIOUS
<1> DEFINE T == (1..n) \ {m}
<1>1. DOMAIN s = 1..Len(s) /\ Len(s) \in Nat /\ s \in [1..Len(s) -> T]
  BY LenProperties
<1>2. IsFiniteSet(1..Len(s)) /\ Cardinality(1..Len(s)) = Len(s)
  <2>1. IsFiniteSet(1..Len(s))
        /\ Cardinality(1..Len(s)) = IF 1 > Len(s) THEN 0 ELSE Len(s) - 1 + 1
    BY <1>1, FS_Interval
  <2> QED
    BY <1>1, <2>1
<1>3. IsFiniteSet(T) /\ Cardinality(T) = n - 1
  <2>1. IsFiniteSet(1..n) /\ Cardinality(1..n) = IF 1 > n THEN 0 ELSE n - 1 + 1
    BY FS_Interval
  <2>2. IsFiniteSet(T) /\ Cardinality(T) = Cardinality(1..n) - 1
    BY <2>1, FS_RemoveElement
  <2>3. n >= 1
    OBVIOUS
  <2> HIDE DEF T
  <2> QED
    BY <2>1, <2>2, <2>3
<1>4. Cardinality(T) < Cardinality(1..Len(s))
  BY <1>1, <1>2, <1>3
<1>5. \E j, k \in 1..Len(s) : j # k /\ s[j] = s[k]
  <2> HIDE DEF T
  <2> QED
    BY <1>1, <1>2, <1>3, <1>4, FS_PigeonHole
<1> QED
  BY <1>1, <1>5

(* A prefix, element by element.                                           *)
LEMMA PrefixProperties ==
  ASSUME NEW S, NEW s \in Seq(S), NEW t \in Seq(S)
  PROVE  /\ IsPrefix(s, t) <=> /\ Len(s) <= Len(t)
                              /\ \A k \in 1..Len(s) : s[k] = t[k]
         /\ IsStrictPrefix(s, t) <=> IsPrefix(s, t) /\ Len(s) < Len(t)
<1>1. ASSUME Len(s) <= Len(t)
      PROVE  SubSeq(s, 1, Len(s)) = SubSeq(t, 1, Len(s))
               <=> \A k \in 1..Len(s) : s[k] = t[k]
  <2>1. SubSeq(s, 1, Len(s)) = s
    BY SubSeqFull
  <2>2. /\ SubSeq(t, 1, Len(s)) \in Seq(S)
        /\ Len(SubSeq(t, 1, Len(s))) = Len(s)
        /\ \A k \in 1..Len(s) : SubSeq(t, 1, Len(s))[k] = t[k]
    <3>1. \A k \in 1..Len(s) : t[k] \in S
      BY <1>1
    <3>2. /\ SubSeq(t, 1, Len(s)) \in Seq(S)
          /\ Len(SubSeq(t, 1, Len(s))) = IF 1 <= Len(s) THEN Len(s) - 1 + 1 ELSE 0
          /\ \A k \in 1..Len(s) - 1 + 1 : SubSeq(t, 1, Len(s))[k] = t[1 + k - 1]
      BY <3>1, SubSeqProperties
    <3> QED
      BY <3>2
  <2> QED
    BY <2>1, <2>2, SeqEqual
<1>2. IsPrefix(s, t) <=> Len(s) <= Len(t) /\ \A k \in 1..Len(s) : s[k] = t[k]
  BY <1>1 DEF IsPrefix
<1>3. ASSUME IsPrefix(s, t) PROVE s # t <=> Len(s) < Len(t)
  <2>1. Len(s) = Len(t) => s = t
    BY <1>2, <1>3, SeqEqual
  <2>2. Len(s) \in Nat /\ Len(t) \in Nat /\ Len(s) <= Len(t)
    BY <1>2, <1>3
  <2> QED
    BY <2>1, <2>2
<1> QED
  BY <1>2, <1>3 DEF IsStrictPrefix

(* A set of indices that is not empty has a last one.                      *)
LEMMA LastIndex ==
  ASSUME NEW n \in Nat, NEW I \in SUBSET 1..n, I # {}
  PROVE  \E k \in I : \A j \in I : j <= k
<1> DEFINE D == {n - k : k \in I}
<1>1. D \in SUBSET Nat /\ D # {}
  <2>1. \A k \in I : n - k \in Nat
    OBVIOUS
  <2> QED
    BY <2>1
<1>2. PICK d \in D : \A e \in D : ~(e < d)
  <2>1. IsWellFoundedOn(OpToRel(<, Nat), Nat)
    BY NatLessThanWellFounded
  <2> HIDE DEF D
  <2>2. PICK d \in D : \A e \in D : <<e, d>> \notin OpToRel(<, Nat)
    BY <1>1, <2>1, WFMin
  <2> QED
    BY <1>1, <2>2 DEF OpToRel
<1>3. PICK k \in I : d = n - k
  OBVIOUS
<1>4. \A j \in I : j <= k
  <2> SUFFICES ASSUME NEW j \in I PROVE j <= k
    OBVIOUS
  <2>1. n - j \in D /\ ~(n - j < n - k)
    BY <1>2, <1>3
  <2> QED
    BY <2>1
<1> QED
  BY <1>4

(* Induction over the indices below n, for a set.                          *)
LEMMA EachIndex ==
  ASSUME NEW n \in Nat, NEW I, \A k \in 1..n : (\A j \in 1..k - 1 : j \in I) => k \in I
  PROVE  \A k \in 1..n : k \in I
<1> DEFINE D == {j \in 1..n : n + 1 - j \notin I}
<1>1. SUFFICES ASSUME NEW k \in 1..n, k \notin I PROVE FALSE
  OBVIOUS
<1>2. n + 1 - k \in 1..n /\ n + 1 - (n + 1 - k) = k
  OBVIOUS
<1>3. D \in SUBSET 1..n /\ D # {}
  BY <1>1, <1>2
<1> HIDE DEF D
<1>4. PICK m \in D : \A j \in D : j <= m
  BY <1>3, LastIndex
<1> USE DEF D
<1>5. n + 1 - m \in 1..n /\ n + 1 - m \notin I
  BY <1>4
<1>6. \A j \in 1..(n + 1 - m) - 1 : j \in I
  <2>1. SUFFICES ASSUME NEW j \in 1..(n + 1 - m) - 1, j \notin I PROVE FALSE
    OBVIOUS
  <2>2. n + 1 - j \in 1..n /\ n + 1 - (n + 1 - j) = j /\ n + 1 - j > m
    BY <1>4
  <2>. QED
    BY <1>4, <2>1, <2>2
<1>. QED
  BY <1>5, <1>6

(* And a shorter one leaves one out.                                       *)
LEMMA ShortSequence ==
  ASSUME NEW n \in Nat, NEW s \in Seq(1..n), Len(s) < n
  PROVE  \E m \in 1..n : \A k \in DOMAIN s : s[k] # m
<1> SUFFICES ASSUME \A m \in 1..n : \E k \in DOMAIN s : s[k] = m PROVE FALSE
  OBVIOUS
<1>1. DOMAIN s = 1..Len(s) /\ Len(s) \in Nat /\ s \in [1..Len(s) -> 1..n]
  BY LenProperties
<1>2. ExistsSurjection(1..Len(s), 1..n)
  BY <1>1 DEF ExistsSurjection, Surjection
<1>3. Cardinality(1..n) <= Len(s)
  BY <1>1, <1>2, FS_SurjCardinalityBound
<1>4. Cardinality(1..n) = IF 1 > n THEN 0 ELSE n - 1 + 1
  BY FS_Interval
<1> QED
  BY <1>1, <1>3, <1>4
==============================================================================
