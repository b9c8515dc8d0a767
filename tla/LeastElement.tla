---------------------------- MODULE LeastElement ----------------------------
(***************************************************************************)
(* The least element of a set of natural numbers, for the proofs about     *)
(* searches that stop at the first match.                                  *)
(***************************************************************************)
EXTENDS Integers, FiniteSetTheorems, TLAPS

(* Every set of natural numbers that is not empty has a least element.  It *)
(* follows from the order of the intervals 0..i by inclusion.              *)
LEMMA HasLeast ==
  ASSUME NEW S \in SUBSET Nat, S # {}
  PROVE  \E i \in S : \A j \in S : i <= j
<1> DEFINE T == {0..i : i \in S}
<1>1. T \subseteq FiniteSubsetsOf(Nat) /\ T # {}
  <2>1. \A i \in S : 0..i \in SUBSET Nat /\ IsFiniteSet(0..i)
    BY FS_Interval
  <2> QED
    BY <2>1 DEF FiniteSubsetsOf
<1>2. PICK t \in T : \A u \in T : <<u, t>> \notin StrictSubsetOrdering(Nat)
  BY <1>1, FS_StrictSubsetOrderingWellFounded, WFMin
<1>3. PICK i \in S : t = 0..i
  BY <1>2
<1>4. ASSUME NEW j \in S, j < i PROVE FALSE
  <2> DEFINE a == 0..j
             b == 0..i
  <2>1. a \in SUBSET Nat /\ b \in SUBSET Nat /\ a \subseteq b
    BY <1>4
  <2>2. i \in b /\ i \notin a
    BY <1>4
  <2>3. a \in T
    OBVIOUS
  <2>4. <<a, b>> \notin StrictSubsetOrdering(Nat)
    BY <2>3, <1>2, <1>3
  <2> HIDE DEF a, b
  <2>5. <<a, b>> \in StrictSubsetOrdering(Nat)
    BY <2>1, <2>2 DEF StrictSubsetOrdering
  <2> QED
    BY <2>4, <2>5
<1> QED
  BY <1>4
=============================================================================
