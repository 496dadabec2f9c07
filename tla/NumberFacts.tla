----------------------------- MODULE NumberFacts -----------------------------
(***************************************************************************)
(* Facts about natural numbers and finite sets that the proofs of several  *)
(* components need and that the library does not state.                    *)
(*                                                                         *)
(* The library's induction theorems take the predicate as an operator.     *)
(* Here induction goes by sets instead: a set of numbers that is not empty *)
(* has a least member, because the intervals 1 .. n are ordered by strict  *)
(* inclusion as the numbers are and strict inclusion of finite sets is     *)
(* well founded.  A proof by induction takes the least number that is no   *)
(* member of the set of those for which the claim holds.                   *)
(***************************************************************************)
EXTENDS Integers, FiniteSets, FiniteSetTheorems, TLAPS

\* A set of natural numbers that is not empty has a least member.
LEMMA LeastNumber ==
  ASSUME NEW T \in SUBSET Nat, T # {}
  PROVE  \E n \in T : \A m \in T : n <= m
<1> DEFINE U == {1 .. n : n \in T}
<1>1. U \subseteq FiniteSubsetsOf(Nat)
  <2> SUFFICES ASSUME NEW n \in T
               PROVE  1 .. n \in FiniteSubsetsOf(Nat)
    BY Zenon
  <2>1. IsFiniteSet(1 .. n)
    BY FS_Interval
  <2> QED  BY <2>1 DEF FiniteSubsetsOf
<1>2. IsWellFoundedOn(StrictSubsetOrdering(Nat), FiniteSubsetsOf(Nat))
  BY FS_StrictSubsetOrderingWellFounded
<1>3. U # {}
  OBVIOUS
<1>4. \E x \in U : \A y \in U : ~ (<<y, x>> \in StrictSubsetOrdering(Nat))
  <2> HIDE DEF U
  <2> QED  BY <1>1, <1>2, <1>3, WFMin, Zenon
<1>5. PICK n \in T : \A m \in T : ~ (<<1 .. m, 1 .. n>> \in StrictSubsetOrdering(Nat))
  BY <1>4, Zenon
<1>6. ASSUME NEW m \in T, m < n PROVE FALSE
  <2>1. 1 .. m \subseteq 1 .. n /\ 1 .. m # 1 .. n
    BY <1>6
  <2>2. <<1 .. m, 1 .. n>> \in (SUBSET Nat) \X (SUBSET Nat)
    OBVIOUS
  <2>3. <<1 .. m, 1 .. n>> \in StrictSubsetOrdering(Nat)
    BY <2>1, <2>2 DEF StrictSubsetOrdering
  <2> QED  BY <1>5, <2>3
<1> QED  BY <1>6

\* Induction, with the claim as the set of numbers for which it holds.
LEMMA Induction ==
  ASSUME NEW P, 0 \in P, \A n \in Nat : n \in P => n + 1 \in P
  PROVE  Nat \subseteq P
<1> SUFFICES ASSUME Nat \ P # {} PROVE FALSE
  OBVIOUS
<1>1. PICK n \in Nat \ P : \A m \in Nat \ P : n <= m
  <2> DEFINE T == Nat \ P
  <2>1. T \in SUBSET Nat /\ T # {}
    OBVIOUS
  <2> HIDE DEF T
  <2>2. \E n \in T : \A m \in T : n <= m
    BY <2>1, LeastNumber
  <2> QED  BY <2>2 DEF T
<1>2. n # 0 /\ n - 1 \in Nat
  BY <1>1
<1>3. n - 1 \in P
  BY <1>1, <1>2
<1> QED  BY <1>1, <1>2, <1>3

\* Intervals from 1 that are the same end at the same number.
LEMMA SameEnd ==
  ASSUME NEW n \in Nat, NEW m \in Nat, 1 .. n = 1 .. m
  PROVE  n = m
<1>1. ~(n < m)
  <2>1. n < m => m \in 1 .. m /\ m \notin 1 .. n
    OBVIOUS
  <2> QED  BY <2>1
<1>2. ~(m < n)
  <2>1. m < n => n \in 1 .. n /\ n \notin 1 .. m
    OBVIOUS
  <2> QED  BY <2>1
<1> QED  BY <1>1, <1>2

\* The quotient of n by d is the last number of times that d goes into n, and it grows
\* with n.
LEMMA Quotient ==
  ASSUME NEW n \in Nat, NEW d \in Nat \ {0}
  PROVE  n \div d \in Nat /\ (n \div d) * d <= n /\ n < (n \div d + 1) * d
OBVIOUS

LEMMA QuotientGrows ==
  ASSUME NEW n \in Nat, NEW m \in Nat, n <= m, NEW d \in Nat \ {0}
  PROVE  n \div d <= m \div d
<1>1. PICK q, r : q = n \div d /\ r = m \div d
  OBVIOUS
<1>2. q \in Nat /\ r \in Nat /\ q * d <= n /\ m < (r + 1) * d
  BY <1>1, Quotient
<1>3. SUFFICES ASSUME r + 1 <= q PROVE FALSE
  BY <1>1, <1>2
<1>4. (r + 1) * d <= q * d
  BY <1>2, <1>3
<1>5. (r + 1) * d \in Nat /\ q * d \in Nat
  BY <1>2
<1> QED  BY <1>2, <1>4, <1>5
=============================================================================
