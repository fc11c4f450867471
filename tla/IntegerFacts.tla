--------------------------- MODULE IntegerFacts ------------------------------
(***************************************************************************)
(* Facts about integers that the proofs about the ring and about the wait  *)
(* strategies rest on.                                                     *)
(***************************************************************************)
EXTENDS Integers, WellFoundedInduction, TLAPS

\* Every nonempty set of natural numbers has a least element.
LEMMA LeastElement ==
  ASSUME NEW S, S \subseteq Nat, S # {}
  PROVE  \E x \in S : \A y \in S : x <= y
<1>1. PICK x \in S : \A y \in S : ~ (<<y, x>> \in OpToRel(<, Nat))
  BY NatLessThanWellFounded, WFMin, Zenon
<1>2. ASSUME NEW y \in S PROVE ~ (y < x)
  <2>1. x \in Nat /\ y \in Nat
    OBVIOUS
  <2> QED
    BY <1>1, <2>1, Zenon DEF OpToRel
<1>3. ASSUME NEW y \in S PROVE x <= y
  <2>1. x \in Nat /\ y \in Nat
    OBVIOUS
  <2>2. ~ (y < x)
    BY <1>2
  <2> HIDE <1>1
  <2> QED
    BY <2>1, <2>2
<1> QED
  BY <1>3, Zenon

\* Euclidean division by a positive number.
LEMMA Division ==
  ASSUME NEW C \in Nat \ {0}, NEW a \in Int
  PROVE  /\ (a % C) \in 0 .. C - 1
         /\ (a \div C) \in Int
         /\ a = C * (a \div C) + (a % C)
  OBVIOUS

\* Two numbers with the same remainder modulo C differ by C or more.
LEMMA SameRemainderFarApart ==
  ASSUME NEW C \in Nat \ {0}, NEW q1 \in Int, NEW q2 \in Int, NEW a \in Int, NEW b \in Int,
         NEW r \in Int, a = C * q1 + r, b = C * q2 + r, a < b
  PROVE  b - a >= C
<1>1. C * (q2 - q1) = b - a
  OBVIOUS
<1>2. q2 - q1 >= 1
  <2>1. CASE q2 - q1 <= 0
    <3>1. C * (q2 - q1) <= 0
      BY <2>1
    <3> QED
      BY <3>1, <1>1
  <2> QED
    BY <2>1
<1>3. C * (q2 - q1) >= C
  BY <1>2
<1> QED
  BY <1>1, <1>3

\* Quotient and remainder are determined by the remainder's range.
LEMMA DivisionUnique ==
  ASSUME NEW C \in Nat \ {0}, NEW q1 \in Int, NEW q2 \in Int,
         NEW r1 \in 0 .. C - 1, NEW r2 \in 0 .. C - 1, C * q1 + r1 = C * q2 + r2
  PROVE  q1 = q2 /\ r1 = r2
<1>1. C * (q2 - q1) = r1 - r2
  OBVIOUS
<1>2. CASE q2 - q1 >= 1
  <2>1. C * (q2 - q1) >= C
    BY <1>2
  <2> QED
    BY <1>1, <2>1
<1>3. CASE q2 - q1 <= -1
  <2>1. C * (q2 - q1) <= -C
    BY <1>3
  <2> QED
    BY <1>1, <2>1
<1>4. CASE q2 = q1
  BY <1>1, <1>4
<1> QED
  BY <1>2, <1>3, <1>4
=============================================================================
