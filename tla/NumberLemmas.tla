---------------------------- MODULE NumberLemmas ----------------------------
(***************************************************************************)
(* Lemmas about natural numbers that the proofs of several components      *)
(* need: least elements, and multiples of a number that is not fixed.      *)
(***************************************************************************)
EXTENDS Integers, WellFoundedInduction, TLAPS

(* Every non-empty set of natural numbers has a least element.             *)
Less == {p \in Nat \X Nat : p[1] < p[2]}

LEMMA LessWellFounded == IsWellFoundedOn(Less, Nat)
<1>1. OpToRel(<, Nat) = Less
  BY DEF OpToRel, Less
<1>2. QED
  BY <1>1, NatLessThanWellFounded

LEMMA LeastNumber ==
  ASSUME NEW S \in SUBSET Nat, S # {}
  PROVE  \E x \in S : \A y \in S : x <= y
<1>1. PICK x \in S : \A y \in S : ~ (<<y, x>> \in Less)
  BY LessWellFounded, WFMin
<1>2. \A y \in S : ~ (y < x)
  BY <1>1 DEF Less
<1>3. \A y \in S : x <= y
  BY <1>2
<1>4. QED
  BY <1>3

-----------------------------------------------------------------------------
(* Division with remainder by m: a - (a % m) is the multiple of m at or    *)
(* below a.                                                                *)
LEMMA DivisionRemainder ==
  ASSUME NEW a \in Nat, NEW m \in Nat \ {0}
  PROVE  /\ a \div m \in Nat /\ a % m \in 0 .. m - 1
         /\ a = m * (a \div m) + (a % m)
<1>1. a \div m \in Int /\ a % m \in 0 .. m - 1
  OBVIOUS
<1>2. a = m * (a \div m) + (a % m)
  OBVIOUS
<1>3. a \div m >= 0
  BY <1>1, <1>2
<1>4. QED
  BY <1>1, <1>2, <1>3

(* Different multiples of m are at least m apart.                          *)
LEMMA MultiplesApart ==
  ASSUME NEW m \in Nat \ {0}, NEW i \in Int, NEW j \in Int, m * i < m * j
  PROVE  m * i + m <= m * j
<1>1. i < j
  OBVIOUS
<1>2. i + 1 <= j
  BY <1>1
<1>3. m * (i + 1) <= m * j
  BY <1>2
<1>4. m * (i + 1) = m * i + m
  OBVIOUS
<1>5. QED
  BY <1>3, <1>4

(* The quotient and the remainder are the only ones.                       *)
LEMMA RemainderUnique ==
  ASSUME NEW m \in Nat \ {0}, NEW i \in Nat, NEW r \in 0 .. m - 1
  PROVE  (m * i + r) \div m = i /\ (m * i + r) % m = r
  OBVIOUS

(* A number that is not between two others, and less than the larger.      *)
LEMMA InFront ==
  \A x, a, b, r \in Nat :
    (x <= a \/ b <= x) /\ x <= b /\ x # b /\ a < r => ~ (r < x)
  OBVIOUS
=============================================================================
