------------------------------ MODULE NatFacts ------------------------------
(***************************************************************************)
(* Facts about sets of naturals that the proofs of several modules cite.   *)
(***************************************************************************)
EXTENDS Integers, WellFoundedInduction, TLAPS

NatLess == {p \in Nat \X Nat : p[1] < p[2]}

\* The order of the naturals, as a set of pairs, is well founded.
LEMMA NatLessWellFounded == IsWellFoundedOn(NatLess, Nat)
<1>1. OpToRel(<, Nat) = NatLess
  BY DEF OpToRel, NatLess
<1> QED BY <1>1, NatLessThanWellFounded

\* A non-empty set of naturals has a least element: the scans of the code for a
\* lowest index (alloc_task, find_pending_signal) are well defined.
LEMMA LeastNatural ==
  ASSUME NEW S \in SUBSET Nat, S # {}
  PROVE  \E x \in S : \A y \in S : x <= y
<1>1. PICK x \in S : \A y \in S : ~(<<y, x>> \in NatLess)
  BY NatLessWellFounded, WFMin
<1>2. ASSUME NEW y \in S PROVE x <= y
  <2>1. ~(<<y, x>> \in NatLess)
    BY <1>1
  <2>2. x \in Nat /\ y \in Nat
    OBVIOUS
  <2> QED BY <2>1, <2>2 DEF NatLess
<1> QED BY <1>2

\* Rounding down.
LEMMA DivFacts ==
  ASSUME NEW x \in Int, NEW d \in Nat, d > 0
  PROVE  x \div d \in Int /\ d * (x \div d) <= x /\ x < d * (x \div d) + d
OBVIOUS

\* A quotient is known by its bounds.
LEMMA DivUnique ==
  ASSUME NEW x \in Int, NEW d \in Nat, d > 0, NEW q \in Int, d * q <= x, x < d * q + d
  PROVE  x \div d = q
OBVIOUS

\* The remainder, from the quotient.
LEMMA ModFacts ==
  ASSUME NEW x \in Int, NEW d \in Nat, d > 0
  PROVE  x % d \in 0 .. d - 1 /\ x = d * (x \div d) + (x % d)
<1>1. x % d \in 0 .. d - 1
  OBVIOUS
<1>2. x = d * (x \div d) + (x % d)
  OBVIOUS
<1> QED BY <1>1, <1>2

\* Quotient and remainder are the only ones.
LEMMA DivModUnique ==
  ASSUME NEW d \in Nat, d > 0, NEW q \in Int, NEW r \in 0 .. d - 1
  PROVE  (d * q + r) \div d = q /\ (d * q + r) % d = r
<1> DEFINE x == d * q + r
<1>1. x \in Int /\ d * q \in Int /\ d * q <= x /\ x < d * q + d
  OBVIOUS
<1> HIDE DEF x
<1>2. x \div d = q
  BY <1>1, DivUnique
<1>3. x % d \in 0 .. d - 1 /\ x = d * q + (x % d)
  BY <1>1, <1>2, ModFacts
<1>4. x = d * q + r
  BY DEF x
<1>5. x % d = r
  BY <1>1, <1>3, <1>4
<1> QED BY <1>2, <1>5 DEF x

\* A smaller factor makes a smaller product.
LEMMA TimesMonotone ==
  ASSUME NEW d \in Nat, NEW a \in Int, NEW b \in Int, a <= b
  PROVE  a * d \in Int /\ b * d \in Int /\ a * d <= b * d
OBVIOUS
=============================================================================
