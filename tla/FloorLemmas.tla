----------------------------- MODULE FloorLemmas -----------------------------
(***************************************************************************)
(* The arithmetic of bucket boundaries that floor_to_minute, floor_to_day  *)
(* and the integer division by an interval rest on, for every length.      *)
(***************************************************************************)
EXTENDS Integers, TLAPS

\* A length L divides any time into a quotient and a remainder below L.
LEMMA DivisionFacts ==
    ASSUME NEW L \in Nat \ {0}, NEW x \in Nat
    PROVE  /\ x % L \in 0 .. L - 1
           /\ x \div L \in Nat
           /\ x = L * (x \div L) + (x % L)
OBVIOUS

\* Distinct multiples of L are at least L apart.
LEMMA MultiplesApart ==
    ASSUME NEW L \in Nat \ {0}, NEW a \in Nat, NEW b \in Nat, a < b
    PROVE  L * a + L <= L * b
<1>1. PICK d \in Nat : b = a + 1 + d
  <2>1. b - a - 1 \in Nat
    OBVIOUS
  <2> QED BY <2>1
<1>2. L * b = L * a + L + L * d
  BY <1>1
<1>3. L * d \in Nat /\ L * a \in Nat
  OBVIOUS
<1> QED BY <1>2, <1>3

\* A multiple of L has no remainder.
LEMMA MultipleRemainder ==
    ASSUME NEW L \in Nat \ {0}, NEW k \in Nat
    PROVE  (L * k) % L = 0
<1> DEFINE q == (L * k) \div L
<1>1. L * k \in Nat
  OBVIOUS
<1>2. (L * k) % L \in 0 .. L - 1 /\ q \in Nat /\ L * k = L * q + ((L * k) % L)
  BY <1>1, DivisionFacts
<1>3. L * q \in Nat
  BY <1>2
<1> HIDE DEF q
<1>4. ~(q < k)
  BY <1>1, <1>2, <1>3, MultiplesApart
<1>5. ~(k < q)
  BY <1>1, <1>2, <1>3, MultiplesApart
<1>6. q = k
  BY <1>2, <1>4, <1>5
<1>7. L * q = L * k
  BY <1>6
<1> QED BY <1>1, <1>2, <1>3, <1>7

\* Flooring to a multiple of L (floor_to_minute, floor_to_day): it never goes
\* up, is idempotent and monotone.
LEMMA FloorTo ==
    ASSUME NEW L \in Nat \ {0}, NEW x \in Nat
    PROVE  /\ x - (x % L) \in Nat /\ x - (x % L) <= x
           /\ \E k \in Nat : x - (x % L) = L * k
           /\ (x - (x % L)) % L = 0
           /\ \A y \in Nat : x <= y => x - (x % L) <= y - (y % L)
<1> DEFINE p == x \div L
<1>1. x % L \in 0 .. L - 1 /\ p \in Nat /\ x = L * p + (x % L)
  BY DivisionFacts
<1>2. L * p \in Nat
  BY <1>1
<1> HIDE DEF p
<1>3. x - (x % L) = L * p
  BY <1>1, <1>2
<1>4. (L * p) % L = 0
  BY <1>1, MultipleRemainder
<1>5. ASSUME NEW y \in Nat, x <= y PROVE L * p <= y - (y % L)
  <2> DEFINE q == y \div L
  <2>1. y % L \in 0 .. L - 1 /\ q \in Nat /\ y = L * q + (y % L)
    BY DivisionFacts
  <2>2. L * q \in Nat
    BY <2>1
  <2> HIDE DEF q
  <2>3. ~(q < p)
    BY <1>1, <1>2, <1>5, <2>1, <2>2, MultiplesApart
  <2>4. CASE p = q
    BY <2>1, <2>2, <2>4
  <2>5. CASE p < q
    <3>1. L * p + L <= L * q
      BY <1>1, <2>1, <2>5, MultiplesApart
    <3> QED BY <1>2, <2>1, <2>2, <3>1
  <2> QED BY <1>1, <2>1, <2>3, <2>4, <2>5
<1>6. x - (x % L) \in Nat /\ x - (x % L) <= x
  BY <1>1, <1>2, <1>3
<1>7. \E k \in Nat : x - (x % L) = L * k
  BY <1>1, <1>3
<1>8. (x - (x % L)) % L = 0
  BY <1>3, <1>4
<1>9. \A y \in Nat : x <= y => x - (x % L) <= y - (y % L)
  BY <1>3, <1>5
<1> QED BY <1>6, <1>7, <1>8, <1>9

\* Division is monotone (the day of a time).
LEMMA DivisionMonotone ==
    ASSUME NEW L \in Nat \ {0}, NEW x \in Nat, NEW y \in Nat, x <= y
    PROVE  x \div L <= y \div L
<1> DEFINE p == x \div L
           q == y \div L
<1>1. /\ x % L \in 0 .. L - 1 /\ p \in Nat /\ x = L * p + (x % L)
      /\ y % L \in 0 .. L - 1 /\ q \in Nat /\ y = L * q + (y % L)
  BY DivisionFacts
<1>2. L * p \in Nat /\ L * q \in Nat
  BY <1>1
<1> HIDE DEF p, q
<1>3. ~(q < p)
  BY <1>1, <1>2, MultiplesApart
<1> QED BY <1>1, <1>3 DEF p, q

=============================================================================
