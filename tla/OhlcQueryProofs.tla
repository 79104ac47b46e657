--------------------------- MODULE OhlcQueryProofs ---------------------------
(***************************************************************************)
(* Lemmas about the operators of OhlcQuery, for every finite set of ticks, *)
(* every price and every way the ticks fall into minutes.                  *)
(***************************************************************************)
EXTENDS OhlcQuery, FiniteSetTheorems, WellFoundedInduction, FloorLemmas

-----------------------------------------------------------------------------
(* Least and greatest elements *)

\* A set of natural numbers has a least element.
LEMMA LeastNatural ==
    ASSUME NEW T, T \subseteq Nat, T # {}
    PROVE  \E x \in T : \A y \in T : x <= y
<1>1. /\ IsWellFoundedOn(OpToRel(<, Nat), Nat)
      /\ \A x, y \in Nat : x < y => <<x, y>> \in OpToRel(<, Nat)
  <2>1. \A x, y \in Nat : x < y => <<x, y>> \in OpToRel(<, Nat)
    BY DEF OpToRel
  <2> QED BY <2>1, NatLessThanWellFounded
<1>2. PICK R : IsWellFoundedOn(R, Nat) /\ \A x, y \in Nat : x < y => <<x, y>> \in R
  BY <1>1
<1>3. IsWellFoundedOn(R, Nat)
  BY <1>2
<1>4. PICK x \in T : \A y \in T : ~(<<y, x>> \in R)
  BY <1>3, WFMin, Zenon
<1>5. ASSUME NEW y \in T PROVE x <= y
  <2>1. y \in Nat /\ x \in Nat
    OBVIOUS
  <2>2. y < x => <<y, x>> \in R
    BY <1>2, <2>1
  <2> QED BY <1>4, <2>1, <2>2
<1> QED BY <1>5

\* A finite set of integers has a greatest element: one with as few greater
\* ones as any has none.
LEMMA GreatestInteger ==
    ASSUME NEW S, S \subseteq Int, IsFiniteSet(S), S # {}
    PROVE  \E x \in S : \A y \in S : y <= x
<1> DEFINE Above(x) == {z \in S : z > x}
<1>1. \A x \in S : IsFiniteSet(Above(x)) /\ Cardinality(Above(x)) \in Nat
  BY FS_Subset, FS_CardinalityType
<1> DEFINE counts == {Cardinality(Above(x)) : x \in S}
<1>2. PICK n \in counts : \A k \in counts : n <= k
  <2>1. counts \subseteq Nat /\ counts # {}
    BY <1>1
  <2> HIDE DEF counts
  <2> QED BY <2>1, LeastNatural
<1>3. PICK x \in S : n = Cardinality(Above(x))
  OBVIOUS
<1>4. ASSUME NEW y \in S, y > x PROVE FALSE
  <2>1. Above(y) \in SUBSET Above(x) /\ y \in Above(x) /\ y \notin Above(y)
    <3>1. x \in Int /\ y \in Int /\ \A z \in S : z \in Int
      OBVIOUS
    <3>2. \A z \in S : z > y => z > x
      BY <1>4, <3>1
    <3>3. ~(y > y)
      BY <3>1
    <3> QED BY <1>4, <3>2, <3>3
  <2>2. Cardinality(Above(x)) <= Cardinality(Above(y))
    BY <1>2, <1>3
  <2>3. /\ IsFiniteSet(Above(x)) /\ Cardinality(Above(x)) \in Nat /\ Cardinality(Above(y)) \in Nat
    BY <1>1
  <2> HIDE DEF Above
  <2>4. /\ Cardinality(Above(y)) <= Cardinality(Above(x))
        /\ Cardinality(Above(x)) = Cardinality(Above(y)) => Above(x) = Above(y)
    BY <2>1, <2>3, FS_Subset
  <2> QED BY <2>1, <2>2, <2>3, <2>4
<1> QED BY <1>4

LEMMA LeastInteger ==
    ASSUME NEW S, S \subseteq Int, IsFiniteSet(S), S # {}
    PROVE  \E x \in S : \A y \in S : x <= y
<1> DEFINE Below(x) == {z \in S : z < x}
<1>1. \A x \in S : IsFiniteSet(Below(x)) /\ Cardinality(Below(x)) \in Nat
  BY FS_Subset, FS_CardinalityType
<1> DEFINE counts == {Cardinality(Below(x)) : x \in S}
<1>2. PICK n \in counts : \A k \in counts : n <= k
  <2>1. counts \subseteq Nat /\ counts # {}
    BY <1>1
  <2> HIDE DEF counts
  <2> QED BY <2>1, LeastNatural
<1>3. PICK x \in S : n = Cardinality(Below(x))
  OBVIOUS
<1>4. ASSUME NEW y \in S, y < x PROVE FALSE
  <2>1. Below(y) \in SUBSET Below(x) /\ y \in Below(x) /\ y \notin Below(y)
    <3>1. x \in Int /\ y \in Int /\ \A z \in S : z \in Int
      OBVIOUS
    <3>2. \A z \in S : z < y => z < x
      BY <1>4, <3>1
    <3>3. ~(y < y)
      BY <3>1
    <3> QED BY <1>4, <3>2, <3>3
  <2>2. Cardinality(Below(x)) <= Cardinality(Below(y))
    BY <1>2, <1>3
  <2>3. /\ IsFiniteSet(Below(x)) /\ Cardinality(Below(x)) \in Nat /\ Cardinality(Below(y)) \in Nat
    BY <1>1
  <2> HIDE DEF Below
  <2>4. /\ Cardinality(Below(y)) <= Cardinality(Below(x))
        /\ Cardinality(Below(x)) = Cardinality(Below(y)) => Below(x) = Below(y)
    BY <2>1, <2>3, FS_Subset
  <2> QED BY <2>1, <2>2, <2>3, <2>4
<1> QED BY <1>4

\* Min and Max of a finite, non-empty set of integers.
LEMMA MinFacts ==
    ASSUME NEW S, S \subseteq Int, IsFiniteSet(S), S # {}
    PROVE  Min(S) \in S /\ \A y \in S : Min(S) <= y
BY LeastInteger DEF Min

LEMMA MaxFacts ==
    ASSUME NEW S, S \subseteq Int, IsFiniteSet(S), S # {}
    PROVE  Max(S) \in S /\ \A y \in S : y <= Max(S)
<1>1. \E x \in S : \A y \in S : x >= y
  BY GreatestInteger
<1> QED BY <1>1 DEF Max

\* An element below, or above, all others is the minimum, or the maximum.
LEMMA MinIs ==
    ASSUME NEW S, S \subseteq Int, NEW x \in S, \A y \in S : x <= y
    PROVE  Min(S) = x
<1>1. Min(S) \in S /\ \A y \in S : Min(S) <= y
  BY DEF Min
<1>2. Min(S) <= x /\ x <= Min(S) /\ Min(S) \in Int /\ x \in Int
  BY <1>1
<1> QED BY <1>2

LEMMA MaxIs ==
    ASSUME NEW S, S \subseteq Int, NEW x \in S, \A y \in S : y <= x
    PROVE  Max(S) = x
<1>1. \A y \in S : x >= y
  OBVIOUS
<1>2. Max(S) \in S /\ \A y \in S : Max(S) >= y
  BY <1>1 DEF Max
<1>3. Max(S) <= x /\ x <= Max(S) /\ Max(S) \in Int /\ x \in Int
  BY <1>2
<1> QED BY <1>3

\* A finite set has finitely many values of a function.
LEMMA FiniteImage ==
    ASSUME NEW S, IsFiniteSet(S), NEW f \in [S -> Int]
    PROVE  IsFiniteSet({f[x] : x \in S})
<1> DEFINE T == {f[x] : x \in S}
<1>1. f \in Surjection(S, T)
  BY DEF Surjection
<1> HIDE DEF T
<1> QED BY <1>1, FS_Surjection DEF T

-----------------------------------------------------------------------------
(* Folding *)

\* The leg of the ticks R with the prices q, of which at least one is known.
LegOf(R, q, leg) ==
    /\ \E i \in R : /\ q[i] # NoPrice /\ leg.open = q[i]
                    /\ \A j \in R : q[j] # NoPrice => i <= j
    /\ \E i \in R : /\ q[i] # NoPrice /\ leg.close = q[i]
                    /\ \A j \in R : q[j] # NoPrice => j <= i
    /\ \E i \in R : q[i] # NoPrice /\ leg.high = q[i]
    /\ \A i \in R : q[i] # NoPrice => q[i] <= leg.high
    /\ \E i \in R : q[i] # NoPrice /\ leg.low = q[i]
    /\ \A i \in R : q[i] # NoPrice => leg.low <= q[i]
    /\ leg # NoLeg

\* fold_leg over ticks of which one has a price: the open is the first one's,
\* the close the last one's, and high and low are the extremes.
LEMMA FoldLegFacts ==
    ASSUME NEW R, R \subseteq Int, IsFiniteSet(R), NEW q \in [R -> Int],
           \E i \in R : q[i] # NoPrice
    PROVE  LegOf(R, q, FoldLeg(q))
<1> DEFINE quoted == {i \in R : q[i] # NoPrice}
           price == [i \in quoted |-> q[i]]
           prices == {q[i] : i \in quoted}
<1>1. quoted \subseteq Int /\ IsFiniteSet(quoted) /\ quoted # {}
  BY FS_Subset
<1>2. prices \subseteq Int /\ prices # {}
  BY <1>1
<1>3. IsFiniteSet(prices)
  <2>1. price \in [quoted -> Int]
    OBVIOUS
  <2>2. prices = {price[i] : i \in quoted}
    OBVIOUS
  <2> HIDE DEF quoted, price, prices
  <2> QED BY <1>1, <2>1, <2>2, FiniteImage
<1>4. /\ Min(quoted) \in quoted /\ \A j \in quoted : Min(quoted) <= j
      /\ Max(quoted) \in quoted /\ \A j \in quoted : j <= Max(quoted)
      /\ Min(prices) \in prices /\ \A y \in prices : Min(prices) <= y
      /\ Max(prices) \in prices /\ \A y \in prices : y <= Max(prices)
  <2> HIDE DEF quoted, prices
  <2> QED BY <1>1, <1>2, <1>3, MinFacts, MaxFacts
<1>5. FoldLeg(q) = [open |-> q[Min(quoted)], high |-> Max(prices),
                    low |-> Min(prices), close |-> q[Max(quoted)]]
  <2>1. DOMAIN q = R
    OBVIOUS
  <2> QED BY <1>1, <2>1 DEF FoldLeg
<1>6. FoldLeg(q).open = q[Min(quoted)] /\ FoldLeg(q).close = q[Max(quoted)]
      /\ FoldLeg(q).high = Max(prices) /\ FoldLeg(q).low = Min(prices)
  BY <1>5
<1>7. FoldLeg(q) # NoLeg
  BY <1>4, <1>6 DEF NoLeg
<1> QED BY <1>4, <1>6, <1>7 DEF LegOf

\* fold_leg over ticks without a price.
LEMMA FoldNothing ==
    ASSUME NEW R, NEW q, DOMAIN q = R, \A i \in R : q[i] = NoPrice
    PROVE  FoldLeg(q) = NoLeg
BY DEF FoldLeg

\* The ticks R of a bucket, numbered in the order of their minutes M, and the
\* minute bars they were folded into.
MinutesFolded(R, M, q, table, leg) ==
    /\ R \subseteq Int /\ IsFiniteSet(R)
    /\ M \in [R -> Int] /\ q \in [R -> Int]
    /\ \A i, j \in R : i <= j => M[i] <= M[j]
    /\ \A i \in R : table[M[i]][leg] = FoldLeg([k \in {j \in R : M[j] = M[i]} |-> q[k]])

Priced(R, M, q, m) == {k \in R : M[k] = m /\ q[k] # NoPrice}

\* The bar of a minute, from the ticks of the minute.
LEMMA MinuteFacts ==
    ASSUME NEW R, NEW M, NEW q, NEW table, NEW leg, MinutesFolded(R, M, q, table, leg),
           NEW i \in R
    PROVE  /\ Priced(R, M, q, M[i]) = {} => table[M[i]][leg] = NoLeg
           /\ Priced(R, M, q, M[i]) # {} => LegOf(Priced(R, M, q, M[i]), q, table[M[i]][leg])
<1> DEFINE P == {j \in R : M[j] = M[i]}
           p == [k \in P |-> q[k]]
           Q == Priced(R, M, q, M[i])
<1>1. table[M[i]][leg] = FoldLeg(p)
  BY DEF MinutesFolded
<1>2. P \subseteq Int /\ IsFiniteSet(P) /\ p \in [P -> Int] /\ DOMAIN p = P
  BY FS_Subset DEF MinutesFolded
<1>3. /\ \A k : k \in Q <=> k \in P /\ p[k] # NoPrice
      /\ \A k \in Q : p[k] = q[k] /\ q[k] # NoPrice
  BY DEF Priced
<1> HIDE DEF P, p, Q
<1>4. ASSUME Q = {} PROVE FoldLeg(p) = NoLeg
  BY <1>2, <1>3, <1>4, FoldNothing
<1>5. ASSUME Q # {} PROVE LegOf(Q, q, FoldLeg(p))
  <2>1. LegOf(P, p, FoldLeg(p))
    BY <1>2, <1>3, <1>5, FoldLegFacts
  <2> DEFINE l == FoldLeg(p)
  <2> HIDE DEF l
  <2>2. LegOf(P, p, l)
    BY <2>1 DEF l
  <2>3. LegOf(Q, q, l)
    BY <1>3, <2>2 DEF LegOf
  <2> QED BY <2>3 DEF l
<1> QED BY <1>1, <1>4, <1>5 DEF Q

\* Folding the ticks of a bucket into minutes and the minutes into the bucket
\* is folding the ticks: the high and the low are the ticks' own, and so are
\* the open and the close unless the first, or the last, minute has none.
LEMMA TwoStageFold ==
    ASSUME NEW R, NEW M, NEW q, NEW table, NEW leg, MinutesFolded(R, M, q, table, leg), R # {}
    PROVE  LET said == FoldRows(table, {M[i] : i \in R}, leg)
               true == FoldLeg(q)
           IN  /\ said.high = true.high /\ said.low = true.low
               /\ said.open \in {true.open, NoPrice}
               /\ said.close \in {true.close, NoPrice}
<1> DEFINE rows == {M[i] : i \in R}
           known == {m \in rows : table[m][leg] # NoLeg}
           highs == {table[m][leg].high : m \in known}
           lows == {table[m][leg].low : m \in known}
           said == FoldRows(table, rows, leg)
           true == FoldLeg(q)
<1>1. /\ R \subseteq Int /\ IsFiniteSet(R) /\ M \in [R -> Int] /\ q \in [R -> Int]
      /\ \A i, j \in R : i <= j => M[i] <= M[j]
      /\ DOMAIN q = R
  BY DEF MinutesFolded
<1>2. PICK first \in R : \A j \in R : first <= j
  BY <1>1, LeastInteger
<1>3. PICK last \in R : \A j \in R : j <= last
  BY <1>1, GreatestInteger
<1>4. Min(rows) = M[first] /\ Max(rows) = M[last]
  <2>1. /\ rows \subseteq Int /\ M[first] \in rows /\ M[last] \in rows
        /\ \A y \in rows : M[first] <= y /\ y <= M[last]
    BY <1>1, <1>2, <1>3
  <2> HIDE DEF rows
  <2> QED BY <2>1, MinIs, MaxIs
<1>5. /\ said.open = table[M[first]][leg].open
      /\ said.close = table[M[last]][leg].close
      /\ said.high = IF known = {} THEN NoPrice ELSE Max(highs)
      /\ said.low = IF known = {} THEN NoPrice ELSE Min(lows)
  BY <1>4 DEF FoldRows
<1>6. ASSUME NEW i \in R
      PROVE  /\ Priced(R, M, q, M[i]) = {} => table[M[i]][leg] = NoLeg
             /\ Priced(R, M, q, M[i]) # {} =>
                  LegOf(Priced(R, M, q, M[i]), q, table[M[i]][leg]) /\ table[M[i]][leg] # NoLeg
  BY MinuteFacts DEF LegOf
<1> HIDE DEF said
<1>7. CASE \A i \in R : q[i] = NoPrice
  <2>1. true = NoLeg
    BY <1>1, <1>7, FoldNothing
  <2>2. known = {} /\ table[M[first]][leg] = NoLeg /\ table[M[last]][leg] = NoLeg
    BY <1>6, <1>7 DEF Priced
  <2> QED BY <1>5, <2>1, <2>2 DEF NoLeg, said
<1>8. CASE \E i \in R : q[i] # NoPrice
  <2>1. LegOf(R, q, true)
    BY <1>1, <1>8, FoldLegFacts
  <2> HIDE DEF true
  <2>2. \A i \in R : q[i] # NoPrice => M[i] \in known /\ i \in Priced(R, M, q, M[i])
    BY <1>6 DEF Priced
  <2>3. \A m \in known : \E i \in R : m = M[i] /\ LegOf(Priced(R, M, q, m), q, table[m][leg])
    BY <1>6
  <2>4. \A m \in known : /\ \E k \in R : q[k] # NoPrice /\ table[m][leg].high = q[k]
                         /\ \E k \in R : q[k] # NoPrice /\ table[m][leg].low = q[k]
                         /\ \A k \in Priced(R, M, q, m) : /\ q[k] <= table[m][leg].high
                                                          /\ table[m][leg].low <= q[k]
    <3> SUFFICES ASSUME NEW m \in known
                 PROVE  /\ \E k \in R : q[k] # NoPrice /\ table[m][leg].high = q[k]
                        /\ \E k \in R : q[k] # NoPrice /\ table[m][leg].low = q[k]
                        /\ \A k \in Priced(R, M, q, m) : /\ q[k] <= table[m][leg].high
                                                         /\ table[m][leg].low <= q[k]
      OBVIOUS
    <3> DEFINE l == table[m][leg]
    <3>1. LegOf(Priced(R, M, q, m), q, l)
      BY <2>3
    <3> HIDE DEF l
    <3>2. /\ \E k \in R : q[k] # NoPrice /\ l.high = q[k]
          /\ \E k \in R : q[k] # NoPrice /\ l.low = q[k]
          /\ \A k \in Priced(R, M, q, m) : q[k] <= l.high /\ l.low <= q[k]
      BY <3>1 DEF LegOf, Priced
    <3> QED BY <3>2 DEF l
  <2>5. /\ \A h \in highs : \E k \in R : q[k] # NoPrice /\ h = q[k]
        /\ \A l \in lows : \E k \in R : q[k] # NoPrice /\ l = q[k]
        /\ \A i \in R : q[i] # NoPrice =>
             /\ table[M[i]][leg].high \in highs /\ q[i] <= table[M[i]][leg].high
             /\ table[M[i]][leg].low \in lows /\ table[M[i]][leg].low <= q[i]
    BY <2>2, <2>4
  <2>6. Max(highs) = true.high
    <3>1. highs \subseteq Int /\ \A h \in highs : h <= true.high
      <4>1. \A i \in R : q[i] \in Int /\ (q[i] # NoPrice => q[i] <= true.high)
        BY <1>1, <2>1 DEF LegOf
      <4>2. \A h \in highs : \E k \in R : q[k] # NoPrice /\ h = q[k]
        BY <2>5
      <4> HIDE DEF highs
      <4> QED BY <4>1, <4>2
    <3>2. true.high \in highs
      <4>1. PICK i \in R : q[i] # NoPrice /\ true.high = q[i]
        BY <2>1 DEF LegOf
      <4>2. table[M[i]][leg].high \in highs /\ true.high <= table[M[i]][leg].high
        BY <2>5, <4>1
      <4>3. table[M[i]][leg].high = true.high
        <5>1. table[M[i]][leg].high \in Int /\ true.high \in Int /\ table[M[i]][leg].high <= true.high
          BY <1>1, <3>1, <4>1, <4>2
        <5> QED BY <4>2, <5>1
      <4> QED BY <4>2, <4>3
    <3> HIDE DEF highs
    <3> QED BY <3>1, <3>2, MaxIs
  <2>7. Min(lows) = true.low
    <3>1. lows \subseteq Int /\ \A l \in lows : true.low <= l
      <4>1. \A i \in R : q[i] \in Int /\ (q[i] # NoPrice => true.low <= q[i])
        BY <1>1, <2>1 DEF LegOf
      <4>2. \A l \in lows : \E k \in R : q[k] # NoPrice /\ l = q[k]
        BY <2>5
      <4> HIDE DEF lows
      <4> QED BY <4>1, <4>2
    <3>2. true.low \in lows
      <4>1. PICK i \in R : q[i] # NoPrice /\ true.low = q[i]
        BY <2>1 DEF LegOf
      <4>2. table[M[i]][leg].low \in lows /\ table[M[i]][leg].low <= true.low
        BY <2>5, <4>1
      <4>3. table[M[i]][leg].low = true.low
        <5>1. table[M[i]][leg].low \in Int /\ true.low \in Int /\ true.low <= table[M[i]][leg].low
          BY <1>1, <3>1, <4>1, <4>2
        <5> QED BY <4>2, <5>1
      <4> QED BY <4>2, <4>3
    <3> HIDE DEF lows
    <3> QED BY <3>1, <3>2, MinIs
  <2>8. table[M[first]][leg].open \in {true.open, NoPrice}
    <3>1. CASE Priced(R, M, q, M[first]) = {}
      BY <1>6, <3>1 DEF NoLeg
    <3>2. CASE Priced(R, M, q, M[first]) # {}
      <4>0. LegOf(Priced(R, M, q, M[first]), q, table[M[first]][leg])
        BY <1>6, <3>2
      <4>1. PICK k \in R : /\ M[k] = M[first] /\ q[k] # NoPrice
                           /\ table[M[first]][leg].open = q[k]
                           /\ \A j \in R : M[j] = M[first] /\ q[j] # NoPrice => k <= j
        BY <4>0 DEF LegOf, Priced
      <4>2. PICK i \in R : /\ q[i] # NoPrice /\ true.open = q[i]
                           /\ \A j \in R : q[j] # NoPrice => i <= j
        BY <2>1 DEF LegOf
      <4>3. i <= k /\ first <= i
        BY <1>2, <4>1, <4>2
      <4>4. M[i] <= M[k] /\ M[first] <= M[i]
        BY <1>1, <4>3
      <4>5. M[i] = M[first]
        BY <1>1, <4>1, <4>4
      <4>6. k <= i /\ i \in Int /\ k \in Int
        BY <1>1, <4>1, <4>2, <4>5
      <4>7. i = k
        BY <4>3, <4>6
      <4> QED BY <4>1, <4>2, <4>7
    <3> QED BY <3>1, <3>2
  <2>9. table[M[last]][leg].close \in {true.close, NoPrice}
    <3>1. CASE Priced(R, M, q, M[last]) = {}
      BY <1>6, <3>1 DEF NoLeg
    <3>2. CASE Priced(R, M, q, M[last]) # {}
      <4>0. LegOf(Priced(R, M, q, M[last]), q, table[M[last]][leg])
        BY <1>6, <3>2
      <4>1. PICK k \in R : /\ M[k] = M[last] /\ q[k] # NoPrice
                           /\ table[M[last]][leg].close = q[k]
                           /\ \A j \in R : M[j] = M[last] /\ q[j] # NoPrice => j <= k
        BY <4>0 DEF LegOf, Priced
      <4>2. PICK i \in R : /\ q[i] # NoPrice /\ true.close = q[i]
                           /\ \A j \in R : q[j] # NoPrice => j <= i
        BY <2>1 DEF LegOf
      <4>3. k <= i /\ i <= last
        BY <1>3, <4>1, <4>2
      <4>4. M[k] <= M[i] /\ M[i] <= M[last]
        BY <1>1, <4>3
      <4>5. M[i] = M[last]
        BY <1>1, <4>1, <4>4
      <4>6. i <= k /\ i \in Int /\ k \in Int
        BY <1>1, <4>1, <4>2, <4>5
      <4>7. i = k
        BY <4>3, <4>6
      <4> QED BY <4>1, <4>2, <4>7
    <3> QED BY <3>1, <3>2
  <2>10. known # {}
    BY <1>8, <2>2
  <2> QED BY <1>5, <2>6, <2>7, <2>8, <2>9, <2>10 DEF said, true
<1> QED BY <1>7, <1>8

\* When every tick has a price, folding in two stages loses nothing at all.
LEMMA ExactFold ==
    ASSUME NEW R, NEW M, NEW q, NEW table, NEW leg, MinutesFolded(R, M, q, table, leg), R # {},
           \A i \in R : q[i] # NoPrice
    PROVE  FoldRows(table, {M[i] : i \in R}, leg) = FoldLeg(q)
<1> DEFINE rows == {M[i] : i \in R}
           said == FoldRows(table, rows, leg)
           true == FoldLeg(q)
<1>1. /\ said.high = true.high /\ said.low = true.low
      /\ said.open \in {true.open, NoPrice}
      /\ said.close \in {true.close, NoPrice}
  BY TwoStageFold
<1>2. \E m, l \in rows : said.open = table[m][leg].open /\ said.close = table[l][leg].close
  <2>1. rows \subseteq Int /\ IsFiniteSet(rows) /\ rows # {}
    BY FiniteImage DEF MinutesFolded
  <2>2. Min(rows) \in rows /\ Max(rows) \in rows
    <3> HIDE DEF rows
    <3> QED BY <2>1, MinFacts, MaxFacts
  <2>3. said.open = table[Min(rows)][leg].open /\ said.close = table[Max(rows)][leg].close
    BY DEF FoldRows
  <2> QED BY <2>2, <2>3
<1>3. ASSUME NEW m \in rows
      PROVE  table[m][leg].open # NoPrice /\ table[m][leg].close # NoPrice
  <2>1. PICK i \in R : m = M[i]
    OBVIOUS
  <2> DEFINE l == table[m][leg]
             P == Priced(R, M, q, m)
  <2>2. P # {}
    BY <2>1 DEF Priced
  <2>3. LegOf(P, q, l)
    BY <2>1, <2>2, MinuteFacts
  <2> HIDE DEF l, P
  <2>4. l.open # NoPrice /\ l.close # NoPrice
    BY <2>3 DEF LegOf
  <2> QED BY <2>4 DEF l
<1>4. said.open # NoPrice /\ said.close # NoPrice
  <2> HIDE DEF said, rows
  <2> QED BY <1>2, <1>3
<1>5. \E o, h, w, c : said = [open |-> o, high |-> h, low |-> w, close |-> c]
  BY DEF FoldRows
<1>6. \E o, h, w, c : true = [open |-> o, high |-> h, low |-> w, close |-> c]
  BY DEF FoldLeg, NoLeg
<1>7. said.open = true.open /\ said.close = true.close
  BY <1>1, <1>4
<1> HIDE DEF said, true
<1>8. said = true
  <2>1. PICK o, h, w, c : said = [open |-> o, high |-> h, low |-> w, close |-> c]
    BY <1>5
  <2>2. PICK o2, h2, w2, c2 : true = [open |-> o2, high |-> h2, low |-> w2, close |-> c2]
    BY <1>6
  <2>3. o = o2 /\ h = h2 /\ w = w2 /\ c = c2
    BY <1>1, <1>7, <2>1, <2>2
  <2> QED BY <2>1, <2>2, <2>3
<1> QED BY <1>8 DEF said, true, rows

\* A bucket has no close only if no tick of its last minute has a price.
LEMMA GapAtTheEnd ==
    ASSUME NEW R, NEW M, NEW q, NEW table, NEW leg, MinutesFolded(R, M, q, table, leg),
           FoldRows(table, {M[i] : i \in R}, leg).close = NoPrice,
           NEW j \in R, \A k \in R : M[k] <= M[j]
    PROVE  q[j] = NoPrice
<1> DEFINE rows == {M[i] : i \in R}
<1>1. Max(rows) = M[j]
  <2>1. rows \subseteq Int /\ M[j] \in rows /\ \A y \in rows : y <= M[j]
    BY DEF MinutesFolded
  <2> HIDE DEF rows
  <2> QED BY <2>1, MaxIs
<1>2. table[M[j]][leg].close = NoPrice
  BY <1>1 DEF FoldRows
<1> SUFFICES ASSUME q[j] # NoPrice PROVE FALSE
  OBVIOUS
<1>3. LegOf(Priced(R, M, q, M[j]), q, table[M[j]][leg])
  <2>1. j \in Priced(R, M, q, M[j])
    BY DEF Priced
  <2> QED BY <2>1, MinuteFacts
<1> QED BY <1>2, <1>3 DEF LegOf, Priced

-----------------------------------------------------------------------------
(* Buckets *)

\* Flooring to a bucket: the bucket of a time is the multiple of the interval
\* that it has reached and not passed.
LEMMA BucketFacts ==
    ASSUME NEW x \in Nat
    PROVE  /\ BucketOf(x) \in Nat /\ BucketOf(x) <= x /\ x < BucketOf(x) + BucketLen
           /\ \E k \in Nat : BucketOf(x) = BucketLen * k
           /\ \A y \in Nat : BucketOf(y) = BucketOf(x) <=>
                               BucketOf(x) <= y /\ y < BucketOf(x) + BucketLen
<1>1. BucketLen \in Nat \ {0}
  BY QueryAssumption
<1>2. ASSUME NEW y \in Nat
      PROVE  /\ BucketOf(y) \in Nat /\ BucketOf(y) <= y /\ y < BucketOf(y) + BucketLen
             /\ \E k \in Nat : BucketOf(y) = BucketLen * k
  <2>1. y % BucketLen \in 0 .. BucketLen - 1
    BY <1>1, DivisionFacts
  <2>2. y - (y % BucketLen) \in Nat /\ \E k \in Nat : y - (y % BucketLen) = BucketLen * k
    BY <1>1, FloorTo
  <2> QED BY <1>1, <2>1, <2>2 DEF BucketOf
<1>3. ASSUME NEW y \in Nat, BucketOf(x) <= y, y < BucketOf(x) + BucketLen
      PROVE  BucketOf(y) = BucketOf(x)
  <2>1. PICK k \in Nat : BucketOf(x) = BucketLen * k
    BY <1>2
  <2>2. PICK l \in Nat : BucketOf(y) = BucketLen * l
    BY <1>2
  <2>3. /\ BucketOf(x) \in Nat
        /\ BucketOf(y) \in Nat /\ BucketOf(y) <= y /\ y < BucketOf(y) + BucketLen
    BY <1>2
  <2>4. ~(k < l)
    <3> SUFFICES ASSUME k < l PROVE FALSE
      OBVIOUS
    <3>1. BucketOf(x) + BucketLen <= BucketOf(y)
      BY <1>1, <2>1, <2>2, MultiplesApart
    <3> QED BY <1>1, <1>3, <2>3, <3>1
  <2>5. ~(l < k)
    <3> SUFFICES ASSUME l < k PROVE FALSE
      OBVIOUS
    <3>1. BucketOf(y) + BucketLen <= BucketOf(x)
      BY <1>1, <2>1, <2>2, MultiplesApart
    <3> QED BY <1>1, <1>3, <2>3, <3>1
  <2>6. k = l
    BY <2>4, <2>5
  <2> QED BY <2>1, <2>2, <2>6
<1>4. \A y \in Nat : BucketOf(y) = BucketOf(x) =>
                       BucketOf(x) <= y /\ y < BucketOf(x) + BucketLen
  BY <1>2
<1> QED BY <1>2, <1>3, <1>4

\* A bucket starts and ends at a multiple of every length that divides its own
\* (a minute, and for a daily table a day), so it has whole ones.
LEMMA UnitsInBucket ==
    ASSUME NEW L \in Nat \ {0}, BucketLen % L = 0, NEW x \in Nat, NEW t \in Nat
    PROVE  /\ t - (t % L) \in Nat
           /\ BucketOf(t - (t % L)) = BucketOf(x) <=>
                BucketOf(x) <= t /\ t < BucketOf(x) + BucketLen
           /\ BucketOf(x) <= t => BucketOf(x) <= t - (t % L)
<1> DEFINE F(y) == y - (y % L)
           j == BucketLen \div L
<1>1. /\ BucketLen \in Nat \ {0} /\ j \in Nat /\ BucketLen = L * j
  BY QueryAssumption, DivisionFacts
<1> HIDE DEF j
<1>2. ASSUME NEW k \in Nat PROVE F(BucketLen * k) = BucketLen * k /\ BucketLen * k \in Nat
  <2>1. BucketLen * k = L * (j * k) /\ j * k \in Nat /\ BucketLen * k \in Nat
    BY <1>1
  <2>2. (BucketLen * k) % L = 0
    BY <2>1, MultipleRemainder
  <2> QED BY <2>1, <2>2
<1>3. PICK k \in Nat : BucketOf(x) = BucketLen * k
  BY BucketFacts
<1>4. BucketOf(x) + BucketLen = BucketLen * (k + 1)
  BY <1>1, <1>3
<1> DEFINE b == BucketOf(x)
           e == BucketOf(x) + BucketLen
<1>5. b \in Nat /\ e \in Nat /\ F(b) = b /\ F(e) = e
  BY <1>2, <1>3, <1>4
<1>6. F(t) \in Nat /\ F(t) <= t
  BY FloorTo
<1>7. /\ b <= t => b <= F(t)
      /\ e <= t => e <= F(t)
  <2>1. \A y \in Nat : y <= t => F(y) <= F(t)
    BY FloorTo
  <2> HIDE DEF F, b, e
  <2> QED BY <1>5, <2>1
<1>8. BucketOf(F(t)) = b <=> b <= F(t) /\ F(t) < e
  <2> HIDE DEF F
  <2> QED BY <1>6, BucketFacts
<1> HIDE DEF b, e, F
<1>9. BucketOf(F(t)) = b <=> b <= t /\ t < e
  BY <1>5, <1>6, <1>7, <1>8
<1> QED BY <1>6, <1>7, <1>9 DEF b, e, F

\* The ticks of a bucket, by their minutes or their days M.
TicksIn(R, M, b) == {i \in R : BucketOf(M[i]) = b}

\* A table with one bar of each minute, or day, M of the ticks R, all with a
\* price, and of no other.
FoldedTable(R, M, q, table, leg) ==
    /\ MinutesFolded(R, M, q, table, leg)
    /\ DOMAIN table = {M[i] : i \in R}
    /\ \A i \in R : q[i] # NoPrice /\ M[i] \in Nat

\* The bar of one leg that is the fold of the ticks P.
FoldedBar(leg, P, q) == [l \in {leg} |-> FoldLeg([i \in P |-> q[i]])]

\* The query of one leg over a table of minute bars, or of day bars, in which
\* every tick has a price: a bucket after the start of the lookback is answered
\* if and only if it has ticks, and with the fold of its ticks.
LEMMA ServedExactly ==
    ASSUME NEW R, NEW M, NEW q, NEW table, NEW leg, FoldedTable(R, M, q, table, leg),
           NEW asked, asked = {leg},
           NEW time, time \in Int, NEW b, b \in Nat, Since(time) <= b
    PROVE  /\ b \in DOMAIN Served(table, time, asked) <=> TicksIn(R, M, b) # {}
           /\ b \in DOMAIN Served(table, time, asked) =>
                Served(table, time, asked)[b] = FoldedBar(leg, TicksIn(R, M, b), q)
<1> DEFINE P == TicksIn(R, M, b)
           N == [i \in P |-> M[i]]
           p == [i \in P |-> q[i]]
           rows == RowsOf(table, time, b)
           buckets == {BucketOf(m) : m \in {m \in DOMAIN table : m >= Since(time)}}
           shown == {d \in buckets :
                       \E l \in asked : FoldRows(table, RowsOf(table, time, d), l).close # NoPrice}
           answer == Served(table, time, asked)
<1>0. /\ MinutesFolded(R, M, q, table, leg)
      /\ DOMAIN table = {M[i] : i \in R}
      /\ \A i \in R : q[i] # NoPrice /\ M[i] \in Nat
  BY DEF FoldedTable
<1>1. Since(time) \in Int
  BY QueryAssumption DEF Since
<1>2. \A i \in R : i \in P => M[i] >= Since(time) /\ BucketOf(M[i]) = b
  <2> SUFFICES ASSUME NEW i \in R, i \in P PROVE M[i] >= Since(time) /\ BucketOf(M[i]) = b
    OBVIOUS
  <2>1. M[i] \in Nat /\ BucketOf(M[i]) = b
    BY <1>0 DEF TicksIn
  <2>2. b <= M[i]
    BY <2>1, BucketFacts
  <2> QED BY <1>1, <2>1, <2>2
<1>3. rows = {N[i] : i \in P}
  <2>1. rows = {m \in {M[i] : i \in R} : m >= Since(time) /\ BucketOf(m) = b}
    BY <1>0 DEF RowsOf
  <2>2. P \subseteq R /\ \A i \in R : i \in P <=> BucketOf(M[i]) = b
    BY DEF TicksIn
  <2>3. {N[i] : i \in P} = {M[i] : i \in P}
    OBVIOUS
  <2> HIDE DEF P, rows
  <2> QED BY <1>2, <2>1, <2>2, <2>3
<1>4. b \in buckets <=> P # {}
  <2>1. b \in buckets <=> \E m \in DOMAIN table : m >= Since(time) /\ BucketOf(m) = b
    OBVIOUS
  <2>2. (\E m \in DOMAIN table : m >= Since(time) /\ BucketOf(m) = b)
          <=> \E i \in R : M[i] >= Since(time) /\ BucketOf(M[i]) = b
    BY <1>0
  <2>3. \A i \in R : i \in P <=> BucketOf(M[i]) = b
    BY DEF TicksIn
  <2>4. P \subseteq R
    BY DEF TicksIn
  <2> HIDE DEF P, buckets
  <2> QED BY <1>2, <2>1, <2>2, <2>3, <2>4
<1>5. ASSUME P # {}
      PROVE  FoldRows(table, rows, leg) = FoldLeg(p) /\ FoldLeg(p).close # NoPrice
  <2>1. MinutesFolded(P, N, p, table, leg)
    <3>1. P \subseteq R /\ P \subseteq Int /\ IsFiniteSet(P)
      BY <1>0, FS_Subset DEF MinutesFolded, TicksIn
    <3>2. N \in [P -> Int] /\ p \in [P -> Int]
      BY <1>0, <3>1 DEF MinutesFolded
    <3>3. \A i, j \in P : i <= j => N[i] <= N[j]
      BY <1>0, <3>1 DEF MinutesFolded
    <3>4. ASSUME NEW i \in P
          PROVE  table[N[i]][leg] = FoldLeg([k \in {j \in P : N[j] = N[i]} |-> p[k]])
      <4>1. table[M[i]][leg] = FoldLeg([k \in {j \in R : M[j] = M[i]} |-> q[k]])
        BY <1>0, <3>1 DEF MinutesFolded
      <4>2. {j \in R : M[j] = M[i]} = {j \in P : N[j] = N[i]}
        <5>1. i \in R /\ BucketOf(M[i]) = b
          BY DEF TicksIn
        <5>2. \A j \in R : M[j] = M[i] => j \in P
          BY <5>1 DEF TicksIn
        <5> HIDE DEF P
        <5> QED BY <3>1, <5>2
      <4>3. [k \in {j \in R : M[j] = M[i]} |-> q[k]] = [k \in {j \in P : N[j] = N[i]} |-> p[k]]
        <5>1. \A k \in {j \in P : N[j] = N[i]} : p[k] = q[k]
          OBVIOUS
        <5> HIDE DEF P, p, N
        <5> QED BY <4>2, <5>1
      <4>4. N[i] = M[i]
        OBVIOUS
      <4> HIDE DEF P, N, p
      <4> QED BY <4>1, <4>3, <4>4
    <3> HIDE DEF P, N, p
    <3> QED BY <3>1, <3>2, <3>3, <3>4 DEF MinutesFolded
  <2>2. \A i \in P : p[i] # NoPrice
    BY <1>0 DEF TicksIn
  <2>3. P \subseteq Int /\ IsFiniteSet(P) /\ p \in [P -> Int]
    BY <2>1 DEF MinutesFolded
  <2> HIDE DEF P, N, p, rows
  <2>4. FoldRows(table, rows, leg) = FoldLeg(p)
    BY <1>3, <1>5, <2>1, <2>2, ExactFold
  <2>5. LegOf(P, p, FoldLeg(p))
    BY <1>5, <2>2, <2>3, FoldLegFacts
  <2> DEFINE l == FoldLeg(p)
  <2>6. l.close # NoPrice
    <3> HIDE DEF l
    <3>1. LegOf(P, p, l)
      BY <2>5 DEF l
    <3> QED BY <3>1 DEF LegOf
  <2> QED BY <2>4, <2>6
<1>6. answer = [d \in shown |-> [l \in asked |-> FoldRows(table, RowsOf(table, time, d), l)]]
  BY DEF Served
<1>7. b \in shown <=> b \in buckets /\ FoldRows(table, rows, leg).close # NoPrice
  OBVIOUS
<1>8. DOMAIN answer = shown
  <2> HIDE DEF shown
  <2> QED BY <1>6
<1>9. b \in DOMAIN answer <=> P # {}
  <2> HIDE DEF answer, shown, buckets, P, rows, p
  <2> QED BY <1>4, <1>5, <1>7, <1>8
<1>10. ASSUME b \in DOMAIN answer
       PROVE  answer[b] = FoldedBar(leg, P, q)
  <2>1. answer[b] = [l \in asked |-> FoldRows(table, rows, l)]
    <3>1. b \in shown
      BY <1>8, <1>10
    <3> HIDE DEF shown
    <3> QED BY <1>6, <3>1
  <2>2. FoldRows(table, rows, leg) = FoldLeg(p)
    BY <1>5, <1>9, <1>10
  <2>3. FoldedBar(leg, P, q) = [l \in {leg} |-> FoldLeg(p)]
    BY DEF FoldedBar
  <2> HIDE DEF answer, rows, p
  <2> QED BY <2>1, <2>2, <2>3
<1> QED BY <1>9, <1>10

\* The second half of ServedExactly, by itself.
LEMMA ServedBar ==
    ASSUME NEW R, NEW M, NEW q, NEW table, NEW leg, FoldedTable(R, M, q, table, leg),
           NEW asked, asked = {leg},
           NEW time, time \in Int, NEW b, b \in Nat, Since(time) <= b,
           b \in DOMAIN Served(table, time, asked)
    PROVE  Served(table, time, asked)[b] = FoldedBar(leg, TicksIn(R, M, b), q)
BY ServedExactly

=============================================================================
