------------------------------ MODULE OhlcQuery ------------------------------
(***************************************************************************)
(* What GET /ohlc/option computes, as operators: minute bars of a contract *)
(* are folded into buckets of BucketLen over a lookback.  A bar has a call *)
(* leg and a put leg, and either may be missing.  GET /ohlc/index is the   *)
(* same query with one leg that is never missing.                          *)
(*                                                                         *)
(* A leg is its open, high, low and close; volume and oi_close go the way  *)
(* of close.  SQL's NULL is NoPrice.                                       *)
(***************************************************************************)
EXTENDS Integers, FiniteSetsExt

CONSTANTS
    BucketLen,  \* the interval asked for, in clock units
    Lookback    \* the range asked for, in clock units

ASSUME QueryAssumption == BucketLen \in Nat \ {0} /\ Lookback \in Nat

NoPrice == 0
Legs == {"CE", "PE"}

NoLeg == [open |-> NoPrice, high |-> NoPrice, low |-> NoPrice, close |-> NoPrice]

-----------------------------------------------------------------------------
(* A minute bar: fold_leg over the ticks in the order of their times *)

\* quotes maps the ticks, numbered in that order, to the price of the leg.
FoldLeg(quotes) ==
    LET quoted == {i \in DOMAIN quotes : quotes[i] # NoPrice}
        prices == {quotes[i] : i \in quoted}
    IN  IF quoted = {} THEN NoLeg
        ELSE [open |-> quotes[Min(quoted)], high |-> Max(prices),
              low |-> Min(prices), close |-> quotes[Max(quoted)]]

-----------------------------------------------------------------------------
(* The query, over a table of one contract's minute bars keyed by bucket_start *)

Since(now) == now - Lookback

BucketOf(minute) == minute - (minute % BucketLen)

RowsOf(table, now, bucket) ==
    {m \in DOMAIN table : m >= Since(now) /\ BucketOf(m) = bucket}

\* Mutation: rn_first and rn_last are swapped.
FoldRowsSwapped(table, rows, leg) ==
    LET known == {m \in rows : table[m][leg] # NoLeg} IN
    [open  |-> table[Max(rows)][leg].open,
     high  |-> IF known = {} THEN NoPrice ELSE Max({table[m][leg].high : m \in known}),
     low   |-> IF known = {} THEN NoPrice ELSE Min({table[m][leg].low : m \in known}),
     close |-> table[Min(rows)][leg].close]

\* The first row's open and the last row's close, missing or not; MAX and MIN
\* skip the rows whose leg is missing.
FoldRows(table, rows, leg) ==
    LET known == {m \in rows : table[m][leg] # NoLeg} IN
    [open  |-> table[Min(rows)][leg].open,
     high  |-> IF known = {} THEN NoPrice ELSE Max({table[m][leg].high : m \in known}),
     low   |-> IF known = {} THEN NoPrice ELSE Min({table[m][leg].low : m \in known}),
     close |-> table[Max(rows)][leg].close]

\* Mutation: a bucket is left out unless every asked leg has a close.
ServedComplete(table, now, asked) ==
    LET bar(b) == [leg \in asked |-> FoldRows(table, RowsOf(table, now, b), leg)]
        buckets == {BucketOf(m) : m \in {m \in DOMAIN table : m >= Since(now)}}
    IN  [b \in {b \in buckets : \A leg \in asked : bar(b)[leg].close # NoPrice} |-> bar(b)]

\* The bars of the answer, by bucket; asked is the set of legs asked for.  A
\* bucket is left out unless an asked leg has a close.
Served(table, now, asked) ==
    LET bar(b) == [leg \in asked |-> FoldRows(table, RowsOf(table, now, b), leg)]
        buckets == {BucketOf(m) : m \in {m \in DOMAIN table : m >= Since(now)}}
    IN  [b \in {b \in buckets : \E leg \in asked : bar(b)[leg].close # NoPrice} |-> bar(b)]

=============================================================================
