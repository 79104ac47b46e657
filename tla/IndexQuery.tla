------------------------------ MODULE IndexQuery ------------------------------
(***************************************************************************)
(* What GET /ohlc/index answers from the tables of IndexPipeline, which    *)
(* keep sets of ticks: here each tick has a price, a minute bar is folded  *)
(* from its ticks, a daily bar from the minute bars the rollup read, and   *)
(* the query folds one of the two tables once more.                        *)
(*                                                                         *)
(* Both tables are asked for every interval they can serve.  The code      *)
(* picks one by the interval: index_ohlc_1d from "1d" on, index_ohlc_1m    *)
(* below.                                                                  *)
(***************************************************************************)
EXTENDS IndexPipeline, OhlcQuery, FiniteSets

CONSTANT Prices  \* the current_price a tick may carry

ASSUME TicksAssumption == IsFiniteSet(Ticks)
ASSUME PricesAssumption == Prices \subseteq Nat \ {NoPrice}
ASSUME IntervalAssumption == BucketLen % MinuteLen = 0

IndexLeg == {"index"}

\* What ORDER BY time may return: ticks of one time come in any order.
Feeds ==
    {feed \in [1 .. Cardinality(Ticks) -> Ticks] :
        \A i, j \in DOMAIN feed :
            i < j => feed[i] # feed[j] /\ stamp[feed[i]] <= stamp[feed[j]]}

\* The first price, the highest, the lowest and the last.
BarOf(rows, feed, price) ==
    LET read == {i \in DOMAIN feed : feed[i] \in rows}
    IN  [leg \in IndexLeg |-> FoldLeg([i \in read |-> price[feed[i]]])]

MinuteTable(rows, feed, price) ==
    [m \in {FloorToMinute(stamp[t]) : t \in rows} |->
        BarOf({t \in rows : FloorToMinute(stamp[t]) = m}, feed, price)]

\* Mutation: the day opens and closes with the wrong minute.
DayTableSwapped(rows, feed, price) ==
    LET minutes == MinuteTable(rows, feed, price)
        ofDay(d) == {m \in DOMAIN minutes : FloorToDay(m) = d}
    IN  [d \in {FloorToDay(m) : m \in DOMAIN minutes} |->
            [leg \in IndexLeg |-> FoldRowsSwapped(minutes, ofDay(d), leg)]]

\* The rollup reads the minute bars of a day in order; none lacks a price.
DayTable(rows, feed, price) ==
    LET minutes == MinuteTable(rows, feed, price)
        ofDay(d) == {m \in DOMAIN minutes : FloorToDay(m) = d}
    IN  [d \in {FloorToDay(m) : m \in DOMAIN minutes} |->
            [leg \in IndexLeg |-> FoldRows(minutes, ofDay(d), leg)]]

OfIndex(x, bars) == {t \in bars : IndexOf[t] = x}

\* get_index_ohlc from index_ohlc_1m, and from index_ohlc_1d.
AnswerFromMinutes(x, feed, price) ==
    Served(MinuteTable(OfIndex(x, bars1m), feed, price), now, IndexLeg)
AnswerFromDays(x, feed, price) ==
    Served(DayTable(OfIndex(x, bars1d), feed, price), now, IndexLeg)

-----------------------------------------------------------------------------
(* Properties *)

\* A bucket whose answer is final: after the start of the lookback, below the
\* watermark of the table asked, and within what the table is to keep.
FinalInMinutes(b) ==
    Since(now) <= b /\ b + BucketLen <= wm1m /\ ~Over(b, MinuteKeep)
FinalInDays(b) ==
    /\ BucketLen % DayLen = 0
    /\ Since(now) <= b /\ b + BucketLen <= wm1d
    /\ DayKeep > 0 => ~Over(b, DayKeep)

\* Every tick of the bucket stored in time, and every late one a bar picked up.
TrueRows(x, b, bars) ==
    {t \in OfIndex(x, OnTime \cup bars) : b <= stamp[t] /\ stamp[t] < b + BucketLen}

Tells(answer, b, rows, feed, price) ==
    /\ b \in DOMAIN answer <=> rows # {}
    /\ b \in DOMAIN answer => answer[b] = BarOf(rows, feed, price)

\* A final bucket is answered if and only if it has ticks, and with the open,
\* high, low and close of exactly those ticks: folding them into minutes,
\* minutes into days and either into buckets, by three different pieces of
\* code and around failures, crashes and purges, is folding the ticks.
IndexAnswersAreTrue ==
    \A b \in {BucketOf(time) : time \in 0 .. now} :
        FinalInMinutes(b) \/ FinalInDays(b) =>
          \A x \in {IndexOf[t] : t \in Ticks}, feed \in Feeds, price \in [Ticks -> Prices] :
            /\ FinalInMinutes(b) =>
                 Tells(AnswerFromMinutes(x, feed, price), b, TrueRows(x, b, bars1m), feed, price)
            /\ FinalInDays(b) =>
                 Tells(AnswerFromDays(x, feed, price), b, TrueRows(x, b, bars1d), feed, price)

=============================================================================
