------------------------ MODULE OptionPipelineProofs ------------------------
(***************************************************************************)
(* Proofs about OptionPipeline for every set of contracts and quotes,      *)
(* every length of a minute, a day and a bucket, and every retention.      *)
(***************************************************************************)
EXTENDS OptionPipeline, OhlcQueryProofs, TLAPS

Row == [time : 0 .. MaxTime, contract : Contracts,
        CE : {quote.CE : quote \in Quotes}, PE : {quote.PE : quote \in Quotes}]

\* Rows are stamped as they arrive, so in the order of their times.
LogOrdered ==
    /\ log \in Seq(Row)
    /\ \A i \in DOMAIN log : log[i].time <= now
    /\ \A i, j \in DOMAIN log : i <= j => log[i].time <= log[j].time

\* A row is in one place: on its way, stored, or lost.
OnePlace ==
    /\ inflight \cap (ticks \cup bars \cup late \cup dropped) = {}
    /\ dropped \cap (ticks \cup bars) = {}

\* The watermark and the cutoff of a running pass are minute boundaries, not
\* ahead of the clock; the cutoff the purge holds is gated.
Boundaries ==
    /\ FloorToMinute(wm) = wm /\ wm <= FloorToMinute(now)
    /\ FloorToMinute(agg.cutoff) = agg.cutoff
    /\ agg.pc # "idle" => agg.since = wm /\ wm <= agg.cutoff /\ agg.cutoff <= FloorToMinute(now)
    /\ purge.pc = "deleteTicks" => purge.cutoff <= wm

\* Bars above the watermark, which a pass that failed may have left behind,
\* still have their rows.
OpenBars ==
    \A i \in bars \cup expired : log[i].time < FloorToMinute(now)
                                 /\ (log[i].time >= wm => i \in ticks)

InPass(i) == agg.since <= log[i].time /\ log[i].time < agg.cutoff

\* The row is in a bar, or its contract's bars were due to go.
Accounted(i) == i \in bars \/ (i \in expired /\ GraceOver(log[i].contract))

\* A row stored in time is raw until the watermark has passed it, and in a bar
\* from then on.
RowsAccounted ==
    \A i \in OnTime : IF log[i].time >= wm THEN i \in ticks ELSE Accounted(i)

\* What a pass has read still covers everything that belongs in its range.
AggCovers ==
    /\ agg.pc = "commit" =>
         /\ agg.rows \subseteq ticks
         /\ \A i \in agg.rows : InPass(i)
         /\ \A i \in OnTime \cup bars : InPass(i) => i \in agg.rows
    /\ agg.pc = "advance" =>
         \A i \in OnTime : InPass(i) => Accounted(i)

Inv ==
    /\ TypeOK
    /\ LogOrdered
    /\ OnePlace
    /\ Boundaries
    /\ OpenBars
    /\ AggCovers
    /\ RowsAccounted

-----------------------------------------------------------------------------
(* Lemmas about the operators *)

LEMMA Lengths == MinuteLen \in Nat \ {0} /\ DayLen \in Nat \ {0} /\ BucketLen \in Nat \ {0}
<1>1. MinuteLen \in Nat \ {0} /\ DayMinutes \in Nat \ {0}
  BY LengthsAssumption
<1>2. DayLen \in Nat /\ DayLen # 0
  BY <1>1 DEF DayLen
<1> QED BY <1>1, <1>2, QueryAssumption

\* What the proofs use of floor_to_minute and of the day of a time.
LEMMA FloorFacts ==
    /\ \A x \in Nat : FloorToMinute(x) \in Nat /\ FloorToMinute(x) <= x
    /\ \A x \in Nat : FloorToMinute(FloorToMinute(x)) = FloorToMinute(x)
    /\ \A x, y \in Nat : x <= y => FloorToMinute(x) <= FloorToMinute(y)
    /\ \A x \in Nat : DayOf(x) \in Nat
    /\ \A x, y \in Nat : x <= y => DayOf(x) <= DayOf(y)
<1>1. ASSUME NEW x \in Nat
      PROVE  /\ FloorToMinute(x) \in Nat /\ FloorToMinute(x) <= x
             /\ FloorToMinute(FloorToMinute(x)) = FloorToMinute(x)
             /\ \A y \in Nat : x <= y => FloorToMinute(x) <= FloorToMinute(y)
  <2>1. /\ FloorToMinute(x) \in Nat /\ FloorToMinute(x) <= x
        /\ FloorToMinute(x) % MinuteLen = 0
        /\ \A y \in Nat : x <= y => FloorToMinute(x) <= FloorToMinute(y)
    BY Lengths, FloorTo DEF FloorToMinute
  <2>2. FloorToMinute(FloorToMinute(x)) = FloorToMinute(x) - (FloorToMinute(x) % MinuteLen)
    BY DEF FloorToMinute
  <2> QED BY <2>1, <2>2
<1>2. \A x \in Nat : DayOf(x) \in Nat
  BY Lengths, DivisionFacts DEF DayOf
<1>3. \A x, y \in Nat : x <= y => DayOf(x) <= DayOf(y)
  BY Lengths, DivisionMonotone DEF DayOf
<1> QED BY <1>1, <1>2, <1>3

\* The cutoff of the purge is the smaller of two times.
LEMMA MinOfTwo ==
    ASSUME NEW a \in Int, NEW b \in Int
    PROVE  Min({a, b}) \in Int /\ Min({a, b}) <= a /\ Min({a, b}) <= b
<1>1. \E x \in {a, b} : \A y \in {a, b} : x <= y
  <2>1. a <= b \/ b <= a
    OBVIOUS
  <2> QED BY <2>1
<1>2. Min({a, b}) \in {a, b} /\ \A y \in {a, b} : Min({a, b}) <= y
  BY <1>1 DEF Min
<1> QED BY <1>2

\* A contract whose grace is over stays so, and purge_expired_option_ohlc_1m
\* takes the bars of no other: what does not parse is stored as the far future.
LEMMA GraceFacts ==
    ASSUME NEW c \in Contracts, now \in Nat
    PROVE  /\ now' \in Nat /\ now <= now' /\ GraceOver(c) => GraceOver(c)'
           /\ ParseExpiryDate(c) < DayOf(now) - GraceDays => GraceOver(c)
<1>1. ExpiryDay[c] \in Nat /\ FarFuture \in Nat /\ ExpiryDay[c] <= FarFuture
      /\ GraceDays \in Nat /\ DayOf(now) \in Nat
  BY ExpiryAssumption, KeepAssumption, FloorFacts
<1>2. ExpiryDay[c] <= ParseExpiryDate(c) /\ ParseExpiryDate(c) \in Nat
  BY <1>1 DEF ParseExpiryDate
<1>3. ParseExpiryDate(c) < DayOf(now) - GraceDays => GraceOver(c)
  BY <1>1, <1>2 DEF GraceOver
<1>4. ASSUME now' \in Nat, now <= now', GraceOver(c) PROVE GraceOver(c)'
  <2>1. DayOf(now) <= DayOf(now') /\ DayOf(now') \in Nat
    BY <1>4, FloorFacts
  <2> QED BY <1>1, <1>4, <2>1 DEF GraceOver, DayOf
<1> QED BY <1>3, <1>4

\* A row that is stamped is the last of the log.
LEMMA AppendFacts ==
    ASSUME log \in Seq(Row), NEW row \in Row, log' = Append(log, row)
    PROVE  /\ log' \in Seq(Row)
           /\ Len(log) + 1 \notin DOMAIN log
           /\ DOMAIN log' = DOMAIN log \cup {Len(log) + 1}
           /\ \A i \in DOMAIN log : log'[i] = log[i] /\ i <= Len(log) /\ i \in Nat
           /\ log'[Len(log) + 1] = row
OBVIOUS

-----------------------------------------------------------------------------
(* The inductive invariant *)

\* The tables are empty and every job is idle: nothing to account for.
LEMMA InvInit == Init => Inv
<1> SUFFICES ASSUME Init PROVE Inv
  OBVIOUS
<1> USE DEF Init
<1>1. 0 \in Nat /\ FloorToMinute(0) = 0
  BY FloorFacts
<1>2. TypeOK
  BY BoundsAssumption DEF TypeOK, IdleJob, PurgeAt
<1>3. LogOrdered /\ OnePlace
  BY DEF LogOrdered, OnePlace
<1>4. Boundaries /\ OpenBars /\ AggCovers
  BY <1>1 DEF Boundaries, OpenBars, AggCovers, IdleJob, PurgeAt
<1>5. RowsAccounted
  BY DEF RowsAccounted, OnTime
<1> QED BY <1>2, <1>3, <1>4, <1>5 DEF Inv

\* What TypeOK says of one row.
LEMMA RowFacts ==
    ASSUME TypeOK
    PROVE  /\ now \in Nat /\ wm \in Nat
           /\ \A i \in DOMAIN log : log[i].time \in Nat /\ log[i].contract \in Contracts
           /\ agg.since \in Nat /\ agg.cutoff \in Nat /\ purge.cutoff \in Int
BY BoundsAssumption DEF TypeOK

LEMMA ClockKeeps == Inv /\ AdvanceClock => Inv'
<1> SUFFICES ASSUME Inv, AdvanceClock PROVE Inv'
  OBVIOUS
<1> USE DEF Inv, AdvanceClock, tables, history
<1>1. /\ now \in Nat /\ wm \in Nat /\ now' = now + 1 /\ now' \in 0 .. MaxTime
      /\ FloorToMinute(now) <= FloorToMinute(now')
      /\ FloorToMinute(now) \in Nat /\ FloorToMinute(now') \in Nat
  BY RowFacts, FloorFacts, BoundsAssumption DEF TypeOK
<1>2. TypeOK'
  BY <1>1 DEF TypeOK
<1>3. LogOrdered'
  BY <1>1, RowFacts DEF LogOrdered
<1>4. OnePlace' /\ Boundaries' /\ OpenBars'
  BY <1>1, RowFacts DEF OnePlace, Boundaries, OpenBars, TypeOK
<1>5. \A i \in DOMAIN log : GraceOver(log[i].contract) => GraceOver(log[i].contract)'
  BY <1>1, RowFacts, GraceFacts
<1>6. \A i \in DOMAIN log : Accounted(i) => Accounted(i)'
  BY <1>5 DEF Accounted
<1>7. OnTime' = OnTime /\ OnTime \subseteq DOMAIN log
  BY DEF OnTime
<1>8. AggCovers'
  BY <1>6, <1>7 DEF AggCovers, InPass
<1>9. RowsAccounted'
  BY <1>6, <1>7 DEF RowsAccounted
<1> QED BY <1>2, <1>3, <1>4, <1>8, <1>9

\* The row is stamped and on its way: no table or pass knows of it yet.
LEMMA MessageKeeps == \A c \in Quoted, quote \in Quotes : Inv /\ HandleMessage(c, quote) => Inv'
<1> SUFFICES ASSUME NEW c \in Quoted, NEW quote \in Quotes, Inv, HandleMessage(c, quote) PROVE Inv'
  OBVIOUS
<1> USE DEF Inv, HandleMessage, source, tables, history
<1> DEFINE row == [time |-> now, contract |-> c, CE |-> quote.CE, PE |-> quote.PE]
           new == Len(log) + 1
<1>1. row \in Row /\ row.time = now /\ row.contract \in Contracts
  BY DEF TypeOK, Row, Quoted
<1>2. /\ log' \in Seq(Row) /\ new \notin DOMAIN log /\ DOMAIN log' = DOMAIN log \cup {new}
      /\ \A i \in DOMAIN log : log'[i] = log[i] /\ i <= Len(log) /\ i \in Nat
      /\ log'[new] = row
  BY <1>1, AppendFacts DEF LogOrdered
<1>3. Len(log) \in Nat
  BY DEF LogOrdered
<1> HIDE DEF row
<1>4. TypeOK'
  <2>1. \A i \in DOMAIN log' : log'[i].time \in 0 .. MaxTime /\ log'[i].contract \in Contracts
    BY <1>1, <1>2 DEF TypeOK
  <2>2. inflight' \cup ticks \cup bars \cup dropped \cup late \cup expired \subseteq DOMAIN log'
    BY <1>2 DEF TypeOK
  <2>3. agg' \in [pc : {"idle", "select", "commit", "advance"},
                  since : Nat, cutoff : Nat, rows : SUBSET DOMAIN log']
    BY <1>2 DEF TypeOK
  <2> QED BY <2>1, <2>2, <2>3 DEF TypeOK
<1>5. LogOrdered'
  <2>1. \A i \in DOMAIN log' : log'[i].time <= now
    BY <1>1, <1>2, RowFacts DEF LogOrdered
  <2>2. ASSUME NEW i \in DOMAIN log', NEW j \in DOMAIN log', i <= j
        PROVE  log'[i].time <= log'[j].time
    <3>1. CASE j = new
      BY <1>1, <1>2, <2>1, <3>1
    <3>2. CASE j \in DOMAIN log
      <4>1. i \in DOMAIN log
        BY <1>2, <1>3, <2>2, <3>2
      <4> QED BY <1>2, <2>2, <3>2, <4>1 DEF LogOrdered
    <3> QED BY <1>2, <3>1, <3>2
  <2> QED BY <1>2, <2>1, <2>2 DEF LogOrdered
<1>6. OnePlace'
  BY <1>2 DEF OnePlace, TypeOK
<1>7. OnTime' = OnTime /\ OnTime \subseteq DOMAIN log
  BY <1>2 DEF OnTime
<1>8. bars \subseteq DOMAIN log /\ expired \subseteq DOMAIN log /\ agg.rows \subseteq DOMAIN log
  BY DEF TypeOK
<1>9. \A i \in DOMAIN log : /\ InPass(i)' <=> InPass(i)
                            /\ GraceOver(log[i].contract)' <=> GraceOver(log[i].contract)
                            /\ Accounted(i)' <=> Accounted(i)
  BY <1>2 DEF InPass, Accounted, GraceOver, DayOf
<1>10. Boundaries' /\ OpenBars'
  BY <1>2, <1>8 DEF Boundaries, OpenBars
<1>11. AggCovers'
  BY <1>7, <1>8, <1>9 DEF AggCovers
<1>12. RowsAccounted'
  BY <1>2, <1>7, <1>9 DEF RowsAccounted
<1> QED BY <1>4, <1>5, <1>6, <1>10, <1>11, <1>12

\* What a step that leaves the clock and the log alone leaves alone with them.
LEMMA SameRows ==
    ASSUME UNCHANGED <<now, log>>
    PROVE  /\ LogOrdered => LogOrdered'
           /\ \A c : GraceOver(c)' <=> GraceOver(c)
           /\ UNCHANGED <<bars, expired>> => \A i : Accounted(i)' <=> Accounted(i)
           /\ UNCHANGED agg => \A i : InPass(i)' <=> InPass(i)
           /\ UNCHANGED <<inflight, dropped, late>> => OnTime' = OnTime
BY DEF LogOrdered, GraceOver, DayOf, Accounted, InPass, OnTime

\* Rows stored in time are stamped after every minute that was ever read.
LEMMA FlushKeeps == \A rows \in SUBSET inflight : Inv /\ Flush(rows) => Inv'
<1> SUFFICES ASSUME NEW rows \in SUBSET inflight, Inv, Flush(rows) PROVE Inv'
  OBVIOUS
<1> USE DEF Inv, Flush, source
<1>1. TypeOK' /\ LogOrdered'
  BY SameRows DEF TypeOK
<1>2. OnePlace'
  BY DEF OnePlace
<1>3. Boundaries' /\ OpenBars'
  BY DEF Boundaries, OpenBars
<1>4. \A i \in OnTime' : i \in OnTime \/ (i \in rows /\ log[i].time >= FloorToMinute(now))
  BY RowFacts, FloorFacts DEF OnTime, TypeOK
<1>5. /\ FloorToMinute(now) \in Nat /\ wm <= FloorToMinute(now)
      /\ agg.pc # "idle" => agg.cutoff <= FloorToMinute(now)
      /\ \A i \in DOMAIN log : log[i].time \in Nat
      /\ rows \subseteq DOMAIN log
  BY RowFacts, FloorFacts DEF Boundaries, TypeOK
<1>6. AggCovers'
  <2>1. \A i : (InPass(i)' <=> InPass(i)) /\ (Accounted(i)' <=> Accounted(i))
    BY SameRows
  <2>2. ASSUME NEW i \in OnTime', agg.pc # "idle", InPass(i) PROVE i \in OnTime
    BY <1>4, <1>5, <2>2, RowFacts DEF InPass
  <2> QED BY <2>1, <2>2 DEF AggCovers
<1>7. RowsAccounted'
  <2> SUFFICES ASSUME NEW i \in OnTime'
               PROVE  IF log[i].time >= wm THEN i \in ticks' ELSE Accounted(i)'
    BY DEF RowsAccounted, Accounted
  <2>1. CASE i \in OnTime
    BY <2>1, SameRows DEF RowsAccounted, Accounted
  <2>2. CASE i \in rows /\ log[i].time >= FloorToMinute(now)
    BY <1>5, <2>2, RowFacts
  <2> QED BY <1>4, <2>1, <2>2
<1> QED BY <1>1, <1>2, <1>3, <1>6, <1>7

\* A batch that is lost was never in a table.
LEMMA FlushFailKeeps == \A rows \in SUBSET inflight : Inv /\ FlushFail(rows) => Inv'
<1> SUFFICES ASSUME NEW rows \in SUBSET inflight, Inv, FlushFail(rows) PROVE Inv'
  OBVIOUS
<1> USE DEF Inv, FlushFail, Fault, source, tables
<1>1. TypeOK' /\ LogOrdered'
  BY SameRows, BoundsAssumption DEF TypeOK
<1>2. OnePlace' /\ Boundaries' /\ OpenBars'
  BY DEF OnePlace, Boundaries, OpenBars
<1>3. OnTime' = OnTime
  BY DEF OnTime
<1>4. AggCovers' /\ RowsAccounted'
  BY <1>3, SameRows DEF AggCovers, RowsAccounted
<1> QED BY <1>1, <1>2, <1>4

\* Memory is lost, the tables and the watermark remain.
LEMMA RestartKeeps == Inv /\ Restart => Inv'
<1> SUFFICES ASSUME Inv, Restart PROVE Inv'
  OBVIOUS
<1> USE DEF Inv, Restart, Fault, IdleJob, PurgeAt, tables
<1>1. TypeOK' /\ LogOrdered'
  BY SameRows, BoundsAssumption DEF TypeOK
<1>2. OnePlace' /\ Boundaries' /\ OpenBars'
  BY FloorFacts DEF OnePlace, Boundaries, OpenBars
<1>3. OnTime' = OnTime
  BY DEF OnTime
<1>4. AggCovers' /\ RowsAccounted'
  BY <1>3, SameRows DEF AggCovers, RowsAccounted
<1> QED BY <1>1, <1>2, <1>4

\* A pass begins at the watermark and ends at the last full minute.
LEMMA AggReadKeeps == Inv /\ AggRead => Inv'
<1> SUFFICES ASSUME Inv, AggRead PROVE Inv'
  OBVIOUS
<1> USE DEF Inv, AggRead, source, tables, history
<1>1. TypeOK' /\ LogOrdered'
  BY SameRows, RowFacts, FloorFacts DEF TypeOK
<1>2. OnePlace' /\ Boundaries' /\ OpenBars'
  BY RowFacts, FloorFacts DEF OnePlace, Boundaries, OpenBars
<1>3. AggCovers' /\ RowsAccounted'
  BY SameRows DEF AggCovers, RowsAccounted
<1> QED BY <1>1, <1>2, <1>3

\* The pass reads every row that belongs in its range: those of the bars it
\* may write again included, and with no such row it may as well move on.
LEMMA AggSelectKeeps == Inv /\ AggSelect => Inv'
<1> SUFFICES ASSUME Inv, AggSelect PROVE Inv'
  OBVIOUS
<1> USE DEF Inv, AggSelect, source, tables, history
<1>1. TypeOK' /\ LogOrdered'
  BY SameRows DEF TypeOK, AggRows
<1>2. OnePlace' /\ Boundaries' /\ OpenBars'
  BY DEF OnePlace, Boundaries, OpenBars
<1>3. /\ agg'.since = agg.since /\ agg'.cutoff = agg.cutoff /\ agg'.rows = AggRows
      /\ agg'.pc = IF AggRows = {} THEN "advance" ELSE "commit"
  BY DEF TypeOK
<1>4. \A i : InPass(i)' <=> InPass(i)
  BY <1>3 DEF InPass
<1>5. AggRows \subseteq ticks /\ \A i \in AggRows : InPass(i)
  BY DEF AggRows, InPass
<1>6. ASSUME NEW i \in OnTime \cup bars, InPass(i) PROVE i \in AggRows
  <2>1. log[i].time >= wm /\ i \in DOMAIN log
    BY <1>6 DEF InPass, Boundaries, OnTime, TypeOK
  <2>2. i \in ticks
    BY <1>6, <2>1 DEF RowsAccounted, OpenBars
  <2> QED BY <1>6, <2>2 DEF AggRows, InPass
<1>7. AggCovers' /\ RowsAccounted'
  BY <1>3, <1>4, <1>5, <1>6, SameRows DEF AggCovers, RowsAccounted
<1> QED BY <1>1, <1>2, <1>7

\* A bar that is written again is written from all of its rows.
LEMMA CommitKeepsBars == Inv /\ AggCommit => bars' = bars \cup agg.rows
<1> SUFFICES ASSUME Inv, AggCommit, NEW i \in bars, NEW r \in agg.rows, Key(r) = Key(i)
             PROVE  i \in agg.rows
  BY DEF AggCommit
<1>1. /\ agg.since \in Nat /\ agg.cutoff \in Nat
      /\ FloorToMinute(agg.since) = agg.since
      /\ FloorToMinute(agg.cutoff) = agg.cutoff
  BY RowFacts DEF Inv, AggCommit, Boundaries
<1>2. log[i].time \in Nat /\ log[r].time \in Nat /\ InPass(r)
  BY RowFacts DEF Inv, AggCommit, AggCovers, TypeOK
<1>3. FloorToMinute(log[r].time) = FloorToMinute(log[i].time)
  BY DEF Key
<1>4. InPass(i)
  BY <1>1, <1>2, <1>3, FloorFacts DEF InPass
<1> QED BY <1>4 DEF Inv, AggCommit, AggCovers

LEMMA AggCommitKeeps == Inv /\ AggCommit => Inv'
<1> SUFFICES ASSUME Inv, AggCommit PROVE Inv'
  OBVIOUS
<1>1. bars' = bars \cup agg.rows
  BY CommitKeepsBars
<1> USE DEF Inv
<1>2. /\ agg.pc = "commit"
      /\ agg' = [agg EXCEPT !.pc = "advance", !.rows = {}]
      /\ UNCHANGED <<now, following, log, inflight, ticks, wm, purge, faults, dropped, late, expired>>
  BY DEF AggCommit, source, history
<1>3. /\ agg.rows \subseteq ticks /\ agg.rows \subseteq DOMAIN log
      /\ \A i \in agg.rows : InPass(i)
      /\ \A i \in OnTime \cup bars : InPass(i) => i \in agg.rows
  BY <1>2 DEF AggCovers, TypeOK
<1>4. TypeOK' /\ LogOrdered'
  BY <1>1, <1>2, <1>3, SameRows DEF TypeOK
<1>5. OnePlace' /\ Boundaries'
  BY <1>1, <1>2, <1>3 DEF OnePlace, Boundaries
<1>6. OpenBars'
  <2>1. \A i \in agg.rows : log[i].time < FloorToMinute(now)
    BY <1>2, <1>3, RowFacts, FloorFacts DEF Boundaries, InPass
  <2> QED BY <1>1, <1>2, <1>3, <2>1 DEF OpenBars
<1>7. AggCovers' /\ RowsAccounted'
  BY <1>1, <1>2, <1>3, SameRows DEF AggCovers, RowsAccounted, InPass, OnTime, Accounted
<1> QED BY <1>4, <1>5, <1>6, <1>7

\* The watermark passes only rows the pass has put into a bar.
LEMMA AggAdvanceKeeps == Inv /\ AggAdvance => Inv'
<1> SUFFICES ASSUME Inv, AggAdvance PROVE Inv'
  OBVIOUS
<1> USE DEF Inv, AggAdvance, IdleJob, source, history
<1>1. TypeOK' /\ LogOrdered'
  BY SameRows, RowFacts DEF TypeOK
<1>2. OnePlace' /\ Boundaries'
  BY RowFacts, FloorFacts DEF OnePlace, Boundaries
<1>3. wm \in Nat /\ wm' \in Nat /\ wm <= wm' /\ agg.since = wm /\ wm' = agg.cutoff
  BY RowFacts DEF Boundaries
<1>4. OpenBars'
  BY <1>3, RowFacts DEF OpenBars, TypeOK
<1>5. AggCovers'
  BY DEF AggCovers
<1>6. RowsAccounted'
  <2> SUFFICES ASSUME NEW i \in OnTime
               PROVE  IF log[i].time >= wm' THEN i \in ticks ELSE Accounted(i)
    BY SameRows DEF RowsAccounted, Accounted
  <2>1. log[i].time \in Nat
    BY RowFacts DEF OnTime
  <2> QED BY <1>3, <2>1 DEF RowsAccounted, AggCovers, InPass, Accounted
<1> QED BY <1>1, <1>2, <1>4, <1>5, <1>6

LEMMA AggFailKeeps == Inv /\ AggFail => Inv'
<1> SUFFICES ASSUME Inv, AggFail PROVE Inv'
  OBVIOUS
<1> USE DEF Inv, AggFail, Fault, IdleJob, source, tables, history
<1>1. TypeOK' /\ LogOrdered'
  BY SameRows, BoundsAssumption DEF TypeOK
<1>2. OnePlace' /\ Boundaries' /\ OpenBars'
  BY FloorFacts DEF OnePlace, Boundaries, OpenBars
<1>3. AggCovers' /\ RowsAccounted'
  BY SameRows DEF AggCovers, RowsAccounted
<1> QED BY <1>1, <1>2, <1>3

\* The cutoff of the raw purge is gated by the watermark.
LEMMA PurgeReadKeeps == Inv /\ PurgeTicksRead => Inv'
<1> SUFFICES ASSUME Inv, PurgeTicksRead PROVE Inv'
  OBVIOUS
<1> USE DEF Inv, source, tables, history
<1>1. /\ now - RawKeep \in Int /\ wm \in Int
  BY RowFacts, KeepAssumption
<1>2. purge' = PurgeAt("expired")
      \/ purge' = [pc |-> "deleteTicks", cutoff |-> Min({now - RawKeep, wm})]
  BY DEF PurgeTicksRead
<1>3. purge' \in [pc : {"idle", "deleteTicks", "expired"}, cutoff : Int]
      /\ (purge'.pc = "deleteTicks" => purge'.cutoff <= wm)
  <2>1. CASE purge' = PurgeAt("expired")
    BY <2>1 DEF PurgeAt
  <2>2. CASE purge' = [pc |-> "deleteTicks", cutoff |-> Min({now - RawKeep, wm})]
    BY <1>1, <2>2, MinOfTwo
  <2> QED BY <1>2, <2>1, <2>2
<1>4. UNCHANGED <<now, following, log, inflight, ticks, bars, wm, agg, faults, dropped, late, expired>>
  BY DEF PurgeTicksRead
<1>5. TypeOK' /\ LogOrdered'
  BY <1>3, <1>4, SameRows DEF TypeOK
<1>6. OnePlace' /\ Boundaries' /\ OpenBars' /\ AggCovers' /\ RowsAccounted'
  BY <1>3, <1>4, SameRows DEF OnePlace, Boundaries, OpenBars, AggCovers, RowsAccounted
<1> QED BY <1>5, <1>6

\* What the raw purge deletes is below the watermark, and so below everything
\* a running pass has read.
LEMMA PurgeDeleteKeeps == Inv /\ PurgeTicksDelete => Inv'
<1> SUFFICES ASSUME Inv, PurgeTicksDelete PROVE Inv'
  OBVIOUS
<1> USE DEF Inv, PurgeTicksDelete, PurgeAt, source, history
<1>1. TypeOK' /\ LogOrdered'
  BY SameRows DEF TypeOK
<1>2. OnePlace' /\ Boundaries'
  BY DEF OnePlace, Boundaries
<1>3. \A i \in ticks : log[i].time >= wm => i \in ticks'
  BY RowFacts DEF Boundaries, TypeOK
<1>4. OpenBars' /\ RowsAccounted'
  BY <1>3, SameRows DEF OpenBars, RowsAccounted
<1>5. AggCovers'
  <2>1. agg.pc = "commit" => agg.rows \subseteq ticks'
    BY <1>3 DEF AggCovers, InPass, Boundaries
  <2> QED BY <2>1, SameRows DEF AggCovers
<1> QED BY <1>1, <1>2, <1>4, <1>5

\* The bars that go are those of contracts whose grace is over.
LEMMA ExpiredFacts == Inv => \A i \in ExpiredBars : i \in bars /\ GraceOver(log[i].contract)
<1> SUFFICES ASSUME Inv, NEW i \in ExpiredBars PROVE i \in bars /\ GraceOver(log[i].contract)
  OBVIOUS
<1>1. /\ i \in bars /\ ParseExpiryDate(log[i].contract) < DayOf(now) - GraceDays
      /\ log[i].contract \in Contracts /\ now \in Nat
  BY RowFacts DEF ExpiredBars, Inv, TypeOK
<1> QED BY <1>1, GraceFacts

LEMMA PurgeExpiredKeeps == Inv /\ PurgeExpired => Inv'
<1> SUFFICES ASSUME Inv, PurgeExpired PROVE Inv'
  OBVIOUS
<1>1. /\ \A i \in ExpiredBars : i \in bars /\ GraceOver(log[i].contract)
      /\ bars' = bars \ ExpiredBars /\ expired' = expired \cup ExpiredBars
      /\ purge' = PurgeAt("idle")
      /\ UNCHANGED <<now, following, log, inflight, ticks, wm, agg, faults, dropped, late>>
  BY ExpiredFacts DEF PurgeExpired, source
<1> USE DEF Inv
<1>2. TypeOK' /\ LogOrdered'
  BY <1>1, SameRows DEF TypeOK, PurgeAt
<1>3. OnePlace' /\ Boundaries' /\ OpenBars'
  BY <1>1 DEF OnePlace, Boundaries, OpenBars, PurgeAt
<1>4. \A i : Accounted(i) => Accounted(i)'
  BY <1>1, SameRows DEF Accounted
<1>5. OnTime' = OnTime
  BY <1>1 DEF OnTime
<1>6. AggCovers'
  BY <1>1, <1>4, <1>5, SameRows DEF AggCovers
<1>7. RowsAccounted'
  <2> SUFFICES ASSUME NEW i \in OnTime
               PROVE  IF log[i].time >= wm THEN i \in ticks ELSE Accounted(i)'
    BY <1>1, <1>5 DEF RowsAccounted, Accounted
  <2> QED BY <1>4 DEF RowsAccounted, Accounted
<1> QED BY <1>2, <1>3, <1>6, <1>7

LEMMA PurgeFailKeeps == Inv /\ PurgeFail => Inv'
<1> SUFFICES ASSUME Inv, PurgeFail PROVE Inv'
  OBVIOUS
<1> USE DEF Inv, PurgeFail, Fault, PurgeAt, source, tables, history
<1>1. TypeOK' /\ LogOrdered'
  BY SameRows, BoundsAssumption DEF TypeOK
<1>2. OnePlace' /\ Boundaries' /\ OpenBars' /\ AggCovers' /\ RowsAccounted'
  BY SameRows DEF OnePlace, Boundaries, OpenBars, AggCovers, RowsAccounted
<1> QED BY <1>1, <1>2

LEMMA StutterKeeps == Inv /\ UNCHANGED vars => Inv'
<1> SUFFICES ASSUME Inv, UNCHANGED vars PROVE Inv'
  OBVIOUS
<1> USE DEF Inv, vars, source, tables, history
<1>1. TypeOK' /\ LogOrdered'
  BY SameRows DEF TypeOK
<1>2. OnePlace' /\ Boundaries' /\ OpenBars' /\ AggCovers' /\ RowsAccounted'
  BY SameRows DEF OnePlace, Boundaries, OpenBars, AggCovers, RowsAccounted
<1> QED BY <1>1, <1>2

\* A batch is a set of rows on their way.
LEMMA BatchFacts == \A rows \in Batches : rows \in SUBSET inflight
BY DEF Batches

LEMMA InvStep == Inv /\ [Next]_vars => Inv'
<1> SUFFICES ASSUME Inv, [Next]_vars PROVE Inv'
  OBVIOUS
<1>1. CASE AdvanceClock
  BY <1>1, ClockKeeps
<1>2. CASE \E c \in Quoted, quote \in Quotes : HandleMessage(c, quote)
  BY <1>2, MessageKeeps
<1>3. CASE IngestStep \/ \E rows \in Batches : FlushFail(rows)
  BY <1>3, BatchFacts, FlushKeeps, FlushFailKeeps DEF IngestStep
<1>4. CASE Restart
  BY <1>4, RestartKeeps
<1>5. CASE AggStep \/ AggFail
  BY <1>5, AggReadKeeps, AggSelectKeeps, AggCommitKeeps, AggAdvanceKeeps, AggFailKeeps DEF AggStep
<1>6. CASE PurgeStep \/ PurgeFail
  BY <1>6, PurgeReadKeeps, PurgeDeleteKeeps, PurgeExpiredKeeps, PurgeFailKeeps DEF PurgeStep
<1>7. CASE UNCHANGED vars
  BY <1>7, StutterKeeps
<1> QED BY <1>1, <1>2, <1>3, <1>4, <1>5, <1>6, <1>7 DEF Next

-----------------------------------------------------------------------------
(* What GET /ohlc/option answers *)

\* What a row of the log is.
LEMMA StampFacts ==
    ASSUME Inv, NEW i \in DOMAIN log
    PROVE  /\ i \in Int /\ log[i].time \in Nat /\ log[i].contract \in Contracts
           /\ \A leg \in Legs : log[i][leg] \in Int
<1>1. log[i] \in Row /\ i \in Int
  BY DEF Inv, LogOrdered
<1>2. log[i].CE \in Int /\ log[i].PE \in Int
  BY <1>1, QuotesAssumption DEF Row
<1>3. log[i]["CE"] = log[i].CE /\ log[i]["PE"] = log[i].PE
  OBVIOUS
<1> QED BY <1>1, <1>2, <1>3, RowFacts DEF Legs, Inv

\* A bucket starts and ends at full minutes: BUCKET_SECONDS is a multiple of a
\* minute's.
LEMMA MinutesInBucket ==
    ASSUME NEW x \in Nat, NEW t \in Nat
    PROVE  BucketOf(FloorToMinute(t)) = BucketOf(x) <=>
             BucketOf(x) <= t /\ t < BucketOf(x) + BucketLen
<1>1. MinuteLen \in Nat \ {0} /\ BucketLen % MinuteLen = 0
  BY Lengths, LengthsAssumption
<1> QED BY <1>1, UnitsInBucket DEF FloorToMinute

\* The rows in the bars of a contract's bucket, and their minutes and prices.
BucketRows(c, b) ==
    {i \in bars : log[i].contract = c /\ b <= log[i].time /\ log[i].time < b + BucketLen}
MinuteOf(c, b) == [i \in BucketRows(c, b) |-> FloorToMinute(log[i].time)]
PriceOf(c, b, leg) == [i \in BucketRows(c, b) |-> log[i][leg]]

\* The rows of a final bucket are in its bars.
LEMMA FinalRowsAreInBars ==
    ASSUME Inv, NEW c \in Contracts, NEW b \in Nat, Final(c, b)
    PROVE  BucketRows(c, b) = {i \in OnTime \cup bars :
                    log[i].contract = c /\ b <= log[i].time /\ log[i].time < b + BucketLen}
<1> SUFFICES ASSUME NEW i \in OnTime, log[i].contract = c, b <= log[i].time, log[i].time < b + BucketLen
             PROVE  i \in bars
  BY DEF BucketRows
<1>1. i \in DOMAIN log
  BY DEF OnTime
<1>2. log[i].time \in Nat /\ wm \in Nat /\ BucketLen \in Nat
  BY <1>1, StampFacts, RowFacts, Lengths DEF Inv
<1>3. ~(log[i].time >= wm) /\ ~GraceOver(log[i].contract)
  BY <1>2 DEF Final
<1> QED BY <1>3 DEF Inv, RowsAccounted, Accounted

\* What the query reads of a final bucket are the minutes of those rows.
LEMMA RowsOfBucket ==
    ASSUME Inv, NEW c \in Contracts, NEW x \in Nat, Since(now) <= BucketOf(x)
    PROVE  RowsOf(Minutes(c), now, BucketOf(x))
             = {MinuteOf(c, BucketOf(x))[i] : i \in BucketRows(c, BucketOf(x))}
<1> DEFINE b == BucketOf(x)
           minutes == {FloorToMinute(log[i].time) : i \in {j \in bars : log[j].contract = c}}
<1>1. DOMAIN Minutes(c) = minutes
  BY DEF Minutes
<1>2. b \in Nat /\ Since(now) \in Int
  BY BucketFacts, QueryAssumption, RowFacts DEF Since, Inv
<1>3. ASSUME NEW i \in bars, log[i].contract = c
      PROVE  i \in BucketRows(c, b) <=> FloorToMinute(log[i].time) >= Since(now)
                                        /\ BucketOf(FloorToMinute(log[i].time)) = b
  <2> DEFINE m == FloorToMinute(log[i].time)
  <2>1. log[i].time \in Nat /\ m \in Nat
    BY StampFacts, FloorFacts DEF Inv, TypeOK
  <2>2. BucketOf(m) = b <=> b <= log[i].time /\ log[i].time < b + BucketLen
    BY <2>1, MinutesInBucket
  <2>3. BucketOf(m) = b => b <= m
    BY <2>1, BucketFacts
  <2>4. BucketOf(m) = b => m >= Since(now)
    <3> HIDE DEF m, b
    <3>1. Since(now) <= b
      BY DEF b
    <3> QED BY <1>2, <2>1, <2>3, <3>1
  <2> QED BY <1>3, <2>2, <2>4 DEF BucketRows
<1>4. RowsOf(Minutes(c), now, b) = {m \in minutes : m >= Since(now) /\ BucketOf(m) = b}
  BY <1>1 DEF RowsOf
<1> HIDE DEF b
<1>5. {MinuteOf(c, b)[i] : i \in BucketRows(c, b)}
        = {FloorToMinute(log[i].time) : i \in BucketRows(c, b)}
  BY DEF MinuteOf
<1>6. BucketRows(c, b) \subseteq {j \in bars : log[j].contract = c}
  BY DEF BucketRows
<1>7. {m \in minutes : m >= Since(now) /\ BucketOf(m) = b}
        = {FloorToMinute(log[i].time) : i \in BucketRows(c, b)}
  BY <1>3, <1>6
<1> QED BY <1>4, <1>5, <1>7 DEF b

\* Each of those minutes is the fold of its rows.
LEMMA BucketIsFolded ==
    ASSUME Inv, NEW c \in Contracts, NEW x \in Nat, NEW leg \in Legs
    PROVE  MinutesFolded(BucketRows(c, BucketOf(x)), MinuteOf(c, BucketOf(x)),
                         PriceOf(c, BucketOf(x), leg), Minutes(c), leg)
<1> DEFINE b == BucketOf(x)
           R == BucketRows(c, b)
           M == MinuteOf(c, b)
           q == PriceOf(c, b, leg)
<1>1. R \subseteq DOMAIN log /\ DOMAIN log = 1 .. Len(log) /\ Len(log) \in Nat
  BY DEF BucketRows, Inv, TypeOK, LogOrdered
<1>2. R \subseteq Int /\ IsFiniteSet(R)
  <2> HIDE DEF R
  <2>1. IsFiniteSet(1 .. Len(log))
    BY <1>1, FS_Interval
  <2> QED BY <1>1, <2>1, FS_Subset
<1>3. M \in [R -> Int] /\ q \in [R -> Int]
  <2>1. \A i \in R : log[i][leg] \in Int /\ FloorToMinute(log[i].time) \in Int
    <3> SUFFICES ASSUME NEW i \in R
                 PROVE  log[i][leg] \in Int /\ FloorToMinute(log[i].time) \in Int
      OBVIOUS
    <3>1. log[i][leg] \in Int /\ log[i].time \in Nat
      BY <1>1, StampFacts
    <3>2. FloorToMinute(log[i].time) \in Nat
      BY <3>1, FloorFacts
    <3> QED BY <3>1, <3>2
  <2> QED BY <2>1 DEF MinuteOf, PriceOf
<1>4. ASSUME NEW i \in R, NEW j \in R, i <= j PROVE M[i] <= M[j]
  <2>1. log[i].time <= log[j].time /\ log[i].time \in Nat /\ log[j].time \in Nat
    BY <1>1, <1>4, StampFacts DEF Inv, LogOrdered
  <2> QED BY <2>1, FloorFacts DEF MinuteOf
<1>5. ASSUME NEW i \in R
      PROVE  Minutes(c)[M[i]][leg] = FoldLeg([k \in {j \in R : M[j] = M[i]} |-> q[k]])
  <2> DEFINE m == FloorToMinute(log[i].time)
             folded == {j \in bars : Key(j) = <<c, m>>}
             P == {j \in R : M[j] = M[i]}
  <2>1. M[i] = m /\ log[i].contract = c /\ i \in bars
    BY DEF MinuteOf, BucketRows
  <2>2. Minutes(c)[m] = MinuteBar(c, m)
    BY <2>1 DEF Minutes
  <2>3. MinuteBar(c, m)[leg] = FoldLeg([k \in folded |-> log[k][leg]])
    BY DEF MinuteBar
  <2>4. folded = P
    <3>1. P \subseteq folded
      BY <2>1 DEF BucketRows, MinuteOf, Key
    <3>2. ASSUME NEW k \in folded PROVE k \in P
      <4>1. k \in bars /\ log[k].contract = c /\ FloorToMinute(log[k].time) = m
        BY DEF Key
      <4>2. log[k].time \in Nat /\ log[i].time \in Nat
        BY <2>1, <4>1, StampFacts DEF Inv, TypeOK
      <4>3. BucketOf(m) = b
        <5>1. b <= log[i].time /\ log[i].time < b + BucketLen
          BY DEF BucketRows
        <5> QED BY <4>2, <5>1, MinutesInBucket
      <4>4. b <= log[k].time /\ log[k].time < b + BucketLen
        BY <4>1, <4>2, <4>3, MinutesInBucket
      <4>5. k \in R
        BY <4>1, <4>4 DEF BucketRows
      <4> QED BY <2>1, <4>1, <4>5 DEF MinuteOf
    <3> QED BY <3>1, <3>2
  <2>5. [k \in folded |-> log[k][leg]] = [k \in P |-> q[k]]
    <3>1. \A k \in P : q[k] = log[k][leg]
      BY DEF PriceOf
    <3> HIDE DEF folded, P, q
    <3> QED BY <2>4, <3>1
  <2> QED BY <2>1, <2>2, <2>3, <2>5
<1> QED BY <1>2, <1>3, <1>4, <1>5 DEF MinutesFolded

\* A final bucket answers with the contract's true high and low, and with its
\* true open and close or none: folding ticks into minutes and minutes into
\* buckets, by different code and around failures and purges, is folding the
\* ticks.
LEMMA AnswersFollow == Inv => AnswersAreTrue
<1> SUFFICES ASSUME Inv, NEW c \in Contracts, NEW i0 \in DOMAIN log,
                    Final(c, BucketOf(log[i0].time)),
                    NEW asked \in (SUBSET Legs) \ {{}},
                    BucketOf(log[i0].time) \in DOMAIN GetOptionOhlc(c, asked)
             PROVE  LET answer == GetOptionOhlc(c, asked)
                        b == BucketOf(log[i0].time)
                    IN  /\ DOMAIN answer[b] = asked
                        /\ \A leg \in asked :
                             LET said == answer[b][leg]
                                 true == TrueLeg(c, b, leg)
                             IN  /\ said.high = true.high /\ said.low = true.low
                                 /\ said.open \in {true.open, NoPrice}
                                 /\ said.close \in {true.close, NoPrice}
  BY DEF AnswersAreTrue
<1> DEFINE table == Minutes(c)
           x == log[i0].time
<1>1. x \in Nat
  BY StampFacts
<1> HIDE DEF x
<1> DEFINE b == BucketOf(x)
           R == BucketRows(c, b)
           rows == RowsOf(table, now, b)
           buckets == {BucketOf(m) : m \in {m \in DOMAIN table : m >= Since(now)}}
           shown == {d \in buckets :
                       \E leg \in asked : FoldRows(table, RowsOf(table, now, d), leg).close # NoPrice}
           answer == GetOptionOhlc(c, asked)
<1>2. Final(c, b) /\ b \in DOMAIN answer /\ b \in Nat /\ Since(now) <= b
  BY <1>1, BucketFacts DEF x, Final
<1>3. answer = [d \in shown |-> [leg \in asked |-> FoldRows(table, RowsOf(table, now, d), leg)]]
  BY DEF GetOptionOhlc, Served
<1>4. b \in shown /\ b \in buckets
  <2> HIDE DEF table, b, buckets
  <2> QED BY <1>2, <1>3
<1>5. answer[b] = [leg \in asked |-> FoldRows(table, rows, leg)]
  <2> HIDE DEF table, b, buckets
  <2> QED BY <1>3, <1>4
<1>6. rows = {MinuteOf(c, b)[i] : i \in R}
  BY <1>1, <1>2, RowsOfBucket
<1>7. rows # {}
  BY <1>4 DEF RowsOf
<1>8. ASSUME NEW leg \in asked
      PROVE  LET said == FoldRows(table, rows, leg)
                 true == TrueLeg(c, b, leg)
             IN  /\ said.high = true.high /\ said.low = true.low
                 /\ said.open \in {true.open, NoPrice}
                 /\ said.close \in {true.close, NoPrice}
  <2>1. TrueLeg(c, b, leg) = FoldLeg(PriceOf(c, b, leg))
    BY <1>2, FinalRowsAreInBars DEF TrueLeg, PriceOf
  <2>2. MinutesFolded(R, MinuteOf(c, b), PriceOf(c, b, leg), table, leg)
    BY <1>1, BucketIsFolded
  <2>3. R # {}
    BY <1>6, <1>7
  <2> HIDE DEF table, b, R, rows
  <2> QED BY <1>6, <2>1, <2>2, <2>3, TwoStageFold
<1> DEFINE true(leg) == TrueLeg(c, b, leg)
<1> HIDE DEF answer, rows, table, R, b
<1>9. /\ DOMAIN answer[b] = asked
      /\ \A leg \in asked :
           /\ answer[b][leg].high = true(leg).high /\ answer[b][leg].low = true(leg).low
           /\ answer[b][leg].open \in {true(leg).open, NoPrice}
           /\ answer[b][leg].close \in {true(leg).close, NoPrice}
  BY <1>5, <1>8
<1> QED BY <1>9 DEF x, b, answer

\* A final bucket with a price for an asked leg is missing from the answer only
\* if its last minute bar has none.
LEMMA GapsFollow == Inv => GapsAreAtTheEnd
<1> SUFFICES ASSUME Inv, NEW c \in Contracts, NEW asked \in (SUBSET Legs) \ {{}},
                    NEW i0 \in OnTime
             PROVE  LET b == BucketOf(log[i0].time)
                        rows == {j \in bars : log[j].contract = c /\ BucketOf(log[j].time) = b}
                        last == {j \in rows : \A k \in rows : FloorToMinute(log[k].time) <= log[j].time}
                    IN  /\ log[i0].contract = c /\ Final(c, b)
                        /\ \E leg \in asked : log[i0][leg] # NoPrice
                        /\ b \notin DOMAIN GetOptionOhlc(c, asked)
                        => last # {} /\ \A j \in last, leg \in asked : log[j][leg] = NoPrice
  BY DEF GapsAreAtTheEnd
<1> DEFINE table == Minutes(c)
           x == log[i0].time
<1>1. x \in Nat /\ i0 \in DOMAIN log
  BY StampFacts DEF OnTime
<1> HIDE DEF x
<1> DEFINE b == BucketOf(x)
           R == BucketRows(c, b)
           M == MinuteOf(c, b)
           rows == {j \in bars : log[j].contract = c /\ BucketOf(log[j].time) = b}
           last == {j \in rows : \A k \in rows : FloorToMinute(log[k].time) <= log[j].time}
           buckets == {BucketOf(m) : m \in {m \in DOMAIN table : m >= Since(now)}}
           shown == {d \in buckets :
                       \E leg \in asked : FoldRows(table, RowsOf(table, now, d), leg).close # NoPrice}
<1>2. SUFFICES ASSUME log[i0].contract = c, Final(c, b), b \notin DOMAIN GetOptionOhlc(c, asked)
               PROVE  last # {} /\ \A j \in last, leg \in asked : log[j][leg] = NoPrice
  BY DEF x
<1>3. b \in Nat /\ Since(now) <= b /\ \A leg \in asked : leg \in Legs
  BY <1>1, <1>2, BucketFacts DEF Final
<1>4. rows = R
  <2>1. \A j \in bars : BucketOf(log[j].time) = b <=> b <= log[j].time /\ log[j].time < b + BucketLen
    BY <1>1, BucketFacts, StampFacts DEF Inv, TypeOK
  <2> QED BY <2>1 DEF BucketRows
<1>5. i0 \in R
  <2>1. b <= log[i0].time /\ log[i0].time < b + BucketLen
    BY <1>1, BucketFacts DEF x
  <2>2. i0 \in OnTime \cup bars
    OBVIOUS
  <2> QED BY <1>2, <1>3, <2>1, <2>2, FinalRowsAreInBars
<1>6. R \subseteq DOMAIN log
  BY DEF BucketRows, Inv, TypeOK
<1>7. \A leg \in asked : MinutesFolded(R, M, PriceOf(c, b, leg), table, leg)
  BY <1>1, <1>3, BucketIsFolded
<1>8. /\ \A j \in R : M[j] = FloorToMinute(log[j].time) /\ M[j] \in Nat /\ log[j].time \in Nat
      /\ IsFiniteSet(R) /\ R \subseteq Int
      /\ \A j, k \in R : j <= k => M[j] <= M[k]
  <2>1. \A j \in R : M[j] = FloorToMinute(log[j].time) /\ log[j].time \in Nat
    BY <1>6, StampFacts DEF MinuteOf
  <2>2. PICK leg \in asked : TRUE
    OBVIOUS
  <2> HIDE DEF R, M
  <2> QED BY <1>7, <2>1, <2>2, FloorFacts DEF MinutesFolded
<1>9. rows = R /\ RowsOf(table, now, b) = {M[i] : i \in R}
  BY <1>1, <1>3, <1>4, RowsOfBucket
<1>10. b \in buckets
  <2>1. M[i0] \in RowsOf(table, now, b)
    BY <1>5, <1>9
  <2> QED BY <2>1 DEF RowsOf
<1>11. DOMAIN GetOptionOhlc(c, asked) = shown
  BY DEF GetOptionOhlc, Served
<1>12. \A leg \in asked : FoldRows(table, {M[i] : i \in R}, leg).close = NoPrice
  <2> HIDE DEF buckets, table, b, R, M
  <2> QED BY <1>2, <1>9, <1>10, <1>11
<1>13. last # {}
  <2> HIDE DEF R, M
  <2>1. PICK j \in R : \A k \in R : k <= j
    BY <1>5, <1>8, GreatestInteger
  <2>2. \A k \in R : M[k] <= M[j]
    BY <1>8, <2>1
  <2>3. M[j] <= log[j].time
    BY <1>8, FloorFacts
  <2>4. \A k \in R : FloorToMinute(log[k].time) <= log[j].time
    BY <1>8, <2>2, <2>3
  <2>5. j \in last
    <3> HIDE DEF rows
    <3> QED BY <1>9, <2>4
  <2> QED BY <2>5
<1>14. ASSUME NEW j \in last, NEW leg \in asked PROVE log[j][leg] = NoPrice
  <2> HIDE DEF M
  <2>1. j \in R /\ \A k \in R : FloorToMinute(log[k].time) <= log[j].time
    <3> HIDE DEF rows, R
    <3> QED BY <1>9
  <2> HIDE DEF R
  <2>2. ASSUME NEW k \in R PROVE M[k] <= M[j]
    <3>1. FloorToMinute(M[k]) = M[k] /\ M[k] <= log[j].time
      BY <1>8, <2>1, FloorFacts
    <3> QED BY <1>8, <2>1, <3>1, FloorFacts
  <2> DEFINE q == PriceOf(c, b, leg)
  <2>3. MinutesFolded(R, M, q, table, leg) /\ FoldRows(table, {M[i] : i \in R}, leg).close = NoPrice
    BY <1>7, <1>12
  <2>4. q[j] = log[j][leg]
    BY <2>1 DEF PriceOf, R
  <2> HIDE DEF q, table
  <2>5. q[j] = NoPrice
    BY <2>1, <2>2, <2>3, GapAtTheEnd
  <2> QED BY <2>4, <2>5
<1> QED BY <1>13, <1>14

-----------------------------------------------------------------------------
(* Theorems *)

\* The inductive invariant holds in every behaviour of the model.
THEOREM Invariance == Spec => []Inv
BY InvInit, InvStep, PTL DEF Spec

\* The variables keep to their domains; no table holds a row never stamped.
THEOREM TypeCorrect == Spec => []TypeOK
BY Invariance, PTL DEF Inv

\* The purge holds no cutoff younger than the keep, and what it has deleted so
\* far was below the watermark and older than the keep.
Retained ==
    /\ purge.pc = "deleteTicks" => purge.cutoff <= now - RawKeep
    /\ \A i \in OnTime : i \in ticks \/ (log[i].time < wm /\ log[i].time < now - RawKeep)

\* The keep is a property of the table of raw rows alone.
LEMMA RetainedStep == Inv /\ Retained /\ [Next]_vars => Retained'
<1> SUFFICES ASSUME Inv, Retained, [Next]_vars PROVE Retained'
  OBVIOUS
<1>0. /\ RawKeep \in Nat /\ now \in Nat /\ wm \in Nat /\ purge.cutoff \in Int
      /\ \A i \in DOMAIN log : log[i].time \in Nat
      /\ OnTime \subseteq DOMAIN log
  BY RowFacts, KeepAssumption DEF Inv, OnTime
<1>1. CASE AdvanceClock
  BY <1>0, <1>1 DEF AdvanceClock, Retained, OnTime, tables, history
<1>2. ASSUME NEW c \in Quoted, NEW quote \in Quotes, HandleMessage(c, quote) PROVE Retained'
  <2> DEFINE row == [time |-> now, contract |-> c, CE |-> quote.CE, PE |-> quote.PE]
  <2>1. row \in Row /\ log' = Append(log, row) /\ log \in Seq(Row)
    BY <1>2 DEF Inv, TypeOK, LogOrdered, Row, Quoted, HandleMessage
  <2> HIDE DEF row
  <2>2. /\ DOMAIN log' = DOMAIN log \cup {Len(log) + 1}
        /\ \A i \in DOMAIN log : log'[i] = log[i]
    BY <2>1, AppendFacts
  <2>3. OnTime' = OnTime
    BY <1>2, <2>2 DEF HandleMessage, OnTime, history
  <2> QED BY <1>0, <1>2, <2>2, <2>3 DEF HandleMessage, Retained, source, tables
<1>3. ASSUME NEW rows \in SUBSET inflight, Flush(rows) PROVE Retained'
  <2>1. OnTime' \subseteq OnTime \cup rows
    BY <1>3 DEF Flush, OnTime
  <2> QED BY <1>3, <2>1 DEF Flush, Retained, source
<1>4. ASSUME NEW rows \in SUBSET inflight, FlushFail(rows) PROVE Retained'
  <2>1. OnTime' = OnTime
    BY <1>4 DEF FlushFail, OnTime
  <2> QED BY <1>4, <2>1 DEF FlushFail, Retained, source, tables
<1>5. CASE Restart
  <2>1. OnTime' = OnTime
    BY <1>5 DEF Restart, OnTime
  <2> QED BY <1>5, <2>1 DEF Restart, Retained, PurgeAt, tables
<1>6. CASE AggRead \/ AggSelect \/ AggCommit \/ AggFail
  BY <1>6 DEF AggRead, AggSelect, AggCommit, AggFail, Fault, Retained, OnTime, source, tables, history
<1>7. CASE AggAdvance
  <2>1. wm' \in Nat /\ wm <= wm'
    BY <1>7, RowFacts DEF Inv, AggAdvance, Boundaries
  <2> QED BY <1>0, <1>7, <2>1 DEF AggAdvance, Retained, OnTime, source, history
<1>8. CASE PurgeTicksRead
  <2>1. Min({now - RawKeep, wm}) <= now - RawKeep
    BY <1>0, MinOfTwo
  <2>2. purge'.pc = "deleteTicks" => purge'.cutoff <= now - RawKeep
    BY <1>8, <2>1 DEF PurgeTicksRead, PurgeAt
  <2> QED BY <1>8, <2>2 DEF PurgeTicksRead, Retained, OnTime, source, tables, history
<1>9. CASE PurgeTicksDelete
  <2>1. purge.cutoff <= wm /\ purge.cutoff <= now - RawKeep
    BY <1>9 DEF PurgeTicksDelete, Inv, Boundaries, Retained
  <2>2. OnTime' = OnTime
    BY <1>9 DEF PurgeTicksDelete, OnTime, history
  <2> QED BY <1>0, <1>9, <2>1, <2>2 DEF PurgeTicksDelete, Retained, PurgeAt, source
<1>10. CASE PurgeExpired \/ PurgeFail
  BY <1>10 DEF PurgeExpired, PurgeFail, Fault, Retained, OnTime, PurgeAt, source, tables, history
<1>11. CASE UNCHANGED vars
  BY <1>11 DEF vars, Retained, OnTime, source, tables, history
<1> QED
  BY <1>1, <1>2, <1>3, <1>4, <1>5, <1>6, <1>7, <1>8, <1>9, <1>10, <1>11, BatchFacts
     DEF Next, IngestStep, AggStep, PurgeStep

\* A row stored in time is raw until it is below the watermark and older than
\* its keep, and below the watermark it is in a bar until the contract's grace
\* is over: neither purge takes a row too early, also when a pass is repeated
\* after its bars were purged.
THEOREM NoRowPurgedEarly == Spec => []RowsKept
<1>1. Init => Retained
  BY DEF Init, Retained, OnTime, PurgeAt
<1>2. Inv /\ Retained => RowsKept
  BY RowFacts DEF Inv, RowsAccounted, Retained, Accounted, OnTime, RowsKept
<1> QED BY Invariance, RetainedStep, <1>1, <1>2, PTL DEF Spec

\* A bar changes only by gaining rows, and leaves only with its contract.
THEOREM BarsOutliveTheirContract == Spec => BarsLeaveOnlyExpired
<1> DEFINE Stay == \A i \in bars \ bars' : GraceOver(log[i].contract)
<1>1. ASSUME Inv, [Next]_vars PROVE [Stay]_vars
  <2>1. CASE AggCommit
    BY <1>1, <2>1, CommitKeepsBars
  <2>2. CASE PurgeExpired
    BY <1>1, <2>2, ExpiredFacts DEF PurgeExpired
  <2>3. CASE UNCHANGED bars
    BY <2>3
  <2>4. CASE UNCHANGED vars
    BY <2>4
  <2> QED
    BY <1>1, <2>1, <2>2, <2>3, <2>4
       DEF Next, IngestStep, AggStep, PurgeStep, AdvanceClock, HandleMessage, Flush, FlushFail,
           Restart, AggRead, AggSelect, AggAdvance, AggFail, PurgeTicksRead, PurgeTicksDelete,
           PurgeFail, tables
<1>2. Spec => [][Stay]_vars
  BY Invariance, <1>1, PTL DEF Spec
<1> QED BY <1>2 DEF BarsLeaveOnlyExpired

\* A final bucket answers with the contract's true high and low, and with its
\* true open and close or none.
THEOREM AnswersHold == Spec => []AnswersAreTrue
BY Invariance, AnswersFollow, PTL

\* A final bucket with a price is missing from the answer only if its last
\* minute bar has none.
THEOREM GapsHold == Spec => []GapsAreAtTheEnd
BY Invariance, GapsFollow, PTL

=============================================================================
