------------------------ MODULE IndexPipelineProofs ------------------------
(***************************************************************************)
(* Proofs about IndexPipeline for every set of ticks, every length of a    *)
(* minute and a day and every retention period.                            *)
(***************************************************************************)
EXTENDS IndexQuery, OhlcQueryProofs, TLAPS

\* A tick is in one place: on its way, stored, or lost.
OnePlace ==
    /\ inflight \cap ticks = {}
    /\ inflight \cap dropped = {}
    /\ ticks \cap dropped = {}

\* The watermarks and the cutoffs of running passes are bucket boundaries, in
\* the order WatermarkOrder states; the cutoffs the purge holds are gated.
Boundaries ==
    /\ WatermarkOrder
    /\ FloorToMinute(wm1m) = wm1m
    /\ FloorToDay(wm1d) = wm1d
    /\ FloorToMinute(agg.cutoff) = agg.cutoff
    /\ FloorToDay(roll.cutoff) = roll.cutoff
    /\ agg.pc # "idle" => agg.since <= agg.cutoff
    /\ roll.pc # "idle" => roll.since <= roll.cutoff
    /\ purge.pc = "deleteTicks" => purge.cutoff <= wm1m
    /\ purge.pc = "deleteBars" => purge.cutoff <= wm1d

\* Bars above the watermarks, which a pass that failed may have left behind.
OpenBars ==
    /\ \A t \in bars1m : stamp[t] < FloorToMinute(now)
    /\ \A t \in bars1m : stamp[t] >= wm1m => t \in ticks
    /\ \A t \in bars1d : stamp[t] < FloorToDay(wm1m)
    /\ \A t \in bars1d : stamp[t] >= wm1d => t \in bars1m

InPass(job, t) == job.since <= stamp[t] /\ stamp[t] < job.cutoff

\* What a pass has read still covers everything that belongs in its range.
AggCovers ==
    /\ agg.pc = "commit" =>
         /\ agg.rows \subseteq ticks
         /\ \A t \in agg.rows : InPass(agg, t)
         /\ \A t \in OnTime \cup bars1m : InPass(agg, t) => t \in agg.rows
    /\ agg.pc = "advance" =>
         \A t \in OnTime : InPass(agg, t) => t \in bars1m

RollCovers ==
    /\ roll.pc = "commit" => roll.rows = {t \in bars1m : InPass(roll, t)}
    /\ roll.pc = "advance" =>
         \A t \in bars1m : InPass(roll, t) => t \in bars1d \cup expired

\* A tick stored in time is raw until it is in a bar.
Accounted ==
    \A t \in OnTime : IF stamp[t] >= wm1m THEN t \in ticks ELSE t \in InABar

Inv ==
    /\ TypeOK
    /\ OnePlace
    /\ Boundaries
    /\ OpenBars
    /\ AggCovers
    /\ RollCovers
    /\ Accounted
    /\ RolledUp
    /\ WholeMinuteBars
    /\ WholeDayBars

-----------------------------------------------------------------------------
(* Bucket boundaries *)

\* The two lengths that times are floored to.
LEMMA UnitLengths == MinuteLen \in Nat \ {0} /\ DayLen \in Nat \ {0}
<1>1. MinuteLen \in Nat \ {0} /\ DayMinutes \in Nat \ {0}
  BY LengthsAssumption
<1>2. DayLen \in Nat /\ DayLen # 0
  BY <1>1 DEF DayLen
<1> QED BY <1>1, <1>2

\* What the proofs below use of the two floors; the last fact says that a day
\* boundary is a minute boundary.
LEMMA FloorFacts ==
    /\ \A x \in Nat : FloorToMinute(x) \in Nat /\ FloorToMinute(x) <= x
    /\ \A x \in Nat : FloorToMinute(FloorToMinute(x)) = FloorToMinute(x)
    /\ \A x, y \in Nat : x <= y => FloorToMinute(x) <= FloorToMinute(y)
    /\ \A x \in Nat : FloorToDay(x) \in Nat /\ FloorToDay(x) <= x
    /\ \A x \in Nat : FloorToDay(FloorToDay(x)) = FloorToDay(x)
    /\ \A x, y \in Nat : x <= y => FloorToDay(x) <= FloorToDay(y)
    /\ \A x \in Nat : FloorToMinute(FloorToDay(x)) = FloorToDay(x)
<1>1. MinuteLen \in Nat \ {0} /\ DayMinutes \in Nat \ {0}
  BY LengthsAssumption
<1>2. DayLen \in Nat \ {0}
  BY UnitLengths
<1>3. ASSUME NEW x \in Nat
      PROVE  /\ FloorToMinute(x) \in Nat /\ FloorToMinute(x) <= x
             /\ FloorToMinute(FloorToMinute(x)) = FloorToMinute(x)
             /\ \A y \in Nat : x <= y => FloorToMinute(x) <= FloorToMinute(y)
  <2>1. /\ FloorToMinute(x) \in Nat /\ FloorToMinute(x) <= x
        /\ FloorToMinute(x) % MinuteLen = 0
        /\ \A y \in Nat : x <= y => FloorToMinute(x) <= FloorToMinute(y)
    BY <1>1, FloorTo DEF FloorToMinute
  <2>2. FloorToMinute(FloorToMinute(x)) = FloorToMinute(x) - (FloorToMinute(x) % MinuteLen)
    BY DEF FloorToMinute
  <2> QED BY <2>1, <2>2
<1>4. ASSUME NEW x \in Nat
      PROVE  /\ FloorToDay(x) \in Nat /\ FloorToDay(x) <= x
             /\ FloorToDay(FloorToDay(x)) = FloorToDay(x)
             /\ \A y \in Nat : x <= y => FloorToDay(x) <= FloorToDay(y)
             /\ FloorToMinute(FloorToDay(x)) = FloorToDay(x)
  <2>1. /\ FloorToDay(x) \in Nat /\ FloorToDay(x) <= x
        /\ FloorToDay(x) % DayLen = 0
        /\ \A y \in Nat : x <= y => FloorToDay(x) <= FloorToDay(y)
    BY <1>2, FloorTo DEF FloorToDay
  <2>2. FloorToDay(FloorToDay(x)) = FloorToDay(x) - (FloorToDay(x) % DayLen)
    BY DEF FloorToDay
  <2>3. PICK k \in Nat : FloorToDay(x) = DayLen * k
    BY <1>2, FloorTo DEF FloorToDay
  <2>4. DayMinutes * k \in Nat /\ FloorToDay(x) = MinuteLen * (DayMinutes * k)
    BY <1>1, <2>3 DEF DayLen
  <2>5. FloorToDay(x) % MinuteLen = 0
    BY <1>1, <2>4, MultipleRemainder
  <2>6. FloorToMinute(FloorToDay(x)) = FloorToDay(x) - (FloorToDay(x) % MinuteLen)
    BY DEF FloorToMinute
  <2> QED BY <2>1, <2>2, <2>5, <2>6
<1> QED BY <1>3, <1>4

\* The day of a time is the day of its minute.
LEMMA DayOfMinute == \A x \in Nat : FloorToDay(FloorToMinute(x)) = FloorToDay(x)
<1> SUFFICES ASSUME NEW x \in Nat PROVE FloorToDay(FloorToMinute(x)) = FloorToDay(x)
  OBVIOUS
<1>1. /\ FloorToMinute(x) \in Nat /\ FloorToMinute(x) <= x
      /\ FloorToDay(x) \in Nat /\ FloorToDay(x) <= x
      /\ FloorToMinute(FloorToDay(x)) = FloorToDay(x)
      /\ FloorToDay(FloorToDay(x)) = FloorToDay(x)
  BY FloorFacts
<1>2. FloorToDay(x) <= FloorToMinute(x)
  BY <1>1, FloorFacts
<1>3. FloorToDay(x) <= FloorToDay(FloorToMinute(x)) /\ FloorToDay(FloorToMinute(x)) <= FloorToDay(x)
  BY <1>1, <1>2, FloorFacts
<1>4. FloorToDay(FloorToMinute(x)) \in Nat
  BY <1>1, FloorFacts
<1> QED BY <1>1, <1>3, <1>4

-----------------------------------------------------------------------------
(* The inductive invariant *)

\* The tables are empty and every job is idle: nothing to account for.
LEMMA InvInit == Init => Inv
<1> USE DEF Init
<1> SUFFICES ASSUME Init PROVE Inv
  OBVIOUS
<1>1. 0 \in Nat /\ FloorToMinute(0) = 0 /\ FloorToDay(0) = 0
  BY FloorFacts
<1>2. TypeOK
  BY BoundsAssumption DEF TypeOK, IdleJob, PurgeAt, NoStamp
<1>3. OnePlace /\ Boundaries
  BY <1>1 DEF OnePlace, Boundaries, WatermarkOrder, IdleJob, PurgeAt
<1>4. OpenBars /\ AggCovers /\ RollCovers
  BY DEF OpenBars, AggCovers, RollCovers, IdleJob
<1>5. Accounted /\ RolledUp /\ WholeMinuteBars /\ WholeDayBars
  BY DEF Accounted, OnTime, RolledUp, WholeMinuteBars, WholeDayBars
<1> QED BY <1>2, <1>3, <1>4, <1>5 DEF Inv

\* One step per action; the conjuncts an action cannot disturb come last.
LEMMA InvStep == ASSUME Inv, [Next]_vars PROVE Inv'
<1> USE DEF Inv
<1>1. CASE AdvanceClock
  <2>1. TypeOK'
    BY <1>1, BoundsAssumption DEF TypeOK, AdvanceClock, tables, jobs, history
  <2>2. Boundaries'
    BY <1>1, FloorFacts
       DEF TypeOK, Boundaries, WatermarkOrder, AdvanceClock, tables, jobs
  <2>3. OpenBars'
    BY <1>1, FloorFacts DEF TypeOK, OpenBars, AdvanceClock, tables
  <2>4. /\ OnePlace' /\ AggCovers' /\ RollCovers'
        /\ Accounted' /\ RolledUp' /\ WholeMinuteBars'
        /\ WholeDayBars'
    BY <1>1
       DEF AdvanceClock, tables, jobs, history, OnePlace, AggCovers, OnTime,
           InPass, RollCovers, Accounted, InABar, RolledUp,
           WholeMinuteBars, MinuteKey, WholeDayBars, DayKey
  <2> QED BY <2>1, <2>2, <2>3, <2>4 DEF Inv
<1>2. ASSUME NEW t \in Ticks, HandleMessage(t) PROVE Inv'
  <2>1. TypeOK'
    BY <1>2 DEF TypeOK, HandleMessage, tables, jobs, history, NoStamp
  <2>2. OnePlace'
    BY <1>2 DEF TypeOK, OnePlace, HandleMessage, tables, history
  <2>3. OpenBars'
    BY <1>2 DEF TypeOK, OpenBars, HandleMessage, tables
  <2>4. AggCovers'
    BY <1>2
       DEF TypeOK, InPass, AggCovers, OnTime, HandleMessage, tables, jobs,
           history
  <2>5. RollCovers'
    BY <1>2 DEF TypeOK, InPass, RollCovers, HandleMessage, tables, jobs, history
  <2>6. Accounted'
    BY <1>2 DEF OnTime, Accounted, InABar, HandleMessage, tables, history
  <2>7. RolledUp'
    BY <1>2 DEF TypeOK, RolledUp, HandleMessage, tables, history
  <2>8. WholeMinuteBars'
    BY <1>2 DEF TypeOK, WholeMinuteBars, MinuteKey, HandleMessage, tables, history
  <2>9. WholeDayBars'
    BY <1>2 DEF TypeOK, WholeDayBars, DayKey, HandleMessage, tables
  <2>10. Boundaries'
    BY <1>2 DEF HandleMessage, tables, jobs, Boundaries, WatermarkOrder
  <2> QED BY <2>1, <2>2, <2>3, <2>4, <2>5, <2>6, <2>7, <2>8, <2>9, <2>10 DEF Inv
<1>3. ASSUME NEW rows \in SUBSET inflight, Flush(rows) PROVE Inv'
  <2>1. TypeOK'
    BY <1>3 DEF TypeOK, Flush, jobs
  <2>2. OnePlace'
    BY <1>3 DEF OnePlace, Flush
  <2>3. OpenBars'
    BY <1>3 DEF OpenBars, Flush
  <2>4. AggCovers'
    BY <1>3, FloorFacts
       DEF TypeOK, Boundaries, WatermarkOrder, InPass, AggCovers, OnTime, Flush,
           jobs
  <2>5. Accounted'
    BY <1>3, FloorFacts
       DEF TypeOK, Boundaries, WatermarkOrder, OnTime, Accounted, InABar,
           Flush
  <2>6. WholeMinuteBars'
    BY <1>3, FloorFacts DEF TypeOK, OpenBars, WholeMinuteBars, MinuteKey, Flush
  <2>7. Boundaries' /\ RollCovers' /\ RolledUp' /\ WholeDayBars'
    BY <1>3
       DEF Flush, jobs, Boundaries, WatermarkOrder, RollCovers, InPass, RolledUp,
           WholeDayBars, DayKey
  <2> QED BY <2>1, <2>2, <2>3, <2>4, <2>5, <2>6, <2>7 DEF Inv
<1>4. ASSUME NEW rows \in SUBSET inflight, FlushFail(rows) PROVE Inv'
  <2>1. TypeOK'
    BY <1>4, BoundsAssumption DEF TypeOK, FlushFail, Fault, tables, jobs
  <2>2. OnePlace'
    BY <1>4 DEF OnePlace, FlushFail, tables
  <2>3. AggCovers'
    BY <1>4 DEF InPass, AggCovers, OnTime, FlushFail, tables, jobs
  <2>4. Accounted'
    BY <1>4 DEF OnTime, RollCovers, Accounted, InABar, FlushFail, tables
  <2>5. /\ Boundaries' /\ OpenBars' /\ RollCovers'
        /\ RolledUp' /\ WholeMinuteBars' /\ WholeDayBars'
    BY <1>4
       DEF FlushFail, tables, jobs, Boundaries, WatermarkOrder, OpenBars,
           RollCovers, InPass, RolledUp, WholeMinuteBars, MinuteKey,
           WholeDayBars, DayKey
  <2> QED BY <2>1, <2>2, <2>3, <2>4, <2>5 DEF Inv
<1>5. CASE Crash
  <2>1. TypeOK'
    BY <1>5, BoundsAssumption DEF TypeOK, Crash, Fault, IdleJob, PurgeAt, tables
  <2>2. OnePlace'
    BY <1>5 DEF OnePlace, Crash, tables
  <2>3. Boundaries'
    BY <1>5, FloorFacts
       DEF Boundaries, WatermarkOrder, Crash, IdleJob, PurgeAt, tables
  <2>4. AggCovers'
    BY <1>5 DEF AggCovers, Accounted, Crash, IdleJob
  <2>5. RollCovers'
    BY <1>5 DEF RollCovers, Crash, IdleJob
  <2>6. Accounted'
    BY <1>5 DEF OnTime, RollCovers, Accounted, InABar, Crash, tables
  <2>7. OpenBars' /\ RolledUp' /\ WholeMinuteBars' /\ WholeDayBars'
    BY <1>5
       DEF Crash, tables, OpenBars, RolledUp, WholeMinuteBars, MinuteKey,
           WholeDayBars, DayKey
  <2> QED BY <2>1, <2>2, <2>3, <2>4, <2>5, <2>6, <2>7 DEF Inv
<1>6. CASE AggRead
  <2>1. TypeOK'
    BY <1>6, FloorFacts DEF TypeOK, AggRead, tables, history
  <2>2. Boundaries'
    BY <1>6, FloorFacts DEF TypeOK, Boundaries, WatermarkOrder, AggRead, tables
  <2>3. AggCovers'
    BY <1>6 DEF AggCovers, InABar, AggRead
  <2>4. /\ OnePlace' /\ OpenBars' /\ RollCovers'
        /\ Accounted' /\ RolledUp' /\ WholeMinuteBars'
        /\ WholeDayBars'
    BY <1>6
       DEF AggRead, tables, history, OnePlace, OpenBars, RollCovers, InPass,
           Accounted, OnTime, InABar, RolledUp, WholeMinuteBars, MinuteKey,
           WholeDayBars, DayKey
  <2> QED BY <2>1, <2>2, <2>3, <2>4 DEF Inv
<1>7. CASE AggSelect
  <2>1. TypeOK'
    BY <1>7 DEF TypeOK, AggSelect, AggRows, tables, history
  <2>2. Boundaries'
    BY <1>7 DEF Boundaries, WatermarkOrder, AggSelect, tables
  <2>3. AggCovers'
    BY <1>7
       DEF Boundaries, WatermarkOrder, OpenBars, InPass, AggCovers, OnTime,
           Accounted, AggSelect, AggRows, tables, history
  <2>4. /\ OnePlace' /\ OpenBars' /\ RollCovers'
        /\ Accounted' /\ RolledUp' /\ WholeMinuteBars'
        /\ WholeDayBars'
    BY <1>7
       DEF AggSelect, tables, history, OnePlace, OpenBars, RollCovers, InPass,
           Accounted, OnTime, InABar, RolledUp, WholeMinuteBars, MinuteKey,
           WholeDayBars, DayKey
  <2> QED BY <2>1, <2>2, <2>3, <2>4 DEF Inv
<1>8. CASE AggCommit
  <2>1. TypeOK'
    BY <1>8 DEF TypeOK, AggCovers, AggCommit, UpsertMinutes, history
  <2>2. Boundaries'
    BY <1>8 DEF Boundaries, WatermarkOrder, AggCommit
  <2>3. OpenBars'
    BY <1>8, FloorFacts
       DEF TypeOK, Boundaries, WatermarkOrder, OpenBars, InPass, AggCovers,
           AggCommit, UpsertMinutes, MinuteKey
  <2>4. AggCovers'
    BY <1>8 DEF InPass, AggCovers, OnTime, AggCommit, UpsertMinutes, history
  <2>5. RollCovers'
    BY <1>8, FloorFacts
       DEF TypeOK, Boundaries, WatermarkOrder, InPass, AggCovers, RollCovers,
           AggCommit, UpsertMinutes, MinuteKey, history
  <2>6. Accounted'
    BY <1>8, FloorFacts
       DEF TypeOK, Boundaries, WatermarkOrder, InPass, AggCovers, OnTime,
           Accounted, InABar, AggCommit, UpsertMinutes, MinuteKey, history
  <2>7. RolledUp'
    BY <1>8, FloorFacts
       DEF TypeOK, Boundaries, WatermarkOrder, InPass, AggCovers, RolledUp,
           AggCommit, UpsertMinutes, history
  <2>8. WholeMinuteBars'
    <3> SUFFICES ASSUME NEW t \in bars1m', NEW u \in ticks \ late,
                        MinuteKey(t) = MinuteKey(u)
                 PROVE  u \in bars1m'
      BY <1>8 DEF WholeMinuteBars, MinuteKey, AggCommit, history
    <3>1. CASE t \in agg.rows
      <4>1. InPass(agg, t) /\ u \in OnTime
        BY <1>8, <3>1 DEF AggCommit, AggCovers, OnePlace, OnTime, TypeOK
      <4>2. FloorToMinute(stamp[u]) = FloorToMinute(stamp[t])
        BY DEF MinuteKey
      <4>3. InPass(agg, u)
        <5>1. /\ agg.since \in Nat /\ agg.cutoff \in Nat
              /\ FloorToMinute(agg.since) = agg.since
              /\ FloorToMinute(agg.cutoff) = agg.cutoff
          BY <1>8 DEF AggCommit, Boundaries, WatermarkOrder, TypeOK
        <5>2. stamp[t] \in Nat /\ stamp[u] \in Nat
          BY <1>8, <3>1 DEF AggCommit, AggCovers, TypeOK, NoStamp
        <5> QED BY <4>1, <4>2, <5>1, <5>2, FloorFacts DEF InPass
      <4> QED BY <1>8, <4>1, <4>3 DEF AggCommit, AggCovers, UpsertMinutes
    <3>2. CASE t \notin agg.rows
      <4>1. t \in bars1m /\ u \in bars1m
        BY <1>8, <3>2 DEF AggCommit, UpsertMinutes, WholeMinuteBars
      <4> QED BY <1>8, <3>2, <4>1 DEF AggCommit, UpsertMinutes
    <3> QED BY <3>1, <3>2
  <2>9. WholeDayBars'
    BY <1>8, FloorFacts
       DEF TypeOK, Boundaries, WatermarkOrder, OpenBars, InPass, AggCovers,
           WholeDayBars, DayKey, AggCommit, UpsertMinutes
  <2>10. OnePlace'
    BY <1>8 DEF AggCommit, history, OnePlace
  <2> QED BY <2>1, <2>2, <2>3, <2>4, <2>5, <2>6, <2>7, <2>8, <2>9, <2>10 DEF Inv
<1>9. CASE AggAdvance
  <2>1. TypeOK'
    BY <1>9 DEF TypeOK, AggAdvance, IdleJob, history
  <2>2. Boundaries'
    BY <1>9, FloorFacts DEF TypeOK, Boundaries, WatermarkOrder, AggAdvance, IdleJob
  <2>3. OpenBars'
    BY <1>9, FloorFacts DEF TypeOK, Boundaries, WatermarkOrder, OpenBars, AggAdvance
  <2>4. AggCovers'
    BY <1>9 DEF AggCovers, InABar, AggAdvance, IdleJob
  <2>5. Accounted'
    BY <1>9
       DEF TypeOK, Boundaries, WatermarkOrder, InPass, AggCovers, OnTime,
           Accounted, InABar, AggAdvance, history
  <2>6. OnePlace' /\ RollCovers' /\ RolledUp' /\ WholeMinuteBars' /\ WholeDayBars'
    BY <1>9
       DEF AggAdvance, history, OnePlace, RollCovers, InPass, RolledUp,
           WholeMinuteBars, MinuteKey, WholeDayBars, DayKey
  <2> QED BY <2>1, <2>2, <2>3, <2>4, <2>5, <2>6 DEF Inv
<1>10. CASE AggFail
  <2>1. TypeOK'
    BY <1>10, BoundsAssumption DEF TypeOK, AggFail, Fault, IdleJob, tables, history
  <2>2. Boundaries'
    BY <1>10, FloorFacts DEF Boundaries, WatermarkOrder, AggFail, IdleJob, tables
  <2>3. AggCovers'
    BY <1>10 DEF AggCovers, Accounted, AggFail, IdleJob
  <2>4. /\ OnePlace' /\ OpenBars' /\ RollCovers'
        /\ Accounted' /\ RolledUp' /\ WholeMinuteBars'
        /\ WholeDayBars'
    BY <1>10
       DEF AggFail, tables, history, OnePlace, OpenBars, RollCovers, InPass,
           Accounted, OnTime, InABar, RolledUp, WholeMinuteBars, MinuteKey,
           WholeDayBars, DayKey
  <2> QED BY <2>1, <2>2, <2>3, <2>4 DEF Inv
<1>11. CASE RollRead
  <2>1. TypeOK'
    BY <1>11, FloorFacts DEF TypeOK, RollRead, tables, history
  <2>2. Boundaries'
    BY <1>11, FloorFacts DEF TypeOK, Boundaries, WatermarkOrder, RollRead, tables
  <2>3. RollCovers'
    BY <1>11 DEF RollCovers, RollRead
  <2>4. /\ OnePlace' /\ OpenBars' /\ AggCovers'
        /\ Accounted' /\ RolledUp' /\ WholeMinuteBars'
        /\ WholeDayBars'
    BY <1>11
       DEF RollRead, tables, history, OnePlace, OpenBars, AggCovers, OnTime,
           InPass, Accounted, InABar, RolledUp, WholeMinuteBars, MinuteKey,
           WholeDayBars, DayKey
  <2> QED BY <2>1, <2>2, <2>3, <2>4 DEF Inv
<1>12. CASE RollSelect
  <2>1. TypeOK'
    BY <1>12 DEF TypeOK, RollSelect, RollRows, tables, history
  <2>2. Boundaries'
    BY <1>12 DEF Boundaries, WatermarkOrder, RollSelect, tables
  <2>3. RollCovers'
    <3>1. \A t \in bars1m : /\ roll.since <= FloorToMinute(stamp[t]) <=> roll.since <= stamp[t]
                            /\ FloorToMinute(stamp[t]) < roll.cutoff <=> stamp[t] < roll.cutoff
      <4>1. FloorToMinute(roll.since) = roll.since /\ FloorToMinute(roll.cutoff) = roll.cutoff
        BY <1>12, FloorFacts DEF RollSelect, Boundaries, WatermarkOrder, TypeOK
      <4>2. roll.since \in Nat /\ roll.cutoff \in Nat /\ \A t \in bars1m : stamp[t] \in Nat
        BY DEF TypeOK, NoStamp
      <4> QED BY <4>1, <4>2, FloorFacts
    <3> QED BY <1>12, <3>1
       DEF RollSelect, RollRows, RollCovers, InPass, TypeOK, tables, history
  <2>4. /\ OnePlace' /\ OpenBars' /\ AggCovers'
        /\ Accounted' /\ RolledUp' /\ WholeMinuteBars'
        /\ WholeDayBars'
    BY <1>12
       DEF RollSelect, tables, history, OnePlace, OpenBars, AggCovers, OnTime,
           InPass, Accounted, InABar, RolledUp, WholeMinuteBars, MinuteKey,
           WholeDayBars, DayKey
  <2> QED BY <2>1, <2>2, <2>3, <2>4 DEF Inv
<1>13. CASE RollCommit
  <2>1. TypeOK'
    BY <1>13 DEF TypeOK, RollCovers, RollCommit, UpsertDays, history
  <2>2. Boundaries'
    BY <1>13 DEF Boundaries, WatermarkOrder, RollCommit
  <2>3. OpenBars'
    BY <1>13, FloorFacts
       DEF TypeOK, Boundaries, WatermarkOrder, OpenBars, InPass, RollCovers,
           RollCommit, UpsertDays
  <2>4. RollCovers'
    BY <1>13 DEF InPass, RollCovers, RollCommit, UpsertDays
  <2>5. Accounted'
    BY <1>13, FloorFacts
       DEF TypeOK, Boundaries, WatermarkOrder, OpenBars, InPass, OnTime,
           RollCovers, Accounted, InABar, RollCommit, UpsertDays, DayKey,
           history
  <2>6. RolledUp'
    BY <1>13, FloorFacts
       DEF TypeOK, Boundaries, WatermarkOrder, InPass, RollCovers, RolledUp,
           RollCommit, UpsertDays, DayKey, history
  <2>7. WholeDayBars'
    <3> SUFFICES ASSUME NEW t \in bars1d', NEW u \in bars1m, DayKey(t) = DayKey(u)
                 PROVE  u \in bars1d'
      BY <1>13 DEF WholeDayBars, DayKey, RollCommit
    <3>1. CASE t \in roll.rows
      <4>1. t \in bars1m /\ InPass(roll, t)
        BY <1>13, <3>1 DEF RollCommit, RollCovers
      <4>2. FloorToDay(stamp[u]) = FloorToDay(stamp[t])
        BY DEF DayKey
      <4>3. InPass(roll, u)
        BY <1>13, <4>1, <4>2, FloorFacts
           DEF RollCommit, InPass, Boundaries, WatermarkOrder, TypeOK, NoStamp
      <4> QED BY <1>13, <4>3 DEF RollCommit, RollCovers, UpsertDays
    <3>2. CASE t \notin roll.rows
      <4>1. t \in bars1d /\ u \in bars1d
        BY <1>13, <3>2 DEF RollCommit, UpsertDays, WholeDayBars
      <4> QED BY <1>13, <3>2, <4>1 DEF RollCommit, UpsertDays
    <3> QED BY <3>1, <3>2
  <2>8. OnePlace' /\ AggCovers' /\ WholeMinuteBars'
    BY <1>13
       DEF RollCommit, history, OnePlace, AggCovers, OnTime, InPass,
           WholeMinuteBars, MinuteKey
  <2> QED BY <2>1, <2>2, <2>3, <2>4, <2>5, <2>6, <2>7, <2>8 DEF Inv
<1>14. CASE RollAdvance
  <2>1. TypeOK'
    BY <1>14 DEF TypeOK, RollAdvance, IdleJob, history
  <2>2. Boundaries'
    BY <1>14, FloorFacts
       DEF TypeOK, Boundaries, WatermarkOrder, RollAdvance, IdleJob
  <2>3. OpenBars'
    BY <1>14 DEF TypeOK, Boundaries, WatermarkOrder, OpenBars, RollAdvance
  <2>4. RollCovers'
    BY <1>14 DEF RollCovers, RollAdvance, IdleJob
  <2>5. RolledUp'
    BY <1>14
       DEF TypeOK, Boundaries, WatermarkOrder, InPass, RollCovers, RolledUp,
           RollAdvance, history
  <2>6. /\ OnePlace' /\ AggCovers' /\ Accounted'
        /\ WholeMinuteBars' /\ WholeDayBars'
    BY <1>14
       DEF RollAdvance, history, OnePlace, AggCovers, OnTime, InPass,
           Accounted, InABar, WholeMinuteBars, MinuteKey, WholeDayBars,
           DayKey
  <2> QED BY <2>1, <2>2, <2>3, <2>4, <2>5, <2>6 DEF Inv
<1>15. CASE RollFail
  <2>1. TypeOK'
    BY <1>15, BoundsAssumption DEF TypeOK, RollFail, Fault, IdleJob, tables, history
  <2>2. Boundaries'
    BY <1>15, FloorFacts DEF Boundaries, WatermarkOrder, RollFail, IdleJob, tables
  <2>3. RollCovers'
    BY <1>15 DEF RollCovers, RollFail, IdleJob
  <2>4. /\ OnePlace' /\ OpenBars' /\ AggCovers'
        /\ Accounted' /\ RolledUp' /\ WholeMinuteBars'
        /\ WholeDayBars'
    BY <1>15
       DEF RollFail, tables, history, OnePlace, OpenBars, AggCovers, OnTime,
           InPass, Accounted, InABar, RolledUp, WholeMinuteBars, MinuteKey,
           WholeDayBars, DayKey
  <2> QED BY <2>1, <2>2, <2>3, <2>4 DEF Inv
<1>16. CASE PurgeTicksRead
  <2>1. TypeOK'
    BY <1>16, KeepAssumption
       DEF TypeOK, PurgeTicksRead, PurgeAt, PurgeCutoff, SmallerOf, tables,
           history
  <2>2. Boundaries'
    BY <1>16, KeepAssumption
       DEF TypeOK, Boundaries, WatermarkOrder, PurgeTicksRead, PurgeAt,
           PurgeCutoff, SmallerOf, tables
  <2>3. /\ OnePlace' /\ OpenBars' /\ AggCovers'
        /\ RollCovers' /\ Accounted' /\ RolledUp'
        /\ WholeMinuteBars' /\ WholeDayBars'
    BY <1>16
       DEF PurgeTicksRead, tables, history, OnePlace, OpenBars, AggCovers,
           OnTime, InPass, RollCovers, Accounted, InABar, RolledUp,
           WholeMinuteBars, MinuteKey, WholeDayBars, DayKey
  <2> QED BY <2>1, <2>2, <2>3 DEF Inv
<1>17. CASE PurgeTicksDelete
  <2>1. TypeOK'
    BY <1>17 DEF TypeOK, PurgeTicksDelete, PurgeAt, history
  <2>2. OnePlace'
    BY <1>17 DEF OnePlace, PurgeTicksDelete, history
  <2>3. Boundaries'
    BY <1>17 DEF Boundaries, WatermarkOrder, PurgeTicksDelete, PurgeAt
  <2>4. OpenBars'
    BY <1>17 DEF TypeOK, Boundaries, OpenBars, PurgeTicksDelete
  <2>5. AggCovers'
    BY <1>17
       DEF TypeOK, Boundaries, WatermarkOrder, InPass, AggCovers, OnTime,
           PurgeTicksDelete, history
  <2>6. Accounted'
    BY <1>17
       DEF TypeOK, Boundaries, OnTime, Accounted, InABar, PurgeTicksDelete,
           history
  <2>7. WholeMinuteBars'
    BY <1>17 DEF WholeMinuteBars, MinuteKey, PurgeTicksDelete, history
  <2>8. RollCovers' /\ RolledUp' /\ WholeDayBars'
    BY <1>17
       DEF PurgeTicksDelete, history, RollCovers, InPass, RolledUp, WholeDayBars,
           DayKey
  <2> QED BY <2>1, <2>2, <2>3, <2>4, <2>5, <2>6, <2>7, <2>8 DEF Inv
<1>18. CASE PurgeBarsRead
  <2>1. TypeOK'
    BY <1>18, KeepAssumption
       DEF TypeOK, PurgeBarsRead, PurgeAt, PurgeCutoff, SmallerOf, tables,
           history
  <2>2. Boundaries'
    BY <1>18, KeepAssumption
       DEF TypeOK, Boundaries, WatermarkOrder, PurgeBarsRead, PurgeAt,
           PurgeCutoff, SmallerOf, tables
  <2>3. /\ OnePlace' /\ OpenBars' /\ AggCovers'
        /\ RollCovers' /\ Accounted' /\ RolledUp'
        /\ WholeMinuteBars' /\ WholeDayBars'
    BY <1>18
       DEF PurgeBarsRead, tables, history, OnePlace, OpenBars, AggCovers, OnTime,
           InPass, RollCovers, Accounted, InABar, RolledUp,
           WholeMinuteBars, MinuteKey, WholeDayBars, DayKey
  <2> QED BY <2>1, <2>2, <2>3 DEF Inv
<1>19. CASE PurgeBarsDelete
  <2>1. TypeOK'
    BY <1>19 DEF TypeOK, PurgeBarsDelete, PurgeAt, history
  <2>2. Boundaries'
    BY <1>19 DEF Boundaries, WatermarkOrder, PurgeBarsDelete, PurgeAt
  <2>3. OpenBars'
    BY <1>19, FloorFacts DEF TypeOK, Boundaries, OpenBars, PurgeBarsDelete
  <2>4. AggCovers'
    BY <1>19, FloorFacts
       DEF TypeOK, Boundaries, WatermarkOrder, InPass, AggCovers, OnTime,
           PurgeBarsDelete, history
  <2>5. RollCovers'
    BY <1>19, FloorFacts
       DEF TypeOK, Boundaries, WatermarkOrder, InPass, RollCovers,
           PurgeBarsDelete, history
  <2>6. Accounted'
    BY <1>19, FloorFacts
       DEF TypeOK, Boundaries, OnTime, Accounted, InABar, RolledUp,
           PurgeBarsDelete, history
  <2>7. RolledUp'
    BY <1>19 DEF RolledUp, PurgeBarsDelete, history
  <2>8. WholeMinuteBars'
    BY <1>19 DEF WholeMinuteBars, MinuteKey, PurgeBarsDelete, history
  <2>9. WholeDayBars'
    BY <1>19 DEF WholeDayBars, DayKey, PurgeBarsDelete
  <2>10. OnePlace'
    BY <1>19 DEF PurgeBarsDelete, history, OnePlace
  <2> QED BY <2>1, <2>2, <2>3, <2>4, <2>5, <2>6, <2>7, <2>8, <2>9, <2>10 DEF Inv
<1>20. CASE PurgeDays
  <2>1. TypeOK'
    BY <1>20 DEF TypeOK, PurgeDays, PurgeAt, ExpiredDays
  <2>2. Boundaries'
    BY <1>20 DEF Boundaries, WatermarkOrder, PurgeDays, PurgeAt
  <2>3. OpenBars'
    BY <1>20 DEF OpenBars, PurgeDays
  <2>4. RollCovers'
    BY <1>20 DEF InPass, RollCovers, PurgeDays
  <2>5. Accounted'
    BY <1>20 DEF OnTime, Accounted, InABar, PurgeDays
  <2>6. RolledUp'
    BY <1>20 DEF RolledUp, PurgeDays
  <2>7. WholeDayBars'
    BY <1>20 DEF WholeDayBars, DayKey, PurgeDays, ExpiredDays
  <2>8. OnePlace' /\ AggCovers' /\ WholeMinuteBars'
    BY <1>20
       DEF PurgeDays, OnePlace, AggCovers, OnTime, InPass, WholeMinuteBars,
           MinuteKey
  <2> QED BY <2>1, <2>2, <2>3, <2>4, <2>5, <2>6, <2>7, <2>8 DEF Inv
<1>21. CASE PurgeFail
  <2>1. TypeOK'
    BY <1>21, BoundsAssumption
       DEF TypeOK, PurgeFail, Fault, PurgeAt, tables, history
  <2>2. Boundaries'
    BY <1>21 DEF Boundaries, WatermarkOrder, PurgeFail, PurgeAt, tables
  <2>3. /\ OnePlace' /\ OpenBars' /\ AggCovers'
        /\ RollCovers' /\ Accounted' /\ RolledUp'
        /\ WholeMinuteBars' /\ WholeDayBars'
    BY <1>21
       DEF PurgeFail, tables, history, OnePlace, OpenBars, AggCovers, OnTime,
           InPass, RollCovers, Accounted, InABar, RolledUp,
           WholeMinuteBars, MinuteKey, WholeDayBars, DayKey
  <2> QED BY <2>1, <2>2, <2>3 DEF Inv
<1>22. CASE UNCHANGED vars
  BY <1>22
     DEF vars, tables, jobs, history, Inv, TypeOK, OnePlace, Boundaries,
         WatermarkOrder,
     OpenBars, AggCovers, RollCovers, InPass, Accounted, OnTime, InABar, RolledUp,
     WholeMinuteBars, MinuteKey, WholeDayBars, DayKey
<1> QED BY <1>1, <1>2, <1>3, <1>4, <1>5, <1>6, <1>7, <1>8, <1>9, <1>10, <1>11,
           <1>12, <1>13, <1>14, <1>15, <1>16, <1>17, <1>18, <1>19, <1>20, <1>21,
           <1>22
   DEF Next, IngestStep, AggStep, RollStep, PurgeStep

\* Inv is an invariant: whatever the jobs, the faults and the clock interleave
\* to, it holds in every state the pipeline reaches.
THEOREM Invariance == Spec => []Inv
<1>1. Inv /\ [Next]_vars => Inv'
  BY InvStep
<1> QED BY InvInit, <1>1, PTL DEF Spec

-----------------------------------------------------------------------------
(* What a pass that writes a bar again does to it *)

\* A minute bar that is written again is written from all of its ticks.
LEMMA MinutesGrow == Inv /\ AggCommit => bars1m' = bars1m \cup agg.rows
<1> SUFFICES ASSUME Inv, AggCommit, NEW t \in bars1m, NEW r \in agg.rows, MinuteKey(r) = MinuteKey(t)
             PROVE  t \in agg.rows
  BY DEF AggCommit, UpsertMinutes
<1>1. /\ agg.since \in Nat /\ agg.cutoff \in Nat
      /\ FloorToMinute(agg.since) = agg.since
      /\ FloorToMinute(agg.cutoff) = agg.cutoff
  BY DEF Inv, AggCommit, Boundaries, WatermarkOrder, TypeOK
<1>2. stamp[t] \in Nat /\ stamp[r] \in Nat /\ InPass(agg, r)
  BY DEF Inv, AggCommit, AggCovers, TypeOK, NoStamp
<1>3. FloorToMinute(stamp[r]) = FloorToMinute(stamp[t])
  BY DEF MinuteKey
<1>4. InPass(agg, t)
  BY <1>1, <1>2, <1>3, FloorFacts DEF InPass
<1> QED BY <1>4 DEF Inv, AggCommit, AggCovers

\* A daily bar that is written again is written from all of its minute bars.
LEMMA DaysGrow == Inv /\ RollCommit => bars1d' = bars1d \cup roll.rows
<1> SUFFICES ASSUME Inv, RollCommit, NEW t \in bars1d, NEW r \in roll.rows, DayKey(r) = DayKey(t)
             PROVE  t \in roll.rows
  BY DEF RollCommit, UpsertDays
<1>1. r \in bars1m
  BY DEF Inv, RollCommit, RollCovers
<1>2. /\ roll.since \in Nat /\ roll.cutoff \in Nat
      /\ FloorToDay(roll.since) = roll.since
      /\ FloorToDay(roll.cutoff) = roll.cutoff
      /\ roll.since = wm1d
  BY DEF Inv, RollCommit, Boundaries, WatermarkOrder, TypeOK
<1>3. stamp[t] \in Nat /\ stamp[r] \in Nat /\ InPass(roll, r)
  BY <1>1 DEF Inv, RollCommit, RollCovers, TypeOK, NoStamp
<1>4. FloorToDay(stamp[r]) = FloorToDay(stamp[t])
  BY DEF DayKey
<1>5. InPass(roll, t)
  BY <1>2, <1>3, <1>4, FloorFacts DEF InPass
<1>6. t \in bars1m
  BY <1>2, <1>3, <1>5 DEF Inv, OpenBars, InPass
<1> QED BY <1>5, <1>6 DEF Inv, RollCommit, RollCovers

-----------------------------------------------------------------------------
(* How long each tier keeps what it has *)

\* What TypeOK and Boundaries say of the times.
LEMMA TimeFacts ==
    ASSUME Inv
    PROVE  /\ now \in Nat /\ now <= MaxTime /\ wm1m \in Nat /\ wm1d \in Nat
           /\ MaxTime \in Nat /\ DayKeep \in Nat
           /\ wm1d <= wm1m /\ wm1m <= now
           /\ \A t \in bars1m \cup bars1d : t \in Ticks /\ stamp[t] # NoStamp /\ stamp[t] \in 0 .. MaxTime
<1>1. /\ now \in 0 .. MaxTime /\ wm1m \in Nat /\ wm1d \in Nat
      /\ MaxTime \in Nat /\ DayKeep \in Nat
      /\ \A t \in bars1m \cup bars1d : t \in Ticks /\ stamp[t] # NoStamp /\ stamp[t] \in 0 .. MaxTime
  BY BoundsAssumption, KeepAssumption DEF Inv, TypeOK
<1>2. wm1d <= FloorToDay(wm1m) /\ wm1m <= FloorToMinute(now)
  BY DEF Inv, Boundaries, WatermarkOrder
<1>3. FloorToDay(wm1m) <= wm1m /\ FloorToMinute(now) <= now
      /\ FloorToDay(wm1m) \in Nat /\ FloorToMinute(now) \in Nat
  BY <1>1, FloorFacts
<1> QED BY <1>1, <1>2, <1>3

\* What a purge has read asks for no more than its setting allows, and what
\* left the daily tier had its days there.
Retained ==
    /\ OnTimeTicksKept
    /\ purge.pc = "deleteTicks" => purge.cutoff <= now - RawKeep
    /\ purge.pc = "deleteBars" => purge.cutoff <= now - MinuteKeep
    /\ \A t \in expired : DayKeep > 0 /\ Over(FloorToDay(stamp[t]), DayKeep)

LEMMA RetainedInit == Init => Retained
BY DEF Init, Retained, OnTimeTicksKept, OnTime, PurgeAt

LEMMA RetainedStep == Inv /\ Inv' /\ Retained /\ [Next]_vars => Retained'
<1> SUFFICES ASSUME Inv, Inv', Retained, [Next]_vars PROVE Retained'
  OBVIOUS
<1> USE DEF tables, jobs, history
<1>0. /\ now \in Nat /\ wm1m \in Nat /\ wm1d \in Nat /\ wm1d <= wm1m /\ wm1m <= FloorToMinute(now)
      /\ RawKeep \in Nat /\ MinuteKeep \in Nat /\ DayKeep \in Nat
      /\ \A t \in OnTime \cup expired \cup inflight :
           /\ t \in Ticks /\ stamp[t] # NoStamp /\ stamp[t] \in Nat
           /\ FloorToMinute(stamp[t]) \in Nat /\ FloorToDay(stamp[t]) \in Nat
           /\ FloorToMinute(stamp[t]) <= stamp[t]
  <2>1. now \in Nat /\ wm1m \in Nat /\ wm1d \in Nat /\ wm1d <= wm1m
    BY TimeFacts
  <2>2. wm1m <= FloorToMinute(now) /\ RawKeep \in Nat /\ MinuteKeep \in Nat /\ DayKeep \in Nat
    BY KeepAssumption DEF Inv, Boundaries, WatermarkOrder
  <2>3. \A t \in OnTime \cup expired \cup inflight : t \in Ticks /\ stamp[t] # NoStamp /\ stamp[t] \in Nat
    BY BoundsAssumption DEF Inv, TypeOK, OnTime
  <2> QED BY <2>1, <2>2, <2>3, FloorFacts
<1>1. CASE UNCHANGED <<now, stamp, inflight, ticks, bars1m, bars1d, wm1m, wm1d, purge, dropped, late, expired>>
  BY <1>1 DEF Retained, OnTimeTicksKept, OnTime, Over
<1>2. CASE AdvanceClock
  <2>1. now' = now + 1
    BY <1>2 DEF AdvanceClock
  <2>2. \A start, keep \in Nat : Over(start, keep) => start < now' - keep
    BY <1>0, <2>1 DEF Over
  <2>3. purge' = purge /\ purge.cutoff \in Int
    BY <1>2 DEF AdvanceClock, Inv, TypeOK
  <2>4. /\ purge.cutoff <= now - RawKeep => purge.cutoff <= now' - RawKeep
        /\ purge.cutoff <= now - MinuteKeep => purge.cutoff <= now' - MinuteKeep
    BY <1>0, <2>1, <2>3
  <2>5. OnTime' = OnTime /\ expired' = expired
    BY <1>2 DEF AdvanceClock, OnTime
  <2>6. OnTimeTicksKept'
    BY <1>0, <1>2, <2>2, <2>5 DEF AdvanceClock, Retained, OnTimeTicksKept, Over
  <2>7. \A t \in expired' : DayKeep > 0 /\ FloorToDay(stamp'[t]) < now' - DayKeep
    BY <1>0, <1>2, <2>2, <2>5 DEF AdvanceClock, Retained
  <2> QED BY <2>3, <2>4, <2>6, <2>7 DEF Retained, Over
<1>3. ASSUME NEW t \in Ticks, HandleMessage(t) PROVE Retained'
  <2>1. \A u \in Ticks : u # t => stamp'[u] = stamp[u]
    BY <1>3 DEF HandleMessage, Inv, TypeOK
  <2>2. t \notin OnTime' /\ t \notin OnTime /\ t \notin expired
    BY <1>0, <1>3 DEF HandleMessage, OnTime
  <2>3. OnTime' = OnTime
    BY <1>3, <2>1, <2>2 DEF HandleMessage, OnTime
  <2>4. \A u \in OnTime \cup expired : stamp'[u] = stamp[u]
    BY <1>0, <2>1, <2>2
  <2> QED BY <1>3, <2>3, <2>4 DEF HandleMessage, Retained, OnTimeTicksKept, Over
<1>4. ASSUME NEW rows \in SUBSET inflight, Flush(rows) PROVE Retained'
  <2>1. \A t \in OnTime' : t \in OnTime \/ (t \in rows /\ stamp[t] >= FloorToMinute(now))
    <3>1. \A t \in rows : stamp[t] \in Nat
      BY <1>0
    <3>2. FloorToMinute(now) \in Nat
      BY <1>0, FloorFacts
    <3> QED BY <1>4, <3>1, <3>2 DEF Flush, OnTime
  <2>2. \A t \in rows : t \in ticks' /\ (stamp[t] >= FloorToMinute(now) =>
                                           ~(stamp[t] < wm1m) /\ ~(stamp[t] < wm1d))
    <3>1. FloorToMinute(now) \in Nat
      BY <1>0, FloorFacts
    <3> QED BY <1>0, <1>4, <3>1 DEF Flush
  <2>3. ticks \subseteq ticks'
    BY <1>4 DEF Flush
  <2> QED BY <1>4, <2>1, <2>2, <2>3 DEF Flush, Retained, OnTimeTicksKept, Over
<1>5. ASSUME NEW rows \in SUBSET inflight, FlushFail(rows) PROVE Retained'
  <2>1. OnTime' = OnTime
    BY <1>5 DEF FlushFail, OnTime
  <2> QED BY <1>5, <2>1 DEF FlushFail, Retained, OnTimeTicksKept, Over
<1>6. CASE Crash
  <2>1. OnTime' = OnTime
    BY <1>6 DEF Crash, OnTime
  <2> QED BY <1>6, <2>1 DEF Crash, PurgeAt, Retained, OnTimeTicksKept, Over
<1>7. CASE AggCommit
  <2>1. bars1m \subseteq bars1m'
    BY <1>7, MinutesGrow
  <2> QED BY <1>7, <2>1 DEF AggCommit, Retained, OnTimeTicksKept, OnTime, Over
<1>8. CASE AggAdvance
  <2>1. agg.since = wm1m /\ agg.cutoff \in Nat /\ wm1m' = agg.cutoff /\ wm1m <= wm1m'
    BY <1>8 DEF AggAdvance, Inv, Boundaries, WatermarkOrder, TypeOK
  <2>2. \A t \in OnTime : stamp[t] < wm1m' /\ ~(stamp[t] < wm1m) => t \in bars1m
    BY <1>0, <1>8, <2>1 DEF AggAdvance, Inv, AggCovers, InPass
  <2>3. OnTime' = OnTime
    BY <1>8 DEF AggAdvance, OnTime
  <2>4. \A t \in OnTime : stamp[t] < wm1m => stamp[t] < wm1m'
    BY <1>0, <2>1
  <2> QED BY <1>8, <2>2, <2>3, <2>4 DEF AggAdvance, Retained, OnTimeTicksKept, Over
<1>9. CASE RollCommit
  <2>1. bars1d \subseteq bars1d'
    BY <1>9, DaysGrow
  <2> QED BY <1>9, <2>1 DEF RollCommit, Retained, OnTimeTicksKept, OnTime, Over
<1>10. CASE RollAdvance
  <2>1. roll.since = wm1d /\ roll.cutoff \in Nat /\ wm1d' = roll.cutoff /\ wm1d <= wm1d'
    BY <1>10 DEF RollAdvance, Inv, Boundaries, WatermarkOrder, TypeOK
  <2>2. wm1d' <= wm1m
    <3>1. wm1d' <= wm1m'
      <4>1. wm1d' \in Nat /\ wm1m' \in Nat /\ wm1d' <= FloorToDay(wm1m')
        BY DEF Inv, Boundaries, WatermarkOrder, TypeOK
      <4>2. FloorToDay(wm1m') <= wm1m' /\ FloorToDay(wm1m') \in Nat
        BY <4>1, FloorFacts
      <4> QED BY <4>1, <4>2
    <3> QED BY <1>10, <3>1 DEF RollAdvance
  <2>3. \A t \in OnTime : stamp[t] < wm1d' /\ ~(stamp[t] < wm1d) => t \in bars1d \cup expired
    <3> SUFFICES ASSUME NEW t \in OnTime, stamp[t] < wm1d', ~(stamp[t] < wm1d)
                 PROVE  t \in bars1d \cup expired
      OBVIOUS
    <3>1. stamp[t] < wm1m /\ InPass(roll, t)
      BY <1>0, <2>1, <2>2 DEF InPass
    <3>2. t \in bars1m
      BY <3>1 DEF Retained, OnTimeTicksKept
    <3> QED BY <1>10, <3>1, <3>2 DEF RollAdvance, Inv, RollCovers
  <2>4. OnTime' = OnTime
    BY <1>10 DEF RollAdvance, OnTime
  <2>5. \A t \in OnTime : stamp[t] < wm1d => stamp[t] < wm1d'
    BY <1>0, <2>1
  <2> QED BY <1>10, <2>3, <2>4, <2>5 DEF RollAdvance, Retained, OnTimeTicksKept, Over
<1>11. CASE PurgeTicksRead
  <2>1. purge'.pc = "deleteTicks" => purge'.cutoff <= now - RawKeep
    BY <1>0, <1>11 DEF PurgeTicksRead, PurgeAt, PurgeCutoff, SmallerOf
  <2>2. purge'.pc # "deleteBars"
    BY <1>11 DEF PurgeTicksRead, PurgeAt
  <2> QED BY <1>11, <2>1, <2>2 DEF PurgeTicksRead, Retained, OnTimeTicksKept, OnTime, Over
<1>12. CASE PurgeTicksDelete
  <2>1. purge.cutoff \in Int /\ purge.cutoff <= wm1m /\ purge.cutoff <= now - RawKeep
    BY <1>12 DEF PurgeTicksDelete, Inv, TypeOK, Boundaries, Retained
  <2>2. \A t \in OnTime : t \in ticks /\ t \notin ticks' => stamp[t] < wm1m /\ Over(stamp[t], RawKeep)
    BY <1>0, <1>12, <2>1 DEF PurgeTicksDelete, Over
  <2>3. OnTime' = OnTime /\ purge'.pc # "deleteTicks" /\ purge'.pc # "deleteBars"
    BY <1>12 DEF PurgeTicksDelete, OnTime, PurgeAt
  <2> QED BY <1>12, <2>2, <2>3 DEF PurgeTicksDelete, Retained, OnTimeTicksKept, Over
<1>13. CASE PurgeBarsRead
  <2>1. purge'.pc = "deleteBars" => purge'.cutoff <= now - MinuteKeep
    BY <1>0, <1>13 DEF PurgeBarsRead, PurgeAt, PurgeCutoff, SmallerOf
  <2>2. purge'.pc # "deleteTicks"
    BY <1>13 DEF PurgeBarsRead, PurgeAt
  <2> QED BY <1>13, <2>1, <2>2 DEF PurgeBarsRead, Retained, OnTimeTicksKept, OnTime, Over
<1>14. CASE PurgeBarsDelete
  <2>1. purge.cutoff \in Int /\ purge.cutoff <= wm1d /\ purge.cutoff <= now - MinuteKeep
    BY <1>14 DEF PurgeBarsDelete, Inv, TypeOK, Boundaries, Retained
  <2>2. \A t \in OnTime : t \in bars1m /\ t \notin bars1m' =>
          stamp[t] < wm1d /\ Over(FloorToMinute(stamp[t]), MinuteKeep)
    <3> SUFFICES ASSUME NEW t \in OnTime, FloorToMinute(stamp[t]) < purge.cutoff
                 PROVE  stamp[t] < wm1d /\ Over(FloorToMinute(stamp[t]), MinuteKeep)
      BY <1>14 DEF PurgeBarsDelete
    <3>1. FloorToMinute(stamp[t]) < wm1d
      BY <1>0, <2>1
    <3>2. FloorToMinute(wm1d) = wm1d
      <4>1. FloorToDay(wm1d) = wm1d /\ FloorToMinute(FloorToDay(wm1d)) = FloorToDay(wm1d)
        BY <1>0, FloorFacts DEF Inv, Boundaries
      <4> QED BY <4>1
    <3>3. stamp[t] < wm1d
      BY <1>0, <3>1, <3>2, FloorFacts
    <3> QED BY <1>0, <2>1, <3>3 DEF Over
  <2>3. OnTime' = OnTime /\ purge'.pc # "deleteTicks" /\ purge'.pc # "deleteBars"
    BY <1>14 DEF PurgeBarsDelete, OnTime, PurgeAt
  <2> QED BY <1>14, <2>2, <2>3 DEF PurgeBarsDelete, Retained, OnTimeTicksKept, Over
<1>15. CASE PurgeDays
  <2>1. \A t \in ExpiredDays : DayKeep > 0 /\ Over(FloorToDay(stamp[t]), DayKeep)
    BY DEF ExpiredDays, Over
  <2>2. OnTime' = OnTime /\ purge'.pc # "deleteTicks" /\ purge'.pc # "deleteBars"
    BY <1>15 DEF PurgeDays, OnTime, PurgeAt
  <2> QED BY <1>15, <2>1, <2>2 DEF PurgeDays, Retained, OnTimeTicksKept, Over
<1>16. CASE PurgeFail
  <2>1. purge'.pc # "deleteTicks" /\ purge'.pc # "deleteBars"
    BY <1>16 DEF PurgeFail, PurgeAt
  <2> QED BY <1>16, <2>1 DEF PurgeFail, Retained, OnTimeTicksKept, OnTime, Over
<1>17. CASE AggRead \/ AggSelect \/ AggFail \/ RollRead \/ RollSelect \/ RollFail \/ UNCHANGED vars
  BY <1>1, <1>17 DEF AggRead, AggSelect, AggFail, RollRead, RollSelect, RollFail, vars
<1> QED BY <1>2, <1>3, <1>4, <1>5, <1>6, <1>7, <1>8, <1>9, <1>10, <1>11, <1>12, <1>13,
           <1>14, <1>15, <1>16, <1>17
   DEF Next, IngestStep, AggStep, RollStep, PurgeStep

-----------------------------------------------------------------------------
(* What GET /ohlc/index answers *)

\* The ticks of the order read, their minutes, their days and their prices.
Places(rows, feed) == {i \in DOMAIN feed : feed[i] \in rows}
MinuteAt(rows, feed) == [i \in Places(rows, feed) |-> FloorToMinute(stamp[feed[i]])]
DayAt(rows, feed) == [i \in Places(rows, feed) |-> FloorToDay(stamp[feed[i]])]
PriceAt(rows, feed, price) == [i \in Places(rows, feed) |-> price[feed[i]]]

\* An order of the ticks has every tick in it, and its times do not decrease.
LEMMA FeedFacts ==
    ASSUME Inv, NEW rows, \A t \in rows : t \in Ticks /\ stamp[t] # NoStamp,
           NEW feed \in Feeds, NEW price \in [Ticks -> Prices]
    PROVE  /\ Places(rows, feed) \subseteq Int /\ IsFiniteSet(Places(rows, feed))
           /\ \A t \in rows : \E i \in Places(rows, feed) : feed[i] = t
           /\ \A i \in Places(rows, feed) :
                /\ feed[i] \in rows /\ stamp[feed[i]] \in Nat
                /\ price[feed[i]] \in Int /\ price[feed[i]] # NoPrice
           /\ \A i, j \in Places(rows, feed) : i <= j => stamp[feed[i]] <= stamp[feed[j]]
<1> DEFINE n == Cardinality(Ticks)
           all == {feed[i] : i \in 1 .. n}
<1>1. /\ n \in Nat /\ feed \in [1 .. n -> Ticks] /\ DOMAIN feed = 1 .. n
      /\ \A i, j \in 1 .. n : i < j => feed[i] # feed[j] /\ stamp[feed[i]] <= stamp[feed[j]]
  BY TicksAssumption, FS_CardinalityType DEF Feeds
<1>2. IsFiniteSet(1 .. n) /\ Cardinality(1 .. n) = n
  <2>1. 1 \in Int /\ n \in Int
    BY <1>1
  <2> HIDE DEF n
  <2>2. IsFiniteSet(1 .. n) /\ Cardinality(1 .. n) = IF 1 > n THEN 0 ELSE n - 1 + 1
    BY <2>1, FS_Interval
  <2> QED BY <1>1, <2>2
<1>3. all = Ticks
  <2>1. feed \in Bijection(1 .. n, all)
    <3>1. \A i, j \in 1 .. n : feed[i] = feed[j] => i = j
      <4>1. \A i, j \in 1 .. n : i < j \/ j < i \/ i = j
        BY <1>1
      <4> HIDE DEF n
      <4> QED BY <1>1, <4>1
    <3>2. feed \in [1 .. n -> all] /\ \A t \in all : \E i \in 1 .. n : feed[i] = t
      BY <1>1
    <3> HIDE DEF n, all
    <3> QED BY <3>1, <3>2 DEF Bijection, Injection, Surjection, IsInjective
  <2>2. ExistsBijection(1 .. n, all)
    BY <2>1 DEF ExistsBijection
  <2>3. all \subseteq Ticks
    BY <1>1
  <2> HIDE DEF all
  <2>4. IsFiniteSet(all) /\ Cardinality(all) = n
    BY <1>2, <2>2, FS_Bijection
  <2> QED BY <2>3, <2>4, TicksAssumption, FS_Subset
<1>4. Places(rows, feed) \subseteq 1 .. n /\ IsFiniteSet(Places(rows, feed))
  <2>1. Places(rows, feed) \subseteq 1 .. n
    BY <1>1 DEF Places
  <2> HIDE DEF n
  <2> QED BY <1>2, <2>1, FS_Subset
<1>5. ASSUME NEW t \in rows PROVE \E i \in Places(rows, feed) : feed[i] = t
  <2>1. PICK i \in 1 .. n : feed[i] = t
    BY <1>3
  <2> QED BY <1>1, <2>1 DEF Places
<1>6. ASSUME NEW i \in Places(rows, feed)
      PROVE  /\ feed[i] \in rows /\ stamp[feed[i]] \in Nat
             /\ price[feed[i]] \in Int /\ price[feed[i]] # NoPrice
  <2>1. feed[i] \in rows /\ feed[i] \in Ticks /\ stamp[feed[i]] # NoStamp
    BY DEF Places
  <2>2. stamp[feed[i]] \in 0 .. MaxTime /\ MaxTime \in Nat
    BY <2>1, BoundsAssumption DEF Inv, TypeOK
  <2>3. price[feed[i]] \in Nat \ {NoPrice}
    BY <2>1, PricesAssumption
  <2> QED BY <2>1, <2>2, <2>3
<1>7. \A i, j \in Places(rows, feed) : i <= j => stamp[feed[i]] <= stamp[feed[j]]
  <2> SUFFICES ASSUME NEW i \in Places(rows, feed), NEW j \in Places(rows, feed), i <= j
               PROVE  stamp[feed[i]] <= stamp[feed[j]]
    OBVIOUS
  <2>1. i < j \/ i = j
    BY <1>4
  <2>2. stamp[feed[i]] \in Nat
    BY <1>6
  <2> QED BY <1>1, <1>4, <2>1, <2>2
<1> QED BY <1>1, <1>4, <1>5, <1>6, <1>7

\* A table of minute bars is folded from its ticks.
LEMMA MinuteTableFolds ==
    ASSUME Inv, NEW rows, \A t \in rows : t \in Ticks /\ stamp[t] # NoStamp,
           NEW feed \in Feeds, NEW price \in [Ticks -> Prices]
    PROVE  FoldedTable(Places(rows, feed), MinuteAt(rows, feed), PriceAt(rows, feed, price),
                       MinuteTable(rows, feed, price), "index")
<1> DEFINE R == Places(rows, feed)
           M == MinuteAt(rows, feed)
           q == PriceAt(rows, feed, price)
           table == MinuteTable(rows, feed, price)
<1>1. /\ R \subseteq Int /\ IsFiniteSet(R)
      /\ \A t \in rows : \E i \in R : feed[i] = t
      /\ \A i \in R : /\ feed[i] \in rows /\ stamp[feed[i]] \in Nat
                      /\ price[feed[i]] \in Int /\ price[feed[i]] # NoPrice
      /\ \A i, j \in R : i <= j => stamp[feed[i]] <= stamp[feed[j]]
  BY FeedFacts
<1>2. \A i \in R : M[i] = FloorToMinute(stamp[feed[i]]) /\ q[i] = price[feed[i]]
  BY DEF MinuteAt, PriceAt
<1>3. M \in [R -> Int] /\ q \in [R -> Int]
  <2>1. \A i \in R : FloorToMinute(stamp[feed[i]]) \in Int /\ price[feed[i]] \in Int
    BY <1>1, FloorFacts
  <2> HIDE DEF R
  <2> QED BY <2>1 DEF MinuteAt, PriceAt, R
<1>4. \A i, j \in R : i <= j => M[i] <= M[j]
  <2> HIDE DEF R, M
  <2> QED BY <1>1, <1>2, FloorFacts
<1>5. DOMAIN table = {FloorToMinute(stamp[t]) : t \in rows}
  BY DEF MinuteTable
<1>6. ASSUME NEW i \in R
      PROVE  table[M[i]]["index"] = FoldLeg([k \in {j \in R : M[j] = M[i]} |-> q[k]])
  <2> DEFINE here == {t \in rows : FloorToMinute(stamp[t]) = M[i]}
             P == {j \in R : M[j] = M[i]}
             read == {j \in DOMAIN feed : feed[j] \in here}
  <2>1. M[i] \in DOMAIN table
    <3> HIDE DEF R, M, table
    <3> QED BY <1>1, <1>2, <1>5
  <2>2. table[M[i]] = BarOf(here, feed, price)
    <3> HIDE DEF M
    <3> QED BY <1>5, <2>1 DEF MinuteTable
  <2>3. BarOf(here, feed, price)["index"] = FoldLeg([k \in read |-> price[feed[k]]])
    BY DEF BarOf, IndexLeg
  <2>4. read = P
    <3>1. \A j \in R : j \in DOMAIN feed /\ feed[j] \in rows
      BY DEF Places
    <3>2. \A j \in DOMAIN feed : feed[j] \in rows => j \in R
      BY DEF Places
    <3> HIDE DEF R, M
    <3> QED BY <1>2, <3>1, <3>2
  <2>5. [k \in read |-> price[feed[k]]] = [k \in P |-> q[k]]
    <3>1. \A k \in P : q[k] = price[feed[k]]
      BY <1>2
    <3> HIDE DEF read, P, q
    <3> QED BY <2>4, <3>1
  <2> HIDE DEF here, P, read, table, q
  <2> QED BY <2>2, <2>3, <2>5 DEF P
<1>7. DOMAIN table = {M[i] : i \in R}
  <2> HIDE DEF R, M, table
  <2> QED BY <1>1, <1>2, <1>5
<1>8. \A i \in R : q[i] # NoPrice /\ M[i] \in Nat
  <2> HIDE DEF R, M, q
  <2> QED BY <1>1, <1>2, FloorFacts
<1> HIDE DEF R, M, q, table
<1>9. MinutesFolded(R, M, q, table, "index")
  BY <1>1, <1>3, <1>4, <1>6 DEF MinutesFolded
<1> QED BY <1>7, <1>8, <1>9 DEF FoldedTable, R, M, q, table

\* A table of daily bars is folded from the minutes of its ticks, and so from
\* the ticks.
LEMMA DayTableFolds ==
    ASSUME Inv, NEW rows, \A t \in rows : t \in Ticks /\ stamp[t] # NoStamp,
           NEW feed \in Feeds, NEW price \in [Ticks -> Prices]
    PROVE  FoldedTable(Places(rows, feed), DayAt(rows, feed), PriceAt(rows, feed, price),
                       DayTable(rows, feed, price), "index")
<1> DEFINE R == Places(rows, feed)
           M == MinuteAt(rows, feed)
           D == DayAt(rows, feed)
           q == PriceAt(rows, feed, price)
           minutes == MinuteTable(rows, feed, price)
           table == DayTable(rows, feed, price)
<1>1. /\ R \subseteq Int /\ IsFiniteSet(R)
      /\ \A t \in rows : \E i \in R : feed[i] = t
      /\ \A i \in R : /\ feed[i] \in rows /\ stamp[feed[i]] \in Nat
                      /\ price[feed[i]] \in Int /\ price[feed[i]] # NoPrice
      /\ \A i, j \in R : i <= j => stamp[feed[i]] <= stamp[feed[j]]
  BY FeedFacts
<1>2. /\ \A i \in R : M[i] = FloorToMinute(stamp[feed[i]]) /\ q[i] = price[feed[i]]
      /\ \A i \in R : D[i] = FloorToDay(stamp[feed[i]])
  BY DEF MinuteAt, DayAt, PriceAt
<1>3. ASSUME NEW i \in R
      PROVE  D[i] = FloorToDay(M[i]) /\ D[i] \in Nat
  <2>1. stamp[feed[i]] \in Nat
    BY <1>1
  <2>2. /\ FloorToDay(FloorToMinute(stamp[feed[i]])) = FloorToDay(stamp[feed[i]])
        /\ FloorToDay(stamp[feed[i]]) \in Nat
    BY <2>1, DayOfMinute, FloorFacts
  <2> QED BY <1>2, <2>2
<1>4. MinutesFolded(R, M, q, minutes, "index") /\ DOMAIN minutes = {M[i] : i \in R}
  <2>1. FoldedTable(R, M, q, minutes, "index")
    BY MinuteTableFolds
  <2> HIDE DEF R, M, q, minutes
  <2> QED BY <2>1 DEF FoldedTable
<1> DEFINE ofDay(d) == {m \in DOMAIN minutes : FloorToDay(m) = d}
<1>5. table = [d \in {FloorToDay(m) : m \in DOMAIN minutes} |->
                 [leg \in IndexLeg |-> FoldRows(minutes, ofDay(d), leg)]]
  BY DEF DayTable
<1>6. DOMAIN table = {D[i] : i \in R}
  <2>1. DOMAIN table = {FloorToDay(m) : m \in DOMAIN minutes}
    <3> HIDE DEF table, minutes
    <3> QED BY <1>5
  <2> HIDE DEF R, M, D, table, minutes
  <2> QED BY <1>3, <1>4, <2>1
<1>7. D \in [R -> Int] /\ q \in [R -> Int]
  <2>1. q \in [R -> Int]
    BY <1>4 DEF MinutesFolded
  <2>2. D = [i \in R |-> D[i]]
    BY DEF DayAt
  <2> HIDE DEF R, D, q
  <2> QED BY <1>3, <2>1, <2>2
<1>8. \A i, j \in R : i <= j => D[i] <= D[j]
  <2> HIDE DEF R, D
  <2> QED BY <1>1, <1>2, FloorFacts
<1>9. ASSUME NEW i \in R
      PROVE  table[D[i]]["index"] = FoldLeg([k \in {j \in R : D[j] = D[i]} |-> q[k]])
  <2> DEFINE P == {j \in R : D[j] = D[i]}
             N == [j \in P |-> M[j]]
             p == [j \in P |-> q[j]]
  <2>1. table[D[i]]["index"] = FoldRows(minutes, ofDay(D[i]), "index")
    <3>1. D[i] \in {FloorToDay(m) : m \in DOMAIN minutes}
      <4> HIDE DEF R, M, D, minutes
      <4> QED BY <1>3, <1>4
    <3>2. table[D[i]] = [leg \in IndexLeg |-> FoldRows(minutes, ofDay(D[i]), leg)]
      <4> HIDE DEF table, minutes, D
      <4> QED BY <1>5, <3>1
    <3> HIDE DEF table, minutes, D
    <3> QED BY <3>2 DEF IndexLeg
  <2>2. ofDay(D[i]) = {N[j] : j \in P}
    <3>1. \A j \in P : N[j] = M[j]
      OBVIOUS
    <3> HIDE DEF R, M, D, minutes, N
    <3> QED BY <1>3, <1>4, <3>1
  <2>3. MinutesFolded(P, N, p, minutes, "index")
    <3>1. P \subseteq R /\ P \subseteq Int /\ IsFiniteSet(P)
      BY <1>1, FS_Subset
    <3>2. N \in [P -> Int] /\ p \in [P -> Int]
      <4> HIDE DEF P, M, q, R
      <4> QED BY <1>4, <3>1 DEF MinutesFolded
    <3>3. \A j, k \in P : j <= k => N[j] <= N[k]
      <4> HIDE DEF P, M, q, R
      <4> QED BY <1>4, <3>1 DEF MinutesFolded
    <3>4. ASSUME NEW j \in P
          PROVE  minutes[N[j]]["index"] = FoldLeg([k \in {l \in P : N[l] = N[j]} |-> p[k]])
      <4>1. minutes[M[j]]["index"] = FoldLeg([k \in {l \in R : M[l] = M[j]} |-> q[k]])
        <5> HIDE DEF M, q, R, minutes
        <5> QED BY <1>4, <3>1 DEF MinutesFolded
      <4>2. {l \in R : M[l] = M[j]} = {l \in P : N[l] = N[j]}
        <5>1. j \in R /\ D[j] = D[i]
          OBVIOUS
        <5>2. \A l \in R : M[l] = M[j] => D[l] = D[i]
          <6> HIDE DEF R, M, D
          <6> QED BY <1>3, <5>1
        <5>3. \A l \in P : N[l] = M[l]
          OBVIOUS
        <5> HIDE DEF R, M, D, N
        <5> QED BY <5>2, <5>3
      <4>3. [k \in {l \in R : M[l] = M[j]} |-> q[k]] = [k \in {l \in P : N[l] = N[j]} |-> p[k]]
        <5>1. \A k \in {l \in P : N[l] = N[j]} : p[k] = q[k]
          OBVIOUS
        <5> HIDE DEF P, p, N, q, M, R
        <5> QED BY <4>2, <5>1
      <4>4. N[j] = M[j]
        OBVIOUS
      <4> HIDE DEF P, N, p, q, M, R, minutes
      <4> QED BY <4>1, <4>3, <4>4
    <3> HIDE DEF P, N, p, minutes
    <3> QED BY <3>1, <3>2, <3>3, <3>4 DEF MinutesFolded
  <2>4. \A j \in P : p[j] # NoPrice
    <3>1. \A j \in P : p[j] = q[j] /\ j \in R
      OBVIOUS
    <3> HIDE DEF P, p, q, R
    <3> QED BY <1>1, <1>2, <3>1
  <2>5. P # {}
    OBVIOUS
  <2> HIDE DEF P, N, minutes, table, ofDay
  <2>6. FoldRows(minutes, {N[j] : j \in P}, "index") = FoldLeg(p)
    BY <2>3, <2>4, <2>5, ExactFold
  <2> QED BY <2>1, <2>2, <2>6 DEF P
<1>10. \A i \in R : q[i] # NoPrice /\ D[i] \in Nat
  <2> HIDE DEF R, D, q
  <2> QED BY <1>1, <1>2, <1>3
<1> HIDE DEF R, D, q, table
<1>11. MinutesFolded(R, D, q, table, "index")
  BY <1>1, <1>7, <1>8, <1>9 DEF MinutesFolded
<1> QED BY <1>6, <1>10, <1>11 DEF FoldedTable, R, D, q, table

\* The rows of a bucket in a table.
InBucket(rows, b) == {t \in rows : b <= stamp[t] /\ stamp[t] < b + BucketLen}

\* A set of stamped ticks, an order of the ticks and their prices.
Readable(rows, feed, price) ==
    /\ \A t \in rows : t \in Ticks /\ stamp[t] # NoStamp
    /\ feed \in Feeds /\ price \in [Ticks -> Prices]

\* If the minutes, or the days, M of the ticks of a table tell which are in the
\* bucket, and the table is folded from its ticks by them, then the answer is
\* the fold of the ticks of the bucket.
LEMMA TableTells ==
    ASSUME Inv, NEW rows, NEW feed, NEW price, Readable(rows, feed, price), NEW M, NEW table,
           FoldedTable(Places(rows, feed), M, PriceAt(rows, feed, price), table, "index"),
           NEW b \in Nat, Since(now) <= b,
           \A i \in Places(rows, feed) :
             BucketOf(M[i]) = b <=> b <= stamp[feed[i]] /\ stamp[feed[i]] < b + BucketLen
    PROVE  Tells(Served(table, now, IndexLeg), b, InBucket(rows, b), feed, price)
<1> DEFINE R == Places(rows, feed)
           q == PriceAt(rows, feed, price)
           P == TicksIn(R, M, b)
           S == InBucket(rows, b)
           read == {i \in DOMAIN feed : feed[i] \in S}
           answer == Served(table, now, IndexLeg)
<1>1. \A t \in rows : \E i \in R : feed[i] = t
  BY FeedFacts DEF Readable
<1>2. \A i \in R : q[i] = price[feed[i]]
  BY DEF PriceAt
<1>3. now \in Int
  BY TimeFacts
<1>4. FoldedTable(R, M, q, table, "index") /\ IndexLeg = {"index"}
  BY DEF IndexLeg
<1>5. /\ b \in DOMAIN answer <=> P # {}
      /\ b \in DOMAIN answer => answer[b] = FoldedBar("index", P, q)
  <2> HIDE DEF R, q
  <2>1. b \in DOMAIN answer <=> P # {}
    BY <1>3, <1>4, ServedExactly
  <2>2. ASSUME b \in DOMAIN answer PROVE answer[b] = FoldedBar("index", P, q)
    <3> HIDE DEF S, read
    <3> QED BY <1>3, <1>4, <2>2, ServedBar
  <2> QED BY <2>1, <2>2
<1>6. P = read
  <2>1. \A i \in DOMAIN feed : i \in R <=> feed[i] \in rows
    BY DEF Places
  <2>2. \A t : t \in S <=> t \in rows /\ b <= stamp[t] /\ stamp[t] < b + BucketLen
    BY DEF InBucket
  <2>3. \A i : i \in P <=> i \in R /\ BucketOf(M[i]) = b
    BY DEF TicksIn
  <2>4. R \subseteq DOMAIN feed
    BY DEF Places
  <2>5. \A i \in R : BucketOf(M[i]) = b <=> b <= stamp[feed[i]] /\ stamp[feed[i]] < b + BucketLen
    OBVIOUS
  <2> HIDE DEF R, S, P
  <2> QED BY <2>1, <2>2, <2>3, <2>4, <2>5
<1>7. P # {} <=> S # {}
  <2>1. S \subseteq rows /\ R \subseteq DOMAIN feed
    BY DEF InBucket, Places
  <2>2. \A t \in S : \E i \in DOMAIN feed : feed[i] = t
    BY <1>1, <2>1
  <2> HIDE DEF P, S
  <2> QED BY <1>6, <2>2
<1>8. [i \in P |-> q[i]] = [i \in read |-> price[feed[i]]]
  <2>1. \A i \in P : q[i] = price[feed[i]]
    BY <1>2 DEF TicksIn
  <2> HIDE DEF P, read, q
  <2> QED BY <1>6, <2>1
<1>9. BarOf(S, feed, price) = FoldedBar("index", P, q)
  <2> HIDE DEF P, q, S
  <2> QED BY <1>8 DEF BarOf, FoldedBar, IndexLeg
<1> HIDE DEF P, q, S, answer
<1> QED BY <1>5, <1>7, <1>9 DEF Tells, S, answer

\* A final bucket has every tick of its time that was stored in time: in the
\* minute bars, and in the daily bars.
LEMMA FinalBucketIsWhole ==
    ASSUME Inv, Retained, NEW time \in Nat, NEW x
    PROVE  /\ FinalInMinutes(BucketOf(time)) =>
                TrueRows(x, BucketOf(time), bars1m) = InBucket(OfIndex(x, bars1m), BucketOf(time))
           /\ FinalInDays(BucketOf(time)) =>
                TrueRows(x, BucketOf(time), bars1d) = InBucket(OfIndex(x, bars1d), BucketOf(time))
<1> DEFINE b == BucketOf(time)
<1>1. /\ b \in Nat /\ BucketLen \in Nat \ {0} /\ now \in Nat /\ wm1m \in Nat /\ wm1d \in Nat
      /\ MinuteKeep \in Nat /\ DayKeep \in Nat
      /\ MinuteLen \in Nat \ {0} /\ DayLen \in Nat \ {0}
  BY BucketFacts, QueryAssumption, TimeFacts, KeepAssumption, UnitLengths
<1> DEFINE here(t) == b <= stamp[t] /\ stamp[t] < b + BucketLen
<1>2. ASSUME NEW t \in OnTime, here(t)
      PROVE  t \in Ticks /\ stamp[t] \in Nat
  <2>1. t \in Ticks /\ stamp[t] # NoStamp
    BY DEF OnTime
  <2> QED BY <2>1, BoundsAssumption DEF Inv, TypeOK
<1>3. ASSUME FinalInMinutes(b), NEW t \in OnTime, here(t)
      PROVE  t \in bars1m
  <2>1. stamp[t] < wm1m
    <3> HIDE DEF b
    <3> QED BY <1>1, <1>2, <1>3 DEF FinalInMinutes
  <2>2. b <= FloorToMinute(stamp[t]) /\ FloorToMinute(stamp[t]) \in Nat
    BY <1>1, <1>2, <1>3, IntervalAssumption, UnitsInBucket DEF FloorToMinute
  <2>3. ~Over(FloorToMinute(stamp[t]), MinuteKeep)
    <3> HIDE DEF b
    <3> QED BY <1>1, <1>3, <2>2 DEF FinalInMinutes, Over
  <2> QED BY <2>1, <2>3 DEF Retained, OnTimeTicksKept
<1>4. ASSUME FinalInDays(b), NEW t \in OnTime, here(t)
      PROVE  t \in bars1d
  <2>1. stamp[t] < wm1d
    <3> HIDE DEF b
    <3> QED BY <1>1, <1>2, <1>4 DEF FinalInDays
  <2>2. b <= FloorToDay(stamp[t]) /\ FloorToDay(stamp[t]) \in Nat
    <3>1. BucketLen % DayLen = 0
      BY <1>4 DEF FinalInDays
    <3> QED BY <1>1, <1>2, <1>4, <3>1, UnitsInBucket DEF FloorToDay
  <2>3. DayKeep > 0 => ~Over(FloorToDay(stamp[t]), DayKeep)
    <3> HIDE DEF b
    <3> QED BY <1>1, <1>4, <2>2 DEF FinalInDays, Over
  <2> QED BY <2>1, <2>3 DEF Retained, OnTimeTicksKept
<1>5. ASSUME FinalInMinutes(b)
      PROVE  TrueRows(x, b, bars1m) = InBucket(OfIndex(x, bars1m), b)
  <2> HIDE DEF b
  <2> QED BY <1>3, <1>5 DEF TrueRows, InBucket, OfIndex
<1>6. ASSUME FinalInDays(b)
      PROVE  TrueRows(x, b, bars1d) = InBucket(OfIndex(x, bars1d), b)
  <2> HIDE DEF b
  <2> QED BY <1>4, <1>6 DEF TrueRows, InBucket, OfIndex
<1> QED BY <1>5, <1>6

\* What the retention leaves of a final bucket, and what the three folds make
\* of it, is the answer.
LEMMA AnswersFollow == Inv /\ Retained => IndexAnswersAreTrue
<1> SUFFICES ASSUME Inv, Retained, NEW time \in 0 .. now,
                    NEW x, NEW feed \in Feeds, NEW price \in [Ticks -> Prices]
             PROVE  /\ FinalInMinutes(BucketOf(time)) =>
                         Tells(AnswerFromMinutes(x, feed, price), BucketOf(time),
                               TrueRows(x, BucketOf(time), bars1m), feed, price)
                    /\ FinalInDays(BucketOf(time)) =>
                         Tells(AnswerFromDays(x, feed, price), BucketOf(time),
                               TrueRows(x, BucketOf(time), bars1d), feed, price)
  BY DEF IndexAnswersAreTrue
<1> DEFINE b == BucketOf(time)
<1>1. time \in Nat /\ b \in Nat /\ MinuteLen \in Nat \ {0} /\ DayLen \in Nat \ {0}
  BY TimeFacts, BucketFacts, UnitLengths
<1>2. ASSUME NEW bars \in {bars1m, bars1d}
      PROVE  \A t \in OfIndex(x, bars) : t \in Ticks /\ stamp[t] # NoStamp
  BY TimeFacts DEF OfIndex
<1>3. ASSUME FinalInMinutes(b)
      PROVE  Tells(AnswerFromMinutes(x, feed, price), b, TrueRows(x, b, bars1m), feed, price)
  <2> DEFINE rows == OfIndex(x, bars1m)
             M == MinuteAt(rows, feed)
             table == MinuteTable(rows, feed, price)
  <2>1. \A t \in rows : t \in Ticks /\ stamp[t] # NoStamp
    BY <1>2
  <2> HIDE DEF rows
  <2>2. FoldedTable(Places(rows, feed), M, PriceAt(rows, feed, price), table, "index")
    BY <2>1, MinuteTableFolds
  <2>3. Readable(rows, feed, price)
    BY <2>1 DEF Readable
  <2>4. ASSUME NEW i \in Places(rows, feed)
        PROVE  BucketOf(M[i]) = b <=> b <= stamp[feed[i]] /\ stamp[feed[i]] < b + BucketLen
    <3>1. stamp[feed[i]] \in Nat
      BY <2>1, FeedFacts
    <3>2. M[i] = stamp[feed[i]] - (stamp[feed[i]] % MinuteLen)
      BY DEF MinuteAt, FloorToMinute
    <3> QED BY <1>1, <3>1, <3>2, IntervalAssumption, UnitsInBucket
  <2>5. Since(now) <= b
    BY <1>3 DEF FinalInMinutes
  <2> HIDE DEF b, M, table
  <2>6. Tells(Served(table, now, IndexLeg), b, InBucket(rows, b), feed, price)
    BY <1>1, <2>2, <2>3, <2>4, <2>5, TableTells
  <2>7. TrueRows(x, b, bars1m) = InBucket(rows, b)
    BY <1>1, <1>3, FinalBucketIsWhole DEF b, rows
  <2> QED BY <2>6, <2>7 DEF AnswerFromMinutes, table, rows
<1>4. ASSUME FinalInDays(b)
      PROVE  Tells(AnswerFromDays(x, feed, price), b, TrueRows(x, b, bars1d), feed, price)
  <2> DEFINE rows == OfIndex(x, bars1d)
             M == DayAt(rows, feed)
             table == DayTable(rows, feed, price)
  <2>1. \A t \in rows : t \in Ticks /\ stamp[t] # NoStamp
    BY <1>2
  <2> HIDE DEF rows
  <2>2. FoldedTable(Places(rows, feed), M, PriceAt(rows, feed, price), table, "index")
    BY <2>1, DayTableFolds
  <2>3. Readable(rows, feed, price)
    BY <2>1 DEF Readable
  <2>4. ASSUME NEW i \in Places(rows, feed)
        PROVE  BucketOf(M[i]) = b <=> b <= stamp[feed[i]] /\ stamp[feed[i]] < b + BucketLen
    <3>1. stamp[feed[i]] \in Nat
      BY <2>1, FeedFacts
    <3>2. M[i] = stamp[feed[i]] - (stamp[feed[i]] % DayLen)
      BY DEF DayAt, FloorToDay
    <3>3. BucketLen % DayLen = 0
      BY <1>4 DEF FinalInDays
    <3> QED BY <1>1, <3>1, <3>2, <3>3, UnitsInBucket
  <2>5. Since(now) <= b
    BY <1>4 DEF FinalInDays
  <2> HIDE DEF b, M, table
  <2>6. Tells(Served(table, now, IndexLeg), b, InBucket(rows, b), feed, price)
    BY <1>1, <2>2, <2>3, <2>4, <2>5, TableTells
  <2>7. TrueRows(x, b, bars1d) = InBucket(rows, b)
    BY <1>1, <1>4, FinalBucketIsWhole DEF b, rows
  <2> QED BY <2>6, <2>7 DEF AnswerFromDays, table, rows
<1> QED BY <1>3, <1>4

-----------------------------------------------------------------------------
(* The results *)

\* Type correctness: no watermark or cutoff leaves its domain and no table
\* holds a tick that was never stamped.
THEOREM TypeCorrect == Spec => []TypeOK
<1>1. Inv => TypeOK
  BY DEF Inv
<1> QED BY Invariance, <1>1, PTL

\* No tick stored in time is passed by a watermark before it is in a bar, or
\* purged from any tier before the tier above has it and its days there are over.
THEOREM TicksKept == Spec => []OnTimeTicksKept
<1>1. Retained => OnTimeTicksKept
  BY DEF Retained
<1> QED BY Invariance, RetainedInit, RetainedStep, <1>1, PTL DEF Spec

\* GET /ohlc/index answers a final bucket if and only if it has ticks, and with
\* the open, high, low and close of those ticks, from either table.
THEOREM IndexAnswersHold == Spec => []IndexAnswersAreTrue
BY Invariance, RetainedInit, RetainedStep, AnswersFollow, PTL DEF Spec

\* The daily tier accounts for what the purge takes from the minute tier.
THEOREM NothingLostToRollup == Spec => []RolledUp
<1>1. Inv => RolledUp
  BY DEF Inv
<1> QED BY Invariance, <1>1, PTL

\* A minute bar is never partial.
THEOREM MinuteBarsWhole == Spec => []WholeMinuteBars
<1>1. Inv => WholeMinuteBars
  BY DEF Inv
<1> QED BY Invariance, <1>1, PTL

\* A daily bar is never partial.
THEOREM DayBarsWhole == Spec => []WholeDayBars
<1>1. Inv => WholeDayBars
  BY DEF Inv
<1> QED BY Invariance, <1>1, PTL

\* No tier and no running pass is ahead of the tier below it or of the clock.
THEOREM TiersOrdered == Spec => []WatermarkOrder
<1>1. Inv => WatermarkOrder
  BY DEF Inv, Boundaries
<1> QED BY Invariance, <1>1, PTL

\* A pass that repeats work rewrites no bar with less than it held.
THEOREM NoBarShrinks == Spec => BarsNeverShrink
<1> DEFINE Kept == /\ bars1m \ bars1m' \subseteq bars1d \cup expired
                   /\ bars1d \ bars1d' \subseteq expired'
<1>1. ASSUME Inv, [Next]_vars PROVE [Kept]_vars
  <2>1. CASE AggCommit
    BY <1>1, <2>1, MinutesGrow DEF AggCommit
  <2>2. CASE RollCommit
    BY <1>1, <2>2, DaysGrow DEF RollCommit
  <2>3. CASE PurgeBarsDelete
    <3>1. ASSUME NEW t \in bars1m \ bars1m' PROVE stamp[t] < wm1d
      <4>1. FloorToMinute(stamp[t]) < wm1d
        BY <1>1, <2>3, <3>1, FloorFacts
           DEF Inv, PurgeBarsDelete, Boundaries, TypeOK, NoStamp
      <4>2. FloorToMinute(wm1d) = wm1d /\ wm1d \in Nat /\ stamp[t] \in Nat
        BY <1>1, FloorFacts DEF Inv, Boundaries, TypeOK, NoStamp
      <4> QED BY <4>1, <4>2, FloorFacts
    <3> QED BY <1>1, <2>3, <3>1 DEF Inv, RolledUp, PurgeBarsDelete
  <2>4. CASE PurgeDays
    BY <2>4 DEF PurgeDays
  <2>5. CASE UNCHANGED <<bars1m, bars1d>>
    BY <2>5
  <2>6. CASE UNCHANGED vars
    BY <2>6
  <2> QED
    BY <1>1, <2>1, <2>2, <2>3, <2>4, <2>5, <2>6
       DEF Next, IngestStep, AggStep, RollStep, PurgeStep, AdvanceClock, HandleMessage, Flush,
           FlushFail, Crash, AggRead, AggSelect, AggAdvance, AggFail, RollRead, RollSelect,
           RollAdvance, RollFail, PurgeTicksRead, PurgeTicksDelete, PurgeBarsRead, PurgeFail, tables
<1>2. Spec => [][Kept]_vars
  BY Invariance, <1>1, PTL DEF Spec
<1> QED BY <1>2 DEF BarsNeverShrink

-----------------------------------------------------------------------------
(* The refinement of BarLedger *)

\* What Inv leaves open of a pass: it has something to do, and at its end the
\* daily bars in its range are those that the purge of index_ohlc_1d has not
\* taken since the commit, which is oldest first.
RollWhole ==
    /\ agg.pc # "idle" => agg.since < agg.cutoff
    /\ roll.pc # "idle" => roll.since < roll.cutoff
    /\ roll.pc = "advance" =>
         \E oldest \in 0 .. MaxTime : \A t \in bars1m :
             InPass(roll, t) => (t \in bars1d <=> FloorToDay(stamp[t]) >= oldest)

LEMMA RollWholeInit == Init => RollWhole
BY DEF Init, RollWhole, IdleJob

\* The purge of index_ohlc_1d goes by a boundary of its own.
LEMMA ExpiredDaysBelow ==
    ASSUME Inv
    PROVE  \E keep \in 0 .. MaxTime :
               \A t \in bars1d : t \in ExpiredDays <=> FloorToDay(stamp[t]) < keep
<1>1. \A t \in bars1d : FloorToDay(stamp[t]) \in Nat
  BY TimeFacts, FloorFacts
<1>2. now \in Nat /\ now <= MaxTime /\ MaxTime \in Nat /\ DayKeep \in Nat
  BY TimeFacts
<1>3. CASE DayKeep = 0 \/ now <= DayKeep
  <2>1. \A t \in bars1d : ~(t \in ExpiredDays) /\ ~(FloorToDay(stamp[t]) < 0)
    BY <1>1, <1>2, <1>3 DEF ExpiredDays
  <2> QED BY <1>2, <2>1
<1>4. CASE DayKeep > 0 /\ now > DayKeep
  <2>1. now - DayKeep \in 0 .. MaxTime
    BY <1>2, <1>4
  <2>2. \A t \in bars1d : t \in ExpiredDays <=> FloorToDay(stamp[t]) < now - DayKeep
    BY <1>4 DEF ExpiredDays
  <2> QED BY <2>1, <2>2
<1> QED BY <1>2, <1>3, <1>4

LEMMA RollWholeStep == Inv /\ RollWhole /\ [Next]_vars => RollWhole'
<1> SUFFICES ASSUME Inv, RollWhole, [Next]_vars PROVE RollWhole'
  OBVIOUS
<1>1. CASE UNCHANGED <<stamp, bars1m, bars1d, agg, roll>>
  BY <1>1 DEF RollWhole, InPass
<1>2. ASSUME NEW t \in Ticks, HandleMessage(t) PROVE RollWhole'
  <2>1. \A u \in bars1m : stamp'[u] = stamp[u]
    BY <1>2, TimeFacts DEF HandleMessage
  <2> QED BY <1>2, <2>1 DEF RollWhole, InPass, HandleMessage, tables, jobs
<1>3. CASE Crash
  BY <1>3 DEF RollWhole, Crash, IdleJob
<1>4. CASE AggRead
  BY <1>4 DEF RollWhole, InPass, AggRead, tables
<1>5. CASE AggSelect
  BY <1>5 DEF Inv, TypeOK, RollWhole, InPass, AggSelect, tables
<1>6. CASE AggCommit
  <2>1. /\ bars1m' = bars1m \cup agg.rows
        /\ UNCHANGED <<stamp, bars1d, roll>>
        /\ agg' = [agg EXCEPT !.pc = "advance", !.rows = {}]
    BY <1>6, MinutesGrow DEF AggCommit
  <2>2. ASSUME roll.pc = "advance", NEW t \in agg.rows PROVE ~InPass(roll, t)
    <3>1. wm1m <= stamp[t] /\ t \in ticks /\ roll.cutoff <= FloorToDay(wm1m)
      BY <1>6, <2>2 DEF Inv, AggCommit, AggCovers, InPass, Boundaries, WatermarkOrder
    <3>2. stamp[t] \in Int /\ wm1m \in Nat /\ roll.cutoff \in Nat /\ FloorToDay(wm1m) <= wm1m
          /\ FloorToDay(wm1m) \in Nat
      BY <3>1, FloorFacts DEF Inv, TypeOK, NoStamp
    <3> QED BY <3>1, <3>2 DEF InPass
  <2>3. \A t : InPass(roll, t)' <=> InPass(roll, t)
    BY <2>1 DEF InPass
  <2>4. agg.pc # "idle" /\ agg'.since = agg.since /\ agg'.cutoff = agg.cutoff
    BY <1>6, <2>1 DEF AggCommit, Inv, TypeOK
  <2> QED BY <2>1, <2>2, <2>3, <2>4 DEF RollWhole
<1>7. CASE AggAdvance \/ AggFail
  BY <1>7 DEF RollWhole, InPass, AggAdvance, AggFail, IdleJob, tables
<1>8. CASE RollRead
  BY <1>8 DEF RollWhole, RollRead, tables
<1>9. CASE RollSelect
  <2>1. /\ UNCHANGED <<stamp, bars1m, bars1d, agg>>
        /\ roll.pc # "idle" /\ roll'.since = roll.since /\ roll'.cutoff = roll.cutoff
        /\ roll'.pc = "advance" => RollRows = {}
    BY <1>9 DEF RollSelect, tables, Inv, TypeOK
  <2>2. ASSUME NEW t \in bars1m, InPass(roll, t) PROVE t \in RollRows
    <3>1. /\ roll.since \in Nat /\ roll.cutoff \in Nat /\ stamp[t] \in Nat
          /\ roll.since = wm1d /\ FloorToDay(wm1d) = wm1d
      BY <2>1, TimeFacts DEF Inv, TypeOK, Boundaries, WatermarkOrder
    <3>2. FloorToMinute(roll.since) = roll.since
      BY <3>1, FloorFacts
    <3> QED BY <2>2, <3>1, <3>2, FloorFacts DEF RollRows, InPass
  <2>3. \A t \in bars1m : InPass(roll, t)' <=> InPass(roll, t)
    BY <2>1 DEF InPass
  <2> QED BY <2>1, <2>2, <2>3, TimeFacts DEF RollWhole
<1>10. CASE RollCommit
  <2>1. /\ bars1d' = bars1d \cup roll.rows
        /\ UNCHANGED <<stamp, bars1m, agg>>
        /\ roll.pc # "idle" /\ roll'.since = roll.since /\ roll'.cutoff = roll.cutoff
        /\ roll.rows = {t \in bars1m : InPass(roll, t)}
    BY <1>10, DaysGrow DEF RollCommit, Inv, TypeOK, RollCovers
  <2>2. \A t \in bars1m : InPass(roll, t)' => t \in bars1d'
    BY <2>1 DEF InPass
  <2>3. \A t \in bars1m : FloorToDay(stamp[t]) >= 0
    BY TimeFacts, FloorFacts
  <2>4. 0 \in 0 .. MaxTime
    BY TimeFacts
  <2> QED BY <2>1, <2>2, <2>3, <2>4 DEF RollWhole
<1>11. CASE RollAdvance \/ RollFail
  BY <1>11 DEF RollWhole, RollAdvance, RollFail, IdleJob, tables
<1>12. CASE PurgeBarsDelete
  BY <1>12 DEF RollWhole, InPass, PurgeBarsDelete
<1>13. CASE PurgeDays
  <2>1. bars1d' = bars1d \ ExpiredDays /\ UNCHANGED <<stamp, bars1m, agg, roll>>
    BY <1>13 DEF PurgeDays
  <2>2. SUFFICES ASSUME roll.pc = "advance"
                 PROVE  \E oldest \in 0 .. MaxTime : \A t \in bars1m :
                            InPass(roll, t) => (t \in bars1d' <=> FloorToDay(stamp[t]) >= oldest)
    BY <2>1 DEF RollWhole, InPass
  <2>3. PICK oldest \in 0 .. MaxTime : \A t \in bars1m :
            InPass(roll, t) => (t \in bars1d <=> FloorToDay(stamp[t]) >= oldest)
    BY <2>2 DEF RollWhole
  <2>4. PICK keep \in 0 .. MaxTime :
            \A t \in bars1d : t \in ExpiredDays <=> FloorToDay(stamp[t]) < keep
    BY ExpiredDaysBelow
  <2>5. \A t \in bars1m : FloorToDay(stamp[t]) \in Nat
    BY TimeFacts, FloorFacts
  <2>6. CASE oldest <= keep
    <3>1. \A t \in bars1m : InPass(roll, t) => (t \in bars1d' <=> FloorToDay(stamp[t]) >= keep)
      BY <2>1, <2>3, <2>4, <2>5, <2>6
    <3> QED BY <3>1
  <2>7. CASE keep <= oldest
    <3>1. \A t \in bars1m : InPass(roll, t) => (t \in bars1d' <=> FloorToDay(stamp[t]) >= oldest)
      BY <2>1, <2>3, <2>4, <2>5, <2>7
    <3> QED BY <3>1
  <2>8. oldest \in Int /\ keep \in Int
    OBVIOUS
  <2> QED BY <2>6, <2>7, <2>8
<1>14. CASE UNCHANGED vars
  BY <1>1, <1>14 DEF vars, tables, jobs
<1> QED
  BY <1>1, <1>2, <1>3, <1>4, <1>5, <1>6, <1>7, <1>8, <1>9, <1>10, <1>11, <1>12, <1>13, <1>14
     DEF Next, IngestStep, AggStep, RollStep, PurgeStep, AdvanceClock, Flush, FlushFail,
         PurgeTicksRead, PurgeTicksDelete, PurgeBarsRead, PurgeFail, tables, jobs

\* A step that leaves the bars, the watermarks and their stamps alone.
LEMMA LedgerStutters ==
    ASSUME UNCHANGED <<stamp, bars1m, bars1d, wm1m, wm1d>>
    PROVE  UNCHANGED Ledger!ledger
BY DEF Ledger!ledger, Sealed

\* A tick is stamped once, before it is in any bar.
LEMMA StampingStutters ==
    ASSUME Inv, NEW t \in Ticks, HandleMessage(t)
    PROVE  UNCHANGED Ledger!ledger
<1>1. /\ UNCHANGED <<bars1m, bars1d, wm1m, wm1d>>
      /\ \A u \in bars1m \cup bars1d : stamp'[u] = stamp[u]
  BY TimeFacts DEF HandleMessage, tables
<1>2. Sealed(bars1m, wm1m)' = Sealed(bars1m, wm1m) /\ Sealed(bars1d, wm1d)' = Sealed(bars1d, wm1d)
  BY <1>1 DEF Sealed
<1> QED BY <1>1, <1>2 DEF Ledger!ledger

\* A pass writes above the watermark only.
LEMMA CommitsStutter ==
    ASSUME Inv, AggCommit \/ RollCommit
    PROVE  UNCHANGED Ledger!ledger
<1>1. CASE AggCommit
  <2>1. bars1m' = bars1m \cup agg.rows /\ UNCHANGED <<stamp, bars1d, wm1m, wm1d>>
    BY <1>1, MinutesGrow DEF AggCommit
  <2>2. \A t \in agg.rows : ~(stamp[t] < wm1m)
    <3>1. \A t \in agg.rows : wm1m <= stamp[t] /\ t \in ticks
      BY <1>1 DEF Inv, AggCommit, AggCovers, InPass, Boundaries, WatermarkOrder
    <3> QED BY <3>1, TimeFacts DEF Inv, TypeOK, NoStamp
  <2>3. Sealed(bars1m, wm1m)' = Sealed(bars1m, wm1m) /\ Sealed(bars1d, wm1d)' = Sealed(bars1d, wm1d)
    BY <2>1, <2>2 DEF Sealed
  <2> QED BY <2>1, <2>3 DEF Ledger!ledger
<1>2. CASE RollCommit
  <2>1. bars1d' = bars1d \cup roll.rows /\ UNCHANGED <<stamp, bars1m, wm1m, wm1d>>
    BY <1>2, DaysGrow DEF RollCommit
  <2>2. \A t \in roll.rows : ~(stamp[t] < wm1d)
    <3>1. \A t \in roll.rows : wm1d <= stamp[t] /\ t \in bars1m
      BY <1>2 DEF Inv, RollCommit, RollCovers, InPass, Boundaries, WatermarkOrder
    <3> QED BY <3>1, TimeFacts
  <2>3. Sealed(bars1m, wm1m)' = Sealed(bars1m, wm1m) /\ Sealed(bars1d, wm1d)' = Sealed(bars1d, wm1d)
    BY <2>1, <2>2 DEF Sealed
  <2> QED BY <2>1, <2>3 DEF Ledger!ledger
<1> QED BY <1>1, <1>2

\* A boundary has no remainder.
LEMMA BoundaryRemainder ==
    /\ \A x \in Nat : FloorToMinute(x) = x => x % MinuteLen = 0
    /\ \A x \in Nat : FloorToDay(x) = x => x % DayLen = 0
<1>1. MinuteLen \in Nat \ {0} /\ DayMinutes \in Nat \ {0}
  BY LengthsAssumption
<1>2. DayLen \in Nat /\ DayLen # 0
  BY <1>1 DEF DayLen
<1>3. \A x \in Nat : x % MinuteLen \in Int /\ x % DayLen \in Int
  BY <1>1, <1>2, DivisionFacts
<1> QED BY <1>3 DEF FloorToMinute, FloorToDay

\* Moving the 1-minute watermark seals the minutes of the pass.
LEMMA AggAdvanceSeals == Inv /\ RollWhole /\ AggAdvance => Ledger!SealMinutes
<1> SUFFICES ASSUME Inv, RollWhole, AggAdvance PROVE Ledger!SealMinutes
  OBVIOUS
<1> DEFINE end == agg.cutoff
<1>1. /\ wm1m' = end /\ UNCHANGED <<stamp, bars1m, bars1d, wm1d>>
      /\ wm1m < end /\ end <= FloorToMinute(now) /\ FloorToMinute(end) = end /\ end \in Nat
  BY DEF AggAdvance, RollWhole, Inv, TypeOK, Boundaries, WatermarkOrder
<1>2. end \in wm1m + 1 .. MaxTime /\ end % MinuteLen = 0
  BY <1>1, TimeFacts, FloorFacts, BoundaryRemainder
<1>3. \A t \in bars1m : t \in Ticks /\ stamp[t] \in 0 .. MaxTime
  BY TimeFacts
<1>4. Sealed(bars1m, wm1m) \subseteq Sealed(bars1m, wm1m)'
  BY <1>1, <1>3, TimeFacts DEF Sealed
<1>5. Sealed(bars1m, wm1m)' \ Sealed(bars1m, wm1m)
        \subseteq Ledger!Between(wm1m, Ledger!Pairs, end)
  <2> SUFFICES ASSUME NEW t \in bars1m, stamp[t] < end, ~(stamp[t] < wm1m)
               PROVE  <<t, stamp[t]>> \in Ledger!Between(wm1m, Ledger!Pairs, end)
    BY <1>1 DEF Sealed
  <2>1. wm1m <= stamp[t]
    BY <1>3, TimeFacts
  <2> QED BY <1>3, <2>1 DEF Ledger!Between, Ledger!Pairs
<1>6. Sealed(bars1d, wm1d)' = Sealed(bars1d, wm1d)
  BY <1>1 DEF Sealed
<1> QED BY <1>1, <1>2, <1>4, <1>5, <1>6 DEF Ledger!SealMinutes

\* Moving the daily watermark seals the days of the pass, with the daily bars
\* that have not expired since the commit.
LEMMA RollAdvanceSeals == Inv /\ RollWhole /\ RollAdvance => Ledger!SealDays
<1> SUFFICES ASSUME Inv, RollWhole, RollAdvance PROVE Ledger!SealDays
  OBVIOUS
<1> DEFINE end == roll.cutoff
<1>1. /\ wm1d' = end /\ UNCHANGED <<stamp, bars1m, bars1d, wm1m>>
      /\ roll.since = wm1d /\ wm1d < end /\ end <= FloorToDay(wm1m) /\ FloorToDay(end) = end
      /\ end \in Nat
  BY DEF RollAdvance, RollWhole, Inv, TypeOK, Boundaries, WatermarkOrder
<1>2. end <= wm1m /\ wm1m \in Nat /\ wm1d \in Nat
  BY <1>1, TimeFacts, FloorFacts
<1>3. end \in wm1d + 1 .. wm1m /\ end % DayLen = 0
  BY <1>1, <1>2, BoundaryRemainder
<1>4. PICK oldest \in 0 .. MaxTime : \A t \in bars1m :
          InPass(roll, t) => (t \in bars1d <=> FloorToDay(stamp[t]) >= oldest)
  BY DEF RollWhole, RollAdvance
<1>5. \A t \in bars1m \cup bars1d : stamp[t] \in Nat
  BY TimeFacts
<1>6. \A t \in bars1d : stamp[t] >= wm1d => t \in bars1m
  BY DEF Inv, OpenBars
<1> DEFINE added == {p \in Ledger!Between(wm1d, Sealed(bars1m, wm1m), end) : Ledger!DayOf(p) >= oldest}
<1>7. \A t : <<t, stamp[t]>> \in added <=>
               /\ t \in bars1m /\ stamp[t] < wm1m /\ wm1d <= stamp[t] /\ stamp[t] < end
               /\ FloorToDay(stamp[t]) >= oldest
  BY DEF Ledger!Between, Sealed, Ledger!DayOf, FloorToDay
<1>8. \A p \in added : \E t : p = <<t, stamp[t]>>
  BY DEF Ledger!Between, Sealed
<1>9. \A t : <<t, stamp[t]>> \in added <=> t \in bars1d /\ wm1d <= stamp[t] /\ stamp[t] < end
  BY <1>1, <1>2, <1>4, <1>5, <1>6, <1>7 DEF InPass
<1>10. Sealed(bars1d, wm1d)' = Sealed(bars1d, wm1d) \cup added
  <2>1. Sealed(bars1d, wm1d)' = {<<t, stamp[t]>> : t \in {u \in bars1d : stamp[u] < end}}
    BY <1>1 DEF Sealed
  <2>2. \A t \in bars1d : stamp[t] < end <=>
            stamp[t] < wm1d \/ (wm1d <= stamp[t] /\ stamp[t] < end)
    BY <1>1, <1>2, <1>5
  <2> HIDE DEF added, end
  <2> QED BY <1>8, <1>9, <2>1, <2>2 DEF Sealed
<1>11. Sealed(bars1m, wm1m)' = Sealed(bars1m, wm1m)
  BY <1>1 DEF Sealed
<1> QED BY <1>1, <1>3, <1>10, <1>11 DEF Ledger!SealDays

\* The purge of index_ohlc_1m goes by the bucket's start, below the daily
\* watermark.
LEMMA PurgeBarsDrops == Inv /\ PurgeBarsDelete => Ledger!DropMinutes
<1> SUFFICES ASSUME Inv, PurgeBarsDelete PROVE Ledger!DropMinutes
  OBVIOUS
<1>1. /\ bars1m' = {t \in bars1m : ~(FloorToMinute(stamp[t]) < purge.cutoff)}
      /\ UNCHANGED <<stamp, bars1d, wm1m, wm1d>>
      /\ purge.cutoff \in Int /\ purge.cutoff <= wm1d /\ wm1d \in Nat
  BY DEF PurgeBarsDelete, Inv, TypeOK, Boundaries
<1>2. \A t \in bars1m : FloorToMinute(stamp[t]) \in Nat
  BY TimeFacts, FloorFacts
<1>3. PICK oldest \in 0 .. wm1d :
          \A t \in bars1m : ~(FloorToMinute(stamp[t]) < purge.cutoff) <=> FloorToMinute(stamp[t]) >= oldest
  <2>1. CASE purge.cutoff < 0
    <3>1. 0 \in 0 .. wm1d
      BY <1>1
    <3>2. \A t \in bars1m :
              ~(FloorToMinute(stamp[t]) < purge.cutoff) <=> FloorToMinute(stamp[t]) >= 0
      BY <1>1, <1>2, <2>1
    <3> QED BY <3>1, <3>2
  <2>2. CASE purge.cutoff >= 0
    <3>1. purge.cutoff \in 0 .. wm1d
      BY <1>1, <2>2
    <3>2. \A t \in bars1m : ~(FloorToMinute(stamp[t]) < purge.cutoff)
                              <=> FloorToMinute(stamp[t]) >= purge.cutoff
      BY <1>1, <1>2
    <3> QED BY <3>1, <3>2
  <2> QED BY <1>1, <2>1, <2>2
<1>4. Sealed(bars1m, wm1m)' = {p \in Sealed(bars1m, wm1m) : Ledger!MinuteOf(p) >= oldest}
  <2>1. \A t : Ledger!MinuteOf(<<t, stamp[t]>>) = FloorToMinute(stamp[t])
    BY DEF Ledger!MinuteOf, FloorToMinute
  <2>2. bars1m' = {t \in bars1m : FloorToMinute(stamp[t]) >= oldest}
    BY <1>1, <1>3
  <2> QED BY <1>1, <2>1, <2>2 DEF Sealed
<1>5. Sealed(bars1d, wm1d)' = Sealed(bars1d, wm1d)
  BY <1>1 DEF Sealed
<1> QED BY <1>1, <1>4, <1>5 DEF Ledger!DropMinutes

\* So does the purge of index_ohlc_1d, without a watermark.
LEMMA PurgeDaysDrops == Inv /\ PurgeDays => Ledger!DropDays
<1> SUFFICES ASSUME Inv, PurgeDays PROVE Ledger!DropDays
  OBVIOUS
<1>1. bars1d' = bars1d \ ExpiredDays /\ UNCHANGED <<stamp, bars1m, wm1m, wm1d>>
  BY DEF PurgeDays
<1>2. PICK keep \in 0 .. MaxTime :
          \A t \in bars1d : t \in ExpiredDays <=> FloorToDay(stamp[t]) < keep
  BY ExpiredDaysBelow
<1>3. bars1d' = {t \in bars1d : FloorToDay(stamp[t]) >= keep}
  <2>1. \A t \in bars1d : FloorToDay(stamp[t]) \in Nat
    BY TimeFacts, FloorFacts
  <2> QED BY <1>1, <1>2, <2>1
<1>4. Sealed(bars1d, wm1d)' = {p \in Sealed(bars1d, wm1d) : Ledger!DayOf(p) >= keep}
  <2>1. \A t : Ledger!DayOf(<<t, stamp[t]>>) = FloorToDay(stamp[t])
    BY DEF Ledger!DayOf, FloorToDay
  <2> QED BY <1>1, <1>3, <2>1 DEF Sealed
<1>5. Sealed(bars1m, wm1m)' = Sealed(bars1m, wm1m)
  BY <1>1 DEF Sealed
<1> QED BY <1>1, <1>4, <1>5 DEF Ledger!DropDays

LEMMA LedgerInit == Init => Ledger!Init
BY DEF Init, Ledger!Init, Sealed

LEMMA LedgerStep == Inv /\ RollWhole /\ [Next]_vars => [Ledger!Next]_Ledger!ledger
<1> SUFFICES ASSUME Inv, RollWhole, [Next]_vars PROVE [Ledger!Next]_Ledger!ledger
  OBVIOUS
<1>1. CASE UNCHANGED <<stamp, bars1m, bars1d, wm1m, wm1d>>
  BY <1>1, LedgerStutters
<1>2. CASE \E t \in Ticks : HandleMessage(t)
  BY <1>2, StampingStutters
<1>3. CASE AggCommit \/ RollCommit
  BY <1>3, CommitsStutter
<1>4. CASE AggAdvance
  BY <1>4, AggAdvanceSeals DEF Ledger!Next
<1>5. CASE RollAdvance
  BY <1>5, RollAdvanceSeals DEF Ledger!Next
<1>6. CASE PurgeBarsDelete
  BY <1>6, PurgeBarsDrops DEF Ledger!Next
<1>7. CASE PurgeDays
  BY <1>7, PurgeDaysDrops DEF Ledger!Next
<1> QED
  BY <1>1, <1>2, <1>3, <1>4, <1>5, <1>6, <1>7
     DEF Next, IngestStep, AggStep, RollStep, PurgeStep, AdvanceClock, Flush, FlushFail, Crash,
         AggRead, AggSelect, AggFail, RollRead, RollSelect, RollFail, PurgeTicksRead,
         PurgeTicksDelete, PurgeBarsRead, PurgeFail, vars, tables

\* A reader of the bars below the watermarks sees a ledger of sealed bars: each
\* is whole when it is sealed, is never rewritten, and leaves only when the
\* tier above has it or its retention is over, oldest first.
THEOREM RefinesLedger == Spec => ImplementsLedger
<1>1. Spec => []RollWhole
  BY Invariance, RollWholeInit, RollWholeStep, PTL DEF Spec
<1>2. Spec => Ledger!Init /\ [][Ledger!Next]_Ledger!ledger
  BY <1>1, Invariance, LedgerInit, LedgerStep, PTL DEF Spec
<1> QED BY <1>2 DEF ImplementsLedger, Ledger!Spec

=============================================================================
