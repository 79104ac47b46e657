---------------------------- MODULE IndexPipeline ----------------------------
(***************************************************************************)
(* The index data path of the server: the streamer stamps a tick, the      *)
(* batched writer stores it in index_ticks, the 1-minute job aggregates it *)
(* into index_ohlc_1m, the rollup carries the bar into index_ohlc_1d, and  *)
(* the daily purge deletes what the retention settings no longer keep.     *)
(* The jobs share the database and nothing else: each reads a watermark    *)
(* row of aggregation_state and later acts on what it read.                *)
(*                                                                         *)
(* Data abstraction.  A bar is the set of the ticks folded into it (its    *)
(* open, high, low, close and tick_count are functions of that set), and   *)
(* the bucket of a tick is fixed by its stamp; so a table of bars is the   *)
(* set of the ticks that its bars account for.                             *)
(*                                                                         *)
(* Times are compared in SQL as text, in three shapes: a watermark ends in *)
(* "+00:00", a tick has a fraction before that, a bucket ends in "Z".  As  *)
(* "+" < "." < "Z" the order of the texts is that of the times, down to    *)
(* the second; a clock unit stands for a second or more.                   *)
(***************************************************************************)
EXTENDS Integers

CONSTANTS
    Ticks,       \* the index ticks the feed may deliver
    IndexOf,     \* the index_name of each tick
    MinuteLen,   \* clock units in a minute
    DayMinutes,  \* minutes in a day
    RawKeep,     \* raw_ticks_keep_trading_days, in clock units
    MinuteKeep,  \* index_ohlc_1m_keep_days, in clock units
    DayKeep,     \* index_ohlc_1d_keep_days, in clock units; 0 keeps forever
    MaxTime,     \* bound: the clock stops here
    MaxFaults    \* bound: failed statements and crashes in a behaviour

ASSUME LengthsAssumption == MinuteLen \in Nat \ {0} /\ DayMinutes \in Nat \ {0}
ASSUME KeepAssumption == RawKeep \in Nat /\ MinuteKeep \in Nat /\ DayKeep \in Nat
ASSUME BoundsAssumption == MaxTime \in Nat /\ MaxFaults \in Nat

VARIABLES
    now,         \* Utc::now()
    stamp,       \* IndexTickRow::time of each tick, or NoStamp
    inflight,    \* ticks in the mpsc channel or in the writer's buffer
    ticks,       \* index_ticks
    bars1m,      \* index_ohlc_1m
    bars1d,      \* index_ohlc_1d
    wm1m,        \* aggregation_state of index_ohlc_1m; 0 when it has no row
    wm1d,        \* aggregation_state of index_ohlc_1d; 0 when it has no row
    agg,         \* aggregate_index_1m: where it is and what it has read
    roll,        \* rollup_index_1d: the same
    purge,       \* run_daily_purge: where it is and the cutoff it will use
    faults,      \* faults so far
    dropped,     \* history: ticks lost before they reached index_ticks
    late,        \* history: ticks stored after the minute they are stamped with
    expired      \* history: ticks whose daily bar outlived index_ohlc_1d_keep_days

tables == <<ticks, bars1m, bars1d, wm1m, wm1d>>
jobs == <<agg, roll, purge>>
history == <<dropped, late, expired>>
vars == <<now, stamp, inflight, tables, jobs, faults, history>>

-----------------------------------------------------------------------------
NoStamp == -1

FloorToMinute(t) == t - (t % MinuteLen)

DayLen == MinuteLen * DayMinutes

FloorToDay(t) == t - (t % DayLen)

SmallerOf(a, b) == IF a < b THEN a ELSE b

\* The primary keys of the two bar tables.
MinuteKey(t) == <<IndexOf[t], FloorToMinute(stamp[t])>>
DayKey(t) == <<IndexOf[t], FloorToDay(stamp[t])>>

\* INSERT ... ON CONFLICT DO UPDATE: a bar that is written again is replaced.
UpsertMinutes(rows) ==
    {t \in bars1m : \A r \in rows : MinuteKey(r) # MinuteKey(t)} \cup rows
UpsertDays(rows) ==
    {t \in bars1d : \A r \in rows : DayKey(r) # DayKey(t)} \cup rows

IdleJob == [pc |-> "idle", since |-> 0, cutoff |-> 0, rows |-> {}]
PurgeAt(pc) == [pc |-> pc, cutoff |-> 0]

Init ==
    /\ now = 0
    /\ stamp = [t \in Ticks |-> NoStamp]
    /\ inflight = {}
    /\ ticks = {} /\ bars1m = {} /\ bars1d = {}
    /\ wm1m = 0 /\ wm1d = 0
    /\ agg = IdleJob /\ roll = IdleJob /\ purge = PurgeAt("idle")
    /\ faults = 0
    /\ dropped = {} /\ late = {} /\ expired = {}

-----------------------------------------------------------------------------
(* Clock, ingest and faults *)

AdvanceClock ==
    /\ now < MaxTime
    /\ now' = now + 1
    /\ UNCHANGED <<stamp, inflight, tables, jobs, faults, history>>

\* Mutation: the row is handed over before it is stamped.
HandleMessageUnstamped(t) ==
    /\ stamp[t] = NoStamp
    /\ inflight' = inflight \cup {t}
    /\ UNCHANGED <<now, stamp, tables, jobs, faults, history>>

\* handle_message: the row is stamped before it is handed to the channel.
HandleMessage(t) ==
    /\ stamp[t] = NoStamp
    /\ stamp' = [stamp EXCEPT ![t] = now]
    /\ inflight' = inflight \cup {t}
    /\ UNCHANGED <<now, tables, jobs, faults, history>>

\* The channel is FIFO and has one sender, so a batch holds the oldest rows.
IsBatch(rows) ==
    /\ rows # {}
    /\ \A t \in rows, u \in inflight \ rows : stamp[t] <= stamp[u]

\* flush_index_batch, Ok: one multi-row INSERT stores the batch.
Flush(rows) ==
    /\ IsBatch(rows)
    /\ inflight' = inflight \ rows
    /\ ticks' = ticks \cup rows
    /\ late' = late \cup {t \in rows : stamp[t] < FloorToMinute(now)}
    /\ UNCHANGED <<now, stamp, bars1m, bars1d, wm1m, wm1d, jobs, faults, dropped, expired>>

Fault ==
    /\ faults < MaxFaults
    /\ faults' = faults + 1

\* flush_index_batch, Err: the error is logged and the buffer is cleared.
FlushFail(rows) ==
    /\ Fault
    /\ IsBatch(rows)
    /\ inflight' = inflight \ rows
    /\ dropped' = dropped \cup rows
    /\ UNCHANGED <<now, stamp, tables, jobs, late, expired>>

\* The process dies and is started again: memory is lost, tables remain.
Crash ==
    /\ Fault
    /\ inflight' = {}
    /\ dropped' = dropped \cup inflight
    /\ agg' = IdleJob /\ roll' = IdleJob /\ purge' = PurgeAt("idle")
    /\ UNCHANGED <<now, stamp, tables, late, expired>>

-----------------------------------------------------------------------------
(* aggregate_index_1m *)

\* Mutation: the cutoff is not floored.
AggReadUnfloored ==
    /\ agg.pc = "idle"
    /\ wm1m < now
    /\ agg' = [pc |-> "select", since |-> wm1m, cutoff |-> now, rows |-> {}]
    /\ UNCHANGED <<now, stamp, inflight, tables, roll, purge, faults, history>>

AggRead ==
    /\ agg.pc = "idle"
    /\ wm1m < FloorToMinute(now)
    /\ agg' = [pc |-> "select", since |-> wm1m, cutoff |-> FloorToMinute(now), rows |-> {}]
    /\ UNCHANGED <<now, stamp, inflight, tables, roll, purge, faults, history>>

AggRows == {t \in ticks : agg.since <= stamp[t] /\ stamp[t] < agg.cutoff}

AggSelect ==
    /\ agg.pc = "select"
    /\ agg' = [agg EXCEPT !.pc = IF AggRows = {} THEN "advance" ELSE "commit",
                          !.rows = AggRows]
    /\ UNCHANGED <<now, stamp, inflight, tables, roll, purge, faults, history>>

AggCommit ==
    /\ agg.pc = "commit"
    /\ bars1m' = UpsertMinutes(agg.rows)
    /\ agg' = [agg EXCEPT !.pc = "advance", !.rows = {}]
    /\ UNCHANGED <<now, stamp, inflight, ticks, bars1d, wm1m, wm1d, roll, purge, faults, history>>

\* set_watermark, only after the commit.
AggAdvance ==
    /\ agg.pc = "advance"
    /\ wm1m' = agg.cutoff
    /\ agg' = IdleJob
    /\ UNCHANGED <<now, stamp, inflight, ticks, bars1m, bars1d, wm1d, roll, purge, faults, history>>

\* Mutation: the watermark advances whether or not the pass succeeded.
AggFailAdvance ==
    /\ Fault
    /\ agg.pc # "idle"
    /\ wm1m' = agg.cutoff
    /\ agg' = IdleJob
    /\ UNCHANGED <<now, stamp, inflight, ticks, bars1m, bars1d, wm1d, roll, purge, history>>

\* Any statement of the pass fails: `?` returns, the loop logs the error.
AggFail ==
    /\ Fault
    /\ agg.pc # "idle"
    /\ agg' = IdleJob
    /\ UNCHANGED <<now, stamp, inflight, tables, roll, purge, history>>

AggStep == AggRead \/ AggSelect \/ AggCommit \/ AggAdvance

-----------------------------------------------------------------------------
(* rollup_index_1d *)

\* Mutation: the rollup trusts the clock instead of the 1-minute watermark.
RollReadClock ==
    /\ roll.pc = "idle"
    /\ wm1d < FloorToDay(now)
    /\ roll' = [pc |-> "select", since |-> wm1d, cutoff |-> FloorToDay(now), rows |-> {}]
    /\ UNCHANGED <<now, stamp, inflight, tables, agg, purge, faults, history>>

\* Mutation: the cutoff is not floored to a day.
RollReadUnfloored ==
    /\ roll.pc = "idle"
    /\ wm1d < wm1m
    /\ roll' = [pc |-> "select", since |-> wm1d, cutoff |-> wm1m, rows |-> {}]
    /\ UNCHANGED <<now, stamp, inflight, tables, agg, purge, faults, history>>

RollRead ==
    /\ roll.pc = "idle"
    /\ wm1d < FloorToDay(wm1m)
    /\ roll' = [pc |-> "select", since |-> wm1d, cutoff |-> FloorToDay(wm1m), rows |-> {}]
    /\ UNCHANGED <<now, stamp, inflight, tables, agg, purge, faults, history>>

RollRows ==
    {t \in bars1m : /\ roll.since <= FloorToMinute(stamp[t])
                    /\ FloorToMinute(stamp[t]) < roll.cutoff}

RollSelect ==
    /\ roll.pc = "select"
    /\ roll' = [roll EXCEPT !.pc = IF RollRows = {} THEN "advance" ELSE "commit",
                            !.rows = RollRows]
    /\ UNCHANGED <<now, stamp, inflight, tables, agg, purge, faults, history>>

RollCommit ==
    /\ roll.pc = "commit"
    /\ bars1d' = UpsertDays(roll.rows)
    /\ roll' = [roll EXCEPT !.pc = "advance", !.rows = {}]
    /\ UNCHANGED <<now, stamp, inflight, ticks, bars1m, wm1m, wm1d, agg, purge, faults, history>>

RollAdvance ==
    /\ roll.pc = "advance"
    /\ wm1d' = roll.cutoff
    /\ roll' = IdleJob
    /\ UNCHANGED <<now, stamp, inflight, ticks, bars1m, bars1d, wm1m, agg, purge, faults, history>>

\* Mutation: the loop ends at the first error.
RollFailStops ==
    /\ Fault
    /\ roll.pc # "idle"
    /\ roll' = [roll EXCEPT !.pc = "ended"]
    /\ UNCHANGED <<now, stamp, inflight, tables, agg, purge, history>>

RollFail ==
    /\ Fault
    /\ roll.pc # "idle"
    /\ roll' = IdleJob
    /\ UNCHANGED <<now, stamp, inflight, tables, agg, purge, history>>

RollStep == RollRead \/ RollSelect \/ RollCommit \/ RollAdvance

-----------------------------------------------------------------------------
(* run_daily_purge: three purges in order, each on its own watermark *)

\* Mutation: the watermark gate is dropped.
PurgeCutoffUngated(keep, watermark) == now - keep

\* Mutation: the retention setting is not looked at.
PurgeCutoffEager(keep, watermark) == watermark

\* Never past what the tier above has already accounted for.
PurgeCutoff(keep, watermark) == SmallerOf(now - keep, watermark)

\* purge_index_ticks is skipped when index_ohlc_1m has no watermark yet.
PurgeTicksRead ==
    /\ purge.pc = "idle"
    /\ purge' = IF wm1m = 0
                THEN PurgeAt("bars")
                ELSE [pc |-> "deleteTicks", cutoff |-> PurgeCutoff(RawKeep, wm1m)]
    /\ UNCHANGED <<now, stamp, inflight, tables, agg, roll, faults, history>>

PurgeTicksDelete ==
    /\ purge.pc = "deleteTicks"
    /\ ticks' = {t \in ticks : ~(stamp[t] < purge.cutoff)}
    /\ purge' = PurgeAt("bars")
    /\ UNCHANGED <<now, stamp, inflight, bars1m, bars1d, wm1m, wm1d, agg, roll, faults, history>>

\* purge_index_ohlc_1m is skipped when index_ohlc_1d has no watermark yet.
PurgeBarsRead ==
    /\ purge.pc = "bars"
    /\ purge' = IF wm1d = 0
                THEN PurgeAt("days")
                ELSE [pc |-> "deleteBars", cutoff |-> PurgeCutoff(MinuteKeep, wm1d)]
    /\ UNCHANGED <<now, stamp, inflight, tables, agg, roll, faults, history>>

PurgeBarsDelete ==
    /\ purge.pc = "deleteBars"
    /\ bars1m' = {t \in bars1m : ~(FloorToMinute(stamp[t]) < purge.cutoff)}
    /\ purge' = PurgeAt("days")
    /\ UNCHANGED <<now, stamp, inflight, ticks, bars1d, wm1m, wm1d, agg, roll, faults, history>>

\* purge_index_ohlc_1d: no tier above it, so no watermark gates it.
ExpiredDays == {t \in bars1d : DayKeep > 0 /\ FloorToDay(stamp[t]) < now - DayKeep}

PurgeDays ==
    /\ purge.pc = "days"
    /\ bars1d' = bars1d \ ExpiredDays
    /\ expired' = expired \cup ExpiredDays
    /\ purge' = PurgeAt("idle")
    /\ UNCHANGED <<now, stamp, inflight, ticks, bars1m, wm1m, wm1d, agg, roll, faults, dropped, late>>

\* A purge that fails is logged, and the next one runs all the same.
PurgeFail ==
    /\ Fault
    /\ purge' = CASE purge.pc \in {"idle", "deleteTicks"} -> PurgeAt("bars")
                  [] purge.pc \in {"bars", "deleteBars"} -> PurgeAt("days")
                  [] OTHER -> PurgeAt("idle")
    /\ UNCHANGED <<now, stamp, inflight, tables, agg, roll, history>>

PurgeStep ==
    PurgeTicksRead \/ PurgeTicksDelete \/ PurgeBarsRead \/ PurgeBarsDelete \/ PurgeDays

-----------------------------------------------------------------------------
IngestStep == \E rows \in SUBSET inflight : Flush(rows)

Next ==
    \/ AdvanceClock
    \/ \E t \in Ticks : HandleMessage(t)
    \/ IngestStep
    \/ \E rows \in SUBSET inflight : FlushFail(rows)
    \/ Crash
    \/ AggStep \/ AggFail
    \/ RollStep \/ RollFail
    \/ PurgeStep \/ PurgeFail

Spec == Init /\ [][Next]_vars

\* Time passes, the writer task runs, and the interval timers of the two
\* aggregation loops fire again after every pass, failed or not.
Fairness ==
    /\ WF_vars(AdvanceClock)
    /\ WF_vars(IngestStep)
    /\ WF_vars(AggStep)
    /\ WF_vars(RollStep)

FairSpec == Spec /\ Fairness

-----------------------------------------------------------------------------
(* Properties *)

\* Every variable stays in its domain: in particular no watermark or cutoff is
\* negative and no table or buffer holds a tick that was never stamped.
TypeOK ==
    /\ now \in 0 .. MaxTime
    /\ stamp \in [Ticks -> 0 .. MaxTime \cup {NoStamp}]
    /\ inflight \cup ticks \cup bars1m \cup bars1d \cup dropped \cup late \cup expired
         \subseteq {t \in Ticks : stamp[t] # NoStamp}
    /\ wm1m \in Nat /\ wm1d \in Nat
    /\ agg \in [pc : {"idle", "select", "commit", "advance"},
                since : Nat, cutoff : Nat, rows : SUBSET Ticks]
    /\ roll \in [pc : {"idle", "select", "commit", "advance"},
                 since : Nat, cutoff : Nat, rows : SUBSET Ticks]
    /\ purge \in [pc : {"idle", "deleteTicks", "bars", "deleteBars", "days"}, cutoff : Int]
    /\ faults \in 0 .. MaxFaults

\* Ticks that reached index_ticks before the minute of their stamp was over.
OnTime == {t \in Ticks : stamp[t] # NoStamp} \ (inflight \cup dropped \cup late)

\* Ticks some bar accounts for, or did until index_ohlc_1d_keep_days took it.
InABar == bars1m \cup bars1d \cup expired

\* A retention setting no longer asks for a row that starts here.
Over(start, keep) == start < now - keep

\* A tick stored in time is raw until its minute is aggregated and its days as
\* a raw tick are over; then it is in a minute bar until its day is rolled up
\* and its days there are over; then in a daily bar until those are over.  The
\* jobs and their failures interleave to no purge that comes too early
\* (retention.rs "so we never delete data that hasn't been safely aggregated
\* yet", "older than index_ohlc_1m_keep_days") and no watermark that passes a
\* tick that was not folded.
OnTimeTicksKept ==
    \A t \in OnTime :
        /\ t \in ticks \/ (stamp[t] < wm1m /\ Over(stamp[t], RawKeep))
        /\ stamp[t] < wm1m =>
             t \in bars1m \/ (stamp[t] < wm1d /\ Over(FloorToMinute(stamp[t]), MinuteKeep))
        /\ stamp[t] < wm1d =>
             t \in bars1d \/ (t \in expired /\ DayKeep > 0 /\ Over(FloorToDay(stamp[t]), DayKeep))

\* What a minute bar below the daily watermark holds is in its daily bar: the
\* purge of index_ohlc_1m, gated on that watermark, loses nothing.
RolledUp == \A t \in bars1m : stamp[t] < wm1d => t \in bars1d \cup expired

\* A minute bar is never partial: if it holds one tick of its minute it holds
\* every on-time raw tick of that minute ("only fully-elapsed 1-minute
\* buckets are ever aggregated").
WholeMinuteBars ==
    \A t \in bars1m, u \in ticks \ late : MinuteKey(t) = MinuteKey(u) => u \in bars1m

\* A daily bar is never partial: it accounts for every minute bar of its day
\* ("we never roll up a day whose 1m aggregation might still be partial").
WholeDayBars ==
    \A t \in bars1d, u \in bars1m : DayKey(t) = DayKey(u) => u \in bars1d

\* No tier runs ahead of the one below it, and none is ahead of the clock;
\* the cutoff a running pass holds is below the same line.
WatermarkOrder ==
    /\ wm1d <= FloorToDay(wm1m)
    /\ wm1m <= FloorToMinute(now)
    /\ agg.pc # "idle" => wm1m = agg.since /\ agg.cutoff <= FloorToMinute(now)
    /\ roll.pc # "idle" => wm1d = roll.since /\ roll.cutoff <= FloorToDay(wm1m)

\* Rewriting a bar ("a run is always safe to repeat") never loses what the bar
\* already held: a minute bar gives up a tick only to its daily bar, and a
\* daily bar only to its retention period.
BarsNeverShrink ==
    [][/\ bars1m \ bars1m' \subseteq bars1d \cup expired
       /\ bars1d \ bars1d' \subseteq expired']_vars

\* Every tick of a minute the clock leaves behind ends up in a bar, unless the
\* writer lost it to a failed insert or a crash, or stored it too late.
TicksReachBars ==
    \A t \in Ticks :
        (stamp[t] # NoStamp /\ stamp[t] < FloorToMinute(MaxTime))
            ~> (t \in InABar \cup dropped \cup late)

\* After any failures, both tiers catch up with the clock for good.
TiersCatchUp ==
    <>[](wm1m = FloorToMinute(MaxTime) /\ wm1d = FloorToDay(FloorToMinute(MaxTime)))

\* What retention.rs:33-34 promises of every tick, stored in time or not.
NeverPurgeUnaggregated == [][\A t \in ticks \ ticks' : t \in InABar]_vars

\* The bars below the watermarks are a ledger of sealed bars: nothing the jobs,
\* the failures and the late ticks do makes a reader see a sealed bar change,
\* or leave before its time.
Sealed(bars, watermark) == {<<t, stamp[t]>> : t \in {u \in bars : stamp[u] < watermark}}

Ledger == INSTANCE BarLedger WITH
    minutes <- Sealed(bars1m, wm1m), minuteEnd <- wm1m,
    days <- Sealed(bars1d, wm1d), dayEnd <- wm1d

ImplementsLedger == Ledger!Spec

=============================================================================
