---------------------------- MODULE OptionPipeline ----------------------------
(***************************************************************************)
(* The option data path: the contract resolved at startup, the ticks of    *)
(* its feed, their batches, the 1-minute aggregation into option_ohlc_1m,  *)
(* the two purges of the option tables, and what GET /ohlc/option answers  *)
(* from the bars.  There is no daily tier: a minute bar stays until its    *)
(* contract has expired and the grace is over.                             *)
(*                                                                         *)
(* One symbol and one strike are modelled: a contract stands for its       *)
(* expiry.  Ticks are numbered as they arrive, which is the order of their *)
(* times; a minute bar is the set of the ticks folded into it, so a table  *)
(* of bars is the set of the ticks its bars account for.  Days are days of *)
(* the clock that stamps the ticks.                                        *)
(***************************************************************************)
EXTENDS OhlcQuery, Sequences

CONSTANTS
    Contracts,    \* the expiries NSE may list
    ExpiryDay,    \* the last day each is traded on
    Parses,       \* contracts whose expiry string is in a known date format
    FarFuture,    \* the date stored for the others, "9999-12-31"
    Quotes,       \* the legs a message may carry: [CE |-> price, PE |-> price]
    MinuteLen,    \* clock units in a minute
    DayMinutes,   \* minutes in a day
    RawKeep,      \* raw_ticks_keep_trading_days, in clock units
    GraceDays,    \* option_ohlc_1m_expiry_grace_days
    MaxTicks,     \* bound: ticks in a behaviour
    MaxTime,      \* bound: the clock stops here
    MaxFaults     \* bound: failed statements and crashes

ASSUME LengthsAssumption ==
    /\ MinuteLen \in Nat \ {0} /\ DayMinutes \in Nat \ {0}
    /\ BucketLen % MinuteLen = 0
ASSUME ExpiryAssumption ==
    /\ ExpiryDay \in [Contracts -> Nat] /\ FarFuture \in Nat
    /\ \A c \in Contracts : ExpiryDay[c] <= FarFuture
ASSUME QuotesAssumption == \A quote \in Quotes : quote.CE \in Int /\ quote.PE \in Int
ASSUME KeepAssumption == RawKeep \in Nat /\ GraceDays \in Nat
ASSUME BoundsAssumption == MaxTicks \in Nat /\ MaxTime \in Nat /\ MaxFaults \in Nat

VARIABLES
    now,        \* Utc::now()
    following,  \* the expiry the streamer was started with
    log,        \* the rows stamped so far: time, contract, CE and PE
    inflight,   \* rows in the channel or in the writer's buffer
    ticks,      \* option_ticks
    bars,       \* option_ohlc_1m
    wm,         \* aggregation_state of option_ohlc_1m; 0 when it has no row
    agg,        \* aggregate_option_1m: where it is and what it has read
    purge,      \* the option purges: where they are and their cutoff
    faults,     \* faults so far
    dropped,    \* history: rows lost before they reached option_ticks
    late,       \* history: rows stored after the minute they are stamped with
    expired     \* history: rows whose bar was purged with its contract

source == <<now, following>>
tables == <<ticks, bars, wm>>
history == <<dropped, late, expired>>
vars == <<source, log, inflight, tables, agg, purge, faults, history>>

-----------------------------------------------------------------------------
DayLen == MinuteLen * DayMinutes
DayOf(t) == t \div DayLen
FloorToMinute(t) == t - (t % MinuteLen)

\* The primary key of option_ohlc_1m.
Key(i) == <<log[i].contract, FloorToMinute(log[i].time)>>

\* Mutation: an expiry that does not parse is stored as a date long past.
ParseExpiryDatePast(c) == IF c \in Parses THEN ExpiryDay[c] ELSE -FarFuture

\* Mutation: the date format of the feed is not known.
ParseExpiryDateNever(c) == FarFuture

ParseExpiryDate(c) == IF c \in Parses THEN ExpiryDay[c] ELSE FarFuture

Live(c) == ExpiryDay[c] >= DayOf(now)

\* NSE lists the expiries to come, nearest first; the first one is taken.
IsNearest(c) == Live(c) /\ \A d \in Contracts : Live(d) => ExpiryDay[c] <= ExpiryDay[d]

IdleJob == [pc |-> "idle", since |-> 0, cutoff |-> 0, rows |-> {}]
PurgeAt(pc) == [pc |-> pc, cutoff |-> 0]

Init ==
    /\ now = 0
    /\ following \in {c \in Contracts : IsNearest(c)}
    /\ log = <<>> /\ inflight = {}
    /\ ticks = {} /\ bars = {} /\ wm = 0
    /\ agg = IdleJob /\ purge = PurgeAt("idle")
    /\ faults = 0
    /\ dropped = {} /\ late = {} /\ expired = {}

-----------------------------------------------------------------------------
(* Clock, ingest and faults *)

AdvanceClock ==
    /\ now < MaxTime
    /\ now' = now + 1
    /\ UNCHANGED <<following, log, inflight, tables, agg, purge, faults, history>>

\* The feed: it quotes the contract subscribed to, while it is traded.
Quoted == {c \in {following} : Live(c)}

\* Mutation: the row is handed over before it is stamped.
HandleMessageUnstamped(c, quote) ==
    /\ Len(log) < MaxTicks
    /\ inflight' = inflight \cup {Len(log) + 1}
    /\ UNCHANGED <<source, log, tables, agg, purge, faults, history>>

\* handle_message: the row has the contract and the prices of the message, and
\* is stamped before it is handed to the channel.
HandleMessage(c, quote) ==
    /\ Len(log) < MaxTicks
    /\ log' = Append(log, [time |-> now, contract |-> c, CE |-> quote.CE, PE |-> quote.PE])
    /\ inflight' = inflight \cup {Len(log) + 1}
    /\ UNCHANGED <<source, tables, agg, purge, faults, history>>

\* The channel is FIFO, so a batch holds the oldest rows.
Batches == {{i \in inflight : i <= newest} : newest \in inflight}

\* flush_option_batch, Ok: one multi-row INSERT stores the batch.
Flush(rows) ==
    /\ inflight' = inflight \ rows
    /\ ticks' = ticks \cup rows
    /\ late' = late \cup {i \in rows : log[i].time < FloorToMinute(now)}
    /\ UNCHANGED <<source, log, bars, wm, agg, purge, faults, dropped, expired>>

Fault ==
    /\ faults < MaxFaults
    /\ faults' = faults + 1

\* flush_option_batch, Err: the error is logged and the buffer is cleared.
FlushFail(rows) ==
    /\ Fault
    /\ inflight' = inflight \ rows
    /\ dropped' = dropped \cup rows
    /\ UNCHANGED <<source, log, tables, agg, purge, late, expired>>

\* The process ends and is started again: memory is lost, tables remain, and
\* the expiry is resolved anew.
Restart ==
    /\ Fault
    /\ inflight' = {}
    /\ dropped' = dropped \cup inflight
    /\ agg' = IdleJob /\ purge' = PurgeAt("idle")
    /\ following' \in {c \in Contracts : IsNearest(c)}
    /\ UNCHANGED <<now, log, tables, late, expired>>

-----------------------------------------------------------------------------
(* aggregate_option_1m *)

AggRead ==
    /\ agg.pc = "idle"
    /\ wm < FloorToMinute(now)
    /\ agg' = [pc |-> "select", since |-> wm, cutoff |-> FloorToMinute(now), rows |-> {}]
    /\ UNCHANGED <<source, log, inflight, tables, purge, faults, history>>

AggRows == {i \in ticks : agg.since <= log[i].time /\ log[i].time < agg.cutoff}

AggSelect ==
    /\ agg.pc = "select"
    /\ agg' = [agg EXCEPT !.pc = IF AggRows = {} THEN "advance" ELSE "commit",
                          !.rows = AggRows]
    /\ UNCHANGED <<source, log, inflight, tables, purge, faults, history>>

\* INSERT ... ON CONFLICT DO UPDATE: a bar that is written again is replaced.
AggCommit ==
    /\ agg.pc = "commit"
    /\ bars' = {i \in bars : \A r \in agg.rows : Key(r) # Key(i)} \cup agg.rows
    /\ agg' = [agg EXCEPT !.pc = "advance", !.rows = {}]
    /\ UNCHANGED <<source, log, inflight, ticks, wm, purge, faults, history>>

\* set_watermark, only after the commit.
AggAdvance ==
    /\ agg.pc = "advance"
    /\ wm' = agg.cutoff
    /\ agg' = IdleJob
    /\ UNCHANGED <<source, log, inflight, ticks, bars, purge, faults, history>>

\* Any statement of the pass fails: the loop logs the error.
AggFail ==
    /\ Fault
    /\ agg.pc # "idle"
    /\ agg' = IdleJob
    /\ UNCHANGED <<source, log, inflight, tables, purge, history>>

AggStep == AggRead \/ AggSelect \/ AggCommit \/ AggAdvance

-----------------------------------------------------------------------------
(* The option purges of run_daily_purge *)

\* Mutation: the later of the two cutoffs is taken.
PurgeTicksReadLater ==
    /\ purge.pc = "idle"
    /\ purge' = IF wm = 0
                THEN PurgeAt("expired")
                ELSE [pc |-> "deleteTicks", cutoff |-> Max({now - RawKeep, wm})]
    /\ UNCHANGED <<source, log, inflight, tables, agg, faults, history>>

\* purge_option_ticks is skipped when option_ohlc_1m has no watermark yet.
PurgeTicksRead ==
    /\ purge.pc = "idle"
    /\ purge' = IF wm = 0
                THEN PurgeAt("expired")
                ELSE [pc |-> "deleteTicks", cutoff |-> Min({now - RawKeep, wm})]
    /\ UNCHANGED <<source, log, inflight, tables, agg, faults, history>>

PurgeTicksDelete ==
    /\ purge.pc = "deleteTicks"
    /\ ticks' = {i \in ticks : ~(log[i].time < purge.cutoff)}
    /\ purge' = PurgeAt("expired")
    /\ UNCHANGED <<source, log, inflight, bars, wm, agg, faults, history>>

\* expiry_date < date(now - grace)
ExpiredBars == {i \in bars : ParseExpiryDate(log[i].contract) < DayOf(now) - GraceDays}

\* purge_expired_option_ohlc_1m: the expiry is a fact, no watermark gates it.
PurgeExpired ==
    /\ purge.pc = "expired"
    /\ bars' = bars \ ExpiredBars
    /\ expired' = expired \cup ExpiredBars
    /\ purge' = PurgeAt("idle")
    /\ UNCHANGED <<source, log, inflight, ticks, wm, agg, faults, dropped, late>>

\* A purge that fails is logged, and the next one runs all the same.
PurgeFail ==
    /\ Fault
    /\ purge' = PurgeAt(IF purge.pc = "expired" THEN "idle" ELSE "expired")
    /\ UNCHANGED <<source, log, inflight, tables, agg, history>>

PurgeStep == PurgeTicksRead \/ PurgeTicksDelete \/ PurgeExpired

-----------------------------------------------------------------------------
IngestStep == \E rows \in Batches : Flush(rows)

Next ==
    \/ AdvanceClock
    \/ \E c \in Quoted, quote \in Quotes : HandleMessage(c, quote)
    \/ IngestStep
    \/ \E rows \in Batches : FlushFail(rows)
    \/ Restart
    \/ AggStep \/ AggFail
    \/ PurgeStep \/ PurgeFail

Spec == Init /\ [][Next]_vars

\* Time passes, the writer runs, and both loops begin again after every
\* outcome: an interval timer and a daily sleep, errors only logged.
Fairness ==
    /\ WF_vars(AdvanceClock)
    /\ WF_vars(IngestStep)
    /\ WF_vars(AggStep)
    /\ WF_vars(PurgeStep)

FairSpec == Spec /\ Fairness

-----------------------------------------------------------------------------
(* The table as the query reads it *)

\* The minute bars of a contract, folded from the ticks they account for.
MinuteBar(c, minute) ==
    LET folded == {i \in bars : Key(i) = <<c, minute>>} IN
    [leg \in Legs |-> FoldLeg([i \in folded |-> log[i][leg]])]

Minutes(c) ==
    [m \in {FloorToMinute(log[i].time) : i \in {j \in bars : log[j].contract = c}} |-> MinuteBar(c, m)]

GetOptionOhlc(c, asked) == Served(Minutes(c), now, asked)

-----------------------------------------------------------------------------
(* Properties *)

\* Every variable stays in its domain; no table holds a row never stamped.
TypeOK ==
    /\ now \in 0 .. MaxTime /\ following \in Contracts
    /\ \A i \in DOMAIN log : log[i].time \in 0 .. MaxTime /\ log[i].contract \in Contracts
    /\ inflight \cup ticks \cup bars \cup dropped \cup late \cup expired \subseteq DOMAIN log
    /\ wm \in Nat
    /\ agg \in [pc : {"idle", "select", "commit", "advance"},
                since : Nat, cutoff : Nat, rows : SUBSET DOMAIN log]
    /\ purge \in [pc : {"idle", "deleteTicks", "expired"}, cutoff : Int]
    /\ faults \in 0 .. MaxFaults

\* Rows that reached option_ticks before the minute of their stamp was over.
OnTime == DOMAIN log \ (inflight \cup dropped \cup late)

\* The contract's expiry is so long ago that its bars may go.
GraceOver(c) == ExpiryDay[c] + GraceDays < DayOf(now)

\* A row stored in time is raw until it is below the watermark and older than
\* its keep, and below the watermark it is in a bar until the contract's grace
\* is over: neither purge takes a row too early, also when a pass is repeated
\* after its bars were purged.
RowsKept ==
    \A i \in OnTime :
        /\ i \in ticks \/ (log[i].time < wm /\ log[i].time < now - RawKeep)
        /\ log[i].time < wm => i \in bars \/ (i \in expired /\ GraceOver(log[i].contract))

\* A bar changes only by gaining rows, and leaves only with its contract: "a
\* hard structural rule based on the immutable expiry fact" (retention.rs:94-97),
\* and a string that does not parse "never causes an early/incorrect purge"
\* (ohlc.rs:334-337).
BarsLeaveOnlyExpired == [][\A i \in bars \ bars' : GraceOver(log[i].contract)]_vars

\* In the end no bar of a contract past its grace is left, nor a raw row older
\* than its keep: a failed purge is made up for, and a repeated pass does not
\* bring expired bars back for good.
OldDataGoes ==
    <>[](/\ \A i \in bars : log[i].contract \in Parses => ~GraceOver(log[i].contract)
         /\ \A i \in ticks : log[i].time >= FloorToMinute(MaxTime) - RawKeep)

\* A bucket whose answer is final: after the start of the lookback, below the
\* watermark, and of a contract whose bars are not being purged.
Final(c, b) == Since(now) <= b /\ b + BucketLen <= wm /\ ~GraceOver(c)

\* What the bucket's rows say, whatever route they took: every row stored in
\* time, and every late one that a bar picked up.
TrueLeg(c, b, leg) ==
    LET true == {i \in OnTime \cup bars :
                    log[i].contract = c /\ b <= log[i].time /\ log[i].time < b + BucketLen}
    IN  FoldLeg([i \in true |-> log[i][leg]])

\* A final bucket answers with the contract's true high and low, and with its
\* true open and close or none: folding ticks into minutes and minutes into
\* buckets, by different code and around failures and purges, is folding the
\* ticks.
AnswersAreTrue ==
    \A c \in Contracts, b \in {BucketOf(log[i].time) : i \in DOMAIN log} :
        Final(c, b) =>
          \A asked \in (SUBSET Legs) \ {{}} :
            LET answer == GetOptionOhlc(c, asked) IN
            b \in DOMAIN answer =>
              /\ DOMAIN answer[b] = asked
              /\ \A leg \in asked :
                   LET said == answer[b][leg]
                       true == TrueLeg(c, b, leg)
                   IN  /\ said.high = true.high /\ said.low = true.low
                       /\ said.open \in {true.open, NoPrice}
                       /\ said.close \in {true.close, NoPrice}

\* A final bucket with a price for an asked leg is missing from the answer only
\* if its last minute bar has none: the gap rule looks at the close, which that
\* bar alone decides.
GapsAreAtTheEnd ==
    \A c \in Contracts, asked \in (SUBSET Legs) \ {{}}, i \in OnTime :
        LET b == BucketOf(log[i].time)
            rows == {j \in bars : log[j].contract = c /\ BucketOf(log[j].time) = b}
            last == {j \in rows : \A k \in rows : FloorToMinute(log[k].time) <= log[j].time}
        IN  /\ log[i].contract = c /\ Final(c, b)
            /\ \E leg \in asked : log[i][leg] # NoPrice
            /\ b \notin DOMAIN GetOptionOhlc(c, asked)
            => last # {} /\ \A j \in last, leg \in asked : log[j][leg] = NoPrice

\* "Bars are only ever emitted once fully closed" (README.md:692-693).
OnlyClosedBuckets ==
    \A c \in Contracts : \A b \in DOMAIN GetOptionOhlc(c, Legs) : b + BucketLen <= now

=============================================================================
