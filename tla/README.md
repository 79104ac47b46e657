# kstocks-server: a verification project

TLA+ models of the server in `src/`, the TLC runs that check them on small
instances, and TLAPS proofs for every value of the constants. All paths below
are relative to the repository (`src/storage/ohlc.rs` is
`src/src/storage/ohlc.rs` in `PROJECT.json`, which names the lines every
definition models).

## 1. The system

The server subscribes to the NSE feed over websockets, stores ticks in SQLite,
aggregates them into bars, deletes what is too old, and serves bars and health
over HTTP to registered clients.

```
 feed --> streamers --mpsc--> batched writers --> index_ticks / option_ticks
             ^  |                                     |      ^
       mode  |  | record_activity          1-minute aggregation  purge
             |  v                                     v      ^
        SessionState <-- supervisor           index/option_ohlc_1m
        (mode, last activity)                 daily rollup   ^
                                                      v      |
                             aggregation_state --  index_ohlc_1d
   POST /register, admin review, client keys  -->  clients (users database)
```

| Component | Source | State | Operations |
|---|---|---|---|
| Streamers (one for the indices, one per option symbol) | `market/streamers/*.rs` | the connection, a clone of the writer's sender | loop on the session mode: hold a connection, or poll and sleep |
| Session mode, market clock | `market/market_clock.rs` | mode, last activity, NSE offset | supervisor tick, record_activity, refresh of the offset |
| Batched writers | `storage/ticks.rs` | channel, buffer, DbStat | receive, fill, insert, record; drain when every sender is gone |
| 1-minute aggregation, daily rollup | `storage/ohlc.rs` | bars, watermark rows | read watermark, SELECT, upsert in a transaction, advance |
| Retention | `storage/retention.rs` | tables, days_since_vacuum | five purges, each gated and failing on its own; VACUUM |
| Schedulers | `ohlc.rs`, `retention.rs` | the next sleep | seconds_until_next_run |
| Registration, admin, authentication | `api/*.rs`, `users/*.rs` | clients | find, count, insert or reregister; approve, decline, revoke; authenticate |
| OHLC queries, health | `api/*.rs` | none | read |
| Symbols, settings, dashboard, startup, command line | rest | constants of a process | run once or only draw |

The components share no lock but the one of SessionState. The jobs and the
handlers meet in the database, through rows one of them read some statements
before another wrote them.

What is hard here, and what the properties are about (`hazards` in
`PROJECT.json` has the lines):

- a job reads a watermark, awaits, and acts on it when other jobs have moved;
- a pass fails or the process dies between the commit of the bars and the
  watermark, and is repeated after the purge took part of its input;
- a tick is stamped when it arrives and stored later, perhaps after its minute;
- the writer's buffer, its two timers, a failed insert and a shutdown;
- the mode is read once per loop, then slept on for up to an hour, while the
  supervisor and the other streamers change it;
- the target of a daily job is on one clock, the sleep on another, in whole
  seconds; the difference of the clocks is replaced meanwhile, and a restart
  forgets the sleep and the VACUUM counter;
- the option bars are purged by expiry date with no watermark to gate it, while
  a failed pass may be repeated; the expiry is a text that may not parse, and is
  resolved only when the process starts;
- a bar of an option has two legs and either may be missing, and the query
  folds bars whose first or last minute lacks the leg it is asked for;
- registration is three statements, and the admin acts between them; the limit
  per network counts rows, and a row may be given to another network.

## 2. Modules

| Module | What it models |
|---|---|
| `IndexPipeline` | index ticks from the feed to the purge: ingest, aggregation, rollup, retention, faults and crashes |
| `BarLedger` | the abstract specification of it: bars sealed up to a boundary |
| `OptionPipeline` | option ticks from the feed to the answer of `/ohlc/option`: expiry resolution, ingest, aggregation, the two purges, faults and restarts |
| `OhlcQuery` | pure operators: the fold of ticks into a minute bar with two legs, and of minute bars into the buckets of a query |
| `IndexQuery` | the answers of `/ohlc/index` over the tables of IndexPipeline: prices, the fold into minutes, into days, into the buckets of a query |
| `TickWriter` | one batched writer, its channel, its senders and the shutdown |
| `RowQueue` | the abstract specification of it: one queue, settled from the front a batch at a time |
| `SessionMode` | the supervisor and the streamers around the session mode |
| `DailyJobs` | one daily loop and its sleep computation |
| `Registration` | post_register, the admin's decisions, authenticate |
| `MC*` | the instances TLC checks |
| `IndexPipelineProofs`, `OptionPipelineProofs`, `TickWriterProofs`, `SessionModeProofs`, `RegistrationProofs`, `DailyJobsProofs` | the inductive invariant of each state machine and the theorems about it |
| `OhlcQueryProofs`, `FloorLemmas` | lemmas about the operators: folds of prices, minima and maxima of finite sets; flooring and remainders |

### IndexPipeline

A statement of the code that touches the database is one action, since SQLite
makes a statement or a transaction atomic and every statement is awaited: an
aggregation pass is `AggRead` (watermark and clock), `AggSelect`, `AggCommit`
(the upserts in their transaction), `AggAdvance` (`set_watermark`); a rollup
the same; the purge of a table reads its watermark and cutoff, then deletes.
Any of them may fail (`AggFail`, `RollFail`, `PurgeFail`, `FlushFail`), after
which the code logs and goes on, and the process may die anywhere (`Crash`),
which empties memory and keeps tables.

Data is abstracted to what the properties need: a bar is the set of ticks
folded into it, because open, high, low, close and tick_count are functions of
that set and of the stamps; so a table of bars is the set of ticks its bars
account for, and an upsert replaces the bars whose key is written. Channel and
buffer are one set, `inflight`; which rows form a batch is open, except that
the channel is FIFO (`IsBatch`). `TickWriter` has the detail, and its refinement
of `RowQueue` is why this is enough.

The two aggregation loops start with an immediate tick or a sleep; when a pass
begins is open in the model, so that no property rests on a schedule. The
aggregation interval, 16:15 and 16:30 therefore do not occur here.

Three history variables say what the tables cannot: ticks lost before they
were stored (`dropped`), ticks stored after the minute they are stamped with
was over (`late`), and ticks whose daily bar outlived its retention
(`expired`). Times are compared in SQL as text of three shapes; their order is
that of the times down to the second (comment in the module).

### OptionPipeline and OhlcQuery

The statements of `aggregate_option_1m`, `purge_option_ticks` and
`purge_expired_option_ohlc_1m` are actions as above. What differs from the
index tier is modelled: there is no daily tier; the purge of the bars looks at
`expiry_date` alone, which `parse_expiry_date` computes when the bar is written
(`ParseExpiryDate`: the day, or 9999-12-31 for a string in neither format); and
a contract is followed from one start of the process to the next (`following`,
`Restart`), the nearest one NSE lists then. One symbol and one strike are
modelled, so a contract is an expiry. `Live` and `Quoted` are the environment: the
feed quotes the contract subscribed to, until its last day; the row takes the
contract from the message.

A bar is again the set of the ticks it accounts for, but here the prices
matter: `log` has the two prices of each tick (`NoPrice` is NULL), `MinuteBar`
folds a minute's ticks as `fold_leg` does, and `Served` folds minute bars as the
SQL of `get_option_ohlc` does: the first row's open, MAX, MIN and the last row's
close, then the gap rule and the legs that were asked for. Ticks are numbered in
the order of their times, which is the order the aggregation sorts them in.

`TrueLeg` is the reference: one fold over the ticks of a bucket. `AnswersAreTrue`
compares the two for every *final* bucket, that is, one below the watermark, not
cut by the lookback, and of a contract whose bars may not go yet.

### IndexQuery

`get_index_ohlc` is the query of OhlcQuery with one leg that is never missing.
IndexPipeline's tables are sets of ticks, so the module supplies what they leave
out: every assignment of prices to ticks, and every order in which `ORDER BY
time` may return them (`Feeds`; ticks of one time come in any order). A minute bar
is `BarOf` its ticks, a daily bar `FoldRows` of the minute bars the rollup read
(`DayTable`), and the answer `Served` of one of the tables. The code serves
intervals from a day up from `index_ohlc_1d` and the others from `index_ohlc_1m`;
here each table is asked for every interval it can serve.

`IndexAnswersAreTrue` compares an answer with one fold over the ticks of its
bucket. A bucket is *final* when it is below the watermark of the table, not cut
by the lookback, and not older than that table is to keep.

### TickWriter

`streamer`, `chan`, `pc`, `buf` are the senders blocked in `tx.send().await`,
the mpsc channel, the place in `start_index_tick_writer` and its buffer;
`start_option_tick_writer` is the same code. The two arms of the `select!` are
`RecvFirst` and `RecvClosed`; the third arm, the `batch_max_wait` sleep, flushes only a
non-empty buffer, and `EmptyWhileWaiting` shows that the buffer is empty
there: the arm never does anything, which is why it is not an action. `FillRecv`,
`Elapse` and `FillEnd` are the fill loop with its 10 ms timeout. An insert
succeeds or fails as a whole. The shutdown is that of `main`: drop the sender,
abort the streamers, await the writer. `age` is how long the batch has been
filling, in the gaps between rows; no bound of the code ends a batch but its size,
so `BatchWaitBounded` is `batch_max_rows - 1` gaps and not `batch_max_wait_ms`.

### SessionMode

`mode` and `quietFor` are SessionInner (the second as units since
`last_activity_at`); `stream[s]` is where a streamer is in `run`,
`stream_active` and `poll_once`. The supervisor tick is one action (it holds
the lock), `record_activity` another, and each await of a streamer is a point
where the others may act. A unit is coarse, half an hour, say: whatever takes
the code seconds finishes before the next unit begins (`Settled`), and nothing
is assumed about the order within a unit. Time is the time of day, so that no
bound on the clock is needed, and `weekday` is chosen at midnight.

### DailyJobs

`left` is the distance to the next target on the local clock, `offset` what the
NSE clock is ahead of it (`OFFSET_MS`; zero until a refresh has succeeded),
`timer` the rest of a sleep or a run. Both copies of `seconds_until_next_run`
are this computation: `LeftAt` is the distance on the NSE clock, and `WaitAt`
what the code subtracts, so a loop keeps the time of the local clock and the NSE
clock only decides which day's target is meant. `Resync` is `refresh_if_stale`
with an answer; without one nothing changes and it is tried again. `Stop` and
`Restart` end the process anywhere and start it at any later time. The history
days run from half-way between two targets to the next half-way, so that a run a
second early belongs to its target. The clocks differ by less than half a day,
also after a run (`OffsetsAssumption`): otherwise no run could be said to be the
one of a certain day.

### Registration

`clients` is the table, keyed by the unique username; a call is at the
statement it will execute next, with the local variables it holds. A key is
named by the call that generated it. A time is the number of registrations
written by then (`clock`), and `dayAgo` how many of them are 24 hours old, so the
length of a day and the rate of calls are left open. An answered call keeps when it
wrote (`time`) and for which network: the history that the promise of the limit is
about. The limit of the code counts something else, the rows by `created_at`
(`RecentFrom`), and `reregister` keeps `created_at` and moves `registered_ip`.
`OvershootBounded` compares the two: the calls accepted from a network pass the
limit by fewer than the calls that run at a time and one for each re-registration of
the last 24 hours. Without re-registrations only the race is left; with them the
limit is passed by calls one after another, which is `AcceptedWithinLimit`
(section 4).

### How they compose

The streamers of SessionMode are the senders of TickWriter; the `Settle` of
RowQueue, which TickWriter implements, is IndexPipeline's `Flush` or `FlushFail`
(the oldest rows of one queue leave together, stored or lost, which is what `IsBatch`
says of the stamps) and OptionPipeline's; the runs of DailyJobs are the
passes and purges of IndexPipeline and OptionPipeline, and its `Stop` is their
`Crash` and `Restart`. OptionPipeline extends OhlcQuery: the query is evaluated on
the tables every interleaving leaves, and IndexQuery extends IndexPipeline and
OhlcQuery to the same end. Each boundary is left open on the more
abstract side (any batch, any time for a pass), so what holds there holds for
what the detailed side does. `BarLedger` is composed with IndexPipeline by
refinement, `RowQueue` with TickWriter.

## 3. Runs

| Run | Question | Instance |
|---|---|---|
| `index_pipeline` | do the jobs, with a fault anywhere, lose or damage a bar, and are the answers true? | two ticks of an index with two prices, a minute of two units, a day and a bucket of two minutes, a lookback of 5, ticks kept 1 unit, minute bars 4, daily bars 5, time to 7, one fault; about a million states with symmetry |
| `index_catches_up` | does every tick reach a bar, and do the tiers catch up? | one tick, time to 5, one fault, FairSpec |
| `option_pipeline` | does the option tier lose or keep a row wrongly, and are the answers true? | two contracts, the near one expiring on day 0, the far one with an expiry that does not parse; a minute of two units, a day and a bucket of two minutes, a lookback of a day, grace of a day, two ticks with one leg or both, time to 8, one fault or restart; 1.5 million states |
| `tick_writer` | does a row vanish, repeat or wait; does shutdown drain and end? | two streamers with three rows each, channel of 1, batch of 3, one failed insert |
| `session_mode` | how far behind the mode can a streamer be, is it ever stuck? | two streamers, a day of 8 units with a window of 4, two units of quiet, two of sleep |
| `daily_jobs` | is a day skipped, a run repeated, or VACUUM late? | a second of 4 units, a day of 6 seconds, clocks apart by up to 1¼ seconds either way, a refresh every 3 seconds, a stop a day |
| `registration` | do concurrent calls and the admin mix up keys or statuses? | four calls, two at a time, three usernames, two networks, a limit of one |
| five `violation` runs | section 4 | as above; `limit_passed` with one call at a time |

What the passing runs show:

- `OnTimeTicksKept`: a tick stored before the end of its minute stays in each
  tier until the tier above has it and its own keep is over, whatever
  interleaves. `RolledUp`: the purge of minute bars loses nothing the daily bar
  lacks. `WholeMinuteBars`, `WholeDayBars`: no
  partial bar is ever visible. `BarsNeverShrink`: repeating a pass is safe even
  when the purge has run in between.
- `IndexAnswersAreTrue`: a final bucket of the index query is there if and only if
  it has ticks, and its open, high, low and close are those of its ticks, from
  either table.
- `ImplementsLedger`: below its watermark a tier only grows by sealing; to a
  reader a sealed bar never changes. Late ticks, crashes and repeated passes
  are invisible through this mapping.
- `TicksReachBars`, `TiersCatchUp`: a failed pass delays and loses nothing.
- `RowsKept`: neither option purge takes a row before its keep, or its bar before
  its contract's grace, is over, also when a pass is repeated after its bars were
  purged. `BarsLeaveOnlyExpired`: a bar
  leaves only after its contract's grace, and never because its expiry does not
  parse. `OldDataGoes`: what is past its keep is gone in the end, whatever failed.
- `AnswersAreTrue`: the high and low of a final bucket are true, its open and
  close true or NULL; never another tick's. `GapsAreAtTheEnd`: a bucket with
  prices is left out only if its last minute bar lacks the legs asked for.
- `EachRowOnceInOrder`, `DrainedAtExit`, `WrittenIsStored`,
  `EmptyWhileWaiting`, `SendersUnblock`, `ShutdownCompletes`: the writer loses,
  repeats and reorders nothing but a failed batch. `ImplementsQueue`: channel,
  buffer and writer are one queue, whose rows are stored or lost a whole batch at
  a time and in turn. `StatsTellTheTruth`: what the
  dashboard shows of it is right except after a failure. `BatchWaitBounded`: how
  long a batch can be held open.
- `ActiveIsJustified`, `AsleepAtMostOnePoll`, `IdleHoldsNoConnection`,
  `KeepsReachingFeed`: the mode and the streamers stay within one poll
  interval, or one re-check, of each other.
- `NoDaySkipped`, `VacuumNotOverdue`, `RunsNearTarget`, `RepeatsBounded`:
  rounding and the moves of the NSE clock shift a run and repeat it, but never
  drop a day of a process that is up. A first repetition may fall anywhere in
  the second after the target; the others are a second apart and end less than
  a second after the NSE clock has reached the target. The bound is reached.
  The clocks must be finer than half a second for that: with two units to a
  second a stricter bound holds that is false with four.
- `ApprovalIsOfThisKey`: a key that authenticates is the one its row held at the
  approval. `OneFirstRegistration`: one of several first registrations of a
  username is answered with a key. `OvershootBounded`: how far the registrations of
  a network pass its limit.

Bounds. Two ticks are enough for the properties of IndexPipeline because each
relates at most two ticks (of a minute, of a day, or of a bucket, where they are
its first and its last); seven units are a whole
day, the next one, and the start of its last minute, so a day can be rolled up,
purged and its successor aggregated. One fault is enough for every point of failure, and
the theorems of section 5 remove these bounds for everything but liveness. In
OptionPipeline two ticks fall into one minute, two minutes of a bucket, or two
contracts, with each combination of legs; by time 8 the near contract's grace is over and
its bars have gone. In TickWriter the rows
fill batch and channel at once with a row still blocked. In
SessionMode the window is longer than quiet and sleep, so both happen inside
it, and the night is too. In Registration two calls race while two others come
before or after; four calls are two more than the limit and a race allow, and of
them one may be the re-registration of an old row, or of another network's. `MaxTime`, `MaxFaults`, `MaxRows`, `MaxFailures`,
`TicksPerUnit`, `MaxJob`, `MaxRuns` and `MaxInFlight` are the only bounds that
the code does not have. `MaxRuns` never holds a run back: `RepeatsBounded` is below it. A process stops
at most once in a history day (`cut`).

Deadlock is checked where the system runs for ever (IndexPipeline,
OptionPipeline, SessionMode, DailyJobs) and not where it stops: after an exit (TickWriter) or
when every call is answered (Registration). Symmetry is used for safety only.

Fairness. IndexPipeline: time passes, the writer task is scheduled, and each
loop begins another pass after any outcome (`interval.tick`, the sleep, the
error only logged); nothing is assumed of the feed or the purge. OptionPipeline: the same, and the
purge too, since its loop is a sleep and errors are only logged; `OldDataGoes`
rests on that. TickWriter:
the runtime polls ready tasks, and tokio's channel grants permits in order, so
a waiting sender is not overtaken for ever (strong fairness of `EndSend`); no
fairness for ticks, failures or Ctrl-C. SessionMode: time passes, the
supervisor and every streamer run, and the listening window has a deadline
that wins over messages in the end (strong fairness of `PollEnd`); that the
feed can be reached is not assumed, and `KeepsReachingFeed` speaks of trying.

## 4. Where the code and its documents disagree

Each is a run that TLC ends with a counterexample.

| Run | Document | Code |
|---|---|---|
| `late_tick_purged` | retention never drops ticks that have not been aggregated (`retention.rs:33-34`, `README.md:122-123`) | a tick whose batch is stored after its minute was aggregated is never in a bar and is purged |
| `quiet_turns_active` | Idle when quiet, inside the window too (`market_clock.rs:10-11`) | the next supervisor tick makes it Active again |
| `overwrites_approved` | only a revoked username may register again (`register.rs:58-59`) | the row is overwritten by id, whatever its status is by then |
| `limit_passed` | no more than 5 registrations of any username are accepted from an IP within 24 hours (`register.rs:26` and `:7-8`, `README.md:362-364`) | rows are counted by `created_at`, which a re-registration keeps while it moves `registered_ip`: re-registrations of older rows are not counted, and those by another IP make room |
| `open_bucket` | bars are only emitted once fully closed (`README.md:692-693`, `api/mod.rs:3`) | true of minutes; a coarser bucket is answered from the minutes it has so far |

Seen while modelling, without a run:

- the expiry list is said to be refreshed every `symbol_refresh_interval_seconds`
  (`settings.rs:79-81`); nothing reads the setting, and the expiry resolved at
  startup is followed for as long as the process lives (`main.rs:158`). The model
  keeps this (`following` changes at a restart alone);
- a batch is said to be flushed at `batch_max_wait_ms` at the latest
  (`ticks.rs:287-289`); a filling batch waits as long as rows keep coming within
  10 ms, and `BatchWaitBounded` is the bound it has;
- after a failed insert `rows_pending` keeps the size of a batch that is gone,
  and the dashboard shows it as buffered (`dashboard.rs:203`);
- a poll that sees a tick is said to be followed by a connection
  (`indices.rs:231-234`); a whole poll interval of sleep comes first, and the
  mode may be Idle again after it;
- a daily job is said to run once a day (`retention.rs:175`); its sleep is rounded
  down, so it may run again around its target, as `RepeatsBounded` bounds;
- `seconds_until_next_run` finds the target on the NSE clock but counts the time
  to it on the local one (`retention.rs:210-212`), so a job runs at the local
  clock's 16:15 or 16:30, however far apart the two are;
- `days_since_vacuum` counts runs and the job may run twice a day, so VACUUM
  may come sooner than weekly (`retention.rs:176`); and it lives in memory, so a
  server restarted within a week never runs it;
- the gap rule is said to skip buckets with no data for the legs asked for
  (`option_ohlc.rs:162`); it looks at the close, which the last minute bar alone
  decides, so a bucket with prices can be skipped, and one whose first minute lacks
  the leg is answered with no open (`GapsAreAtTheEnd`, `AnswersAreTrue`);
- the lookback is not floored to a bucket, so the first bucket is cut;
- the admin's decision names a row by its id (`admin.rs:150-162`), not the key the
  listing showed: a row that another call re-registers between the listing and
  the approval is approved with the new key. `ApprovalIsOfThisKey` is about the key
  the row holds when it is approved;
- Active mode is described as holding connections open (`README.md:541`), but
  for up to a poll interval after a switch the streamers may be asleep;
- streamers are said never to block on the database (`main.rs:149`); they wait
  in `send` while the channel is full (`SendersUnblock` is the bound on that);
- `raw_ticks_keep_trading_days` is subtracted as calendar days;
- an error while the users database is opened ends `main` without the shutdown
  sequence, after the streamers were started (`main.rs:197-204`).

## 5. Proofs

Every safety property of the passing runs, the two action properties of
DailyJobs and the two of the pipelines, and the refinements of BarLedger and
RowQueue are theorems. They hold for every value of
the constants that satisfies the named assumptions of the modules, so for any
number of ticks, rows, faults, streamers, calls and contracts and any lengths.
The assumptions say that lengths, keeps and bounds are natural numbers and
what is a divisor is positive, and besides:

- `LengthsAssumption` (OptionPipeline): a bucket is a whole number of minutes,
  as every entry of the code's table of intervals is; `IntervalAssumption` is the
  same for IndexQuery;
- `TicksAssumption`: the ticks of a behaviour are finitely many (needed only where
  a bar is folded: a maximum of infinitely many prices need not exist);
  `PricesAssumption`: prices are positive numbers, whose order alone matters; none is
  `NoPrice`, which is 0;
- `ExpiryAssumption`: `FarFuture`, the 9999-12-31 of the code, is no earlier
  than an expiry that parses; `QuotesAssumption`: prices are integers, with
  `NoPrice` for NULL;
- `WindowAssumption`: the trading window opens before it closes, on one day;
- `OffsetsAssumption`: the NSE clock is less than half a day ahead or, with a
  run and a second on top, behind. The server's clock and NSE's differ by
  seconds; some such bound is needed for `NoDaySkipped` to mean anything.

Each proof module has one inductive invariant `Inv`, a lemma per action that it
is preserved, `InvStep` from those, and `Invariance == Spec => []Inv`. A property
follows from `Inv`; the strengthening below is what the properties alone lack.

| Module | Theorem | Property |
|---|---|---|
| `IndexPipelineProofs` | `TypeCorrect` | `TypeOK` |
| | `TicksKept` | `OnTimeTicksKept` |
| | `NothingLostToRollup` | `RolledUp` |
| | `MinuteBarsWhole`, `DayBarsWhole` | `WholeMinuteBars`, `WholeDayBars` |
| | `TiersOrdered` | `WatermarkOrder` (no run's property: the order the others rest on) |
| | `NoBarShrinks` | `BarsNeverShrink` |
| | `RefinesLedger` | `ImplementsLedger` |
| | `IndexAnswersHold` | `IndexAnswersAreTrue` |
| `OptionPipelineProofs` | `TypeCorrect` | `TypeOK` |
| | `NoRowPurgedEarly` | `RowsKept` |
| | `BarsOutliveTheirContract` | `BarsLeaveOnlyExpired` |
| | `AnswersHold`, `GapsHold` | `AnswersAreTrue`, `GapsAreAtTheEnd` |
| `TickWriterProofs` | `TypeCorrect` | `TypeOK` |
| | `RowsOnceInOrder` | `EachRowOnceInOrder` |
| | `WaitsEmpty`, `ExitIsDrained` | `EmptyWhileWaiting`, `DrainedAtExit` |
| | `StatsTrue`, `WaitIsBounded` | `StatsTellTheTruth`, `BatchWaitBounded` |
| | `WrittenCountsStored` | `WrittenIsStored` |
| | `RefinesQueue` | `ImplementsQueue` |
| `SessionModeProofs` | `TypeCorrect` | `TypeOK` |
| | `ActiveHasAReason` | `ActiveIsJustified` |
| | `WakesInOnePoll`, `IdleDisconnects` | `AsleepAtMostOnePoll`, `IdleHoldsNoConnection` |
| `RegistrationProofs` | `TypeCorrect` | `TypeOK` |
| | `ApprovalNotInherited` | `ApprovalIsOfThisKey` |
| | `OneFirst`, `LimitHoldsUpToRace` | `OneFirstRegistration`, `OvershootBounded` |
| `DailyJobsProofs` | `TypeCorrect` | `TypeOK` |
| | `VacuumInTime`, `FewRepeats` | `VacuumNotOverdue`, `RepeatsBounded` |
| | `EveryDayRuns`, `RunsOnTarget` | `NoDaySkipped`, `RunsNearTarget` |

**IndexPipeline.** The properties say nothing of what a running pass holds in
memory. `Inv` adds

- `OnePlace`: a tick is on its way, stored, or lost, never two of these;
- `Boundaries`: watermarks and cutoffs are bucket boundaries in order, and the
  cutoff the purge holds is no later than the watermark it was gated on, which
  has only moved forward since;
- `OpenBars`: a bar above its watermark, left by a pass that failed before
  `set_watermark`, still has all its input in the tier below, so a repeated
  pass sees at least what the first one saw;
- `AggCovers`, `RollCovers`: what a pass has selected still covers its range
  when it commits, although ticks arrive and rows are purged meanwhile. Late
  ticks may be missing; on-time ones cannot be, since a tick on time for a
  minute below the cutoff was stored before the cutoff was read;
- `Accounted`: a tick stored in time is raw while the watermark has not passed it,
  and in a bar afterwards.

`OnTimeTicksKept` says more than that, tier by tier and with the keeps, and is
inductive only together with what a purge holds between its two statements:
`Retained` adds that its cutoff asks for no more than the keep did, and that what
left the daily bars was over. `RetainedStep` proves it on top of `Inv`.

The refinement has a lemma for each action. `AggAdvance` and `RollAdvance` seal,
`PurgeBarsDelete` and `PurgeDays` drop, and everything else is a stutter: a
commit changes only bars above the watermark, which the mapping hides, and a
rollup commits whole days of bars that are sealed themselves (`RollWhole`).

`IndexAnswersHold` joins this to the query. `FinalBucketIsWhole`: the bars of a final
bucket in either table hold exactly its true rows, because what `Retained` would
allow a purge to have taken is over, and the bucket is not. `MinuteTableFolds` and
`DayTableFolds`: each table is the one-stage fold of its ticks, unit by unit. The
lemma behind both is `ExactFold` (OhlcQueryProofs): folding rows that are exact
folds of consecutive units is the fold over all, where an open or close can no
longer be NULL. It is used twice for days, minutes into days and days into
buckets, and `ServedExactly` says that the query adds or leaves out nothing.

**OptionPipeline.** The minute tier's invariant, with the expiry purge, which
no watermark gates, in the place of the rollup: a row at or above the watermark
is still raw even when its bar has been purged (`OpenBars`), and a pass may find
that what it committed has gone again only if its grace was over (`AggCovers`).
`LogOrdered` says that rows are numbered in the order of their times. `RowsAccounted` is
`RowsKept` without the keep of the raw rows, which `Retained` and `RetainedStep` add
as for the index tier. `AnswersHold` then has two halves.
`FinalRowsAreInBars` and `BucketIsFolded` say that the minute bars of a final
bucket hold exactly the ticks of its minutes; `TwoStageFold` (OhlcQueryProofs) says
that folding ticks into minutes and minutes into a bucket gives the high and the
low of one fold over all, and the open and close of it or NULL. `MinFacts` and
`MaxFacts`, on which that rests, are proved by well-ordering from `LeastNatural`.

**TickWriter.** `EachRowOnceInOrder` relates places of rows in three queues
(`flushed`, `buf`, `chan`), which an action moves from one to the next, and is
inductive with the types of the queues. `NeverAnEmptyBatch` and `LastIsInserted`
say which batch the statistics are about to record; `EndsInOrder` that the writer
ends after the channel and `main` after the writer; `GapsAddUp` that each row but
the newest has held the batch open for a gap at most. `WrittenCountsStored` counts the
places of the stored rows rather than summing lengths with a fold, so that an insert
adds a disjoint set of the size of its batch (`SettledGrows`). In `RefinesQueue`,
`EndSend` accepts, an insert settles the whole buffer, which is a prefix of the
mapped queue (`PrefixLeaves`), `RecvClosed` closes, and everything else is a stutter:
a row that moves from the channel to the buffer keeps its place (`ReceiveKeepsRows`).

**SessionMode.** Each claim about a streamer at a distance from a change of mode
needs what it was doing before: `ListensIntoActiveBriefly`, `SleepsOffOnePoll`
(the sleep that remains and the time since the change add up to a poll interval)
and `IdleIsNoticed` (an open connection is within a re-check of reading the mode).

**Registration.** `SeenRowsStay`: a row that a call has seen may change but does
not vanish, so the second of two first registrations cannot insert;
`ApprovedHoldsGranted`: an approved row holds the key it was approved with;
`LoadBounded`: the recent rows of a network and the calls about to write one
together stay below the limit plus the calls in flight. `Finite` makes their
numbers meaningful when the set of calls is infinite. That bounds rows; from rows to
accepted calls leads `RowsHaveOrigins`: a row's key and network are those of the
last call answered for it, its time of creation that of the first. The accepted
calls of a network are then of two kinds. First registrations whose row the network
still holds inject into its recent rows (`FirstKeptCounted`). Every other one is a
re-registration, or is mapped to the call that took its row over, which is a
recent re-registration made for another network, and different for different
usernames (`OthersReregistered`).

**DailyJobs.** `Sleeps` classifies a sleep by what it can be waiting for: the next
target, the one after it (the NSE clock has passed this one), or, for at most a
second, either side of the target. `RunsEndSoon`: no run lasts to the half-way
point. `WillRun`: while the day's run is to come, the loop sleeps and will begin it
in time. `RepeatsSpaced`: the runs of a day, a second each, fit between the target
and now. `CountKeepsUp` ties the loop's counter to the days. `WaitFacts` and `RemainderIs`
give the arithmetic of `seconds_until_next_run`. The attempt to prove an earlier
form of `RepeatsBounded` failed, and a finer instance showed it to be false: the
first repetition does not wait a whole second after the target. It was corrected,
and the run's clock made finer; `RunsNearTarget` was strengthened, since no run's
length delays the next.

Only model-checked:

- `TicksReachBars`, `TiersCatchUp`, `OldDataGoes`, `SendersUnblock`,
  `ShutdownCompletes`, `KeepsReachingFeed`: liveness, which needs fairness and
  ENABLED, beyond this prover;
- the properties of the violation runs, which are false.

## 6. Not modelled

The tables of allowed ranges and intervals, the list of symbols, the HTTP
requests and their JSON, client key generation and parsing, the admin token
command, settings, health, the dashboard and the startup order. The reasons are
with the components in
`PROJECT.json`. SQLite itself, the feed and the operator are environments: an
atomic statement, any message at any time, Ctrl-C at any time.

Left out of what is modelled, and why it does no harm:

- a writer task that dies before the channel closes: nothing in its code ends it
  early, so the `Err` of `tx.send` (`indices.rs:164-166`) and the `tx.is_closed()`
  that ends a streamer (`indices.rs:80-85`, `:103-108`) are not reached while the
  server runs;
- a connection attempt that hangs: `connect_async` (`indices.rs:181`, `:243`) has no
  timeout of its own. SessionMode lets it last a unit, and a poll's deadline starts
  after it, as in the code; a longer hang counts as trying to reach the feed;
- time between a purge's read of a watermark and its `Utc::now()` a line later:
  they are one step. Both only grow, so the cutoff of the code is one the model
  has as well, or an earlier one;
- time between `find_by_id` and `set_status` in `admin.rs`: rows are never deleted;
- a request whose connection is lost after its row was written: it counts as
  registered, although the client never sees its key.

## 7. Plan

Done: all state machines of section 2 with their runs, and the theorems of
section 5. Left, in this order:

1. `Timestamps`: the three shapes of a time as text and their order.
2. Client keys: what parse_client_key accepts of what generate_client_key made.
