------------------------------ MODULE DailyJobs ------------------------------
(***************************************************************************)
(* The scheduling of the two daily jobs: sleep until the next 16:15 (the   *)
(* rollup) or 16:30 IST (the purge), run, and compute the next sleep; the  *)
(* retention loop also counts its runs and runs VACUUM after seven.  One   *)
(* loop is modelled: the two differ in the hour and in the count.          *)
(*                                                                         *)
(* seconds_until_next_run finds the target on the NSE clock, which is the  *)
(* local clock plus a cached offset, and subtracts the local time from it. *)
(* The supervisor replaces the offset while the loop sleeps or runs.  The  *)
(* model keeps the distance to the next target on the local clock, so the  *)
(* clock needs no bound.                                                   *)
(***************************************************************************)
EXTENDS Integers

CONSTANTS
    Second,          \* clock units in a second
    DayLen,          \* clock units in a day
    Offsets,         \* what the NSE clock may be ahead of the local one, in units
    RefreshInterval, \* REFRESH_INTERVAL_MS, in units
    VacuumEvery,     \* 7
    MaxJob,          \* bound: the units a run may take
    MaxRuns          \* bound: runs counted in a day

\* A history day runs from half-way between two targets to the next half-way.
HalfWay == DayLen \div 2

ASSUME UnitsAssumption == Second \in Nat \ {0} /\ DayLen \in Nat \ {0} /\ DayLen % Second = 0
ASSUME CountsAssumption ==
    /\ VacuumEvery \in Nat \ {0} /\ RefreshInterval \in Nat
    /\ MaxJob \in Nat /\ MaxRuns \in Nat \ {0}

\* The clocks differ by less than half a day, also after a run; otherwise no
\* run could be said to be the one of a certain day.
ASSUME OffsetsAssumption ==
    /\ Offsets \subseteq Int /\ 0 \in Offsets
    /\ \A off \in Offsets : off < HalfWay /\ MaxJob + Second - off <= HalfWay

VARIABLES
    offset,          \* OFFSET_MS; zero as long as it is not initialized
    sinceSync,       \* units since LAST_REFRESH_UNIX_MS, saturating
    left,            \* units until the next target, on the local clock
    pc,              \* the loop: "sleeping", "running", or "down" with the process
    timer,           \* units of the sleep, or of the run, that remain
    daysSinceVacuum, \* the loop's counter
    runs,            \* history: runs begun since the last half-way point
    cut,             \* history: the process was down since then
    days             \* history: half-way points since the last VACUUM or start

clock == <<offset, sinceSync>>
history == <<runs, cut, days>>
vars == <<clock, left, pc, timer, daysSinceVacuum, history>>

-----------------------------------------------------------------------------
\* Units until the target on the NSE clock; a target that is now is tomorrow's.
LeftAt(off) == 1 + ((left - off - 1) % DayLen)

\* target_utc - now_utc
WaitAt(off) == LeftAt(off) + off

\* Mutation: the sleep may be of no length.
SecondsUntilNextRunZero(off) ==
    IF WaitAt(off) < 0 THEN 0 ELSE WaitAt(off) \div Second

\* chrono's num_seconds() drops the fraction, and .max(1) what is not positive.
SecondsUntilNextRun(off) ==
    IF WaitAt(off) < 2 * Second THEN 1 ELSE WaitAt(off) \div Second

\* A process that starts: the first refresh of the offset succeeds or fails, and
\* the loop begins with a sleep.
Start ==
    /\ \/ offset' \in Offsets /\ sinceSync' = 0
       \/ offset' = 0 /\ sinceSync' = RefreshInterval
    /\ pc' = "sleeping"
    /\ timer' = Second * SecondsUntilNextRun(offset')
    /\ daysSinceVacuum' = 0

\* At any time of day; the day of a start after the target counts as run.
Init ==
    /\ \/ offset \in Offsets /\ sinceSync = 0
       \/ offset = 0 /\ sinceSync = RefreshInterval
    /\ left \in 1 .. DayLen
    /\ pc = "sleeping"
    /\ timer = Second * SecondsUntilNextRun(offset)
    /\ daysSinceVacuum = 0
    /\ runs = (IF WaitAt(offset) > HalfWay THEN 1 ELSE 0)
    /\ cut = FALSE
    /\ days = 0

-----------------------------------------------------------------------------
Elapse ==
    /\ timer > 0 \/ pc = "down"
    /\ timer' = IF timer > 0 THEN timer - 1 ELSE 0
    /\ left' = IF left = 1 THEN DayLen ELSE left - 1
    /\ sinceSync' = IF sinceSync < RefreshInterval THEN sinceSync + 1 ELSE sinceSync
    /\ IF left = HalfWay + 1
       THEN /\ runs' = 0
            /\ cut' = (pc = "down")
            /\ days' = IF pc = "down" THEN days ELSE days + 1
       ELSE UNCHANGED history
    /\ UNCHANGED <<offset, pc, daysSinceVacuum>>

\* refresh_if_stale succeeds; until it does, it is tried again with the old offset.
Resync ==
    /\ pc # "down"
    /\ sinceSync >= RefreshInterval
    /\ offset' \in Offsets
    /\ sinceSync' = 0
    /\ UNCHANGED <<left, pc, timer, daysSinceVacuum, history>>

\* The sleep is over: run_daily_purge (or rollup_index_1d) begins, and takes
\* some time.
Begin ==
    /\ pc = "sleeping"
    /\ timer = 0
    /\ runs < MaxRuns
    /\ runs' = runs + 1
    /\ pc' = "running"
    /\ timer' \in 0 .. MaxJob
    /\ UNCHANGED <<clock, left, daysSinceVacuum, cut, days>>

\* Mutation: the counter is not reset.
CountRunNoReset ==
    /\ daysSinceVacuum' = daysSinceVacuum + 1
    /\ days' = IF daysSinceVacuum + 1 = VacuumEvery THEN 0 ELSE days

\* days_since_vacuum counts the runs; the seventh is followed by VACUUM.
CountRun ==
    IF daysSinceVacuum + 1 >= VacuumEvery
    THEN daysSinceVacuum' = 0 /\ days' = 0
    ELSE daysSinceVacuum' = daysSinceVacuum + 1 /\ UNCHANGED days

\* Mutation: a day's sleep after every run, however long the run took.
EndSleepDay ==
    /\ pc = "running"
    /\ timer = 0
    /\ CountRun
    /\ pc' = "sleeping"
    /\ timer' = DayLen
    /\ UNCHANGED <<clock, left, runs, cut>>

End ==
    /\ pc = "running"
    /\ timer = 0
    /\ CountRun
    /\ pc' = "sleeping"
    /\ timer' = Second * SecondsUntilNextRun(offset)
    /\ UNCHANGED <<clock, left, runs, cut>>

\* The process ends, in a sleep or in a run, and nothing of the loop is kept.
Stop ==
    /\ pc # "down"
    /\ ~cut
    /\ pc' = "down"
    /\ timer' = 0
    /\ cut' = TRUE
    /\ UNCHANGED <<clock, left, daysSinceVacuum, runs, days>>

Restart ==
    /\ pc = "down"
    /\ Start
    /\ days' = 0
    /\ UNCHANGED <<left, runs, cut>>

Next == Elapse \/ Resync \/ Begin \/ End \/ Stop \/ Restart

Spec == Init /\ [][Next]_vars

-----------------------------------------------------------------------------
(* Properties *)

Ahead(off) == IF off > 0 THEN off ELSE 0
Behind(off) == IF off < 0 THEN -off ELSE 0

\* Every variable stays in its domain; the loop sleeps for at least a second
\* and for less than a day and the clock difference.
TypeOK ==
    /\ offset \in Offsets
    /\ sinceSync \in 0 .. RefreshInterval
    /\ left \in 1 .. DayLen
    /\ pc \in {"sleeping", "running", "down"}
    /\ \E off \in Offsets : timer \in 0 .. DayLen + Ahead(off)
    /\ daysSinceVacuum \in 0 .. VacuumEvery - 1
    /\ runs \in 0 .. MaxRuns /\ cut \in BOOLEAN
    /\ days \in Nat

\* No day goes by without the job, unless the process was down in it: whatever
\* the rounding, the moves of the NSE clock and the length of the runs, each
\* half-way point has a run behind it.
NoDaySkipped == [][left = HalfWay + 1 /\ left' = HalfWay => runs > 0 \/ cut]_vars

\* A process that stays up runs VACUUM at least once in VacuumEvery days.
VacuumNotOverdue == days <= VacuumEvery

\* A run begins less than a second before its target on the local clock; a
\* repetition less than a second after the NSE clock has reached the target,
\* however long the runs take.
RunsNearTarget ==
    [][Begin =>
         \/ left < Second
         \/ \E off \in Offsets : DayLen - left < Behind(off) + Second]_vars

\* The job of a day is repeated only while the NSE clock still waits for the
\* target.  The first repetition, for the rounding, may be anywhere in the
\* second after it; the others follow a second apart, the last one less than a
\* second after the clock has caught up.  A process that was started again may
\* add one.
RepeatsBounded ==
    \E off \in Offsets :
        (runs - (IF cut THEN 1 ELSE 0) - 2) * Second < Behind(off) + Second - 1

=============================================================================
