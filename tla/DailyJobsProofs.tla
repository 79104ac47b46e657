-------------------------- MODULE DailyJobsProofs --------------------------
(***************************************************************************)
(* Proofs about DailyJobs for every length of a second and of a day, every *)
(* set of clock differences below half a day and every length of a run.    *)
(***************************************************************************)
EXTENDS DailyJobs, FloorLemmas, TLAPS

\* The runs of the day, less the one a restart may add, at a second each.
RepeatTime == (runs - (IF cut THEN 1 ELSE 0)) * Second

(***************************************************************************)
(* The four sleeps, by the units t that remain, the units l to the target  *)
(* and the time r that the runs of the day stand for.                      *)
(***************************************************************************)

\* Until the next target, or less than a second before it.
Awaiting(t, l, r) == t <= l /\ l < t + Second /\ (l <= HalfWay => r <= 0)

\* Past the next target to the one after: the NSE clock has passed it.
Skipping(t, l) ==
    \E off \in Offsets : l <= off /\ t <= l + DayLen /\ l + DayLen < t + Second

\* A second that began less than a second before the target.
Overshooting(t, l, r) == l < Second /\ l < t /\ t <= Second /\ r - Second < t - l

\* A second after the target, while the NSE clock is still to reach it.
Repeating(t, l, r) ==
    /\ t <= Second
    /\ \E off \in Offsets : DayLen - l + t < Behind(off) + Second
    /\ r - Second < DayLen - l + t

Sleeps ==
    pc = "sleeping" =>
        \/ Awaiting(timer, left, RepeatTime)
        \/ Skipping(timer, left)
        \/ Overshooting(timer, left, RepeatTime)
        \/ Repeating(timer, left, RepeatTime)

\* No run lasts to the half-way point.
RunsEndSoon ==
    pc = "running" =>
        /\ timer <= MaxJob
        /\ left < Second \/ \E off \in Offsets : DayLen - left + timer < Behind(off) + Second + MaxJob

\* While the day's run is to come, the loop sleeps and will begin it in time.
WillRun ==
    runs = 0 /\ ~cut =>
        /\ pc = "sleeping"
        /\ \/ Awaiting(timer, left, RepeatTime) /\ left <= HalfWay
           \/ Overshooting(timer, left, RepeatTime)
           \/ Repeating(timer, left, RepeatTime)

\* Before the target there was at most one run; after it they are a second apart.
RepeatsSpaced ==
    IF left <= HalfWay
    THEN RepeatTime <= Second /\ (pc = "down" => RepeatTime <= 0)
    ELSE RepeatTime - 2 * Second < DayLen - left

DownIsCut == pc = "down" => cut /\ timer = 0

\* The loop's count keeps up with the days, but for the run to come.
CountKeepsUp ==
    pc # "down" =>
        /\ cut => days = 0
        /\ days <= daysSinceVacuum + (IF runs > 0 /\ pc = "sleeping" THEN 0 ELSE 1)

Inv ==
    /\ TypeOK
    /\ Sleeps
    /\ RunsEndSoon
    /\ WillRun
    /\ RepeatsSpaced
    /\ DownIsCut
    /\ CountKeepsUp
    /\ VacuumNotOverdue
    /\ RepeatsBounded

-----------------------------------------------------------------------------
(* Units and clocks *)

LEMMA UnitFacts ==
    /\ Second \in Nat \ {0} /\ DayLen \in Nat \ {0} /\ MaxJob \in Nat
    /\ HalfWay \in Nat /\ 2 * HalfWay <= DayLen /\ DayLen <= 2 * HalfWay + 1
    /\ MaxJob + Second <= HalfWay
    /\ VacuumEvery \in Nat \ {0} /\ MaxRuns \in Nat \ {0} /\ RefreshInterval \in Nat
<1>1. HalfWay \in Nat /\ 2 * HalfWay <= DayLen /\ DayLen <= 2 * HalfWay + 1
  <2>1. /\ DayLen % 2 \in 0 .. 2 - 1 /\ DayLen \div 2 \in Nat
        /\ DayLen = 2 * (DayLen \div 2) + (DayLen % 2)
    BY UnitsAssumption, DivisionFacts
  <2> QED BY <2>1, UnitsAssumption DEF HalfWay
<1>2. MaxJob + Second - 0 <= HalfWay
  BY OffsetsAssumption
<1> QED BY <1>1, <1>2, UnitsAssumption, CountsAssumption

LEMMA OffsetFacts ==
    ASSUME NEW off \in Offsets
    PROVE  /\ off \in Int /\ off < HalfWay
           /\ Behind(off) \in Nat /\ Ahead(off) \in Nat
           /\ -off <= Behind(off) /\ off <= Ahead(off)
           /\ Behind(off) + Second + MaxJob <= HalfWay
<1>1. off \in Int /\ off < HalfWay /\ MaxJob + Second - off <= HalfWay
  BY OffsetsAssumption
<1> QED BY <1>1, UnitFacts DEF Behind, Ahead

\* A remainder is known by its range.
LEMMA RemainderIs ==
    ASSUME NEW L \in Nat \ {0}, NEW x \in Int, NEW k \in Int, NEW r \in 0 .. L - 1, x = L * k + r
    PROVE  x % L = r
<1> DEFINE q == x \div L
<1>1. x % L \in 0 .. L - 1 /\ q \in Int /\ x = L * q + (x % L)
  OBVIOUS
<1> HIDE DEF q
<1>2. ~(q < k)
  <2> SUFFICES ASSUME q < k PROVE FALSE
    OBVIOUS
  <2>1. PICK d \in Nat : k = q + 1 + d
    <3>1. k - q - 1 \in Nat /\ k = q + 1 + (k - q - 1)
      BY <1>1
    <3> QED BY <3>1
  <2>2. L * k = L * q + L + L * d /\ L * d \in Nat /\ L * q \in Int
    BY <1>1, <2>1
  <2> QED BY <1>1, <2>2
<1>3. ~(k < q)
  <2> SUFFICES ASSUME k < q PROVE FALSE
    OBVIOUS
  <2>1. PICK d \in Nat : q = k + 1 + d
    <3>1. q - k - 1 \in Nat /\ q = k + 1 + (q - k - 1)
      BY <1>1
    <3> QED BY <3>1
  <2>2. L * q = L * k + L + L * d /\ L * d \in Nat /\ L * k \in Int
    BY <1>1, <2>1
  <2> QED BY <1>1, <2>2
<1>4. q = k
  BY <1>1, <1>2, <1>3
<1>5. L * q = L * k /\ L * k \in Int
  BY <1>4
<1> QED BY <1>1, <1>5

\* The wait is for the next target, unless the NSE clock is on its other side.
LEMMA WaitFacts ==
    ASSUME left \in 1 .. DayLen, NEW off \in Offsets
    PROVE  \/ off < left /\ left <= DayLen + off /\ WaitAt(off) = left
           \/ left <= off /\ WaitAt(off) = left + DayLen
           \/ DayLen + off < left /\ WaitAt(off) = left - DayLen
<1> DEFINE x == left - off - 1
<1>1. /\ DayLen \in Nat \ {0} /\ left \in Int /\ off \in Int /\ x \in Int
      /\ off < DayLen /\ -off < DayLen /\ 1 <= left /\ left <= DayLen
  BY UnitFacts, OffsetFacts
<1>2. WaitAt(off) = 1 + (x % DayLen) + off
  BY DEF WaitAt, LeftAt
<1>3. CASE off < left /\ left <= DayLen + off
  <2>1. x \in 0 .. DayLen - 1 /\ x = DayLen * 0 + x
    BY <1>1, <1>3
  <2>2. x % DayLen = x
    BY <1>1, <2>1, RemainderIs
  <2> QED BY <1>1, <1>2, <1>3, <2>2
<1>4. CASE left <= off
  <2>1. x + DayLen \in 0 .. DayLen - 1 /\ x = DayLen * (-1) + (x + DayLen) /\ -1 \in Int
    BY <1>1, <1>4
  <2>2. x % DayLen = x + DayLen
    BY <1>1, <2>1, RemainderIs
  <2> QED BY <1>1, <1>2, <1>4, <2>2
<1>5. CASE DayLen + off < left
  <2>1. x - DayLen \in 0 .. DayLen - 1 /\ x = DayLen * 1 + (x - DayLen)
    BY <1>1, <1>5
  <2>2. x % DayLen = x - DayLen
    BY <1>1, <2>1, RemainderIs
  <2> QED BY <1>1, <1>2, <1>5, <2>2
<1> QED BY <1>1, <1>3, <1>4, <1>5

\* The sleep is the wait without its fraction of a second, and at least a second.
LEMMA SleepFacts ==
    ASSUME left \in 1 .. DayLen, NEW off \in Offsets
    PROVE  LET t == Second * SecondsUntilNextRun(off)
           IN  /\ t \in Nat /\ t > 0
               /\ WaitAt(off) < 2 * Second => t = Second
               /\ ~(WaitAt(off) < 2 * Second) => t <= WaitAt(off) /\ WaitAt(off) < t + Second
<1> DEFINE w == WaitAt(off)
<1>1. w \in Int
  BY WaitFacts, UnitFacts, OffsetFacts
<1> HIDE DEF w
<1>2. CASE w < 2 * Second
  BY <1>2, UnitFacts DEF SecondsUntilNextRun, w
<1>3. CASE ~(w < 2 * Second)
  <2>1. w \in Nat
    BY <1>1, <1>3, UnitFacts
  <2>2. w % Second \in 0 .. Second - 1 /\ w \div Second \in Nat
        /\ w = Second * (w \div Second) + (w % Second)
    BY <2>1, UnitFacts, DivisionFacts
  <2>3. SecondsUntilNextRun(off) = w \div Second
    BY <1>3 DEF SecondsUntilNextRun, w
  <2> DEFINE s == Second * (w \div Second)
  <2>4. s \in Nat
    BY <2>2, UnitFacts
  <2> HIDE DEF s
  <2>5. w = s + (w % Second)
    BY <2>2 DEF s
  <2>6. s <= w /\ w < s + Second /\ s > 0
    BY <1>3, <2>1, <2>2, <2>4, <2>5, UnitFacts
  <2> QED BY <1>3, <2>3, <2>4, <2>6 DEF s, w
<1> QED BY <1>2, <1>3

\* What a loop that computes its sleep goes into.
LEMMA SleepBegins ==
    ASSUME left \in 1 .. DayLen, NEW off \in Offsets, NEW r \in Int,
           left <= HalfWay => r <= Second,
           Second <= left /\ left <= HalfWay /\ WaitAt(off) = left => r <= 0,
           HalfWay < left => r - 2 * Second < DayLen - left
    PROVE  LET t == Second * SecondsUntilNextRun(off)
           IN  /\ off < left /\ left <= DayLen + off /\ WaitAt(off) = left
                    => Awaiting(t, left, r) \/ Overshooting(t, left, r)
               /\ left <= off /\ WaitAt(off) = left + DayLen => Skipping(t, left)
               /\ DayLen + off < left /\ WaitAt(off) = left - DayLen => Repeating(t, left, r)
               /\ t \in 0 .. DayLen + Ahead(off)
<1> DEFINE t == Second * SecondsUntilNextRun(off)
<1>1. /\ t \in Nat /\ t > 0
      /\ WaitAt(off) < 2 * Second => t = Second
      /\ ~(WaitAt(off) < 2 * Second) => t <= WaitAt(off) /\ WaitAt(off) < t + Second
  BY SleepFacts
<1> HIDE DEF t
<1>2. /\ Second \in Nat /\ Second > 0 /\ DayLen \in Nat /\ HalfWay \in Nat /\ left \in Int
      /\ 1 <= left /\ left <= DayLen
      /\ 2 * HalfWay <= DayLen /\ Second <= HalfWay
      /\ off \in Int /\ off < HalfWay /\ Behind(off) \in Nat /\ -off <= Behind(off)
      /\ Behind(off) + Second <= HalfWay
      /\ Ahead(off) \in Nat /\ off <= Ahead(off)
  BY UnitFacts, OffsetFacts
<1>3. ASSUME off < left, left <= DayLen + off, WaitAt(off) = left
      PROVE  Awaiting(t, left, r) \/ Overshooting(t, left, r)
  <2>1. CASE left < Second
    BY <1>1, <1>2, <1>3, <2>1 DEF Overshooting
  <2>2. CASE Second <= left
    BY <1>1, <1>2, <1>3, <2>2 DEF Awaiting
  <2> QED BY <1>2, <2>1, <2>2
<1>4. ASSUME left <= off, WaitAt(off) = left + DayLen
      PROVE  Skipping(t, left)
  BY <1>1, <1>2, <1>4 DEF Skipping
<1>5. ASSUME DayLen + off < left, WaitAt(off) = left - DayLen
      PROVE  Repeating(t, left, r)
  <2>1. t = Second /\ HalfWay < left
    BY <1>1, <1>2, <1>5
  <2>2. DayLen - left + t < Behind(off) + Second
    BY <1>2, <1>5, <2>1
  <2>3. r - Second < DayLen - left + t
    BY <1>2, <2>1
  <2> QED BY <1>2, <2>1, <2>2, <2>3 DEF Repeating
<1>6. t \in 0 .. DayLen + Ahead(off)
  BY <1>1, <1>2, WaitFacts
<1> QED BY <1>3, <1>4, <1>5, <1>6 DEF t

\* How a sleep goes on while a unit elapses.
LEMMA SleepGoesOn ==
    ASSUME NEW t \in Nat \ {0}, NEW l \in 1 .. DayLen, NEW r \in Int, NEW s \in Int,
           IF l = HalfWay + 1 THEN s <= 0 ELSE s = r
    PROVE  LET m == IF l = 1 THEN DayLen ELSE l - 1
           IN  /\ Awaiting(t, l, r) => Awaiting(t - 1, m, s) \/ Repeating(t - 1, m, s)
               /\ Skipping(t, l) => Awaiting(t - 1, m, s) \/ Skipping(t - 1, m)
               /\ Overshooting(t, l, r) => Overshooting(t - 1, m, s) \/ Repeating(t - 1, m, s)
               /\ Repeating(t, l, r) => Repeating(t - 1, m, s) /\ HalfWay + 1 < l
               /\ Awaiting(t, l, r) /\ l <= HalfWay + 1 =>
                      (Awaiting(t - 1, m, s) /\ m <= HalfWay) \/ Repeating(t - 1, m, s)
<1> DEFINE m == IF l = 1 THEN DayLen ELSE l - 1
<1>1. /\ Second \in Nat /\ Second > 0 /\ DayLen \in Nat /\ HalfWay \in Nat /\ l \in Int
      /\ 1 <= l /\ l <= DayLen
      /\ 2 * HalfWay <= DayLen /\ Second <= HalfWay
      /\ \A off \in Offsets : off \in Int /\ off < HalfWay /\ Behind(off) \in Nat
                              /\ Behind(off) + Second <= HalfWay
  BY UnitFacts, OffsetFacts
<1>2. 0 \in Offsets /\ t - 1 \in Nat /\ m \in Int
  BY <1>1, OffsetsAssumption
<1>3. ASSUME Awaiting(t, l, r) PROVE Awaiting(t - 1, m, s) \/ Repeating(t - 1, m, s)
  <2>1. CASE l = 1
    <3>1. t = 1 /\ r <= 0 /\ s = r /\ m = DayLen
      BY <1>1, <1>3, <2>1 DEF Awaiting
    <3>2. DayLen - m + (t - 1) < Behind(0) + Second
      BY <1>1, <1>2, <3>1
    <3> QED BY <1>1, <1>2, <3>1, <3>2 DEF Repeating
  <2>2. CASE l # 1
    BY <1>1, <1>3, <2>2 DEF Awaiting
  <2> QED BY <2>1, <2>2
<1>4. ASSUME Skipping(t, l) PROVE Awaiting(t - 1, m, s) \/ Skipping(t - 1, m)
  <2>1. PICK off \in Offsets : l <= off /\ t <= l + DayLen /\ l + DayLen < t + Second
    BY <1>4 DEF Skipping
  <2>2. CASE l = 1
    BY <1>1, <2>1, <2>2 DEF Awaiting
  <2>3. CASE l # 1
    <3>1. m <= off /\ t - 1 <= m + DayLen /\ m + DayLen < (t - 1) + Second
      BY <1>1, <2>1, <2>3
    <3> QED BY <3>1 DEF Skipping
  <2> QED BY <2>2, <2>3
<1>5. ASSUME Overshooting(t, l, r) PROVE Overshooting(t - 1, m, s) \/ Repeating(t - 1, m, s)
  <2>1. s = r /\ l < t /\ t <= Second /\ r - Second < t - l /\ l < Second
    BY <1>1, <1>5 DEF Overshooting
  <2>2. CASE l = 1
    <3>1. DayLen - m + (t - 1) < Behind(0) + Second
      BY <1>1, <1>2, <2>1, <2>2
    <3> QED BY <1>1, <1>2, <2>1, <2>2, <3>1 DEF Repeating
  <2>3. CASE l # 1
    BY <1>1, <2>1, <2>3 DEF Overshooting
  <2> QED BY <2>2, <2>3
<1>6. ASSUME Repeating(t, l, r) PROVE Repeating(t - 1, m, s) /\ HalfWay + 1 < l
  <2>1. PICK off \in Offsets : DayLen - l + t < Behind(off) + Second
    BY <1>6 DEF Repeating
  <2>2. HalfWay + 1 < l /\ l # 1
    BY <1>1, <2>1
  <2>3. s = r /\ m = l - 1
    BY <1>1, <2>2
  <2>4. DayLen - m + (t - 1) < Behind(off) + Second
    BY <1>1, <2>1, <2>3
  <2> QED BY <1>1, <1>6, <2>2, <2>3, <2>4 DEF Repeating
<1>7. ASSUME Awaiting(t, l, r), l <= HalfWay + 1
      PROVE  (Awaiting(t - 1, m, s) /\ m <= HalfWay) \/ Repeating(t - 1, m, s)
  <2>1. CASE l = 1
    <3>1. t = 1 /\ r <= 0 /\ s = r /\ m = DayLen
      BY <1>1, <1>7, <2>1 DEF Awaiting
    <3>2. DayLen - m + (t - 1) < Behind(0) + Second
      BY <1>1, <1>2, <3>1
    <3> QED BY <1>1, <1>2, <3>1, <3>2 DEF Repeating
  <2>2. CASE l # 1
    BY <1>1, <1>7, <2>2 DEF Awaiting
  <2> QED BY <2>1, <2>2
<1> QED BY <1>3, <1>4, <1>5, <1>6, <1>7

-----------------------------------------------------------------------------
(* The inductive invariant *)

\* What TypeOK says of the numbers.
LEMMA NumberFacts ==
    ASSUME TypeOK
    PROVE  /\ left \in Int /\ 1 <= left /\ left <= DayLen /\ timer \in Nat
           /\ runs \in Nat /\ days \in Nat /\ daysSinceVacuum \in Nat
           /\ daysSinceVacuum <= VacuumEvery - 1
           /\ RepeatTime \in Int
           /\ runs = 0 => RepeatTime <= 0
<1>1. /\ left \in Int /\ 1 <= left /\ left <= DayLen
      /\ runs \in Nat /\ days \in Nat /\ daysSinceVacuum \in Nat
      /\ daysSinceVacuum <= VacuumEvery - 1 /\ cut \in BOOLEAN
  BY UnitFacts DEF TypeOK
<1>2. timer \in Nat
  BY UnitFacts, OffsetFacts DEF TypeOK
<1>3. RepeatTime \in Int
  BY <1>1, UnitFacts DEF RepeatTime
<1>4. runs = 0 => RepeatTime <= 0
  <2>1. runs = 0 /\ cut => RepeatTime = -Second
    BY <1>1, UnitFacts DEF RepeatTime
  <2>2. runs = 0 /\ ~cut => RepeatTime = 0
    BY <1>1, UnitFacts DEF RepeatTime
  <2> QED BY <1>1, <2>1, <2>2, UnitFacts
<1> QED BY <1>1, <1>2, <1>3, <1>4

\* RepeatsBounded in terms of the time the runs stand for.
LEMMA BoundedBy ==
    TypeOK => (RepeatsBounded <=> \E off \in Offsets : RepeatTime - 2 * Second < Behind(off) + Second - 1)
<1> SUFFICES ASSUME TypeOK
             PROVE  RepeatsBounded <=> \E off \in Offsets : RepeatTime - 2 * Second < Behind(off) + Second - 1
  OBVIOUS
<1> DEFINE k == runs - (IF cut THEN 1 ELSE 0)
<1>1. k \in Int /\ Second \in Int
  BY UnitFacts DEF TypeOK
<1>2. (k - 2) * Second = k * Second - 2 * Second
  <2> HIDE DEF k
  <2> QED BY <1>1
<1> QED BY <1>2 DEF RepeatTime, RepeatsBounded

LEMMA InvInit == Init => Inv
<1> SUFFICES ASSUME Init PROVE Inv
  OBVIOUS
<1>1. /\ offset \in Offsets /\ left \in 1 .. DayLen /\ pc = "sleeping"
      /\ timer = Second * SecondsUntilNextRun(offset)
      /\ runs = (IF WaitAt(offset) > HalfWay THEN 1 ELSE 0)
      /\ cut = FALSE /\ days = 0 /\ daysSinceVacuum = 0
      /\ sinceSync \in 0 .. RefreshInterval
  BY OffsetsAssumption, UnitFacts DEF Init
<1>2. /\ WaitAt(offset) > HalfWay => runs = 1 /\ RepeatTime = Second
      /\ ~(WaitAt(offset) > HalfWay) => runs = 0 /\ RepeatTime = 0
      /\ Second \in Nat /\ Second > 0 /\ HalfWay \in Nat /\ left \in Int /\ DayLen \in Nat
      /\ left <= DayLen
      /\ 2 * HalfWay <= DayLen /\ Second <= HalfWay
  BY <1>1, UnitFacts DEF RepeatTime
<1>3. \/ offset < left /\ left <= DayLen + offset /\ WaitAt(offset) = left
      \/ left <= offset /\ WaitAt(offset) = left + DayLen
      \/ DayLen + offset < left /\ WaitAt(offset) = left - DayLen
  BY <1>1, WaitFacts
<1>4. /\ offset < left /\ left <= DayLen + offset /\ WaitAt(offset) = left
           => Awaiting(timer, left, RepeatTime) \/ Overshooting(timer, left, RepeatTime)
      /\ left <= offset /\ WaitAt(offset) = left + DayLen => Skipping(timer, left)
      /\ DayLen + offset < left /\ WaitAt(offset) = left - DayLen
           => Repeating(timer, left, RepeatTime)
      /\ timer \in 0 .. DayLen + Ahead(offset)
  <2> DEFINE r == RepeatTime
  <2>1. /\ r \in Int /\ left <= HalfWay => r <= Second
        /\ Second <= left /\ left <= HalfWay /\ WaitAt(offset) = left => r <= 0
        /\ HalfWay < left => r - 2 * Second < DayLen - left
    BY <1>2
  <2> HIDE DEF r
  <2> QED BY <1>1, <1>2, <2>1, SleepBegins DEF r
<1>5. TypeOK
  <2>1. \E off \in Offsets : timer \in 0 .. DayLen + Ahead(off)
    BY <1>1, <1>4
  <2>2. daysSinceVacuum \in 0 .. VacuumEvery - 1 /\ days \in Nat
    BY <1>1, UnitFacts
  <2>3. runs \in 0 .. MaxRuns
    BY <1>2, UnitFacts
  <2>4. cut \in BOOLEAN /\ pc \in {"sleeping", "running", "down"}
    BY <1>1
  <2> QED BY <1>1, <2>1, <2>2, <2>3, <2>4 DEF TypeOK
<1>6. Sleeps
  BY <1>3, <1>4 DEF Sleeps
<1>7. WillRun
  <2> SUFFICES ASSUME runs = 0
               PROVE  \/ Awaiting(timer, left, RepeatTime) /\ left <= HalfWay
                      \/ Overshooting(timer, left, RepeatTime)
                      \/ Repeating(timer, left, RepeatTime)
    BY <1>1 DEF WillRun
  <2>1. ~(WaitAt(offset) > HalfWay)
    BY <1>2
  <2>2. WaitAt(offset) # left + DayLen /\ (WaitAt(offset) = left => left <= HalfWay)
    BY <1>1, <1>2, <2>1
  <2> QED BY <1>3, <1>4, <2>2
<1>8. RepeatsSpaced
  BY <1>1, <1>2 DEF RepeatsSpaced
<1>9. RepeatsBounded
  <2>1. RepeatTime - 2 * Second < Behind(offset) + Second - 1
    BY <1>1, <1>2, OffsetFacts
  <2> QED BY <1>1, <1>5, <2>1, BoundedBy
<1>10. RunsEndSoon /\ DownIsCut /\ CountKeepsUp /\ VacuumNotOverdue
  BY <1>1, UnitFacts DEF RunsEndSoon, DownIsCut, CountKeepsUp, VacuumNotOverdue
<1> QED BY <1>5, <1>6, <1>7, <1>8, <1>9, <1>10 DEF Inv

\* The same runs on the same day.
LEMMA SameRuns == UNCHANGED <<runs, cut>> => RepeatTime' = RepeatTime /\ (RepeatsBounded' <=> RepeatsBounded)
BY DEF RepeatTime, RepeatsBounded, Behind

\* A unit elapses.  At the half-way point the day's run is over, or the process
\* was down; a sleep there is for the new day's target.
LEMMA ElapseKeeps == Inv /\ Elapse => Inv' /\ (left = HalfWay + 1 => runs > 0 \/ cut)
<1> SUFFICES ASSUME Inv, Elapse PROVE Inv' /\ (left = HalfWay + 1 => runs > 0 \/ cut)
  OBVIOUS
<1> USE DEF Inv
<1> DEFINE r == RepeatTime
           s == RepeatTime'
           m == IF left = 1 THEN DayLen ELSE left - 1
           t == IF timer > 0 THEN timer - 1 ELSE 0
<1>1. /\ left \in Int /\ 1 <= left /\ left <= DayLen /\ timer \in Nat
      /\ runs \in Nat /\ days \in Nat /\ daysSinceVacuum \in Nat
      /\ daysSinceVacuum <= VacuumEvery - 1 /\ r \in Int
      /\ left \in 1 .. DayLen
  BY NumberFacts DEF TypeOK
<1>2. /\ Second \in Nat /\ Second > 0 /\ DayLen \in Nat /\ HalfWay \in Nat
      /\ 2 * HalfWay <= DayLen /\ DayLen <= 2 * HalfWay + 1
      /\ MaxJob \in Nat /\ MaxJob + Second <= HalfWay
      /\ VacuumEvery \in Nat
  BY UnitFacts
<1>3. /\ left' = m /\ timer' = t /\ UNCHANGED <<offset, pc, daysSinceVacuum>>
      /\ pc # "down" => timer > 0 /\ t = timer - 1
      /\ left = HalfWay + 1 => /\ runs' = 0 /\ cut' = (pc = "down")
                               /\ days' = IF pc = "down" THEN days ELSE days + 1
      /\ left # HalfWay + 1 => UNCHANGED <<runs, cut, days>>
  BY DEF Elapse, history
<1>4. TypeOK'
  <2>1. sinceSync' \in 0 .. RefreshInterval
    BY UnitFacts DEF Elapse, TypeOK
  <2>2. m \in 1 .. DayLen
    BY <1>1, <1>2
  <2>3. \E off \in Offsets : t \in 0 .. DayLen + Ahead(off)
    <3>1. PICK off \in Offsets : timer \in 0 .. DayLen + Ahead(off)
      BY DEF TypeOK
    <3>2. Ahead(off) \in Nat
      BY OffsetFacts
    <3>3. t \in 0 .. DayLen + Ahead(off)
      BY <1>1, <1>2, <3>1, <3>2
    <3> QED BY <3>3
  <2>4. /\ runs' \in 0 .. MaxRuns /\ cut' \in BOOLEAN /\ days' \in Nat
    <3>1. CASE left = HalfWay + 1
      <4>1. runs' \in 0 .. MaxRuns /\ days' \in Nat
        BY <1>1, <1>3, <3>1, UnitFacts
      <4>2. cut' \in BOOLEAN
        BY <1>3, <3>1, Zenon
      <4> QED BY <4>1, <4>2
    <3>2. CASE left # HalfWay + 1
      BY <1>3, <3>2 DEF TypeOK
    <3> QED BY <3>1, <3>2
  <2>5. timer' = t /\ left' = m
    BY <1>3
  <2> HIDE DEF m, t
  <2> QED BY <1>3, <2>1, <2>2, <2>3, <2>4, <2>5 DEF TypeOK, Ahead
<1>5. s \in Int /\ IF left = HalfWay + 1 THEN s <= 0 ELSE s = r
  <2>1. CASE left = HalfWay + 1
    <3>1. s = (0 - (IF pc = "down" THEN 1 ELSE 0)) * Second
      BY <1>3, <2>1 DEF RepeatTime
    <3>2. s = IF pc = "down" THEN -Second ELSE 0
      BY <1>2, <3>1
    <3> HIDE DEF s
    <3> QED BY <1>2, <2>1, <3>2
  <2>2. CASE left # HalfWay + 1
    BY <1>1, <1>3, <2>2, SameRuns
  <2> QED BY <2>1, <2>2
<1> HIDE DEF r, s
<1>6. pc # "down" =>
        /\ Awaiting(timer, left, r) => Awaiting(t, m, s) \/ Repeating(t, m, s)
        /\ Skipping(timer, left) => Awaiting(t, m, s) \/ Skipping(t, m)
        /\ Overshooting(timer, left, r) => Overshooting(t, m, s) \/ Repeating(t, m, s)
        /\ Repeating(timer, left, r) => Repeating(t, m, s) /\ HalfWay + 1 < left
        /\ Awaiting(timer, left, r) /\ left <= HalfWay + 1 =>
               (Awaiting(t, m, s) /\ m <= HalfWay) \/ Repeating(t, m, s)
  <2>1. CASE pc # "down"
    <3>1. timer \in Nat \ {0} /\ t = timer - 1
      BY <1>1, <1>3, <2>1
    <3> HIDE DEF t
    <3> QED BY <1>1, <1>5, <3>1, SleepGoesOn
  <2> QED BY <2>1
<1>7. Sleeps'
  <2>1. pc = "sleeping" => Awaiting(t, m, s) \/ Skipping(t, m) \/ Overshooting(t, m, s) \/ Repeating(t, m, s)
    BY <1>6 DEF Sleeps, r
  <2>2. Sleeps' <=> (pc = "sleeping" => Awaiting(t, m, s) \/ Skipping(t, m) \/ Overshooting(t, m, s) \/ Repeating(t, m, s))
    <3>1. pc' = pc /\ left' = m /\ timer' = t
      BY <1>3
    <3> HIDE DEF m, t
    <3> QED BY <3>1 DEF Sleeps, s, Awaiting, Skipping, Overshooting, Repeating, Behind
  <2> QED BY <2>1, <2>2
<1>8. pc = "running" => left # HalfWay + 1
  <2> SUFFICES ASSUME pc = "running", left = HalfWay + 1 PROVE FALSE
    OBVIOUS
  <2>1. PICK off \in Offsets : DayLen - left + timer < Behind(off) + Second + MaxJob
    BY <1>2 DEF RunsEndSoon
  <2>2. Behind(off) \in Nat /\ Behind(off) + Second + MaxJob <= HalfWay
    BY OffsetFacts
  <2> QED BY <1>1, <1>2, <1>3, <2>1, <2>2
<1>9. RunsEndSoon'
  <2> SUFFICES ASSUME pc = "running"
               PROVE  /\ t <= MaxJob
                      /\ m < Second \/ \E off \in Offsets : DayLen - m + t < Behind(off) + Second + MaxJob
    BY <1>3 DEF RunsEndSoon, Behind
  <2>1. t = timer - 1 /\ timer > 0 /\ timer <= MaxJob
    BY <1>3 DEF RunsEndSoon
  <2>2. CASE left = 1
    <3>1. 0 \in Offsets /\ Behind(0) \in Nat
      BY OffsetsAssumption, OffsetFacts
    <3>2. DayLen - m + t < Behind(0) + Second + MaxJob
      BY <1>1, <1>2, <2>1, <2>2, <3>1
    <3> QED BY <1>1, <1>2, <2>1, <3>1, <3>2
  <2>3. CASE left # 1 /\ left < Second
    BY <1>1, <1>2, <2>1, <2>3
  <2>4. CASE left # 1 /\ \E off \in Offsets : DayLen - left + timer < Behind(off) + Second + MaxJob
    <3>1. PICK off \in Offsets : DayLen - left + timer < Behind(off) + Second + MaxJob
      BY <2>4
    <3>2. Behind(off) \in Nat
      BY OffsetFacts
    <3>3. DayLen - m + t < Behind(off) + Second + MaxJob
      BY <1>1, <1>2, <2>1, <2>4, <3>1, <3>2
    <3> QED BY <1>1, <1>2, <2>1, <3>3
  <2> QED BY <2>2, <2>3, <2>4 DEF RunsEndSoon
<1>10. left = HalfWay + 1 => ~Skipping(timer, left) /\ ~Overshooting(timer, left, r)
                              /\ (pc # "down" => ~Repeating(timer, left, r))
  <2>1. \A off \in Offsets : off \in Int /\ off < HalfWay
    BY OffsetFacts
  <2> QED BY <1>1, <1>2, <1>6, <2>1 DEF Skipping, Overshooting
<1>11. left = HalfWay + 1 => runs > 0 \/ cut
  <2> SUFFICES ASSUME left = HalfWay + 1, runs = 0, ~cut PROVE FALSE
    BY <1>1
  <2> QED BY <1>1, <1>2, <1>10 DEF WillRun, r
<1>12. WillRun'
  <2> SUFFICES ASSUME runs' = 0, ~cut'
               PROVE  /\ pc = "sleeping"
                      /\ (Awaiting(t, m, s) /\ m <= HalfWay) \/ Overshooting(t, m, s) \/ Repeating(t, m, s)
    <3>1. pc' = pc /\ left' = m /\ timer' = t
      BY <1>3
    <3> HIDE DEF m, t
    <3> QED BY <3>1 DEF WillRun, s, Awaiting, Overshooting, Repeating, Behind
  <2>1. CASE left = HalfWay + 1
    <3>1. pc = "sleeping"
      BY <1>3, <1>8, <2>1 DEF TypeOK
    <3> QED BY <1>1, <1>6, <1>10, <2>1, <3>1 DEF Sleeps, r
  <2>2. CASE left # HalfWay + 1
    <3>1. /\ pc = "sleeping"
          /\ (Awaiting(timer, left, r) /\ left <= HalfWay) \/ Overshooting(timer, left, r) \/ Repeating(timer, left, r)
      BY <1>3, <2>2 DEF WillRun, r
    <3> QED BY <1>1, <1>2, <1>6, <3>1
  <2> QED BY <2>1, <2>2
<1>13. RepeatsSpaced'
  <2>1. IF left <= HalfWay THEN r <= Second /\ (pc = "down" => r <= 0) ELSE r - 2 * Second < DayLen - left
    BY DEF RepeatsSpaced, r
  <2>2. IF m <= HalfWay THEN s <= Second /\ (pc = "down" => s <= 0) ELSE s - 2 * Second < DayLen - m
    BY <1>1, <1>2, <1>5, <2>1
  <2>3. pc' = pc /\ left' = m
    BY <1>3
  <2> HIDE DEF m
  <2> QED BY <2>2, <2>3 DEF RepeatsSpaced, s
<1>14. DownIsCut'
  <2> SUFFICES ASSUME pc = "down" PROVE cut' /\ timer' = 0
    BY <1>3 DEF DownIsCut
  <2>1. cut /\ timer = 0
    BY DEF DownIsCut
  <2>2. timer' = 0
    BY <1>3, <2>1
  <2>3. CASE left = HalfWay + 1
    BY <1>3, <2>2, <2>3, Zenon
  <2>4. CASE left # HalfWay + 1
    BY <1>3, <2>1, <2>2, <2>4
  <2> QED BY <2>3, <2>4
<1>15. CountKeepsUp' /\ VacuumNotOverdue'
  <2>1. CASE left = HalfWay + 1 /\ pc # "down"
    <3>1. pc = "sleeping"
      BY <1>8, <2>1 DEF TypeOK
    <3>2. days' = days + 1 /\ runs' = 0 /\ pc' = "sleeping" /\ daysSinceVacuum' = daysSinceVacuum
      BY <1>3, <2>1, <3>1
    <3>3. ~cut'
      BY <1>3, <2>1, Zenon
    <3>4. days <= daysSinceVacuum
      <4>1. CASE runs > 0
        BY <1>1, <3>1, <4>1 DEF CountKeepsUp
      <4>2. CASE cut
        BY <1>1, <3>1, <4>2 DEF CountKeepsUp
      <4> QED BY <1>11, <2>1, <4>1, <4>2
    <3>5. days' <= daysSinceVacuum' + 1 /\ days' <= VacuumEvery
      BY <1>1, <1>2, <3>2, <3>4
    <3>6. ~(runs' > 0)
      BY <3>2
    <3> QED BY <3>2, <3>3, <3>5, <3>6 DEF CountKeepsUp, VacuumNotOverdue
  <2>2. CASE left # HalfWay + 1 \/ pc = "down"
    <3>1. days' = days /\ (pc # "down" => UNCHANGED <<runs, cut>>)
      BY <1>3, <2>2
    <3> QED BY <1>3, <3>1 DEF CountKeepsUp, VacuumNotOverdue
  <2> QED BY <2>1, <2>2
<1>16. RepeatsBounded'
  <2>1. CASE left = HalfWay + 1
    <3>1. 0 \in Offsets /\ Behind(0) \in Nat
      BY OffsetsAssumption, OffsetFacts
    <3>2. s - 2 * Second < Behind(0) + Second - 1
      BY <1>2, <1>5, <2>1, <3>1
    <3>3. \E off \in Offsets : RepeatTime' - 2 * Second < Behind(off) + Second - 1
      BY <3>1, <3>2 DEF s
    <3>4. TypeOK' => (RepeatsBounded' <=> (\E off \in Offsets : RepeatTime - 2 * Second < Behind(off) + Second - 1)')
      BY BoundedBy, PTL
    <3> QED BY <1>4, <3>3, <3>4 DEF Behind
  <2>2. CASE left # HalfWay + 1
    BY <1>3, <2>2, SameRuns
  <2> QED BY <2>1, <2>2
<1> QED BY <1>4, <1>7, <1>9, <1>11, <1>12, <1>13, <1>14, <1>15, <1>16

\* The offset is not looked at until the next sleep is computed.
LEMMA ResyncKeeps == Inv /\ Resync => Inv'
<1> SUFFICES ASSUME Inv, Resync PROVE Inv'
  OBVIOUS
<1> USE DEF Inv, Resync, history
<1>1. TypeOK'
  BY UnitFacts DEF TypeOK, Ahead
<1>2. RepeatTime' = RepeatTime /\ RepeatsBounded'
  BY SameRuns
<1>3. Sleeps' /\ RunsEndSoon' /\ WillRun' /\ RepeatsSpaced'
  BY <1>2 DEF Sleeps, RunsEndSoon, WillRun, RepeatsSpaced, Awaiting, Skipping, Overshooting,
              Repeating, Behind
<1>4. DownIsCut' /\ CountKeepsUp' /\ VacuumNotOverdue'
  BY DEF DownIsCut, CountKeepsUp, VacuumNotOverdue
<1> QED BY <1>1, <1>2, <1>3, <1>4

\* Which sleeps can be over: one for the target, less than a second before it,
\* or one for the NSE clock after it.
LEMMA BeginFacts ==
    ASSUME Inv, Begin
    PROVE  \/ left < Second /\ RepeatTime <= 0
           \/ HalfWay < left /\ Repeating(timer, left, RepeatTime)
<1>1. /\ left \in Int /\ 1 <= left /\ left <= DayLen /\ RepeatTime \in Int
      /\ pc = "sleeping" /\ timer = 0
      /\ Second \in Nat /\ Second > 0 /\ DayLen \in Nat /\ HalfWay \in Nat
      /\ 2 * HalfWay <= DayLen /\ Second <= HalfWay
  BY NumberFacts, UnitFacts DEF Inv, Begin
<1>2. ASSUME Awaiting(timer, left, RepeatTime) PROVE left < Second /\ RepeatTime <= 0
  BY <1>1, <1>2 DEF Awaiting
<1>3. ~Skipping(timer, left)
  BY <1>1, OffsetFacts DEF Skipping
<1>4. ~Overshooting(timer, left, RepeatTime)
  BY <1>1 DEF Overshooting
<1>5. ASSUME Repeating(timer, left, RepeatTime) PROVE HalfWay < left
  <2>1. PICK off \in Offsets : DayLen - left + timer < Behind(off) + Second
    BY <1>5 DEF Repeating
  <2>2. Behind(off) \in Nat /\ Behind(off) + Second <= HalfWay
    BY OffsetFacts, UnitFacts
  <2> QED BY <1>1, <2>1, <2>2
<1> QED BY <1>1, <1>2, <1>3, <1>4, <1>5 DEF Inv, Sleeps

LEMMA BeginKeeps == Inv /\ Begin => Inv'
<1> SUFFICES ASSUME Inv, Begin PROVE Inv'
  OBVIOUS
<1> USE DEF Inv
<1> DEFINE r == RepeatTime
           s == RepeatTime'
<1>1. /\ left \in Int /\ 1 <= left /\ left <= DayLen /\ r \in Int
      /\ runs \in Nat /\ days \in Nat /\ daysSinceVacuum \in Nat
      /\ Second \in Nat /\ Second > 0 /\ DayLen \in Nat /\ HalfWay \in Nat
      /\ 2 * HalfWay <= DayLen /\ Second <= HalfWay
      /\ MaxJob \in Nat /\ MaxJob <= HalfWay
  BY NumberFacts, UnitFacts
<1>2. /\ timer = 0 /\ pc = "sleeping" /\ runs < MaxRuns /\ runs' = runs + 1 /\ pc' = "running"
      /\ timer' \in 0 .. MaxJob
      /\ UNCHANGED <<offset, sinceSync, left, daysSinceVacuum, cut, days>>
  BY DEF Begin, clock
<1>3. s = r + Second
  <2> DEFINE k == runs - (IF cut THEN 1 ELSE 0)
  <2>1. k \in Int /\ s = (k + 1) * Second /\ r = k * Second
    <3> DEFINE c == IF cut THEN 1 ELSE 0
    <3>1. c \in Int /\ s = (runs' - c) * Second /\ r = (runs - c) * Second /\ k = runs - c
      BY <1>2 DEF RepeatTime
    <3> HIDE DEF c, k, r, s
    <3>2. runs' - c = k + 1 /\ k \in Int
      BY <1>1, <1>2, <3>1
    <3> QED BY <3>1, <3>2
  <2> HIDE DEF k, r, s
  <2> QED BY <1>1, <2>1
<1>4. \/ left < Second /\ r <= 0
      \/ HalfWay < left /\ Repeating(timer, left, r)
  BY BeginFacts
<1> HIDE DEF r, s
<1>5. TypeOK'
  <2>1. 0 \in Offsets /\ Ahead(0) \in Nat
    BY OffsetsAssumption, OffsetFacts
  <2>2. timer' \in 0 .. DayLen + Ahead(0)
    BY <1>1, <1>2, <2>1
  <2>3. \E off \in Offsets : timer' \in 0 .. DayLen + Ahead(off)
    BY <2>1, <2>2
  <2>4. runs' \in 0 .. MaxRuns
    BY <1>1, <1>2, UnitFacts
  <2> QED BY <1>2, <2>3, <2>4 DEF TypeOK, Ahead
<1>6. RunsEndSoon' /\ RepeatsBounded'
  <2>1. TypeOK' => (RepeatsBounded' <=> (\E off \in Offsets : RepeatTime - 2 * Second < Behind(off) + Second - 1)')
    BY BoundedBy, PTL
  <2>2. CASE left < Second /\ r <= 0
    <3>1. 0 \in Offsets /\ Behind(0) \in Nat
      BY OffsetsAssumption, OffsetFacts
    <3>2. s - 2 * Second < Behind(0) + Second - 1
      BY <1>1, <1>3, <2>2, <3>1
    <3>3. \E off \in Offsets : RepeatTime' - 2 * Second < Behind(off) + Second - 1
      BY <3>1, <3>2 DEF s
    <3> QED BY <1>2, <1>5, <2>1, <2>2, <3>3 DEF RunsEndSoon, Behind
  <2>3. CASE Repeating(timer, left, r)
    <3>1. PICK off \in Offsets : DayLen - left + timer < Behind(off) + Second
      BY <2>3 DEF Repeating
    <3>2. Behind(off) \in Nat /\ r - Second < DayLen - left + timer
      BY <2>3, OffsetFacts DEF Repeating
    <3>3. s - 2 * Second < Behind(off) + Second - 1
      BY <1>1, <1>2, <1>3, <3>1, <3>2
    <3>4. DayLen - left + timer' < Behind(off) + Second + MaxJob
      BY <1>1, <1>2, <3>1, <3>2
    <3>5. \E o \in Offsets : RepeatTime' - 2 * Second < Behind(o) + Second - 1
      BY <3>3 DEF s
    <3>6. \E o \in Offsets : DayLen - left + timer' < Behind(o) + Second + MaxJob
      BY <3>4
    <3> QED BY <1>2, <1>5, <2>1, <3>5, <3>6 DEF RunsEndSoon, Behind
  <2> QED BY <1>4, <2>2, <2>3
<1>7. RepeatsSpaced'
  <2>1. IF left <= HalfWay THEN s <= Second ELSE s - 2 * Second < DayLen - left
    BY <1>1, <1>2, <1>3, <1>4 DEF Repeating
  <2> QED BY <1>2, <2>1 DEF RepeatsSpaced, s
<1>8. Sleeps' /\ WillRun' /\ DownIsCut' /\ CountKeepsUp' /\ VacuumNotOverdue'
  BY <1>1, <1>2 DEF Sleeps, WillRun, DownIsCut, CountKeepsUp, VacuumNotOverdue
<1> QED BY <1>5, <1>6, <1>7, <1>8

\* A run that is over is counted, and the next sleep is computed.
LEMMA EndKeeps == Inv /\ End => Inv'
<1> SUFFICES ASSUME Inv, End PROVE Inv'
  OBVIOUS
<1> USE DEF Inv
<1> DEFINE r == RepeatTime
<1>1. /\ left \in Int /\ 1 <= left /\ left <= DayLen /\ r \in Int
      /\ runs \in Nat /\ days \in Nat /\ daysSinceVacuum \in Nat /\ daysSinceVacuum <= VacuumEvery - 1
      /\ Second \in Nat /\ Second > 0 /\ DayLen \in Nat /\ HalfWay \in Nat
      /\ 2 * HalfWay <= DayLen /\ Second <= HalfWay
      /\ VacuumEvery \in Nat \ {0} /\ left \in 1 .. DayLen /\ offset \in Offsets
  BY NumberFacts, UnitFacts DEF TypeOK
<1>2. /\ timer = 0 /\ pc = "running" /\ CountRun /\ pc' = "sleeping"
      /\ timer' = Second * SecondsUntilNextRun(offset)
      /\ UNCHANGED <<offset, sinceSync, left, runs, cut>>
  BY DEF End, clock
<1>3. r = RepeatTime' /\ RepeatsBounded'
  BY <1>2, SameRuns
<1>4. left < Second \/ HalfWay < left
  <2> SUFFICES ASSUME ~(left < Second) PROVE HalfWay < left
    OBVIOUS
  <2>1. PICK off \in Offsets : DayLen - left + timer < Behind(off) + Second + MaxJob
    BY <1>2 DEF RunsEndSoon
  <2>2. Behind(off) \in Nat /\ Behind(off) + Second + MaxJob <= HalfWay
    BY OffsetFacts
  <2> QED BY <1>1, <1>2, <2>1, <2>2, UnitFacts
<1>5. /\ left <= HalfWay => r <= Second
      /\ HalfWay < left => r - 2 * Second < DayLen - left
  BY <1>1 DEF RepeatsSpaced
<1> HIDE DEF r
<1>6. /\ \/ Awaiting(timer', left, r) \/ Skipping(timer', left)
         \/ Overshooting(timer', left, r) \/ Repeating(timer', left, r)
      /\ timer' \in 0 .. DayLen + Ahead(offset)
  <2>1. Second <= left /\ left <= HalfWay /\ WaitAt(offset) = left => r <= 0
    BY <1>1, <1>4
  <2> QED BY <1>1, <1>2, <1>5, <2>1, SleepBegins, WaitFacts
<1>7. /\ daysSinceVacuum' \in 0 .. VacuumEvery - 1 /\ days' \in Nat
      /\ days' <= daysSinceVacuum' /\ days' <= days
  BY <1>1, <1>2 DEF CountRun, CountKeepsUp
<1>8. TypeOK'
  BY <1>1, <1>2, <1>6, <1>7 DEF TypeOK, Ahead
<1>9. Sleeps'
  BY <1>2, <1>3, <1>6 DEF Sleeps, Awaiting, Skipping, Overshooting, Repeating, Behind
<1>10. WillRun' /\ RunsEndSoon' /\ RepeatsSpaced' /\ DownIsCut'
  BY <1>2, <1>3 DEF WillRun, RunsEndSoon, RepeatsSpaced, DownIsCut, r
<1>11. CountKeepsUp' /\ VacuumNotOverdue'
  <2>1. days' <= VacuumEvery
    BY <1>1, <1>7, UnitFacts DEF VacuumNotOverdue
  <2>2. days' <= daysSinceVacuum' + (IF runs' > 0 /\ pc' = "sleeping" THEN 0 ELSE 1)
    <3>1. days' <= daysSinceVacuum' + 0 /\ days' <= daysSinceVacuum' + 1
      <4>1. daysSinceVacuum' \in Nat
        BY <1>7, UnitFacts
      <4>2. days' \in Nat /\ days' <= daysSinceVacuum'
        BY <1>7, Zenon
      <4>3. \A a, b \in Nat : a <= b => a <= b + 0 /\ a <= b + 1
        OBVIOUS
      <4> QED BY <4>1, <4>2, <4>3, Zenon
    <3>2. CASE runs' > 0 /\ pc' = "sleeping"
      BY <3>1, <3>2
    <3>3. CASE ~(runs' > 0 /\ pc' = "sleeping")
      BY <3>1, <3>3, Zenon
    <3> QED BY <3>2, <3>3
  <2>3. cut' => days' = 0
    <3>1. cut => days = 0
      BY <1>2 DEF CountKeepsUp
    <3>2. days = 0 => days' = 0
      BY <1>1, <1>7
    <3> QED BY <1>2, <3>1, <3>2
  <2> QED BY <2>1, <2>2, <2>3 DEF CountKeepsUp, VacuumNotOverdue
<1> QED BY <1>3, <1>8, <1>9, <1>10, <1>11

LEMMA StopKeeps == Inv /\ Stop => Inv'
<1> SUFFICES ASSUME Inv, Stop PROVE Inv'
  OBVIOUS
<1> USE DEF Inv
<1> DEFINE r == RepeatTime
           s == RepeatTime'
<1>1. /\ left \in Int /\ 1 <= left /\ left <= DayLen /\ r \in Int /\ runs \in Nat
      /\ Second \in Nat /\ Second > 0 /\ DayLen \in Nat /\ HalfWay \in Nat
  BY NumberFacts, UnitFacts
<1>2. /\ ~cut /\ pc' = "down" /\ timer' = 0 /\ cut' = TRUE
      /\ UNCHANGED <<offset, sinceSync, left, daysSinceVacuum, runs, days>>
  BY DEF Stop, clock
<1>3. s = r - Second
  <2>1. r = runs * Second /\ s = (runs - 1) * Second
    BY <1>1, <1>2 DEF RepeatTime
  <2> HIDE DEF r, s
  <2> QED BY <1>1, <2>1
<1>4. TypeOK'
  <2>1. 0 \in Offsets /\ 0 \in 0 .. DayLen + Ahead(0)
    BY <1>1, OffsetsAssumption, OffsetFacts
  <2>2. \E off \in Offsets : timer' \in 0 .. DayLen + Ahead(off)
    BY <1>2, <2>1
  <2>3. cut' \in BOOLEAN /\ pc' \in {"sleeping", "running", "down"}
    BY <1>2
  <2> QED BY <1>2, <2>2, <2>3 DEF TypeOK, Ahead
<1>5. RepeatsSpaced'
  <2>1. IF left <= HalfWay THEN r <= Second ELSE r - 2 * Second < DayLen - left
    BY DEF RepeatsSpaced
  <2> HIDE DEF r, s
  <2>2. IF left <= HalfWay THEN s <= Second /\ s <= 0 ELSE s - 2 * Second < DayLen - left
    BY <1>1, <1>3, <2>1
  <2> QED BY <1>2, <2>2 DEF RepeatsSpaced, s
<1>6. RepeatsBounded'
  <2>1. TypeOK' => (RepeatsBounded' <=> (\E off \in Offsets : RepeatTime - 2 * Second < Behind(off) + Second - 1)')
    BY BoundedBy, PTL
  <2>2. PICK off \in Offsets : r - 2 * Second < Behind(off) + Second - 1
    BY BoundedBy
  <2>3. s - 2 * Second < Behind(off) + Second - 1
    <3> HIDE DEF r, s
    <3> QED BY <1>1, <1>3, <2>2, OffsetFacts
  <2>4. \E o \in Offsets : RepeatTime' - 2 * Second < Behind(o) + Second - 1
    BY <2>3
  <2> QED BY <1>4, <2>1, <2>4 DEF Behind
<1>7. /\ Sleeps' /\ WillRun' /\ RunsEndSoon' /\ DownIsCut' /\ CountKeepsUp' /\ VacuumNotOverdue'
  BY <1>2 DEF Sleeps, WillRun, RunsEndSoon, DownIsCut, CountKeepsUp, VacuumNotOverdue
<1> QED BY <1>4, <1>5, <1>6, <1>7

\* A process that starts sleeps for the next target as its clocks tell it.
LEMMA RestartKeeps == Inv /\ Restart => Inv'
<1> SUFFICES ASSUME Inv, Restart PROVE Inv'
  OBVIOUS
<1> USE DEF Inv
<1> DEFINE r == RepeatTime
<1>1. /\ left \in Int /\ 1 <= left /\ left <= DayLen /\ r \in Int
      /\ runs \in Nat /\ VacuumEvery \in Nat \ {0} /\ left \in 1 .. DayLen
      /\ Second \in Nat /\ DayLen \in Nat /\ HalfWay \in Nat
  BY NumberFacts, UnitFacts DEF TypeOK
<1>2. /\ pc = "down" /\ pc' = "sleeping" /\ daysSinceVacuum' = 0 /\ days' = 0
      /\ offset' \in Offsets /\ sinceSync' \in 0 .. RefreshInterval
      /\ timer' = Second * SecondsUntilNextRun(offset')
      /\ UNCHANGED <<left, runs, cut>>
  BY OffsetsAssumption, UnitFacts DEF Restart, Start
<1>3. r = RepeatTime' /\ RepeatsBounded'
  BY <1>2, SameRuns
<1>4. /\ left <= HalfWay => r <= 0 /\ r <= Second
      /\ HalfWay < left => r - 2 * Second < DayLen - left
  BY <1>1, <1>2, UnitFacts DEF RepeatsSpaced
<1>5. PICK o \in Offsets : o = offset'
  BY <1>2
<1> HIDE DEF r
<1>6. /\ \/ Awaiting(timer', left, r) \/ Skipping(timer', left)
         \/ Overshooting(timer', left, r) \/ Repeating(timer', left, r)
      /\ timer' \in 0 .. DayLen + Ahead(o)
  <2>1. timer' = Second * SecondsUntilNextRun(o)
    BY <1>2, <1>5
  <2> QED BY <1>1, <1>4, <2>1, SleepBegins, WaitFacts
<1>7. TypeOK'
  BY <1>1, <1>2, <1>6 DEF TypeOK, Ahead
<1>8. Sleeps'
  BY <1>2, <1>3, <1>6 DEF Sleeps, Awaiting, Skipping, Overshooting, Repeating, Behind
<1>9. cut
  BY <1>2 DEF DownIsCut
<1>10. WillRun' /\ RunsEndSoon' /\ RepeatsSpaced' /\ DownIsCut'
  <2>1. WillRun'
    BY <1>2, <1>9 DEF WillRun
  <2>2. RunsEndSoon' /\ DownIsCut'
    BY <1>2 DEF RunsEndSoon, DownIsCut
  <2>3. left' = left /\ pc' # "down"
    BY <1>2
  <2>4. RepeatsSpaced'
    BY <1>1, <1>3, <1>4, <2>3 DEF RepeatsSpaced, r
  <2> QED BY <2>1, <2>2, <2>4
<1>11. CountKeepsUp' /\ VacuumNotOverdue'
  BY <1>1, <1>2 DEF CountKeepsUp, VacuumNotOverdue
<1> QED BY <1>3, <1>7, <1>8, <1>10, <1>11

LEMMA StutterKeeps == Inv /\ UNCHANGED vars => Inv'
<1> SUFFICES ASSUME Inv, UNCHANGED vars PROVE Inv'
  OBVIOUS
<1> USE DEF Inv, vars, clock, history
<1>1. RepeatTime' = RepeatTime /\ RepeatsBounded'
  BY SameRuns
<1>2. TypeOK' /\ Sleeps' /\ RunsEndSoon' /\ WillRun' /\ RepeatsSpaced'
  BY <1>1 DEF TypeOK, Ahead, Sleeps, RunsEndSoon, WillRun, RepeatsSpaced, Awaiting, Skipping,
              Overshooting, Repeating, Behind
<1>3. DownIsCut' /\ CountKeepsUp' /\ VacuumNotOverdue'
  BY DEF DownIsCut, CountKeepsUp, VacuumNotOverdue
<1> QED BY <1>1, <1>2, <1>3

LEMMA InvStep == Inv /\ [Next]_vars => Inv'
BY ElapseKeeps, ResyncKeeps, BeginKeeps, EndKeeps, StopKeeps, RestartKeeps, StutterKeeps DEF Next

-----------------------------------------------------------------------------
(* Theorems *)

\* The inductive invariant holds in every behaviour of the model.
THEOREM Invariance == Spec => []Inv
BY InvInit, InvStep, PTL DEF Spec

\* The variables keep to their domains: no sleep is longer than a day and what
\* the NSE clock is ahead.
THEOREM TypeCorrect == Spec => []TypeOK
BY Invariance, PTL DEF Inv

\* A process that stays up runs VACUUM at least once in VacuumEvery days.
THEOREM VacuumInTime == Spec => []VacuumNotOverdue
BY Invariance, PTL DEF Inv

\* The job of a day is repeated only while the NSE clock still waits for it.
THEOREM FewRepeats == Spec => []RepeatsBounded
BY Invariance, PTL DEF Inv

\* No day goes by without the job, unless the process was down in it.
THEOREM EveryDayRuns == Spec => NoDaySkipped
<1> DEFINE Ran == left = HalfWay + 1 /\ left' = HalfWay => runs > 0 \/ cut
<1>1. ASSUME Inv, [Next]_vars PROVE [Ran]_vars
  <2>1. HalfWay + 1 # HalfWay
    BY UnitFacts
  <2>2. CASE Elapse
    BY <1>1, <2>2, ElapseKeeps
  <2>3. CASE UNCHANGED left
    BY <2>1, <2>3
  <2>4. CASE UNCHANGED vars
    BY <2>4
  <2> QED BY <1>1, <2>2, <2>3, <2>4 DEF Next, Resync, Begin, End, Stop, Restart, clock
<1>2. Spec => [][Ran]_vars
  BY Invariance, <1>1, PTL DEF Spec
<1> QED BY <1>2 DEF NoDaySkipped

\* A run begins less than a second before its target, or less than a second
\* after the NSE clock has reached it.
THEOREM RunsOnTarget == Spec => RunsNearTarget
<1> DEFINE Near == Begin => \/ left < Second
                            \/ \E off \in Offsets : DayLen - left < Behind(off) + Second
<1>1. ASSUME Inv, [Next]_vars PROVE [Near]_vars
  <2> SUFFICES ASSUME Begin, ~(left < Second)
               PROVE  \E off \in Offsets : DayLen - left < Behind(off) + Second
    OBVIOUS
  <2>1. Repeating(timer, left, RepeatTime) /\ timer = 0
    BY <1>1, BeginFacts DEF Begin
  <2>2. PICK off \in Offsets : DayLen - left + timer < Behind(off) + Second
    BY <2>1 DEF Repeating
  <2>3. DayLen - left < Behind(off) + Second
    BY <1>1, <2>1, <2>2, NumberFacts, UnitFacts DEF Inv
  <2> QED BY <2>3
<1>2. Spec => [][Near]_vars
  BY Invariance, <1>1, PTL DEF Spec
<1> QED BY <1>2 DEF RunsNearTarget

=============================================================================
