-------------------------- MODULE SessionModeProofs --------------------------
(***************************************************************************)
(* Proofs about SessionMode for every number of streamers, every trading   *)
(* window and every setting of the intervals.                              *)
(***************************************************************************)
EXTENDS SessionMode, TLAPS

\* A streamer that still listens in Active mode has seen the mode change in
\* this unit: it went to listen because it read Idle.
ListensIntoActiveBriefly ==
    \A s \in Streamers : mode = "Active" /\ stream[s] \in {"listening", "heard"} => modeFor = 0

\* How long the session has been Active and how long a streamer sleeps on add
\* up to one poll interval at most.
SleepsOffOnePoll ==
    \A s \in Streamers : mode = "Active" /\ stream[s] = "asleep" => modeFor + sleepLeft[s] <= IdlePoll

\* A streamer that is connecting or waits for a message when the session turns
\* Idle has done so for a unit at most, and then re-checks the mode in the
\* next one.
IdleIsNoticed ==
    \A s \in Streamers : mode = "Idle" =>
        /\ stream[s] \in {"connecting", "reading"} => modeFor <= 1 /\ (modeFor = 1 => s \notin moved)
        /\ stream[s] = "open" => modeFor <= 2 /\ (modeFor = 2 => s \notin moved)

Inv ==
    /\ TypeOK
    /\ ActiveIsJustified
    /\ ListensIntoActiveBriefly
    /\ SleepsOffOnePoll
    /\ IdleIsNoticed

-----------------------------------------------------------------------------
(* Steps *)

\* What the constants say of each other.
LEMMA Bounds ==
    /\ DayLen \in Nat \ {0} /\ IdlePoll \in Nat \ {0} /\ InactiveSwitch \in Nat
    /\ TicksPerUnit \in Nat \ {0}
    /\ QuietMax = InactiveSwitch + 1 /\ ModeMax = IdlePoll + 2
BY WindowAssumption, IntervalAssumption, TicksAssumption DEF QuietMax, ModeMax

LEMMA InvInit == Init => Inv
<1> SUFFICES ASSUME Init PROVE Inv
  OBVIOUS
<1> USE DEF Init
<1>1. TypeOK
  <2>1. /\ quietFor \in 0 .. QuietMax /\ ticks \in 0 .. TicksPerUnit /\ modeFor \in 0 .. ModeMax
        /\ \A s \in Streamers : sleepLeft[s] = 0
        /\ sleepLeft \in [Streamers -> 0 .. IdlePoll]
    BY Bounds
  <2>2. mode \in {"Active", "Idle"} /\ moved \subseteq Streamers /\ openBefore \in BOOLEAN
    OBVIOUS
  <2>3. stream \in [Streamers -> {"decide", "connecting", "open", "reading", "pause",
                                  "listening", "heard", "asleep"}]
    OBVIOUS
  <2> HIDE DEF Init
  <2>4. time \in 0 .. DayLen - 1 /\ weekday \in BOOLEAN
    BY DEF Init
  <2> QED BY <2>1, <2>2, <2>3, <2>4 DEF TypeOK
<1>2. \A s \in Streamers : stream[s] = "decide"
  OBVIOUS
<1>3. ActiveIsJustified /\ ListensIntoActiveBriefly /\ SleepsOffOnePoll /\ IdleIsNoticed
  BY <1>2 DEF ActiveIsJustified, ListensIntoActiveBriefly, SleepsOffOnePoll, IdleIsNoticed
<1> QED BY <1>1, <1>3 DEF Inv

\* The supervisor leaves the streamers alone: it changes the mode for a reason
\* and starts a new spell of it.
LEMMA SupervisorKeeps == Inv /\ SupervisorTick => Inv'
<1> SUFFICES ASSUME Inv, SupervisorTick PROVE Inv'
  OBVIOUS
<1> USE DEF Inv, SupervisorTick, clock, session, history
<1>1. \/ mode' = mode /\ modeFor' = modeFor
      \/ mode' # mode /\ modeFor' = 0
  BY DEF TickOutside, TickQuiet, TickEnter, TickBusy, SetMode
<1>2. mode' \in {"Active", "Idle"} /\ quietFor' \in 0 .. QuietMax /\ modeFor' \in 0 .. ModeMax
  BY Bounds DEF TickOutside, TickQuiet, TickEnter, TickBusy, SetMode, TypeOK
<1>3. TypeOK'
  BY <1>2, Bounds DEF TypeOK, InWindow
<1>4. ActiveIsJustified'
  BY <1>3, Bounds DEF TickOutside, TickQuiet, TickEnter, TickBusy, SetMode, TypeOK,
                      ActiveIsJustified, InWindow
<1>5. ListensIntoActiveBriefly' /\ SleepsOffOnePoll' /\ IdleIsNoticed'
  BY <1>1, <1>3, Bounds DEF TypeOK, ListensIntoActiveBriefly, SleepsOffOnePoll, IdleIsNoticed
<1> QED BY <1>3, <1>4, <1>5

\* A unit ends when no streamer listens, every sleeper has sleep left, and
\* whoever holds a connection into Idle mode has moved.
LEMMA ClockKeeps == Inv /\ AdvanceClock => Inv'
<1> SUFFICES ASSUME Inv, AdvanceClock PROVE Inv'
  OBVIOUS
<1> USE DEF Inv, AdvanceClock
<1>1. time' \in 0 .. DayLen - 1
  BY Bounds DEF TypeOK
<1>2. /\ modeFor' \in 0 .. ModeMax /\ modeFor' <= modeFor + 1
      /\ quietFor' \in 0 .. QuietMax /\ modeFor \in Nat
  BY Bounds DEF TypeOK, Saturate
<1>3. \A s \in Streamers :
        /\ sleepLeft'[s] \in 0 .. IdlePoll
        /\ sleepLeft'[s] = IF sleepLeft[s] > 0 THEN sleepLeft[s] - 1 ELSE 0
  BY Bounds DEF TypeOK
<1>4. TypeOK'
  BY <1>1, <1>2, <1>3, Bounds DEF TypeOK
<1>5. ActiveIsJustified' /\ ListensIntoActiveBriefly'
  BY DEF ActiveIsJustified, ListensIntoActiveBriefly, Settled
<1>6. SleepsOffOnePoll'
  BY <1>2, <1>3, Bounds DEF TypeOK, SleepsOffOnePoll, Settled
<1>7. IdleIsNoticed'
  BY <1>2, Bounds DEF TypeOK, IdleIsNoticed, Settled
<1> QED BY <1>4, <1>5, <1>6, <1>7

\* A step of a streamer.
LEMMA StreamerKeeps == \A s \in Streamers : Inv /\ StreamerStep(s) => Inv'
<1> SUFFICES ASSUME NEW s \in Streamers, Inv, StreamerStep(s) PROVE Inv'
  OBVIOUS
<1> USE DEF Inv, clock, session, history
<1>1. CASE Decide(s)
  BY <1>1, Bounds DEF Decide, Moves, TypeOK, ActiveIsJustified, InWindow,
                      ListensIntoActiveBriefly, SleepsOffOnePoll, IdleIsNoticed
<1>2. CASE Connect(s)
  BY <1>2, Bounds DEF Connect, Moves, TypeOK, ActiveIsJustified, InWindow,
                      ListensIntoActiveBriefly, SleepsOffOnePoll, IdleIsNoticed
<1>3. CASE CheckMode(s)
  BY <1>3, Bounds DEF CheckMode, Moves, TypeOK, ActiveIsJustified, InWindow,
                      ListensIntoActiveBriefly, SleepsOffOnePoll, IdleIsNoticed
<1>4. CASE ReadNothing(s)
  BY <1>4, Bounds DEF ReadNothing, Moves, TypeOK, ActiveIsJustified, InWindow,
                      ListensIntoActiveBriefly, SleepsOffOnePoll, IdleIsNoticed
<1>5. CASE ReadTick(s)
  BY <1>5, Bounds DEF ReadTick, Moves, SetMode, TypeOK, ActiveIsJustified, InWindow,
                      ListensIntoActiveBriefly, SleepsOffOnePoll, IdleIsNoticed
<1>6. CASE Resume(s)
  BY <1>6, Bounds DEF Resume, Moves, TypeOK, ActiveIsJustified, InWindow,
                      ListensIntoActiveBriefly, SleepsOffOnePoll, IdleIsNoticed
<1>7. CASE PollTick(s)
  BY <1>7, Bounds DEF PollTick, Moves, SetMode, TypeOK, ActiveIsJustified, InWindow,
                      ListensIntoActiveBriefly, SleepsOffOnePoll, IdleIsNoticed
<1>8. ASSUME NEW from \in {"listening", "heard"}, FallAsleep(s, from) PROVE Inv'
  BY <1>8, Bounds DEF FallAsleep, Moves, TypeOK, ActiveIsJustified, InWindow,
                      ListensIntoActiveBriefly, SleepsOffOnePoll, IdleIsNoticed
<1>9. CASE PollHandBack(s)
  BY <1>8, <1>9 DEF PollHandBack
<1>10. CASE PollListenOn(s)
  BY <1>10, Bounds DEF PollListenOn, Moves, TypeOK, ActiveIsJustified, InWindow,
                       ListensIntoActiveBriefly, SleepsOffOnePoll, IdleIsNoticed
<1>11. CASE PollEnd(s)
  BY <1>8, <1>11 DEF PollEnd
<1>12. CASE Wake(s)
  BY <1>12, Bounds DEF Wake, Moves, TypeOK, ActiveIsJustified, InWindow,
                       ListensIntoActiveBriefly, SleepsOffOnePoll, IdleIsNoticed
<1> QED BY <1>1, <1>2, <1>3, <1>4, <1>5, <1>6, <1>7, <1>9, <1>10, <1>11, <1>12 DEF StreamerStep

LEMMA InvStep == Inv /\ [Next]_vars => Inv'
<1>1. Inv /\ UNCHANGED vars => Inv'
  BY DEF Inv, vars, clock, session, history, TypeOK, ActiveIsJustified, InWindow,
         ListensIntoActiveBriefly, SleepsOffOnePoll, IdleIsNoticed
<1> QED BY <1>1, SupervisorKeeps, ClockKeeps, StreamerKeeps DEF Next

-----------------------------------------------------------------------------
(* Theorems *)

\* The inductive invariant holds in every behaviour of the model.
THEOREM Invariance == Spec => []Inv
BY InvInit, InvStep, PTL DEF Spec

\* The variables keep to their domains, and only a sleeping streamer has sleep
\* left.
THEOREM TypeCorrect == Spec => []TypeOK
BY Invariance, PTL DEF Inv

\* Once the supervisor has looked, the session is Active only inside the
\* window and not quiet for too long, or because a tick came in meanwhile.
THEOREM ActiveHasAReason == Spec => []ActiveIsJustified
BY Invariance, PTL DEF Inv

\* A streamer that slept into Active mode is back after one poll interval.
THEOREM WakesInOnePoll == Spec => []AsleepAtMostOnePoll
<1>1. Inv => AsleepAtMostOnePoll
  <2> SUFFICES ASSUME Inv, mode = "Active", modeFor > IdlePoll, NEW s \in Streamers,
                      stream[s] = "asleep"
               PROVE  FALSE
    BY DEF AsleepAtMostOnePoll
  <2>1. modeFor \in Nat /\ sleepLeft[s] \in Nat /\ IdlePoll \in Nat
    BY Bounds DEF Inv, TypeOK
  <2>2. modeFor + sleepLeft[s] <= IdlePoll
    BY DEF Inv, SleepsOffOnePoll
  <2> QED BY <2>1, <2>2
<1> QED BY <1>1, Invariance, PTL

\* No streamer holds a connection into a spell of Idle mode for longer than
\* its re-checks of the mode take, although it reads the mode, waits for a
\* message and only then acts.
THEOREM IdleDisconnects == Spec => []IdleHoldsNoConnection
<1>1. Inv => IdleHoldsNoConnection
  <2> SUFFICES ASSUME Inv, mode = "Idle", modeFor > 2, NEW s \in Streamers,
                      stream[s] \in {"open", "reading"}
               PROVE  FALSE
    BY DEF IdleHoldsNoConnection
  <2>1. modeFor \in Nat
    BY Bounds DEF Inv, TypeOK
  <2>2. modeFor <= 2
    BY <2>1 DEF Inv, IdleIsNoticed
  <2> QED BY <2>1, <2>2
<1> QED BY <1>1, Invariance, PTL

=============================================================================
