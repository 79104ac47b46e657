----------------------------- MODULE SessionMode -----------------------------
(***************************************************************************)
(* Active and Idle mode: one SessionState shared by the supervisor, which  *)
(* re-evaluates it every 30 seconds, and by the streamers (one for the     *)
(* indices, one per option symbol), which hold a connection open in Active *)
(* mode and poll in Idle mode.  Both streamers are the same loop.          *)
(*                                                                         *)
(* Time is the time of day in coarse units (half an hour, say), so the     *)
(* clock needs no bound: what the code computes from timestamps, how long  *)
(* it has been quiet and how long a streamer still sleeps, is kept as a    *)
(* number of units.  Everything the code does within seconds (a tick of    *)
(* the supervisor, the end of a listening window, a re-check of the mode)  *)
(* happens before the next unit begins.                                    *)
(***************************************************************************)
EXTENDS Integers

CONSTANTS
    Streamers,       \* the streamer tasks
    DayLen,          \* units in a day
    Opens, Closes,   \* the buffered trading window [Opens, Closes)
    InactiveSwitch,  \* inactive_switch_after_secs, in units
    IdlePoll,        \* idle_poll_interval_secs, in units
    TicksPerUnit     \* bound: runs of the supervisor in a unit

ASSUME WindowAssumption ==
    /\ DayLen \in Nat /\ Opens \in Nat /\ Closes \in Nat
    /\ Opens < Closes /\ Closes <= DayLen
ASSUME IntervalAssumption == InactiveSwitch \in Nat /\ IdlePoll \in Nat \ {0}
ASSUME TicksAssumption == TicksPerUnit \in Nat \ {0}

VARIABLES
    time,       \* NSE time of day
    weekday,    \* whether the day is one of Monday to Friday
    mode,       \* SessionInner::mode
    quietFor,   \* units since SessionInner::last_activity_at, saturating
    ticks,      \* runs of the supervisor in this unit
    stream,     \* where each streamer is
    moved,      \* the streamers that have taken a step in this unit
    sleepLeft,  \* units until a sleeping streamer wakes
    modeFor,    \* history: units since the mode last changed, saturating
    openBefore  \* history: the previous supervisor tick was inside the window

clock == <<time, weekday>>
session == <<mode, quietFor>>
history == <<modeFor, openBefore>>
vars == <<clock, session, ticks, stream, moved, sleepLeft, history>>

-----------------------------------------------------------------------------
\* is_within_trading_window.
InWindow == weekday /\ Opens <= time /\ time < Closes

\* Long enough for every comparison the code makes.
Saturate(n, limit) == IF n > limit THEN limit ELSE n
QuietMax == InactiveSwitch + 1
ModeMax == IdlePoll + 2

Init ==
    /\ time \in 0 .. DayLen - 1 /\ weekday \in BOOLEAN
    /\ mode = "Idle" /\ quietFor = 0
    /\ ticks = 0
    /\ stream = [s \in Streamers |-> "decide"]
    /\ moved = {}
    /\ sleepLeft = [s \in Streamers |-> 0]
    /\ modeFor = 0 /\ openBefore = FALSE

\* A streamer moves, and the mode with it when it has seen a tick.
Moves(s, from, to) ==
    /\ stream[s] = from
    /\ stream' = [stream EXCEPT ![s] = to]
    /\ moved' = moved \cup {s}

SetMode(m) ==
    /\ mode' = m
    /\ modeFor' = IF m = mode THEN modeFor ELSE 0

-----------------------------------------------------------------------------
(* The supervisor *)

\* SessionState::tick, outside the trading window.
TickOutside ==
    /\ ~InWindow
    /\ SetMode("Idle")
    /\ UNCHANGED quietFor

\* SessionState::tick, inside it: quiet for too long.
TickQuiet ==
    /\ InWindow
    /\ mode = "Active" /\ quietFor > InactiveSwitch
    /\ SetMode("Idle")
    /\ UNCHANGED quietFor

\* SessionState::tick, inside it: "entering the trading window fresh".
TickEnter ==
    /\ InWindow
    /\ mode = "Idle"
    /\ SetMode("Active")
    /\ quietFor' = 0

\* Mutation: a quiet session inside the window is left Active.
TickBusyOrQuiet ==
    /\ InWindow
    /\ mode = "Active"
    /\ UNCHANGED <<session, modeFor>>

\* SessionState::tick, inside it and busy: nothing changes.
TickBusy ==
    /\ InWindow
    /\ mode = "Active" /\ quietFor <= InactiveSwitch
    /\ UNCHANGED <<session, modeFor>>

SupervisorTick ==
    /\ TickOutside \/ TickQuiet \/ TickEnter \/ TickBusy
    /\ ticks < TicksPerUnit
    /\ ticks' = ticks + 1
    /\ openBefore' = InWindow
    /\ UNCHANGED <<clock, stream, moved, sleepLeft>>

-----------------------------------------------------------------------------
(* The streamers *)

\* run: the top of the loop reads the mode once.
Decide(s) ==
    /\ Moves(s, "decide", IF mode = "Active" THEN "connecting" ELSE "listening")
    /\ UNCHANGED <<clock, session, ticks, sleepLeft, history>>

\* stream_active: connect_async succeeds or fails.
Connect(s) ==
    /\ Moves(s, "connecting", "open") \/ Moves(s, "connecting", "pause")
    /\ UNCHANGED <<clock, session, ticks, sleepLeft, history>>

\* Mutation: the mode is not re-checked.
CheckModeNever(s) ==
    /\ Moves(s, "open", "reading")
    /\ UNCHANGED <<clock, session, ticks, sleepLeft, history>>

\* stream_active: the mode is re-checked between messages.
CheckMode(s) ==
    /\ Moves(s, "open", IF mode = "Idle" THEN "pause" ELSE "reading")
    /\ UNCHANGED <<clock, session, ticks, sleepLeft, history>>

\* stream_active: no message in 30 seconds or a heartbeat, or the connection ends.
ReadNothing(s) ==
    /\ Moves(s, "reading", "open") \/ Moves(s, "reading", "pause")
    /\ UNCHANGED <<clock, session, ticks, sleepLeft, history>>

\* handle_message and record_activity, whichever mode it is by now.
ReadTick(s) ==
    /\ Moves(s, "reading", "open")
    /\ SetMode("Active")
    /\ quietFor' = 0
    /\ UNCHANGED <<clock, ticks, sleepLeft, openBefore>>

\* The reconnect delay has passed.
Resume(s) ==
    /\ Moves(s, "pause", "decide")
    /\ UNCHANGED <<clock, session, ticks, sleepLeft, history>>

\* poll_once: a real tick arrives in the listening window ...
PollTick(s) ==
    /\ Moves(s, "listening", "heard")
    /\ SetMode("Active")
    /\ quietFor' = 0
    /\ UNCHANGED <<clock, ticks, sleepLeft, openBefore>>

FallAsleep(s, from) ==
    /\ Moves(s, from, "asleep")
    /\ sleepLeft' = [sleepLeft EXCEPT ![s] = IdlePoll]
    /\ UNCHANGED <<clock, session, ticks, history>>

\* ... and ends the poll if the mode is still Active; run sleeps either way.
PollHandBack(s) ==
    /\ mode = "Active"
    /\ FallAsleep(s, "heard")

PollListenOn(s) ==
    /\ mode = "Idle"
    /\ Moves(s, "heard", "listening")
    /\ UNCHANGED <<clock, session, ticks, sleepLeft, history>>

\* poll_once ends: the window elapsed, the server closed, or an error.
PollEnd(s) == FallAsleep(s, "listening")

\* Mutation: a sleeping streamer sleeps once more.
WakeLate(s) ==
    /\ sleepLeft[s] = 0
    /\ stream[s] = "asleep"
    /\ sleepLeft' = [sleepLeft EXCEPT ![s] = IdlePoll]
    /\ UNCHANGED <<clock, session, ticks, stream, moved, history>>

\* Mutation: the sleep can end early.
WakeEarly(s) ==
    /\ Moves(s, "asleep", "decide")
    /\ UNCHANGED <<clock, session, ticks, sleepLeft, history>>

Wake(s) ==
    /\ sleepLeft[s] = 0
    /\ Moves(s, "asleep", "decide")
    /\ UNCHANGED <<clock, session, ticks, sleepLeft, history>>

StreamerStep(s) ==
    \/ Decide(s) \/ Connect(s) \/ CheckMode(s) \/ ReadNothing(s) \/ ReadTick(s) \/ Resume(s)
    \/ PollTick(s) \/ PollHandBack(s) \/ PollListenOn(s) \/ PollEnd(s) \/ Wake(s)

-----------------------------------------------------------------------------
\* What takes seconds does not outlast the unit: the supervisor has run, polls
\* are over, sleepers that are due have woken, and every other streamer that
\* does not rest on an open connection has moved on.
Settled ==
    /\ ticks > 0
    /\ \A s \in Streamers :
         /\ stream[s] \notin {"listening", "heard"}
         /\ stream[s] = "asleep" => sleepLeft[s] > 0
         /\ s \in moved \/ stream[s] = "asleep" \/ (stream[s] = "reading" /\ mode = "Active")

AdvanceClock ==
    /\ Settled
    /\ time' = (time + 1) % DayLen
    /\ IF time' = 0 THEN weekday' \in BOOLEAN ELSE UNCHANGED weekday
    /\ quietFor' = Saturate(quietFor + 1, QuietMax)
    /\ modeFor' = Saturate(modeFor + 1, ModeMax)
    /\ sleepLeft' = [s \in Streamers |-> IF sleepLeft[s] > 0 THEN sleepLeft[s] - 1 ELSE 0]
    /\ ticks' = 0
    /\ moved' = {}
    /\ UNCHANGED <<mode, stream, openBefore>>

Next ==
    \/ AdvanceClock
    \/ SupervisorTick
    \/ \E s \in Streamers : StreamerStep(s)

Spec == Init /\ [][Next]_vars

\* Time passes and every task is polled; a listening window has a deadline,
\* however many messages come in before it.  Whether the feed can be reached
\* is left open.
FairSpec ==
    /\ Spec
    /\ WF_vars(AdvanceClock)
    /\ WF_vars(SupervisorTick)
    /\ \A s \in Streamers :
         /\ WF_vars(StreamerStep(s))
         /\ SF_vars(PollEnd(s))

-----------------------------------------------------------------------------
(* Properties *)

\* Every variable stays in its domain, and only a sleeping streamer has sleep
\* left.
TypeOK ==
    /\ time \in 0 .. DayLen - 1 /\ weekday \in BOOLEAN
    /\ mode \in {"Active", "Idle"}
    /\ quietFor \in 0 .. QuietMax
    /\ ticks \in 0 .. TicksPerUnit /\ openBefore \in BOOLEAN
    /\ stream \in [Streamers -> {"decide", "connecting", "open", "reading", "pause",
                                 "listening", "heard", "asleep"}]
    /\ moved \subseteq Streamers
    /\ sleepLeft \in [Streamers -> 0 .. IdlePoll]
    /\ \A s \in Streamers : sleepLeft[s] > 0 => stream[s] = "asleep"
    /\ modeFor \in 0 .. ModeMax

\* Active mode has a reason (market_clock.rs:4-11): once the supervisor has
\* looked, the session is Active only inside the window and not quiet for too
\* long, or because a tick came in meanwhile.
ActiveIsJustified ==
    mode = "Active" /\ ticks > 0 =>
        quietFor = 0 \/ (InWindow /\ quietFor <= InactiveSwitch)

\* A streamer that slept into Active mode is back after one poll interval.
\* (The mode is read once per loop, so a switch to Active is noticed no sooner.)
AsleepAtMostOnePoll ==
    mode = "Active" /\ modeFor > IdlePoll => \A s \in Streamers : stream[s] # "asleep"

\* A streamer never holds a connection into a spell of Idle mode for longer
\* than its 30-second re-checks take (at most two units here), although it
\* reads the mode, waits for a message and only then acts.
IdleHoldsNoConnection ==
    mode = "Idle" /\ modeFor > 2 => \A s \in Streamers : stream[s] \notin {"open", "reading"}

\* No streamer is ever stuck in a sleep or between two connections: it tries
\* to reach the feed, or listens to it, again and again, in either mode.
KeepsReachingFeed ==
    \A s \in Streamers : []<>(stream[s] \in {"connecting", "listening", "open"})

\* market_clock.rs:10-11: a session quiet for too long inside the window is
\* Idle; it turns Active again on a tick, or when the window is entered fresh.
QuietStaysIdle == [][~(SupervisorTick /\ TickEnter /\ openBefore)]_vars

=============================================================================
