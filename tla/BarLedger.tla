------------------------------ MODULE BarLedger ------------------------------
(***************************************************************************)
(* What the aggregation tiers promise a reader of the database, without    *)
(* the jobs: a ledger of minute bars and of daily bars, each sealed up to  *)
(* a boundary that only moves forward.  A sealed bar is never rewritten.   *)
(* A minute bar leaves only when its day is sealed, and a daily bar only   *)
(* when its retention period has run out, oldest first.                    *)
(*                                                                         *)
(* A bar is given by the ticks folded into it: the ledger holds pairs of   *)
(* a tick and its time.                                                    *)
(***************************************************************************)
EXTENDS Integers

CONSTANTS Ticks, MinuteLen, DayLen, MaxTime

Pairs == Ticks \X (0 .. MaxTime)

VARIABLES minutes, minuteEnd, days, dayEnd
ledger == <<minutes, minuteEnd, days, dayEnd>>

MinuteOf(p) == p[2] - (p[2] % MinuteLen)
DayOf(p) == p[2] - (p[2] % DayLen)

Between(from, bars, to) == {p \in bars : from <= p[2] /\ p[2] < to}

Init ==
    /\ minutes = {} /\ days = {}
    /\ minuteEnd = 0 /\ dayEnd = 0

\* Whole minutes are sealed, with whatever bars they hold.
SealMinutes ==
    \E end \in {m \in minuteEnd + 1 .. MaxTime : m % MinuteLen = 0} :
        /\ minuteEnd' = end
        /\ minutes \subseteq minutes'
        /\ minutes' \ minutes \subseteq Between(minuteEnd, Pairs, end)
        /\ UNCHANGED <<days, dayEnd>>

\* Whole days are sealed from minutes sealed before: a daily bar accounts for
\* all the minute bars of its day, unless it has already expired.
SealDays ==
    \E end \in {d \in dayEnd + 1 .. minuteEnd : d % DayLen = 0}, oldest \in 0 .. MaxTime :
        /\ dayEnd' = end
        /\ days' = days \cup {p \in Between(dayEnd, minutes, end) : DayOf(p) >= oldest}
        /\ UNCHANGED <<minutes, minuteEnd>>

\* Minute bars of sealed days may go, oldest first.
DropMinutes ==
    \E oldest \in 0 .. dayEnd :
        /\ minutes' = {p \in minutes : MinuteOf(p) >= oldest}
        /\ UNCHANGED <<minuteEnd, days, dayEnd>>

\* Daily bars may go, oldest first.
DropDays ==
    \E oldest \in 0 .. MaxTime :
        /\ days' = {p \in days : DayOf(p) >= oldest}
        /\ UNCHANGED <<minutes, minuteEnd, dayEnd>>

Next == SealMinutes \/ SealDays \/ DropMinutes \/ DropDays

Spec == Init /\ [][Next]_ledger

=============================================================================
