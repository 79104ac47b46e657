------------------------------ MODULE RowQueue ------------------------------
(***************************************************************************)
(* What the channel and its writer promise the streamers and the jobs,     *)
(* without the buffer, the timers and the shutdown: one queue of accepted  *)
(* rows, settled from the front a batch at a time.  A batch is stored      *)
(* whole or lost whole, nothing is settled twice or out of turn, and the   *)
(* queue closes only when it is empty.                                     *)
(*                                                                         *)
(* A row is <<s, n>>: the n-th row accepted from streamer s.               *)
(***************************************************************************)
EXTENDS Integers, Sequences

CONSTANTS Streamers, BatchMax

VARIABLES
    accepted,  \* how many rows have been accepted from each streamer
    queue,     \* the rows accepted and not settled, the oldest first
    stored,    \* the rows a reader of the table finds
    lost,      \* the rows of failed inserts
    closed     \* nothing more will be accepted

settled == <<stored, lost>>
queueVars == <<accepted, queue, settled, closed>>

Init ==
    /\ accepted = [s \in Streamers |-> 0]
    /\ queue = <<>>
    /\ stored = {} /\ lost = {}
    /\ closed = FALSE

Accept(s) ==
    /\ ~closed
    /\ accepted' = [accepted EXCEPT ![s] = @ + 1]
    /\ queue' = Append(queue, <<s, accepted[s] + 1>>)
    /\ UNCHANGED <<settled, closed>>

\* The n oldest rows leave together.
Settle(n) ==
    /\ n <= Len(queue)
    /\ LET batch == {queue[i] : i \in 1 .. n}
       IN  \/ stored' = stored \cup batch /\ lost' = lost
           \/ lost' = lost \cup batch /\ stored' = stored
    /\ queue' = SubSeq(queue, n + 1, Len(queue))
    /\ UNCHANGED <<accepted, closed>>

Close ==
    /\ queue = <<>>
    /\ closed' = TRUE
    /\ UNCHANGED <<accepted, queue, settled>>

Next ==
    \/ \E s \in Streamers : Accept(s)
    \/ \E n \in 1 .. BatchMax : Settle(n)
    \/ Close

Spec == Init /\ [][Next]_queueVars

=============================================================================
