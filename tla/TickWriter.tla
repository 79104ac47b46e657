------------------------------ MODULE TickWriter ------------------------------
(***************************************************************************)
(* The batched writer between the streamers and the database, and the      *)
(* shutdown that drains it: start_index_tick_writer, and with other types  *)
(* the identical start_option_tick_writer.  The streamers send rows over a *)
(* bounded channel; one task collects them into a batch and inserts the    *)
(* batch with one statement; main, on Ctrl-C, drops its own sender, aborts *)
(* the streamers and waits for the writer.                                 *)
(*                                                                         *)
(* A row is <<s, n>>: the n-th row that streamer s sends.  Time passes in  *)
(* units while the writer is filling a batch, the only place where a timer *)
(* decides what it does.                                                   *)
(***************************************************************************)
EXTENDS Integers, FiniteSets, Sequences, SequencesExt

CONSTANTS
    Streamers,   \* tasks that hold a clone of the sender
    ChannelCap,  \* capacity of the mpsc channel (20_000)
    BatchMax,    \* batch_max_rows
    FillGap,     \* the 10 ms a filling writer waits for one more row, in units
    MaxRows,     \* bound: rows per streamer
    MaxFailures  \* bound: inserts that fail

ASSUME ChannelAssumption == ChannelCap \in Nat \ {0} /\ BatchMax \in Nat \ {0}
ASSUME TimerAssumption == FillGap \in Nat \ {0}
ASSUME RowsAssumption == MaxRows \in Nat /\ MaxFailures \in Nat

VARIABLES
    streamer,  \* each streamer: "idle", "sending" a row, or "gone"
    sent,      \* rows each streamer has put into the channel
    chan,      \* the channel
    pc,        \* where the writer is
    buf,       \* its buffer
    age,       \* units since the oldest buffered row was received
    gap,       \* units since the newest buffered row was received
    flushed,   \* history: the batches, each with whether it was stored
    stats,     \* DbStat: rows_written, rows_pending, last_error
    main       \* main(): "serving", "awaiting" the writer, "exited"

streaming == <<streamer, sent>>
timers == <<age, gap>>
vars == <<streaming, chan, pc, buf, timers, flushed, stats, main>>

-----------------------------------------------------------------------------
Init ==
    /\ streamer = [s \in Streamers |-> "idle"]
    /\ sent = [s \in Streamers |-> 0]
    /\ chan = <<>>
    /\ pc = "recv" /\ buf = <<>>
    /\ age = 0 /\ gap = 0
    /\ flushed = <<>>
    /\ stats = [written |-> 0, pending |-> 0, error |-> FALSE]
    /\ main = "serving"

\* Mutation: main still holds its sender while it waits for the writer.
ClosedNever == FALSE

\* recv() returns None: every sender is dropped and nothing is queued.
Closed == main # "serving" /\ \A s \in Streamers : streamer[s] = "gone"

Drained == chan = <<>> /\ Closed

-----------------------------------------------------------------------------
(* Streamers *)

\* handle_message has parsed a tick and calls tx.send(row).await.
BeginSend(s) ==
    /\ streamer[s] = "idle"
    /\ sent[s] < MaxRows
    /\ streamer' = [streamer EXCEPT ![s] = "sending"]
    /\ UNCHANGED <<sent, chan, pc, buf, timers, flushed, stats, main>>

\* The send completes when the channel has room.
EndSend(s) ==
    /\ streamer[s] = "sending"
    /\ Len(chan) < ChannelCap
    /\ chan' = Append(chan, <<s, sent[s] + 1>>)
    /\ sent' = [sent EXCEPT ![s] = @ + 1]
    /\ streamer' = [streamer EXCEPT ![s] = "idle"]
    /\ UNCHANGED <<pc, buf, timers, flushed, stats, main>>

-----------------------------------------------------------------------------
(* The writer task *)

\* The first row of a batch.  While the writer waits here its buffer is empty
\* (EmptyWhileWaiting), so the flush that a batch_max_wait sleep or the end of
\* the channel would run in this place has nothing to do.
RecvFirst ==
    /\ pc = "recv"
    /\ chan # <<>>
    /\ buf' = Append(buf, Head(chan))
    /\ chan' = Tail(chan)
    /\ age' = 0 /\ gap' = 0
    /\ pc' = "fill"
    /\ UNCHANGED <<streaming, flushed, stats, main>>

RecvClosed ==
    /\ pc = "recv"
    /\ Drained
    /\ pc' = "done"
    /\ UNCHANGED <<streaming, chan, buf, timers, flushed, stats, main>>

\* Mutation: the row that finds the batch full is received and not kept.
FillRecvPastFull ==
    /\ pc = "fill"
    /\ Len(buf) <= BatchMax
    /\ chan # <<>>
    /\ buf' = IF Len(buf) < BatchMax THEN Append(buf, Head(chan)) ELSE buf
    /\ chan' = Tail(chan)
    /\ gap' = 0
    /\ UNCHANGED <<streaming, pc, age, flushed, stats, main>>

FillRecv ==
    /\ pc = "fill"
    /\ Len(buf) < BatchMax
    /\ chan # <<>>
    /\ buf' = Append(buf, Head(chan))
    /\ chan' = Tail(chan)
    /\ gap' = 0
    /\ UNCHANGED <<streaming, pc, age, flushed, stats, main>>

\* Mutation: a full batch waits for one more row.
ElapseWhenFull ==
    /\ pc = "fill"
    /\ Len(buf) <= BatchMax
    /\ chan = <<>> /\ ~Closed
    /\ gap < FillGap
    /\ gap' = gap + 1
    /\ age' = age + 1
    /\ UNCHANGED <<streaming, chan, pc, buf, flushed, stats, main>>

\* Time passes while the filling writer waits for one more row.
Elapse ==
    /\ pc = "fill"
    /\ Len(buf) < BatchMax
    /\ chan = <<>> /\ ~Closed
    /\ gap < FillGap
    /\ gap' = gap + 1
    /\ age' = age + 1
    /\ UNCHANGED <<streaming, chan, pc, buf, flushed, stats, main>>

\* Mutation: only a gap ends a batch, which cannot grow when it is full.
FillEndAtGap ==
    /\ pc = "fill"
    /\ \/ chan = <<>> /\ gap = FillGap
       \/ Drained
    /\ stats' = [stats EXCEPT !.pending = Len(buf)]
    /\ pc' = "insert"
    /\ UNCHANGED <<streaming, chan, buf, timers, flushed, main>>

\* The batch is full, or no row came within the gap, or none ever will.
FillEnd ==
    /\ pc = "fill"
    /\ \/ Len(buf) >= BatchMax
       \/ chan = <<>> /\ gap = FillGap
       \/ Drained
    /\ stats' = [stats EXCEPT !.pending = Len(buf)]
    /\ pc' = "insert"
    /\ UNCHANGED <<streaming, chan, buf, timers, flushed, main>>

\* insert_index_batch stores the whole batch ...
InsertOk ==
    /\ pc = "insert"
    /\ flushed' = Append(flushed, [rows |-> buf, stored |-> TRUE])
    /\ pc' = "recordOk"
    /\ UNCHANGED <<streaming, chan, buf, timers, stats, main>>

\* ... or none of it.
InsertFails ==
    /\ pc = "insert"
    /\ Cardinality({i \in DOMAIN flushed : ~flushed[i].stored}) < MaxFailures
    /\ flushed' = Append(flushed, [rows |-> buf, stored |-> FALSE])
    /\ pc' = "recordError"
    /\ UNCHANGED <<streaming, chan, buf, timers, stats, main>>

\* Mutation: rows_pending is left to the next flush.
RecordOkKeepPending ==
    /\ pc = "recordOk"
    /\ stats' = [stats EXCEPT !.written = @ + Len(buf), !.error = FALSE]
    /\ buf' = <<>>
    /\ pc' = "recv"
    /\ UNCHANGED <<streaming, chan, timers, flushed, main>>

RecordOk ==
    /\ pc = "recordOk"
    /\ stats' = [written |-> stats.written + Len(buf), pending |-> 0, error |-> FALSE]
    /\ buf' = <<>>
    /\ pc' = "recv"
    /\ UNCHANGED <<streaming, chan, timers, flushed, main>>

\* Mutation: the buffer is cleared only by a flush that succeeds.
RecordErrorKeepBuffer ==
    /\ pc = "recordError"
    /\ stats' = [stats EXCEPT !.error = TRUE]
    /\ pc' = "recv"
    /\ UNCHANGED <<streaming, chan, buf, timers, flushed, main>>

\* Mutation: the failed rows are counted as written.
RecordErrorCounted ==
    /\ pc = "recordError"
    /\ stats' = [stats EXCEPT !.error = TRUE, !.written = @ + Len(buf)]
    /\ buf' = <<>>
    /\ pc' = "recv"
    /\ UNCHANGED <<streaming, chan, timers, flushed, main>>

\* The buffer is cleared after a failure too; rows_pending keeps its value.
RecordError ==
    /\ pc = "recordError"
    /\ stats' = [stats EXCEPT !.error = TRUE]
    /\ buf' = <<>>
    /\ pc' = "recv"
    /\ UNCHANGED <<streaming, chan, timers, flushed, main>>

-----------------------------------------------------------------------------
(* Shutdown *)

\* main drops its sender and asks the runtime to abort the streamers.
Shutdown ==
    /\ main = "serving"
    /\ main' = "awaiting"
    /\ UNCHANGED <<streaming, chan, pc, buf, timers, flushed, stats>>

\* An aborted streamer stops where it awaits; a row it had not sent is gone.
StreamerDies(s) ==
    /\ main = "awaiting"
    /\ streamer[s] # "gone"
    /\ streamer' = [streamer EXCEPT ![s] = "gone"]
    /\ UNCHANGED <<sent, chan, pc, buf, timers, flushed, stats, main>>

\* Mutation: main does not wait for the writer.
ExitAtOnce ==
    /\ main = "awaiting"
    /\ main' = "exited"
    /\ UNCHANGED <<streaming, chan, pc, buf, timers, flushed, stats>>

Exit ==
    /\ main = "awaiting"
    /\ pc = "done"
    /\ main' = "exited"
    /\ UNCHANGED <<streaming, chan, pc, buf, timers, flushed, stats>>

-----------------------------------------------------------------------------
Send == \E s \in Streamers : EndSend(s)
Abort == \E s \in Streamers : StreamerDies(s)

WriterStep ==
    \/ RecvFirst \/ RecvClosed \/ FillRecv \/ Elapse \/ FillEnd
    \/ InsertOk \/ InsertFails \/ RecordOk \/ RecordError

Next ==
    \/ \E s \in Streamers : BeginSend(s)
    \/ Send
    \/ WriterStep
    \/ Shutdown \/ Abort \/ Exit

Spec == Init /\ [][Next]_vars

\* The runtime polls every ready task; whether a tick ever comes, and whether
\* the operator ever presses Ctrl-C, is left open.
FairSpec ==
    /\ Spec
    /\ WF_vars(WriterStep)
    /\ WF_vars(Exit)
    /\ \A s \in Streamers : SF_vars(EndSend(s)) /\ WF_vars(StreamerDies(s))

-----------------------------------------------------------------------------
(* Properties *)

\* Every variable stays in its domain; a batch is never empty or oversized.
TypeOK ==
    /\ streamer \in [Streamers -> {"idle", "sending", "gone"}]
    /\ sent \in [Streamers -> 0 .. MaxRows]
    /\ \A i \in DOMAIN chan : chan[i] \in Streamers \X (1 .. MaxRows)
    /\ Len(chan) <= ChannelCap
    /\ pc \in {"recv", "fill", "insert", "recordOk", "recordError", "done"}
    /\ Len(buf) <= BatchMax
    /\ age \in Nat /\ gap \in 0 .. FillGap
    /\ \A i \in DOMAIN flushed : Len(flushed[i].rows) \in 1 .. BatchMax
    /\ stats \in [written : Nat, pending : 0 .. BatchMax, error : BOOLEAN]
    /\ main \in {"serving", "awaiting", "exited"}

\* Rows the writer holds that it has not tried to insert yet.
Unflushed == IF pc \in {"recordOk", "recordError"} THEN <<>> ELSE buf

\* The rows sent so far, the oldest first: the batches in the order of their
\* inserts, the buffer, the channel.
Queues == [b \in DOMAIN flushed |-> flushed[b].rows] \o <<Unflushed, chan>>

\* The place of a row is its queue and its position there.
Places == UNION {{<<q, i>> : i \in DOMAIN Queues[q]} : q \in DOMAIN Queues}
RowAt(p) == Queues[p[1]][p[2]]
IsBefore(p, q) == p[1] < q[1] \/ (p[1] = q[1] /\ p[2] < q[2])

\* Through the channel, the buffer and the batches, failed inserts included,
\* the rows of a streamer neither vanish, nor repeat, nor change order.
EachRowOnceInOrder ==
    /\ \A s \in Streamers : \A n \in 1 .. sent[s] : \E p \in Places : RowAt(p) = <<s, n>>
    /\ \A p \in Places : RowAt(p)[2] <= sent[RowAt(p)[1]]
    /\ \A p, q \in Places :
         IsBefore(p, q) /\ RowAt(p)[1] = RowAt(q)[1] => RowAt(p)[2] < RowAt(q)[2]

\* A writer that waits for the first row of a batch holds none: nothing in
\* the code but the arrival of a row ever leaves a row waiting in the buffer.
EmptyWhileWaiting == pc \in {"recv", "done"} => buf = <<>>

\* When the server has shut down, every row that was sent has been through an
\* insert ("drop senders so the writers flush any remaining buffered rows and
\* exit"); until then, no streamer sends to a writer that is gone.
DrainedAtExit ==
    /\ main = "exited" =>
         \A s \in Streamers : \A n \in 1 .. sent[s] :
             \E b \in DOMAIN flushed : \E i \in DOMAIN flushed[b].rows : flushed[b].rows[i] = <<s, n>>
    /\ pc = "done" => Drained

Stored == {b \in DOMAIN flushed : flushed[b].stored}
Failed == DOMAIN flushed \ Stored
RowsOf(batches) == UNION {Range(flushed[b].rows) : b \in batches}

\* The places of the stored rows in the batches.
StoredPlaces == UNION {{b} \X DOMAIN flushed[b].rows : b \in Stored}

\* rows_written counts exactly the rows stored, behind by at most the batch
\* whose insert has just returned.
WrittenIsStored ==
    Cardinality(StoredPlaces) = stats.written + (IF pc = "recordOk" THEN Len(buf) ELSE 0)

\* A streamer blocked on the full channel is released, or shut down.
SendersUnblock ==
    \A s \in Streamers : (streamer[s] = "sending") ~> (streamer[s] # "sending")

\* Once main has begun to shut down it exits: the writer sees the channel
\* close however many rows are queued and whatever inserts fail.
ShutdownCompletes == (main = "awaiting") ~> (main = "exited")

\* What the dashboard shows: last_error tells whether the last insert failed,
\* and unless it does, rows_pending is the batch being inserted and nothing
\* else.  After a failure rows_pending is not to be trusted: it keeps the size
\* of the batch that is gone until an insert succeeds.
StatsTellTheTruth ==
    LET inFlush == pc \in {"insert", "recordOk", "recordError"}
        recorded == IF pc \in {"recordOk", "recordError"} THEN Front(flushed) ELSE flushed
    IN  /\ stats.error = (recorded # <<>> /\ ~Last(recorded).stored)
        /\ ~stats.error => stats.pending = IF inFlush THEN Len(buf) ELSE 0

\* How long a received row waits for its insert to begin: not batch_max_wait_ms,
\* as ticks.rs:287-289 has it, whose timer only runs on an empty buffer, but a
\* gap for every row that the batch still has room for.
BatchWaitBounded == pc = "fill" => age <= (BatchMax - 1) * FillGap

\* The channel, the buffer and the writer together are one queue that loses
\* whole batches only: what they promise the streamers and the jobs.
Queue == INSTANCE RowQueue WITH
    accepted <- sent,
    queue <- Unflushed \o chan,
    stored <- RowsOf(Stored),
    lost <- RowsOf(Failed),
    closed <- pc = "done"

\* Whatever the writer, its timers, failed inserts and the shutdown do, a
\* reader of the table sees a queue whose rows are stored in turn.
ImplementsQueue == Queue!Spec

=============================================================================
