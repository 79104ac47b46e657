--------------------------- MODULE TickWriterProofs ---------------------------
(***************************************************************************)
(* Proofs about TickWriter for every set of streamers, channel capacity,   *)
(* batch size, gap, number of rows and number of failed inserts.           *)
(***************************************************************************)
EXTENDS TickWriter, SequenceTheorems, FiniteSetTheorems, TLAPS

Row == Streamers \X (1 .. MaxRows)
Batch == [rows : Seq(Row), stored : BOOLEAN]

\* The queues hold rows.
QueuesTyped == chan \in Seq(Row) /\ buf \in Seq(Row) /\ flushed \in Seq(Batch)

\* A streamer that sends has a row to send.
SendersHaveRows == \A s \in Streamers : streamer[s] = "sending" => sent[s] < MaxRows

\* A batch that is being filled or flushed has a row.
NeverAnEmptyBatch == pc \notin {"recv", "done"} => buf # <<>>

\* The writer ends after the channel, and main after the writer.
EndsInOrder ==
    /\ pc = "done" => Drained
    /\ main = "exited" => pc = "done"

\* Each row but the newest has held the batch open for a gap at most; nothing
\* waits once the batch is full.
GapsAddUp ==
    pc = "fill" => /\ age <= (Len(buf) - 1) * FillGap + gap
                   /\ Len(buf) = BatchMax => gap = 0

\* The last batch is the one whose outcome is about to be recorded.
LastIsInserted ==
    /\ pc = "recordOk" => flushed # <<>> /\ Last(flushed).stored
    /\ pc = "recordError" => flushed # <<>> /\ ~Last(flushed).stored

Inv ==
    /\ TypeOK
    /\ QueuesTyped
    /\ SendersHaveRows
    /\ EmptyWhileWaiting
    /\ NeverAnEmptyBatch
    /\ EndsInOrder
    /\ GapsAddUp
    /\ LastIsInserted
    /\ StatsTellTheTruth
    /\ EachRowOnceInOrder

-----------------------------------------------------------------------------
(* Lemmas about the queues *)

QueuesNumbered ==
    /\ Unflushed \in Seq(Row)
    /\ DOMAIN Queues = 1 .. Len(flushed) + 2
    /\ \A b \in 1 .. Len(flushed) : Queues[b] = flushed[b].rows /\ Queues[b] \in Seq(Row)
    /\ Queues[Len(flushed) + 1] = Unflushed
    /\ Queues[Len(flushed) + 2] = chan

\* The batches come first, the buffer is next to last and the channel last.
LEMMA QueuesFacts == QueuesTyped => QueuesNumbered
<1> SUFFICES ASSUME chan \in Seq(Row), buf \in Seq(Row), flushed \in Seq(Batch)
             PROVE  QueuesNumbered
  BY DEF QueuesTyped
<1> DEFINE batches == [b \in DOMAIN flushed |-> flushed[b].rows]
<1>1. Unflushed \in Seq(Row)
  BY DEF Unflushed
<1>2. Len(flushed) \in Nat /\ DOMAIN flushed = 1 .. Len(flushed)
  OBVIOUS
<1>3. \A b \in 1 .. Len(flushed) : flushed[b].rows \in Seq(Row)
  <2>1. \A b \in 1 .. Len(flushed) : flushed[b] \in Batch
    BY ElementOfSeq
  <2> QED BY <2>1 DEF Batch
<1>4. batches \in Seq(Seq(Row)) /\ Len(batches) = Len(flushed)
  BY <1>2, <1>3
<1>5. <<Unflushed, chan>> \in Seq(Seq(Row))
  BY <1>1
<1>6. Queues = batches \o <<Unflushed, chan>>
  BY DEF Queues
<1>7. \A b \in 1 .. Len(flushed) : batches[b] = flushed[b].rows
  BY <1>2
<1> HIDE DEF batches
<1>8. /\ Queues \in Seq(Seq(Row)) /\ Len(Queues) = Len(flushed) + 2
      /\ \A q \in 1 .. Len(flushed) + 2 :
           Queues[q] = IF q <= Len(flushed) THEN batches[q] ELSE <<Unflushed, chan>>[q - Len(flushed)]
  <2>1. Len(<<Unflushed, chan>>) = 2
    OBVIOUS
  <2> QED BY <1>4, <1>5, <1>6, <2>1, ConcatProperties
<1>9. \A b \in 1 .. Len(flushed) : Queues[b] = flushed[b].rows
  <2> TAKE b \in 1 .. Len(flushed)
  <2>1. b \in 1 .. Len(flushed) + 2 /\ b <= Len(flushed)
    BY <1>2
  <2> QED BY <1>7, <1>8, <2>1
<1>10. Queues[Len(flushed) + 1] = Unflushed /\ Queues[Len(flushed) + 2] = chan
  <2>1. /\ Queues[Len(flushed) + 1] = <<Unflushed, chan>>[1]
        /\ Queues[Len(flushed) + 2] = <<Unflushed, chan>>[2]
    <3> DEFINE F == Len(flushed)
    <3>1. F \in Nat
      BY <1>2
    <3> HIDE DEF F
    <3>2. F + 1 \in 1 .. F + 2 /\ F + 2 \in 1 .. F + 2 /\ ~(F + 1 <= F) /\ ~(F + 2 <= F)
          /\ (F + 1) - F = 1 /\ (F + 2) - F = 2
      BY <3>1
    <3> QED BY <1>8, <3>2 DEF F
  <2> QED BY <2>1
<1>11. DOMAIN Queues = 1 .. Len(flushed) + 2
  BY <1>8
<1> QED BY <1>1, <1>3, <1>9, <1>10, <1>11 DEF QueuesNumbered

PlacesNumbered ==
    /\ \A p \in Places :
         /\ p = <<p[1], p[2]>>
         /\ p[1] \in 1 .. Len(flushed) + 2
         /\ p[2] \in 1 .. Len(Queues[p[1]])
         /\ Queues[p[1]] \in Seq(Row)
         /\ RowAt(p) \in Row /\ RowAt(p) = Queues[p[1]][p[2]]
    /\ \A q \in 1 .. Len(flushed) + 2 : \A i \in 1 .. Len(Queues[q]) :
         <<q, i>> \in Places /\ RowAt(<<q, i>>) = Queues[q][i]

\* A place is a queue and a position in it.
LEMMA PlacesFacts == QueuesTyped => PlacesNumbered
<1> SUFFICES ASSUME chan \in Seq(Row), buf \in Seq(Row), flushed \in Seq(Batch), QueuesNumbered
             PROVE  PlacesNumbered
  BY QueuesFacts DEF QueuesTyped
<1>1. \A q \in 1 .. Len(flushed) + 2 : Queues[q] \in Seq(Row)
  <2> DEFINE F == Len(flushed)
  <2>1. F \in Nat
    OBVIOUS
  <2>2. /\ \A b \in 1 .. F : Queues[b] \in Seq(Row)
        /\ Queues[F + 1] \in Seq(Row) /\ Queues[F + 2] \in Seq(Row)
    BY DEF QueuesNumbered
  <2> HIDE DEF F
  <2>3. \A q \in 1 .. F + 2 : q \in 1 .. F \/ q = F + 1 \/ q = F + 2
    BY <2>1
  <2>4. \A q \in 1 .. F + 2 : Queues[q] \in Seq(Row)
    BY <2>2, <2>3
  <2> QED BY <2>4 DEF F
<1>2. \A p : p \in Places <=> \E q \in 1 .. Len(flushed) + 2 :
                                \E i \in 1 .. Len(Queues[q]) : p = <<q, i>>
  <2>1. \A q \in 1 .. Len(flushed) + 2 : DOMAIN Queues[q] = 1 .. Len(Queues[q])
    BY <1>1
  <2> QED BY <2>1 DEF Places, QueuesNumbered
<1> QED BY <1>1, <1>2 DEF RowAt, PlacesNumbered

\* The same after a step.
LEMMA QueuesFactsNext == QueuesTyped' => QueuesNumbered' /\ PlacesNumbered'
BY QueuesFacts, PlacesFacts, PTL

\* A step that only renumbers the places of the rows, in their order.
LEMMA Renumbered ==
    ASSUME EachRowOnceInOrder, sent' = sent,
           NEW to,
           \A p \in Places' : to[p] \in Places /\ (RowAt(p))' = RowAt(to[p]),
           \A p, q \in Places' : IsBefore(p, q) => IsBefore(to[p], to[q]),
           \A p \in Places : \E q \in Places' : to[q] = p
    PROVE  EachRowOnceInOrder'
<1>1. \A s \in Streamers : \A n \in 1 .. sent[s] : \E p \in Places' : (RowAt(p))' = <<s, n>>
  BY DEF EachRowOnceInOrder
<1>2. \A p \in Places' : (RowAt(p))'[2] <= sent[(RowAt(p))'[1]]
  BY DEF EachRowOnceInOrder
<1>3. \A p, q \in Places' :
        IsBefore(p, q) /\ (RowAt(p))'[1] = (RowAt(q))'[1] => (RowAt(p))'[2] < (RowAt(q))'[2]
  BY DEF EachRowOnceInOrder
<1> QED BY <1>1, <1>2, <1>3 DEF EachRowOnceInOrder, IsBefore

\* The first row of the channel becomes the last one of the buffer: in the
\* order of the queues it stays where it was.
LEMMA ReceiveRenumbers ==
    ASSUME QueuesTyped, QueuesTyped', EachRowOnceInOrder,
           chan # <<>>,
           Unflushed = buf, Unflushed' = buf',
           buf' = Append(buf, Head(chan)), chan' = Tail(chan),
           UNCHANGED <<sent, flushed>>
    PROVE  EachRowOnceInOrder'
<1> DEFINE F == Len(flushed)
           L == Len(buf)
           C == Len(chan)
           Moves(p) == p[1] = F + 1 /\ p[2] = L + 1
           To(p) == <<IF Moves(p) THEN F + 2 ELSE p[1],
                      IF Moves(p) THEN 1 ELSE IF p[1] = F + 2 THEN p[2] + 1 ELSE p[2]>>
           to == [p \in Places' |-> To(p)]
<1>1. /\ F \in Nat /\ L \in Nat /\ C \in Nat \ {0}
      /\ Len(buf') = L + 1 /\ Len(chan') = C - 1
      /\ \A i \in 1 .. L : buf'[i] = buf[i]
      /\ buf'[L + 1] = chan[1]
      /\ \A i \in 1 .. C - 1 : chan'[i] = chan[i + 1]
  BY DEF QueuesTyped
<1>2. QueuesNumbered /\ PlacesNumbered /\ QueuesNumbered' /\ PlacesNumbered'
  BY QueuesFacts, PlacesFacts, QueuesFactsNext
<1>3. /\ \A q \in 1 .. F : Queues'[q] = Queues[q]
      /\ Queues[F + 1] = buf /\ Queues[F + 2] = chan
      /\ Queues'[F + 1] = buf' /\ Queues'[F + 2] = chan'
  BY <1>1, <1>2 DEF QueuesNumbered
<1>4. /\ \A p \in Places' : /\ p = <<p[1], p[2]>>
                            /\ p[1] \in 1 .. F + 2 /\ p[2] \in 1 .. Len(Queues'[p[1]])
                            /\ (RowAt(p))' = Queues'[p[1]][p[2]]
      /\ \A q \in 1 .. F + 2 : \A i \in 1 .. Len(Queues'[q]) : <<q, i>> \in Places'
      /\ \A p \in Places : /\ p = <<p[1], p[2]>>
                           /\ p[1] \in 1 .. F + 2 /\ p[2] \in 1 .. Len(Queues[p[1]])
      /\ \A q \in 1 .. F + 2 : \A i \in 1 .. Len(Queues[q]) :
           <<q, i>> \in Places /\ RowAt(<<q, i>>) = Queues[q][i]
  BY <1>2 DEF PlacesNumbered
<1> HIDE DEF F, L, C
<1>5. \A p \in Places' :
        \/ p[1] \in 1 .. F /\ p[2] \in 1 .. Len(Queues[p[1]]) /\ (RowAt(p))' = Queues[p[1]][p[2]]
        \/ p[1] = F + 1 /\ p[2] \in 1 .. L /\ (RowAt(p))' = buf[p[2]]
        \/ p[1] = F + 1 /\ p[2] = L + 1 /\ (RowAt(p))' = chan[1]
        \/ p[1] = F + 2 /\ p[2] \in 1 .. C - 1 /\ (RowAt(p))' = chan[p[2] + 1]
  <2> TAKE p \in Places'
  <2>0. /\ p[1] \in 1 .. F + 2 /\ p[2] \in 1 .. Len(Queues'[p[1]])
        /\ (RowAt(p))' = Queues'[p[1]][p[2]]
    BY <1>4
  <2>1. p[1] \in 1 .. F \/ p[1] = F + 1 \/ p[1] = F + 2
    <3>1. p[1] \in 1 .. F + 2
      BY <2>0
    <3>2. F \in Nat
      BY <1>1
    <3> QED BY <3>1, <3>2
  <2>2. ASSUME p[1] \in 1 .. F
        PROVE  p[2] \in 1 .. Len(Queues[p[1]]) /\ (RowAt(p))' = Queues[p[1]][p[2]]
    BY <1>3, <2>0, <2>2
  <2>3. ASSUME p[1] = F + 1
        PROVE  \/ p[2] \in 1 .. L /\ (RowAt(p))' = buf[p[2]]
               \/ p[2] = L + 1 /\ (RowAt(p))' = chan[1]
    <3>1. p[2] \in 1 .. L + 1 /\ (RowAt(p))' = buf'[p[2]]
      <4>1. Queues'[p[1]] = buf'
        BY <1>3, <2>3
      <4> QED BY <1>1, <2>0, <4>1
    <3>2. p[2] \in 1 .. L \/ p[2] = L + 1
      BY <1>1, <3>1
    <3> QED BY <1>1, <3>1, <3>2
  <2>4. ASSUME p[1] = F + 2
        PROVE  p[2] \in 1 .. C - 1 /\ (RowAt(p))' = chan[p[2] + 1]
    <3>1. p[2] \in 1 .. C - 1 /\ (RowAt(p))' = chan'[p[2]]
      <4>1. Queues'[p[1]] = chan'
        BY <1>3, <2>4
      <4> QED BY <1>1, <2>0, <4>1
    <3> QED BY <1>1, <3>1
  <2> QED BY <2>1, <2>2, <2>3, <2>4
<1>6. ASSUME NEW p \in Places' PROVE To(p) \in Places /\ (RowAt(p))' = RowAt(To(p))
  <2>1. CASE p[1] \in 1 .. F /\ p[2] \in 1 .. Len(Queues[p[1]]) /\ (RowAt(p))' = Queues[p[1]][p[2]]
    <3>1. To(p) = <<p[1], p[2]>> /\ p[1] \in 1 .. F + 2
      BY <1>1, <2>1
    <3> HIDE DEF To
    <3> QED BY <1>4, <2>1, <3>1
  <2>2. CASE p[1] = F + 1 /\ p[2] \in 1 .. L /\ (RowAt(p))' = buf[p[2]]
    <3>1. To(p) = <<F + 1, p[2]>> /\ F + 1 \in 1 .. F + 2
      BY <1>1, <2>2
    <3> HIDE DEF To
    <3> QED BY <1>3, <1>4, <2>2, <3>1 DEF L
  <2>3. CASE p[1] = F + 1 /\ p[2] = L + 1 /\ (RowAt(p))' = chan[1]
    <3>1. To(p) = <<F + 2, 1>> /\ F + 2 \in 1 .. F + 2 /\ 1 \in 1 .. C
      BY <1>1, <2>3
    <3> HIDE DEF To
    <3> QED BY <1>3, <1>4, <2>3, <3>1 DEF C
  <2>4. CASE p[1] = F + 2 /\ p[2] \in 1 .. C - 1 /\ (RowAt(p))' = chan[p[2] + 1]
    <3>1. To(p) = <<F + 2, p[2] + 1>> /\ F + 2 \in 1 .. F + 2 /\ p[2] + 1 \in 1 .. C
      BY <1>1, <2>4
    <3> HIDE DEF To
    <3> QED BY <1>3, <1>4, <2>4, <3>1 DEF C
  <2> QED BY <1>5, <2>1, <2>2, <2>3, <2>4
<1>7. ASSUME NEW p \in Places', NEW q \in Places', IsBefore(p, q)
      PROVE  IsBefore(To(p), To(q))
  <2>1. /\ p[1] \in Int /\ p[2] \in Int /\ q[1] \in Int /\ q[2] \in Int
        /\ p[1] = F + 1 => p[2] <= L + 1
        /\ q[1] = F + 1 => q[2] <= L + 1
        /\ q[1] = F + 2 => q[2] >= 1
        /\ p[1] <= F + 2 /\ q[1] <= F + 2
    BY <1>1, <1>5
  <2> QED BY <1>1, <1>7, <2>1 DEF IsBefore
<1>8. ASSUME NEW p \in Places PROVE \E q \in Places' : To(q) = p
  <2>1. p[1] \in 1 .. F + 2 /\ p[2] \in 1 .. Len(Queues[p[1]]) /\ p = <<p[1], p[2]>>
    BY <1>4
  <2>2. CASE p[1] \in 1 .. F
    <3>1. <<p[1], p[2]>> \in Places'
      BY <1>3, <1>4, <2>1, <2>2
    <3>2. To(<<p[1], p[2]>>) = <<p[1], p[2]>>
      BY <1>1, <2>1, <2>2
    <3> QED BY <2>1, <3>1, <3>2
  <2>3. CASE p[1] = F + 1
    <3>1. p[2] \in 1 .. L /\ p[2] \in 1 .. L + 1 /\ F + 1 \in 1 .. F + 2
      BY <1>1, <1>3, <2>1, <2>3 DEF L
    <3>2. <<F + 1, p[2]>> \in Places'
      BY <1>1, <1>3, <1>4, <3>1
    <3>3. To(<<F + 1, p[2]>>) = <<F + 1, p[2]>>
      BY <1>1, <3>1
    <3> QED BY <2>1, <2>3, <3>2, <3>3
  <2>4. CASE p[1] = F + 2
    <3>1. p[2] \in 1 .. C
      BY <1>1, <1>3, <2>1, <2>4 DEF C
    <3>2. CASE p[2] = 1
      <4>1. L + 1 \in 1 .. L + 1 /\ F + 1 \in 1 .. F + 2
        BY <1>1
      <4>2. <<F + 1, L + 1>> \in Places'
        BY <1>1, <1>3, <1>4, <4>1
      <4>3. To(<<F + 1, L + 1>>) = <<F + 2, 1>>
        OBVIOUS
      <4> QED BY <2>1, <2>4, <3>2, <4>2, <4>3
    <3>3. CASE p[2] # 1
      <4>1. p[2] - 1 \in 1 .. C - 1 /\ F + 2 \in 1 .. F + 2
        BY <1>1, <3>1, <3>3
      <4>2. <<F + 2, p[2] - 1>> \in Places'
        BY <1>1, <1>3, <1>4, <4>1
      <4>3. To(<<F + 2, p[2] - 1>>) = <<F + 2, p[2]>>
        BY <1>1, <3>1
      <4> QED BY <2>1, <2>4, <4>2, <4>3
    <3> QED BY <3>2, <3>3
  <2>5. p[1] \in 1 .. F \/ p[1] = F + 1 \/ p[1] = F + 2
    <3>1. F \in Nat
      BY <1>1
    <3>2. \A k \in 1 .. F + 2 : k \in 1 .. F \/ k = F + 1 \/ k = F + 2
      BY <3>1
    <3> QED BY <2>1, <3>2
  <2> QED BY <2>2, <2>3, <2>4, <2>5
<1>9. \A p \in Places' : to[p] = To(p)
  OBVIOUS
<1> HIDE DEF To, to
<1> QED BY <1>6, <1>7, <1>8, <1>9, Renumbered

\* The buffer becomes the last batch: it stays where it was, and leaves an
\* empty buffer behind.
LEMMA FlushRenumbers ==
    ASSUME QueuesTyped, QueuesTyped', EachRowOnceInOrder,
           Unflushed = buf, Unflushed' = <<>>,
           NEW outcome \in BOOLEAN,
           flushed' = Append(flushed, [rows |-> buf, stored |-> outcome]),
           UNCHANGED <<sent, chan>>
    PROVE  EachRowOnceInOrder'
<1> DEFINE F == Len(flushed)
           To(p) == <<IF p[1] = F + 3 THEN F + 2 ELSE p[1], p[2]>>
           to == [p \in Places' |-> To(p)]
<1>1. F \in Nat /\ Len(flushed') = F + 1 /\ F' = F + 1
  BY DEF QueuesTyped
<1>2. /\ \A b \in 1 .. F : flushed'[b] = flushed[b]
      /\ flushed'[F + 1] = [rows |-> buf, stored |-> outcome]
  BY DEF QueuesTyped
<1>3. QueuesNumbered /\ PlacesNumbered /\ QueuesNumbered' /\ PlacesNumbered'
  BY QueuesFacts, PlacesFacts, QueuesFactsNext
<1>4. /\ \A q \in 1 .. F : Queues[q] = flushed[q].rows
      /\ Queues[F + 1] = buf /\ Queues[F + 2] = chan
  BY <1>3 DEF QueuesNumbered
<1>5. /\ \A q \in 1 .. F + 1 : Queues'[q] = flushed'[q].rows
      /\ Queues'[F + 2] = <<>> /\ Queues'[F + 3] = chan
  <2>1. /\ \A q \in 1 .. F' : Queues'[q] = flushed'[q].rows
        /\ Queues'[F' + 1] = Unflushed' /\ Queues'[F' + 2] = chan'
    BY <1>3 DEF QueuesNumbered
  <2>2. F' + 1 = F + 2 /\ F' + 2 = F + 3
    BY <1>1
  <2> HIDE DEF F
  <2> QED BY <1>1, <2>1, <2>2
<1>6. \A q \in 1 .. F + 1 : Queues'[q] = Queues[q]
  <2> HIDE DEF F
  <2>1. \A q \in 1 .. F + 1 : q \in 1 .. F \/ q = F + 1
    BY <1>1
  <2>2. \A q \in 1 .. F : Queues'[q] = Queues[q]
    BY <1>1, <1>2, <1>4, <1>5
  <2>3. Queues'[F + 1] = Queues[F + 1]
    <3>1. F + 1 \in 1 .. F + 1
      BY <1>1
    <3>2. Queues'[F + 1] = flushed'[F + 1].rows
      BY <1>5, <3>1
    <3> QED BY <1>2, <1>4, <3>2
  <2> QED BY <2>1, <2>2, <2>3
<1>7. \A p \in Places' : /\ p = <<p[1], p[2]>>
                         /\ p[1] \in 1 .. F' + 2 /\ p[2] \in 1 .. Len(Queues'[p[1]])
                         /\ (RowAt(p))' = Queues'[p[1]][p[2]]
  BY <1>3 DEF PlacesNumbered
<1>8. \A q \in 1 .. F' + 2 : \A i \in 1 .. Len(Queues'[q]) : <<q, i>> \in Places'
  BY <1>3 DEF PlacesNumbered
<1>9. /\ \A p \in Places : /\ p = <<p[1], p[2]>>
                           /\ p[1] \in 1 .. F + 2 /\ p[2] \in 1 .. Len(Queues[p[1]])
      /\ \A q \in 1 .. F + 2 : \A i \in 1 .. Len(Queues[q]) :
           <<q, i>> \in Places /\ RowAt(<<q, i>>) = Queues[q][i]
  BY <1>3 DEF PlacesNumbered
<1>10. F' + 2 = F + 3
  BY <1>1
<1>11. Len(<<>>) = 0
  OBVIOUS
<1> HIDE DEF F
<1>12. \A p \in Places' :
         \/ p[1] \in 1 .. F + 1 /\ p[2] \in 1 .. Len(Queues[p[1]]) /\ (RowAt(p))' = Queues[p[1]][p[2]]
         \/ p[1] = F + 3 /\ p[2] \in 1 .. Len(chan) /\ (RowAt(p))' = chan[p[2]]
  <2> TAKE p \in Places'
  <2>1. p[1] \in 1 .. F + 1 \/ p[1] = F + 2 \/ p[1] = F + 3
    <3>1. F \in Nat
      BY <1>1
    <3>2. \A k \in 1 .. F + 3 : k \in 1 .. F + 1 \/ k = F + 2 \/ k = F + 3
      BY <3>1
    <3> QED BY <1>7, <1>10, <3>2
  <2>2. p[2] \in 1 .. Len(Queues'[p[1]]) /\ (RowAt(p))' = Queues'[p[1]][p[2]]
    BY <1>7
  <2>3. p[1] # F + 2
    <3> SUFFICES ASSUME p[1] = F + 2 PROVE FALSE
      OBVIOUS
    <3>1. p[2] \in 1 .. 0
      BY <1>5, <1>11, <2>2
    <3> QED BY <3>1
  <2> QED BY <1>5, <1>6, <2>1, <2>2, <2>3
<1>13. ASSUME NEW p \in Places' PROVE To(p) \in Places /\ (RowAt(p))' = RowAt(To(p))
  <2>1. CASE p[1] \in 1 .. F + 1 /\ p[2] \in 1 .. Len(Queues[p[1]]) /\ (RowAt(p))' = Queues[p[1]][p[2]]
    <3>1. To(p) = <<p[1], p[2]>> /\ p[1] \in 1 .. F + 2
      BY <1>1, <2>1
    <3> HIDE DEF To
    <3> QED BY <1>9, <2>1, <3>1
  <2>2. CASE p[1] = F + 3 /\ p[2] \in 1 .. Len(chan) /\ (RowAt(p))' = chan[p[2]]
    <3>1. To(p) = <<F + 2, p[2]>> /\ F + 2 \in 1 .. F + 2
      BY <1>1, <2>2
    <3> HIDE DEF To
    <3> QED BY <1>4, <1>9, <2>2, <3>1
  <2> QED BY <1>12, <2>1, <2>2
<1>14. ASSUME NEW p \in Places', NEW q \in Places', IsBefore(p, q)
       PROVE  IsBefore(To(p), To(q))
  <2>1. \A r \in Places' : r[1] \in Int /\ r[2] \in Int /\ (r[1] <= F + 1 \/ r[1] = F + 3)
    BY <1>1, <1>12
  <2> QED BY <1>1, <1>14, <2>1 DEF IsBefore
<1>15. ASSUME NEW p \in Places PROVE \E q \in Places' : To(q) = p
  <2>1. p[1] \in 1 .. F + 2 /\ p[2] \in 1 .. Len(Queues[p[1]]) /\ p = <<p[1], p[2]>>
    BY <1>9
  <2>2. CASE p[1] \in 1 .. F + 1
    <3>1. p[1] \in 1 .. F' + 2
      BY <1>1, <1>10, <2>2
    <3>2. <<p[1], p[2]>> \in Places'
      BY <1>6, <1>8, <2>1, <2>2, <3>1
    <3>3. To(<<p[1], p[2]>>) = <<p[1], p[2]>>
      BY <1>1, <2>2
    <3> QED BY <2>1, <3>2, <3>3
  <2>3. CASE p[1] = F + 2
    <3>1. F + 3 \in 1 .. F' + 2
      BY <1>1, <1>10
    <3>2. <<F + 3, p[2]>> \in Places'
      BY <1>4, <1>5, <1>8, <2>1, <2>3, <3>1
    <3>3. To(<<F + 3, p[2]>>) = <<F + 2, p[2]>>
      OBVIOUS
    <3> QED BY <2>1, <2>3, <3>2, <3>3
  <2>4. p[1] \in 1 .. F + 1 \/ p[1] = F + 2
    <3>1. F \in Nat
      BY <1>1
    <3>2. \A k \in 1 .. F + 2 : k \in 1 .. F + 1 \/ k = F + 2
      BY <3>1
    <3> QED BY <2>1, <3>2
  <2> QED BY <2>2, <2>3, <2>4
<1>16. \A p \in Places' : to[p] = To(p)
  OBVIOUS
<1> HIDE DEF To, to
<1> QED BY <1>13, <1>14, <1>15, <1>16, Renumbered

\* A row that is sent is the newest of all.
LEMMA SendKeepsOrder ==
    ASSUME TypeOK, QueuesTyped, QueuesTyped', EachRowOnceInOrder,
           NEW s \in Streamers,
           chan' = Append(chan, <<s, sent[s] + 1>>),
           sent' = [sent EXCEPT ![s] = @ + 1],
           UNCHANGED <<pc, buf, flushed>>
    PROVE  EachRowOnceInOrder'
<1>0. PICK F, C, new : F = Len(flushed) /\ C = Len(chan) /\ new = <<F + 2, C + 1>>
  OBVIOUS
<1>1. /\ F \in Nat /\ C \in Nat
      /\ Len(chan') = C + 1
      /\ \A i \in 1 .. C : chan'[i] = chan[i]
      /\ chan'[C + 1] = <<s, sent[s] + 1>>
  BY <1>0 DEF QueuesTyped
<1>2. QueuesNumbered /\ PlacesNumbered /\ QueuesNumbered' /\ PlacesNumbered'
  BY QueuesFacts, PlacesFacts, QueuesFactsNext
<1>3. /\ \A q \in 1 .. F + 1 : Queues'[q] = Queues[q]
      /\ Queues[F + 2] = chan /\ Queues'[F + 2] = chan'
  <2>1. Unflushed' = Unflushed
    BY DEF Unflushed
  <2>2. /\ \A q \in 1 .. F : Queues'[q] = Queues[q]
        /\ Queues'[F + 1] = Queues[F + 1]
        /\ Queues[F + 2] = chan /\ Queues'[F + 2] = chan'
    BY <1>0, <1>2, <2>1 DEF QueuesNumbered
  <2>3. \A q \in 1 .. F + 1 : q \in 1 .. F \/ q = F + 1
    BY <1>1
  <2> QED BY <2>2, <2>3
<1>4. /\ \A p \in Places' : /\ p = <<p[1], p[2]>>
                            /\ p[1] \in 1 .. F + 2 /\ p[2] \in 1 .. Len(Queues'[p[1]])
                            /\ (RowAt(p))' = Queues'[p[1]][p[2]]
      /\ \A q \in 1 .. F + 2 : \A i \in 1 .. Len(Queues'[q]) :
           <<q, i>> \in Places' /\ (RowAt(<<q, i>>))' = Queues'[q][i]
      /\ \A p \in Places : /\ p = <<p[1], p[2]>>
                           /\ p[1] \in 1 .. F + 2 /\ p[2] \in 1 .. Len(Queues[p[1]])
                           /\ RowAt(p) = Queues[p[1]][p[2]] /\ RowAt(p) \in Row
      /\ \A q \in 1 .. F + 2 : \A i \in 1 .. Len(Queues[q]) :
           <<q, i>> \in Places /\ RowAt(<<q, i>>) = Queues[q][i]
  BY <1>0, <1>2 DEF PlacesNumbered
<1>5. \A k \in 1 .. F + 2 : k \in 1 .. F + 1 \/ k = F + 2
  <2>1. F \in Nat
    BY <1>1
  <2> QED BY <2>1
<1>6. F + 2 \in 1 .. F + 2 /\ C + 1 \in 1 .. C + 1 /\ 1 .. C \subseteq 1 .. C + 1
  BY <1>1
<1>7. new \in Places' /\ (RowAt(new))' = <<s, sent[s] + 1>>
  <2>1. Len(Queues'[F + 2]) = C + 1 /\ Queues'[F + 2][C + 1] = <<s, sent[s] + 1>>
    BY <1>1, <1>3
  <2>2. <<F + 2, C + 1>> \in Places' /\ (RowAt(<<F + 2, C + 1>>))' = Queues'[F + 2][C + 1]
    <3>1. \A i \in 1 .. Len(Queues'[F + 2]) :
            <<F + 2, i>> \in Places' /\ (RowAt(<<F + 2, i>>))' = Queues'[F + 2][i]
      BY <1>4, <1>6
    <3> QED BY <1>6, <2>1, <3>1
  <2> QED BY <1>0, <2>1, <2>2
<1>8. ASSUME NEW p \in Places
      PROVE  p \in Places' /\ (RowAt(p))' = RowAt(p) /\ IsBefore(p, new)
  <2>1. CASE p[1] \in 1 .. F + 1
    <3>1. p \in Places' /\ (RowAt(p))' = RowAt(p)
      BY <1>3, <1>4, <2>1
    <3>2. p[1] < F + 2
      BY <1>1, <2>1
    <3> QED BY <1>0, <3>1, <3>2 DEF IsBefore
  <2>2. CASE p[1] = F + 2
    <3>1. p[2] \in 1 .. C /\ p[2] \in 1 .. C + 1 /\ RowAt(p) = chan[p[2]]
      BY <1>0, <1>3, <1>4, <1>6, <2>2
    <3>2. p \in Places' /\ (RowAt(p))' = chan'[p[2]]
      BY <1>1, <1>3, <1>4, <2>2, <3>1
    <3>3. p[2] < C + 1
      BY <1>1, <3>1
    <3> QED BY <1>0, <1>1, <2>2, <3>1, <3>2, <3>3 DEF IsBefore
  <2> QED BY <1>4, <1>5, <2>1, <2>2
<1>9. ASSUME NEW p \in Places' PROVE p \in Places \/ p = new
  <2>1. CASE p[1] \in 1 .. F + 1
    <3>1. p[1] \in 1 .. F + 2 /\ p[2] \in 1 .. Len(Queues[p[1]]) /\ p = <<p[1], p[2]>>
      BY <1>3, <1>4, <2>1
    <3> QED BY <1>4, <3>1
  <2>2. CASE p[1] = F + 2
    <3>1. p[2] \in 1 .. C + 1
      BY <1>1, <1>3, <1>4, <2>2
    <3>2. p[2] \in 1 .. C \/ p[2] = C + 1
      BY <1>1, <3>1
    <3>3. ASSUME p[2] \in 1 .. C PROVE p \in Places
      <4>1. <<F + 2, p[2]>> \in Places
        BY <1>0, <1>3, <1>4, <1>6, <3>3
      <4> QED BY <1>4, <2>2, <4>1
    <3> QED BY <1>0, <1>4, <2>2, <3>2, <3>3
  <2> QED BY <1>4, <1>5, <2>1, <2>2
<1>10. ASSUME NEW q \in Places' PROVE ~IsBefore(new, q)
  <2>1. CASE q \in Places
    <3>1. q[1] \in Int /\ q[2] \in Int /\ IsBefore(q, new)
      BY <1>1, <1>4, <1>8, <2>1
    <3> QED BY <1>0, <1>1, <3>1 DEF IsBefore
  <2>2. CASE q = new
    BY <1>0, <1>1, <2>2 DEF IsBefore
  <2> QED BY <1>9, <2>1, <2>2
<1>11. /\ \A t \in Streamers : sent[t] \in Nat /\ sent'[t] \in Nat
       /\ sent'[s] = sent[s] + 1
       /\ \A t \in Streamers : t # s => sent'[t] = sent[t]
  BY RowsAssumption DEF TypeOK
<1>12. ASSUME NEW p \in Places
       PROVE  /\ RowAt(p)[1] \in Streamers /\ RowAt(p)[2] \in Nat
              /\ RowAt(p)[2] <= sent[RowAt(p)[1]]
  BY <1>4, RowsAssumption DEF Row, EachRowOnceInOrder
<1>13. ASSUME NEW t \in Streamers, NEW n \in 1 .. sent'[t]
       PROVE  \E p \in Places' : (RowAt(p))' = <<t, n>>
  <2>1. CASE n \in 1 .. sent[t]
    <3>1. PICK p \in Places : RowAt(p) = <<t, n>>
      BY <2>1 DEF EachRowOnceInOrder
    <3> QED BY <1>8, <3>1
  <2>2. CASE n \notin 1 .. sent[t]
    <3>1. t = s /\ n = sent[s] + 1
      BY <1>11, <2>2
    <3> QED BY <1>7, <3>1
  <2> QED BY <2>1, <2>2
<1>14. ASSUME NEW p \in Places' PROVE (RowAt(p))'[2] <= sent'[(RowAt(p))'[1]]
  <2>1. CASE p \in Places
    <3>1. sent[RowAt(p)[1]] <= sent'[RowAt(p)[1]]
      BY <1>11, <1>12, <2>1
    <3>2. RowAt(p)[2] <= sent'[RowAt(p)[1]]
      BY <1>11, <1>12, <2>1, <3>1
    <3> QED BY <1>8, <2>1, <3>2
  <2>2. CASE p = new
    BY <1>7, <1>11, <2>2
  <2> QED BY <1>9, <2>1, <2>2
<1>15. ASSUME NEW p \in Places', NEW q \in Places',
              IsBefore(p, q), (RowAt(p))'[1] = (RowAt(q))'[1]
       PROVE  (RowAt(p))'[2] < (RowAt(q))'[2]
  <2>1. p \in Places
    BY <1>9, <1>10, <1>15
  <2>2. CASE q \in Places
    BY <1>8, <1>15, <2>1, <2>2 DEF EachRowOnceInOrder
  <2>3. CASE q = new
    <3>1. RowAt(p)[1] = s /\ RowAt(p)[2] <= sent[s] /\ RowAt(p)[2] \in Nat
      BY <1>7, <1>8, <1>12, <1>15, <2>1, <2>3
    <3>2. (RowAt(p))'[2] = RowAt(p)[2] /\ (RowAt(q))'[2] = sent[s] + 1
      BY <1>7, <1>8, <2>1, <2>3
    <3> QED BY <1>11, <3>1, <3>2
  <2> QED BY <1>9, <2>2, <2>3
<1> QED BY <1>13, <1>14, <1>15 DEF EachRowOnceInOrder, IsBefore

\* A step that leaves the queues alone.
LEMMA QueuesUntouched ==
    ASSUME EachRowOnceInOrder, Unflushed' = Unflushed, UNCHANGED <<sent, chan, flushed>>
    PROVE  EachRowOnceInOrder'
<1>1. Queues' = Queues
  BY DEF Queues
<1>2. Places' = Places
  BY <1>1 DEF Places
<1>3. \A p : (RowAt(p))' = RowAt(p)
  BY <1>1 DEF RowAt
<1> QED BY <1>2, <1>3 DEF EachRowOnceInOrder, IsBefore

\* What a batch that is added does to the list of the batches.
LEMMA AppendFacts ==
    ASSUME NEW S, NEW seq \in Seq(S), NEW x \in S
    PROVE  /\ Append(seq, x) \in Seq(S) /\ Append(seq, x) # <<>>
           /\ Len(Append(seq, x)) = Len(seq) + 1
           /\ \A i \in 1 .. Len(seq) : Append(seq, x)[i] = seq[i]
           /\ Append(seq, x)[Len(seq) + 1] = x
           /\ Last(Append(seq, x)) = x
           /\ Front(Append(seq, x)) = seq
<1>1. /\ Append(seq, x) \in Seq(S) /\ Append(seq, x) # <<>>
      /\ Len(Append(seq, x)) = Len(seq) + 1
      /\ \A i \in 1 .. Len(seq) : Append(seq, x)[i] = seq[i]
      /\ Append(seq, x)[Len(seq) + 1] = x
  OBVIOUS
<1>2. Last(Append(seq, x)) = x
  BY <1>1 DEF Last
<1>3. Front(Append(seq, x)) = seq
  <2> DEFINE n == Len(seq)
             long == Append(seq, x)
  <2>1. n \in Nat /\ Len(long) = n + 1 /\ \A i \in 1 .. n : long[i] = seq[i] /\ seq[i] \in S
    BY <1>1
  <2>2. Front(long) = SubSeq(long, 1, n)
    BY <2>1 DEF Front
  <2> HIDE DEF n, long
  <2>3. /\ SubSeq(long, 1, n) \in Seq(S) /\ Len(SubSeq(long, 1, n)) = n
        /\ \A i \in 1 .. n : SubSeq(long, 1, n)[i] = seq[i]
    BY <2>1, SubSeqProperties
  <2>4. SubSeq(long, 1, n) = seq
    BY <2>3, SeqEqual DEF n
  <2> QED BY <2>2, <2>4 DEF long
<1> QED BY <1>1, <1>2, <1>3

-----------------------------------------------------------------------------
(* The inductive invariant *)

LEMMA InvInit == Init => Inv
<1> SUFFICES ASSUME Init PROVE Inv
  OBVIOUS
<1> USE DEF Init
<1>1. TypeOK
  BY ChannelAssumption, TimerAssumption, RowsAssumption DEF TypeOK
<1>2. QueuesTyped
  BY DEF QueuesTyped
<1>3. /\ SendersHaveRows /\ EmptyWhileWaiting /\ NeverAnEmptyBatch /\ EndsInOrder
      /\ GapsAddUp /\ LastIsInserted /\ StatsTellTheTruth
  BY DEF SendersHaveRows, EmptyWhileWaiting, NeverAnEmptyBatch, EndsInOrder,
         GapsAddUp, LastIsInserted, StatsTellTheTruth
<1>4. EachRowOnceInOrder
  <2>1. QueuesNumbered /\ PlacesNumbered
    BY <1>2, QueuesFacts, PlacesFacts
  <2>2. Places = {}
    <3> SUFFICES ASSUME NEW p \in Places PROVE FALSE
      OBVIOUS
    <3>1. p[1] \in 1 .. 2 /\ p[2] \in 1 .. Len(Queues[p[1]])
      BY <2>1 DEF PlacesNumbered
    <3>2. Queues[1] = <<>> /\ Queues[2] = <<>>
      BY <2>1 DEF QueuesNumbered, Unflushed
    <3>3. p[1] = 1 \/ p[1] = 2
      BY <3>1
    <3> QED BY <3>1, <3>2, <3>3
  <2> QED BY <2>2 DEF EachRowOnceInOrder
<1> QED BY <1>1, <1>2, <1>3, <1>4 DEF Inv

LEMMA InvStep == Inv /\ [Next]_vars => Inv'
<1> SUFFICES ASSUME Inv, [Next]_vars PROVE Inv'
  OBVIOUS
<1> USE DEF Inv, streaming, timers
<1>1. ASSUME NEW s \in Streamers, BeginSend(s) PROVE Inv'
  <2> USE <1>1 DEF BeginSend
  <2>1. TypeOK' /\ QueuesTyped'
    BY DEF TypeOK, QueuesTyped
  <2>2. SendersHaveRows'
    BY DEF TypeOK, SendersHaveRows
  <2>3. EndsInOrder'
    BY DEF EndsInOrder, Drained, Closed, TypeOK
  <2>4. EachRowOnceInOrder'
    BY QueuesUntouched DEF Unflushed
  <2> QED BY <2>1, <2>2, <2>3, <2>4
          DEF EmptyWhileWaiting, NeverAnEmptyBatch, GapsAddUp, LastIsInserted, StatsTellTheTruth
<1>2. ASSUME NEW s \in Streamers, EndSend(s) PROVE Inv'
  <2> USE <1>2 DEF EndSend
  <2>1. sent[s] + 1 \in 1 .. MaxRows /\ <<s, sent[s] + 1>> \in Row
    BY RowsAssumption DEF TypeOK, SendersHaveRows, Row
  <2>2. QueuesTyped'
    BY <2>1 DEF QueuesTyped
  <2>3. TypeOK'
    <3>1. /\ \A i \in DOMAIN chan' : chan'[i] \in Row
          /\ Len(chan') <= ChannelCap
      <4>1. chan' \in Seq(Row) /\ Len(chan') = Len(chan) + 1 /\ Len(chan) \in Nat
        BY <2>1 DEF QueuesTyped
      <4> QED BY <4>1, ChannelAssumption
    <3>2. sent' \in [Streamers -> 0 .. MaxRows]
      BY <2>1, RowsAssumption DEF TypeOK
    <3> QED BY <3>1, <3>2 DEF TypeOK, Row
  <2>4. SendersHaveRows'
    BY DEF TypeOK, SendersHaveRows
  <2>5. EndsInOrder'
    BY DEF EndsInOrder, Drained, Closed, TypeOK
  <2>6. EachRowOnceInOrder'
    BY <2>2, SendKeepsOrder
  <2> QED BY <2>2, <2>3, <2>4, <2>5, <2>6
          DEF EmptyWhileWaiting, NeverAnEmptyBatch, GapsAddUp, LastIsInserted, StatsTellTheTruth
<1>3. ASSUME RecvFirst PROVE Inv'
  <2> USE <1>3 DEF RecvFirst
  <2>1. QueuesTyped'
    BY DEF QueuesTyped
  <2>2. buf = <<>> /\ Len(buf') = 1 /\ buf' # <<>>
    BY DEF EmptyWhileWaiting, QueuesTyped
  <2>3. TypeOK'
    <3>1. chan' \in Seq(Row) /\ Len(chan') <= ChannelCap
      BY ChannelAssumption DEF QueuesTyped, TypeOK
    <3>2. \A i \in DOMAIN chan' : chan'[i] \in Streamers \X (1 .. MaxRows)
      BY <3>1 DEF Row
    <3> QED BY <2>2, <3>1, <3>2, ChannelAssumption, TimerAssumption DEF TypeOK
  <2>4. GapsAddUp'
    BY <2>2, TimerAssumption DEF GapsAddUp
  <2>5. EachRowOnceInOrder'
    BY <2>1, ReceiveRenumbers DEF Unflushed
  <2> QED BY <2>1, <2>2, <2>3, <2>4, <2>5
          DEF SendersHaveRows, EmptyWhileWaiting, NeverAnEmptyBatch, EndsInOrder,
              LastIsInserted, StatsTellTheTruth
<1>4. ASSUME RecvClosed PROVE Inv'
  <2> USE <1>4 DEF RecvClosed
  <2>1. TypeOK' /\ QueuesTyped'
    BY DEF TypeOK, QueuesTyped
  <2>2. EachRowOnceInOrder'
    BY QueuesUntouched DEF Unflushed
  <2> QED BY <2>1, <2>2
          DEF SendersHaveRows, EmptyWhileWaiting, NeverAnEmptyBatch, EndsInOrder, Drained,
              Closed, GapsAddUp, LastIsInserted, StatsTellTheTruth
<1>5. ASSUME FillRecv PROVE Inv'
  <2> USE <1>5 DEF FillRecv
  <2>1. QueuesTyped'
    BY DEF QueuesTyped
  <2>2. Len(buf') = Len(buf) + 1 /\ Len(buf) \in Nat /\ buf' # <<>>
    BY DEF QueuesTyped
  <2>3. TypeOK'
    <3>1. chan' \in Seq(Row) /\ Len(chan') <= ChannelCap
      BY ChannelAssumption DEF QueuesTyped, TypeOK
    <3>2. \A i \in DOMAIN chan' : chan'[i] \in Streamers \X (1 .. MaxRows)
      BY <3>1 DEF Row
    <3> QED BY <2>2, <3>1, <3>2, ChannelAssumption, TimerAssumption DEF TypeOK
  <2>4. GapsAddUp'
    <3>1. age <= (Len(buf) - 1) * FillGap + gap /\ gap <= FillGap
          /\ age \in Nat /\ gap \in Nat /\ FillGap \in Nat
      BY TimerAssumption DEF GapsAddUp, TypeOK
    <3>2. (Len(buf') - 1) * FillGap = (Len(buf) - 1) * FillGap + FillGap
      BY <2>2, <3>1
    <3>3. (Len(buf) - 1) * FillGap \in Int
      BY <2>2, <3>1
    <3> QED BY <3>1, <3>2, <3>3 DEF GapsAddUp
  <2>5. EachRowOnceInOrder'
    BY <2>1, ReceiveRenumbers DEF Unflushed
  <2> QED BY <2>1, <2>2, <2>3, <2>4, <2>5
          DEF SendersHaveRows, EmptyWhileWaiting, NeverAnEmptyBatch, EndsInOrder,
              LastIsInserted, StatsTellTheTruth
<1>6. ASSUME Elapse PROVE Inv'
  <2> USE <1>6 DEF Elapse
  <2>1. TypeOK' /\ QueuesTyped'
    BY TimerAssumption DEF TypeOK, QueuesTyped
  <2>2. GapsAddUp'
    <3>1. /\ age <= (Len(buf) - 1) * FillGap + gap /\ age \in Nat /\ gap \in Nat
          /\ Len(buf) < BatchMax
      BY DEF GapsAddUp, TypeOK
    <3>2. (Len(buf) - 1) * FillGap \in Int
      BY TimerAssumption DEF QueuesTyped
    <3> QED BY <3>1, <3>2, ChannelAssumption DEF GapsAddUp, QueuesTyped
  <2>3. EachRowOnceInOrder'
    BY QueuesUntouched DEF Unflushed
  <2> QED BY <2>1, <2>2, <2>3
          DEF SendersHaveRows, EmptyWhileWaiting, NeverAnEmptyBatch, EndsInOrder,
              LastIsInserted, StatsTellTheTruth
<1>7. ASSUME FillEnd PROVE Inv'
  <2> USE <1>7 DEF FillEnd
  <2>1. TypeOK' /\ QueuesTyped'
    <3>1. Len(buf) \in 0 .. BatchMax
      BY ChannelAssumption DEF TypeOK, QueuesTyped
    <3>2. stats' \in [written : Nat, pending : 0 .. BatchMax, error : BOOLEAN]
      BY <3>1 DEF TypeOK
    <3> QED BY <3>2 DEF TypeOK, QueuesTyped
  <2>2. EachRowOnceInOrder'
    BY QueuesUntouched DEF Unflushed
  <2>3. StatsTellTheTruth'
    BY DEF StatsTellTheTruth, TypeOK
  <2> QED BY <2>1, <2>2, <2>3
          DEF SendersHaveRows, EmptyWhileWaiting, NeverAnEmptyBatch, EndsInOrder, GapsAddUp,
              LastIsInserted
<1>8. ASSUME NEW outcome \in BOOLEAN, pc = "insert",
             flushed' = Append(flushed, [rows |-> buf, stored |-> outcome]),
             pc' = IF outcome THEN "recordOk" ELSE "recordError",
             UNCHANGED <<streaming, chan, buf, timers, stats, main>>
      PROVE  Inv'
  <2> USE <1>8
  <2> DEFINE batch == [rows |-> buf, stored |-> outcome]
  <2>1. batch \in Batch /\ buf # <<>> /\ Len(buf) \in 1 .. BatchMax
    BY ChannelAssumption DEF Batch, QueuesTyped, NeverAnEmptyBatch, TypeOK
  <2>2. /\ flushed' \in Seq(Batch) /\ flushed' # <<>>
        /\ Len(flushed') = Len(flushed) + 1 /\ Len(flushed) \in Nat
        /\ \A i \in 1 .. Len(flushed) : flushed'[i] = flushed[i]
        /\ flushed'[Len(flushed) + 1] = batch
        /\ Last(flushed') = batch /\ Front(flushed') = flushed
    BY <2>1, AppendFacts DEF QueuesTyped
  <2>3. QueuesTyped'
    BY <2>2 DEF QueuesTyped
  <2>4. TypeOK'
    <3>1. \A i \in DOMAIN flushed' : Len(flushed'[i].rows) \in 1 .. BatchMax
      <4> TAKE i \in DOMAIN flushed'
      <4>1. i \in 1 .. Len(flushed) \/ i = Len(flushed) + 1
        BY <2>2
      <4>2. ASSUME i \in 1 .. Len(flushed) PROVE Len(flushed[i].rows) \in 1 .. BatchMax
        BY <4>2 DEF TypeOK, QueuesTyped
      <4> QED BY <2>1, <2>2, <4>1, <4>2
    <3>2. pc' \in {"recordOk", "recordError"}
      OBVIOUS
    <3> QED BY <3>1, <3>2 DEF TypeOK
  <2>5. LastIsInserted'
    BY <2>2 DEF LastIsInserted
  <2>6. StatsTellTheTruth'
    BY <2>2 DEF StatsTellTheTruth
  <2>7. EachRowOnceInOrder'
    BY <2>3, FlushRenumbers DEF Unflushed
  <2> QED BY <2>1, <2>3, <2>4, <2>5, <2>6, <2>7
          DEF SendersHaveRows, EmptyWhileWaiting, NeverAnEmptyBatch, EndsInOrder, GapsAddUp
<1>9. ASSUME InsertOk PROVE Inv'
  BY <1>8, <1>9 DEF InsertOk
<1>10. ASSUME InsertFails PROVE Inv'
  BY <1>8, <1>10 DEF InsertFails
<1>11. ASSUME RecordOk PROVE Inv'
  <2> USE <1>11 DEF RecordOk
  <2>1. QueuesTyped'
    BY DEF QueuesTyped
  <2>2. TypeOK'
    BY ChannelAssumption DEF TypeOK, QueuesTyped
  <2>3. EachRowOnceInOrder'
    BY QueuesUntouched DEF Unflushed
  <2>4. StatsTellTheTruth'
    BY DEF StatsTellTheTruth, LastIsInserted
  <2> QED BY <2>1, <2>2, <2>3, <2>4
          DEF SendersHaveRows, EmptyWhileWaiting, NeverAnEmptyBatch, EndsInOrder, GapsAddUp,
              LastIsInserted
<1>12. ASSUME RecordError PROVE Inv'
  <2> USE <1>12 DEF RecordError
  <2>1. QueuesTyped'
    BY DEF QueuesTyped
  <2>2. TypeOK'
    <3>1. stats' \in [written : Nat, pending : 0 .. BatchMax, error : BOOLEAN]
      BY DEF TypeOK
    <3>2. Len(buf') <= BatchMax
      BY ChannelAssumption
    <3> QED BY <3>1, <3>2 DEF TypeOK
  <2>3. EachRowOnceInOrder'
    BY QueuesUntouched DEF Unflushed
  <2>4. StatsTellTheTruth'
    BY DEF StatsTellTheTruth, LastIsInserted, TypeOK
  <2> QED BY <2>1, <2>2, <2>3, <2>4
          DEF SendersHaveRows, EmptyWhileWaiting, NeverAnEmptyBatch, EndsInOrder, GapsAddUp,
              LastIsInserted
<1>13. ASSUME Shutdown PROVE Inv'
  <2> USE <1>13 DEF Shutdown
  <2>1. TypeOK' /\ QueuesTyped'
    BY DEF TypeOK, QueuesTyped
  <2>2. EachRowOnceInOrder'
    BY QueuesUntouched DEF Unflushed
  <2> QED BY <2>1, <2>2
          DEF SendersHaveRows, EmptyWhileWaiting, NeverAnEmptyBatch, EndsInOrder, Drained,
              Closed, GapsAddUp, LastIsInserted, StatsTellTheTruth
<1>14. ASSUME NEW s \in Streamers, StreamerDies(s) PROVE Inv'
  <2> USE <1>14 DEF StreamerDies
  <2>1. TypeOK' /\ QueuesTyped'
    BY DEF TypeOK, QueuesTyped
  <2>2. SendersHaveRows'
    BY DEF TypeOK, SendersHaveRows
  <2>3. EndsInOrder'
    BY DEF EndsInOrder, Drained, Closed, TypeOK
  <2>4. EachRowOnceInOrder'
    BY QueuesUntouched DEF Unflushed
  <2> QED BY <2>1, <2>2, <2>3, <2>4
          DEF EmptyWhileWaiting, NeverAnEmptyBatch, GapsAddUp, LastIsInserted, StatsTellTheTruth
<1>15. ASSUME Exit PROVE Inv'
  <2> USE <1>15 DEF Exit
  <2>1. TypeOK' /\ QueuesTyped'
    BY DEF TypeOK, QueuesTyped
  <2>2. EachRowOnceInOrder'
    BY QueuesUntouched DEF Unflushed
  <2> QED BY <2>1, <2>2
          DEF SendersHaveRows, EmptyWhileWaiting, NeverAnEmptyBatch, EndsInOrder, Drained,
              Closed, GapsAddUp, LastIsInserted, StatsTellTheTruth
<1>16. ASSUME UNCHANGED vars PROVE Inv'
  <2> USE <1>16 DEF vars
  <2>1. TypeOK' /\ QueuesTyped'
    BY DEF TypeOK, QueuesTyped
  <2>2. EachRowOnceInOrder'
    BY QueuesUntouched DEF Unflushed
  <2> QED BY <2>1, <2>2
          DEF SendersHaveRows, EmptyWhileWaiting, NeverAnEmptyBatch, EndsInOrder, Drained,
              Closed, GapsAddUp, LastIsInserted, StatsTellTheTruth
<1> QED BY <1>1, <1>2, <1>3, <1>4, <1>5, <1>6, <1>7, <1>9, <1>10, <1>11, <1>12, <1>13,
           <1>14, <1>15, <1>16 DEF Next, Send, Abort, WriterStep

\* The inductive invariant holds in every behaviour of the model.
THEOREM Invariance == Spec => []Inv
BY InvInit, InvStep, PTL DEF Spec

\* The variables keep to their domains, a batch is never empty nor oversized,
\* and the channel never holds more than its capacity.
THEOREM TypeCorrect == Spec => []TypeOK
BY Invariance, PTL DEF Inv

\* Through the channel, the buffer and the batches, failed inserts included,
\* the rows of a streamer neither vanish, nor repeat, nor change order.
THEOREM RowsOnceInOrder == Spec => []EachRowOnceInOrder
BY Invariance, PTL DEF Inv

\* A writer that waits for the first row of a batch holds none: the flush that
\* its batch_max_wait timer or the end of the channel runs there is idle.
THEOREM WaitsEmpty == Spec => []EmptyWhileWaiting
BY Invariance, PTL DEF Inv

\* last_error tells whether the last insert failed, and unless it does
\* rows_pending is the batch being inserted and nothing else.
THEOREM StatsTrue == Spec => []StatsTellTheTruth
BY Invariance, PTL DEF Inv

\* A writer that has ended, and so a server that has exited, has taken every
\* row out of the channel and through an insert.
LEMMA InvDrains == Inv => DrainedAtExit
<1> SUFFICES ASSUME Inv PROVE DrainedAtExit
  OBVIOUS
<1>1. pc = "done" => Drained
  BY DEF Inv, EndsInOrder
<1>2. ASSUME main = "exited", NEW s \in Streamers, NEW n \in 1 .. sent[s]
      PROVE  \E b \in DOMAIN flushed : \E i \in DOMAIN flushed[b].rows : flushed[b].rows[i] = <<s, n>>
  <2>1. QueuesNumbered /\ PlacesNumbered /\ Len(flushed) \in Nat
    BY QueuesFacts, PlacesFacts DEF Inv, QueuesTyped
  <2>2. PICK p \in Places : RowAt(p) = <<s, n>>
    BY <1>2 DEF Inv, EachRowOnceInOrder
  <2>3. /\ p[1] \in 1 .. Len(flushed) + 2 /\ p[2] \in 1 .. Len(Queues[p[1]])
        /\ Queues[p[1]] \in Seq(Row) /\ Queues[p[1]][p[2]] = <<s, n>>
    BY <2>1, <2>2 DEF PlacesNumbered
  <2>4. /\ Queues[Len(flushed) + 1] = <<>> /\ Queues[Len(flushed) + 2] = <<>>
    BY <1>1, <1>2, <2>1 DEF Inv, EndsInOrder, EmptyWhileWaiting, Drained, QueuesNumbered, Unflushed
  <2>5. p[1] \in 1 .. Len(flushed)
    <3>1. p[1] # Len(flushed) + 1 /\ p[1] # Len(flushed) + 2
      <4>1. Len(Queues[p[1]]) # 0
        BY <2>3
      <4> QED BY <2>4, <4>1
    <3> QED BY <2>1, <2>3, <3>1
  <2>6. Queues[p[1]] = flushed[p[1]].rows
    BY <2>1, <2>5 DEF QueuesNumbered
  <2>7. p[1] \in DOMAIN flushed /\ p[2] \in DOMAIN flushed[p[1]].rows
    BY <2>3, <2>5, <2>6 DEF Inv, QueuesTyped
  <2> QED BY <2>3, <2>6, <2>7
<1> QED BY <1>1, <1>2 DEF DrainedAtExit

\* When the server has shut down, every row that was sent has been through an
\* insert ("drop senders so the writers flush any remaining buffered rows and
\* exit"), and no streamer sends to a writer that is gone.
THEOREM ExitIsDrained == Spec => []DrainedAtExit
BY Invariance, InvDrains, PTL

\* A gap for each row a batch has room for is what its oldest row can wait.
LEMMA InvWaits == Inv => BatchWaitBounded
<1> SUFFICES ASSUME Inv, pc = "fill" PROVE age <= (BatchMax - 1) * FillGap
  BY DEF BatchWaitBounded
<1> DEFINE L == Len(buf)
<1>1. /\ L \in Nat /\ L <= BatchMax /\ BatchMax \in Nat /\ FillGap \in Nat
      /\ age \in Nat /\ gap \in 0 .. FillGap
      /\ age <= (L - 1) * FillGap + gap
      /\ L = BatchMax => gap = 0
  BY ChannelAssumption, TimerAssumption DEF Inv, QueuesTyped, TypeOK, GapsAddUp
<1> HIDE DEF L
<1>2. CASE L = BatchMax
  BY <1>1, <1>2
<1>3. CASE L < BatchMax
  <2>1. L * FillGap <= (BatchMax - 1) * FillGap
    <3>1. PICK k \in Nat : BatchMax - 1 = L + k
      <4>1. BatchMax - 1 - L \in Nat /\ BatchMax - 1 = L + (BatchMax - 1 - L)
        BY <1>1, <1>3
      <4> QED BY <4>1
    <3>2. (L + k) * FillGap = L * FillGap + k * FillGap /\ k * FillGap \in Nat /\ L * FillGap \in Nat
      BY <1>1
    <3> QED BY <3>1, <3>2
  <2>2. (L - 1) * FillGap + FillGap = L * FillGap
    BY <1>1
  <2>3. L * FillGap \in Int /\ (L - 1) * FillGap \in Int /\ (BatchMax - 1) * FillGap \in Int
    BY <1>1
  <2> QED BY <1>1, <2>1, <2>2, <2>3
<1> QED BY <1>1, <1>2, <1>3

\* A received row waits for the insert of its batch at most a gap for each of
\* the other rows of a full batch.
THEOREM WaitIsBounded == Spec => []BatchWaitBounded
BY Invariance, InvWaits, PTL

-----------------------------------------------------------------------------
(* What has been settled *)

SettledNumbered ==
    /\ Len(flushed) \in Nat
    /\ \A p : p \in StoredPlaces <=>
         \E b \in 1 .. Len(flushed) : \E i \in 1 .. Len(flushed[b].rows) :
             flushed[b].stored /\ p = <<b, i>>
    /\ \A r : r \in RowsOf(Stored) <=>
         \E b \in 1 .. Len(flushed) : \E i \in 1 .. Len(flushed[b].rows) :
             flushed[b].stored /\ r = flushed[b].rows[i]
    /\ \A r : r \in RowsOf(Failed) <=>
         \E b \in 1 .. Len(flushed) : \E i \in 1 .. Len(flushed[b].rows) :
             ~flushed[b].stored /\ r = flushed[b].rows[i]

\* What is stored, and what is lost, row by row.
LEMMA SettledFacts == QueuesTyped => SettledNumbered
<1> SUFFICES ASSUME flushed \in Seq(Batch) PROVE SettledNumbered
  BY DEF QueuesTyped
<1>1. Len(flushed) \in Nat /\ DOMAIN flushed = 1 .. Len(flushed)
  OBVIOUS
<1>2. \A b \in 1 .. Len(flushed) : DOMAIN flushed[b].rows = 1 .. Len(flushed[b].rows)
  <2> TAKE b \in 1 .. Len(flushed)
  <2>1. flushed[b] \in Batch
    BY ElementOfSeq
  <2>2. flushed[b].rows \in Seq(Row)
    BY <2>1 DEF Batch
  <2> QED BY <2>2
<1>3. ASSUME NEW p
      PROVE  p \in StoredPlaces <=>
                 \E b \in 1 .. Len(flushed) : \E i \in 1 .. Len(flushed[b].rows) :
                     flushed[b].stored /\ p = <<b, i>>
  BY <1>1, <1>2 DEF StoredPlaces, Stored
<1>4. ASSUME NEW r
      PROVE  r \in RowsOf(Stored) <=>
                 \E b \in 1 .. Len(flushed) : \E i \in 1 .. Len(flushed[b].rows) :
                     flushed[b].stored /\ r = flushed[b].rows[i]
  BY <1>1, <1>2 DEF RowsOf, Stored, Range
<1>5. ASSUME NEW r
      PROVE  r \in RowsOf(Failed) <=>
                 \E b \in 1 .. Len(flushed) : \E i \in 1 .. Len(flushed[b].rows) :
                     ~flushed[b].stored /\ r = flushed[b].rows[i]
  BY <1>1, <1>2 DEF RowsOf, Stored, Failed, Range
<1> QED BY <1>1, <1>3, <1>4, <1>5 DEF SettledNumbered

\* The same after a step.
LEMMA SettledFactsNext == QueuesTyped' => SettledNumbered'
BY SettledFacts, PTL

\* The rows of the last batch join those with its outcome; the others stay.
LEMMA SettledGrows ==
    ASSUME QueuesTyped, QueuesTyped', NEW outcome \in BOOLEAN,
           flushed' = Append(flushed, [rows |-> buf, stored |-> outcome])
    PROVE  LET new == {buf[i] : i \in 1 .. Len(buf)}
           IN  /\ \A p : p \in StoredPlaces' <=>
                      \/ p \in StoredPlaces
                      \/ outcome /\ p \in {Len(flushed) + 1} \X (1 .. Len(buf))
               /\ RowsOf(Stored)' = RowsOf(Stored) \cup (IF outcome THEN new ELSE {})
               /\ RowsOf(Failed)' = RowsOf(Failed) \cup (IF outcome THEN {} ELSE new)
               /\ \A p \in StoredPlaces : p[1] \in 1 .. Len(flushed)
<1> DEFINE F == Len(flushed)
           new == {buf[i] : i \in 1 .. Len(buf)}
<1>1. /\ F \in Nat /\ Len(flushed') = F + 1
      /\ \A b \in 1 .. F : flushed'[b] = flushed[b]
      /\ flushed'[F + 1].rows = buf /\ flushed'[F + 1].stored = outcome
  BY DEF QueuesTyped
<1>2. /\ \A p : p \in StoredPlaces <=>
           \E b \in 1 .. F : \E i \in 1 .. Len(flushed[b].rows) :
               flushed[b].stored /\ p = <<b, i>>
      /\ \A r : r \in RowsOf(Stored) <=>
           \E b \in 1 .. F : \E i \in 1 .. Len(flushed[b].rows) :
               flushed[b].stored /\ r = flushed[b].rows[i]
      /\ \A r : r \in RowsOf(Failed) <=>
           \E b \in 1 .. F : \E i \in 1 .. Len(flushed[b].rows) :
               ~flushed[b].stored /\ r = flushed[b].rows[i]
  BY SettledFacts DEF SettledNumbered
<1>3. /\ \A p : p \in StoredPlaces' <=>
           \E b \in 1 .. F + 1 : \E i \in 1 .. Len(flushed'[b].rows) :
               flushed'[b].stored /\ p = <<b, i>>
      /\ \A r : r \in RowsOf(Stored)' <=>
           \E b \in 1 .. F + 1 : \E i \in 1 .. Len(flushed'[b].rows) :
               flushed'[b].stored /\ r = flushed'[b].rows[i]
      /\ \A r : r \in RowsOf(Failed)' <=>
           \E b \in 1 .. F + 1 : \E i \in 1 .. Len(flushed'[b].rows) :
               ~flushed'[b].stored /\ r = flushed'[b].rows[i]
  BY <1>1, SettledFactsNext DEF SettledNumbered
<1> HIDE DEF F
<1>4. \A b : b \in 1 .. F + 1 <=> b \in 1 .. F \/ b = F + 1
  BY <1>1
<1>5. \A p : p \in StoredPlaces' <=>
           \/ p \in StoredPlaces
           \/ outcome /\ p \in {F + 1} \X (1 .. Len(buf))
  BY <1>1, <1>2, <1>3, <1>4
<1>6. \A r : r \in RowsOf(Stored)' <=> r \in RowsOf(Stored) \/ (outcome /\ r \in new)
  BY <1>1, <1>2, <1>3, <1>4
<1>7. \A r : r \in RowsOf(Failed)' <=> r \in RowsOf(Failed) \/ (~outcome /\ r \in new)
  BY <1>1, <1>2, <1>3, <1>4
<1>8. \A p \in StoredPlaces : p[1] \in 1 .. F
  BY <1>2
<1> HIDE DEF new
<1>9. RowsOf(Stored)' = RowsOf(Stored) \cup (IF outcome THEN new ELSE {})
  BY <1>6
<1>10. RowsOf(Failed)' = RowsOf(Failed) \cup (IF outcome THEN {} ELSE new)
  BY <1>7
<1> QED BY <1>5, <1>8, <1>9, <1>10 DEF F, new

\* The stored rows are finitely many and as many as counted.
WrittenInv == IsFiniteSet(StoredPlaces) /\ WrittenIsStored

LEMMA WrittenInit == Init => WrittenInv
<1> SUFFICES ASSUME Init PROVE WrittenInv
  OBVIOUS
<1>1. StoredPlaces = {}
  BY DEF Init, StoredPlaces, Stored
<1>2. stats.written = 0 /\ pc # "recordOk"
  BY DEF Init
<1>3. IsFiniteSet({}) /\ Cardinality({}) = 0
  BY FS_EmptySet
<1>4. Cardinality(StoredPlaces) = stats.written + 0
  <2>1. Cardinality(StoredPlaces) = 0
    BY <1>1, <1>3, Zenon
  <2> QED BY <1>2, <2>1
<1>5. WrittenIsStored
  BY <1>2, <1>4 DEF WrittenIsStored
<1> QED BY <1>1, <1>3, <1>5 DEF WrittenInv

LEMMA WrittenStep == Inv /\ Inv' /\ WrittenInv /\ [Next]_vars => WrittenInv'
<1> SUFFICES ASSUME Inv, Inv', WrittenInv, [Next]_vars PROVE WrittenInv'
  OBVIOUS
<1> USE DEF streaming, timers
<1>0. QueuesTyped /\ QueuesTyped' /\ Len(buf) \in Nat /\ Len(flushed) \in Nat /\ stats.written \in Nat
  BY DEF Inv, QueuesTyped, TypeOK
<1>1. ASSUME UNCHANGED flushed PROVE StoredPlaces' = StoredPlaces
  BY <1>1 DEF StoredPlaces, Stored
<1>2. ASSUME UNCHANGED <<flushed, buf>>, stats'.written = stats.written,
             pc # "recordOk", pc' # "recordOk"
      PROVE  WrittenInv'
  BY <1>1, <1>2 DEF WrittenInv, WrittenIsStored
<1>3. ASSUME UNCHANGED <<flushed, buf, stats, pc>> PROVE WrittenInv'
  BY <1>1, <1>3 DEF WrittenInv, WrittenIsStored
<1>4. CASE RecvFirst \/ RecvClosed \/ FillRecv \/ Elapse \/ FillEnd \/ RecordError
  <2>1. UNCHANGED flushed /\ stats'.written = stats.written /\ pc # "recordOk" /\ pc' # "recordOk"
    BY <1>4 DEF Inv, TypeOK, RecvFirst, RecvClosed, FillRecv, Elapse, FillEnd, RecordError
  <2> QED BY <1>1, <2>1 DEF WrittenInv, WrittenIsStored
<1>5. CASE InsertFails
  <2>1. StoredPlaces' = StoredPlaces
    <3>1. flushed' = Append(flushed, [rows |-> buf, stored |-> FALSE])
      BY <1>5 DEF InsertFails
    <3> QED BY <1>0, <3>1, SettledGrows
  <2>2. stats' = stats /\ pc # "recordOk" /\ pc' # "recordOk"
    BY <1>5 DEF InsertFails
  <2> QED BY <2>1, <2>2 DEF WrittenInv, WrittenIsStored
<1>6. CASE InsertOk
  <2> DEFINE new == {Len(flushed) + 1} \X (1 .. Len(buf))
  <2>1. /\ flushed' = Append(flushed, [rows |-> buf, stored |-> TRUE])
        /\ stats' = stats /\ buf' = buf /\ pc # "recordOk" /\ pc' = "recordOk"
    BY <1>6 DEF InsertOk
  <2>2. StoredPlaces' = StoredPlaces \cup new /\ \A p \in StoredPlaces : p[1] \in 1 .. Len(flushed)
    <3>1. \A p : p \in StoredPlaces' <=> p \in StoredPlaces \/ p \in new
      BY <1>0, <2>1, SettledGrows
    <3>2. \A p \in StoredPlaces : p[1] \in 1 .. Len(flushed)
      BY <1>0, <2>1, SettledGrows
    <3> HIDE DEF new
    <3> QED BY <3>1, <3>2
  <2>3. StoredPlaces \cap new = {}
    <3> SUFFICES ASSUME NEW p \in StoredPlaces, p \in new PROVE FALSE
      OBVIOUS
    <3>1. p[1] = Len(flushed) + 1 /\ p[1] \in 1 .. Len(flushed)
      BY <2>2
    <3> QED BY <1>0, <3>1
  <2>4. IsFiniteSet(new) /\ Cardinality(new) = Len(buf)
    <3>1. IsFiniteSet(1 .. Len(buf)) /\ Cardinality(1 .. Len(buf)) = Len(buf)
      <4>1. 1 \in Int /\ Len(buf) \in Int
        BY <1>0
      <4>2. /\ IsFiniteSet(1 .. Len(buf))
            /\ Cardinality(1 .. Len(buf)) = IF 1 > Len(buf) THEN 0 ELSE Len(buf) - 1 + 1
        BY <4>1, FS_Interval
      <4> QED BY <1>0, <4>2
    <3>2. IsFiniteSet({Len(flushed) + 1}) /\ Cardinality({Len(flushed) + 1}) = 1
      BY FS_Singleton
    <3>3. IsFiniteSet(new) /\ Cardinality(new) = 1 * Len(buf)
      BY <3>1, <3>2, FS_Product
    <3> QED BY <1>0, <3>3
  <2>5. IsFiniteSet(StoredPlaces) /\ Cardinality(StoredPlaces) = stats.written + 0
    BY <2>1 DEF WrittenInv, WrittenIsStored
  <2> HIDE DEF new
  <2>6. IsFiniteSet(StoredPlaces \cup new)
        /\ Cardinality(StoredPlaces \cup new) = Cardinality(StoredPlaces) + Cardinality(new) - Cardinality({})
    BY <2>3, <2>4, <2>5, FS_Union
  <2>7. Cardinality(StoredPlaces \cup new) = stats.written + Len(buf)
    BY <1>0, <2>4, <2>5, <2>6, FS_EmptySet
  <2> QED BY <2>1, <2>2, <2>6, <2>7 DEF WrittenInv, WrittenIsStored
<1>7. CASE RecordOk
  <2>1. /\ UNCHANGED flushed /\ stats'.written = stats.written + Len(buf)
        /\ pc = "recordOk" /\ pc' # "recordOk"
    BY <1>7 DEF RecordOk
  <2>2. stats'.written + 0 = stats.written + Len(buf)
    BY <1>0, <2>1
  <2> QED BY <1>1, <2>1, <2>2 DEF WrittenInv, WrittenIsStored
<1>8. CASE (\E s \in Streamers : BeginSend(s)) \/ Send \/ Shutdown \/ Abort \/ Exit \/ UNCHANGED vars
  BY <1>3, <1>8 DEF Send, BeginSend, EndSend, Shutdown, Abort, StreamerDies, Exit, vars
<1> QED BY <1>4, <1>5, <1>6, <1>7, <1>8 DEF Next, WriterStep

\* rows_written counts exactly the rows stored, behind by at most the batch
\* whose insert has just returned.
THEOREM WrittenCountsStored == Spec => []WrittenIsStored
<1>1. WrittenInv => WrittenIsStored
  BY DEF WrittenInv
<1> QED BY Invariance, WrittenInit, WrittenStep, <1>1, PTL DEF Spec

-----------------------------------------------------------------------------
(* The writer is a queue *)

\* The oldest row of the channel is the newest of the buffer once received.
LEMMA ReceiveKeepsRows ==
    ASSUME NEW S, NEW q \in Seq(S), NEW c \in Seq(S), c # <<>>
    PROVE  Append(q, Head(c)) \o Tail(c) = q \o c
<1>1. Head(c) \in S /\ Tail(c) \in Seq(S) /\ <<Head(c)>> \in Seq(S)
  OBVIOUS
<1>2. Append(q, Head(c)) = q \o <<Head(c)>>
  BY <1>1, AppendIsConcat
<1>3. (q \o <<Head(c)>>) \o Tail(c) = q \o (<<Head(c)>> \o Tail(c))
  BY <1>1, ConcatAssociative
<1>4. <<Head(c)>> \o Tail(c) = c
  <2>1. /\ Len(<<Head(c)>> \o Tail(c)) = Len(c)
        /\ \A i \in 1 .. Len(c) : (<<Head(c)>> \o Tail(c))[i] = c[i]
        /\ <<Head(c)>> \o Tail(c) \in Seq(S)
    <3>1. Len(<<Head(c)>>) = 1 /\ <<Head(c)>>[1] = c[1] /\ Len(Tail(c)) = Len(c) - 1 /\ Len(c) \in Nat
      OBVIOUS
    <3>2. \A i \in 1 .. Len(Tail(c)) : Tail(c)[i] = c[i + 1]
      BY HeadTailProperties
    <3>3. /\ <<Head(c)>> \o Tail(c) \in Seq(S)
          /\ Len(<<Head(c)>> \o Tail(c)) = 1 + Len(Tail(c))
          /\ \A i \in 1 .. 1 + Len(Tail(c)) :
               (<<Head(c)>> \o Tail(c))[i] = IF i <= 1 THEN <<Head(c)>>[i] ELSE Tail(c)[i - 1]
      BY <1>1, <3>1, ConcatProperties
    <3>4. \A i \in 1 .. Len(c) : i = 1 \/ (i - 1 \in 1 .. Len(Tail(c)) /\ (i - 1) + 1 = i /\ ~(i <= 1))
      BY <3>1
    <3>5. \A i \in 1 .. Len(c) : i \in 1 .. 1 + Len(Tail(c))
      BY <3>1
    <3>6. \A i \in 1 .. Len(c) : (<<Head(c)>> \o Tail(c))[i] = c[i]
      BY <3>1, <3>2, <3>3, <3>4, <3>5
    <3> QED BY <3>1, <3>3, <3>6
  <2> QED BY <2>1, SeqEqual
<1> QED BY <1>2, <1>3, <1>4

\* A row that is sent is behind all others.
LEMMA AppendBehind ==
    ASSUME NEW S, NEW q \in Seq(S), NEW c \in Seq(S), NEW row \in S
    PROVE  q \o Append(c, row) = Append(q \o c, row)
<1>1. <<row>> \in Seq(S) /\ q \o c \in Seq(S)
  OBVIOUS
<1>2. Append(c, row) = c \o <<row>> /\ Append(q \o c, row) = (q \o c) \o <<row>>
  BY <1>1, AppendIsConcat
<1> QED BY <1>1, <1>2, ConcatAssociative

\* When the buffer leaves, the channel is what remains.
LEMMA PrefixLeaves ==
    ASSUME NEW S, NEW q \in Seq(S), NEW c \in Seq(S)
    PROVE  /\ Len(q) <= Len(q \o c)
           /\ \A i \in 1 .. Len(q) : (q \o c)[i] = q[i]
           /\ SubSeq(q \o c, Len(q) + 1, Len(q \o c)) = c
<1>1. /\ Len(q \o c) = Len(q) + Len(c) /\ Len(q) \in Nat /\ Len(c) \in Nat
      /\ \A i \in 1 .. Len(q) + Len(c) : (q \o c)[i] = IF i <= Len(q) THEN q[i] ELSE c[i - Len(q)]
      /\ q \o c \in Seq(S)
  BY ConcatProperties
<1>2. \A i \in 1 .. Len(q) : (q \o c)[i] = q[i]
  <2>1. \A i \in 1 .. Len(q) : i \in 1 .. Len(q) + Len(c) /\ i <= Len(q)
    BY <1>1
  <2> QED BY <1>1, <2>1
<1>3. CASE Len(c) = 0
  <2>1. c = <<>>
    BY <1>3
  <2>2. SubSeq(q \o c, Len(q) + 1, Len(q \o c)) = <<>>
    BY <1>1, <1>3, SubSeqEmpty
  <2> QED BY <1>1, <1>2, <2>1, <2>2
<1>4. CASE Len(c) # 0
  <2>1. Len(q) + 1 \in Len(q) + 1 .. Len(q) + Len(c) /\ Len(q) + Len(c) \in Len(q) + 1 .. Len(q) + Len(c)
    BY <1>1, <1>4
  <2>2. SubSeq(q \o c, Len(q) + 1, Len(q) + Len(c))
          = SubSeq(c, (Len(q) + 1) - Len(q), (Len(q) + Len(c)) - Len(q))
    BY <2>1, SubSeqOfConcat2
  <2>3. (Len(q) + 1) - Len(q) = 1 /\ (Len(q) + Len(c)) - Len(q) = Len(c)
    BY <1>1
  <2>4. SubSeq(c, 1, Len(c)) = c
    BY SubSeqFull
  <2> QED BY <1>1, <1>2, <2>2, <2>3, <2>4
<1> QED BY <1>3, <1>4

LEMMA QueueInit == Init => Queue!Init
<1> SUFFICES ASSUME Init PROVE Queue!Init
  OBVIOUS
<1>1. Unflushed \o chan = <<>>
  BY DEF Init, Unflushed
<1>2. RowsOf(Stored) = {} /\ RowsOf(Failed) = {}
  BY DEF Init, RowsOf, Stored, Failed
<1> QED BY <1>1, <1>2 DEF Init, Queue!Init

\* What the queue's state is made of.
LEMMA QueueStutters ==
    ASSUME UNCHANGED <<sent, flushed>>, Unflushed' \o chan' = Unflushed \o chan,
           (pc' = "done") = (pc = "done")
    PROVE  UNCHANGED Queue!queueVars
<1>1. RowsOf(Stored)' = RowsOf(Stored) /\ RowsOf(Failed)' = RowsOf(Failed)
  BY DEF RowsOf, Stored, Failed
<1> QED BY <1>1 DEF Queue!queueVars, Queue!settled

\* Sending accepts a row, an insert settles a batch, the end of the channel
\* closes the queue, and the rest is invisible.
LEMMA QueueStep == Inv /\ Inv' /\ [Next]_vars => [Queue!Next]_(Queue!queueVars)
<1> SUFFICES ASSUME Inv, Inv', [Next]_vars PROVE [Queue!Next]_(Queue!queueVars)
  OBVIOUS
<1> USE DEF streaming, timers
<1>0. /\ chan \in Seq(Row) /\ buf \in Seq(Row) /\ Unflushed \in Seq(Row)
      /\ QueuesTyped /\ QueuesTyped'
  BY DEF Inv, QueuesTyped, Unflushed
<1>1. ASSUME UNCHANGED <<sent, flushed, chan, buf, pc>> PROVE UNCHANGED Queue!queueVars
  BY <1>1, QueueStutters DEF Unflushed
<1>2. ASSUME NEW s \in Streamers, EndSend(s) PROVE Queue!Next
  <2>1. pc # "done"
    BY <1>2 DEF EndSend, Inv, EndsInOrder, Drained, Closed
  <2>2. <<s, sent[s] + 1>> \in Row
    BY <1>2, RowsAssumption DEF EndSend, Inv, TypeOK, SendersHaveRows, Row
  <2>3. Unflushed' \o chan' = Append(Unflushed \o chan, <<s, sent[s] + 1>>)
    <3>1. Unflushed' = Unflushed /\ chan' = Append(chan, <<s, sent[s] + 1>>)
      BY <1>2 DEF EndSend, Unflushed
    <3> QED BY <1>0, <2>2, <3>1, AppendBehind
  <2>4. RowsOf(Stored)' = RowsOf(Stored) /\ RowsOf(Failed)' = RowsOf(Failed)
    BY <1>2 DEF EndSend, RowsOf, Stored, Failed
  <2>5. Queue!Accept(s)
    BY <1>2, <2>1, <2>3, <2>4 DEF EndSend, Queue!Accept, Queue!settled
  <2> QED BY <2>5 DEF Queue!Next
<1>3. ASSUME RecvFirst \/ FillRecv PROVE UNCHANGED Queue!queueVars
  <2>1. /\ chan # <<>> /\ buf' = Append(buf, Head(chan)) /\ chan' = Tail(chan)
        /\ Unflushed = buf /\ Unflushed' = buf'
        /\ UNCHANGED <<sent, flushed>> /\ pc # "done" /\ pc' # "done"
    BY <1>3 DEF RecvFirst, FillRecv, Unflushed
  <2>2. Unflushed' \o chan' = Unflushed \o chan
    BY <1>0, <2>1, ReceiveKeepsRows
  <2> QED BY <2>1, <2>2, QueueStutters
<1>4. ASSUME RecvClosed PROVE Queue!Next
  <2>1. Unflushed = <<>> /\ Unflushed' = <<>> /\ chan = <<>> /\ chan' = <<>>
    BY <1>4 DEF RecvClosed, Drained, Unflushed, Inv, EmptyWhileWaiting
  <2>2. Unflushed \o chan = <<>> /\ Unflushed' \o chan' = <<>>
    BY <2>1
  <2>3. RowsOf(Stored)' = RowsOf(Stored) /\ RowsOf(Failed)' = RowsOf(Failed)
    BY <1>4 DEF RecvClosed, RowsOf, Stored, Failed
  <2>4. Queue!Close
    BY <1>4, <2>2, <2>3 DEF RecvClosed, Queue!Close, Queue!settled
  <2> QED BY <2>4 DEF Queue!Next
<1>5. ASSUME Elapse \/ FillEnd PROVE UNCHANGED Queue!queueVars
  <2>1. /\ UNCHANGED <<sent, flushed, chan>> /\ Unflushed = buf /\ Unflushed' = buf
        /\ pc # "done" /\ pc' # "done"
    BY <1>5 DEF Elapse, FillEnd, Unflushed
  <2> QED BY <2>1, QueueStutters
<1>6. ASSUME NEW outcome \in BOOLEAN, pc = "insert",
             flushed' = Append(flushed, [rows |-> buf, stored |-> outcome]),
             pc' \in {"recordOk", "recordError"},
             UNCHANGED <<streaming, chan, buf>>
      PROVE  Queue!Next
  <2> DEFINE n == Len(buf)
             new == {buf[i] : i \in 1 .. n}
             queue == Unflushed \o chan
  <2>1. n \in 1 .. BatchMax
    BY <1>6, ChannelAssumption DEF Inv, TypeOK, NeverAnEmptyBatch, QueuesTyped
  <2>2. Unflushed = buf /\ Unflushed' = <<>> /\ pc # "done" /\ pc' # "done"
    BY <1>6 DEF Unflushed
  <2>3. /\ n <= Len(queue) /\ \A i \in 1 .. n : queue[i] = buf[i]
        /\ SubSeq(queue, n + 1, Len(queue)) = chan
    BY <1>0, <2>2, PrefixLeaves
  <2>4. Unflushed' \o chan' = SubSeq(queue, n + 1, Len(queue))
    <3>1. <<>> \o chan = chan
      BY <1>0, ConcatEmptySeq
    <3> QED BY <1>6, <2>2, <2>3, <3>1
  <2>5. {queue[i] : i \in 1 .. n} = new
    BY <2>3
  <2>6. /\ RowsOf(Stored)' = RowsOf(Stored) \cup (IF outcome THEN new ELSE {})
        /\ RowsOf(Failed)' = RowsOf(Failed) \cup (IF outcome THEN {} ELSE new)
    BY <1>0, <1>6, SettledGrows
  <2> HIDE DEF n, new
  <2>7. \/ RowsOf(Stored)' = RowsOf(Stored) \cup new /\ RowsOf(Failed)' = RowsOf(Failed)
        \/ RowsOf(Failed)' = RowsOf(Failed) \cup new /\ RowsOf(Stored)' = RowsOf(Stored)
    BY <2>6
  <2>8. Queue!Settle(n)
    BY <1>6, <2>2, <2>3, <2>4, <2>5, <2>7 DEF Queue!Settle
  <2> QED BY <2>1, <2>8 DEF Queue!Next
<1>7. ASSUME InsertOk \/ InsertFails PROVE Queue!Next
  BY <1>6, <1>7 DEF InsertOk, InsertFails
<1>8. ASSUME RecordOk \/ RecordError PROVE UNCHANGED Queue!queueVars
  <2>1. /\ UNCHANGED <<sent, flushed, chan>> /\ Unflushed = <<>> /\ Unflushed' = <<>>
        /\ pc # "done" /\ pc' # "done"
    BY <1>8 DEF RecordOk, RecordError, Unflushed
  <2> QED BY <2>1, QueueStutters
<1>9. ASSUME (\E s \in Streamers : BeginSend(s)) \/ Shutdown \/ Abort \/ Exit \/ UNCHANGED vars
      PROVE  UNCHANGED Queue!queueVars
  <2>1. UNCHANGED <<sent, flushed, chan, buf, pc>>
    BY <1>9 DEF BeginSend, Shutdown, Abort, StreamerDies, Exit, vars
  <2> QED BY <1>1, <2>1
<1> QED BY <1>2, <1>3, <1>4, <1>5, <1>7, <1>8, <1>9 DEF Next, Send, WriterStep

\* Whatever the writer, its timers, failed inserts and the shutdown do, a
\* reader of the table sees one queue: rows are stored in turn, a batch at a
\* time, and only whole batches are lost.
THEOREM RefinesQueue == Spec => ImplementsQueue
BY Invariance, InvInit, InvStep, QueueInit, QueueStep, PTL DEF Spec, ImplementsQueue, Queue!Spec

=============================================================================
