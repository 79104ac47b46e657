-------------------------- MODULE RegistrationProofs --------------------------
(***************************************************************************)
(* Proofs about Registration for every set of calls, usernames and         *)
(* networks and every limit.  No set need be finite: only what a behaviour *)
(* has used so far is.                                                     *)
(***************************************************************************)
EXTENDS Registration, FiniteSetTheorems, TLAPS

\* What a call holds in its local variables.
Locals == [at : {"new", "count", "write"} \cup Answers,
           user : Users \cup {"none"}, network : Networks \cup {"none"},
           existing : BOOLEAN, time : Nat]
CallsTyped ==
    /\ call \in [Calls -> Locals]
    /\ \A c \in Calls :
         call[c].at \in {"count", "write", "registered"}
            => call[c].user \in Users /\ call[c].network \in Networks

\* A row that a call has seen, or was answered for, stays: rows are never deleted.
SeenRowsStay ==
    \A c \in Calls :
        call[c].at = "registered" \/ (c \in InFlight /\ call[c].existing)
            => call[c].user \in Registered

\* The approval of a row was given to the key it holds now.
ApprovedHoldsGranted ==
    \A u \in Registered : clients[u].status = "approved" => granted[u] = clients[u].key

\* Which registration a row is from: its key and network are of the last one,
\* its time of creation is that of the first one.
RowsHaveOrigins ==
    /\ \A u \in Registered :
         LET last == call[clients[u].key] IN
         /\ last.network = clients[u].network
         /\ last.time >= clients[u].createdAt
         /\ last.existing \/ last.time = clients[u].createdAt
    /\ \A c \in Calls :
         call[c].at = "registered" /\ ~call[c].existing
            => clients[call[c].user].createdAt = call[c].time

RecentRows(n) == {u \in Registered : clients[u].network = n /\ clients[u].createdAt > dayAgo}
Answered == {c \in Calls : call[c].at = "registered"}
Writing(n) == {c \in Calls : call[c].at = "write" /\ call[c].network = n}

\* Only finitely many rows and calls exist at a time, and no more calls than
\* the bound are in flight.
Finite ==
    /\ IsFiniteSet(Registered) /\ IsFiniteSet(Answered)
    /\ IsFiniteSet(InFlight) /\ Cardinality(InFlight) <= MaxInFlight

\* A call that has passed the limit counts as the row it is about to write.
LoadBounded ==
    \A n \in Networks : RecentFrom(n) + Cardinality(Writing(n)) < Limit + MaxInFlight

Inv ==
    /\ TypeOK
    /\ CallsTyped
    /\ SeenRowsStay
    /\ OneFirstRegistration
    /\ RowsHaveOrigins
    /\ ApprovedHoldsGranted
    /\ Finite
    /\ LoadBounded

-----------------------------------------------------------------------------
(* Lemmas about the operators of the model *)

\* Writing one row adds its username to the table and leaves the others alone.
LEMMA PutRowFacts ==
    ASSUME NEW u, NEW row, PutRow(u, row)
    PROVE  /\ Registered' = Registered \cup {u}
           /\ clients'[u] = row
           /\ \A v \in Registered \ {u} : clients'[v] = clients[v]
BY DEF PutRow, Registered

\* One call's local variables change.
LEMMA Assigned ==
    ASSUME CallsTyped, NEW c \in Calls, NEW r \in Locals,
           r.at \in {"count", "write", "registered"} => r.user \in Users /\ r.network \in Networks,
           call' = [call EXCEPT ![c] = r]
    PROVE  CallsTyped' /\ call'[c] = r /\ \A d \in Calls \ {c} : call'[d] = call[d]
BY DEF CallsTyped

\* A call that ends holds nothing any more, and no other call moves.
LEMMA EndsFacts ==
    ASSUME CallsTyped, NEW c \in Calls, NEW answer \in {"rejected", "throttled", "failed"},
           Ends(c, answer)
    PROVE  /\ CallsTyped'
           /\ call'[c].at = answer /\ call'[c].time = 0
           /\ \A d \in Calls \ {c} : call'[d] = call[d]
<1> DEFINE r == [NewCall EXCEPT !.at = answer]
<1>1. r \in Locals /\ r.at = answer /\ r.time = 0
  BY DEF NewCall, Locals, Answers
<1>2. call' = [call EXCEPT ![c] = r]
  BY DEF Ends
<1> HIDE DEF r
<1> QED BY <1>1, <1>2, Assigned

\* A call that has written keeps its local variables and the time it wrote.
LEMMA RegistersFacts ==
    ASSUME CallsTyped, NEW c \in Calls, call[c].at = "write", clock \in Nat,
           NEW row, Registers(c, row)
    PROVE  /\ CallsTyped'
           /\ call'[c].at = "registered" /\ call'[c].time = clock + 1
           /\ call'[c].user = call[c].user /\ call'[c].network = call[c].network
           /\ call'[c].existing = call[c].existing
           /\ \A d \in Calls \ {c} : call'[d] = call[d]
           /\ clock' = clock + 1 /\ UNCHANGED <<dayAgo, granted>>
           /\ PutRow(call[c].user, row)
           /\ call[c].user \in Users /\ call[c].network \in Networks
<1> DEFINE r == [call[c] EXCEPT !.at = "registered", !.time = clock + 1]
<1>1. call[c] \in Locals /\ call[c].user \in Users /\ call[c].network \in Networks
  BY DEF CallsTyped
<1>2. /\ r \in Locals
      /\ r.at = "registered" /\ r.time = clock + 1
      /\ r.user = call[c].user /\ r.network = call[c].network /\ r.existing = call[c].existing
  <2>1. "registered" \in {"new", "count", "write"} \cup Answers /\ clock + 1 \in Nat
    BY DEF Answers
  <2>2. r \in Locals
    BY <1>1, <2>1 DEF Locals
  <2>3. r.at = "registered" /\ r.time = clock + 1 /\ r.user = call[c].user
    BY <1>1 DEF Locals
  <2>4. r.network = call[c].network /\ r.existing = call[c].existing
    BY <1>1 DEF Locals
  <2> QED BY <2>2, <2>3, <2>4
<1>3. call' = [call EXCEPT ![c] = r]
  BY DEF Registers, CallsTyped
<1> HIDE DEF r
<1>4. CallsTyped' /\ call'[c] = r /\ \A d \in Calls \ {c} : call'[d] = call[d]
  BY <1>1, <1>2, <1>3, Assigned
<1> QED BY <1>1, <1>2, <1>4 DEF Registers

\* A set that gains at most one element stays finite and grows by at most one.
LEMMA OneMore ==
    ASSUME NEW S, IsFiniteSet(S), NEW x, NEW T, T \subseteq S \cup {x}
    PROVE  /\ IsFiniteSet(T)
           /\ Cardinality(T) \in Nat /\ Cardinality(S) \in Nat
           /\ Cardinality(T) <= Cardinality(S) + 1
<1>1. /\ IsFiniteSet(S \cup {x})
      /\ Cardinality(S \cup {x}) = IF x \in S THEN Cardinality(S) ELSE Cardinality(S) + 1
  BY FS_AddElement
<1>2. IsFiniteSet(T) /\ Cardinality(T) <= Cardinality(S \cup {x})
  BY <1>1, FS_Subset
<1>3. Cardinality(S) \in Nat /\ Cardinality(T) \in Nat
  BY <1>2, FS_CardinalityType
<1> QED BY <1>1, <1>2, <1>3

\* A subset of a finite set is finite and no larger.
LEMMA NoMore ==
    ASSUME NEW S, IsFiniteSet(S), NEW T, T \subseteq S
    PROVE  /\ IsFiniteSet(T)
           /\ Cardinality(T) \in Nat /\ Cardinality(S) \in Nat
           /\ Cardinality(T) <= Cardinality(S)
BY FS_Subset, FS_CardinalityType

\* A finite set that loses an element shrinks by one.
LEMMA OneLess ==
    ASSUME NEW S, IsFiniteSet(S), NEW x \in S
    PROVE  /\ IsFiniteSet(S \ {x})
           /\ Cardinality(S \ {x}) \in Nat /\ Cardinality(S) \in Nat
           /\ Cardinality(S \ {x}) = Cardinality(S) - 1
BY FS_RemoveElement, FS_CardinalityType

\* The counts of LoadBounded are of finite sets.
LEMMA LoadIsFinite ==
    ASSUME Finite, NEW n
    PROVE  /\ IsFiniteSet(RecentRows(n)) /\ IsFiniteSet(Writing(n))
           /\ RecentFrom(n) = Cardinality(RecentRows(n))
           /\ RecentFrom(n) \in Nat /\ Cardinality(Writing(n)) \in Nat
           /\ Cardinality(Writing(n)) <= Cardinality(InFlight)
           /\ Cardinality(InFlight) \in Nat
<1>1. RecentRows(n) \subseteq Registered /\ Writing(n) \subseteq InFlight
  BY DEF RecentRows, Writing, InFlight
<1>2. RecentFrom(n) = Cardinality(RecentRows(n))
  BY DEF RecentFrom, RecentRows
<1> QED BY <1>1, <1>2, NoMore DEF Finite

-----------------------------------------------------------------------------
(* The inductive invariant *)

\* The table is empty and no call has begun.
LEMMA InvInit == Init => Inv
<1> SUFFICES ASSUME Init PROVE Inv
  OBVIOUS
<1> USE DEF Init
<1>1. Registered = {} /\ InFlight = {}
  BY DEF Registered, InFlight, NewCall
<1>2. TypeOK /\ ApprovedHoldsGranted
  BY <1>1 DEF TypeOK, ApprovedHoldsGranted, NewCall
<1>3. /\ CallsTyped /\ SeenRowsStay /\ OneFirstRegistration
      /\ RowsHaveOrigins /\ Answered = {}
  BY <1>1 DEF CallsTyped, Locals, SeenRowsStay, OneFirstRegistration, RowsHaveOrigins, NewCall, InFlight,
                Answered
<1>4. Finite
  BY <1>1, <1>3, FS_EmptySet, LimitAssumption DEF Finite
<1>5. LoadBounded
  <2> SUFFICES ASSUME NEW n \in Networks
               PROVE  RecentFrom(n) + Cardinality(Writing(n)) < Limit + MaxInFlight
    BY DEF LoadBounded
  <2>1. RecentRows(n) = {} /\ Writing(n) = {}
    BY <1>1 DEF RecentRows, Writing, InFlight
  <2>2. RecentFrom(n) = 0 /\ Cardinality(Writing(n)) = 0
    BY <2>1, FS_EmptySet DEF RecentFrom, RecentRows
  <2> QED BY <2>2, LimitAssumption
<1> QED BY <1>2, <1>3, <1>4, <1>5 DEF Inv

\* A step in which no network gains as many recent rows and writing calls
\* together as it loses keeps the bound.
LEMMA LoadKept ==
    ASSUME LoadBounded, Finite,
           \A n \in Networks :
               /\ (RecentFrom(n))' \in Nat /\ (Cardinality(Writing(n)))' \in Nat
               /\ (RecentFrom(n))' + (Cardinality(Writing(n)))'
                    <= RecentFrom(n) + Cardinality(Writing(n))
    PROVE  LoadBounded'
<1> SUFFICES ASSUME NEW n \in Networks
             PROVE  (RecentFrom(n))' + (Cardinality(Writing(n)))' < Limit + MaxInFlight
  BY DEF LoadBounded
<1>1. RecentFrom(n) \in Nat /\ Cardinality(Writing(n)) \in Nat
  BY LoadIsFinite
<1> QED BY <1>1, LimitAssumption DEF LoadBounded

\* A step that adds no row, no recent row, no call in flight and no writing call.
LEMMA LoadShrinks ==
    ASSUME LoadBounded, Finite,
           Registered' \subseteq Registered, Answered' \subseteq Answered,
           InFlight' \subseteq InFlight,
           \A n \in Networks : /\ (RecentRows(n))' \subseteq RecentRows(n)
                               /\ (Writing(n))' \subseteq Writing(n)
    PROVE  Finite' /\ LoadBounded'
<1>1. Finite'
  BY NoMore, LimitAssumption DEF Finite
<1>2. ASSUME NEW n \in Networks
      PROVE  /\ (RecentFrom(n))' \in Nat /\ (Cardinality(Writing(n)))' \in Nat
             /\ (RecentFrom(n))' + (Cardinality(Writing(n)))'
                  <= RecentFrom(n) + Cardinality(Writing(n))
  <2>1. /\ IsFiniteSet(RecentRows(n)) /\ IsFiniteSet(Writing(n))
        /\ RecentFrom(n) = Cardinality(RecentRows(n))
    BY LoadIsFinite
  <2>2. (RecentFrom(n))' = Cardinality((RecentRows(n))')
    BY DEF RecentFrom, RecentRows
  <2>3. /\ Cardinality((RecentRows(n))') \in Nat /\ Cardinality(RecentRows(n)) \in Nat
        /\ Cardinality((RecentRows(n))') <= Cardinality(RecentRows(n))
    BY <1>2, <2>1, NoMore
  <2>4. /\ Cardinality((Writing(n))') \in Nat /\ Cardinality(Writing(n)) \in Nat
        /\ Cardinality((Writing(n))') <= Cardinality(Writing(n))
    BY <1>2, <2>1, NoMore
  <2> QED BY <2>1, <2>2, <2>3, <2>4
<1>3. LoadBounded'
  BY <1>2, LoadKept
<1> QED BY <1>1, <1>3

\* A call's write: its row may be a recent one of its network, and it is no
\* longer a writing call of it.
LEMMA LoadMoves ==
    ASSUME LoadBounded, Finite, CallsTyped,
           NEW c \in Calls, call[c].at = "write", clock \in Nat,
           NEW row, Registers(c, row), row.network = call[c].network
    PROVE  Finite' /\ LoadBounded'
<1> DEFINE u == call[c].user
           m == call[c].network
<1>1. /\ Registered' = Registered \cup {u}
      /\ clients'[u] = row
      /\ \A v \in Registered \ {u} : clients'[v] = clients[v]
      /\ dayAgo' = dayAgo
  BY RegistersFacts, PutRowFacts
<1>2. /\ call'[c].at = "registered" /\ call'[c].network = m
      /\ \A d \in Calls \ {c} : call'[d] = call[d]
  BY RegistersFacts
<1>3. InFlight' \subseteq InFlight
  BY <1>2 DEF InFlight
<1>4. Finite'
  <2>1. IsFiniteSet(Registered')
    BY <1>1, OneMore DEF Finite
  <2>3. IsFiniteSet(Answered')
    <3>1. Answered' \subseteq Answered \cup {c}
      BY <1>2 DEF Answered
    <3> QED BY <3>1, OneMore DEF Finite
  <2>2. /\ IsFiniteSet(InFlight') /\ Cardinality(InFlight') \in Nat /\ Cardinality(InFlight) \in Nat
        /\ Cardinality(InFlight') <= Cardinality(InFlight)
    BY <1>3, NoMore DEF Finite
  <2> QED BY <2>1, <2>2, <2>3, LimitAssumption DEF Finite
<1>5. ASSUME NEW n \in Networks
      PROVE  /\ (RecentFrom(n))' \in Nat /\ (Cardinality(Writing(n)))' \in Nat
             /\ (RecentFrom(n))' + (Cardinality(Writing(n)))'
                  <= RecentFrom(n) + Cardinality(Writing(n))
  <2>1. /\ IsFiniteSet(RecentRows(n)) /\ IsFiniteSet(Writing(n))
        /\ RecentFrom(n) = Cardinality(RecentRows(n))
    BY LoadIsFinite
  <2>2. (RecentFrom(n))' = Cardinality((RecentRows(n))')
    BY DEF RecentFrom, RecentRows
  <2>3. CASE n = m
    <3>1. c \in Writing(n) /\ (Writing(n))' \subseteq Writing(n) \ {c}
      BY <1>2, <2>3 DEF Writing
    <3>2. (RecentRows(n))' \subseteq RecentRows(n) \cup {u}
      BY <1>1 DEF RecentRows
    <3>3. /\ Cardinality((RecentRows(n))') \in Nat /\ Cardinality(RecentRows(n)) \in Nat
          /\ Cardinality((RecentRows(n))') <= Cardinality(RecentRows(n)) + 1
      BY <2>1, <3>2, OneMore
    <3>4. /\ IsFiniteSet(Writing(n) \ {c})
          /\ Cardinality(Writing(n) \ {c}) = Cardinality(Writing(n)) - 1
          /\ Cardinality(Writing(n)) \in Nat
      BY <2>1, <3>1, OneLess
    <3>5. /\ Cardinality((Writing(n))') \in Nat
          /\ Cardinality((Writing(n))') <= Cardinality(Writing(n) \ {c})
      BY <3>1, <3>4, NoMore
    <3> QED BY <2>1, <2>2, <3>3, <3>4, <3>5
  <2>4. CASE n # m
    <3>1. (Writing(n))' \subseteq Writing(n)
      BY <1>2, <2>4 DEF Writing
    <3>2. (RecentRows(n))' \subseteq RecentRows(n)
      BY <1>1, <2>4 DEF RecentRows
    <3>3. /\ Cardinality((RecentRows(n))') \in Nat /\ Cardinality(RecentRows(n)) \in Nat
          /\ Cardinality((RecentRows(n))') <= Cardinality(RecentRows(n))
      BY <2>1, <3>2, NoMore
    <3>4. /\ Cardinality((Writing(n))') \in Nat /\ Cardinality(Writing(n)) \in Nat
          /\ Cardinality((Writing(n))') <= Cardinality(Writing(n))
      BY <2>1, <3>1, NoMore
    <3> QED BY <2>1, <2>2, <3>3, <3>4
  <2> QED BY <2>3, <2>4
<1> HIDE DEF u, m
<1>6. LoadBounded'
  BY <1>5, LoadKept
<1> QED BY <1>4, <1>6

\* A call that passes the limit saw room for its row, and is one of the calls
\* in flight.
LEMMA LoadPasses ==
    ASSUME LoadBounded, Finite, CallsTyped, NEW c \in Calls, Count(c)
    PROVE  Finite' /\ LoadBounded'
<1> DEFINE m == call[c].network
<1>1. /\ call'[c].at \in {"throttled", "write"}
      /\ call'[c].at = "write" => call'[c].network = m /\ ~(RecentFrom(m) >= Limit)
      /\ \A d \in Calls \ {c} : call'[d] = call[d]
  <2>1. CASE RecentFrom(m) >= Limit
    BY <2>1, EndsFacts DEF Count
  <2>2. CASE ~(RecentFrom(m) >= Limit)
    BY <2>2 DEF Count, CallsTyped, Locals
  <2> QED BY <2>1, <2>2
<1>2. /\ InFlight' \subseteq InFlight /\ c \in InFlight /\ UNCHANGED <<clients, Registered, dayAgo>>
      /\ Answered' \subseteq Answered
  BY <1>1 DEF InFlight, Count, Registered, Answered, times
<1>3. Finite'
  BY <1>2, NoMore, LimitAssumption DEF Finite
<1>4. ASSUME NEW n \in Networks
      PROVE  (RecentFrom(n))' + (Cardinality(Writing(n)))' < Limit + MaxInFlight
  <2>1. /\ IsFiniteSet(Writing(n)) /\ RecentFrom(n) \in Nat /\ Cardinality(InFlight) \in Nat
        /\ Cardinality(Writing(n)) \in Nat
    BY LoadIsFinite
  <2>2. (RecentFrom(n))' = RecentFrom(n)
    BY <1>2 DEF RecentFrom
  <2>3. CASE n = m /\ call'[c].at = "write"
    <3>1. (Writing(n))' \subseteq InFlight
      BY <1>2 DEF Writing, InFlight
    <3>2. Cardinality((Writing(n))') \in Nat /\ Cardinality((Writing(n))') <= Cardinality(InFlight)
      BY <3>1, NoMore DEF Finite
    <3> QED BY <1>1, <2>1, <2>2, <2>3, <3>2, LimitAssumption DEF Finite
  <2>4. CASE ~(n = m /\ call'[c].at = "write")
    <3>1. (Writing(n))' \subseteq Writing(n)
      BY <1>1, <2>4 DEF Writing
    <3>2. Cardinality((Writing(n))') \in Nat /\ Cardinality((Writing(n))') <= Cardinality(Writing(n))
      BY <2>1, <3>1, NoMore
    <3> QED BY <2>1, <2>2, <3>2, LimitAssumption DEF LoadBounded
  <2> QED BY <2>3, <2>4
<1> QED BY <1>3, <1>4 DEF LoadBounded

\* A call that ends without a row: its answer gives it no key to account for.
LEMMA InvEnds ==
    ASSUME Inv, NEW c \in Calls, call[c].at \in {"new", "count", "write"},
           NEW answer \in {"rejected", "throttled", "failed"}, Ends(c, answer),
           UNCHANGED <<clients, times, granted>>
    PROVE  Inv'
<1> USE DEF Inv, times
<1>1. /\ CallsTyped'
      /\ call'[c].at = answer /\ call'[c].time = 0
      /\ \A d \in Calls \ {c} : call'[d] = call[d]
  BY EndsFacts
<1>2. Registered' = Registered
  BY DEF Registered
<1>3. \A u \in Registered : clients[u].key \in Calls \ {c}
  BY DEF TypeOK
<1>4. TypeOK'
  BY <1>1, <1>2, <1>3 DEF TypeOK, Answers
<1>5. SeenRowsStay' /\ OneFirstRegistration' /\ ApprovedHoldsGranted'
  BY <1>1, <1>2 DEF SeenRowsStay, OneFirstRegistration, ApprovedHoldsGranted, InFlight
<1>6. RowsHaveOrigins'
  BY <1>1, <1>2, <1>3 DEF RowsHaveOrigins
<1>7. /\ InFlight' \subseteq InFlight /\ Answered' \subseteq Answered
      /\ \A n \in Networks : (RecentRows(n))' = RecentRows(n) /\ (Writing(n))' \subseteq Writing(n)
  BY <1>1, <1>2 DEF InFlight, RecentRows, Writing, Answered
<1>8. Finite' /\ LoadBounded'
  BY <1>2, <1>7, LoadShrinks
<1> QED BY <1>1, <1>4, <1>5, <1>6, <1>8

\* A call's row is pending and has its key and network; it is new, or keeps the
\* time it was created.
LEMMA InvRegisters ==
    ASSUME Inv, NEW c \in Calls, call[c].at = "write",
           NEW row \in [key : Calls, status : Statuses, network : Networks,
                        createdAt : 1 .. clock + 1],
           row.key = c, row.status = "pending", row.network = call[c].network,
           IF call[c].existing
           THEN row.createdAt = clients[call[c].user].createdAt
           ELSE call[c].user \notin Registered /\ row.createdAt = clock + 1,
           Registers(c, row)
    PROVE  Inv'
<1> USE DEF Inv
<1> DEFINE u == call[c].user
<1>1. clock \in Nat
  BY DEF TypeOK
<1>2. /\ CallsTyped'
      /\ call'[c].at = "registered" /\ call'[c].time = clock + 1
      /\ call'[c].user = u /\ call'[c].network = call[c].network
      /\ call'[c].existing = call[c].existing
      /\ \A d \in Calls \ {c} : call'[d] = call[d]
      /\ clock' = clock + 1 /\ UNCHANGED <<dayAgo, granted>>
      /\ PutRow(u, row)
      /\ u \in Users /\ call[c].network \in Networks
  BY <1>1, RegistersFacts
<1>3. /\ Registered' = Registered \cup {u}
      /\ clients'[u] = row
      /\ \A v \in Registered \ {u} : clients'[v] = clients[v]
  BY <1>2, PutRowFacts
<1>4. \A v \in Registered : clients[v].key \in Calls \ {c}
  BY DEF TypeOK
<1>5. TypeOK'
  <2>1. row \in [key : Calls, status : Statuses, network : Networks, createdAt : 1 .. clock + 1]
    OBVIOUS
  <2>2. ASSUME NEW v \in Registered \ {u}
        PROVE  clients'[v] \in [key : Calls, status : Statuses, network : Networks,
                                createdAt : 1 .. clock + 1]
    <3>1. clients[v] \in [key : Calls, status : Statuses, network : Networks,
                          createdAt : 1 .. clock]
      BY DEF TypeOK
    <3> QED BY <1>1, <1>3, <3>1
  <2>3. ASSUME NEW v \in Registered'
        PROVE  /\ clients'[v] \in [key : Calls, status : Statuses, network : Networks,
                                   createdAt : 1 .. clock']
               /\ call'[clients'[v].key].at = "registered"
               /\ call'[clients'[v].key].user = v
    <3>1. CASE v = u
      BY <1>2, <1>3, <2>1, <3>1
    <3>2. CASE v # u
      <4>1. v \in Registered /\ clients'[v] = clients[v]
        BY <1>3, <3>2
      <4>2. /\ call'[clients[v].key] = call[clients[v].key]
            /\ call[clients[v].key].at = "registered" /\ call[clients[v].key].user = v
        BY <1>2, <1>4, <4>1 DEF TypeOK
      <4> QED BY <1>2, <2>2, <3>2, <4>1, <4>2
    <3> QED BY <3>1, <3>2
  <2>4. \A d \in Calls : call'[d].at \in {"new", "count", "write"} \cup Answers
                         /\ call'[d].time \in 0 .. clock + 1
    BY <1>1, <1>2 DEF TypeOK, Answers
  <2>5. /\ Registered' \subseteq Users /\ clock' \in Nat /\ dayAgo' \in 0 .. clock'
        /\ granted' \in [Users -> Calls \cup {NoKey}]
    BY <1>1, <1>2, <1>3 DEF TypeOK
  <2> QED BY <1>2, <2>3, <2>4, <2>5 DEF TypeOK
<1>6. SeenRowsStay'
  BY <1>2, <1>3 DEF SeenRowsStay, InFlight
<1>7. OneFirstRegistration'
  BY <1>2 DEF OneFirstRegistration, SeenRowsStay
<1>8. ApprovedHoldsGranted'
  BY <1>2, <1>3 DEF ApprovedHoldsGranted
<1>9. RowsHaveOrigins'
  <2>1. ASSUME NEW v \in Registered'
        PROVE  /\ call'[clients'[v].key].network = clients'[v].network
               /\ call'[clients'[v].key].time >= clients'[v].createdAt
               /\ \/ call'[clients'[v].key].existing
                  \/ call'[clients'[v].key].time = clients'[v].createdAt
    <3>1. CASE v = u
      BY <1>1, <1>2, <1>3, <3>1
    <3>2. CASE v # u
      <4>1. v \in Registered /\ clients'[v] = clients[v]
        BY <1>3, <3>2
      <4>2. call'[clients[v].key] = call[clients[v].key]
        BY <1>2, <1>4, <4>1
      <4> QED BY <4>1, <4>2 DEF RowsHaveOrigins
    <3> QED BY <3>1, <3>2
  <2>2. ASSUME NEW d \in Calls, call'[d].at = "registered", ~call'[d].existing
        PROVE  clients'[call'[d].user].createdAt = call'[d].time
    <3>1. CASE d = c
      BY <1>2, <1>3, <2>2, <3>1
    <3>2. CASE d # c
      <4>1. /\ call'[d] = call[d] /\ call[d].user \in Registered
            /\ clients[call[d].user].createdAt = call[d].time
        BY <1>2, <2>2, <3>2 DEF RowsHaveOrigins, SeenRowsStay
      <4>2. CASE call[d].user = u
        BY <1>3, <4>1, <4>2
      <4>3. CASE call[d].user # u
        BY <1>3, <4>1, <4>3
      <4> QED BY <4>2, <4>3
    <3> QED BY <3>1, <3>2
  <2> QED BY <2>1, <2>2 DEF RowsHaveOrigins
<1>10. Finite' /\ LoadBounded'
  BY <1>1, LoadMoves
<1> QED BY <1>2, <1>5, <1>6, <1>7, <1>8, <1>9, <1>10

\* One step per action; under it what the action can disturb.
LEMMA InvStep == ASSUME Inv, [Next]_vars PROVE Inv'
<1> USE DEF Inv
<1>1. ASSUME NEW c \in Calls, NEW u \in Users, NEW n \in Networks, Find(c, u, n) PROVE Inv'
  <2>1. CASE u \in Registered /\ clients[u].status # "revoked"
    BY <1>1, <2>1, InvEnds DEF Find
  <2>2. CASE ~(u \in Registered /\ clients[u].status # "revoked")
    <3> DEFINE r == [at |-> "count", user |-> u, network |-> n,
                     existing |-> u \in Registered, time |-> 0]
    <3>1. /\ r \in Locals /\ r.at = "count" /\ r.user = u /\ r.network = n /\ r.time = 0
          /\ r.existing => u \in Registered
      <4>1. r \in Locals
        BY DEF Locals
      <4>2. r.at = "count" /\ r.user = u /\ r.network = n /\ r.time = 0
        OBVIOUS
      <4>3. r.existing => u \in Registered
        OBVIOUS
      <4> QED BY <4>1, <4>2, <4>3
    <3>2. call' = [call EXCEPT ![c] = r]
      BY <1>1, <2>2 DEF Find
    <3> HIDE DEF r
    <3>3. CallsTyped' /\ call'[c] = r /\ \A d \in Calls \ {c} : call'[d] = call[d]
      BY <3>1, <3>2, Assigned
    <3>4. /\ call[c].at = "new" /\ UNCHANGED <<clients, clock, dayAgo, granted, Registered>>
          /\ call'[c].at = "count" /\ call'[c].user = u /\ call'[c].time = 0
          /\ call'[c].existing => u \in Registered
          /\ \A d \in Calls \ {c} : call'[d] = call[d]
      BY <1>1, <3>3, <3>1 DEF Find, Registered, times
    <3>5. \A v \in Registered : clients[v].key \in Calls \ {c}
      BY <3>4 DEF TypeOK
    <3>6. TypeOK'
      BY <3>4, <3>5 DEF TypeOK, Answers
    <3>7. SeenRowsStay' /\ OneFirstRegistration' /\ ApprovedHoldsGranted'
      BY <3>4 DEF SeenRowsStay, OneFirstRegistration, ApprovedHoldsGranted, InFlight
    <3>8. RowsHaveOrigins'
      BY <3>4, <3>5 DEF RowsHaveOrigins
    <3>9. InFlight' \subseteq InFlight \cup {c} /\ Answered' \subseteq Answered
      BY <3>4 DEF InFlight, Answered
    <3>10. Finite'
      <4>1. /\ IsFiniteSet(InFlight') /\ Cardinality(InFlight') \in Nat
            /\ Cardinality(InFlight) \in Nat
            /\ Cardinality(InFlight') <= Cardinality(InFlight) + 1
        BY <3>9, OneMore DEF Finite
      <4>2. IsFiniteSet(Answered')
        BY <3>9, NoMore DEF Finite
      <4> QED BY <1>1, <3>4, <4>1, <4>2, LimitAssumption DEF Finite, Find
    <3>11. LoadBounded'
      <4>1. ASSUME NEW m \in Networks
            PROVE (RecentFrom(m))' = RecentFrom(m) /\ (Writing(m))' = Writing(m)
        BY <3>4 DEF RecentFrom, Writing
      <4> QED BY <4>1 DEF LoadBounded
    <3> QED BY <3>3, <3>6, <3>7, <3>8, <3>10, <3>11
  <2> QED BY <2>1, <2>2
<1>2. ASSUME NEW c \in Calls, Count(c) PROVE Inv'
  <2>1. CASE RecentFrom(call[c].network) >= Limit
    BY <1>2, <2>1, InvEnds DEF Count
  <2>2. CASE ~(RecentFrom(call[c].network) >= Limit)
    <3>1. /\ call[c].at = "count" /\ UNCHANGED <<clients, clock, dayAgo, granted, Registered>>
          /\ call' = [call EXCEPT ![c].at = "write"]
      BY <1>2, <2>2 DEF Count, Registered, times
    <3>2. /\ CallsTyped'
          /\ call'[c].at = "write" /\ call'[c].user = call[c].user
          /\ call'[c].existing = call[c].existing /\ call'[c].time = call[c].time
          /\ \A d \in Calls \ {c} : call'[d] = call[d]
      BY <3>1 DEF CallsTyped, Locals
    <3>3. \A v \in Registered : clients[v].key \in Calls \ {c}
      BY <3>1 DEF TypeOK
    <3>4. TypeOK'
      BY <3>1, <3>2, <3>3 DEF TypeOK
    <3>5. SeenRowsStay' /\ OneFirstRegistration' /\ ApprovedHoldsGranted'
      BY <3>1, <3>2 DEF SeenRowsStay, OneFirstRegistration, ApprovedHoldsGranted, InFlight
    <3>6. RowsHaveOrigins'
      BY <3>1, <3>2, <3>3 DEF RowsHaveOrigins
    <3>7. Finite' /\ LoadBounded'
      BY <1>2, LoadPasses
    <3> QED BY <3>2, <3>4, <3>5, <3>6, <3>7
  <2> QED BY <2>1, <2>2
<1>3. ASSUME NEW c \in Calls, Insert(c) PROVE Inv'
  <2>1. CASE call[c].user \in Registered
    BY <1>3, <2>1, InvEnds DEF Insert
  <2>2. CASE call[c].user \notin Registered
    <3>1. call[c].at = "write" /\ ~call[c].existing /\ Registers(c, NewRow(c)) /\ clock \in Nat
      BY <1>3, <2>2 DEF Insert, TypeOK
    <3>2. call[c].network \in Networks
      BY <3>1 DEF CallsTyped
    <3>3. /\ NewRow(c) \in [key : Calls, status : Statuses, network : Networks,
                            createdAt : 1 .. clock + 1]
          /\ NewRow(c).key = c /\ NewRow(c).status = "pending"
          /\ NewRow(c).network = call[c].network /\ NewRow(c).createdAt = clock + 1
      BY <3>1, <3>2 DEF NewRow, Statuses
    <3> QED BY <2>2, <3>1, <3>3, InvRegisters
  <2> QED BY <2>1, <2>2
<1>4. ASSUME NEW c \in Calls, Reregister(c) PROVE Inv'
  <2> DEFINE u == call[c].user
             row == [clients[u] EXCEPT !.key = c, !.status = "pending",
                                       !.network = call[c].network]
  <2>1. call[c].at = "write" /\ call[c].existing /\ Registers(c, row)
    BY <1>4 DEF Reregister
  <2>2. u \in Registered
    BY <2>1 DEF SeenRowsStay, InFlight
  <2>3. /\ clients[u] \in [key : Calls, status : Statuses, network : Networks,
                           createdAt : 1 .. clock]
        /\ clock \in Nat
    BY <2>2 DEF TypeOK
  <2>4. "pending" \in Statuses /\ call[c].network \in Networks
    BY <2>1 DEF Statuses, CallsTyped
  <2>5. /\ row \in [key : Calls, status : Statuses, network : Networks, createdAt : 1 .. clock]
        /\ row.key = c /\ row.status = "pending" /\ row.network = call[c].network
        /\ row.createdAt = clients[u].createdAt
    BY <2>3, <2>4
  <2> HIDE DEF row
  <2>6. row \in [key : Calls, status : Statuses, network : Networks, createdAt : 1 .. clock + 1]
    BY <2>3, <2>5
  <2> QED BY <2>1, <2>5, <2>6, InvRegisters
<1>5. ASSUME NEW c \in Calls, CallFails(c) PROVE Inv'
  BY <1>5, InvEnds DEF CallFails, InFlight
<1>6. ASSUME NEW u \in Users, NEW status \in Statuses \ {"pending"}, SetStatus(u, status) PROVE Inv'
  <2> DEFINE row == [clients[u] EXCEPT !.status = status]
  <2>1. u \in Registered /\ UNCHANGED <<call, clock, dayAgo>> /\ PutRow(u, row)
    BY <1>6 DEF SetStatus, times
  <2>2. /\ Registered' = Registered
        /\ clients'[u] = row
        /\ \A v \in Registered \ {u} : clients'[v] = clients[v]
    BY <2>1, PutRowFacts
  <2>3. /\ row \in [key : Calls, status : Statuses, network : Networks, createdAt : 1 .. clock]
        /\ row.key = clients[u].key /\ row.status = status
        /\ row.network = clients[u].network /\ row.createdAt = clients[u].createdAt
    BY <2>1 DEF TypeOK
  <2> HIDE DEF row
  <2>4. /\ granted' \in [Users -> Calls \cup {NoKey}]
        /\ status = "approved" => granted'[u] = clients[u].key
        /\ \A v \in Users \ {u} : granted'[v] = granted[v]
    BY <1>6, <2>1 DEF SetStatus, TypeOK
  <2>5. TypeOK'
    BY <2>1, <2>2, <2>3, <2>4 DEF TypeOK
  <2>6. ApprovedHoldsGranted'
    BY <2>1, <2>2, <2>3, <2>4 DEF ApprovedHoldsGranted, TypeOK
  <2>7. CallsTyped' /\ SeenRowsStay' /\ OneFirstRegistration'
    BY <2>1, <2>2 DEF CallsTyped, SeenRowsStay, OneFirstRegistration, InFlight
  <2>8. RowsHaveOrigins'
    <3>1. \A v \in Registered : /\ clients'[v].key = clients[v].key
                                /\ clients'[v].network = clients[v].network
                                /\ clients'[v].createdAt = clients[v].createdAt
      BY <2>2, <2>3
    <3>2. \A d \in Calls : call[d].at = "registered" => call[d].user \in Registered
      BY DEF SeenRowsStay
    <3> QED BY <2>1, <2>2, <3>1, <3>2 DEF RowsHaveOrigins
  <2>9. /\ InFlight' = InFlight /\ Answered' = Answered
        /\ \A n \in Networks : (RecentRows(n))' = RecentRows(n) /\ (Writing(n))' = Writing(n)
    BY <2>1, <2>2, <2>3 DEF InFlight, RecentRows, Writing, Answered
  <2>10. Finite' /\ LoadBounded'
    BY <2>2, <2>9, LoadShrinks
  <2> QED BY <2>5, <2>6, <2>7, <2>8, <2>10
<1>7. ASSUME TurnsOld PROVE Inv'
  <2>1. /\ dayAgo < clock /\ dayAgo' = dayAgo + 1
        /\ UNCHANGED <<clients, call, clock, granted, Registered>>
    BY <1>7 DEF TurnsOld, Registered
  <2>2. TypeOK'
    BY <2>1 DEF TypeOK
  <2>3. /\ CallsTyped' /\ SeenRowsStay' /\ OneFirstRegistration'
        /\ ApprovedHoldsGranted' /\ RowsHaveOrigins'
    BY <2>1
       DEF CallsTyped, SeenRowsStay, OneFirstRegistration, ApprovedHoldsGranted, RowsHaveOrigins,
           InFlight
  <2>4. /\ InFlight' = InFlight /\ Answered' = Answered
        /\ \A n \in Networks : (Writing(n))' = Writing(n)
    BY <2>1 DEF InFlight, Writing, Answered
  <2>5. ASSUME NEW n \in Networks PROVE (RecentRows(n))' \subseteq RecentRows(n)
    BY <2>1 DEF RecentRows, TypeOK
  <2>6. Finite' /\ LoadBounded'
    BY <2>1, <2>4, <2>5, LoadShrinks
  <2> QED BY <2>2, <2>3, <2>6
<1>8. CASE UNCHANGED vars
  <2>1. UNCHANGED <<clients, call, clock, dayAgo, granted>>
    BY <1>8 DEF vars, times
  <2> QED BY <2>1
     DEF TypeOK, CallsTyped, SeenRowsStay, OneFirstRegistration, ApprovedHoldsGranted,
         RowsHaveOrigins, Finite, LoadBounded, Registered, InFlight, Answered, RecentFrom, Writing
<1> QED BY <1>1, <1>2, <1>3, <1>4, <1>5, <1>6, <1>7, <1>8 DEF Next

\* Inv holds whatever the calls, their failures and the admin interleave to.
THEOREM Invariance == Spec => []Inv
<1>1. Inv /\ [Next]_vars => Inv'
  BY InvStep
<1> QED BY InvInit, <1>1, PTL DEF Spec

-----------------------------------------------------------------------------
(* The results *)

\* Type correctness: a key stands in no row but the one it was given out for.
THEOREM TypeCorrect == Spec => []TypeOK
<1>1. Inv => TypeOK
  BY DEF Inv
<1> QED BY Invariance, <1>1, PTL

\* A key that authenticates was the key of its row when the admin approved it.
THEOREM ApprovalNotInherited == Spec => []ApprovalIsOfThisKey
<1>1. ASSUME Inv PROVE ApprovalIsOfThisKey
  <2> SUFFICES ASSUME NEW c \in Calls, Authenticate(c) = "approved"
               PROVE  granted[call[c].user] = c
    BY DEF ApprovalIsOfThisKey
  <2>1. PICK u \in Registered : clients[u].key = c /\ clients[u].status = "approved"
    BY DEF Authenticate
  <2> QED BY <1>1, <2>1 DEF Inv, TypeOK, ApprovedHoldsGranted
<1> QED BY Invariance, <1>1, PTL

\* Of concurrent first registrations of a username one is answered with a key.
THEOREM OneFirst == Spec => []OneFirstRegistration
<1>1. Inv => OneFirstRegistration
  BY DEF Inv
<1> QED BY Invariance, <1>1, PTL

\* Of the registrations accepted from a network, the first registrations whose
\* rows it still holds.
FirstKept(n) == {c \in AcceptedFrom(n) : ~call[c].existing /\ clients[call[c].user].network = n}

\* The first registrations of the last day are as many recent rows.
LEMMA FirstKeptCounted ==
    ASSUME Inv, NEW n \in Networks
    PROVE  /\ IsFiniteSet(FirstKept(n)) /\ Cardinality(FirstKept(n)) \in Nat
           /\ Cardinality(FirstKept(n)) <= RecentFrom(n)
<1> DEFINE A == FirstKept(n)
           f == [c \in A |-> call[c].user]
<1>1. \A c \in A : /\ c \in Calls /\ call[c].at = "registered" /\ call[c].time > dayAgo
                   /\ ~call[c].existing /\ clients[call[c].user].network = n
  BY DEF FirstKept, AcceptedFrom, AcceptedLately
<1>2. \A c \in A : call[c].user \in RecentRows(n)
  BY <1>1 DEF Inv, SeenRowsStay, RowsHaveOrigins, RecentRows
<1>3. f \in Injection(A, RecentRows(n))
  BY <1>1, <1>2 DEF Injection, IsInjective, Inv, OneFirstRegistration
<1>4. IsFiniteSet(RecentRows(n)) /\ RecentFrom(n) = Cardinality(RecentRows(n))
  BY LoadIsFinite DEF Inv
<1>5. IsFiniteSet(A) /\ Cardinality(A) <= Cardinality(RecentRows(n))
  BY <1>3, <1>4, FS_Injection
<1> QED BY <1>4, <1>5, FS_CardinalityType

\* Every other accepted call is a re-registration, or lost its row to one that
\* was answered for another network.
LEMMA OthersReregistered ==
    ASSUME Inv, NEW n \in Networks
    PROVE  /\ IsFiniteSet(AcceptedFrom(n) \ FirstKept(n))
           /\ Cardinality(AcceptedFrom(n) \ FirstKept(n)) \in Nat
           /\ Cardinality(Reregistered) \in Nat
           /\ Cardinality(AcceptedFrom(n) \ FirstKept(n)) <= Cardinality(Reregistered)
<1> DEFINE B == AcceptedFrom(n) \ FirstKept(n)
           f == [c \in B |-> IF call[c].existing THEN c ELSE clients[call[c].user].key]
<1>1. \A c \in B : /\ c \in Calls /\ call[c].at = "registered" /\ call[c].time > dayAgo
                   /\ call[c].network = n
                   /\ call[c].existing \/ clients[call[c].user].network # n
  BY DEF FirstKept, AcceptedFrom, AcceptedLately
<1>2. ASSUME NEW c \in B, ~call[c].existing
      PROVE  LET d == clients[call[c].user].key IN
             /\ d \in Reregistered /\ call[d].network # n /\ call[d].user = call[c].user
  <2> DEFINE u == call[c].user
             d == clients[u].key
  <2>1. u \in Registered /\ clients[u].network # n /\ clients[u].createdAt = call[c].time
    BY <1>1, <1>2 DEF Inv, SeenRowsStay, RowsHaveOrigins
  <2>2. /\ d \in Calls /\ call[d].at = "registered" /\ call[d].user = u
        /\ clients[u].createdAt \in Nat
    BY <2>1 DEF Inv, TypeOK
  <2>3. /\ call[d].network = clients[u].network
        /\ call[d].time >= clients[u].createdAt
        /\ call[d].existing \/ call[d].time = clients[u].createdAt
    BY <2>1 DEF Inv, RowsHaveOrigins
  <2>4. call[d].existing
    BY <1>1, <1>2, <2>1, <2>2, <2>3 DEF Inv, OneFirstRegistration
  <2>5. call[d].time > dayAgo
    <3>1. call[c].time > dayAgo
      BY <1>1
    <3>2. dayAgo \in Nat /\ call[d].time \in Nat
      BY <2>2 DEF Inv, TypeOK, CallsTyped
    <3> QED BY <2>1, <2>2, <2>3, <3>1, <3>2
  <2> QED BY <2>1, <2>2, <2>3, <2>4, <2>5 DEF Reregistered, AcceptedLately
<1>3. ASSUME NEW c \in B PROVE f[c] \in Reregistered
  <2>1. CASE call[c].existing
    BY <1>1, <2>1 DEF Reregistered, AcceptedLately
  <2> QED BY <1>2, <2>1
<1>4. ASSUME NEW c \in B, NEW d \in B, f[c] = f[d] PROVE c = d
  <2>1. CASE call[c].existing /\ call[d].existing
    BY <1>4, <2>1
  <2>2. CASE call[c].existing /\ ~call[d].existing
    BY <1>1, <1>2, <1>4, <2>2
  <2>3. CASE ~call[c].existing /\ call[d].existing
    BY <1>1, <1>2, <1>4, <2>3
  <2>4. CASE ~call[c].existing /\ ~call[d].existing
    <3>1. call[c].user = call[d].user
      BY <1>2, <1>4, <2>4
    <3> QED BY <1>1, <2>4, <3>1 DEF Inv, OneFirstRegistration
  <2> QED BY <2>1, <2>2, <2>3, <2>4
<1>5. f \in Injection(B, Reregistered)
  BY <1>3, <1>4 DEF Injection, IsInjective
<1>6. IsFiniteSet(Reregistered)
  <2>1. Reregistered \subseteq Answered
    BY DEF Reregistered, AcceptedLately, Answered
  <2> QED BY <2>1, FS_Subset DEF Inv, Finite
<1>7. IsFiniteSet(B) /\ Cardinality(B) <= Cardinality(Reregistered)
  BY <1>5, <1>6, FS_Injection
<1> QED BY <1>6, <1>7, FS_CardinalityType

\* A network's accepted registrations pass its limit by fewer than the calls in
\* flight and one for each re-registration of the last 24 hours.
THEOREM LimitHoldsUpToRace == Spec => []OvershootBounded
<1>1. ASSUME Inv PROVE OvershootBounded
  <2> SUFFICES ASSUME NEW n \in Networks
               PROVE  Cardinality(AcceptedFrom(n))
                        < Limit + MaxInFlight + Cardinality(Reregistered)
    BY DEF OvershootBounded
  <2>1. /\ IsFiniteSet(FirstKept(n)) /\ Cardinality(FirstKept(n)) \in Nat
        /\ Cardinality(FirstKept(n)) <= RecentFrom(n)
    BY <1>1, FirstKeptCounted
  <2>2. /\ IsFiniteSet(AcceptedFrom(n) \ FirstKept(n))
        /\ Cardinality(AcceptedFrom(n) \ FirstKept(n)) \in Nat
        /\ Cardinality(Reregistered) \in Nat
        /\ Cardinality(AcceptedFrom(n) \ FirstKept(n)) <= Cardinality(Reregistered)
    BY <1>1, OthersReregistered
  <2>3. /\ AcceptedFrom(n) = FirstKept(n) \cup (AcceptedFrom(n) \ FirstKept(n))
        /\ FirstKept(n) \cap (AcceptedFrom(n) \ FirstKept(n)) = {}
    BY DEF FirstKept
  <2>4. Cardinality(AcceptedFrom(n))
          = Cardinality(FirstKept(n)) + Cardinality(AcceptedFrom(n) \ FirstKept(n))
    <3>1. Cardinality(FirstKept(n) \cup (AcceptedFrom(n) \ FirstKept(n)))
            = Cardinality(FirstKept(n)) + Cardinality(AcceptedFrom(n) \ FirstKept(n))
                - Cardinality(FirstKept(n) \cap (AcceptedFrom(n) \ FirstKept(n)))
      BY <2>1, <2>2, FS_Union
    <3>2. Cardinality({}) = 0
      BY FS_EmptySet
    <3>3. Cardinality(FirstKept(n) \cup (AcceptedFrom(n) \ FirstKept(n)))
            = Cardinality(AcceptedFrom(n))
      BY <2>3
    <3>4. Cardinality(FirstKept(n) \cap (AcceptedFrom(n) \ FirstKept(n))) = 0
      BY <2>3, <3>2
    <3> QED BY <2>1, <2>2, <3>1, <3>3, <3>4
  <2>5. /\ RecentFrom(n) \in Nat /\ Cardinality(Writing(n)) \in Nat
        /\ RecentFrom(n) + Cardinality(Writing(n)) < Limit + MaxInFlight
    BY <1>1, LoadIsFinite DEF Inv, LoadBounded
  <2> QED BY <2>1, <2>2, <2>4, <2>5, LimitAssumption
<1> QED BY Invariance, <1>1, PTL

=============================================================================
