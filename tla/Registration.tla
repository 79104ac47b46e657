----------------------------- MODULE Registration -----------------------------
(***************************************************************************)
(* Client registration: POST /register, the admin's review of it and the   *)
(* check of a client key, around the clients table of the users database.  *)
(* post_register is three statements with an await between them: it looks  *)
(* the username up, counts the network's recent rows and writes, each on   *)
(* what the statement before it saw.  Several calls and the admin act at   *)
(* once.                                                                   *)
(*                                                                         *)
(* A call generates its key when it writes; the key is named by the call.  *)
(* A username is unique in the table, so the table is a function of it,    *)
(* and the id of a row, which never changes, needs no name of its own.     *)
(*                                                                         *)
(* Times matter only by their order and by whether they are less than 24   *)
(* hours ago, so a time is the number of registrations written by then.    *)
(***************************************************************************)
EXTENDS Integers, FiniteSets

CONSTANTS
    Calls,       \* calls of POST /register, each answered once
    Users,       \* sanitized usernames
    Networks,    \* client addresses
    Limit,       \* MAX_REGISTRATIONS_PER_IP_PER_DAY
    MaxInFlight  \* bound: calls being handled at the same time

ASSUME LimitAssumption == Limit \in Nat \ {0} /\ MaxInFlight \in Nat \ {0}

VARIABLES
    clients,  \* the clients table: a row for each registered username
    call,     \* each call: where it is, what it holds, and when it wrote a row
    clock,    \* registrations written so far
    dayAgo,   \* how many of them were written at least 24 hours ago
    granted   \* history: the key each username's row held when last approved

times == <<clock, dayAgo>>
vars == <<clients, call, times, granted>>

-----------------------------------------------------------------------------
NoKey == "none"
Statuses == {"pending", "approved", "declined", "revoked"}
Registered == DOMAIN clients

NewCall == [at |-> "new", user |-> "none", network |-> "none", existing |-> FALSE, time |-> 0]
Answers == {"registered", "rejected", "throttled", "failed"}
InFlight == {c \in Calls : call[c].at \in {"count", "write"}}

Init ==
    /\ clients = [u \in {} |-> {}]
    /\ call = [c \in Calls |-> NewCall]
    /\ clock = 0 /\ dayAgo = 0
    /\ granted = [u \in Users |-> NoKey]

\* A call is answered without a key, and its local variables are gone.
Ends(c, answer) == call' = [call EXCEPT ![c] = [NewCall EXCEPT !.at = answer]]

\* INSERT or UPDATE of one row.
PutRow(u, row) == clients' = [v \in Registered \cup {u} |-> IF v = u THEN row ELSE clients[v]]

\* A statement that writes a row, and the answer that follows it.
Registers(c, row) ==
    /\ PutRow(call[c].user, row)
    /\ clock' = clock + 1
    /\ call' = [call EXCEPT ![c].at = "registered", ![c].time = clock + 1]
    /\ UNCHANGED <<dayAgo, granted>>

NewRow(c) ==
    [key |-> c, status |-> "pending", network |-> call[c].network, createdAt |-> clock + 1]

\* count_recent_registrations_by_ip: rows, by the time they were created.
RecentFrom(n) ==
    Cardinality({u \in Registered : clients[u].network = n /\ clients[u].createdAt > dayAgo})

-----------------------------------------------------------------------------
(* post_register *)

\* find_by_username: only a username without a row, or with a revoked one, may
\* go on.
Find(c, u, n) ==
    /\ call[c].at = "new"
    /\ Cardinality(InFlight) < MaxInFlight
    /\ LET found == u \in Registered IN
       IF found /\ clients[u].status # "revoked"
       THEN Ends(c, "rejected")
       ELSE call' = [call EXCEPT ![c] = [at |-> "count", user |-> u, network |-> n,
                                         existing |-> found, time |-> 0]]
    /\ UNCHANGED <<clients, times, granted>>

\* Mutation: the limit itself still passes.
CountOneMore(c) ==
    /\ call[c].at = "count"
    /\ IF RecentFrom(call[c].network) > Limit
       THEN Ends(c, "throttled")
       ELSE call' = [call EXCEPT ![c].at = "write"]
    /\ UNCHANGED <<clients, times, granted>>

Count(c) ==
    /\ call[c].at = "count"
    /\ IF RecentFrom(call[c].network) >= Limit
       THEN Ends(c, "throttled")
       ELSE call' = [call EXCEPT ![c].at = "write"]
    /\ UNCHANGED <<clients, times, granted>>

\* Mutation: a row that is there by now is replaced.
InsertOrReplace(c) ==
    /\ call[c].at = "write" /\ ~call[c].existing
    /\ Registers(c, NewRow(c))

\* insert_registration: UNIQUE(username) decides between two first calls.
Insert(c) ==
    /\ call[c].at = "write" /\ ~call[c].existing
    /\ IF call[c].user \in Registered
       THEN Ends(c, "failed") /\ UNCHANGED <<clients, times, granted>>
       ELSE Registers(c, NewRow(c))

\* Mutation: the status is left as it is.
ReregisterKeepStatus(c) ==
    /\ call[c].at = "write" /\ call[c].existing
    /\ LET old == clients[call[c].user] IN
       Registers(c, [old EXCEPT !.key = c, !.network = call[c].network])

\* reregister: by id, whatever the status is by now; created_at stays.
Reregister(c) ==
    /\ call[c].at = "write" /\ call[c].existing
    /\ LET old == clients[call[c].user] IN
       Registers(c, [old EXCEPT !.key = c, !.status = "pending", !.network = call[c].network])

\* Mutation: the failure comes after the row was written.
CallFailsLate(c) ==
    /\ call[c].at = "write" /\ call[c].user \notin Registered
    /\ PutRow(call[c].user, NewRow(c))
    /\ Ends(c, "failed")
    /\ UNCHANGED <<times, granted>>

\* A statement fails, or the server stops: nothing was written.
CallFails(c) ==
    /\ c \in InFlight
    /\ Ends(c, "failed")
    /\ UNCHANGED <<clients, times, granted>>

-----------------------------------------------------------------------------
(* The admin, and time *)

\* approve, decline, revoke: from any status.  Rows are never deleted, so what
\* find_by_id finds is still there for set_status.
SetStatus(u, status) ==
    /\ u \in Registered
    /\ PutRow(u, [clients[u] EXCEPT !.status = status])
    /\ granted' = IF status = "approved" THEN [granted EXCEPT ![u] = clients[u].key] ELSE granted
    /\ UNCHANGED <<call, times>>

\* The oldest of the last day's registrations is 24 hours ago.
TurnsOld ==
    /\ dayAgo < clock
    /\ dayAgo' = dayAgo + 1
    /\ UNCHANGED <<clients, call, clock, granted>>

Next ==
    \/ \E c \in Calls, u \in Users, n \in Networks : Find(c, u, n)
    \/ \E c \in Calls : Count(c) \/ Insert(c) \/ Reregister(c) \/ CallFails(c)
    \/ \E u \in Users, status \in Statuses \ {"pending"} : SetStatus(u, status)
    \/ TurnsOld

Spec == Init /\ [][Next]_vars

-----------------------------------------------------------------------------
(* authenticate: what a client key is worth *)

Authenticate(key) ==
    LET rows == {u \in Registered : clients[u].key = key} IN
    IF rows = {} THEN "invalid"
    ELSE IF \E u \in rows : clients[u].status = "approved" THEN "approved"
    ELSE "notApproved"

-----------------------------------------------------------------------------
(* Properties *)

\* Every variable stays in its domain, and a row's key is one that was given
\* out for its username.
TypeOK ==
    /\ Registered \subseteq Users
    /\ \A u \in Registered :
         /\ clients[u] \in [key : Calls, status : Statuses,
                            network : Networks, createdAt : 1 .. clock]
         /\ call[clients[u].key].at = "registered" /\ call[clients[u].key].user = u
    /\ \A c \in Calls : /\ call[c].at \in {"new", "count", "write"} \cup Answers
                        /\ call[c].time \in 0 .. clock
    /\ clock \in Nat /\ dayAgo \in 0 .. clock
    /\ granted \in [Users -> Calls \cup {NoKey}]

\* An approval is never inherited: a key that authenticates is the one its
\* username's row held when the admin approved it, however a re-registration
\* interleaves with the review.
ApprovalIsOfThisKey ==
    \A c \in Calls : Authenticate(c) = "approved" => granted[call[c].user] = c

\* Of any number of concurrent first registrations of a username one is
\* answered with a key ("this is the actual integrity guarantee",
\* users/mod.rs:188-191).
OneFirstRegistration ==
    \A c, d \in Calls :
        /\ call[c].at = "registered" /\ ~call[c].existing
        /\ call[d].at = "registered" /\ ~call[d].existing
        /\ call[c].user = call[d].user
        => c = d

\* What the limit is about: the registrations accepted in the last 24 hours,
\* those from a network, and those that gave an old username a new key.
AcceptedLately == {c \in Calls : call[c].at = "registered" /\ call[c].time > dayAgo}
AcceptedFrom(n) == {c \in AcceptedLately : call[c].network = n}
Reregistered == {c \in AcceptedLately : call[c].existing}

\* How far the registrations of a network can pass its limit, which counts rows
\* and not registrations: by the calls that race between the count and the
\* write, and by one for each re-registration of the last 24 hours, whoever
\* made it.  A re-registration keeps created_at, so it goes uncounted where the
\* row is older, and takes the row out of the count of the network it was from.
OvershootBounded ==
    \A n \in Networks :
        Cardinality(AcceptedFrom(n)) < Limit + MaxInFlight + Cardinality(Reregistered)

\* "Max registrations (any username) accepted from a single IP within 24h"
\* (register.rs:26; :7-8 and README.md:362-364 promise the same).
AcceptedWithinLimit == \A n \in Networks : Cardinality(AcceptedFrom(n)) <= Limit

\* "Only a revoked username may register again" (register.rs:58-59).
OnlyRevokedOverwritten ==
    [][\A u \in Registered : clients'[u].key # clients[u].key => clients[u].status = "revoked"]_vars

=============================================================================
