--------------------------- MODULE FeedCoherence ---------------------------
(***************************************************************************)
(* The two processes that share a user's keys in Redis: GET /recommend     *)
(* fills them, the worker deletes them after an INSERT.  The history of a  *)
(* feed is read from a replica (kSlave), the INSERT goes to the master.    *)
(*                                                                         *)
(* The window of a row lasts from its INSERT to the last of the three      *)
(* DELs; every step of a GET may fall into it.                             *)
(***************************************************************************)
EXTENDS Integers

CONSTANTS
    Day, StaleAfter, ExtendToday, ExtendYesterday, None,
    Calls, FeedTtl, VisitTtl, SideTtl, MaxExpiry,
    Messages, Payloads, Slots, Prefetch, BrokerMayRestart

VARIABLES
    now, redis, shared, call, visited,
    queue, body, task, rows, dropped, interrupted,
    replica,  \* the rows that have reached the replica
    meets,    \* history: meets[c]: the rows whose window met the GET c
    met,      \* history: the rows whose window met a GET
    spoiled,  \* history: the rows of which nothing is claimed, see Begin
    due       \* history: due[c]: the rows that the answer of c owes its user

getOnly    == <<now, shared, call, visited>>
workerOnly == <<queue, task, rows, dropped, interrupted>>
history    == <<meets, met, spoiled, due>>
vars       == <<getOnly, workerOnly, redis, body, replica, history>>

Users == {p.user_id : p \in Payloads}

R == INSTANCE RecommendationService
         WITH Rows <- Messages, rows <- replica, Anchors <- {}, WithRedis <- TRUE,
              MaxTime <- 0, MaxCall <- 0
\* What the keys hold is R's affair; the worker only deletes them.
C == INSTANCE UserActionConsumer
         WITH Shape <- [m \in Messages |-> "good"], Ahead <- {}, WorkerWithRedis <- TRUE,
              CacheValues <- {}

ASSUME CoherenceAssumption ==
    /\ R!TtlAssumption /\ R!RecommendationAssumption /\ C!ConsumerAssumption
    /\ None \notin R!Call

TypeOK ==
    /\ R!TypeOK
    /\ queue \subseteq Messages /\ task \in [Slots -> C!Task \cup {None}]
    /\ rows \subseteq Messages /\ replica \subseteq rows
    /\ dropped \subseteq Messages /\ interrupted \subseteq Messages
    /\ meets \in [Calls -> SUBSET rows] /\ due \in [Calls -> SUBSET rows]
    /\ met \subseteq rows /\ spoiled \subseteq rows

Nothing == [c \in Calls |-> {}]

Init ==
    /\ R!Init
    /\ body \in [Messages -> Payloads]
    /\ queue = Messages
    /\ task = [s \in Slots |-> None]
    /\ rows = {} /\ dropped = {} /\ interrupted = {}
    /\ meets = Nothing /\ met = {} /\ spoiled = {} /\ due = Nothing

----------------------------------------------------------------------------
Open(m) == \E s \in Slots : C!Invalidating(s) /\ task[s].msg = m

\* The GETs that run for the user of m.
GetsOf(m) == {c \in R!Running : R!UserOf(c) = C!UserOf(m)}

\* The answer of a GET owes its user every row whose invalidation is done, was
\* not cut short and is not spoiled.  A row is spoiled when
\*   - two GETs of its user meet its window,
\*   - a GET starts beside the one that met the window,
\*   - the window closes before the row is on the replica.
Begin(c, u) ==
    LET own == {m \in rows : C!UserOf(m) = u}
        open == {m \in own : Open(m)}
    IN
    /\ R!Start(c, u)
    /\ meets' = [meets EXCEPT ![c] = open]
    /\ met' = met \cup open
    /\ spoiled' = spoiled \cup (open \cap met) \cup UNION {meets[d] \cap own : d \in Calls}
    /\ due' = [due EXCEPT ![c] = own \ (open \cup interrupted \cup spoiled')]
    /\ UNCHANGED <<workerOnly, replica>>

Proceed(c) ==
    /\ R!CallStep(c)
    /\ meets' = IF call'[c] = None THEN [meets EXCEPT ![c] = {}] ELSE meets
    /\ due' = IF call'[c] = None THEN [due EXCEPT ![c] = {}] ELSE due
    /\ UNCHANGED <<workerOnly, met, spoiled>>

Work ==
    LET opened == {m \in Messages : ~Open(m) /\ Open(m)'}
        closed == {m \in Messages : Open(m) /\ ~Open(m)'}
    IN
    /\ C!Next
    /\ meets' = [c \in Calls |-> meets[c] \cup {m \in opened : c \in GetsOf(m)}]
    /\ met' = met \cup {m \in opened : GetsOf(m) # {}}
    /\ spoiled' = spoiled \cup {m \in opened : \E c, d \in GetsOf(m) : c # d}
                          \cup {m \in closed : m \notin replica}
    /\ UNCHANGED <<getOnly, replica, due>>

\* The TTL of a user's key is over: at any time, the clock itself stands still here.
Expire(u, k) ==
    /\ redis[u][k] # None
    /\ redis' = [redis EXCEPT ![u][k] = None]
    /\ UNCHANGED <<getOnly, workerOnly, body, replica, history>>

Replicate(m) ==
    /\ m \in rows \ replica
    /\ replica' = replica \cup {m}
    /\ UNCHANGED <<getOnly, workerOnly, redis, body, history>>

Next ==
    \/ \E c \in Calls, u \in Users : Begin(c, u)
    \/ \E c \in Calls : Proceed(c)
    \/ Work
    \/ \E u \in Users, k \in C!UserKeys : Expire(u, k)
    \/ \E m \in Messages : Replicate(m)

Spec == Init /\ [][Next]_vars
----------------------------------------------------------------------------
\* A user sees what he did: the feed answered to a GET that starts after the
\* invalidation for a row shows that row, also when a GET that had read the
\* history before the INSERT writes its feed after the DEL: the deleted
\* visit_last makes the next GET drop that feed.
ShowsOwnActions ==
    \A c \in R!Running :
        R!At(c, "done") => due[c] \subseteq call[c].feed
============================================================================
