------------------------- MODULE UserActionConsumer -------------------------
(***************************************************************************)
(* rhythm_worker: messages of rhythm.user.action become rows of            *)
(* user_actions, and a new row deletes the user's keys in Redis.           *)
(*                                                                         *)
(* The broker delivers up to prefetch_count messages at a time, each to a  *)
(* coroutine of its own.  Process returning is an ack, Process throwing a  *)
(* requeue.  Every call to Postgres or Redis is a step that may throw with *)
(* or without its effect; the connection, the worker and the broker may    *)
(* fail between any two steps.  A coroutine survives the loss of its       *)
(* connection: it runs on while its message is delivered again.            *)
(***************************************************************************)
EXTENDS Naturals, FiniteSets

CONSTANTS
    Messages,         \* the messages that reach the queue
    Shape,            \* Shape[m]: see Shapes
    Payloads,         \* the contents of well-formed messages
    Ahead,            \* <<m, n>>: m is nearer to the head of the queue than n
    Slots,            \* coroutines running Process (bounds how many at once)
    Prefetch,         \* prefetch_count of the consumer's channel
    WorkerWithRedis,  \* RHYTHM_WORKER_WITH_REDIS
    BrokerMayRestart, \* messages are kTransient: a restart loses them
    CacheValues,      \* what a key of Redis may hold
    None              \* an absent key, an idle coroutine

\* good: the four fields as strings; broken: not JSON or a field missing;
\* refused: a field that As<std::string> throws for, or a string no INSERT takes.
Shapes   == {"good", "broken", "refused"}
UserKeys == {"feed", "gpt_rank", "visit_last"}

\* A running Process call: its message, its next call, and whether its channel
\* still lives.
Steps == {"process", "ack"} \cup UserKeys
Task  == [msg : Messages, step : Steps, live : BOOLEAN]

ASSUME ConsumerAssumption ==
    /\ Shape \in [Messages -> Shapes]
    /\ Ahead \subseteq Messages \X Messages
    /\ Prefetch \in Nat \ {0}
    /\ IsFiniteSet(Slots)
    /\ WorkerWithRedis \in BOOLEAN /\ BrokerMayRestart \in BOOLEAN
    /\ None \notin CacheValues /\ None \notin Task

VARIABLES
    queue,       \* messages waiting in the queue
    body,        \* body[m]: the payload of m
    task,        \* task[s]: the Process call of coroutine s, or None
    rows,        \* the messages whose INSERT made a row of user_actions
    redis,       \* redis[u][k]: the user's keys
    dropped,     \* history: messages lost with the broker
    interrupted  \* history: messages whose row is in and whose Process died

vars == <<queue, body, task, rows, redis, dropped, interrupted>>

Users == {p.user_id : p \in Payloads}

TypeOK ==
    /\ queue \subseteq Messages
    /\ body \in [Messages -> Payloads]
    /\ task \in [Slots -> Task \cup {None}]
    /\ rows \subseteq Messages
    /\ redis \in [Users -> [UserKeys -> CacheValues \cup {None}]]
    /\ dropped \subseteq Messages
    /\ interrupted \subseteq Messages

\* Messages are in the queue from the start: one that comes later is one that
\* waits longer.  The users have been here before, their keys are set.
\* What is not well-formed gets no row: whose it is makes no difference.
Init ==
    /\ queue = Messages
    /\ body \in [Messages -> Payloads]
    /\ \A m \in Messages : Shape[m] # "good" => body[m] = CHOOSE p \in Payloads : TRUE
    /\ task = [s \in Slots |-> None]
    /\ rows = {}
    /\ redis \in [Users -> [UserKeys -> CacheValues]]
    /\ dropped = {} /\ interrupted = {}

----------------------------------------------------------------------------
UserOf(m)   == body[m].user_id
SameRow(m, n) == UserOf(m) = UserOf(n) /\ body[m].idempotency_key = body[n].idempotency_key

\* Mutant: the key of the table is the message, not (user_id, idempotency_key).
StoredItself(m) == m \in rows

\* The unique index user_actions_user_id_idem_uidx.
Stored(m) == \E n \in rows : SameRow(m, n)

Running   == {s \in Slots : task[s] # None}
LiveSlots == {s \in Running : task[s].live}
Held      == {task[s].msg : s \in LiveSlots}  \* unacked at the broker

\* Coroutine s is between the INSERT that made the row and its last DEL.
Invalidating(s) == s \in Running /\ task[s].step \in UserKeys

At(s, step) == s \in Running /\ task[s].step = step
Goto(s, step) == task' = [task EXCEPT ![s].step = step]

----------------------------------------------------------------------------
\* A requeued message goes back to its old place, not to the end.
Deliver(s, m) ==
    /\ s \notin Running
    /\ m \in queue
    /\ \A n \in queue : <<n, m>> \notin Ahead
    /\ Cardinality(LiveSlots) < Prefetch
    /\ queue' = queue \ {m}
    /\ task' = [task EXCEPT ![s] = [msg |-> m, step |-> "process", live |-> TRUE]]
    /\ UNCHANGED <<body, rows, redis, dropped, interrupted>>

\* Not JSON, or a field missing: log, ack and skip.
Skip(s) ==
    /\ At(s, "process")
    /\ Shape[task[s].msg] = "broken"
    /\ Goto(s, "ack")
    /\ UNCHANGED <<queue, body, rows, redis, dropped, interrupted>>

\* INSERT ... ON CONFLICT (user_id, idempotency_key) DO NOTHING.  A new row is
\* followed by the invalidation, which without Redis is only a log line.
Insert(s) ==
    LET m == task[s].msg IN
    /\ At(s, "process")
    /\ Shape[m] = "good"
    /\ rows' = IF Stored(m) THEN rows ELSE rows \cup {m}
    /\ Goto(s, IF ~Stored(m) /\ WorkerWithRedis THEN "feed" ELSE "ack")
    /\ UNCHANGED <<queue, body, redis, dropped, interrupted>>

\* Mutants: the GPT key is left out; visit_last is left out; no ack follows.
SuccessorNoRank  == [feed |-> "visit_last", gpt_rank |-> "visit_last", visit_last |-> "ack"]
SuccessorNoVisit == [feed |-> "gpt_rank", gpt_rank |-> "ack", visit_last |-> "ack"]
SuccessorAstray  == [feed |-> "gpt_rank", gpt_rank |-> "visit_last", visit_last |-> "end"]

\* InvalidateAfterUserAction: three DELs, one after the other.
Successor == [feed |-> "gpt_rank", gpt_rank |-> "visit_last", visit_last |-> "ack"]

Invalidate(s) ==
    /\ Invalidating(s)
    /\ redis' = [redis EXCEPT ![UserOf(task[s].msg)][task[s].step] = None]
    /\ Goto(s, Successor[task[s].step])
    /\ UNCHANGED <<queue, body, rows, dropped, interrupted>>

\* Process has returned.
Ack(s) ==
    /\ At(s, "ack")
    /\ task' = [task EXCEPT ![s] = None]
    /\ UNCHANGED <<queue, body, rows, redis, dropped, interrupted>>

\* An exception leaves Process: the message is requeued.
Requeue(s) ==
    /\ queue' = IF task[s].live THEN queue \cup {task[s].msg} ELSE queue
    /\ task' = [task EXCEPT ![s] = None]
    /\ UNCHANGED <<body, dropped>>

\* Mutant: Process catches the exception, the message is acked.
InsertThrowsCaught(s) ==
    /\ At(s, "process")
    /\ Shape[task[s].msg] # "broken"
    /\ Goto(s, "ack")
    /\ UNCHANGED <<queue, body, rows, redis, dropped, interrupted>>

\* The INSERT fails or a field is refused; of a good one the row may be in all the same.
InsertThrows(s) ==
    LET m == task[s].msg IN
    /\ At(s, "process")
    /\ Shape[m] # "broken"
    /\ \/ UNCHANGED <<rows, interrupted>>
       \/ /\ Shape[m] = "good" /\ ~Stored(m)
          /\ rows' = rows \cup {m}
          /\ interrupted' = interrupted \cup {m}
    /\ Requeue(s)
    /\ UNCHANGED redis

InvalidateThrows(s) ==
    LET m == task[s].msg IN
    /\ Invalidating(s)
    /\ \/ UNCHANGED redis
       \/ redis' = [redis EXCEPT ![UserOf(m)][task[s].step] = None]
    /\ interrupted' = interrupted \cup {m}
    /\ Requeue(s)
    /\ UNCHANGED rows

\* The channel is gone: the broker takes the unacked messages back.
ConnectionLost ==
    /\ LiveSlots # {}
    /\ queue' = queue \cup Held
    /\ task' = [s \in Slots |-> IF s \in Running
                                THEN [task[s] EXCEPT !.live = FALSE] ELSE None]
    /\ UNCHANGED <<body, rows, redis, dropped, interrupted>>

WorkerCrash ==
    /\ Running # {}
    /\ queue' = queue \cup Held
    /\ task' = [s \in Slots |-> None]
    /\ interrupted' = interrupted \cup {task[s].msg : s \in {t \in Running : Invalidating(t)}}
    /\ UNCHANGED <<body, rows, redis, dropped>>

BrokerRestart ==
    /\ BrokerMayRestart
    /\ dropped' = dropped \cup queue \cup Held
    /\ queue' = {}
    /\ task' = [s \in Slots |-> IF s \in Running
                                THEN [task[s] EXCEPT !.live = FALSE] ELSE None]
    /\ UNCHANGED <<body, rows, redis, interrupted>>

SlotStep(s) ==
    \/ \E m \in Messages : Deliver(s, m)
    \/ Skip(s)
    \/ Insert(s)
    \/ Invalidate(s)
    \/ Ack(s)
    \/ InsertThrows(s)
    \/ InvalidateThrows(s)

Next ==
    \/ \E s \in Slots : SlotStep(s)
    \/ ConnectionLost
    \/ WorkerCrash
    \/ BrokerRestart

\* The broker pushes the head of the queue when the channel has room, and the
\* coroutines are scheduled.  An INSERT may fail often, but one that is tried
\* again and again is done at last.
Fairness ==
    /\ \A s \in Slots : WF_vars(Skip(s) \/ Ack(s) \/ Invalidate(s) \/ InvalidateThrows(s))
    /\ \A s \in Slots : WF_vars(InsertThrows(s) \/ Insert(s))
    /\ \A m \in Messages :
        /\ SF_vars(\E s \in Slots : Deliver(s, m))
        /\ SF_vars(\E s \in Slots : At(s, "process") /\ task[s].msg = m /\ Insert(s))

Spec == Init /\ [][Next]_vars /\ Fairness

----------------------------------------------------------------------------
\* However often a message is delivered, and by however many coroutines at a
\* time, the key of one user has one row (sql/002_user_actions.sql).
OneRowPerKey == \A m, n \in rows : SameRow(m, n) => m = n

\* A well-formed message leaves the broker only for a row of its key or with
\* the broker: failures, redeliveries and crashes of the worker lose nothing.
NothingLost ==
    \A m \in Messages : Shape[m] = "good" =>
        m \in queue \cup Held \cup dropped \/ Stored(m)

\* A new row is followed by the deletion of all three keys of its user, unless
\* the Process call that made the row was cut short.
InvalidatedUnlessInterrupted ==
    WorkerWithRedis =>
        \A m \in rows :
            \/ m \in interrupted
            \/ \E s \in Slots : Invalidating(s) /\ task[s].msg = m
            \/ \A k \in UserKeys : redis[UserOf(m)][k] = None

\* The same without the exception, once nothing is left to do for the message:
\* "after INSERT: feed, GPT cache, visit_last" (redis_rhythm_data.hpp).
InvalidatedOnInsert ==
    WorkerWithRedis =>
        \A m \in rows :
            \/ m \in queue
            \/ \E s \in Running : task[s].msg = m
            \/ \A k \in UserKeys : redis[UserOf(m)][k] = None

\* Once connection and worker stay up, a well-formed message gets its row,
\* although calls fail again and again and refused messages, requeued at the
\* head, come back for ever: as long as these leave room on the channel.
Refused    == {m \in Messages : Shape[m] = "refused"}
StaysUp    == <>[][~(ConnectionLost \/ WorkerCrash)]_vars
StoredAtLast ==
    StaysUp /\ Cardinality(Refused) < Prefetch =>
        \A m \in Messages : Shape[m] = "good" =>
            (m \in queue ~> Stored(m) \/ m \in dropped)
============================================================================
