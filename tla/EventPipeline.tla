--------------------------- MODULE EventPipeline ---------------------------
(***************************************************************************)
(* rhythm_service and rhythm_worker around one queue: ActionService puts   *)
(* messages in, UserActionConsumer takes them out, and every step of one   *)
(* may fall between any two steps of the other.  A message is the request  *)
(* that published it; what the service publishes is always well-formed.    *)
(* The exchange, the queue and its binding are not durable: a broker that  *)
(* restarts has none until a service process starts and declares them.     *)
(***************************************************************************)
EXTENDS Naturals, FiniteSets

CONSTANTS
    Requests, Instances, Payloads, LongKeys, Unreadable, WithRedis, Redis,
    Slots, Prefetch, WorkerWithRedis, BrokerMayRestart, CacheValues, None,
    Unstorable \* requests whose strings no INSERT takes (a NUL, too long for the index)

VARIABLES
    stage, body, instance, reserved, lapsed, wire, queue, confirmed,
    task, rows, redis, dropped, interrupted,
    topology, \* how far rhythm.user.action is declared at the broker
    unrouted  \* history: messages an exchange confirmed that no queue was bound to

serviceOnly == <<stage, instance, reserved, lapsed, wire, confirmed>>
workerOnly  == <<task, rows, redis, dropped, interrupted>>
vars        == <<serviceOnly, workerOnly, body, queue, topology, unrouted>>

A == INSTANCE ActionService
C == INSTANCE UserActionConsumer
         WITH Messages <- Requests, Ahead <- {},
              Shape <- [r \in Requests |-> IF r \in Unstorable THEN "refused" ELSE "good"]

ASSUME PipelineAssumption ==
    A!ActionAssumption /\ C!ConsumerAssumption /\ Unstorable \subseteq Requests

\* Without a binding the queue gets nothing, declared or not.
Topologies == {"none", "exchange", "bound"}

TypeOK == A!TypeOK /\ C!TypeOK /\ topology \in Topologies /\ unrouted \subseteq Requests

\* A broker that never restarts has been set up once and for all.  Whether an INSERT
\* takes a message is up to what is in it.
Init ==
    /\ A!Init
    /\ \A q, r \in Requests : body[q] = body[r] => (q \in Unstorable <=> r \in Unstorable)
    /\ task = [s \in Slots |-> None]
    /\ rows = {}
    /\ redis \in [C!Users -> [C!UserKeys -> CacheValues]]
    /\ dropped = {} /\ interrupted = {} /\ unrouted = {}
    /\ topology = IF BrokerMayRestart THEN "none" ELSE "bound"

\* The queue gets a message only if it is bound.
Service ==
    /\ A!Next
    /\ queue' # queue => topology = "bound"
    /\ UNCHANGED <<workerOnly, topology, unrouted>>

\* A message for an exchange that no queue is bound to yet: confirmed, and gone,
\* with no failure of the broker.
Discard(r) ==
    /\ topology = "exchange" /\ r \in wire
    /\ wire' = wire \ {r}
    /\ confirmed' = confirmed \cup {r}
    /\ unrouted' = unrouted \cup {r}
    /\ UNCHANGED <<stage, instance, reserved, lapsed, workerOnly, body, queue, topology>>

\* A service process starts: DeclareExchange, then DeclareQueue and BindQueue.
Declare ==
    /\ topology # "bound"
    /\ topology' = IF topology = "none" THEN "exchange" ELSE "bound"
    /\ UNCHANGED <<serviceOnly, workerOnly, body, queue, unrouted>>

Worker ==
    /\ (\E s \in Slots : C!SlotStep(s)) \/ C!ConnectionLost \/ C!WorkerCrash
    /\ UNCHANGED <<serviceOnly, topology, unrouted>>

\* With the broker go the topology, the messages and the connections.
BrokerRestart ==
    /\ C!BrokerRestart
    /\ topology' = "none" /\ wire' = {}
    /\ UNCHANGED <<stage, instance, reserved, lapsed, confirmed, unrouted>>

Next ==
    \/ Service \/ Worker
    \/ \E r \in Requests : Discard(r)
    \/ Declare
    \/ BrokerRestart

\* Each process is scheduled as in its own module.
RequestRuns(r) ==
    /\ WF_vars(Service /\ (A!Reserve(r) \/ A!ReserveThrows(r)))
    /\ WF_vars(Service /\ (A!Publish(r) \/ A!PublishThrows(r)))
    /\ WF_vars(Service /\ (A!PublishReturns(r) \/ A!PublishThrows(r)))
CoroutineRuns(s) ==
    /\ WF_vars(Worker /\ (C!Ack(s) \/ C!Invalidate(s) \/ C!InvalidateThrows(s)))
    /\ WF_vars(Worker /\ (C!InsertThrows(s) \/ C!Insert(s)))
MessageMoves(m) ==
    /\ SF_vars(Worker /\ \E s \in Slots : C!Deliver(s, m))
    /\ SF_vars(Worker /\ \E s \in Slots :
                   C!At(s, "process") /\ task[s].msg = m /\ C!Insert(s))

Fairness ==
    /\ \A r \in Requests : RequestRuns(r) /\ MessageMoves(r)
    /\ \A s \in Slots : CoroutineRuns(s)

Spec == Init /\ [][Next]_vars /\ Fairness
----------------------------------------------------------------------------
\* At work: some copy of m may still make a row.
AtWork(m) ==
    \/ m \in queue \cup C!Held
    \/ \E s \in C!Running : task[s].msg = m /\ task[s].step = "process"

\* Confirmed, and lost by the broker: with it, or for want of a binding.
LostAtBroker == dropped \cup unrouted

Fate(m) ==
    IF m \in rows THEN "stored"
    ELSE IF AtWork(m) THEN "pending"
    ELSE IF m \in LostAtBroker THEN "lost"
    ELSE IF m \in confirmed THEN "gone"
    ELSE "outside"

Ledger == INSTANCE EventLedger
    WITH Events <- Requests, MayLose <- BrokerMayRestart,
         fate <- [m \in Requests |-> Fate(m)],
         accepted <- {r \in Requests : stage[r] = "accepted"},
         label <- [m \in Requests |-> <<C!UserOf(m), body[m].idempotency_key>>]

\* The service and the worker together keep the promises of EventLedger,
\* through failed calls, redeliveries, crashes and expired reservations.
ImplementsLedger == Ledger!Spec

\* An event answered "accepted" (PublishReliable has its confirm) is in the table
\* under its user and key or at the broker.  There are two exceptions, and none
\* for a broker that stays up: it was there when the broker went down, or after a
\* restart an exchange with no queue confirmed it.
AcceptedIsKept ==
    \A r \in Requests : stage[r] = "accepted" =>
        \/ C!Stored(r)
        \/ r \in queue \cup C!Held
        \/ BrokerMayRestart /\ r \in LostAtBroker

\* An event answered "accepted" becomes a row of its user and key, unless the
\* broker loses it, once the worker and its connection stay up: if Postgres takes
\* its strings, and the messages it never takes, which come back for ever, leave
\* room on the channel.
WorkerStaysUp == <>[][~(Worker /\ (C!ConnectionLost \/ C!WorkerCrash))]_vars
AcceptedIsStored ==
    WorkerStaysUp /\ Cardinality(Unstorable) < Prefetch =>
        \A r \in Requests \ Unstorable :
            stage[r] = "accepted" ~> C!Stored(r) \/ r \in LostAtBroker
============================================================================
