--------------------------- MODULE ActionService ---------------------------
(***************************************************************************)
(* POST /action: ActionHandler, ActionService, the idempotency port and    *)
(* the RabbitMQ publisher, in several rhythm_service processes.            *)
(*                                                                         *)
(* A request is validated, reserves its Idempotency-Key, publishes its     *)
(* event and waits for the publisher confirm.  Every call to Redis or to   *)
(* the broker is a step of its own: requests of all processes interleave   *)
(* between them, each call may throw with or without its effect, and a     *)
(* process may crash at any point.                                         *)
(***************************************************************************)
CONSTANTS
    Requests,    \* the HTTP requests; a client's retry is another request
    Instances,   \* the rhythm_service processes behind the load balancer
    Payloads,    \* what the handler reads: the trimmed header, the JSON fields
    LongKeys,    \* the keys longer than 256 bytes
    Unreadable,  \* a field JsonFieldAsString throws for, or an unusable body
    WithRedis,   \* RHYTHM_WITH_REDIS: reservations in Redis, not in the process
    Redis        \* the name of the shared store

Fields == {"user_id", "action_type", "product_id", "idempotency_key"}
ActionTypes == {"view", "purchase", "cart_add", "like", "save"}

Keys   == {p.idempotency_key : p \in Payloads}
Users  == {p.user_id : p \in Payloads}
Stores == Instances \cup {Redis}

ASSUME ActionAssumption ==
    /\ WithRedis \in BOOLEAN
    /\ Redis \notin Instances
    /\ \A p \in Payloads : DOMAIN p = Fields

VARIABLES
    stage,      \* stage[r]: how far request r has come, or how it was answered
    body,       \* body[r]: the payload of r
    instance,   \* instance[r]: the process r is (or will be) routed to
    reserved,   \* reserved[s]: the keys the store s holds a reservation for
    wire,       \* messages on their way to the broker
    queue,      \* messages in rhythm.user.action, waiting for a consumer
    confirmed,  \* messages the broker has taken over (publisher confirms)
    lapsed      \* history: reservations that expired or died with a process

\* A message is identified with the request that published it.
inputVars   == <<body, instance>>
storeVars   == <<reserved, lapsed>>
brokerVars  == <<wire, queue, confirmed>>
vars        == <<stage, body, instance, reserved, wire, queue, confirmed, lapsed>>

InFlight == {"reserve", "publish", "confirm"}
Answers  == {"accepted", "duplicate", "bad_request"}
Stages   == {"idle", "dead"} \cup InFlight \cup Answers

----------------------------------------------------------------------------
\* The process-local store of one mutex, or the one Redis of all processes.
StoreOf(r) == IF WithRedis THEN Redis ELSE instance[r]
KeyOf(r)   == body[r].idempotency_key
Rivals(q, r) == KeyOf(q) = KeyOf(r) /\ StoreOf(q) = StoreOf(r)

\* The handler's checks, then the service's: header, body, fields, action type.
Valid(p) ==
    /\ p.idempotency_key \notin LongKeys
    /\ \A f \in Fields : p[f] \notin {"", Unreadable}
    /\ p.action_type \in ActionTypes

Goto(r, from, to) == stage[r] = from /\ stage' = [stage EXCEPT ![r] = to]

TypeOK ==
    /\ stage \in [Requests -> Stages]
    /\ body \in [Requests -> Payloads]
    /\ instance \in [Requests -> Instances]
    /\ reserved \in [Stores -> SUBSET Keys]
    /\ lapsed \in [Stores -> SUBSET Keys]
    /\ wire \subseteq Requests
    /\ queue \subseteq Requests
    /\ confirmed \subseteq Requests

Init ==
    /\ stage = [r \in Requests |-> "idle"]
    /\ body \in [Requests -> Payloads]
    /\ instance \in [Requests -> Instances]
    /\ reserved = [s \in Stores |-> {}]
    /\ lapsed = [s \in Stores |-> {}]
    /\ wire = {} /\ queue = {} /\ confirmed = {}

----------------------------------------------------------------------------
\* Mutant: the key is reserved before the fields are checked.
ReceiveReserves(r) ==
    /\ Goto(r, "idle", IF Valid(body[r]) THEN "reserve" ELSE "bad_request")
    /\ reserved' = IF Valid(body[r]) THEN reserved
                   ELSE [reserved EXCEPT ![StoreOf(r)] = @ \cup {KeyOf(r)}]
    /\ UNCHANGED <<inputVars, lapsed, brokerVars>>

\* A well-formed request goes on to TryReserve, any other is a 400.
Receive(r) ==
    /\ Goto(r, "idle", IF Valid(body[r]) THEN "reserve" ELSE "bad_request")
    /\ UNCHANGED <<inputVars, storeVars, brokerVars>>

\* Mutant: SET without NX.
ReserveAnyway(r) ==
    /\ Goto(r, "reserve", "publish")
    /\ reserved' = [reserved EXCEPT ![StoreOf(r)] = @ \cup {KeyOf(r)}]
    /\ UNCHANGED <<inputVars, lapsed, brokerVars>>

\* TryReserve: SET NX PX in Redis, test-and-insert under the mutex in memory.
Reserve(r) ==
    /\ Goto(r, "reserve", IF KeyOf(r) \in reserved[StoreOf(r)]
                          THEN "duplicate" ELSE "publish")
    /\ reserved' = [reserved EXCEPT ![StoreOf(r)] = @ \cup {KeyOf(r)}]
    /\ UNCHANGED <<inputVars, lapsed, brokerVars>>

\* Mutant: the handler catches nothing.
ReserveThrowsThrough(r) ==
    /\ WithRedis
    /\ Goto(r, "reserve", "internal_error")
    /\ UNCHANGED <<inputVars, storeVars, brokerVars>>

\* Redis fails or times out; the key may have been set all the same.
ReserveThrows(r) ==
    /\ WithRedis
    /\ Goto(r, "reserve", "bad_request")
    /\ \/ UNCHANGED reserved
       \/ reserved' = [reserved EXCEPT ![Redis] = @ \cup {KeyOf(r)}]
    /\ UNCHANGED <<inputVars, lapsed, brokerVars>>

\* PublishReliable writes the message and waits for the confirm.
Publish(r) ==
    /\ Goto(r, "publish", "confirm")
    /\ wire' = wire \cup {r}
    /\ UNCHANGED <<inputVars, storeVars, queue, confirmed>>

BrokerTakes(r) ==
    /\ r \in wire
    /\ wire' = wire \ {r}
    /\ queue' = queue \cup {r}
    /\ confirmed' = confirmed \cup {r}
    /\ UNCHANGED <<stage, inputVars, storeVars>>

\* The connection breaks before the broker has the message.
WireLoses(r) ==
    /\ r \in wire
    /\ wire' = wire \ {r}
    /\ UNCHANGED <<stage, inputVars, storeVars, queue, confirmed>>

\* Mutant: Publish instead of PublishReliable.
PublishReturnsAtOnce(r) ==
    /\ Goto(r, "confirm", "accepted")
    /\ UNCHANGED <<inputVars, storeVars, brokerVars>>

PublishReturns(r) ==
    /\ r \in confirmed
    /\ Goto(r, "confirm", "accepted")
    /\ UNCHANGED <<inputVars, storeVars, brokerVars>>

\* Mutant: no deadline on the confirm.
PublishThrowsEarly(r) ==
    /\ Goto(r, "publish", "bad_request")
    /\ UNCHANGED <<inputVars, storeVars, brokerVars>>

\* No connection, a broken one, or the five seconds are over: the handler's
\* catch answers 400.  The key stays reserved and the message may still arrive.
PublishThrows(r) ==
    /\ stage[r] \in {"publish", "confirm"}
    /\ Goto(r, stage[r], "bad_request")
    /\ UNCHANGED <<inputVars, storeVars, brokerVars>>

\* The 48 hours of kIdempotencyHold are over for key k.
Expire(s, k) ==
    /\ k \in reserved[s]
    /\ reserved' = [reserved EXCEPT ![s] = @ \ {k}]
    /\ lapsed' = [lapsed EXCEPT ![s] = @ \cup {k}]
    /\ UNCHANGED <<stage, inputVars, brokerVars>>

\* A process dies: its requests get no answer, its in-memory store is lost.
Crash(i) ==
    /\ stage' = [r \in Requests |->
                    IF instance[r] = i /\ stage[r] \in InFlight THEN "dead" ELSE stage[r]]
    /\ reserved' = [reserved EXCEPT ![i] = {}]
    /\ lapsed' = [lapsed EXCEPT ![i] = @ \cup reserved[i]]
    /\ UNCHANGED <<inputVars, brokerVars>>

Step(r) ==
    \/ Receive(r)
    \/ Reserve(r)
    \/ ReserveThrows(r)
    \/ Publish(r)
    \/ BrokerTakes(r)
    \/ WireLoses(r)
    \/ PublishReturns(r)
    \/ PublishThrows(r)

Next ==
    \/ \E r \in Requests : Step(r)
    \/ \E s \in Stores, k \in Keys : Expire(s, k)
    \/ \E i \in Instances : Crash(i)

\* A request's own coroutine runs on: its Redis call returns or throws, and the
\* publish has a deadline.  Clients, crashes and expiry owe nothing.
Fairness ==
    \A r \in Requests :
        /\ WF_vars(Reserve(r) \/ ReserveThrows(r))
        /\ WF_vars(Publish(r) \/ PublishThrows(r))
        /\ WF_vars(PublishReturns(r) \/ PublishThrows(r))

Spec == Init /\ [][Next]_vars /\ Fairness
----------------------------------------------------------------------------
\* Sent messages: on the wire, or taken over by the broker at some time.
Sent == wire \cup confirmed

\* While a reservation lasts, one message at most is sent under its key: the
\* repeats of a request, on any process that shares the store and however they
\* interleave with it, are not published again (README, POST /action).
NoDuplicateMessage ==
    \A q, r \in Sent :
        Rivals(q, r) /\ KeyOf(r) \notin lapsed[StoreOf(r)] => q = r

\* q is a repeat of r, or r of q: the same key for the same user.
Repeats(q, r) == Rivals(q, r) /\ body[q].user_id = body[r].user_id

\* The broker has the event of q, q still publishes it, or the client of q got an
\* error or no answer.
Accounted(q) ==
    \/ q \in confirmed
    \/ stage[q] \in {"publish", "confirm"}
    \/ stage[q] \in {"bad_request", "dead"} /\ Valid(body[q])

\* Behind a duplicate answer is another request of that key and user which is
\* accounted for: so an event is dropped with all its clients told 202 in one case
\* only, that its key was taken by a request of another user, which is accounted
\* for.  (Reservations are by key, not by user.)
LossIsVisible ==
    \A r \in Requests : stage[r] = "duplicate" =>
        \/ \E q \in Requests \ {r} : Repeats(q, r) /\ Accounted(q)
        \/ \E q \in Requests : Rivals(q, r) /\ ~Repeats(q, r) /\ Accounted(q)


\* A client may repeat its request safely (ttl_policy.hpp): an answer of 202,
\* duplicate or not, means that the event is at the broker or on its way.
RetryIsSafe ==
    \A r \in Requests : stage[r] \in {"accepted", "duplicate"} =>
        \E q \in Requests :
            Rivals(q, r) /\ (q \in Sent \/ stage[q] \in {"publish", "confirm"})

\* Every request is answered unless its process dies: a lost message or confirm
\* ends in the publish deadline, not in a request that waits for ever.
EveryRequestAnswered ==
    \A r \in Requests : stage[r] \in InFlight ~> stage[r] \notin InFlight
============================================================================
