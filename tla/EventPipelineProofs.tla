------------------------ MODULE EventPipelineProofs ------------------------
(***************************************************************************)
(* EventPipeline keeps what is accepted and implements EventLedger, for    *)
(* any requests, processes, coroutines and payloads.                       *)
(*                                                                         *)
(* Whatever the broker confirmed stays confirmed, so that the fate of an   *)
(* event follows from where copies of it are; a copy whose Process call is *)
(* beyond the INSERT may go, as its key has a row.                         *)
(***************************************************************************)
EXTENDS EventPipeline, TLAPS

\* A request publishes once, and its message arrives once.
SentOnce ==
    /\ wire \cap confirmed = {}
    /\ \A r \in Requests : stage[r] \in {"idle", "reserve", "publish"} => r \notin wire \cup confirmed

AcceptedIsConfirmed == \A r \in Requests : stage[r] = "accepted" => r \in confirmed

ConfirmedFirst ==
    queue \cup rows \cup {task[s].msg : s \in C!Running} \cup LostAtBroker \subseteq confirmed

PastInsertIsStored ==
    \A s \in C!Running : task[s].step # "process" => C!Stored(task[s].msg)

ConfirmedIsKept == \A m \in confirmed : m \in queue \cup C!Held \cup LostAtBroker \/ C!Stored(m)

LossNeedsRestart == LostAtBroker # {} \/ topology # "bound" => BrokerMayRestart

PipelineInv ==
    /\ TypeOK
    /\ SentOnce /\ AcceptedIsConfirmed
    /\ ConfirmedFirst /\ PastInsertIsStored /\ ConfirmedIsKept
    /\ LossNeedsRestart
----------------------------------------------------------------------------
LEMMA RunningTask ==
    ASSUME TypeOK, NEW s \in C!Running
    PROVE  /\ s \in Slots /\ task[s] \in C!Task /\ task[s].msg \in Requests
           /\ C!UserOf(task[s].msg) \in C!Users
  BY DEF TypeOK, C!TypeOK, C!Running, C!Task, C!UserOf, C!Users

LEMMA StoreAndKey ==
    ASSUME TypeOK, NEW r \in Requests
    PROVE  A!StoreOf(r) \in A!Stores /\ A!KeyOf(r) \in A!Keys
  BY DEF TypeOK, A!TypeOK, A!StoreOf, A!Stores, A!KeyOf, A!Keys

LEMMA InitTypeOK == Init => TypeOK
  BY DEF Init, TypeOK, A!Init, A!TypeOK, A!Stages, C!TypeOK, Topologies, C!Users, A!Users

\* A step of the service keeps the types.
LEMMA ServiceTypeOK == TypeOK /\ Service => TypeOK'
<1> SUFFICES ASSUME TypeOK, Service PROVE TypeOK'
  OBVIOUS
<1>1. C!TypeOK' /\ topology' \in Topologies /\ unrouted' \subseteq Requests
  <2>1. queue' \subseteq Requests /\ body' = body
    BY DEF Service, TypeOK, A!TypeOK, A!Next, A!Step, A!Receive, A!Reserve, A!ReserveThrows, A!Publish,
           A!BrokerTakes, A!WireLoses, A!PublishReturns, A!PublishThrows, A!Expire, A!Crash,
           A!inputVars, A!brokerVars
  <2> QED
    BY <2>1 DEF TypeOK, C!TypeOK, Service, workerOnly
<1> USE DEF A!TypeOK, A!Goto, A!inputVars, A!storeVars, A!brokerVars
<1>t. A!TypeOK
  BY DEF TypeOK
<1>2. ASSUME NEW r \in Requests, A!Step(r) PROVE A!TypeOK'
  <2>1. CASE A!Receive(r)
    BY <1>t, <2>1 DEF A!Receive, A!Stages, A!InFlight, A!Answers
  <2>2. CASE A!Reserve(r)
    <3>1. reserved' \in [A!Stores -> SUBSET A!Keys]
      BY <1>t, <2>2, StoreAndKey DEF A!Reserve
    <3> QED
      BY <1>t, <2>2, <3>1 DEF A!Reserve, A!Stages, A!InFlight, A!Answers
  <2>3. CASE A!ReserveThrows(r)
    <3>1. reserved' \in [A!Stores -> SUBSET A!Keys]
      BY <1>t, <2>3, StoreAndKey DEF A!ReserveThrows
    <3> QED
      BY <1>t, <2>3, <3>1 DEF A!ReserveThrows, A!Stages, A!InFlight, A!Answers
  <2>4. CASE A!Publish(r) \/ A!BrokerTakes(r) \/ A!WireLoses(r)
    BY <1>t, <2>4 DEF A!Publish, A!BrokerTakes, A!WireLoses, A!Stages, A!InFlight
  <2>5. CASE A!PublishReturns(r) \/ A!PublishThrows(r)
    BY <1>t, <2>5 DEF A!PublishReturns, A!PublishThrows, A!Stages, A!Answers
  <2> QED
    BY <1>2, <2>1, <2>2, <2>3, <2>4, <2>5 DEF A!Step
<1>3. ASSUME NEW s \in A!Stores, NEW k \in A!Keys, A!Expire(s, k) PROVE A!TypeOK'
  BY <1>t, <1>3 DEF A!Expire
<1>4. ASSUME NEW i \in Instances, A!Crash(i) PROVE A!TypeOK'
  BY <1>t, <1>4 DEF A!Crash, A!Stages
<1> QED
  BY <1>1, <1>2, <1>3, <1>4 DEF TypeOK, Service, A!Next

\* A step of the worker, of its connection or of the broker keeps the types.
LEMMA WorkerTypeOK == TypeOK /\ (Worker \/ BrokerRestart) => TypeOK'
<1> SUFFICES ASSUME TypeOK, Worker \/ BrokerRestart PROVE TypeOK'
  OBVIOUS
<1>1. topology' \in Topologies /\ unrouted' \subseteq Requests
  BY DEF Worker, BrokerRestart, TypeOK, Topologies
<1> USE DEF C!TypeOK, C!At, C!Goto, C!Requeue
<1>t. C!TypeOK
  BY DEF TypeOK
<1>2. ASSUME NEW s \in Slots, C!SlotStep(s) PROVE C!TypeOK'
  <2>1. ASSUME NEW m \in Requests, C!Deliver(s, m) PROVE C!TypeOK'
    BY <1>t, <2>1 DEF C!Deliver, C!Task, C!Steps
  <2>2. CASE C!Skip(s)
    BY <1>t, <2>2, RunningTask DEF C!Skip, C!Task, C!Steps
  <2>3. CASE C!Insert(s)
    BY <1>t, <2>3, RunningTask DEF C!Insert, C!Task, C!Steps, C!UserKeys
  <2>4. CASE C!Invalidate(s)
    <3>1. task[s].step \in C!UserKeys /\ s \in C!Running
      BY <2>4 DEF C!Invalidate, C!Invalidating
    <3>2. redis' \in [C!Users -> [C!UserKeys -> CacheValues \cup {None}]]
      BY <1>t, <2>4, <3>1, RunningTask DEF C!Invalidate
    <3>3. C!Successor[task[s].step] \in C!Steps
      BY <3>1 DEF C!Successor, C!UserKeys, C!Steps
    <3> QED
      BY <1>t, <2>4, <3>1, <3>2, <3>3, RunningTask DEF C!Invalidate, C!Task
  <2>5. CASE C!Ack(s)
    BY <1>t, <2>5 DEF C!Ack
  <2>6. CASE C!InsertThrows(s)
    BY <1>t, <2>6, RunningTask DEF C!InsertThrows
  <2>7. CASE C!InvalidateThrows(s)
    <3>1. task[s].step \in C!UserKeys /\ s \in C!Running
      BY <2>7 DEF C!InvalidateThrows, C!Invalidating
    <3>2. redis' \in [C!Users -> [C!UserKeys -> CacheValues \cup {None}]]
      BY <1>t, <2>7, <3>1, RunningTask DEF C!InvalidateThrows
    <3> QED
      BY <1>t, <2>7, <3>1, <3>2, RunningTask DEF C!InvalidateThrows
  <2> QED
    BY <1>2, <2>1, <2>2, <2>3, <2>4, <2>5, <2>6, <2>7 DEF C!SlotStep
<1>3. ASSUME C!ConnectionLost PROVE C!TypeOK'
  BY <1>t, <1>3, RunningTask DEF C!ConnectionLost, C!Held, C!LiveSlots, C!Task
<1>4. ASSUME C!WorkerCrash PROVE C!TypeOK'
  BY <1>t, <1>4, RunningTask DEF C!WorkerCrash, C!Held, C!LiveSlots
<1>5. ASSUME C!BrokerRestart PROVE C!TypeOK'
  BY <1>t, <1>5, RunningTask DEF C!BrokerRestart, C!Held, C!LiveSlots, C!Task
<1>6. C!TypeOK'
  <2>1. \/ \E s \in Slots : C!SlotStep(s)
        \/ C!ConnectionLost \/ C!WorkerCrash \/ C!BrokerRestart
    BY DEF Worker, BrokerRestart
  <2> QED
    BY <1>2, <1>3, <1>4, <1>5, <2>1, Zenon
<1>7. A!TypeOK'
  <2>1. wire' \subseteq Requests
    BY DEF Worker, BrokerRestart, serviceOnly, TypeOK, A!TypeOK
  <2> QED
    BY <1>6, <2>1 DEF Worker, BrokerRestart, serviceOnly, TypeOK, A!TypeOK
<1> QED
  BY <1>1, <1>6, <1>7 DEF TypeOK

LEMMA StepTypeOK == TypeOK /\ [Next]_vars => TypeOK'
<1> SUFFICES ASSUME TypeOK, [Next]_vars PROVE TypeOK'
  OBVIOUS
<1>1. ASSUME NEW r \in Requests, Discard(r) PROVE TypeOK'
  BY <1>1 DEF Discard, workerOnly, TypeOK, A!TypeOK, C!TypeOK
<1>2. CASE Declare
  BY <1>2 DEF Declare, serviceOnly, workerOnly, TypeOK, A!TypeOK, C!TypeOK, Topologies
<1>3. CASE UNCHANGED vars
  BY <1>3 DEF vars, serviceOnly, workerOnly, TypeOK, A!TypeOK, C!TypeOK
<1> QED
  BY <1>1, <1>2, <1>3, ServiceTypeOK, WorkerTypeOK DEF Next

\* The variables of both components and of the broker keep their types.
THEOREM TypeCorrect == Spec => []TypeOK
  BY InitTypeOK, StepTypeOK, PTL DEF Spec
----------------------------------------------------------------------------
LEMMA InitInv == Init => PipelineInv
  BY InitTypeOK DEF Init, A!Init, PipelineInv, SentOnce, AcceptedIsConfirmed, ConfirmedFirst,
                    PastInsertIsStored, ConfirmedIsKept, LossNeedsRestart, LostAtBroker, C!Running

\* What the other steps leave alone of the worker's side.
LEMMA WorkerFrame ==
    ASSUME UNCHANGED <<task, rows, body>>
    PROVE  /\ C!Running' = C!Running /\ C!Held' = C!Held
           /\ \A m : C!Stored(m)' <=> C!Stored(m)
  BY DEF C!Running, C!Held, C!LiveSlots, C!Stored, C!SameRow, C!UserOf

\* A step of the service: nothing reaches the broker, or one message its queue.
LEMMA ServiceSends ==
    ASSUME TypeOK, Service
    PROVE  /\ UNCHANGED <<task, rows, dropped, unrouted, body, topology>>
           /\ \/ UNCHANGED <<queue, confirmed>>
              \/ \E r \in wire : /\ wire' = wire \ {r} /\ stage' = stage
                                 /\ queue' = queue \cup {r} /\ confirmed' = confirmed \cup {r}
  BY DEF Service, workerOnly, A!Next, A!Step, A!Receive, A!Reserve, A!ReserveThrows, A!Publish,
         A!BrokerTakes, A!WireLoses, A!PublishReturns, A!PublishThrows, A!Expire, A!Crash,
         A!inputVars, A!brokerVars

LEMMA ServiceSendsOnce ==
    ASSUME PipelineInv, Service
    PROVE  SentOnce' /\ AcceptedIsConfirmed'
<1>t. TypeOK /\ A!TypeOK /\ SentOnce /\ AcceptedIsConfirmed
  BY DEF PipelineInv, TypeOK
<1> USE DEF SentOnce, AcceptedIsConfirmed, A!Goto, A!inputVars, A!storeVars, A!brokerVars, A!TypeOK
<1>1. ASSUME NEW r \in Requests, A!Step(r) PROVE SentOnce' /\ AcceptedIsConfirmed'
  <2>1. CASE A!Receive(r) \/ A!Reserve(r) \/ A!ReserveThrows(r)
    BY <1>t, <2>1 DEF A!Receive, A!Reserve, A!ReserveThrows
  <2>2. CASE A!Publish(r)
    BY <1>t, <2>2 DEF A!Publish
  <2>3. CASE A!BrokerTakes(r) \/ A!WireLoses(r)
    BY <1>t, <2>3 DEF A!BrokerTakes, A!WireLoses
  <2>4. CASE A!PublishReturns(r) \/ A!PublishThrows(r)
    BY <1>t, <2>4 DEF A!PublishReturns, A!PublishThrows
  <2> QED
    BY <1>1, <2>1, <2>2, <2>3, <2>4 DEF A!Step
<1>2. ASSUME NEW s \in A!Stores, NEW k \in A!Keys, A!Expire(s, k)
      PROVE  SentOnce' /\ AcceptedIsConfirmed'
  BY <1>t, <1>2 DEF A!Expire
<1>3. ASSUME NEW i \in Instances, A!Crash(i) PROVE SentOnce' /\ AcceptedIsConfirmed'
  BY <1>t, <1>3 DEF A!Crash
<1> QED
  BY <1>1, <1>2, <1>3 DEF Service, A!Next

LEMMA ServiceKeepsInv == PipelineInv /\ Service => PipelineInv'
<1> SUFFICES ASSUME PipelineInv, Service PROVE PipelineInv'
  OBVIOUS
<1>1. TypeOK /\ TypeOK'
  BY ServiceTypeOK DEF PipelineInv
<1>2. UNCHANGED <<task, rows, dropped, unrouted, body, topology>>
  BY <1>1, ServiceSends
<1>3. /\ C!Running' = C!Running /\ C!Held' = C!Held
      /\ \A m : C!Stored(m)' <=> C!Stored(m)
  BY <1>2, WorkerFrame
<1>4. queue \subseteq queue' /\ confirmed' \ confirmed = queue' \ queue /\ confirmed \subseteq confirmed'
  BY <1>1, ServiceSends DEF PipelineInv, SentOnce, ConfirmedFirst
<1> QED
  BY <1>1, <1>2, <1>3, <1>4, ServiceSendsOnce
  DEF PipelineInv, ConfirmedFirst, PastInsertIsStored, ConfirmedIsKept, LossNeedsRestart, LostAtBroker
----------------------------------------------------------------------------
\* What is running after a step of coroutine s that leaves the others alone.
LEMMA OthersRunOn ==
    ASSUME TypeOK, NEW s \in Slots, NEW v, task' = [task EXCEPT ![s] = v]
    PROVE  /\ task'[s] = v
           /\ \A t \in Slots : t # s => task'[t] = task[t]
           /\ C!Running' \ {s} = C!Running \ {s}
           /\ C!Held \subseteq C!Held' \cup {task[s].msg}
  BY DEF TypeOK, C!TypeOK, C!Running, C!Held, C!LiveSlots

\* A call that goes on to its next step still runs, for the same message.
LEMMA SameCallsRun ==
    ASSUME TypeOK, NEW s \in C!Running, NEW step \in C!Steps, C!Goto(s, step)
    PROVE  /\ C!Running' = C!Running /\ C!Held' = C!Held
           /\ task'[s].step = step /\ task'[s].msg = task[s].msg
           /\ \A t \in Slots \ {s} : task'[t] = task[t]
<1>1. task[s] \in C!Task /\ s \in Slots
  BY RunningTask
<1>2. task'[s] = [task[s] EXCEPT !.step = step]
  BY <1>1 DEF C!Goto, TypeOK, C!TypeOK
<1>3. /\ task'[s] \in C!Task /\ task'[s].step = step
      /\ task'[s].msg = task[s].msg /\ task'[s].live = task[s].live
  BY <1>1, <1>2 DEF C!Task
<1>4. \A t \in Slots \ {s} : task'[t] = task[t]
  BY DEF C!Goto, TypeOK, C!TypeOK
<1>5. C!Running' = C!Running
  BY <1>1, <1>3, <1>4, PipelineAssumption DEF C!Running, C!ConsumerAssumption
<1>6. C!LiveSlots' = C!LiveSlots
  BY <1>1, <1>3, <1>4, <1>5 DEF C!LiveSlots, C!Running
<1>7. \A t \in C!LiveSlots : task'[t].msg = task[t].msg
  BY <1>3, <1>4 DEF C!LiveSlots, C!Running
<1> QED
  BY <1>3, <1>4, <1>5, <1>6, <1>7 DEF C!Held

\* What is stored stays stored.
LEMMA StoredStays ==
    ASSUME Worker \/ BrokerRestart
    PROVE  /\ body' = body /\ rows \subseteq rows'
           /\ \A m : C!Stored(m) => C!Stored(m)'
<1>1. body' = body /\ rows \subseteq rows'
  BY DEF Worker, BrokerRestart, C!SlotStep, C!Deliver, C!Skip, C!Insert, C!Invalidate, C!Ack,
         C!InsertThrows, C!InvalidateThrows, C!ConnectionLost, C!WorkerCrash, C!BrokerRestart,
         C!Requeue
<1> QED
  BY <1>1 DEF C!Stored, C!SameRow, C!UserOf

\* The broker loses nothing it did not have, and what is lost stays lost.
LEMMA LossesGrow ==
    ASSUME Worker \/ BrokerRestart
    PROVE  /\ unrouted' = unrouted
           /\ dropped \subseteq dropped' /\ dropped' \subseteq dropped \cup queue \cup C!Held
  BY DEF Worker, BrokerRestart, C!SlotStep, C!Deliver, C!Skip, C!Insert, C!Invalidate, C!Ack,
         C!InsertThrows, C!InvalidateThrows, C!ConnectionLost, C!WorkerCrash, C!BrokerRestart,
         C!Requeue

\* A step under which every running call was running before, for its message
\* and no further, and every message that has left the queue and the live
\* coroutines has a row of its key.
LEMMA NothingIsGivenAway ==
    ASSUME PipelineInv, Worker \/ BrokerRestart, confirmed' = confirmed,
           queue' \subseteq queue \cup C!Held, rows' = rows,
           \A s \in C!Running' :
               /\ task'[s].msg \in confirmed
               /\ \/ task'[s].step = "process"
                  \/ s \in C!Running /\ task[s].step # "process" /\ task'[s].msg = task[s].msg,
           \A m \in queue \cup C!Held :
               m \in queue' \cup C!Held' \cup dropped' \/ C!Stored(m)
    PROVE  ConfirmedFirst' /\ PastInsertIsStored' /\ ConfirmedIsKept'
<1>1. C!Held \subseteq confirmed
  BY DEF PipelineInv, ConfirmedFirst, C!Held, C!LiveSlots
<1>2. LostAtBroker \subseteq LostAtBroker' /\ LostAtBroker' \subseteq confirmed
  BY <1>1, LossesGrow DEF PipelineInv, ConfirmedFirst, LostAtBroker
<1> QED
  BY <1>1, <1>2, StoredStays
  DEF PipelineInv, ConfirmedFirst, PastInsertIsStored, ConfirmedIsKept, LostAtBroker

LEMMA SlotStepKeeps ==
    ASSUME PipelineInv, Worker, NEW s \in Slots, C!SlotStep(s)
    PROVE  ConfirmedFirst' /\ PastInsertIsStored' /\ ConfirmedIsKept'
<1> DEFINE Kept == ConfirmedFirst' /\ PastInsertIsStored' /\ ConfirmedIsKept'
<1>t. TypeOK /\ TypeOK' /\ C!TypeOK /\ confirmed' = confirmed /\ unrouted' = unrouted
  BY WorkerTypeOK DEF PipelineInv, TypeOK, Worker, serviceOnly
<1>c. /\ queue \cup rows \cup LostAtBroker \subseteq confirmed
      /\ \A t \in C!Running : task[t].msg \in confirmed
  BY DEF PipelineInv, ConfirmedFirst
<1>p. \A t \in C!Running : task[t].step # "process" => C!Stored(task[t].msg)
  BY DEF PipelineInv, PastInsertIsStored
<1> USE DEF C!At
<1>1. ASSUME NEW m \in Requests, C!Deliver(s, m) PROVE Kept
  <2>1. task'[s] = [msg |-> m, step |-> "process", live |-> TRUE]
    BY <1>1, <1>t DEF C!Deliver, C!TypeOK
  <2>2. \A t \in C!Running' : t # s => t \in C!Running /\ task'[t] = task[t]
    BY <1>1, <1>t DEF C!Deliver, C!TypeOK, C!Running
  <2>3. task'[s] \in C!Task
    BY <2>1 DEF C!Task, C!Steps
  <2>4. \A t \in C!LiveSlots : task'[t] = task[t] /\ t \in C!LiveSlots'
    BY <1>1, <1>t DEF C!Deliver, C!TypeOK, C!LiveSlots, C!Running
  <2>5. s \in C!LiveSlots'
    BY <2>1, <2>3, PipelineAssumption DEF C!LiveSlots, C!Running, C!ConsumerAssumption
  <2>6. m \in C!Held' /\ C!Held \subseteq C!Held'
    BY <2>1, <2>4, <2>5 DEF C!Held
  <2> QED
    BY <1>1, <1>t, <1>c, <2>1, <2>2, <2>6, NothingIsGivenAway DEF C!Deliver
<1>2. C!Skip(s) => Kept
  BY DEF C!Skip, C!At, C!Running, TypeOK, C!TypeOK, C!Task, PipelineInv
<1>3. ASSUME C!Insert(s) PROVE Kept
  <2>1. C!Held' = C!Held /\ C!Running' = C!Running
    BY <1>3, <1>t, SameCallsRun DEF C!Insert, C!Steps, C!UserKeys
  <2>2. \A t \in C!Running : task'[t].msg = task[t].msg /\ (t # s => task'[t] = task[t])
    BY <1>3, <1>t, SameCallsRun DEF C!Insert, C!Steps, C!UserKeys, C!Running
  <2>3. C!Stored(task[s].msg)' /\ rows' \subseteq rows \cup {task[s].msg}
    <3>1. body' = body /\ rows \subseteq rows' /\ task'[s].msg = task[s].msg
      BY <1>3, <1>t, StoredStays, SameCallsRun DEF C!Insert, C!Steps, C!UserKeys
    <3>2. CASE C!Stored(task[s].msg)
      BY <1>3, <3>1, <3>2, StoredStays DEF C!Insert
    <3>3. CASE ~C!Stored(task[s].msg)
      <4>1. rows' = rows \cup {task[s].msg}
        BY <1>3, <3>3 DEF C!Insert
      <4> QED
        BY <3>1, <4>1 DEF C!Stored, C!SameRow, C!UserOf
    <3> QED
      BY <3>2, <3>3
  <2>4. ConfirmedFirst'
    BY <1>3, <1>t, <1>c, <2>1, <2>2, <2>3 DEF C!Insert, ConfirmedFirst, LostAtBroker
  <2>5. PastInsertIsStored'
    BY <1>p, <2>1, <2>2, <2>3, StoredStays DEF PastInsertIsStored
  <2> QED
    BY <1>3, <1>t, <2>1, <2>4, <2>5, StoredStays DEF C!Insert, PipelineInv, ConfirmedIsKept, LostAtBroker
<1>4. ASSUME C!Invalidate(s) PROVE Kept
  <2>1. C!Successor[task[s].step] \in C!Steps /\ C!Successor[task[s].step] # "process"
        /\ task[s].step # "process"
    BY <1>4 DEF C!Invalidate, C!Invalidating, C!Successor, C!Steps, C!UserKeys
  <2>2. C!Held' = C!Held /\ C!Running' = C!Running
    BY <1>4, <1>t, <2>1, SameCallsRun DEF C!Invalidate, C!Invalidating
  <2>3. \A t \in C!Running : task'[t].msg = task[t].msg /\ (t # s => task'[t] = task[t])
    BY <1>4, <1>t, <2>1, SameCallsRun DEF C!Invalidate, C!Invalidating, C!Running
  <2> QED
    BY <1>4, <1>t, <1>c, <2>1, <2>2, <2>3, NothingIsGivenAway DEF C!Invalidate
<1>5. ASSUME C!Ack(s) \/ C!InsertThrows(s) \/ C!InvalidateThrows(s) PROVE Kept
  <2>1. task' = [task EXCEPT ![s] = None] /\ s \in C!Running /\ task[s].msg \in Requests
    BY <1>5, <1>t, RunningTask
    DEF C!Ack, C!InsertThrows, C!InvalidateThrows, C!Requeue, C!Invalidating
  <2>2. \A t \in C!Running' : t # s /\ t \in C!Running /\ task'[t] = task[t]
    BY <1>t, <2>1 DEF C!Running, C!TypeOK
  <2>3. CASE C!Ack(s)
    <3>1. C!Stored(task[s].msg) /\ C!Held \subseteq C!Held' \cup {task[s].msg}
      BY <1>t, <1>p, <2>1, <2>3, OthersRunOn DEF C!Ack
    <3> QED
      BY <1>t, <1>c, <2>2, <2>3, <3>1, NothingIsGivenAway DEF C!Ack
  <2>4. CASE C!InsertThrows(s) \/ C!InvalidateThrows(s)
    <3>1. C!Held \subseteq C!Held' \cup queue'
      BY <2>4, <1>t, <2>1
      DEF C!InsertThrows, C!InvalidateThrows, C!Requeue, C!Held, C!LiveSlots, C!Running, C!TypeOK
    <3>2. /\ queue \subseteq queue' /\ queue' \subseteq queue \cup {task[s].msg}
          /\ dropped' = dropped /\ rows' \subseteq rows \cup {task[s].msg}
      BY <2>4 DEF C!InsertThrows, C!InvalidateThrows, C!Requeue
    <3>3. ConfirmedFirst'
      BY <1>t, <1>c, <2>1, <2>2, <3>2 DEF ConfirmedFirst, LostAtBroker
    <3>4. PastInsertIsStored'
      BY <1>p, <2>2, StoredStays DEF PastInsertIsStored
    <3> QED
      BY <1>t, <3>1, <3>2, <3>3, <3>4, StoredStays DEF PipelineInv, ConfirmedIsKept, LostAtBroker
  <2> QED
    BY <1>5, <2>3, <2>4
<1> QED
  BY <1>1, <1>2, <1>3, <1>4, <1>5 DEF C!SlotStep

LEMMA WorkerKeepsInv == PipelineInv /\ (Worker \/ BrokerRestart) => PipelineInv'
<1> SUFFICES ASSUME PipelineInv, Worker \/ BrokerRestart PROVE PipelineInv'
  OBVIOUS
<1>t. TypeOK /\ TypeOK' /\ C!TypeOK /\ confirmed' = confirmed
  BY WorkerTypeOK DEF PipelineInv, TypeOK, Worker, BrokerRestart, serviceOnly
<1>1. SentOnce' /\ AcceptedIsConfirmed'
  BY DEF PipelineInv, SentOnce, AcceptedIsConfirmed, Worker, BrokerRestart, serviceOnly
<1>2. LossNeedsRestart'
  BY DEF PipelineInv, LostAtBroker, LossNeedsRestart, Worker, BrokerRestart, C!BrokerRestart, C!SlotStep,
         C!Deliver, C!Skip, C!Insert, C!Invalidate, C!Ack, C!InsertThrows, C!InvalidateThrows,
         C!Requeue, C!ConnectionLost, C!WorkerCrash
<1>3. ASSUME C!ConnectionLost \/ C!WorkerCrash \/ C!BrokerRestart
      PROVE  ConfirmedFirst' /\ PastInsertIsStored' /\ ConfirmedIsKept'
  <2>1. \A s \in C!Running' :
            s \in C!Running /\ task'[s].step = task[s].step /\ task'[s].msg = task[s].msg
    BY <1>3, <1>t DEF C!ConnectionLost, C!WorkerCrash, C!BrokerRestart, C!Running, C!TypeOK, C!Task
  <2>2. /\ rows' = rows /\ queue' \subseteq queue \cup C!Held
        /\ queue \cup C!Held \subseteq queue' \cup dropped'
    BY <1>3 DEF C!ConnectionLost, C!WorkerCrash, C!BrokerRestart
  <2>3. \A s \in C!Running : task[s].msg \in confirmed
    BY DEF PipelineInv, ConfirmedFirst
  <2> QED
    BY <1>t, <2>1, <2>2, <2>3, NothingIsGivenAway
<1> QED
  BY <1>t, <1>1, <1>2, <1>3, SlotStepKeeps DEF PipelineInv, Worker, BrokerRestart

LEMMA StepInv == PipelineInv /\ [Next]_vars => PipelineInv'
<1> SUFFICES ASSUME PipelineInv, [Next]_vars PROVE PipelineInv'
  OBVIOUS
<1>t. TypeOK'
  BY StepTypeOK DEF PipelineInv
<1>1. ASSUME NEW r \in Requests, Discard(r) PROVE PipelineInv'
  <2>1. /\ C!Running' = C!Running /\ C!Held' = C!Held
        /\ \A m : C!Stored(m)' <=> C!Stored(m)
    BY <1>1, WorkerFrame DEF Discard, workerOnly
  <2> QED
    BY <1>1, <1>t, <2>1
    DEF Discard, PipelineInv, SentOnce, AcceptedIsConfirmed, ConfirmedFirst, PastInsertIsStored,
        ConfirmedIsKept, LossNeedsRestart, LostAtBroker, workerOnly
<1>2. ASSUME Declare \/ UNCHANGED vars PROVE PipelineInv'
  <2>1. UNCHANGED <<serviceOnly, workerOnly, body, queue, unrouted>> /\ (topology # "bound" \/ topology' = topology)
    BY <1>2 DEF Declare, vars
  <2>2. /\ C!Running' = C!Running /\ C!Held' = C!Held
        /\ \A m : C!Stored(m)' <=> C!Stored(m)
    BY <2>1, WorkerFrame DEF workerOnly
  <2> QED
    BY <1>t, <2>1, <2>2
    DEF serviceOnly, workerOnly, PipelineInv, SentOnce, AcceptedIsConfirmed, ConfirmedFirst,
        PastInsertIsStored, ConfirmedIsKept, LossNeedsRestart, LostAtBroker
<1> QED
  BY <1>1, <1>2, ServiceKeepsInv, WorkerKeepsInv DEF Next

\* An event answered "accepted" is in the table under its user and key or at the
\* broker, whatever fails, crashes or is redelivered: without exception if the
\* broker stays up; if it may restart, except for what went with it and what an
\* exchange without a queue confirmed after it.
THEOREM AcceptedEventsAreKept == Spec => []AcceptedIsKept
<1>1. PipelineInv => AcceptedIsKept
  BY DEF PipelineInv, AcceptedIsConfirmed, ConfirmedIsKept, LossNeedsRestart, AcceptedIsKept
<1> QED
  BY <1>1, InitInv, StepInv, PTL DEF Spec
----------------------------------------------------------------------------
(* The refinement of EventLedger. *)

Fated(m) ==
    /\ Fate(m) = "stored"  <=> m \in rows
    /\ Fate(m) = "pending" <=> m \notin rows /\ AtWork(m)
    /\ Fate(m) = "outside" <=> m \notin confirmed
    /\ Fate(m) = "lost"    <=> m \in LostAtBroker \ rows /\ ~AtWork(m)
    /\ Fate(m) = "gone"    <=> m \in confirmed \ (rows \cup LostAtBroker) /\ ~AtWork(m)
    /\ Fate(m) \in {"stored", "pending", "outside", "gone", "lost"}

AllFated == \A m \in Requests : Fated(m)

LEMMA FateCases == PipelineInv => AllFated
<1> SUFFICES ASSUME PipelineInv, NEW m \in Requests PROVE Fated(m)
  BY DEF AllFated
<1>1. m \in rows \cup LostAtBroker \/ AtWork(m) => m \in confirmed
  BY DEF PipelineInv, ConfirmedFirst, AtWork, C!Held, C!LiveSlots
<1> QED
  BY <1>1 DEF Fate, Fated

LEMMA FateCasesAfter == PipelineInv' => AllFated'
  BY FateCases, PTL

\* Being filed in the ledger is having a row of one's key.
LEMMA FiledIsStored ==
    ASSUME PipelineInv, NEW m \in Requests
    PROVE  Ledger!Filed(m) <=> C!Stored(m)
<1>1. rows \subseteq Requests
  BY DEF PipelineInv, TypeOK, C!TypeOK
<1> QED
  BY <1>1, FateCases DEF AllFated, Fated, Ledger!Filed, C!Stored, C!SameRow, C!UserOf

Accepted == {r \in Requests : stage[r] = "accepted"}

LEMMA Moves ==
    ASSUME NEW E, NEW to,
           \A m \in Requests : Fate(m)' = IF m \in E THEN to ELSE Fate(m)
    PROVE  Ledger!Move(E, to)
  BY DEF Ledger!Move

LEMMA SameLabels ==
    ASSUME body' = body
    PROVE  [m \in Requests |-> <<C!UserOf(m), body[m].idempotency_key>>]'
           = [m \in Requests |-> <<C!UserOf(m), body[m].idempotency_key>>]
  BY DEF C!UserOf

\* Copies that go without a row of their own: their key has one, or the broker
\* has lost the message.
LEMMA CopiesGo ==
    ASSUME PipelineInv, PipelineInv', UNCHANGED <<rows, confirmed, body>>, Accepted' = Accepted,
           \A m \in Requests \ rows : AtWork(m)' => AtWork(m),
           \A m \in Requests : m \in LostAtBroker' => m \in LostAtBroker \/ AtWork(m),
           LostAtBroker \subseteq LostAtBroker'
    PROVE  Ledger!Next
<1> DEFINE D == {m \in Requests \ rows : AtWork(m) /\ ~AtWork(m)'}
           L == {m \in D : m \in LostAtBroker'}
<1>1. \A m \in Requests :
          Fate(m)' = IF m \in L THEN "lost" ELSE IF m \in D THEN "gone" ELSE Fate(m)
  BY FateCases, FateCasesAfter DEF AllFated, Fated
<1>2. ASSUME NEW m \in D \ L PROVE C!Stored(m)
  <2>1. m \in confirmed'
    BY DEF PipelineInv, ConfirmedFirst, AtWork, C!Held, C!LiveSlots
  <2>2. C!Stored(m)'
    BY <2>1 DEF PipelineInv, ConfirmedIsKept, AtWork
  <2> QED
    BY <2>2 DEF C!Stored, C!SameRow, C!UserOf
<1>3. L # {} => BrokerMayRestart
  BY DEF PipelineInv, LossNeedsRestart
<1>4. \A m \in D : Fate(m) = "pending" /\ (m \notin L => Ledger!Filed(m))
  BY <1>2, FateCases, FiledIsStored DEF AllFated, Fated
<1>5. Ledger!GiveUp(D, L)
  BY <1>1, <1>3, <1>4, SameLabels DEF Ledger!GiveUp, Accepted
<1> QED
  BY <1>5 DEF Ledger!Next

\* A new row of a message at work.
LEMMA RowIsStore ==
    ASSUME PipelineInv, PipelineInv', UNCHANGED <<confirmed, body>>, Accepted' = Accepted,
           LostAtBroker' = LostAtBroker,
           NEW m \in Requests, AtWork(m), ~C!Stored(m), rows' = rows \cup {m},
           \A n \in Requests \ {m} : AtWork(n)' <=> AtWork(n)
    PROVE  Ledger!Next
<1>1. m \notin rows
  BY DEF C!Stored, C!SameRow
<1>2. \A n \in Requests : Fate(n)' = IF n \in {m} THEN "stored" ELSE Fate(n)
  BY FateCases, FateCasesAfter DEF AllFated, Fated
<1>3. Ledger!Store(m)
  BY <1>1, <1>2, FateCases, FiledIsStored, Moves, SameLabels DEF Ledger!Store, Accepted, AllFated, Fated
<1> QED
  BY <1>3 DEF Ledger!Next

\* A message that reaches the broker: it waits in the queue, or is lost at once.
LEMMA ArrivalIsEnter ==
    ASSUME PipelineInv, PipelineInv', UNCHANGED <<rows, body>>, Accepted' = Accepted,
           NEW r \in Requests, r \notin confirmed, confirmed' = confirmed \cup {r},
           \A n \in Requests \ {r} : AtWork(n)' <=> AtWork(n),
           \A n \in Requests \ {r} : n \in LostAtBroker' <=> n \in LostAtBroker,
           AtWork(r)' \/ (BrokerMayRestart /\ r \in LostAtBroker')
    PROVE  Ledger!Next
<1>1. r \notin rows
  BY DEF PipelineInv, ConfirmedFirst
<1>2. \/ \A n \in Requests : Fate(n)' = IF n \in {r} THEN "pending" ELSE Fate(n)
      \/ /\ BrokerMayRestart
         /\ \A n \in Requests : Fate(n)' = IF n \in {r} THEN "lost" ELSE Fate(n)
  BY <1>1, FateCases, FateCasesAfter DEF AllFated, Fated
<1>3. Ledger!Enter(r)
  BY <1>2, FateCases, Moves, SameLabels DEF Ledger!Enter, Accepted, AllFated, Fated
<1> QED
  BY <1>3 DEF Ledger!Next

\* An answer, or a step of nobody's event.
LEMMA AnswerIsAccept ==
    ASSUME PipelineInv, PipelineInv', UNCHANGED <<rows, confirmed, body>>,
           LostAtBroker' = LostAtBroker,
           \A n \in Requests : AtWork(n)' <=> AtWork(n),
           Accepted' = Accepted \/ \E r \in Requests \ Accepted : Accepted' = Accepted \cup {r}
    PROVE  [Ledger!Next]_Ledger!ledgerVars
<1>1. \A n \in Requests : Fate(n)' = Fate(n)
  BY FateCases, FateCasesAfter DEF AllFated, Fated
<1>2. CASE Accepted' = Accepted
  BY <1>1, <1>2, SameLabels DEF Ledger!ledgerVars, Accepted
<1>3. ASSUME NEW r \in Requests \ Accepted, Accepted' = Accepted \cup {r} PROVE Ledger!Next
  <2>1. r \in Accepted'
    BY <1>3
  <2>2. r \in confirmed
    BY <2>1 DEF Accepted, PipelineInv, AcceptedIsConfirmed
  <2>3. Ledger!Accept(r)
    BY <1>1, <1>3, <2>2, FateCases, SameLabels DEF Ledger!Accept, Accepted, AllFated, Fated
  <2> QED
    BY <2>3 DEF Ledger!Next
<1> QED
  BY <1>2, <1>3

\* Where copies are depends on the queue and the worker alone.
LEMMA AtWorkFrame ==
    ASSUME UNCHANGED <<task, rows, body>>, NEW n, n \in queue' <=> n \in queue
    PROVE  AtWork(n)' <=> AtWork(n)
  BY WorkerFrame DEF AtWork

LEMMA ServiceSimulates ==
    ASSUME PipelineInv, PipelineInv', Service
    PROVE  [Ledger!Next]_Ledger!ledgerVars
<1>t. TypeOK
  BY DEF PipelineInv
<1>1. UNCHANGED <<task, rows, body>> /\ LostAtBroker' = LostAtBroker
  BY <1>t, ServiceSends DEF LostAtBroker
<1>2. ASSUME NEW r \in wire, stage' = stage, queue' = queue \cup {r}, confirmed' = confirmed \cup {r}
      PROVE  Ledger!Next
  <2>1. r \in Requests /\ r \notin confirmed
    BY <1>t DEF TypeOK, A!TypeOK, PipelineInv, SentOnce
  <2>2. \A n \in Requests \ {r} : AtWork(n)' <=> AtWork(n)
    BY <1>1, <1>2, AtWorkFrame
  <2>3. AtWork(r)'
    BY <1>2 DEF AtWork
  <2>4. Accepted' = Accepted
    BY <1>2 DEF Accepted
  <2>5. \A n \in Requests \ {r} : n \in LostAtBroker' <=> n \in LostAtBroker
    BY <1>1
  <2> QED
    BY <1>1, <1>2, <2>1, <2>2, <2>3, <2>4, <2>5, ArrivalIsEnter
<1>3. CASE UNCHANGED <<queue, confirmed>>
  <2>1. \A n \in Requests : AtWork(n)' <=> AtWork(n)
    BY <1>1, <1>3, AtWorkFrame
  <2>2. \/ Accepted' = Accepted
        \/ \E r \in Requests \ Accepted : Accepted' = Accepted \cup {r}
    BY <1>t DEF Accepted, TypeOK, A!TypeOK, Service, A!Next, A!Step, A!Receive, A!Reserve,
                A!ReserveThrows, A!Publish, A!BrokerTakes, A!WireLoses, A!PublishReturns,
                A!PublishThrows, A!Expire, A!Crash, A!Goto, A!InFlight
  <2> QED
    BY <1>1, <1>3, <2>1, <2>2, AnswerIsAccept
<1> QED
  BY <1>t, <1>2, <1>3, ServiceSends

LEMMA SlotStepSimulates ==
    ASSUME PipelineInv, PipelineInv', Worker, NEW s \in Slots, C!SlotStep(s)
    PROVE  Ledger!Next
<1> DEFINE m == task[s].msg
<1>t. TypeOK /\ C!TypeOK
  BY DEF PipelineInv, TypeOK
<1>f. UNCHANGED <<confirmed, body>> /\ Accepted' = Accepted /\ LostAtBroker' = LostAtBroker
  BY StoredStays
  DEF Worker, serviceOnly, Accepted, LostAtBroker, C!SlotStep, C!Deliver, C!Skip, C!Insert,
      C!Invalidate, C!Ack, C!InsertThrows, C!InvalidateThrows, C!Requeue
<1>p. s \in C!Running /\ task[s].step # "process" => C!Stored(m)
  BY DEF PipelineInv, PastInsertIsStored
<1> USE DEF C!At
<1>1. ASSUME NEW n \in Requests, C!Deliver(s, n) PROVE Ledger!Next
  <2>1. n \in queue /\ queue' \subseteq queue
    BY <1>1 DEF C!Deliver
  <2>2. task'[s] = [msg |-> n, step |-> "process", live |-> TRUE]
    BY <1>1, <1>t DEF C!Deliver, C!TypeOK
  <2>3. \A t \in C!Running' : t # s => t \in C!Running /\ task'[t] = task[t]
    BY <1>1, <1>t DEF C!Deliver, C!TypeOK, C!Running
  <2>4. \A o \in Requests \ rows : AtWork(o)' => AtWork(o)
    BY <2>1, <2>2, <2>3 DEF AtWork, C!Held, C!LiveSlots
  <2> QED
    BY <1>1, <1>f, <2>4, CopiesGo DEF C!Deliver
<1>2. ~C!Skip(s)
  BY <1>t DEF C!Skip, C!Running, C!TypeOK, C!Task
<1>3. ASSUME C!Insert(s) PROVE Ledger!Next
  <2>1. /\ C!Running' = C!Running /\ C!Held' = C!Held
        /\ task'[s].step # "process"
        /\ \A t \in Slots \ {s} : task'[t] = task[t]
    BY <1>3, <1>t, SameCallsRun DEF C!Insert, C!Steps, C!UserKeys
  <2>2. s \in C!Running /\ m \in Requests /\ task[s].step = "process" /\ queue' = queue
    BY <1>3, <1>t, RunningTask DEF C!Insert
  <2>3. \A n \in Requests : AtWork(n)' => AtWork(n)
    BY <2>1, <2>2 DEF AtWork, C!Running
  <2>4. \A n \in Requests \ {m} : AtWork(n)' <=> AtWork(n)
    BY <2>1, <2>2 DEF AtWork, C!Running
  <2>5. AtWork(m)
    BY <2>2 DEF AtWork
  <2>6. CASE C!Stored(m)
    BY <1>3, <1>f, <2>3, <2>6, CopiesGo DEF C!Insert
  <2>7. CASE ~C!Stored(m)
    BY <1>3, <1>f, <2>2, <2>4, <2>5, <2>7, RowIsStore DEF C!Insert
  <2> QED
    BY <2>6, <2>7
<1>4. ASSUME C!Invalidate(s) PROVE Ledger!Next
  <2>1. /\ C!Successor[task[s].step] \in C!Steps /\ C!Successor[task[s].step] # "process"
        /\ s \in C!Running
    BY <1>4 DEF C!Invalidate, C!Invalidating, C!Successor, C!Steps, C!UserKeys
  <2>2. /\ C!Running' = C!Running /\ C!Held' = C!Held
        /\ task'[s].step # "process"
        /\ \A t \in Slots \ {s} : task'[t] = task[t]
    BY <1>4, <1>t, <2>1, SameCallsRun DEF C!Invalidate
  <2>3. \A n \in Requests : AtWork(n)' => AtWork(n)
    BY <1>4, <2>1, <2>2 DEF C!Invalidate, AtWork, C!Running
  <2> QED
    BY <1>4, <1>f, <2>3, CopiesGo DEF C!Invalidate
<1>5. ASSUME C!Ack(s) \/ C!InsertThrows(s) \/ C!InvalidateThrows(s) PROVE Ledger!Next
  <2>1. /\ task' = [task EXCEPT ![s] = None] /\ s \in C!Running /\ m \in Requests
        /\ queue \subseteq queue' /\ queue' \subseteq queue \cup {m}
        /\ m \in queue' \ queue => task[s].live
    BY <1>5, <1>t, RunningTask
    DEF C!Ack, C!InsertThrows, C!InvalidateThrows, C!Requeue, C!Invalidating
  <2>2. \A t \in C!Running' : t # s /\ t \in C!Running /\ task'[t] = task[t]
    BY <1>t, <2>1 DEF C!Running, C!TypeOK
  <2>3. \A t \in C!Running \ {s} : t \in C!Running' /\ task'[t] = task[t]
    BY <1>t, <2>1 DEF C!Running, C!TypeOK
  <2>4. task[s].live => m \in C!Held
    BY <2>1 DEF C!Held, C!LiveSlots
  <2>5. \A n \in Requests : AtWork(n)' => AtWork(n)
    BY <2>1, <2>2, <2>4 DEF AtWork, C!Held, C!LiveSlots
  <2>6. \A n \in Requests \ {m} : AtWork(n)' <=> AtWork(n)
    BY <2>1, <2>2, <2>3, <2>5 DEF AtWork, C!Held, C!LiveSlots
  <2>7. CASE rows' = rows
    BY <1>f, <2>5, <2>7, CopiesGo
  <2>8. CASE rows' # rows
    <3>1. /\ task[s].step = "process"
          /\ ~C!Stored(m) /\ rows' = rows \cup {m}
      BY <1>5, <2>8 DEF C!Ack, C!InsertThrows, C!InvalidateThrows
    <3>2. AtWork(m)
      BY <2>1, <3>1 DEF AtWork
    <3> QED
      BY <1>f, <2>1, <2>6, <3>1, <3>2, RowIsStore
  <2> QED
    BY <2>7, <2>8
<1> QED
  BY <1>1, <1>2, <1>3, <1>4, <1>5 DEF C!SlotStep

\* Every step of the pipeline is a step of the ledger or leaves it alone.
LEMMA StepSimulates ==
    PipelineInv /\ PipelineInv' /\ [Next]_vars => [Ledger!Next]_Ledger!ledgerVars
<1> SUFFICES ASSUME PipelineInv, PipelineInv', [Next]_vars
             PROVE  [Ledger!Next]_Ledger!ledgerVars
  OBVIOUS
<1>t. TypeOK /\ C!TypeOK
  BY DEF PipelineInv, TypeOK
<1>1. ASSUME NEW r \in Requests, Discard(r) PROVE Ledger!Next
  <2>1. /\ r \notin confirmed /\ BrokerMayRestart
        /\ LostAtBroker' = LostAtBroker \cup {r}
    BY <1>1 DEF Discard, workerOnly, LostAtBroker, PipelineInv, SentOnce, LossNeedsRestart
  <2>2. \A n \in Requests : AtWork(n)' <=> AtWork(n)
    BY <1>1, AtWorkFrame DEF Discard, workerOnly
  <2> QED
    BY <1>1, <2>1, <2>2, ArrivalIsEnter DEF Discard, workerOnly, Accepted
<1>2. ASSUME Declare \/ UNCHANGED vars PROVE [Ledger!Next]_Ledger!ledgerVars
  <2>1. /\ UNCHANGED <<task, rows, body, queue, confirmed>> /\ Accepted' = Accepted
        /\ LostAtBroker' = LostAtBroker
    BY <1>2 DEF Declare, vars, serviceOnly, workerOnly, Accepted, LostAtBroker
  <2>2. \A n \in Requests : AtWork(n)' <=> AtWork(n)
    BY <2>1, AtWorkFrame
  <2> QED
    BY <2>1, <2>2, AnswerIsAccept
<1>3. ASSUME Worker \/ BrokerRestart, C!ConnectionLost \/ C!WorkerCrash \/ C!BrokerRestart
      PROVE  Ledger!Next
  <2>1. /\ UNCHANGED <<confirmed, body, rows>> /\ Accepted' = Accepted
        /\ queue' \subseteq queue \cup C!Held
    BY <1>3 DEF Worker, BrokerRestart, serviceOnly, Accepted,
                C!ConnectionLost, C!WorkerCrash, C!BrokerRestart
  <2>2. /\ C!LiveSlots' = {}
        /\ \A s \in C!Running' :
              s \in C!Running /\ task'[s].step = task[s].step /\ task'[s].msg = task[s].msg
    BY <1>3, <1>t
    DEF C!ConnectionLost, C!WorkerCrash, C!BrokerRestart, C!LiveSlots, C!Running, C!TypeOK, C!Task
  <2>3. \A n \in Requests : AtWork(n)' => AtWork(n)
    BY <2>1, <2>2 DEF AtWork, C!Held
  <2>4. /\ LostAtBroker \subseteq LostAtBroker'
        /\ \A n \in Requests : n \in LostAtBroker' => n \in LostAtBroker \/ AtWork(n)
    BY <1>3, LossesGrow DEF LostAtBroker, AtWork
  <2> QED
    BY <2>1, <2>3, <2>4, CopiesGo
<1> QED
  BY <1>1, <1>2, <1>3, ServiceSimulates, SlotStepSimulates DEF Next, Worker, BrokerRestart

\* Service and worker together keep the promises of EventLedger.
THEOREM PipelineImplementsLedger == Spec => ImplementsLedger
<1>1. Init => Ledger!Init
  BY DEF Init, A!Init, Ledger!Init, Fate, AtWork, LostAtBroker, C!Held, C!LiveSlots, C!Running
<1> QED
  BY <1>1, InitInv, StepInv, StepSimulates, PTL DEF Spec, ImplementsLedger, Ledger!Spec

\* And so what the ledger promises is true of service and worker end to end: of the
\* events of one user under one key at most one is ever stored, and it stays; an
\* event that was accepted, and neither stored nor under way, was given up for that
\* row, or lost by a broker that may restart.
THEOREM PipelineKeepsPromise == Spec => []Ledger!Promise /\ Ledger!RowsStay
<1>1. Ledger!Spec => []Ledger!Promise
  BY Ledger!LedgerKeepsPromise
<1>2. Ledger!Spec => Ledger!RowsStay
  BY Ledger!LedgerRowsStay
<1>. QED
  BY <1>1, <1>2, PipelineImplementsLedger DEF ImplementsLedger
============================================================================
