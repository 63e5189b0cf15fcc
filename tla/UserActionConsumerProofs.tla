---------------------- MODULE UserActionConsumerProofs ----------------------
(***************************************************************************)
(* Proofs about UserActionConsumer, for any messages, coroutines, users    *)
(* and prefetch count.                                                     *)
(*                                                                         *)
(* A Process call that has come beyond its INSERT has its row (or a        *)
(* message not worth one), so that its ack gives nothing away; and while   *)
(* it invalidates, the keys before its next DEL are gone.                  *)
(***************************************************************************)
EXTENDS UserActionConsumer, TLAPS

PastInsertIsStored ==
    \A s \in Running : task[s].step # "process" =>
        (Shape[task[s].msg] = "good" /\ Stored(task[s].msg)) \/ Shape[task[s].msg] = "broken"

DeliveryInv == TypeOK /\ OneRowPerKey /\ PastInsertIsStored /\ NothingLost

\* The keys DELeted before the one of the given step.
Deleted == [feed |-> {}, gpt_rank |-> {"feed"}, visit_last |-> {"feed", "gpt_rank"}]

\* Coroutine s invalidates for m and has these keys behind it.
InHand(s, m) ==
    /\ Invalidating(s) /\ task[s].msg = m
    /\ \A k \in Deleted[task[s].step] : redis[UserOf(m)][k] = None

Gone(m) == \A k \in UserKeys : redis[UserOf(m)][k] = None

Handled(m) == m \in interrupted \/ (\E s \in Slots : InHand(s, m)) \/ Gone(m)

InvalidationGoesOn == \A m \in rows : Handled(m)

InvalidationInv == TypeOK /\ (WorkerWithRedis => InvalidationGoesOn)
----------------------------------------------------------------------------
LEMMA RunningTask ==
    ASSUME TypeOK, NEW s \in Running
    PROVE  /\ s \in Slots /\ task[s] \in Task
           /\ task[s].msg \in Messages /\ UserOf(task[s].msg) \in Users
  BY DEF TypeOK, Running, Task, UserOf, Users

LEMMA InitTypeOK == Init => TypeOK
  BY DEF Init, TypeOK

\* Every step of the worker, the broker and the connection keeps the types.
LEMMA StepTypeOK == TypeOK /\ [Next]_vars => TypeOK'
<1> SUFFICES ASSUME TypeOK, [Next]_vars PROVE TypeOK'
  OBVIOUS
<1> USE DEF TypeOK, At, Goto, Requeue
<1>1. ASSUME NEW s \in Slots, NEW m \in Messages, Deliver(s, m) PROVE TypeOK'
  BY <1>1 DEF Deliver, Task, Steps
<1>2. ASSUME NEW s \in Slots, Skip(s) PROVE TypeOK'
  BY <1>2, RunningTask DEF Skip, Task, Steps
<1>3. ASSUME NEW s \in Slots, Insert(s) PROVE TypeOK'
  BY <1>3, RunningTask DEF Insert, Task, Steps, UserKeys
<1>4. ASSUME NEW s \in Slots, Invalidate(s) PROVE TypeOK'
  <2>1. task[s].step \in UserKeys /\ s \in Running
    BY <1>4 DEF Invalidate, Invalidating
  <2>2. redis' \in [Users -> [UserKeys -> CacheValues \cup {None}]]
    BY <1>4, <2>1, RunningTask DEF Invalidate
  <2>3. Successor[task[s].step] \in Steps
    BY <2>1 DEF Successor, UserKeys, Steps
  <2> QED
    BY <1>4, <2>1, <2>2, <2>3, RunningTask DEF Invalidate, Task
<1>5. ASSUME NEW s \in Slots, Ack(s) PROVE TypeOK'
  BY <1>5 DEF Ack
<1>6. ASSUME NEW s \in Slots, InsertThrows(s) PROVE TypeOK'
  BY <1>6, RunningTask DEF InsertThrows
<1>7. ASSUME NEW s \in Slots, InvalidateThrows(s) PROVE TypeOK'
  <2>1. task[s].step \in UserKeys /\ s \in Running
    BY <1>7 DEF InvalidateThrows, Invalidating
  <2>2. redis' \in [Users -> [UserKeys -> CacheValues \cup {None}]]
    BY <1>7, <2>1, RunningTask DEF InvalidateThrows
  <2> QED
    BY <1>7, <2>1, <2>2, RunningTask DEF InvalidateThrows
<1>8. CASE ConnectionLost
  BY <1>8, RunningTask DEF ConnectionLost, Held, LiveSlots, Task
<1>9. CASE WorkerCrash
  BY <1>9, RunningTask DEF WorkerCrash, Held, LiveSlots
<1>10. CASE BrokerRestart
  BY <1>10, RunningTask DEF BrokerRestart, Held, LiveSlots, Task
<1>11. CASE UNCHANGED vars
  BY <1>11 DEF vars
<1> QED
  BY <1>1, <1>2, <1>3, <1>4, <1>5, <1>6, <1>7, <1>8, <1>9, <1>10, <1>11 DEF Next, SlotStep

\* The variables of UserActionConsumer keep their types.
THEOREM TypeCorrect == Spec => []TypeOK
  BY InitTypeOK, StepTypeOK, PTL DEF Spec
----------------------------------------------------------------------------
\* What is running after a step of coroutine s that leaves the others alone.
LEMMA OthersRunOn ==
    ASSUME TypeOK, NEW s \in Slots, NEW v, task' = [task EXCEPT ![s] = v]
    PROVE  /\ task'[s] = v
           /\ \A t \in Slots : t # s => task'[t] = task[t]
           /\ Running' \ {s} = Running \ {s}
           /\ Held' \subseteq Held \cup {task'[s].msg}
           /\ Held \subseteq Held' \cup {task[s].msg}
  BY DEF TypeOK, Running, Held, LiveSlots

\* A call that goes on to its next step still runs, for the same message.
LEMMA SameCallsRun ==
    ASSUME TypeOK, NEW s \in Running, NEW step \in Steps, Goto(s, step)
    PROVE  /\ Running' = Running /\ Held' = Held
           /\ task'[s].step = step /\ task'[s].msg = task[s].msg
           /\ \A t \in Slots \ {s} : task'[t] = task[t]
<1>1. task[s] \in Task /\ s \in Slots
  BY RunningTask
<1>2. task'[s] = [task[s] EXCEPT !.step = step]
  BY <1>1 DEF Goto, TypeOK
<1>3. /\ task'[s] \in Task /\ task'[s].step = step
      /\ task'[s].msg = task[s].msg /\ task'[s].live = task[s].live
  BY <1>1, <1>2 DEF Task
<1>4. \A t \in Slots \ {s} : task'[t] = task[t]
  BY DEF Goto, TypeOK
<1>5. Running' = Running
  BY <1>1, <1>3, <1>4, ConsumerAssumption DEF Running
<1>6. LiveSlots' = LiveSlots
  BY <1>1, <1>3, <1>4, <1>5 DEF LiveSlots, Running
<1>7. \A t \in LiveSlots : task'[t].msg = task[t].msg
  BY <1>3, <1>4 DEF LiveSlots, Running
<1> QED
  BY <1>3, <1>4, <1>5, <1>6, <1>7 DEF Held

\* Rows stay, so that what is stored stays stored.
LEMMA StoredStays ==
    ASSUME [Next]_vars
    PROVE  body' = body /\ rows \subseteq rows' /\ \A m \in Messages : Stored(m) => Stored(m)'
<1>1. body' = body /\ rows \subseteq rows'
  BY DEF Next, SlotStep, Deliver, Skip, Insert, Invalidate, Ack, InsertThrows, InvalidateThrows,
         ConnectionLost, WorkerCrash, BrokerRestart, Requeue, vars
<1> QED
  BY <1>1 DEF Stored, SameRow, UserOf

\* The unique index: a row is added only for a key that has none.
LEMMA StepOneRowPerKey == TypeOK /\ OneRowPerKey /\ [Next]_vars => OneRowPerKey'
<1> SUFFICES ASSUME TypeOK, OneRowPerKey, [Next]_vars PROVE OneRowPerKey'
  OBVIOUS
<1>1. rows' = rows \/ \E m \in Messages : ~Stored(m) /\ rows' = rows \cup {m}
  <2>1. ASSUME NEW s \in Slots, Insert(s) \/ InsertThrows(s)
        PROVE  rows' = rows \/ \E m \in Messages : ~Stored(m) /\ rows' = rows \cup {m}
    BY <2>1, RunningTask DEF Insert, InsertThrows, At
  <2> QED
    BY <2>1 DEF Next, SlotStep, Deliver, Skip, Invalidate, Ack, InvalidateThrows,
                ConnectionLost, WorkerCrash, BrokerRestart, vars
<1>2. \A m, n : SameRow(m, n)' <=> SameRow(m, n)
  BY StoredStays DEF SameRow, UserOf
<1>3. \A m, n : SameRow(m, n) <=> SameRow(n, m)
  BY DEF SameRow
<1> QED
  BY <1>1, <1>2, <1>3 DEF OneRowPerKey, Stored

\* However often a message is delivered and by however many coroutines at a
\* time it is processed, one key of one user has one row.
THEOREM RowsAreUnique == Spec => []OneRowPerKey
<1>1. Init => TypeOK /\ OneRowPerKey
  BY InitTypeOK DEF Init, OneRowPerKey
<1> QED
  BY <1>1, StepTypeOK, StepOneRowPerKey, PTL DEF Spec
----------------------------------------------------------------------------
LEMMA InitDelivery == Init => DeliveryInv
  BY InitTypeOK DEF Init, DeliveryInv, OneRowPerKey, PastInsertIsStored, NothingLost, Running

\* A step under which every running call was running before, at a step that is
\* no further, keeps PastInsertIsStored.
LEMMA NobodyGoesPastInsert ==
    ASSUME DeliveryInv, [Next]_vars,
           \A s \in Running' :
               \/ task'[s].step = "process"
               \/ s \in Running /\ task[s].step # "process" /\ task'[s].msg = task[s].msg
    PROVE  PastInsertIsStored'
  BY StoredStays, RunningTask DEF DeliveryInv, PastInsertIsStored

\* Each well-formed message that has left the queue or a live coroutine is
\* stored or gone with the broker.
LEMMA MessagesAreKept ==
    ASSUME DeliveryInv, [Next]_vars,
           \A m \in queue \cup Held \cup dropped :
               \/ m \in queue' \cup Held' \cup dropped'
               \/ Shape[m] = "good" => Stored(m)
    PROVE  NothingLost'
  BY StoredStays DEF DeliveryInv, NothingLost

LEMMA StepDelivery == DeliveryInv /\ [Next]_vars => DeliveryInv'
<1> SUFFICES ASSUME DeliveryInv, [Next]_vars PROVE DeliveryInv'
  OBVIOUS
<1>t. TypeOK /\ TypeOK' /\ OneRowPerKey'
  BY StepTypeOK, StepOneRowPerKey DEF DeliveryInv
<1> SUFFICES PastInsertIsStored' /\ NothingLost'
  BY <1>t DEF DeliveryInv
<1> DEFINE Kept == PastInsertIsStored' /\ NothingLost'
<1> USE DEF At, Goto, Requeue
<1>1. ASSUME NEW s \in Slots, NEW m \in Messages, Deliver(s, m) PROVE Kept
  <2>1. PastInsertIsStored'
    BY <1>1, <1>t, OthersRunOn, NobodyGoesPastInsert DEF Deliver, Running, TypeOK
  <2>2. m \in Held' /\ Held \subseteq Held'
    <3>1. task'[s] = [msg |-> m, step |-> "process", live |-> TRUE] /\ task'[s] \in Task
      BY <1>1, <1>t DEF Deliver, TypeOK, Task, Steps
    <3>2. \A t \in LiveSlots : task'[t] = task[t] /\ t \in LiveSlots'
      BY <1>1, <1>t DEF Deliver, TypeOK, LiveSlots, Running
    <3>3. s \in LiveSlots'
      BY <3>1, ConsumerAssumption DEF LiveSlots, Running
    <3> QED
      BY <3>1, <3>2, <3>3 DEF Held
  <2> QED
    BY <1>1, <2>1, <2>2, MessagesAreKept DEF Deliver
<1>2. ASSUME NEW s \in Slots, Skip(s) PROVE Kept
  <2>1. Held' = Held /\ Running' = Running
    BY <1>2, <1>t, SameCallsRun DEF Skip, Steps
  <2>2. PastInsertIsStored'
    BY <1>2, <1>t, <2>1, StoredStays DEF Skip, DeliveryInv, PastInsertIsStored, TypeOK, Task, Running
  <2> QED
    BY <1>2, <2>1, <2>2, MessagesAreKept DEF Skip
<1>3. ASSUME NEW s \in Slots, Insert(s) PROVE Kept
  <2>1. Held' = Held /\ Running' = Running
    BY <1>3, <1>t, SameCallsRun DEF Insert, Steps, UserKeys
  <2>2. Stored(task[s].msg)'
    BY <1>3, StoredStays, RunningTask, <1>t DEF Insert, Stored, SameRow, UserOf
  <2>3. PastInsertIsStored'
    BY <1>3, <1>t, <2>1, <2>2, StoredStays DEF Insert, DeliveryInv, PastInsertIsStored, TypeOK, Task, Running
  <2> QED
    BY <1>3, <2>1, <2>3, MessagesAreKept DEF Insert
<1>4. ASSUME NEW s \in Slots, Invalidate(s) PROVE Kept
  <2>s. Successor[task[s].step] \in Steps
    BY <1>4 DEF Invalidate, Invalidating, Successor, Steps, UserKeys
  <2>1. Held' = Held /\ Running' = Running
    BY <1>4, <1>t, <2>s, SameCallsRun DEF Invalidate, Invalidating
  <2>2. PastInsertIsStored'
    BY <1>4, <1>t, <2>1, NobodyGoesPastInsert
    DEF Invalidate, Invalidating, TypeOK, Task, Running, UserKeys
  <2> QED
    BY <1>4, <2>1, <2>2, MessagesAreKept DEF Invalidate
<1>5. ASSUME NEW s \in Slots, Ack(s) PROVE Kept
  <2>1. Shape[task[s].msg] = "good" => Stored(task[s].msg)
    BY <1>5 DEF Ack, DeliveryInv, PastInsertIsStored
  <2>2. Held \subseteq Held' \cup {task[s].msg}
    BY <1>5, <1>t, OthersRunOn DEF Ack
  <2>3. PastInsertIsStored'
    BY <1>5, <1>t, NobodyGoesPastInsert DEF Ack, Running, TypeOK
  <2> QED
    BY <1>5, <2>1, <2>2, <2>3, MessagesAreKept DEF Ack
<1>6. ASSUME NEW s \in Slots, InsertThrows(s) \/ InvalidateThrows(s) PROVE Kept
  <2>1. Held \subseteq Held' \cup queue'
    BY <1>6, <1>t DEF InsertThrows, InvalidateThrows, Held, LiveSlots, Running, TypeOK
  <2>2. PastInsertIsStored'
    BY <1>6, <1>t, NobodyGoesPastInsert DEF InsertThrows, InvalidateThrows, Running, TypeOK
  <2>3. queue \subseteq queue' /\ dropped' = dropped
    BY <1>6 DEF InsertThrows, InvalidateThrows
  <2> QED
    BY <2>1, <2>2, <2>3, MessagesAreKept
<1>7. CASE ConnectionLost \/ BrokerRestart
  <2>1. PastInsertIsStored'
    BY <1>7, <1>t, NobodyGoesPastInsert DEF ConnectionLost, BrokerRestart, Running, TypeOK, Task
  <2> QED
    BY <1>7, <2>1, MessagesAreKept DEF ConnectionLost, BrokerRestart
<1>8. CASE WorkerCrash
  <2>1. PastInsertIsStored'
    BY <1>8, <1>t, NobodyGoesPastInsert DEF WorkerCrash, Running, TypeOK
  <2> QED
    BY <1>8, <2>1, MessagesAreKept DEF WorkerCrash
<1>9. CASE UNCHANGED vars
  BY <1>9, NobodyGoesPastInsert, MessagesAreKept DEF vars, Running, Held, LiveSlots
<1> QED
  BY <1>1, <1>2, <1>3, <1>4, <1>5, <1>6, <1>7, <1>8, <1>9 DEF Next, SlotStep

\* A well-formed message leaves the broker for a row of its key, or with the
\* broker: no failure, redelivery or crash of the worker loses it.
THEOREM DeliveryLosesNothing == Spec => []NothingLost
<1>1. DeliveryInv => NothingLost
  BY DEF DeliveryInv
<1> QED
  BY <1>1, InitDelivery, StepDelivery, PTL DEF Spec
----------------------------------------------------------------------------
LEMMA InitInvalidation == Init => InvalidationInv
  BY InitTypeOK DEF Init, InvalidationInv, InvalidationGoesOn

\* No step sets a key: this module has no GET /recommend.
LEMMA KeysStayDeleted ==
    ASSUME TypeOK, [Next]_vars
    PROVE  /\ interrupted \subseteq interrupted'
           /\ \A u \in Users, k \in UserKeys : redis[u][k] = None => redis'[u][k] = None
<1>1. interrupted \subseteq interrupted'
  BY DEF Next, SlotStep, Deliver, Skip, Insert, Invalidate, Ack, InsertThrows, InvalidateThrows,
         ConnectionLost, WorkerCrash, BrokerRestart, Requeue, vars
<1>2. ASSUME NEW s \in Slots, Invalidate(s) \/ InvalidateThrows(s)
      PROVE  \A u \in Users, k \in UserKeys : redis[u][k] = None => redis'[u][k] = None
  <2>1. UserOf(task[s].msg) \in Users /\ task[s].step \in UserKeys
    BY <1>2, RunningTask DEF Invalidate, InvalidateThrows, Invalidating
  <2> QED
    BY <1>2, <2>1 DEF Invalidate, InvalidateThrows, TypeOK
<1>3. \/ redis' = redis
      \/ \E s \in Slots : Invalidate(s) \/ InvalidateThrows(s)
  BY DEF Next, SlotStep, Deliver, Skip, Insert, Ack, InsertThrows,
         ConnectionLost, WorkerCrash, BrokerRestart, Requeue, vars
<1> QED
  BY <1>1, <1>2, <1>3

\* A step that adds no row and leaves every invalidation where it is, or notes
\* that it was interrupted.
LEMMA InvalidationsGoOn ==
    ASSUME TypeOK, InvalidationGoesOn, [Next]_vars, rows' = rows,
           \A s \in Slots : Invalidating(s) =>
               \/ task[s].msg \in interrupted'
               \/ /\ Invalidating(s)' /\ task'[s].msg = task[s].msg
                  /\ task'[s].step = task[s].step
    PROVE  InvalidationGoesOn'
<1> SUFFICES ASSUME NEW m \in rows PROVE Handled(m)'
  BY DEF InvalidationGoesOn
<1>1. UserOf(m)' = UserOf(m) /\ UserOf(m) \in Users
  BY StoredStays DEF UserOf, Users, TypeOK
<1>2. CASE m \in interrupted \/ Gone(m)
  BY <1>1, <1>2, KeysStayDeleted DEF Handled, Gone
<1>3. ASSUME NEW s \in Slots, InHand(s, m) PROVE m \in interrupted' \/ InHand(s, m)'
  <2>1. Deleted[task[s].step] \subseteq UserKeys
    BY <1>3 DEF InHand, Invalidating, Deleted, UserKeys
  <2> QED
    BY <1>1, <1>3, <2>1, KeysStayDeleted DEF InHand
<1> QED
  BY <1>2, <1>3 DEF InvalidationGoesOn, Handled

LEMMA StepInvalidation == InvalidationInv /\ [Next]_vars => InvalidationInv'
<1> SUFFICES ASSUME InvalidationInv, [Next]_vars, WorkerWithRedis PROVE InvalidationGoesOn'
  BY StepTypeOK DEF InvalidationInv
<1>t. TypeOK /\ TypeOK' /\ InvalidationGoesOn
  BY StepTypeOK DEF InvalidationInv
<1> USE DEF At, Requeue
<1>1. ASSUME NEW s \in Slots, NEW m \in Messages, Deliver(s, m) PROVE InvalidationGoesOn'
  BY <1>1, <1>t, OthersRunOn, InvalidationsGoOn DEF Deliver, Invalidating, Running
<1>2. ASSUME NEW s \in Slots, Skip(s) PROVE InvalidationGoesOn'
  BY <1>2, <1>t, SameCallsRun, InvalidationsGoOn DEF Skip, Invalidating, Steps, UserKeys
<1>3. ASSUME NEW s \in Slots, Insert(s) PROVE InvalidationGoesOn'
  <2>1. s \in Running /\ task[s].step = "process"
    BY <1>3 DEF Insert
  <2>m. PICK m \in Messages : m = task[s].msg
    BY <2>1, <1>t, RunningTask
  <2>2. CASE Stored(m)
    BY <1>3, <1>t, <2>1, <2>m, <2>2, SameCallsRun, InvalidationsGoOn
    DEF Insert, Invalidating, Steps, UserKeys
  <2>3. CASE ~Stored(m)
    <3>1. rows' = rows \cup {m} /\ redis' = redis /\ interrupted' = interrupted /\ body' = body
      BY <1>3, <2>m, <2>3 DEF Insert
    <3>2. Goto(s, "feed") /\ "feed" \in Steps
      BY <1>3, <2>m, <2>3 DEF Insert, Steps, UserKeys
    <3>3. /\ Running' = Running /\ task'[s].step = "feed" /\ task'[s].msg = m
          /\ \A t \in Slots \ {s} : task'[t] = task[t]
      BY <2>1, <2>m, <3>2, <1>t, SameCallsRun
    <3>4. InHand(s, m)'
      BY <2>1, <3>3 DEF InHand, Invalidating, UserKeys, Deleted
    <3>5. \A t \in Slots, n \in Messages : InHand(t, n) => InHand(t, n)'
      BY <2>1, <3>1, <3>3 DEF InHand, Invalidating, UserKeys, UserOf
    <3>6. \A n \in rows : Gone(n) => Gone(n)'
      BY <3>1 DEF Gone, UserOf
    <3>7. s \in Slots /\ rows \subseteq Messages
      BY <1>t DEF TypeOK
    <3> QED
      BY <3>1, <3>4, <3>5, <3>6, <3>7, <1>t DEF InvalidationGoesOn, Handled
  <2> QED
    BY <2>2, <2>3
<1>4. ASSUME NEW s \in Slots, Invalidate(s) PROVE InvalidationGoesOn'
  <2>r. s \in Running
    BY <1>4 DEF Invalidate, Invalidating
  <2>m. PICK m \in Messages : m = task[s].msg
    BY <2>r, <1>t, RunningTask
  <2> DEFINE step == task[s].step
             u == UserOf(m)
  <2>1. s \in Running /\ step \in UserKeys /\ u \in Users
    BY <1>4, <1>t, <2>m, RunningTask DEF Invalidate, Invalidating
  <2>2. redis'[u][step] = None
    BY <1>4, <2>1, <2>m, <1>t DEF Invalidate, TypeOK
  <2>3. rows' = rows /\ body' = body /\ Goto(s, Successor[step]) /\ Successor[step] \in Steps
    BY <1>4, <2>1 DEF Invalidate, Successor, Steps, UserKeys
  <2>4. /\ Running' = Running /\ task'[s].step = Successor[step] /\ task'[s].msg = m
        /\ \A t \in Slots \ {s} : task'[t] = task[t]
    BY <2>1, <2>m, <2>3, <1>t, SameCallsRun
  <2>5. ASSUME NEW n \in rows, NEW t \in Slots \ {s}, InHand(t, n) PROVE InHand(t, n)'
    <3>1. Deleted[task[t].step] \subseteq UserKeys /\ UserOf(n) \in Users
      BY <2>5, <1>t DEF InHand, Invalidating, Deleted, UserKeys, TypeOK, UserOf, Users
    <3> QED
      BY <2>3, <2>4, <2>5, <3>1, <1>t, KeysStayDeleted DEF InHand, Invalidating, UserOf
  <2>6. ASSUME InHand(s, m) PROVE InHand(s, m)' \/ Gone(m)'
    <3>1. \A k \in Deleted[step] \cup {step} : redis'[u][k] = None
      BY <2>1, <2>2, <2>6, <1>t, KeysStayDeleted DEF InHand, Deleted, UserKeys
    <3>2. CASE step = "visit_last"
      BY <2>3, <3>1, <3>2 DEF Deleted, UserKeys, Gone, UserOf
    <3>3. CASE step # "visit_last"
      <4>1. Successor[step] \in UserKeys /\ Deleted[Successor[step]] = Deleted[step] \cup {step}
        BY <2>1, <3>3 DEF Successor, UserKeys, Deleted
      <4> QED
        BY <2>1, <2>3, <2>4, <3>1, <4>1 DEF InHand, Invalidating, UserOf
    <3> QED
      BY <3>2, <3>3
  <2>7. ASSUME NEW n \in rows, n \in interrupted \/ Gone(n) PROVE n \in interrupted' \/ Gone(n)'
    <3>1. UserOf(n)' = UserOf(n) /\ UserOf(n) \in Users
      BY <2>3, <1>t DEF UserOf, Users, TypeOK
    <3> QED
      BY <2>7, <3>1, <1>t, KeysStayDeleted DEF Gone
  <2>8. ASSUME NEW n \in rows, InHand(s, n) PROVE InHand(s, n)' \/ Gone(n)'
    <3>1. n = m
      BY <2>8, <2>m DEF InHand
    <3> QED
      BY <2>6, <2>8, <3>1
  <2> QED
    BY <2>3, <2>5, <2>7, <2>8, <1>t DEF InvalidationGoesOn, Handled
<1>5. ASSUME NEW s \in Slots, Ack(s) PROVE InvalidationGoesOn'
  BY <1>5, <1>t, OthersRunOn, InvalidationsGoOn DEF Ack, Invalidating, Running, UserKeys
<1>6. ASSUME NEW s \in Slots, InsertThrows(s) PROVE InvalidationGoesOn'
  <2>1. \A t \in Slots, n \in Messages : InHand(t, n) => InHand(t, n)'
    BY <1>6, <1>t, OthersRunOn DEF InsertThrows, InHand, Invalidating, Running, UserOf, UserKeys
  <2>2. \A n \in rows' : n \in rows \/ n \in interrupted'
    BY <1>6 DEF InsertThrows
  <2>3. \A n \in rows : Gone(n) => Gone(n)'
    BY <1>6 DEF InsertThrows, Gone, UserOf
  <2>4. rows \subseteq Messages /\ interrupted \subseteq interrupted'
    BY <1>t, KeysStayDeleted DEF TypeOK
  <2> QED
    BY <1>t, <2>1, <2>2, <2>3, <2>4 DEF InvalidationGoesOn, Handled
<1>7. ASSUME NEW s \in Slots, InvalidateThrows(s) PROVE InvalidationGoesOn'
  BY <1>7, <1>t, OthersRunOn, InvalidationsGoOn DEF InvalidateThrows, Invalidating, Running
<1>8. CASE ConnectionLost \/ BrokerRestart
  <2>1. \A s \in Running : task'[s] = [task[s] EXCEPT !.live = FALSE] /\ task'[s] \in Task
    BY <1>8, <1>t, RunningTask DEF ConnectionLost, BrokerRestart, Task
  <2>2. \A s \in Running : /\ task'[s].msg = task[s].msg
                          /\ task'[s].step = task[s].step
    BY <2>1, RunningTask, <1>t DEF Task
  <2>3. \A s \in Running : task'[s] # None
    BY <2>1, ConsumerAssumption
  <2>4. \A s \in Slots : Invalidating(s) =>
           Invalidating(s)' /\ task'[s].msg = task[s].msg /\ task'[s].step = task[s].step
    BY <2>2, <2>3 DEF Invalidating, Running, UserKeys
  <2>5. rows' = rows
    BY <1>8 DEF ConnectionLost, BrokerRestart
  <2> QED
    BY <1>t, <2>4, <2>5, InvalidationsGoOn
<1>9. CASE WorkerCrash
  BY <1>9, <1>t, InvalidationsGoOn DEF WorkerCrash, Invalidating, Running
<1>10. CASE UNCHANGED vars
  BY <1>10, <1>t, InvalidationsGoOn DEF vars, Invalidating, Running
<1> QED
  BY <1>1, <1>2, <1>3, <1>4, <1>5, <1>6, <1>7, <1>8, <1>9, <1>10 DEF Next, SlotStep

\* A new row is followed by the deletion of its user's three keys unless the
\* Process call that made it was cut short.
THEOREM Invalidates == Spec => []InvalidatedUnlessInterrupted
<1>1. InvalidationInv => InvalidatedUnlessInterrupted
  BY DEF InvalidationInv, InvalidationGoesOn, Handled, InHand, Gone, InvalidatedUnlessInterrupted
<1> QED
  BY <1>1, InitInvalidation, StepInvalidation, PTL DEF Spec
============================================================================
