--------------------- MODULE AdvertisementGatewayProofs ---------------------
(***************************************************************************)
(* Theorems of AdvertisementGateway for every number of tasks, every queue *)
(* and batch size and every set of statuses.                               *)
(***************************************************************************)
EXTENDS AdvertisementGateway, BatchQueueTheorems

----------------------------------------------------------------------------
(* Type correctness.                                                       *)

LEMMA TypeInit == Init => TypeOK
<1> SUFFICES ASSUME Init PROVE TypeOK
  OBVIOUS
<1>1. QueueTypeOK
  BY QueueAssumption, EmptySeq DEF Init, QueueInit, QueueTypeOK
<1>2. <<>> \in Seq(Nat)
  BY EmptySeq
<1>3. request \in [Tasks -> [batch: Seq(Nat), bearer: BOOLEAN]]
  BY <1>2 DEF Init, NoRequest
<1>4. sk \in [address: BOOLEAN, token: BOOLEAN, connected: BOOLEAN]
  BY DEF Init
<1>5. pc \in [Tasks -> Places]
  BY DEF Init, Places
<1>6. mutex \notin Tasks /\ mutex # Ble /\ mutex \in Threads \union {Free}
  BY GatewayAssumption DEF Init, Threads
<1>7. /\ running \in BOOLEAN /\ app = "idle" /\ seen \subseteq Nat
      /\ callback \in 0..MaxObservations /\ received \in 0..MaxObservations
      /\ delivered \in 0..CounterModulus - 1
      /\ filtered \in Nat /\ droppedQueueFull \in Nat
      /\ droppedLockTimeout \in Nat /\ droppedInvalid \in Nat /\ acked \in Nat
  <2>1. running \in BOOLEAN /\ app = "idle"
    BY DEF Init
  <2>2. seen \subseteq Nat
    BY DEF Init
  <2>3. callback \in 0..MaxObservations /\ received \in 0..MaxObservations
    BY GatewayAssumption DEF Init
  <2>4. delivered \in 0..CounterModulus - 1
    BY GatewayAssumption DEF Init
  <2>5. /\ filtered \in Nat /\ droppedQueueFull \in Nat
        /\ droppedLockTimeout \in Nat /\ droppedInvalid \in Nat /\ acked \in Nat
    BY DEF Init
  <2> QED BY <2>1, <2>2, <2>3, <2>4, <2>5
<1> QED
  BY <1>1, <1>3, <1>4, <1>5, <1>6, <1>7 DEF TypeOK

\* The steps of the application thread.
LEMMA TypeApp == TypeOK /\ AppStep => TypeOK'
<1> SUFFICES ASSUME TypeOK, AppStep PROVE TypeOK'
  OBVIOUS
<1> USE GatewayAssumption
    DEF TypeOK, QueueTypeOK, queueVars, counters, Threads, Places, LockPoints
<1>1. CASE Start BY <1>1 DEF Start
<1>2. CASE CreateTaskFails BY <1>2 DEF CreateTaskFails
<1>3. CASE StartScan BY <1>3 DEF StartScan
<1>4. CASE Stop BY <1>4 DEF Stop
<1>5. CASE Destroy BY <1>5 DEF Destroy
<1>6. ASSUME NEW t \in Tasks, CreateTask(t) PROVE TypeOK'
  BY <1>6 DEF CreateTask
<1>7. CASE PendingLock BY <1>7 DEF PendingLock
<1>8. CASE PendingUnlock BY <1>8 DEF PendingUnlock
<1> QED
  BY <1>1, <1>2, <1>3, <1>4, <1>5, <1>6, <1>7, <1>8 DEF AppStep

\* The steps of the BLE callback.
LEMMA TypeCallback == TypeOK /\ CallbackStep => TypeOK'
<1> SUFFICES ASSUME TypeOK, CallbackStep PROVE TypeOK'
  OBVIOUS
<1> USE GatewayAssumption DEF TypeOK, counters, Threads, Places, LockPoints
<1>1. ASSUME NEW address \in Advertisers, OnAdvertisement(address) PROVE TypeOK'
  <2> USE <1>1 DEF OnAdvertisement, queueVars, QueueTypeOK
  <2>1. received' \in 1..MaxObservations /\ mutex # Ble
    OBVIOUS
  <2>2. CASE IsAllowed(address) BY <2>1, <2>2
  <2>3. CASE ~IsAllowed(address) BY <2>1, <2>3
  <2> QED BY <2>2, <2>3
<1>2. CASE CallbackLock BY <1>2 DEF CallbackLock, queueVars, QueueTypeOK
<1>3. CASE CallbackTimeout BY <1>3 DEF CallbackTimeout, queueVars, QueueTypeOK
<1>4. CASE CallbackPush
  <2>1. QueueTypeOK'
    BY <1>4, PushType DEF CallbackPush
  <2> QED BY <1>4, <2>1 DEF CallbackPush
<1> QED BY <1>1, <1>2, <1>3, <1>4 DEF CallbackStep

\* The steps of a task that leave the queue alone.
LEMMA TypeTaskControl ==
  ASSUME TypeOK, NEW t \in Tasks,
         \/ LoopTest(t) \/ CheckCredentials(t)
         \/ \E place \in LockPoints : TaskLock(t, place)
         \/ TaskLockTimeout(t) \/ PostUnconfigured(t) \/ CountBacklog(t)
  PROVE  TypeOK'
<1> USE GatewayAssumption
    DEF TypeOK, QueueTypeOK, queueVars, counters, Threads, Places, LockPoints
<1>1. CASE LoopTest(t) BY <1>1 DEF LoopTest
<1>2. CASE CheckCredentials(t) BY <1>2 DEF CheckCredentials
<1>3. ASSUME NEW place \in LockPoints, TaskLock(t, place) PROVE TypeOK'
  BY <1>3 DEF TaskLock
<1>4. CASE TaskLockTimeout(t) BY <1>4 DEF TaskLockTimeout
<1>5. CASE PostUnconfigured(t) BY <1>5 DEF PostUnconfigured, AfterFailure
<1>6. CASE CountBacklog(t) BY <1>6 DEF CountBacklog
<1> QED BY <1>1, <1>2, <1>3, <1>4, <1>5, <1>6

\* The steps of a task that post the batch and hear of it.
LEMMA TypeTaskPost ==
  ASSUME TypeOK, NEW t \in Tasks, Post(t)
  PROVE  TypeOK'
<1>1. DedicatedToken \/ sk.token \in BOOLEAN
  BY GatewayAssumption DEF TypeOK
<1>2. [batch |-> inflight, bearer |-> DedicatedToken \/ sk.token]
        \in [batch: Seq(Nat), bearer: BOOLEAN]
  BY <1>1 DEF TypeOK, QueueTypeOK
<1> QED
  BY <1>2
  DEF Post, TypeOK, QueueTypeOK, queueVars, counters, Places, LockPoints

LEMMA TypeTaskAnswer ==
  ASSUME TypeOK, NEW t \in Tasks, NEW status \in Statuses, NEW taken \in BOOLEAN,
         \/ Delivered(t, status, taken)
         \/ RejectedInvalid(t, status, taken)
         \/ PostFailed(t, status, taken)
  PROVE  TypeOK'
<1> USE GatewayAssumption
    DEF TypeOK, QueueTypeOK, queueVars, counters, Threads, Places, LockPoints
<1>2. ASSUME Answered(t, taken)
      PROVE  /\ seen' \subseteq Nat
             /\ request' \in [Tasks -> [batch: Seq(Nat), bearer: BOOLEAN]]
  <2>1. Range(request[t].batch) \subseteq Nat
    BY ElementOfSeq, LenProperties DEF Range
  <2>2. NoRequest \in [batch: Seq(Nat), bearer: BOOLEAN]
    BY EmptySeq DEF NoRequest
  <2> QED BY <1>2, <2>1, <2>2 DEF Answered
<1>3. CASE Delivered(t, status, taken)
  <2>1. delivered' \in 0..CounterModulus - 1
    BY <1>3, LenProperties DEF Delivered
  <2> QED BY <1>2, <1>3, <2>1 DEF Delivered
<1>4. CASE RejectedInvalid(t, status, taken)
  BY <1>2, <1>4 DEF RejectedInvalid
<1>5. CASE PostFailed(t, status, taken)
  <2>1. sk' \in [address: BOOLEAN, token: BOOLEAN, connected: BOOLEAN]
    BY <1>5 DEF PostFailed
  <2>2. PICK place \in {"loop", "backlog"} : pc' = [pc EXCEPT ![t] = place]
    BY <1>5 DEF PostFailed, AfterFailure
  <2>3. pc' \in [Tasks -> Places] /\ (mutex \in Tasks => pc'[mutex] \in LockPoints)
    BY <1>5, <2>2 DEF PostFailed
  <2> QED BY <1>2, <1>5, <2>1, <2>3 DEF PostFailed
<1> QED BY <1>3, <1>4, <1>5

\* The steps of a task that work on the queue under the mutex.
LEMMA TypeTaskQueue ==
  ASSUME TypeOK, NEW t \in Tasks,
         PrepareBatch(t) \/ AcknowledgeBatch(t) \/ DropInvalidBatch(t)
  PROVE  TypeOK'
<1> USE GatewayAssumption DEF TypeOK, Threads, Places, LockPoints
<1>1. CASE PrepareBatch(t)
  <2>1. QueueTypeOK'
    BY <1>1, PrepareKeepsHeld DEF PrepareBatch, queueVars, QueueTypeOK
  <2> QED BY <1>1, <2>1 DEF PrepareBatch, counters
<1>2. Len(inflight) \in Nat
  BY LenProperties DEF QueueTypeOK
<1>3. CASE AcknowledgeBatch(t)
  BY <1>2, <1>3, AcknowledgeType DEF AcknowledgeBatch
<1>4. CASE DropInvalidBatch(t)
  BY <1>2, <1>4, AcknowledgeType DEF DropInvalidBatch
<1> QED BY <1>1, <1>3, <1>4

\* Every variable keeps its type, the queue its bounds, and the mutex is owned
\* by the thread that is in the critical section: no step of another thread
\* takes it away, and no thread leaves a critical section without it.
THEOREM TypeCorrect == Spec => []TypeOK
<1>1. TypeOK /\ [Next]_vars => TypeOK'
  <2> SUFFICES ASSUME TypeOK, [Next]_vars PROVE TypeOK'
    OBVIOUS
  <2>1. CASE AppStep BY <2>1, TypeApp
  <2>2. CASE CallbackStep BY <2>2, TypeCallback
  <2>3. ASSUME NEW t \in Tasks, TaskStep(t) PROVE TypeOK'
    BY <2>3, TypeTaskControl, TypeTaskPost, TypeTaskAnswer, TypeTaskQueue
    DEF TaskStep
  <2>4. CASE SkClientChanges
    BY <2>4
    DEF SkClientChanges, TypeOK, QueueTypeOK, queueVars, counters
  <2>5. CASE UNCHANGED vars
    BY <2>5 DEF vars, queueVars, counters, TypeOK, QueueTypeOK
  <2> QED BY <2>1, <2>2, <2>3, <2>4, <2>5 DEF Next
<1> QED BY TypeInit, <1>1, PTL DEF Spec

----------------------------------------------------------------------------
(* Accounting.                                                             *)

\* What Accounting counts.  A step that changes none of it keeps Accounting.
accounted == <<queueVars, callback, received, filtered, droppedQueueFull,
               droppedLockTimeout, droppedInvalid, acked>>

LEMMA AccountingUnchanged ==
  ASSUME Accounting, UNCHANGED accounted
  PROVE  Accounting'
BY DEF Accounting, accounted, queueVars, SumOfDrops, QueueSize

LEMMA AccountingCallback ==
  ASSUME TypeOK, Accounting, CallbackStep
  PROVE  Accounting'
<1>1. QueueSize \in Nat
  BY LenProperties DEF QueueSize, TypeOK, QueueTypeOK
<1> USE <1>1 DEF TypeOK, Accounting, SumOfDrops
<1>2. ASSUME NEW address \in Advertisers, OnAdvertisement(address)
      PROVE  Accounting'
  <2> USE <1>2 DEF OnAdvertisement, queueVars
  <2>1. QueueSize' = QueueSize
    BY DEF QueueSize
  <2>2. CASE IsAllowed(address) BY <2>1, <2>2
  <2>3. CASE ~IsAllowed(address) BY <2>1, <2>3
  <2> QED BY <2>2, <2>3
<1>3. CASE CallbackLock
  BY <1>3, AccountingUnchanged DEF CallbackLock, accounted, counters
<1>4. CASE CallbackTimeout
  <2>1. QueueSize' = QueueSize
    BY <1>4 DEF CallbackTimeout, queueVars, QueueSize
  <2> QED BY <1>4, <2>1 DEF CallbackTimeout
<1>5. CASE CallbackPush
  <2>1. QueueSize' = QueueSize + (IF PushDropsOldest THEN 0 ELSE 1)
    BY <1>5, PushType DEF CallbackPush
  <2>2. callback # 0
    BY <1>5 DEF CallbackPush
  <2> QED BY <1>5, <2>1, <2>2 DEF CallbackPush
<1> QED BY <1>2, <1>3, <1>4, <1>5 DEF CallbackStep

LEMMA AccountingTask ==
  ASSUME TypeOK, Accounting, NEW t \in Tasks, TaskStep(t)
  PROVE  Accounting'
<1>1. CASE PrepareBatch(t)
  <2>1. QueueSize' = QueueSize
    BY <1>1, PrepareKeepsHeld DEF PrepareBatch, queueVars, QueueSize, TypeOK
  <2> QED BY <1>1, <2>1 DEF PrepareBatch, Accounting, SumOfDrops, counters
<1>2. Len(inflight) \in Nat /\ QueueSize \in Nat
  BY LenProperties DEF QueueSize, TypeOK, QueueTypeOK
<1>3. ASSUME Acknowledge
      PROVE  QueueSize' \in Nat /\ QueueSize' + Len(inflight) = QueueSize
  <2>1. QueueTypeOK' /\ QueueSize' + Len(inflight) = QueueSize
    BY <1>3, AcknowledgeType DEF TypeOK
  <2>2. QueueSize' \in Nat
    BY <2>1, LenProperties DEF QueueSize, QueueTypeOK
  <2> QED BY <2>1, <2>2
<1>4. CASE AcknowledgeBatch(t)
  <2>1. QueueSize' \in Nat /\ QueueSize' + Len(inflight) = QueueSize
    BY <1>3, <1>4 DEF AcknowledgeBatch
  <2>2. /\ acked' = acked + Len(inflight)
        /\ UNCHANGED <<received, filtered, SumOfDrops, callback>>
    BY <1>4 DEF AcknowledgeBatch, SumOfDrops
  <2>3. /\ received \in Nat /\ filtered \in Nat /\ SumOfDrops \in Nat
        /\ acked \in Nat /\ callback \in Nat
    BY GatewayAssumption DEF TypeOK, SumOfDrops
  <2> QED BY <1>2, <2>1, <2>2, <2>3 DEF Accounting
<1>5. CASE DropInvalidBatch(t)
  <2>1. QueueSize' \in Nat /\ QueueSize' + Len(inflight) = QueueSize
    BY <1>3, <1>5 DEF DropInvalidBatch
  <2>2. /\ SumOfDrops' = SumOfDrops + Len(inflight)
        /\ UNCHANGED <<received, filtered, acked, callback>>
    BY <1>2, <1>5 DEF DropInvalidBatch, SumOfDrops, TypeOK
  <2>3. /\ received \in Nat /\ filtered \in Nat /\ SumOfDrops \in Nat
        /\ acked \in Nat /\ callback \in Nat
    BY GatewayAssumption DEF TypeOK, SumOfDrops
  <2> QED BY <1>2, <2>1, <2>2, <2>3 DEF Accounting
<1>6. CASE ~(PrepareBatch(t) \/ AcknowledgeBatch(t) \/ DropInvalidBatch(t))
  BY <1>6, AccountingUnchanged
  DEF TaskStep, accounted, counters, LoopTest, CheckCredentials, TaskLock,
      TaskLockTimeout, PostUnconfigured, Post, Delivered, RejectedInvalid,
      PostFailed, CountBacklog
<1> QED BY <1>1, <1>4, <1>5, <1>6

\* Every observation received is filtered, lost under one of the three counters
\* the operations guide names, acknowledged, queued or in the callback's hands,
\* and in one of these only, with any number of HTTP tasks and restarts.
THEOREM EveryLossIsCounted == Spec => []Accounting
<1>1. Init => Accounting
  BY DEF Init, QueueInit, Accounting, SumOfDrops, QueueSize
<1>2. TypeOK /\ Accounting /\ [Next]_vars => Accounting'
  <2> SUFFICES ASSUME TypeOK, Accounting, [Next]_vars PROVE Accounting'
    OBVIOUS
  <2>1. CASE AppStep
    BY <2>1, AccountingUnchanged
    DEF AppStep, Start, CreateTask, CreateTaskFails, StartScan, Stop, Destroy,
        PendingLock, PendingUnlock, accounted, counters
  <2>2. CASE CallbackStep BY <2>2, AccountingCallback
  <2>3. CASE \E t \in Tasks : TaskStep(t) BY <2>3, AccountingTask
  <2>4. CASE SkClientChanges
    BY <2>4, AccountingUnchanged DEF SkClientChanges, accounted, counters
  <2>5. CASE UNCHANGED vars
    BY <2>5, AccountingUnchanged DEF vars, accounted, counters
  <2> QED BY <2>1, <2>2, <2>3, <2>4, <2>5 DEF Next
<1> QED BY TypeCorrect, <1>1, <1>2, PTL DEF Spec

----------------------------------------------------------------------------
(* Order.                                                                  *)

LEMMA HeldTyped ==
  ASSUME QueueTypeOK
  PROVE  /\ Len(Held) \in Nat
         /\ \A i \in 1..Len(Held) : Held[i] \in Nat
BY HeldElements, ElementOfSeq

\* A step that leaves the queue, the callback and `received` alone.
LEMMA FifoUnchanged ==
  ASSUME Fifo, Held' = Held, UNCHANGED <<callback, received>>
  PROVE  Fifo'
BY DEF Fifo, Increasing

LEMMA FifoCallback ==
  ASSUME TypeOK, Fifo, CallbackStep
  PROVE  Fifo'
<1>1. ASSUME NEW address \in Advertisers, OnAdvertisement(address) PROVE Fifo'
  <2>1. Held' = Held
    BY <1>1 DEF OnAdvertisement, queueVars, Held
  <2>2. received \in Nat /\ received' = received + 1 /\ callback = 0
    BY <1>1 DEF OnAdvertisement, TypeOK
  <2>3. callback' \in {0, received'}
    BY <1>1, <2>2 DEF OnAdvertisement
  <2>4. \A i \in 1..Len(Held) : Held[i] \in Nat /\ Held[i] < received'
    BY <2>2, HeldTyped DEF Fifo, TypeOK
  <2> QED BY <2>1, <2>2, <2>3, <2>4 DEF Fifo, Increasing
<1>2. CASE CallbackLock
  BY <1>2, FifoUnchanged DEF CallbackLock, queueVars, counters, Held
<1>3. CASE CallbackTimeout
  <2>1. Held' = Held /\ received' = received /\ callback' = 0
    BY <1>3 DEF CallbackTimeout, queueVars, Held
  <2> QED BY <2>1 DEF Fifo, Increasing, TypeOK
<1>4. CASE CallbackPush
  <2>1. callback # 0 /\ callback \in Nat /\ callback <= received
    BY <1>4 DEF CallbackPush, TypeOK, Fifo
  <2>2. /\ Increasing(Held')
        /\ \A i \in 1..Len(Held') : Held'[i] <= callback
    BY <1>4, <2>1, PushKeepsOrder DEF CallbackPush, Fifo, TypeOK
  <2>3. QueueTypeOK'
    BY <1>4, <2>1, PushType DEF CallbackPush, TypeOK
  <2>4. \A i \in 1..Len(Held') : Held'[i] \in Nat
    <3>1. Held' \in Seq(Nat)
      BY <2>3, ConcatProperties DEF QueueTypeOK, Held
    <3> QED BY <3>1, ElementOfSeq
  <2>5. received' = received /\ callback' = 0 /\ received \in Nat
    BY <1>4 DEF CallbackPush, TypeOK
  <2> QED BY <2>1, <2>2, <2>4, <2>5 DEF Fifo
<1> QED BY <1>1, <1>2, <1>3, <1>4 DEF CallbackStep

LEMMA FifoTask ==
  ASSUME TypeOK, Fifo, NEW t \in Tasks, TaskStep(t)
  PROVE  Fifo'
<1>1. CASE PrepareBatch(t)
  <2>1. Held' = Held
    BY <1>1, PrepareKeepsHeld DEF PrepareBatch, queueVars, Held, TypeOK
  <2> QED BY <1>1, <2>1, FifoUnchanged DEF PrepareBatch, counters
<1>2. ASSUME Acknowledge, UNCHANGED <<callback, received>>
      PROVE  Fifo'
  <2>1. /\ Increasing(Held') /\ Held' = pending
        /\ \A i \in 1..Len(pending) :
             /\ i + Len(inflight) \in 1..Len(Held)
             /\ pending[i] = Held[i + Len(inflight)]
    BY <1>2, AcknowledgeKeepsOrder DEF Fifo, TypeOK
  <2> QED BY <1>2, <2>1 DEF Fifo
<1>3. CASE AcknowledgeBatch(t)
  BY <1>2, <1>3 DEF AcknowledgeBatch
<1>4. CASE DropInvalidBatch(t)
  BY <1>2, <1>4 DEF DropInvalidBatch
<1>5. CASE ~(PrepareBatch(t) \/ AcknowledgeBatch(t) \/ DropInvalidBatch(t))
  <2>1. UNCHANGED <<queueVars, callback, received>>
    BY <1>5
    DEF TaskStep, counters, LoopTest, CheckCredentials, TaskLock,
        TaskLockTimeout, PostUnconfigured, Post, Delivered, RejectedInvalid,
        PostFailed, CountBacklog
  <2> QED BY <2>1, FifoUnchanged DEF queueVars, Held
<1> QED BY <1>1, <1>3, <1>4, <1>5

\* Observations are held oldest first and without duplicates whatever push(),
\* prepare(), acknowledge() and drop_invalid() do to the two halves of the queue
\* and however their callers interleave, so the element that a full queue drops
\* is always the oldest one no batch has.
THEOREM HeldInOrder == Spec => []Fifo
<1>1. Init => Fifo
  <2> SUFFICES ASSUME Init PROVE Fifo
    OBVIOUS
  <2>1. Held = <<>> /\ Len(Held) = 0
    BY EmptySeq, ConcatEmptySeq DEF Init, QueueInit, Held
  <2> QED BY <2>1 DEF Init, Fifo, Increasing
<1>2. TypeOK /\ Fifo /\ [Next]_vars => Fifo'
  <2> SUFFICES ASSUME TypeOK, Fifo, [Next]_vars PROVE Fifo'
    OBVIOUS
  <2>1. CASE AppStep
    BY <2>1, FifoUnchanged
    DEF AppStep, Start, CreateTask, CreateTaskFails, StartScan, Stop, Destroy,
        PendingLock, PendingUnlock, counters, queueVars, Held
  <2>2. CASE CallbackStep BY <2>2, FifoCallback
  <2>3. CASE \E t \in Tasks : TaskStep(t) BY <2>3, FifoTask
  <2>4. CASE SkClientChanges
    BY <2>4, FifoUnchanged DEF SkClientChanges, counters, queueVars, Held
  <2>5. CASE UNCHANGED vars
    BY <2>5, FifoUnchanged DEF vars, counters, queueVars, Held
  <2> QED BY <2>1, <2>2, <2>3, <2>4, <2>5 DEF Next
<1> QED BY TypeCorrect, <1>1, <1>2, PTL DEF Spec

----------------------------------------------------------------------------
(* The batch in flight, when the gateway never has two HTTP tasks.         *)

SingleTask == \A t, u \in Tasks : t = u

\* Steps that leave the batch in flight, the server and the tasks alone.
LEMMA MineUnchanged ==
  ASSUME InflightIsMine, UNCHANGED <<inflight, seen, pc, request>>
  PROVE  InflightIsMine'
BY DEF InflightIsMine

LEMMA MineTask ==
  ASSUME TypeOK, InflightIsMine, SingleTask, NEW t \in Tasks, TaskStep(t)
  PROVE  InflightIsMine'
<1> DEFINE Mine(u) ==
      /\ pc[u] \in {"post", "waiting", "ack", "drop"} => inflight # <<>>
      /\ pc[u] = "waiting" => request[u].batch = inflight
      /\ pc[u] = "ack" => Range(inflight) \subseteq seen
<1>1. SUFFICES Mine(t)'
  BY DEF SingleTask, InflightIsMine
<1>2. Mine(t) /\ pc \in [Tasks -> Places] /\ request \in [Tasks -> [batch: Seq(Nat), bearer: BOOLEAN]]
  BY DEF InflightIsMine, TypeOK
<1>3. CASE \/ LoopTest(t) \/ CheckCredentials(t) \/ PostUnconfigured(t)
           \/ CountBacklog(t) \/ TaskLockTimeout(t)
           \/ \E place \in LockPoints : TaskLock(t, place)
  BY <1>2, <1>3
  DEF LoopTest, CheckCredentials, PostUnconfigured, CountBacklog, AfterFailure,
      TaskLockTimeout, TaskLock, queueVars, LockPoints
<1>4. CASE PrepareBatch(t)
  <2>1. CASE Prepare /\ pc' = [pc EXCEPT ![t] = "post"]
    <3>1. inflight' # <<>>
      BY <2>1, PrepareKeepsHeld DEF TypeOK
    <3> QED BY <1>2, <2>1, <3>1
  <2>2. CASE pc' = [pc EXCEPT ![t] = "loop"]
    BY <1>2, <2>2
  <2> QED BY <1>4, <2>1, <2>2 DEF PrepareBatch
<1>5. CASE Post(t)
  BY <1>2, <1>5 DEF Post, queueVars
<1>6. ASSUME NEW status \in Statuses, NEW taken \in BOOLEAN,
             Delivered(t, status, taken)
      PROVE  Mine(t)'
  <2>1. taken
    BY <1>6 DEF Delivered, ClassifyStatus, Answer
  <2>2. request[t].batch = inflight /\ inflight # <<>> /\ inflight' = inflight
    BY <1>2, <1>6 DEF Delivered, queueVars
  <2>3. Range(inflight) \subseteq seen'
    BY <1>6, <2>1, <2>2 DEF Delivered, Answered
  <2> QED BY <1>2, <1>6, <2>2, <2>3 DEF Delivered, Range
<1>7. ASSUME NEW status \in Statuses, NEW taken \in BOOLEAN,
             RejectedInvalid(t, status, taken)
      PROVE  Mine(t)'
  BY <1>2, <1>7 DEF RejectedInvalid, queueVars
<1>8. ASSUME NEW status \in Statuses, NEW taken \in BOOLEAN,
             PostFailed(t, status, taken)
      PROVE  Mine(t)'
  BY <1>2, <1>8 DEF PostFailed, AfterFailure
<1>9. CASE AcknowledgeBatch(t) \/ DropInvalidBatch(t)
  BY <1>2, <1>9 DEF AcknowledgeBatch, DropInvalidBatch
<1> QED
  BY <1>3, <1>4, <1>5, <1>6, <1>7, <1>8, <1>9 DEF TaskStep

\* With one task, what post_batch() reads of the batch in flight without the
\* mutex is the batch it prepared, and a batch about to be acknowledged is on
\* the server.
THEOREM BatchIsStable ==
  ASSUME SingleTask
  PROVE  Spec => []InflightIsMine
<1>1. Init => InflightIsMine
  BY DEF Init, InflightIsMine
<1>2. TypeOK /\ InflightIsMine /\ [Next]_vars => InflightIsMine'
  <2> SUFFICES ASSUME TypeOK, InflightIsMine, [Next]_vars
               PROVE  InflightIsMine'
    OBVIOUS
  <2>1. ASSUME NEW t \in Tasks, CreateTask(t) PROVE InflightIsMine'
    BY <2>1 DEF CreateTask, InflightIsMine, TypeOK, queueVars
  <2>2. CASE AppStep /\ ~\E t \in Tasks : CreateTask(t)
    BY <2>2, MineUnchanged
    DEF AppStep, Start, CreateTaskFails, StartScan, Stop, Destroy, PendingLock,
        PendingUnlock, queueVars
  <2>3. CASE CallbackStep
    BY <2>3, MineUnchanged
    DEF CallbackStep, OnAdvertisement, CallbackLock, CallbackTimeout,
        CallbackPush, Push, queueVars
  <2>4. CASE \E t \in Tasks : TaskStep(t) BY <2>4, MineTask
  <2>5. CASE SkClientChanges
    BY <2>5, MineUnchanged DEF SkClientChanges, queueVars
  <2>6. CASE UNCHANGED vars
    BY <2>6, MineUnchanged DEF vars, queueVars
  <2> QED BY <2>1, <2>2, <2>3, <2>4, <2>5, <2>6 DEF Next
<1> QED BY TypeCorrect, <1>1, <1>2, PTL DEF Spec

\* With one task, a batch in flight stays as it is through every retry, lock
\* timeout and new observation, and leaves only when the server has all of it or
\* all of it is counted as invalid.
THEOREM BatchIsRetained ==
  ASSUME SingleTask
  PROVE  Spec => InflightRetained
<1> DEFINE Retained ==
      \/ inflight' = inflight
      \/ inflight = <<>>
      \/ /\ inflight' = <<>>
         /\ \/ Range(inflight) \subseteq seen
            \/ droppedInvalid' = droppedInvalid + Len(inflight)
<1>1. InflightIsMine /\ [Next]_vars => [Retained]_vars
  <2> SUFFICES ASSUME InflightIsMine, Next PROVE Retained
    OBVIOUS
  <2>1. CASE AppStep \/ SkClientChanges
    BY <2>1
    DEF AppStep, Start, CreateTask, CreateTaskFails, StartScan, Stop, Destroy,
        PendingLock, PendingUnlock, SkClientChanges, queueVars
  <2>2. CASE CallbackStep
    BY <2>2
    DEF CallbackStep, OnAdvertisement, CallbackLock, CallbackTimeout,
        CallbackPush, Push, queueVars
  <2>3. ASSUME NEW t \in Tasks, TaskStep(t) PROVE Retained
    <3>1. CASE PrepareBatch(t)
      BY <3>1 DEF PrepareBatch, Prepare, queueVars
    <3>2. CASE AcknowledgeBatch(t)
      BY <3>2 DEF AcknowledgeBatch, Acknowledge, InflightIsMine
    <3>3. CASE DropInvalidBatch(t)
      BY <3>3 DEF DropInvalidBatch, Acknowledge
    <3>4. CASE ~(PrepareBatch(t) \/ AcknowledgeBatch(t) \/ DropInvalidBatch(t))
      BY <2>3, <3>4
      DEF TaskStep, LoopTest, CheckCredentials, TaskLock, TaskLockTimeout,
          PostUnconfigured, Post, Delivered, RejectedInvalid, PostFailed,
          CountBacklog, queueVars
    <3> QED BY <3>1, <3>2, <3>3, <3>4
  <2> QED BY <2>1, <2>2, <2>3 DEF Next
<1> QED BY BatchIsStable, <1>1, PTL DEF Spec, InflightRetained

=============================================================================
