------------------------ MODULE AdvertisementGateway ------------------------
(***************************************************************************)
(* AdvertisementGateway of gateway-library/src/advertisement_gateway.cpp:  *)
(* how observations travel from the BLE callback through the queue to the  *)
(* Signal K server, and what start(), stop() and the destructor do to the  *)
(* task that carries them.                                                 *)
(*                                                                         *)
(* Threads: the BLE host task runs on_advertisement(); every successful    *)
(* start() creates one HTTP task that runs task_loop(); the application    *)
(* task calls start(), stop() and, from the heartbeat, pending().  They    *)
(* meet at `running`, at the mutex and at the queue, and the HTTP task     *)
(* also reads the batch in flight without the mutex.                       *)
(*                                                                         *)
(* Time is abstract: a delay is any pause between two steps, and a timed   *)
(* xSemaphoreTake may give up whenever another thread owns the mutex.  The *)
(* part of task_loop() that is about time (scan recovery, the length of    *)
(* the delays) is in TaskLoopTiming.                                       *)
(*                                                                         *)
(* An observation is the number that on_advertisement() gave it when it    *)
(* counted it in received_.                                                *)
(***************************************************************************)
EXTENDS BatchQueue, FiniteSets, Functions

CONSTANTS
  Ble,              \* the thread of the BLE callback
  Main,             \* the application thread
  Tasks,            \* bound: the HTTP tasks that can be alive at a time
  Free,             \* the owner of a mutex nobody has taken
  Advertisers,      \* the addresses in radio range
  AllowlistGiven,   \* allowlist_configured_: config.allowed_macs was not empty
  AllowedMacs,      \* allowed_macs_: its entries that normalise to an address
  DedicatedToken,   \* config.provider_token is not empty
  Statuses,         \* the HTTP statuses considered; NoStatus is one of them
  MaxObservations,  \* bound: advertisements received in a behaviour
  CounterModulus    \* the counters are uint32_t: 2^32

\* esp_http_client reports status 0 when the request got no answer.
NoStatus == 0

ASSUME GatewayAssumption ==
  /\ Ble # Main
  /\ {Ble, Main} \intersect Tasks = {}
  /\ Free \notin Tasks \union {Ble, Main}
  /\ AllowlistGiven \in BOOLEAN
  /\ DedicatedToken \in BOOLEAN
  /\ NoStatus \in Statuses /\ Statuses \subseteq Nat
  /\ MaxObservations \in Nat
  /\ CounterModulus \in Nat \ {0}

Threads == Tasks \union {Ble, Main}

VARIABLES
  running,   \* running_
  app,       \* what the application thread is doing with the gateway
  mutex,     \* the owner of mutex_
  callback,  \* the observation on_advertisement() is about to queue, or 0
  pc,        \* where each HTTP task is in task_loop()
  request,   \* the POST each HTTP task is waiting for
  sk,        \* what signalk_client_ knows: server address, token, connection
  seen,      \* the observations the server has taken (history)
  received, filtered, delivered, droppedQueueFull, droppedLockTimeout,
  droppedInvalid,  \* the counters of diagnostics()
  acked      \* how many observations acknowledge() has removed (history)

counters == <<received, filtered, delivered, droppedQueueFull,
              droppedLockTimeout, droppedInvalid, acked>>
vars == <<queueVars, running, app, mutex, callback, pc, request, sk, seen,
          counters>>

NoRequest == [batch |-> <<>>, bearer |-> FALSE]

\* The places of task_loop() at which the task wants the mutex.
LockPoints == {"prepare", "ack", "drop", "backlog"}
Places == LockPoints \union
          {"none", "loop", "credentials", "post", "waiting"}

Init ==
  /\ QueueInit
  /\ running = FALSE
  /\ app = "idle"
  /\ mutex = Free
  /\ callback = 0
  /\ pc = [t \in Tasks |-> "none"]
  /\ request = [t \in Tasks |-> NoRequest]
  /\ sk \in [address: BOOLEAN, token: BOOLEAN, connected: {FALSE}]
  /\ seen = {}
  /\ received = 0 /\ filtered = 0 /\ delivered = 0 /\ droppedQueueFull = 0
  /\ droppedLockTimeout = 0 /\ droppedInvalid = 0 /\ acked = 0

----------------------------------------------------------------------------
(* The application thread.                                                 *)

\* start(): the exchange of running_ and the attachment of the callback.  A
\* start() of a running gateway returns at once and changes nothing.  One that
\* follows a stop() or a failure attaches the callback once more: what the BLE host
\* then hands over twice are two advertisements here, numbered and counted one by
\* one as received_ counts them.
Start ==
  /\ app = "idle" /\ ~running
  /\ running' = TRUE
  /\ app' = "starting"
  /\ UNCHANGED <<queueVars, mutex, callback, pc, request, sk, seen, counters>>

\* xTaskCreate() succeeds, or fails and start() takes running_ back.
CreateTask(t) ==
  /\ app = "starting" /\ pc[t] = "none"
  /\ app' = "scanning"
  /\ pc' = [pc EXCEPT ![t] = "loop"]
  /\ UNCHANGED <<queueVars, running, mutex, callback, request, sk, seen,
                 counters>>

CreateTaskFails ==
  /\ app = "starting"
  /\ running' = FALSE
  /\ app' = "idle"
  /\ UNCHANGED <<queueVars, mutex, callback, pc, request, sk, seen, counters>>

\* start_scan() succeeds and start() is over, or fails and start() calls stop().
StartScan ==
  /\ app = "scanning"
  /\ app' = "idle"
  /\ running' \in {running, FALSE}
  /\ UNCHANGED <<queueVars, mutex, callback, pc, request, sk, seen, counters>>

\* Fault: stop() empties the queue under the task that still posts from it.
Stop_ClearsBatch ==
  /\ app = "idle" /\ running
  /\ running' = FALSE
  /\ Acknowledge
  /\ UNCHANGED <<app, mutex, callback, pc, request, sk, seen, counters>>

\* stop(): it does not wait for the task, which observes running_ itself.
Stop ==
  /\ app = "idle" /\ running
  /\ running' = FALSE
  /\ UNCHANGED <<queueVars, app, mutex, callback, pc, request, sk, seen,
                 counters>>

\* The destructor: stop(), then the mutex is deleted.  What a task or a callback
\* that is still under way does next is undefined: the model lets it go on as if
\* the memory were still there, or stop for ever.
Destroy ==
  /\ app = "idle" /\ mutex # Main
  /\ running' = FALSE
  /\ app' = "destroyed"
  /\ UNCHANGED <<queueVars, mutex, callback, pc, request, sk, seen, counters>>

\* pending() from the heartbeat takes the mutex, reads the size, gives it back;
\* when it times out it answers 0.
PendingLock ==
  /\ app = "idle" /\ mutex = Free
  /\ mutex' = Main
  /\ UNCHANGED <<queueVars, running, app, callback, pc, request, sk, seen,
                 counters>>

PendingUnlock ==
  /\ mutex = Main
  /\ mutex' = Free
  /\ UNCHANGED <<queueVars, running, app, callback, pc, request, sk, seen,
                 counters>>

----------------------------------------------------------------------------
(* The BLE callback.                                                       *)

\* is_allowed(): a list that was given but has no valid entry allows nobody;
\* no list allows everybody.
IsAllowed(address) ==
  /\ AllowlistGiven => AllowedMacs # {}
  /\ AllowedMacs = {} \/ address \in AllowedMacs

\* on_advertisement() up to its xSemaphoreTake: ignored unless running,
\* counted, then filtered by address.
OnAdvertisement(address) ==
  /\ running
  /\ callback = 0 /\ received < MaxObservations
  /\ received' = received + 1
  /\ IF IsAllowed(address)
       THEN callback' = received' /\ UNCHANGED filtered
       ELSE filtered' = filtered + 1 /\ UNCHANGED callback
  /\ UNCHANGED <<queueVars, running, app, mutex, pc, request, sk, seen,
                 delivered, droppedQueueFull, droppedLockTimeout,
                 droppedInvalid, acked>>

CallbackLock ==
  /\ callback # 0 /\ mutex = Free
  /\ mutex' = Ble
  /\ UNCHANGED <<queueVars, running, app, callback, pc, request, sk, seen,
                 counters>>

\* 20 ms passed without the mutex: the observation is lost and counted.
CallbackTimeout ==
  /\ callback # 0 /\ mutex \notin {Free, Ble}
  /\ callback' = 0
  /\ droppedLockTimeout' = droppedLockTimeout + 1
  /\ UNCHANGED <<queueVars, running, app, mutex, pc, request, sk, seen,
                 received, filtered, delivered, droppedQueueFull,
                 droppedInvalid, acked>>

CallbackPush ==
  /\ mutex = Ble
  /\ Push(callback)
  /\ droppedQueueFull' = droppedQueueFull + (IF PushDropsOldest THEN 1 ELSE 0)
  /\ callback' = 0
  /\ mutex' = Free
  /\ UNCHANGED <<running, app, pc, request, sk, seen, received, filtered,
                 delivered, droppedLockTimeout, droppedInvalid, acked>>

----------------------------------------------------------------------------
(* The HTTP task.                                                          *)

\* Fault: the task of a stopped gateway first wants to empty the queue.
LoopTest_DrainsFirst(t) ==
  /\ pc[t] = "loop"
  /\ pc' = [pc EXCEPT ![t] = IF running \/ QueueSize > 0 THEN "credentials"
                                                       ELSE "none"]
  /\ UNCHANGED <<queueVars, running, app, mutex, callback, request, sk, seen,
                 counters>>

\* The loop condition: go round again, or end with vTaskDelete().
LoopTest(t) ==
  /\ pc[t] = "loop"
  /\ pc' = [pc EXCEPT ![t] = IF running THEN "credentials" ELSE "none"]
  /\ UNCHANGED <<queueVars, running, app, mutex, callback, request, sk, seen,
                 counters>>

\* With a token of its own the gateway needs no Signal K connection; with the
\* shared one it waits for that client to have the token and be connected.
MayDeliver == DedicatedToken \/ (sk.token /\ sk.connected)

\* Fault: the loop is left, not continued, while there is no token.
CheckCredentials_GivesUp(t) ==
  /\ pc[t] = "credentials"
  /\ pc' = [pc EXCEPT ![t] = IF MayDeliver THEN "prepare" ELSE "none"]
  /\ UNCHANGED <<queueVars, running, app, mutex, callback, request, sk, seen,
                 counters>>

CheckCredentials(t) ==
  /\ pc[t] = "credentials"
  /\ pc' = [pc EXCEPT ![t] = IF MayDeliver THEN "prepare" ELSE "loop"]
  /\ UNCHANGED <<queueVars, running, app, mutex, callback, request, sk, seen,
                 counters>>

\* xSemaphoreTake() of prepare_batch(), of the two endings of post_batch() and
\* of pending().
TaskLock(t, place) ==
  /\ pc[t] = place /\ mutex = Free
  /\ mutex' = t
  /\ UNCHANGED <<queueVars, running, app, callback, pc, request, sk, seen,
                 counters>>

\* The same call gives up.  prepare_batch() answers false; a batch that was to
\* be acknowledged or dropped stays in flight, yet post_batch() answers true.
TaskLockTimeout(t) ==
  /\ pc[t] \in LockPoints /\ mutex \notin {Free, t}
  /\ pc' = [pc EXCEPT ![t] = IF @ \in {"ack", "drop"} THEN "backlog" ELSE "loop"]
  /\ UNCHANGED <<queueVars, running, app, mutex, callback, request, sk, seen,
                 counters>>

\* prepare_batch() under the mutex.
PrepareBatch(t) ==
  /\ pc[t] = "prepare" /\ mutex = t
  /\ \/ /\ Prepare
        /\ pc' = [pc EXCEPT ![t] = "post"]
     \/ /\ NothingToPrepare
        /\ UNCHANGED queueVars
        /\ pc' = [pc EXCEPT ![t] = "loop"]
  /\ mutex' = Free
  /\ UNCHANGED <<running, app, callback, request, sk, seen, counters>>

\* A pass whose POST failed asks for the backlog only when the retry interval
\* had no room to grow, that is max_retry_interval_ms = post_interval_ms.
AfterFailure(t) ==
  \E place \in {"loop", "backlog"} : pc' = [pc EXCEPT ![t] = place]

\* post_batch() without a server address or port answers false.
PostUnconfigured(t) ==
  /\ pc[t] = "post" /\ ~sk.address
  /\ AfterFailure(t)
  /\ UNCHANGED <<queueVars, running, app, mutex, callback, request, sk, seen,
                 counters>>

\* post_batch() serialises the batch without the mutex, reads the token a
\* second time and sends.
Post(t) ==
  /\ pc[t] = "post" /\ sk.address
  /\ request' = [request EXCEPT ![t] =
                   [batch |-> inflight, bearer |-> DedicatedToken \/ sk.token]]
  /\ pc' = [pc EXCEPT ![t] = "waiting"]
  /\ UNCHANGED <<queueVars, running, app, mutex, callback, sk, seen, counters>>

\* Fault: everything below 300 is a success, no answer included.
ClassifyStatus_BelowThreeHundred(status) ==
  CASE status < 300 -> "delivered"
    [] status = 400 -> "invalid"
    [] OTHER -> "retry"

\* classify_http_status()
ClassifyStatus(status) ==
  CASE status \in 200..299 -> "delivered"
    [] status = 400 -> "invalid"
    [] OTHER -> "retry"

\* The answers the server and the network can give to r, and whether the server
\* took the observations: it takes a batch whole or not at all, says 2xx only of
\* what it took, and an answer to a batch it took may be lost on the way back.
Answer(r, status, taken) ==
  /\ status \in 200..299 => taken
  /\ taken => r.bearer /\ status \in {NoStatus} \union 200..299
  /\ ~r.bearer => status \in {401, 403, NoStatus}

\* The exchange is over, one way or the other.
Answered(t, taken) ==
  /\ seen' = IF taken THEN seen \union Range(request[t].batch) ELSE seen
  /\ request' = [request EXCEPT ![t] = NoRequest]

\* A 2xx: counted at once, acknowledged when the mutex can be had.
Delivered(t, status, taken) ==
  /\ pc[t] = "waiting" /\ Answer(request[t], status, taken)
  /\ ClassifyStatus(status) = "delivered"
  /\ Answered(t, taken)
  /\ delivered' = (delivered + Len(inflight)) % CounterModulus
  /\ pc' = [pc EXCEPT ![t] = "ack"]
  /\ UNCHANGED <<queueVars, running, app, mutex, callback, sk, received,
                 filtered, droppedQueueFull, droppedLockTimeout,
                 droppedInvalid, acked>>

\* A 400: the batch is to be dropped.
RejectedInvalid(t, status, taken) ==
  /\ pc[t] = "waiting" /\ Answer(request[t], status, taken)
  /\ ClassifyStatus(status) = "invalid"
  /\ Answered(t, taken)
  /\ pc' = [pc EXCEPT ![t] = "drop"]
  /\ UNCHANGED <<queueVars, running, app, mutex, callback, sk, counters>>

\* Fault: the batch that could not be delivered goes back behind the others.
PostFailed_Requeues(t, status, taken) ==
  /\ pc[t] = "waiting" /\ Answer(request[t], status, taken)
  /\ ClassifyStatus(status) = "retry"
  /\ Answered(t, taken)
  /\ pending' = pending \o inflight /\ inflight' = <<>>
  /\ pc' = [pc EXCEPT ![t] = "loop"]
  /\ UNCHANGED <<inflightSequence, nextSequence, running, app, mutex, callback,
                 sk, counters>>

\* Any other status, or none: the batch stays in flight.  A rejected shared
\* token restarts the Signal K client.
PostFailed(t, status, taken) ==
  /\ pc[t] = "waiting" /\ Answer(request[t], status, taken)
  /\ ClassifyStatus(status) = "retry"
  /\ Answered(t, taken)
  /\ sk' = IF status \in {401, 403} /\ ~DedicatedToken
             THEN [sk EXCEPT !.connected = FALSE]
             ELSE sk
  /\ AfterFailure(t)
  /\ UNCHANGED <<queueVars, running, app, mutex, callback, counters>>

\* acknowledge() under the mutex.
AcknowledgeBatch(t) ==
  /\ pc[t] = "ack" /\ mutex = t
  /\ acked' = acked + Len(inflight)
  /\ Acknowledge
  /\ mutex' = Free
  /\ pc' = [pc EXCEPT ![t] = "backlog"]
  /\ UNCHANGED <<running, app, callback, request, sk, seen, received, filtered,
                 delivered, droppedQueueFull, droppedLockTimeout,
                 droppedInvalid>>

\* Fault: the observations of a rejected batch are not counted.
DropInvalidBatch_Uncounted(t) ==
  /\ pc[t] = "drop" /\ mutex = t
  /\ Acknowledge
  /\ mutex' = Free
  /\ pc' = [pc EXCEPT ![t] = "backlog"]
  /\ UNCHANGED <<running, app, callback, request, sk, seen, counters>>

\* drop_invalid() under the mutex.
DropInvalidBatch(t) ==
  /\ pc[t] = "drop" /\ mutex = t
  /\ droppedInvalid' = droppedInvalid + Len(inflight)
  /\ Acknowledge
  /\ mutex' = Free
  /\ pc' = [pc EXCEPT ![t] = "backlog"]
  /\ UNCHANGED <<running, app, callback, request, sk, seen, received, filtered,
                 delivered, droppedQueueFull, droppedLockTimeout, acked>>

\* pending() at the end of a pass that completed a request; its answer only
\* decides how long the task sleeps.
CountBacklog(t) ==
  /\ pc[t] = "backlog" /\ mutex = t
  /\ mutex' = Free
  /\ pc' = [pc EXCEPT ![t] = "loop"]
  /\ UNCHANGED <<queueVars, running, app, callback, request, sk, seen,
                 counters>>

TaskStep(t) ==
  \/ LoopTest(t) \/ CheckCredentials(t)
  \/ \E place \in LockPoints : TaskLock(t, place)
  \/ TaskLockTimeout(t)
  \/ PrepareBatch(t) \/ PostUnconfigured(t) \/ Post(t)
  \/ \E status \in Statuses, taken \in BOOLEAN :
       \/ Delivered(t, status, taken)
       \/ RejectedInvalid(t, status, taken)
       \/ PostFailed(t, status, taken)
  \/ AcknowledgeBatch(t) \/ DropInvalidBatch(t) \/ CountBacklog(t)

----------------------------------------------------------------------------
\* The Signal K client finds its server, gains or loses its token, connects or
\* loses its connection.
SkClientChanges ==
  /\ \E field \in {"address", "token", "connected"} :
       sk' = [sk EXCEPT ![field] = ~@]
  /\ UNCHANGED <<queueVars, running, app, mutex, callback, pc, request, seen,
                 counters>>

AppStep ==
  \/ Start \/ CreateTaskFails \/ StartScan \/ Stop \/ Destroy
  \/ \E t \in Tasks : CreateTask(t)
  \/ PendingLock \/ PendingUnlock

CallbackStep ==
  \/ \E address \in Advertisers : OnAdvertisement(address)
  \/ CallbackLock \/ CallbackTimeout \/ CallbackPush

Next ==
  \/ AppStep
  \/ CallbackStep
  \/ \E t \in Tasks : TaskStep(t)
  \/ SkClientChanges

Spec == Init /\ [][Next]_vars

----------------------------------------------------------------------------
(* Safety.                                                                 *)

SumOfDrops == droppedQueueFull + droppedLockTimeout + droppedInvalid

\* The variables have their types, and the mutex is owned by exactly the thread
\* that is inside a critical section.
TypeOK ==
  /\ QueueTypeOK
  /\ running \in BOOLEAN
  /\ app \in {"idle", "starting", "scanning", "destroyed"}
  /\ mutex \in Threads \union {Free}
  /\ callback \in 0..MaxObservations
  /\ pc \in [Tasks -> Places]
  /\ request \in [Tasks -> [batch: Seq(Nat), bearer: BOOLEAN]]
  /\ sk \in [address: BOOLEAN, token: BOOLEAN, connected: BOOLEAN]
  /\ seen \subseteq Nat
  /\ received \in 0..MaxObservations
  /\ filtered \in Nat /\ delivered \in 0..CounterModulus - 1
  /\ droppedQueueFull \in Nat /\ droppedLockTimeout \in Nat
  /\ droppedInvalid \in Nat /\ acked \in Nat
  /\ mutex \in Tasks => pc[mutex] \in LockPoints
  /\ mutex = Ble => callback # 0

\* Every observation that was counted in `received` is in exactly one place: it
\* was filtered, dropped under one of the three categorised counters,
\* acknowledged, is queued, or is in the hands of the callback.  The operations
\* guide requires that every loss be attributable to drop_queue, drop_lock or
\* drop_invalid; it is, however start(), stop() and several tasks interleave.
Accounting ==
  received = filtered + SumOfDrops + acked + QueueSize
             + (IF callback # 0 THEN 1 ELSE 0)

\* Observations are held in the order they were received, without duplicates,
\* and the one the callback carries is younger than all of them: what is dropped
\* from a full queue is the oldest not yet assigned to a batch.
Fifo ==
  /\ Increasing(Held)
  /\ callback <= received
  /\ \A i \in 1..Len(Held) : Held[i] <= received
  /\ callback # 0 => \A i \in 1..Len(Held) : Held[i] < callback

\* While a task is between its prepare_batch() and the end of its pass, the
\* batch in flight is the one it posts: the reads of queue_.inflight() that
\* post_batch() makes without the mutex see a batch nobody changes.
InflightIsMine ==
  \A t \in Tasks :
    /\ pc[t] \in {"post", "waiting", "ack", "drop"} => inflight # <<>>
    /\ pc[t] = "waiting" => request[t].batch = inflight
    /\ pc[t] = "ack" => Range(inflight) \subseteq seen

\* A batch in flight is never altered and leaves only whole, after the server
\* has taken all of it or drop_invalid has counted all of it: the header says
\* the transport retains its in-flight batch across transient failures.
InflightRetained ==
  [][ \/ inflight' = inflight
      \/ inflight = <<>>
      \/ /\ inflight' = <<>>
         /\ \/ Range(inflight) \subseteq seen
            \/ droppedInvalid' = droppedInvalid + Len(inflight) ]_vars

\* Retries and lost answers repeat observations but never reorder them: what the
\* server sees for the first time is younger than all it has seen before.
ServerInOrder ==
  [][ \A new \in seen' \ seen : \A old \in seen : old < new ]_vars

\* What was acknowledged was taken by the server: no observation leaves the
\* gateway uncounted and undelivered.
AcknowledgedWasTaken == acked <= Cardinality(seen)

\* stop() leaves it to the task to observe running_ and delete itself; the
\* object, its mutex and running_ itself must be there until it has.
NoTaskOutlivesGateway ==
  app = "destroyed" => \A t \in Tasks : pc[t] = "none"

----------------------------------------------------------------------------
(* Liveness.                                                               *)

\* FreeRTOS schedules the three threads; a delay, an HTTP request (bounded by its
\* timeout) and a critical section end; a start() in progress ends.  A thread
\* that keeps asking for the mutex is given it once in a while, because the
\* mutex queues its waiters.  And a server that is asked again and again does
\* not fail every time.
Fairness ==
  /\ WF_vars(PendingUnlock)
  /\ WF_vars((\E t \in Tasks : CreateTask(t)) \/ CreateTaskFails)
  /\ WF_vars(StartScan)
  /\ SF_vars(CallbackLock)
  /\ WF_vars(CallbackPush)
  /\ \A t \in Tasks :
       /\ WF_vars(TaskStep(t))
       /\ \A place \in LockPoints : SF_vars(TaskLock(t, place))
       /\ SF_vars(\E status \in Statuses, taken \in BOOLEAN :
                     \/ Delivered(t, status, taken)
                     \/ RejectedInvalid(t, status, taken))

FairSpec == Spec /\ Fairness

\* 20 ms and 100 ms are far longer than any critical section of the mutex: from
\* some time on nobody waits in vain.
NoMoreLockTimeouts ==
  <>[][~(CallbackTimeout \/ \E t \in Tasks : TaskLockTimeout(t))]_vars

Connected == running /\ MayDeliver /\ sk.address

\* After an outage the retained batch is retried and the queue drains: once the
\* gateway stays running, configured and connected, every observation leaves it.
DrainsAfterOutage ==
  <>[]Connected /\ NoMoreLockTimeouts => <>[](QueueSize = 0)

\* The task of a gateway that stays stopped deletes itself, whatever it was
\* doing (waiting for the server, for the mutex or for its interval).
StoppedTasksEnd ==
  <>[](~running /\ app # "destroyed") => <>[](\A t \in Tasks : pc[t] = "none")

=============================================================================
