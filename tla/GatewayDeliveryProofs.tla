----------------------- MODULE GatewayDeliveryProofs -----------------------
(***************************************************************************)
(* What the server has seen, for every queue and batch size, when the      *)
(* gateway never has two HTTP tasks: deliveries and retries keep the order *)
(* of the observations, and what is acknowledged was taken.  The inductive *)
(* invariants are SeenOrder and AckedBesides.                              *)
(***************************************************************************)
EXTENDS AdvertisementGatewayProofs, FiniteSetTheorems

\* Fifo, said of the two halves of the queue.
LEMMA HalvesInOrder ==
  ASSUME TypeOK, Fifo
  PROVE  /\ \A i \in 1..Len(inflight) :
              inflight[i] \in Nat /\ inflight[i] <= received
              /\ (callback # 0 => inflight[i] < callback)
         /\ \A i \in 1..Len(pending) :
              pending[i] \in Nat /\ pending[i] <= received
              /\ (callback # 0 => pending[i] < callback)
         /\ \A i \in 1..Len(inflight), j \in 1..Len(pending) : inflight[i] < pending[j]
         /\ \A i, j \in 1..Len(inflight) : i < j => inflight[i] < inflight[j]
<1> DEFINE l == Len(inflight)
           n == Len(pending)
<1>1. l \in Nat /\ n \in Nat /\ Len(Held) = l + n /\ QueueTypeOK
  BY HeldElements DEF TypeOK
<1>2. /\ \A i \in 1..l : i \in 1..Len(Held) /\ inflight[i] = Held[i]
      /\ \A i \in 1..n : l + i \in 1..Len(Held) /\ pending[i] = Held[l + i]
  <2>1. \A i \in 1..l : i \in 1..Len(Held) /\ inflight[i] = Held[i]
    BY <1>1, HeldElements
  <2>2. ASSUME NEW i \in 1..n PROVE l + i \in 1..Len(Held) /\ pending[i] = Held[l + i]
    <3>1. l + i \in 1..Len(Held) /\ ~(l + i <= l) /\ (l + i) - l = i
      BY <1>1
    <3> QED
      BY <1>1, <3>1, HeldElements
  <2> QED
    BY <2>1, <2>2
<1>3. \A i \in 1..Len(Held) : Held[i] \in Nat /\ Held[i] <= received
                              /\ (callback # 0 => Held[i] < callback)
  BY <1>1, HeldTyped DEF Fifo
<1>4. \A i, j \in 1..Len(Held) : i < j => Held[i] < Held[j]
  BY DEF Fifo, Increasing
<1> HIDE DEF l, n
<1>5. \A i \in 1..l, j \in 1..n : i < l + j
  BY <1>1
<1> QED
  BY <1>1, <1>2, <1>3, <1>4, <1>5 DEF l, n

----------------------------------------------------------------------------
(* The order in which the server sees the observations.                    *)

Younger(s) == \A i \in 1..Len(s) : \A old \in seen : old < s[i]

\* What waits is younger than all the server has seen, and so is the batch in
\* flight unless the server has all of it.
SeenOrder ==
  /\ \A old \in seen : old <= received
  /\ callback # 0 => \A old \in seen : old < callback
  /\ Younger(pending)
  /\ Range(inflight) \subseteq seen \/ Younger(inflight)

LEMMA SeenUnchanged ==
  ASSUME SeenOrder, UNCHANGED <<pending, inflight, callback, received, seen>>
  PROVE  SeenOrder'
BY DEF SeenOrder, Younger

LEMMA SeenCallback ==
  ASSUME TypeOK, SeenOrder, CallbackStep
  PROVE  SeenOrder'
<1>1. seen' = seen /\ inflight' = inflight /\ seen \subseteq Nat /\ received \in Nat
  BY DEF CallbackStep, OnAdvertisement, CallbackLock, CallbackTimeout, CallbackPush,
         Push, queueVars, TypeOK
<1>2. ASSUME NEW address \in Advertisers, OnAdvertisement(address) PROVE SeenOrder'
  <2>1. received' = received + 1 /\ pending' = pending /\ callback' \in {0, received'}
    BY <1>2 DEF OnAdvertisement, queueVars
  <2>2. \A old \in seen : old <= received' /\ old < received'
    BY <1>1, <2>1 DEF SeenOrder
  <2> QED
    BY <1>1, <2>1, <2>2 DEF SeenOrder, Younger
<1>3. CASE CallbackLock
  BY <1>3, SeenUnchanged DEF CallbackLock, queueVars, counters
<1>4. CASE CallbackTimeout
  BY <1>4 DEF CallbackTimeout, queueVars, SeenOrder, Younger
<1>5. CASE CallbackPush
  <2> DEFINE kept == IF PushDropsOldest THEN Tail(pending) ELSE pending
  <2>1. /\ callback # 0 /\ callback' = 0 /\ received' = received
        /\ pending' = Append(kept, callback)
    BY <1>5 DEF CallbackPush, Push, TypeOK
  <2>2. callback \in Nat /\ pending \in Seq(Nat)
    BY DEF TypeOK, QueueTypeOK
  <2>3. kept \in Seq(Nat) /\ \A i \in 1..Len(kept) : \E j \in 1..Len(pending) :
                               kept[i] = pending[j]
    <3>1. CASE PushDropsOldest
      <4>1. pending # <<>>
        BY <3>1, QueueAssumption, EmptySeq DEF PushDropsOldest
      <4>2. /\ Tail(pending) \in Seq(Nat) /\ Len(Tail(pending)) = Len(pending) - 1
            /\ \A i \in 1..Len(Tail(pending)) : Tail(pending)[i] = pending[i + 1]
        BY <2>2, <4>1, HeadTailProperties
      <4>3. Len(pending) \in Nat
        BY <2>2, LenProperties
      <4>4. \A i \in 1..Len(Tail(pending)) : i + 1 \in 1..Len(pending)
        BY <4>2, <4>3
      <4> QED
        BY <3>1, <4>2, <4>4
    <3>2. CASE ~PushDropsOldest
      BY <2>2, <3>2
    <3> QED
      BY <3>1, <3>2
  <2> HIDE DEF kept
  <2>4. Younger(kept)
    BY <2>3 DEF SeenOrder, Younger
  <2>5. /\ Len(pending') = Len(kept) + 1 /\ Len(kept) \in Nat
        /\ pending'[Len(kept) + 1] = callback
        /\ \A i \in 1..Len(kept) : pending'[i] = kept[i]
    BY <2>1, <2>2, <2>3, AppendProperties, LenProperties
  <2>6. \A i \in 1..Len(pending') : i \in 1..Len(kept) \/ i = Len(kept) + 1
    BY <2>5
  <2>7. Younger(pending)'
    BY <1>1, <2>1, <2>4, <2>5, <2>6 DEF SeenOrder, Younger
  <2> QED
    BY <1>1, <2>1, <2>7 DEF SeenOrder, Younger
<1> QED
  BY <1>2, <1>3, <1>4, <1>5 DEF CallbackStep

\* prepare() takes from the waiting observations.
LEMMA PreparedWasPending ==
  ASSUME QueueTypeOK, Prepare, inflight = <<>>
  PROVE  /\ \A i \in 1..Len(inflight') :
              i \in 1..Len(pending) /\ inflight'[i] = pending[i]
         /\ \A i \in 1..Len(pending') : \E j \in 1..Len(pending) :
              pending'[i] = pending[j]
<1>1. /\ pending # <<>> /\ pending \in Seq(Nat)
      /\ inflight' = SubSeq(pending, 1, BatchSize)
      /\ pending' = SubSeq(pending, BatchSize + 1, Len(pending))
  BY DEF Prepare, QueueTypeOK
<1>2. Len(pending) \in Nat \ {0}
  BY <1>1, EmptySeq, LenProperties
<1>3. BatchSize \in 1..Len(pending)
  BY <1>2, QueueAssumption DEF BatchSize
<1>4. /\ Len(inflight') = BatchSize
      /\ \A i \in 1..BatchSize : inflight'[i] = pending[i]
  BY <1>1, <1>2, <1>3, SubSeqProperties
<1>5. /\ Len(pending') = Len(pending) - BatchSize
      /\ \A i \in 1..Len(pending') : /\ BatchSize + i \in 1..Len(pending)
                                     /\ pending'[i] = pending[BatchSize + i]
  BY <1>1, <1>2, <1>3, SubSeqProperties
<1> QED
  BY <1>2, <1>3, <1>4, <1>5

\* What an answer does to the observations the server has seen.
LEMMA AnswerTakesBatch ==
  ASSUME TypeOK, InflightIsMine, NEW t \in Tasks, NEW taken \in BOOLEAN,
         pc[t] = "waiting", Answered(t, taken)
  PROVE  seen' = IF taken THEN seen \union Range(inflight) ELSE seen
BY DEF InflightIsMine, Answered

LEMMA SeenTask ==
  ASSUME TypeOK, Fifo, InflightIsMine, SeenOrder, NEW t \in Tasks, TaskStep(t)
  PROVE  SeenOrder' /\ \A new \in seen' \ seen : \A old \in seen : old < new
<1>1. ASSUME NEW status \in Statuses, NEW taken \in BOOLEAN,
             \/ Delivered(t, status, taken)
             \/ RejectedInvalid(t, status, taken)
             \/ PostFailed(t, status, taken)
      PROVE  SeenOrder' /\ \A new \in seen' \ seen : \A old \in seen : old < new
  <2>1. /\ pc[t] = "waiting" /\ Answered(t, taken)
        /\ UNCHANGED <<pending, inflight, callback, received>>
    BY <1>1 DEF Delivered, RejectedInvalid, PostFailed, queueVars, counters
  <2>2. CASE ~taken
    BY <2>1, <2>2, AnswerTakesBatch, SeenUnchanged
  <2>3. CASE taken
    <3>1. seen' = seen \union Range(inflight)
      BY <2>1, <2>3, AnswerTakesBatch
    <3>2. \A new \in Range(inflight) : \E i \in 1..Len(inflight) : new = inflight[i]
      <4>1. DOMAIN inflight = 1..Len(inflight)
        BY LenProperties DEF TypeOK, QueueTypeOK
      <4> QED
        BY <4>1 DEF Range
    <3>3. SeenOrder'
      <4>1. \A old \in seen' : old <= received
        BY <3>1, <3>2, HalvesInOrder DEF SeenOrder
      <4>2. callback # 0 => \A old \in seen' : old < callback
        BY <3>1, <3>2, HalvesInOrder DEF SeenOrder
      <4>3. Younger(pending)'
        BY <2>1, <3>1, <3>2, HalvesInOrder DEF SeenOrder, Younger
      <4>4. Range(inflight') \subseteq seen'
        BY <2>1, <3>1
      <4> QED
        BY <2>1, <4>1, <4>2, <4>3, <4>4 DEF SeenOrder
    <3>4. ASSUME NEW new \in seen' \ seen, NEW old \in seen PROVE old < new
      <4>1. new \in Range(inflight) /\ Younger(inflight)
        BY <3>1, <3>4 DEF SeenOrder
      <4> QED
        BY <3>2, <4>1 DEF Younger
    <3> QED
      BY <3>3, <3>4
  <2> QED
    BY <2>2, <2>3
<1>2. CASE PrepareBatch(t)
  <2>1. UNCHANGED <<callback, received, seen>>
    BY <1>2 DEF PrepareBatch, counters
  <2>2. CASE UNCHANGED queueVars
    BY <2>1, <2>2, SeenUnchanged DEF queueVars
  <2>3. CASE Prepare /\ inflight = <<>>
    <3>1. Younger(inflight)' /\ Younger(pending)'
      BY <2>1, <2>3, PreparedWasPending DEF SeenOrder, Younger, TypeOK
    <3> QED
      BY <2>1, <3>1 DEF SeenOrder
  <2>4. CASE Prepare /\ inflight # <<>>
    BY <2>2, <2>4 DEF Prepare
  <2> QED
    BY <1>2, <2>1, <2>2, <2>3, <2>4 DEF PrepareBatch
<1>3. CASE AcknowledgeBatch(t) \/ DropInvalidBatch(t)
  <2>1. Acknowledge /\ UNCHANGED <<callback, received, seen>>
    BY <1>3 DEF AcknowledgeBatch, DropInvalidBatch
  <2>2. Younger(inflight)'
    BY <2>1, EmptySeq DEF Acknowledge, Younger
  <2> QED
    BY <2>1, <2>2 DEF Acknowledge, SeenOrder, Younger
<1>4. CASE \/ LoopTest(t) \/ CheckCredentials(t) \/ PostUnconfigured(t) \/ Post(t)
           \/ CountBacklog(t) \/ TaskLockTimeout(t)
           \/ \E place \in LockPoints : TaskLock(t, place)
  BY <1>4, SeenUnchanged
  DEF LoopTest, CheckCredentials, PostUnconfigured, Post, CountBacklog,
      TaskLockTimeout, TaskLock, queueVars, counters
<1> QED
  BY <1>1, <1>2, <1>3, <1>4 DEF TaskStep

LEMMA SeenStep ==
  TypeOK /\ Fifo /\ InflightIsMine /\ SeenOrder /\ [Next]_vars =>
    SeenOrder' /\ \A new \in seen' \ seen : \A old \in seen : old < new
<1> SUFFICES ASSUME TypeOK, Fifo, InflightIsMine, SeenOrder, [Next]_vars
             PROVE  SeenOrder' /\ \A new \in seen' \ seen : \A old \in seen : old < new
  OBVIOUS
<1>1. CASE AppStep \/ SkClientChanges \/ UNCHANGED vars
  <2>1. UNCHANGED <<pending, inflight, callback, received, seen>>
    BY <1>1
    DEF AppStep, Start, CreateTask, CreateTaskFails, StartScan, Stop, Destroy,
        PendingLock, PendingUnlock, SkClientChanges, vars, queueVars, counters
  <2> QED
    BY <2>1, SeenUnchanged
<1>2. CASE CallbackStep
  <2>1. seen' = seen
    BY <1>2 DEF CallbackStep, OnAdvertisement, CallbackLock, CallbackTimeout,
                CallbackPush
  <2> QED
    BY <1>2, <2>1, SeenCallback
<1>3. CASE \E t \in Tasks : TaskStep(t)
  BY <1>3, SeenTask
<1> QED
  BY <1>1, <1>2, <1>3 DEF Next

LEMMA SeenInvariant ==
  ASSUME SingleTask
  PROVE  Spec => []SeenOrder
<1>1. Init => SeenOrder
  BY EmptySeq DEF Init, QueueInit, SeenOrder, Younger
<1> QED
  BY TypeCorrect, HeldInOrder, BatchIsStable, <1>1, SeenStep, PTL DEF Spec

\* With one task, every observation the server sees for the first time is younger
\* than all it has seen before, through lost answers, retries, overflowing queues
\* and restarts.
THEOREM DeliveredInOrder ==
  ASSUME SingleTask
  PROVE  Spec => ServerInOrder
<1>1. TypeOK /\ Fifo /\ InflightIsMine /\ SeenOrder /\ [Next]_vars =>
        [\A new \in seen' \ seen : \A old \in seen : old < new]_vars
  BY SeenStep
<1> QED
  BY TypeCorrect, HeldInOrder, BatchIsStable, SeenInvariant, <1>1, PTL
  DEF Spec, ServerInOrder

----------------------------------------------------------------------------
(* What is acknowledged.                                                   *)

\* The acknowledged observations are among those the server has seen and the
\* batch in flight does not hold.
AckedBesides == acked <= Cardinality(seen \ Range(inflight))

LEMMA SeenFinite ==
  ASSUME TypeOK, SeenOrder
  PROVE  IsFiniteSet(seen)
<1>1. seen \subseteq Nat /\ received \in Nat
  BY DEF TypeOK
<1> QED
  BY <1>1, FS_BoundedSetOfNaturals DEF SeenOrder

\* The numbers up to n are n.
LEMMA UpToCardinality ==
  ASSUME NEW n \in Nat
  PROVE  IsFiniteSet(1..n) /\ Cardinality(1..n) = n
<1>1. IsFiniteSet(1..n) /\ Cardinality(1..n) = IF 1 > n THEN 0 ELSE n - 1 + 1
  BY FS_Interval
<1>2. 1 > n => n = 0
  OBVIOUS
<1>3. n - 1 + 1 = n
  OBVIOUS
<1> QED
  BY <1>1, <1>2, <1>3

LEMMA BatchCardinality ==
  ASSUME TypeOK, Fifo
  PROVE  IsFiniteSet(Range(inflight)) /\ Cardinality(Range(inflight)) = Len(inflight)
<1> DEFINE n == Len(inflight)
           R == Range(inflight)
<1>1. n \in Nat /\ inflight \in [1..n -> Nat] /\ DOMAIN inflight = 1..n
  BY LenProperties, ElementOfSeq DEF TypeOK, QueueTypeOK
<1>2. \A i, j \in 1..n : i # j => inflight[i] # inflight[j]
  BY <1>1, HalvesInOrder
<1>3. inflight \in [1..n -> R] /\ \A y \in R : \E i \in 1..n : inflight[i] = y
  BY <1>1 DEF Range
<1>4. inflight \in Surjection(1..n, R) /\ inflight \in Injection(1..n, R)
  BY <1>2, <1>3 DEF Surjection, Injection, IsInjective
<1>5. IsFiniteSet(1..n) /\ Cardinality(1..n) = n
  BY <1>1, UpToCardinality
<1> QED
  BY <1>4, <1>5, FS_Surjection

LEMMA AckedStep ==
  TypeOK /\ Fifo /\ InflightIsMine /\ SeenOrder /\ AckedBesides /\ [Next]_vars
    => AckedBesides'
<1> SUFFICES ASSUME TypeOK, Fifo, InflightIsMine, SeenOrder, AckedBesides, [Next]_vars
             PROVE  AckedBesides'
  OBVIOUS
<1>1. ASSUME acked' = acked, seen' \ Range(inflight') = seen \ Range(inflight)
      PROVE  AckedBesides'
  BY <1>1 DEF AckedBesides
<1>2. CASE AppStep \/ SkClientChanges \/ UNCHANGED vars \/ CallbackStep
  <2>1. UNCHANGED <<inflight, seen, acked>>
    BY <1>2
    DEF AppStep, Start, CreateTask, CreateTaskFails, StartScan, Stop, Destroy,
        PendingLock, PendingUnlock, SkClientChanges, vars, queueVars, counters,
        CallbackStep, OnAdvertisement, CallbackLock, CallbackTimeout, CallbackPush, Push
  <2> QED
    BY <1>1, <2>1
<1>3. ASSUME NEW t \in Tasks, TaskStep(t) PROVE AckedBesides'
  <2>1. ASSUME NEW status \in Statuses, NEW taken \in BOOLEAN,
               \/ Delivered(t, status, taken)
               \/ RejectedInvalid(t, status, taken)
               \/ PostFailed(t, status, taken)
        PROVE  AckedBesides'
    <3>1. /\ pc[t] = "waiting" /\ Answered(t, taken)
          /\ UNCHANGED <<inflight, acked>>
      BY <2>1 DEF Delivered, RejectedInvalid, PostFailed, queueVars, counters
    <3> QED
      BY <1>1, <3>1, AnswerTakesBatch
  <2>2. CASE PrepareBatch(t)
    <3>1. UNCHANGED <<acked, seen>>
      BY <2>2 DEF PrepareBatch, counters
    <3>2. CASE inflight' = inflight
      BY <1>1, <3>1, <3>2
    <3>3. CASE Prepare /\ inflight = <<>>
      <4>1. \A i \in 1..Len(inflight') : inflight'[i] \notin seen
        <5>1. \A i \in 1..Len(inflight') :
                i \in 1..Len(pending) /\ inflight'[i] = pending[i]
          BY <3>3, PreparedWasPending DEF TypeOK
        <5>2. \A i \in 1..Len(pending) : pending[i] \in Nat
          BY HalvesInOrder
        <5> QED
          BY <5>1, <5>2 DEF SeenOrder, Younger
      <4>2. inflight' \in Seq(Nat)
        BY <3>3, PrepareKeepsHeld DEF TypeOK, QueueTypeOK
      <4>3. seen \intersect Range(inflight') = {}
        BY <4>1, <4>2, LenProperties DEF Range
      <4>4. Range(inflight) = {}
        BY <3>3 DEF Range
      <4> QED
        BY <1>1, <3>1, <4>3, <4>4
    <3> QED
      BY <2>2, <3>2, <3>3 DEF PrepareBatch, Prepare, queueVars
  <2>3. ASSUME Acknowledge, seen' = seen
        PROVE  /\ seen' \ Range(inflight') = seen
               /\ IsFiniteSet(seen) /\ Cardinality(seen) \in Nat
               /\ Cardinality(seen \ Range(inflight)) \in Nat
               /\ Cardinality(seen \ Range(inflight)) <= Cardinality(seen)
    <3>1. IsFiniteSet(seen) /\ seen \ Range(inflight) \in SUBSET seen
      BY SeenFinite
    <3>2. seen' \ Range(inflight') = seen
      BY <2>3 DEF Acknowledge, Range
    <3> QED
      BY <3>1, <3>2, FS_Subset, FS_CardinalityType
  <2>4. CASE AcknowledgeBatch(t)
    <3>1. /\ Acknowledge /\ seen' = seen /\ acked' = acked + Len(inflight)
          /\ Range(inflight) \subseteq seen
      BY <2>4 DEF AcknowledgeBatch, InflightIsMine
    <3>2. Cardinality(seen \ Range(inflight)) = Cardinality(seen) - Len(inflight)
      <4>1. seen \intersect Range(inflight) = Range(inflight)
        BY <3>1
      <4>2. IsFiniteSet(seen)
        BY SeenFinite
      <4>3. Cardinality(seen \ Range(inflight))
              = Cardinality(seen) - Cardinality(seen \intersect Range(inflight))
        BY <4>2, FS_Difference
      <4>4. Cardinality(Range(inflight)) = Len(inflight)
        BY BatchCardinality
      <4> QED
        BY <4>1, <4>3, <4>4
    <3>3. acked \in Nat /\ Len(inflight) \in Nat
      BY LenProperties DEF TypeOK, QueueTypeOK
    <3>4. /\ seen' \ Range(inflight') = seen
          /\ Cardinality(seen) \in Nat /\ Cardinality(seen \ Range(inflight)) \in Nat
      BY <2>3, <3>1
    <3>5. acked + Len(inflight) <= Cardinality(seen)
      BY <3>2, <3>3, <3>4 DEF AckedBesides
    <3> QED
      BY <3>1, <3>4, <3>5 DEF AckedBesides
  <2>5. CASE DropInvalidBatch(t)
    <3>1. Acknowledge /\ seen' = seen /\ acked' = acked /\ acked \in Nat
      BY <2>5 DEF DropInvalidBatch, TypeOK
    <3> QED
      BY <2>3, <3>1 DEF AckedBesides
  <2>6. CASE \/ LoopTest(t) \/ CheckCredentials(t) \/ PostUnconfigured(t) \/ Post(t)
             \/ CountBacklog(t) \/ TaskLockTimeout(t)
             \/ \E place \in LockPoints : TaskLock(t, place)
    BY <1>1, <2>6
    DEF LoopTest, CheckCredentials, PostUnconfigured, Post, CountBacklog,
        TaskLockTimeout, TaskLock, queueVars, counters
  <2> QED
    BY <1>3, <2>1, <2>2, <2>4, <2>5, <2>6 DEF TaskStep
<1> QED
  BY <1>2, <1>3 DEF Next

\* With one task, no more is acknowledged than the server took: what leaves the
\* queue by acknowledge() is never an observation that was lost.
THEOREM AcknowledgedIsDelivered ==
  ASSUME SingleTask
  PROVE  Spec => []AcknowledgedWasTaken
<1>1. Init => AckedBesides
  BY FS_EmptySet DEF Init, QueueInit, AckedBesides, Range
<1>2. TypeOK /\ SeenOrder /\ AckedBesides => AcknowledgedWasTaken
  <2> SUFFICES ASSUME TypeOK, SeenOrder, AckedBesides PROVE AcknowledgedWasTaken
    OBVIOUS
  <2>1. /\ Cardinality(seen) \in Nat /\ Cardinality(seen \ Range(inflight)) \in Nat
        /\ Cardinality(seen \ Range(inflight)) <= Cardinality(seen)
    BY SeenFinite, FS_Subset, FS_CardinalityType
  <2> QED
    BY <2>1 DEF AckedBesides, AcknowledgedWasTaken, TypeOK
<1> QED
  BY TypeCorrect, HeldInOrder, BatchIsStable, SeenInvariant, <1>1, <1>2, AckedStep, PTL
  DEF Spec

=============================================================================
