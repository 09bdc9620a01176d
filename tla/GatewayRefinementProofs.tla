---------------------- MODULE GatewayRefinementProofs ----------------------
(***************************************************************************)
(* AdvertisementGateway implements ObservationRelay, for every queue and   *)
(* batch size, as long as it never has two HTTP tasks.                     *)
(***************************************************************************)
EXTENDS GatewayRefinement, GatewayDeliveryProofs

LEMMA SegmentIs ==
  ASSUME NEW s, NEW r \in Seq(Nat), NEW m \in Nat,
         \A i \in 1..Len(r) : s[m + i] = r[i]
  PROVE  SubSeq(s, m + 1, m + Len(r)) = r
<1> DEFINE q == SubSeq(s, m + 1, m + Len(r))
<1>1. Len(r) \in Nat /\ m + 1 \in Int /\ m + Len(r) \in Int
  BY LenProperties
<1>2. \A i \in m + 1..m + Len(r) : s[i] \in Nat
  <2> SUFFICES ASSUME NEW i \in m + 1..m + Len(r) PROVE s[i] \in Nat
    OBVIOUS
  <2>1. i - m \in 1..Len(r) /\ m + (i - m) = i
    BY <1>1
  <2>2. r[i - m] \in Nat
    BY <2>1, ElementOfSeq
  <2> QED
    BY <2>1, <2>2
<1>3. /\ q \in Seq(Nat)
      /\ Len(q) = IF m + 1 <= m + Len(r) THEN m + Len(r) - (m + 1) + 1 ELSE 0
      /\ \A i \in 1..m + Len(r) - (m + 1) + 1 : q[i] = s[m + 1 + i - 1]
  BY <1>1, <1>2, SubSeqProperties
<1> HIDE DEF q
<1>4. Len(q) = Len(r)
  BY <1>1, <1>3
<1>5. ASSUME NEW i \in 1..Len(r) PROVE q[i] = r[i]
  <2>1. i \in 1..m + Len(r) - (m + 1) + 1 /\ m + 1 + i - 1 = m + i
    BY <1>1
  <2> QED
    BY <1>3, <2>1
<1> QED
  BY <1>3, <1>4, <1>5, SeqEqual DEF q

\* The two halves of the queue are what the relay calls claimed and unclaimed.
LEMMA HalvesOfRelay ==
  ASSUME TypeOK
  PROVE  /\ Relay!Unclaimed = pending
         /\ Relay!Claimed = Range(inflight)
         /\ SubSeq(Held, 1, Len(inflight)) = inflight
<1> DEFINE l == Len(inflight)
           n == Len(pending)
<1>1. /\ inflight \in Seq(Nat) /\ pending \in Seq(Nat) /\ l \in Nat /\ n \in Nat
      /\ Held \in Seq(Nat) /\ Len(Held) = l + n
      /\ \A i \in 1..l + n : Held[i] = IF i <= l THEN inflight[i] ELSE pending[i - l]
  BY HeldElements DEF TypeOK, QueueTypeOK
<1>2. SubSeq(Held, l + 1, l + n) = pending
  <2>1. ASSUME NEW i \in 1..n PROVE Held[l + i] = pending[i]
    <3>1. l + i \in 1..l + n /\ ~(l + i <= l) /\ l + i - l = i
      BY <1>1
    <3> HIDE DEF l, n
    <3> QED
      BY <1>1, <3>1
  <2> QED
    BY <1>1, <2>1, SegmentIs
<1>3. SubSeq(Held, 0 + 1, 0 + l) = inflight
  <2>1. \A i \in 1..l : Held[0 + i] = inflight[i]
    BY <1>1
  <2> QED
    BY <1>1, <2>1, SegmentIs
<1>4. SubSeq(Held, 1, l) = inflight
  BY <1>1, <1>3
<1>5. Relay!Unclaimed = pending
  BY <1>1, <1>2 DEF Relay!Unclaimed
<1>6. Relay!Claimed = Range(inflight)
  <2>1. Range(inflight) = {inflight[i] : i \in 1..l}
    BY <1>1, LenProperties DEF Range
  <2>2. \A i \in 1..l : Held[i] = inflight[i]
    BY <1>1
  <2> QED
    BY <2>1, <2>2 DEF Relay!Claimed
<1> QED
  BY <1>4, <1>5, <1>6

RelayStep == Relay!RelayNext \/ UNCHANGED Relay!relayVars

\* A step that neither moves observations nor writes any off.
LEMMA RelayStutter ==
  ASSUME UNCHANGED <<pending, inflight, seen, droppedQueueFull, droppedInvalid>>
  PROVE  RelayStep
BY DEF RelayStep, Relay!relayVars, Held

\* push() is Observe: appended, or in the place of the oldest that waits.
LEMMA PushObserves ==
  ASSUME TypeOK, Fifo, SeenOrder, CallbackPush
  PROVE  RelayStep
<1> DEFINE o == callback
<1>1. /\ o \in Nat \ {0} /\ o \in 1..MaxObservations
      /\ inflight \in Seq(Nat) /\ pending \in Seq(Nat)
      /\ droppedQueueFull \in Nat /\ droppedInvalid \in Nat
  BY DEF CallbackPush, TypeOK, QueueTypeOK
<1>2. \A old \in seen \union {Held[i] : i \in 1..Len(Held)} : old < o
  BY <1>1 DEF SeenOrder, Fifo
<1>3. UNCHANGED <<inflight, seen, droppedInvalid>>
  BY DEF CallbackPush, Push
<1>4. CASE PushDropsOldest
  <2>1. /\ pending' = Append(Tail(pending), o)
        /\ droppedQueueFull' = droppedQueueFull + 1
    BY <1>4 DEF CallbackPush, Push
  <2>2. Held' = SubSeq(Held, 1, Len(inflight)) \o Append(Tail(Relay!Unclaimed), o)
    BY <1>3, <2>1, HalvesOfRelay DEF Held
  <2>3. ~(Len(Relay!Unclaimed) < MaxPending)
    BY <1>1, <1>4, QueueAssumption, HalvesOfRelay, LenProperties DEF PushDropsOldest
  <2>4. Relay!Observe(o)
    BY <1>1, <1>2, <1>3, <2>1, <2>2, <2>3 DEF Relay!Observe
  <2> QED
    BY <1>1, <2>4 DEF RelayStep, Relay!RelayNext
<1>5. CASE ~PushDropsOldest
  <2>1. /\ pending' = Append(pending, o)
        /\ droppedQueueFull' = droppedQueueFull
    BY <1>1, <1>5 DEF CallbackPush, Push
  <2>2. Held' = Append(Held, o)
    <3>1. /\ Append(pending, o) = pending \o <<o>> /\ Held \in Seq(Nat)
          /\ Append(Held, o) = Held \o <<o>> /\ <<o>> \in Seq(Nat)
      BY <1>1, ConcatProperties, AppendIsConcat DEF Held
    <3> QED
      BY <1>1, <1>3, <2>1, <3>1, ConcatAssociative DEF Held
  <2>3. Len(Relay!Unclaimed) < MaxPending
    BY <1>1, <1>5, QueueAssumption, HalvesOfRelay, LenProperties DEF PushDropsOldest
  <2>4. Relay!Observe(o)
    BY <1>1, <1>2, <1>3, <2>1, <2>2, <2>3 DEF Relay!Observe
  <2> QED
    BY <1>1, <2>4 DEF RelayStep, Relay!RelayNext
<1> QED
  BY <1>4, <1>5

LEMMA TaskRelays ==
  ASSUME TypeOK, InflightIsMine, NEW t \in Tasks, TaskStep(t)
  PROVE  RelayStep
<1>1. ASSUME NEW status \in Statuses, NEW taken \in BOOLEAN,
             \/ Delivered(t, status, taken)
             \/ RejectedInvalid(t, status, taken)
             \/ PostFailed(t, status, taken)
      PROVE  RelayStep
  <2>1. /\ pc[t] = "waiting" /\ Answered(t, taken)
        /\ UNCHANGED <<pending, inflight, droppedQueueFull, droppedInvalid>>
    BY <1>1 DEF Delivered, RejectedInvalid, PostFailed, queueVars, counters
  <2>2. CASE ~taken
    BY <2>1, <2>2, AnswerTakesBatch, RelayStutter
  <2>3. CASE taken
    <3>1. seen' = seen \union Relay!Claimed
      BY <2>1, <2>3, AnswerTakesBatch, HalvesOfRelay
    <3>2. Relay!Arrive
      BY <2>1, <3>1 DEF Relay!Arrive, Held
    <3> QED
      BY <3>2 DEF RelayStep, Relay!RelayNext
  <2> QED
    BY <2>2, <2>3
<1>2. CASE PrepareBatch(t)
  <2>1. UNCHANGED <<seen, droppedQueueFull, droppedInvalid>>
    BY <1>2 DEF PrepareBatch, counters
  <2>2. CASE UNCHANGED queueVars
    BY <2>1, <2>2, RelayStutter DEF queueVars
  <2>3. CASE Prepare /\ inflight = <<>>
    <3>1. QueueTypeOK' /\ Held' = Held /\ inflight' # <<>>
      BY <2>3, PrepareKeepsHeld DEF TypeOK
    <3>2. Len(inflight') \in 1..MaxBatch
      <4>1. inflight' \in Seq(Nat) /\ Len(inflight') <= MaxBatch
        BY <3>1 DEF QueueTypeOK
      <4> QED
        BY <3>1, <4>1, EmptySeq, LenProperties, QueueAssumption
    <3>3. Len(inflight') <= Len(Held)
      <4>1. /\ Len(inflight') \in Nat /\ Len(pending') \in Nat
            /\ Len(Held') = Len(inflight') + Len(pending')
        BY <3>1, ConcatProperties, LenProperties DEF QueueTypeOK, Held
      <4> QED
        BY <3>1, <4>1
    <3>4. Len(inflight) = 0
      BY <2>3, EmptySeq
    <3>5. Relay!Claim
      BY <2>1, <3>1, <3>2, <3>3, <3>4 DEF Relay!Claim
    <3> QED
      BY <3>5 DEF RelayStep, Relay!RelayNext
  <2>4. CASE Prepare /\ inflight # <<>>
    BY <2>2, <2>4 DEF Prepare
  <2> QED
    BY <1>2, <2>2, <2>3, <2>4 DEF PrepareBatch
<1>3. ASSUME Acknowledge, seen' = seen, inflight # <<>> PROVE Relay!Release
  <2>1. Len(inflight) > 0
    BY <1>3, EmptySeq, LenProperties DEF TypeOK, QueueTypeOK
  <2>2. /\ inflight' = <<>> /\ pending' = pending /\ Len(inflight') = 0
        /\ Held' = pending
    BY <1>3, EmptySeq, ConcatEmptySeq DEF Acknowledge, Held, TypeOK, QueueTypeOK
  <2> QED
    BY <1>3, <2>1, <2>2, HalvesOfRelay DEF Relay!Release
<1>4. CASE AcknowledgeBatch(t)
  <2>1. /\ Acknowledge /\ UNCHANGED <<seen, droppedQueueFull, droppedInvalid>>
        /\ inflight # <<>> /\ Range(inflight) \subseteq seen
    BY <1>4 DEF AcknowledgeBatch, InflightIsMine
  <2>2. Relay!Settle
    BY <1>3, <2>1, HalvesOfRelay DEF Relay!Settle
  <2> QED
    BY <2>2 DEF RelayStep, Relay!RelayNext
<1>5. CASE DropInvalidBatch(t)
  <2>1. /\ Acknowledge /\ UNCHANGED <<seen, droppedQueueFull>>
        /\ inflight # <<>> /\ droppedInvalid' = droppedInvalid + Len(inflight)
    BY <1>5 DEF DropInvalidBatch, InflightIsMine
  <2>2. /\ droppedQueueFull \in Nat /\ droppedInvalid \in Nat /\ Len(inflight) \in Nat
    BY LenProperties DEF TypeOK, QueueTypeOK
  <2>3. droppedQueueFull' + droppedInvalid'
          = droppedQueueFull + droppedInvalid + Len(inflight)
    BY <2>1, <2>2
  <2>4. Relay!WriteOff
    BY <1>3, <2>1, <2>3 DEF Relay!WriteOff
  <2> QED
    BY <2>4 DEF RelayStep, Relay!RelayNext
<1>6. CASE \/ LoopTest(t) \/ CheckCredentials(t) \/ PostUnconfigured(t) \/ Post(t)
           \/ CountBacklog(t) \/ TaskLockTimeout(t)
           \/ \E place \in LockPoints : TaskLock(t, place)
  BY <1>6, RelayStutter
  DEF LoopTest, CheckCredentials, PostUnconfigured, Post, CountBacklog,
      TaskLockTimeout, TaskLock, queueVars, counters
<1> QED
  BY <1>1, <1>2, <1>4, <1>5, <1>6 DEF TaskStep

\* The gateway, with its threads, mutex, HTTP task, lost answers and restarts,
\* does nothing but what the relay may do: the batch in flight is what is claimed.
THEOREM GatewayImplementsRelay ==
  ASSUME SingleTask
  PROVE  Spec => ImplementsRelay
<1>1. Init => Relay!RelayInit
  <2> SUFFICES ASSUME Init PROVE Relay!RelayInit
    OBVIOUS
  <2>1. Held = <<>> /\ Len(inflight) = 0
    BY EmptySeq, ConcatEmptySeq DEF Init, QueueInit, Held
  <2> QED
    BY <2>1 DEF Init, Relay!RelayInit
<1>2. TypeOK /\ Fifo /\ InflightIsMine /\ SeenOrder /\ [Next]_vars
        => [Relay!RelayNext]_Relay!relayVars
  <2> SUFFICES ASSUME TypeOK, Fifo, InflightIsMine, SeenOrder, [Next]_vars
               PROVE  RelayStep
    BY DEF RelayStep
  <2>1. CASE AppStep \/ SkClientChanges \/ UNCHANGED vars
    BY <2>1, RelayStutter
    DEF AppStep, Start, CreateTask, CreateTaskFails, StartScan, Stop, Destroy,
        PendingLock, PendingUnlock, SkClientChanges, vars, queueVars, counters
  <2>2. CASE CallbackPush
    BY <2>2, PushObserves
  <2>3. CASE CallbackStep /\ ~CallbackPush
    BY <2>3, RelayStutter
    DEF CallbackStep, OnAdvertisement, CallbackLock, CallbackTimeout, queueVars,
        counters
  <2>4. CASE \E t \in Tasks : TaskStep(t)
    BY <2>4, TaskRelays
  <2> QED
    BY <2>1, <2>2, <2>3, <2>4 DEF Next
<1> QED
  BY TypeCorrect, HeldInOrder, BatchIsStable, SeenInvariant, <1>1, <1>2, PTL
  DEF Spec, ImplementsRelay, Relay!RelaySpec

=============================================================================
