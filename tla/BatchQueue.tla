----------------------------- MODULE BatchQueue -----------------------------
(***************************************************************************)
(* BoundedBatchQueue of gateway-library/include/.../transport_policy.h:    *)
(* the buffer between the BLE callback and the HTTP task.  Observations    *)
(* wait in `pending`; prepare() moves a batch of them to `inflight`, where *)
(* it stays, whatever is pushed meanwhile, until acknowledge() or          *)
(* drop_invalid() clears it.                                               *)
(*                                                                         *)
(* The container has no lock of its own.  Its operations are actions that  *)
(* AdvertisementGateway conjoins into the steps of the threads that call   *)
(* them.                                                                   *)
(***************************************************************************)
EXTENDS Integers, Sequences

CONSTANTS
  MaxPending,      \* maximum_pending_ (max_pending_advertisements, 100)
  MaxBatch,        \* maximum_batch_ (max_batch_size, 20)
  SequenceModulus  \* the batch sequence is a uint32_t: 2^32

\* valid(): start() refuses to run on any other queue.
ASSUME QueueAssumption ==
  /\ MaxPending \in Nat \ {0}
  /\ MaxBatch \in Nat \ {0}
  /\ SequenceModulus \in Nat \ {0}

VARIABLES
  pending,           \* observations not yet assigned to a batch, oldest first
  inflight,          \* the batch being delivered; empty when there is none
  inflightSequence,  \* number of the last batch prepared
  nextSequence       \* number of the next one

queueVars == <<pending, inflight, inflightSequence, nextSequence>>

QueueInit ==
  /\ pending = <<>>
  /\ inflight = <<>>
  /\ inflightSequence = 0
  /\ nextSequence = 0

\* size(): the batch in flight counts as pending work.
QueueSize == Len(pending) + Len(inflight)

\* Fault: the limit tested with > instead of >=.
PushDropsOldest_OffByOne == Len(pending) > MaxPending

\* push() answers kAcceptedAfterDroppingOldest.
PushDropsOldest == Len(pending) >= MaxPending

\* Fault: the oldest observation is reported dropped but kept.
Push_KeepsOldest(observation) ==
  /\ pending' = Append(pending, observation)
  /\ UNCHANGED <<inflight, inflightSequence, nextSequence>>

Push(observation) ==
  /\ pending' = Append(IF PushDropsOldest THEN Tail(pending) ELSE pending,
                       observation)
  /\ UNCHANGED <<inflight, inflightSequence, nextSequence>>

\* the smaller of the two
BatchSize == IF Len(pending) < MaxBatch THEN Len(pending) ELSE MaxBatch

\* Fault: the last observation of the batch stays in pending as well.
Prepare_OverlappingErase ==
  \/ /\ inflight # <<>>
     /\ UNCHANGED queueVars
  \/ /\ inflight = <<>>
     /\ pending # <<>>
     /\ inflight' = SubSeq(pending, 1, BatchSize)
     /\ pending' = SubSeq(pending, BatchSize, Len(pending))
     /\ inflightSequence' = nextSequence
     /\ nextSequence' = (nextSequence + 1) % SequenceModulus

\* prepare() when it answers true: a batch already in flight is kept as it is.
Prepare ==
  \/ /\ inflight # <<>>
     /\ UNCHANGED queueVars
  \/ /\ inflight = <<>>
     /\ pending # <<>>
     /\ inflight' = SubSeq(pending, 1, BatchSize)
     /\ pending' = SubSeq(pending, BatchSize + 1, Len(pending))
     /\ inflightSequence' = nextSequence
     /\ nextSequence' = (nextSequence + 1) % SequenceModulus

\* prepare() answers false.
NothingToPrepare == inflight = <<>> /\ pending = <<>>

\* acknowledge(), and drop_invalid(), which is the same clearing.
Acknowledge ==
  /\ inflight' = <<>>
  /\ UNCHANGED <<pending, inflightSequence, nextSequence>>

----------------------------------------------------------------------------
QueueTypeOK ==
  /\ pending \in Seq(Nat) /\ Len(pending) <= MaxPending
  /\ inflight \in Seq(Nat) /\ Len(inflight) <= MaxBatch
  /\ inflightSequence \in 0..SequenceModulus - 1
  /\ nextSequence \in 0..SequenceModulus - 1

\* Every observation in the queue, in the order they will be delivered.
Held == inflight \o pending

Increasing(s) == \A i, j \in 1..Len(s) : i < j => s[i] < s[j]

=============================================================================
