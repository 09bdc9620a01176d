------------------------- MODULE BatchQueueTheorems -------------------------
(***************************************************************************)
(* What the operations of BatchQueue preserve, for every capacity.         *)
(***************************************************************************)
EXTENDS BatchQueue, SequenceTheorems, TLAPS

\* The state of the queue has its types: in particular pending is never longer
\* than its limit, whichever way push() goes.
LEMMA PushType ==
  ASSUME QueueTypeOK, NEW o \in Nat, Push(o)
  PROVE  /\ QueueTypeOK'
         /\ QueueSize' = QueueSize + (IF PushDropsOldest THEN 0 ELSE 1)
<1> USE QueueAssumption DEF QueueTypeOK, Push, PushDropsOldest, QueueSize
<1>1. CASE PushDropsOldest
  <2>1. pending # <<>> /\ Len(pending) = MaxPending
    BY <1>1, EmptySeq
  <2>2. Tail(pending) \in Seq(Nat) /\ Len(Tail(pending)) = Len(pending) - 1
    BY <2>1, HeadTailProperties
  <2>3. pending' \in Seq(Nat) /\ Len(pending') = Len(pending)
    BY <1>1, <2>2, AppendProperties, LenProperties
  <2>4. Len(pending) \in Nat /\ Len(inflight) \in Nat
    BY LenProperties
  <2> QED BY <1>1, <2>3, <2>4
<1>2. CASE ~PushDropsOldest
  <2>1. pending' \in Seq(Nat) /\ Len(pending') = Len(pending) + 1
    BY <1>2, AppendProperties
  <2>2. Len(pending) \in Nat /\ Len(inflight) \in Nat
    BY LenProperties
  <2> QED BY <1>2, <2>1, <2>2
<1> QED BY <1>1, <1>2

\* prepare() moves observations and loses none: the queue holds the same
\* sequence before and after.
LEMMA PrepareKeepsHeld ==
  ASSUME QueueTypeOK, Prepare
  PROVE  QueueTypeOK' /\ Held' = Held /\ QueueSize' = QueueSize /\ inflight' # <<>>
<1> USE QueueAssumption DEF QueueTypeOK, QueueSize
<1>1. CASE inflight # <<>> /\ UNCHANGED queueVars
  BY <1>1 DEF queueVars, Held
<1>2. CASE /\ inflight = <<>> /\ pending # <<>>
           /\ inflight' = SubSeq(pending, 1, BatchSize)
           /\ pending' = SubSeq(pending, BatchSize + 1, Len(pending))
           /\ inflightSequence' = nextSequence
           /\ nextSequence' = (nextSequence + 1) % SequenceModulus
  <2>1. Len(pending) \in Nat \ {0}
    BY <1>2, EmptySeq
  <2>2. BatchSize \in 1..Len(pending) /\ BatchSize <= MaxBatch
    BY <2>1 DEF BatchSize
  <2>3. \A i \in 1..Len(pending) : pending[i] \in Nat
    BY ElementOfSeq
  <2>4. inflight' \in Seq(Nat) /\ Len(inflight') = BatchSize
    BY <1>2, <2>2, <2>3, SubSeqProperties
  <2>5. pending' \in Seq(Nat) /\ Len(pending') = Len(pending) - BatchSize
    <3>1. \A i \in BatchSize + 1..Len(pending) : pending[i] \in Nat
      BY <2>2, <2>3
    <3>2. BatchSize + 1 \in Int /\ Len(pending) \in Int
      BY <2>1, <2>2
    <3>3. /\ pending' \in Seq(Nat)
          /\ Len(pending') = IF BatchSize + 1 <= Len(pending)
                               THEN Len(pending) - (BatchSize + 1) + 1 ELSE 0
      BY <1>2, <3>1, <3>2, SubSeqProperties
    <3> QED BY <2>1, <2>2, <3>3
  <2>6. Held' = pending
    <3>1. Held' = SubSeq(pending, 1, BatchSize)
                  \o SubSeq(pending, BatchSize + 1, Len(pending))
      BY <1>2 DEF Held
    <3>2. SubSeq(pending, 1, BatchSize)
            \o SubSeq(pending, BatchSize + 1, Len(pending))
          = SubSeq(pending, 1, Len(pending))
      BY <2>1, <2>2, ConcatAdjacentSubSeq
    <3> QED BY <3>1, <3>2, SubSeqFull
  <2>7. Held = pending
    BY <1>2, ConcatEmptySeq DEF Held
  <2>8. inflightSequence' \in 0..SequenceModulus - 1
        /\ nextSequence' \in 0..SequenceModulus - 1
    BY <1>2
  <2>9. Len(inflight) = 0 /\ inflight' # <<>>
    <3>1. Len(inflight) = 0 /\ Len(inflight') # 0
      BY <1>2, <2>1, <2>2, <2>4, EmptySeq
    <3> QED BY <3>1, EmptySeq
  <2> QED BY <2>1, <2>2, <2>4, <2>5, <2>6, <2>7, <2>8, <2>9
<1> QED BY <1>1, <1>2 DEF Prepare

\* acknowledge() and drop_invalid() take away the batch in flight, whole.
LEMMA AcknowledgeType ==
  ASSUME QueueTypeOK, Acknowledge
  PROVE  QueueTypeOK' /\ QueueSize' + Len(inflight) = QueueSize
<1>1. inflight' \in Seq(Nat) /\ Len(inflight') = 0
  BY EmptySeq DEF Acknowledge
<1>2. Len(pending) \in Nat /\ Len(inflight) \in Nat
  BY LenProperties DEF QueueTypeOK
<1> QED BY <1>1, <1>2, QueueAssumption DEF QueueTypeOK, QueueSize, Acknowledge

----------------------------------------------------------------------------
(* The order of the observations held.                                     *)

LEMMA HeldElements ==
  ASSUME QueueTypeOK
  PROVE  /\ Held \in Seq(Nat)
         /\ Len(inflight) \in Nat /\ Len(pending) \in Nat
         /\ Len(Held) = Len(inflight) + Len(pending)
         /\ \A i \in 1..Len(Held) :
              Held[i] = IF i <= Len(inflight) THEN inflight[i]
                                              ELSE pending[i - Len(inflight)]
BY ConcatProperties, LenProperties DEF QueueTypeOK, Held

LEMMA AppendIncreasing ==
  ASSUME NEW s \in Seq(Nat), NEW o \in Nat, Increasing(s),
         \A i \in 1..Len(s) : s[i] < o
  PROVE  /\ Increasing(Append(s, o))
         /\ \A i \in 1..Len(Append(s, o)) : Append(s, o)[i] <= o
<1> DEFINE n == Len(s)
           r == Append(s, o)
<1>1. n \in Nat /\ Len(r) = n + 1 /\ r[n + 1] = o
  BY AppendProperties, LenProperties
<1>2. \A i \in 1..n : r[i] = s[i] /\ s[i] \in Nat
  BY AppendProperties, ElementOfSeq
<1> HIDE DEF n, r
<1>3. \A i \in 1..n : s[i] < o
  BY DEF n
<1>4. \A i, j \in 1..n : i < j => s[i] < s[j]
  BY DEF n, Increasing
<1>5. \A i, j \in 1..Len(r) : i < j => r[i] < r[j]
  BY <1>1, <1>2, <1>3, <1>4
<1>6. \A i \in 1..Len(r) : r[i] <= o
  BY <1>1, <1>2, <1>3
<1> QED BY <1>5, <1>6 DEF Increasing, r

\* Taking out the first element of the second part.
LEMMA TailIncreasing ==
  ASSUME NEW a \in Seq(Nat), NEW p \in Seq(Nat), p # <<>>, Increasing(a \o p),
         NEW o \in Nat, \A i \in 1..Len(a \o p) : (a \o p)[i] < o
  PROVE  /\ Increasing(a \o Tail(p))
         /\ \A i \in 1..Len(a \o Tail(p)) : (a \o Tail(p))[i] < o
<1> DEFINE s == a \o p
           r == a \o Tail(p)
           l == Len(a)
           n == Len(p)
<1>1. l \in Nat /\ n \in Nat \ {0}
  BY EmptySeq, LenProperties
<1>2. /\ Len(s) = l + n
      /\ \A i \in 1..l + n : s[i] = IF i <= l THEN a[i] ELSE p[i - l]
  BY ConcatProperties
<1>3. /\ Tail(p) \in Seq(Nat) /\ Len(Tail(p)) = n - 1
      /\ \A i \in 1..n - 1 : Tail(p)[i] = p[i + 1]
  BY HeadTailProperties
<1>4. /\ Len(r) = l + Len(Tail(p))
      /\ \A i \in 1..l + Len(Tail(p)) :
           r[i] = IF i <= l THEN a[i] ELSE Tail(p)[i - l]
  BY <1>3, ConcatProperties
<1> HIDE DEF s, r, l, n
<1>5. Len(r) = l + n - 1
  BY <1>1, <1>3, <1>4
<1>6. \A i \in 1..l + n - 1 : r[i] = IF i <= l THEN s[i] ELSE s[i + 1]
  <2> SUFFICES ASSUME NEW i \in 1..l + n - 1
               PROVE  r[i] = IF i <= l THEN s[i] ELSE s[i + 1]
    OBVIOUS
  <2>1. CASE i <= l
    <3>1. i \in 1..l + n /\ i \in 1..l + Len(Tail(p))
      BY <1>1, <1>3
    <3>2. r[i] = a[i] /\ s[i] = a[i]
      BY <1>2, <1>4, <2>1, <3>1
    <3> QED BY <2>1, <3>2
  <2>2. CASE i > l
    <3>1. i - l \in 1..n - 1 /\ (i - l) + 1 = (i + 1) - l /\ i + 1 \in 1..l + n
      BY <1>1, <2>2
    <3>2. r[i] = Tail(p)[i - l]
      BY <1>1, <1>3, <1>4, <2>2
    <3>3. Tail(p)[i - l] = p[(i + 1) - l]
      BY <1>3, <3>1
    <3>4. s[i + 1] = p[(i + 1) - l]
      BY <1>1, <1>2, <2>2, <3>1
    <3>5. ~(i <= l)
      BY <1>1, <2>2
    <3> QED BY <3>2, <3>3, <3>4, <3>5
  <2> QED BY <1>1, <2>1, <2>2
<1>7. /\ \A i, j \in 1..l + n : i < j => s[i] < s[j]
      /\ \A i \in 1..l + n : s[i] < o
  BY <1>2 DEF s, Increasing
<1>8. \A i, j \in 1..l + n - 1 : i < j => r[i] < r[j]
  <2> SUFFICES ASSUME NEW i \in 1..l + n - 1, NEW j \in 1..l + n - 1, i < j
               PROVE  r[i] < r[j]
    OBVIOUS
  <2>1. i + 1 \in 1..l + n /\ j + 1 \in 1..l + n /\ i \in 1..l + n /\ j \in 1..l + n
    BY <1>1
  <2>2. i < j + 1 /\ i + 1 < j + 1
    BY <1>1
  <2> QED BY <1>1, <1>6, <1>7, <2>1, <2>2
<1>9. \A i \in 1..l + n - 1 : r[i] < o
  BY <1>1, <1>6, <1>7
<1> QED BY <1>5, <1>8, <1>9 DEF Increasing, r

\* push() puts a younger observation last and keeps the order of those it keeps.
LEMMA PushKeepsOrder ==
  ASSUME QueueTypeOK, Increasing(Held), NEW o \in Nat, Push(o),
         \A i \in 1..Len(Held) : Held[i] < o
  PROVE  /\ Increasing(Held')
         /\ \A i \in 1..Len(Held') : Held'[i] <= o
<1>1. ASSUME NEW p \in Seq(Nat), pending' = Append(p, o),
             Increasing(inflight \o p),
             \A i \in 1..Len(inflight \o p) : (inflight \o p)[i] < o
      PROVE  /\ Increasing(Held')
             /\ \A i \in 1..Len(Held') : Held'[i] <= o
  <2>1. inflight \in Seq(Nat) /\ inflight \o p \in Seq(Nat) /\ <<o>> \in Seq(Nat)
    BY ConcatProperties DEF QueueTypeOK
  <2>2. Append(p, o) = p \o <<o>> /\ Append(inflight \o p, o) = (inflight \o p) \o <<o>>
    BY <2>1, AppendIsConcat
  <2>3. (inflight \o p) \o <<o>> = inflight \o (p \o <<o>>)
    BY <2>1, ConcatAssociative
  <2>4. Held' = Append(inflight \o p, o)
    BY <1>1, <2>2, <2>3 DEF Held, Push
  <2> QED BY <1>1, <2>1, <2>4, AppendIncreasing
<1>2. CASE ~PushDropsOldest
  BY <1>1, <1>2 DEF Push, Held, QueueTypeOK
<1>3. CASE PushDropsOldest
  <2>1. pending # <<>>
    BY <1>3, QueueAssumption, EmptySeq DEF PushDropsOldest, QueueTypeOK
  <2>2. Tail(pending) \in Seq(Nat)
    BY <2>1, HeadTailProperties DEF QueueTypeOK
  <2>3. /\ Increasing(inflight \o Tail(pending))
        /\ \A i \in 1..Len(inflight \o Tail(pending)) :
             (inflight \o Tail(pending))[i] < o
    BY <2>1, TailIncreasing DEF Held, QueueTypeOK
  <2> QED BY <1>1, <1>3, <2>2, <2>3 DEF Push
<1> QED BY <1>2, <1>3

\* acknowledge() takes the oldest away and keeps the order of the rest.
LEMMA AcknowledgeKeepsOrder ==
  ASSUME QueueTypeOK, Increasing(Held), Acknowledge
  PROVE  /\ Increasing(Held') /\ Held' = pending
         /\ \A i \in 1..Len(pending) :
              /\ i + Len(inflight) \in 1..Len(Held)
              /\ pending[i] = Held[i + Len(inflight)]
<1>1. Held' = pending
  BY ConcatEmptySeq DEF Held, Acknowledge, QueueTypeOK
<1>2. \A i \in 1..Len(pending) :
        /\ i + Len(inflight) \in 1..Len(Held)
        /\ pending[i] = Held[i + Len(inflight)]
  BY HeldElements
<1> QED BY <1>1, <1>2, HeldElements DEF Increasing

=============================================================================
