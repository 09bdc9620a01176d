------------------------ MODULE TaskLoopTimingProofs ------------------------
(***************************************************************************)
(* Theorems of TaskLoopTiming for every clock width, interval and maximum: *)
(* the retry interval stays within its limits and never shrinks while the  *)
(* server fails, the times stay on the dial, and a stopped scan is asked   *)
(* to start again neither too often nor too late, also while the clock     *)
(* wraps round.                                                            *)
(***************************************************************************)
EXTENDS TaskLoopTiming, TLAPS

LEMMA MinOfTwo ==
  ASSUME NEW a \in Int, NEW b \in Int
  PROVE  Min({a, b}) = IF a <= b THEN a ELSE b
BY DEF Min

Intervals == PostInterval..MaxRetry

\* next_retry_interval() answers an interval within the limits; after a failure
\* it is at least the one before: the doubling that would wrap is not done.
LEMMA NextRetryInRange ==
  ASSUME NEW current \in Intervals, NEW completed \in BOOLEAN
  PROVE  /\ NextRetry(current, completed) \in Intervals
         /\ ~completed => NextRetry(current, completed) >= current
<1>1. /\ PostInterval \in Nat /\ MaxRetry \in Nat /\ ClockModulus \in Nat
      /\ PostInterval > 0 /\ PostInterval <= MaxRetry
      /\ MaxRetry < ClockModulus /\ ClockModulus % 2 = 0
  BY TimingAssumption
<1>2. CASE completed
  BY <1>1, <1>2 DEF NextRetry, Intervals
<1>3. CASE ~completed /\ (current >= MaxRetry
                          \/ current > (ClockModulus - 1) \div 2)
  BY <1>1, <1>3 DEF NextRetry, Intervals
<1>4. CASE ~completed /\ current < MaxRetry
           /\ current <= (ClockModulus - 1) \div 2
  <2>1. current \in Nat /\ current * 2 \in 0..ClockModulus - 1
    BY <1>1, <1>4 DEF Intervals
  <2>2. (current * 2) % ClockModulus = current * 2
    BY <1>1, <2>1
  <2>3. NextRetry(current, completed) = Min({current * 2, MaxRetry})
    <3>1. ~(current >= MaxRetry \/ current > (ClockModulus - 1) \div 2)
      BY <1>1, <1>4, <2>1
    <3> QED
      BY <1>4, <2>2, <3>1 DEF NextRetry
  <2>4. NextRetry(current, completed)
          = IF current * 2 <= MaxRetry THEN current * 2 ELSE MaxRetry
    BY <1>1, <2>1, <2>3, MinOfTwo
  <2> QED
    BY <1>1, <1>4, <2>1, <2>4 DEF Intervals
<1> QED
  BY <1>1, <1>2, <1>3, <1>4 DEF Intervals

\* The interval of a task is within the limits; before the first start() there
\* is none.
RetryInRange == pc # "none" => retry \in Intervals

LEMMA RetryKept == RetryInRange /\ [Next]_vars => RetryInRange'
<1> SUFFICES ASSUME RetryInRange, [Next]_vars PROVE RetryInRange'
  OBVIOUS
<1>1. CASE Start
  <2>1. retry' = PostInterval
    BY <1>1 DEF Start
  <2> QED
    BY <2>1, TimingAssumption DEF RetryInRange, Intervals
<1>2. CASE UNCHANGED vars
  BY <1>2 DEF vars, taskVars, RetryInRange
<1>3. CASE Tick \/ StartScan \/ Stop \/ StopScan \/ ScanEnds
  <2>1. retry' = retry /\ pc' = pc
    BY <1>3 DEF Tick, StartScan, Stop, StopScan, ScanEnds, taskVars
  <2> QED
    BY <2>1 DEF RetryInRange
<1>4. CASE TaskStep
  <2>1. CASE \E completed, backlog \in BOOLEAN : EndPost(completed, backlog)
    <3> PICK completed \in BOOLEAN, backlog \in BOOLEAN :
               EndPost(completed, backlog)
      BY <2>1
    <3>1. pc = "posting" /\ retry' = NextRetry(retry, completed)
      BY DEF EndPost
    <3>2. retry \in Intervals
      BY <3>1 DEF RetryInRange
    <3> QED
      BY <3>1, <3>2, NextRetryInRange DEF RetryInRange
  <2>2. CASE \/ LoopTest \/ ScanIsFine \/ SkipDelivery \/ BeginPost \/ WakeUp
             \/ \E started \in BOOLEAN : RecoverScan(started)
    <3>1. retry' = retry /\ pc # "none"
      BY <2>2 DEF LoopTest, ScanIsFine, SkipDelivery, BeginPost, WakeUp,
                  RecoverScan
    <3> QED
      BY <3>1 DEF RetryInRange
  <2> QED
    BY <1>4, <2>1, <2>2 DEF TaskStep
<1> QED
  BY <1>1, <1>2, <1>3, <1>4 DEF Next

\* A task that is there never waits less than the normal interval, nor more than
\* the configured maximum, between requests that fail.
THEOREM RetryWithinLimits == Spec => []RetryInRange
<1>1. Init => RetryInRange
  BY DEF Init, RetryInRange
<1> QED
  BY <1>1, RetryKept, PTL DEF Spec

\* One step at a time: a request that fails never shortens the interval.
LEMMA FailureKeepsInterval ==
  RetryInRange /\ [Next]_vars
    => [pc = "posting" /\ outcome' = "failed" => retry' >= retry]_vars
<1> SUFFICES ASSUME RetryInRange, Next, pc = "posting", outcome' = "failed"
             PROVE  retry' >= retry
  OBVIOUS
<1>1. retry \in Intervals
  BY DEF RetryInRange
<1>2. retry \in Int
  BY <1>1, TimingAssumption DEF Intervals
<1>3. CASE Tick \/ StartScan \/ Stop \/ StopScan \/ ScanEnds
  <2>1. retry' = retry
    BY <1>3 DEF Tick, StartScan, Stop, StopScan, ScanEnds, taskVars
  <2> QED
    BY <1>2, <2>1
<1>4. CASE TaskStep
  <2>1. PICK completed \in BOOLEAN, backlog \in BOOLEAN :
               EndPost(completed, backlog)
    BY <1>4 DEF TaskStep, LoopTest, ScanIsFine, SkipDelivery, BeginPost, WakeUp,
                RecoverScan
  <2>2. ~completed /\ retry' = NextRetry(retry, completed)
    BY <2>1 DEF EndPost
  <2> QED
    BY <1>1, <2>2, NextRetryInRange
<1>5. ~Start
  BY DEF Start
<1> QED
  BY <1>3, <1>4, <1>5 DEF Next

\* However long the outage and whatever the intervals, the delay after a failed
\* POST is at least the one before it, up to the edge of a uint32_t.
THEOREM RetryNeverShrinks == Spec => BackoffNeverShrinks
<1> QED
  BY RetryWithinLimits, FailureKeepsInterval, PTL DEF Spec, BackoffNeverShrinks

----------------------------------------------------------------------------
(* Types.                                                                  *)

\* What the clock shows stays on its dial.
LEMMA AfterInRange ==
  ASSUME NEW t \in Int, NEW d \in Int
  PROVE  After(t, d) \in 0..ClockModulus - 1
BY TimingAssumption DEF After

LEMMA OlderInRange ==
  ASSUME NEW age \in 0..ClockModulus
  PROVE  /\ Older(age) \in 0..ClockModulus
         /\ Older(age) = IF age < ClockModulus THEN age + 1 ELSE age
BY MinOfTwo, TimingAssumption DEF Older

LEMMA IntervalTypes ==
  /\ ClockModulus \in Nat \ {0}
  /\ ScanRecovery \in Nat /\ PostInterval \in Nat /\ MaxRetry \in Nat
  /\ BacklogYield \in Nat /\ HttpTimeout \in Nat
  /\ PostInterval <= MaxRetry
<1>1. ClockModulus \in Nat \ {0}
  BY TimingAssumption
<1>2. \A d : d \in 1..ClockModulus - 1 => d \in Nat
  BY <1>1
<1>3. \A d \in {ScanRecovery, PostInterval, MaxRetry, BacklogYield, HttpTimeout} :
        d \in 1..ClockModulus - 1
  BY TimingAssumption
<1> QED
  BY <1>1, <1>2, <1>3, TimingAssumption, Zenon

\* The longest wait is at least each of the three.
LEMMA LongestWait ==
  LET longest == Max({MaxRetry, HttpTimeout, BacklogYield})
  IN  longest \in Nat /\ \A d \in {MaxRetry, HttpTimeout, BacklogYield} : d <= longest
<1> DEFINE S == {MaxRetry, HttpTimeout, BacklogYield}
<1>1. MaxRetry \in Nat /\ HttpTimeout \in Nat /\ BacklogYield \in Nat
  BY IntervalTypes
<1>2. \E x \in S : \A y \in S : x >= y
  <2>1. CASE MaxRetry >= HttpTimeout /\ MaxRetry >= BacklogYield
    BY <1>1, <2>1
  <2>2. CASE HttpTimeout >= MaxRetry /\ HttpTimeout >= BacklogYield
    BY <1>1, <2>2
  <2>3. CASE BacklogYield >= MaxRetry /\ BacklogYield >= HttpTimeout
    BY <1>1, <2>3
  <2> QED
    BY <1>1, <2>1, <2>2, <2>3
<1>3. Max(S) \in S /\ \A y \in S : Max(S) >= y
  <2> HIDE DEF S
  <2> QED
    BY <1>2 DEF Max
<1> QED
  BY <1>1, <1>3

LEMMA TypeKept == TypeOK /\ RetryInRange /\ [Next]_vars => TypeOK'
<1> DEFINE longest == Max({MaxRetry, HttpTimeout, BacklogYield})
<1> SUFFICES ASSUME TypeOK, RetryInRange, [Next]_vars PROVE TypeOK'
  OBVIOUS
<1>1. /\ longest \in Nat /\ MaxRetry \in 0..longest /\ HttpTimeout \in 0..longest
      /\ BacklogYield \in 0..longest /\ PostInterval \in 0..longest
      /\ PostInterval \in 0..MaxRetry /\ ScanRecovery \in Nat
  <2>1. /\ longest \in Nat /\ MaxRetry <= longest /\ HttpTimeout <= longest
        /\ BacklogYield <= longest
    BY LongestWait
  <2> HIDE DEF longest
  <2> QED
    BY <2>1, IntervalTypes
<1>2. /\ clock \in 0..ClockModulus - 1 /\ now \in 0..ClockModulus - 1
      /\ nextRecovery \in 0..ClockModulus - 1
      /\ retry \in 0..MaxRetry /\ wait \in 0..longest
      /\ sincePost \in 0..ClockModulus /\ sinceAsked \in 0..ClockModulus
      /\ sinceAttempt \in 0..ClockModulus /\ 0 \in 0..ClockModulus
      /\ ClockModulus \in Nat
  BY TimingAssumption DEF TypeOK
<1> HIDE DEF longest
<1> DEFINE Others ==
      /\ running' \in BOOLEAN /\ scanning' \in BOOLEAN
      /\ app' \in {"idle", "starting", "stopping"}
      /\ pc' \in {"none", "top", "recovery", "deliver", "posting", "asleep"}
      /\ outcome' \in {"none", "completed", "failed"}
<1> SUFFICES /\ {clock', now', nextRecovery'} \subseteq 0..ClockModulus - 1
             /\ Others
             /\ retry' \in 0..MaxRetry /\ wait' \in 0..longest
             /\ {sincePost', sinceAsked', sinceAttempt'} \subseteq 0..ClockModulus
  BY DEF TypeOK, longest
<1>3. CASE Tick
  <2>1. /\ clock' \in 0..ClockModulus - 1
        /\ {sincePost', sinceAsked', sinceAttempt'} \subseteq 0..ClockModulus
    BY <1>2, <1>3, AfterInRange, OlderInRange DEF Tick
  <2>2. wait' \in 0..longest
    BY <1>1, <1>2, <1>3 DEF Tick
  <2> QED
    BY <1>2, <1>3, <2>1, <2>2 DEF Tick, TypeOK
<1>4. CASE Start
  <2>1. nextRecovery' \in 0..ClockModulus - 1
    BY <1>1, <1>2, <1>4, AfterInRange DEF Start
  <2> QED
    BY <1>1, <1>2, <1>4, <2>1 DEF Start, TypeOK
<1>5. CASE StartScan \/ Stop \/ StopScan \/ ScanEnds \/ UNCHANGED vars
  BY <1>2, <1>5 DEF StartScan, Stop, StopScan, ScanEnds, TypeOK, vars, taskVars, ages
<1>6. CASE LoopTest \/ ScanIsFine \/ SkipDelivery \/ BeginPost \/ WakeUp
  BY <1>1, <1>2, <1>6
  DEF LoopTest, ScanIsFine, SkipDelivery, BeginPost, WakeUp, TypeOK, ages
<1>7. ASSUME NEW started \in BOOLEAN, RecoverScan(started) PROVE TypeOK'
  <2>1. nextRecovery' \in 0..ClockModulus - 1
    BY <1>1, <1>2, <1>7, AfterInRange DEF RecoverScan
  <2> QED
    BY <1>2, <1>7, <2>1 DEF RecoverScan, TypeOK, longest
<1>8. ASSUME NEW completed \in BOOLEAN, NEW backlog \in BOOLEAN,
             EndPost(completed, backlog)
      PROVE  TypeOK'
  <2>1. pc = "posting" /\ retry' = NextRetry(retry, completed)
    BY <1>8 DEF EndPost
  <2>2. retry' \in 0..MaxRetry
    BY <2>1, NextRetryInRange, TimingAssumption DEF RetryInRange, Intervals
  <2>3. wait' \in {BacklogYield, retry'} /\ wait' \in 0..longest
    BY <1>1, <1>8, <2>2 DEF EndPost
  <2> QED
    BY <1>2, <1>8, <2>2, <2>3 DEF EndPost, TypeOK, longest
<1> QED
  BY <1>3, <1>4, <1>5, <1>6, <1>7, <1>8 DEF Next, TaskStep, TypeOK, longest

\* The times stay on the dial and no wait is longer than the longest interval.
THEOREM TimesInRange == Spec => []TypeOK
<1>1. Init => TypeOK
  <2> SUFFICES ASSUME Init PROVE TypeOK
    OBVIOUS
  <2> DEFINE longest == Max({MaxRetry, HttpTimeout, BacklogYield})
  <2>1. longest \in Nat
    BY LongestWait
  <2> HIDE DEF longest
  <2>2. /\ {clock, now, nextRecovery} \subseteq 0..ClockModulus - 1
        /\ {sincePost, sinceAsked, sinceAttempt} \subseteq 0..ClockModulus
    BY IntervalTypes DEF Init
  <2>3. retry \in 0..MaxRetry /\ wait \in 0..longest
    BY <2>1, IntervalTypes DEF Init
  <2>4. /\ running \in BOOLEAN /\ scanning \in BOOLEAN
        /\ app = "idle" /\ pc = "none" /\ outcome = "none"
    BY DEF Init
  <2> QED
    BY <2>2, <2>3, <2>4 DEF TypeOK, longest
<1> QED
  BY <1>1, TypeKept, RetryWithinLimits, PTL DEF Spec

----------------------------------------------------------------------------
(* The spacing of the recoveries.                                          *)

\* Once round the dial and no more.
LEMMA OnceRound ==
  ASSUME NEW a \in Int
  PROVE  /\ a \in 0..ClockModulus - 1 => a % ClockModulus = a
         /\ a \in ClockModulus..2 * ClockModulus - 1 =>
              a % ClockModulus = a - ClockModulus
         /\ a \in -ClockModulus..-1 => a % ClockModulus = a + ClockModulus
BY TimingAssumption

\* Time and deadline move together.
LEMMA AfterTick ==
  ASSUME NEW t \in 0..ClockModulus - 1,
         NEW left \in -(ClockModulus - 1)..ClockModulus - 1
  PROVE  After(After(t, 1), left - 1) = After(t, left)
<1>1. ClockModulus \in Nat \ {0} /\ t \in Nat /\ left \in Int
  BY TimingAssumption
<1>2. After(t, 1) = IF t + 1 < ClockModulus THEN t + 1 ELSE 0
  BY <1>1, OnceRound DEF After
<1>3. CASE t + 1 < ClockModulus
  BY <1>1, <1>2, <1>3 DEF After
<1>4. CASE t + 1 = ClockModulus /\ left >= 1
  <2>1. (t + left) % ClockModulus = left - 1
    BY <1>1, <1>4, OnceRound
  <2>2. (0 + (left - 1)) % ClockModulus = left - 1
    BY <1>1, <1>4, OnceRound
  <2> QED
    BY <1>1, <1>2, <1>4, <2>1, <2>2 DEF After
<1>5. CASE t + 1 = ClockModulus /\ left <= 0
  <2>1. (t + left) % ClockModulus = t + left
    BY <1>1, <1>5, OnceRound
  <2>2. (0 + (left - 1)) % ClockModulus = left - 1 + ClockModulus
    BY <1>1, <1>5, OnceRound
  <2> QED
    BY <1>1, <1>2, <1>5, <2>1, <2>2 DEF After
<1> QED
  BY <1>1, <1>3, <1>4, <1>5

\* For a turn of the clock, the deadline is where the interval since the task last
\* asked puts it; a task that is about to compare it has read the clock this instant.
DeadlineAhead ==
  pc # "none" =>
    /\ pc = "recovery" => now = clock
    /\ sinceAsked < ClockModulus =>
         nextRecovery = After(clock, ScanRecovery - sinceAsked)

\* The wrapped comparison tells the deadlines that are over from those that are
\* not, as long as none is over by half a turn.
LEMMA DueAfter ==
  ASSUME ScanRecovery <= ClockModulus \div 2, TypeOK,
         sinceAsked < ScanRecovery + ClockModulus \div 2,
         nextRecovery = After(clock, ScanRecovery - sinceAsked)
  PROVE  IsDue(clock, nextRecovery) <=> sinceAsked >= ScanRecovery
<1> DEFINE left == ScanRecovery - sinceAsked
           half == ClockModulus \div 2
<1>1. /\ ClockModulus \in Nat \ {0} /\ half + half = ClockModulus /\ half \in Nat
      /\ clock \in 0..ClockModulus - 1 /\ sinceAsked \in Nat /\ ScanRecovery \in Nat
  BY TimingAssumption, IntervalTypes DEF TypeOK
<1>2. left \in Int /\ left > -half /\ left <= half
  BY <1>1
<1> HIDE DEF left, half
<1>3. /\ clock + left \in -ClockModulus..2 * ClockModulus - 1
      /\ nextRecovery = (clock + left) % ClockModulus
  BY <1>1, <1>2 DEF After, left
<1>4. \/ nextRecovery = clock + left
      \/ nextRecovery = clock + left - ClockModulus
      \/ nextRecovery = clock + left + ClockModulus
  BY <1>1, <1>2, <1>3, OnceRound
<1>5. nextRecovery \in 0..ClockModulus - 1
  BY DEF TypeOK
<1>6. (clock - nextRecovery) % ClockModulus
        = IF left <= 0 THEN -left ELSE ClockModulus - left
  <2>1. clock - nextRecovery \in -ClockModulus..ClockModulus - 1
    BY <1>1, <1>5
  <2>2. \/ clock - nextRecovery = -left
        \/ clock - nextRecovery = ClockModulus - left
        \/ clock - nextRecovery = -left - ClockModulus
    BY <1>1, <1>2, <1>4
  <2>3. CASE left <= 0
    <3>1. -left \in 0..ClockModulus - 1
      BY <1>1, <1>2, <2>3
    <3> QED
      BY <1>1, <1>2, <2>1, <2>2, <2>3, <3>1, OnceRound
  <2>4. CASE left > 0
    <3>1. ClockModulus - left \in 0..ClockModulus - 1 /\ -left \in -ClockModulus..-1
      BY <1>1, <1>2, <2>4
    <3> QED
      BY <1>1, <1>2, <2>1, <2>2, <2>4, <3>1, OnceRound
  <2> QED
    BY <1>2, <2>3, <2>4
<1>7. IsDue(clock, nextRecovery) <=> left <= 0
  BY <1>1, <1>2, <1>6 DEF IsDue, half
<1> QED
  BY <1>1, <1>7 DEF left

LEMMA DeadlineKept == TypeOK /\ DeadlineAhead /\ [Next]_vars => DeadlineAhead'
<1> SUFFICES ASSUME TypeOK, DeadlineAhead, [Next]_vars PROVE DeadlineAhead'
  OBVIOUS
<1>1. /\ ClockModulus \in Nat \ {0} /\ ScanRecovery \in 1..ClockModulus - 1
      /\ clock \in 0..ClockModulus - 1 /\ sinceAsked \in 0..ClockModulus
  BY TimingAssumption DEF TypeOK
<1>2. CASE Tick
  <2>1. /\ clock' = After(clock, 1) /\ sinceAsked' = Older(sinceAsked)
        /\ UNCHANGED <<pc, now, nextRecovery>> /\ pc # "recovery"
    BY <1>2 DEF Tick
  <2>2. ASSUME pc # "none", sinceAsked' < ClockModulus
        PROVE  nextRecovery = After(clock', ScanRecovery - sinceAsked')
    <3> DEFINE left == ScanRecovery - sinceAsked
    <3>1. /\ sinceAsked' = sinceAsked + 1 /\ sinceAsked < ClockModulus
          /\ ScanRecovery - sinceAsked' = left - 1
          /\ left \in -(ClockModulus - 1)..ClockModulus - 1
      BY <1>1, <2>1, <2>2, OlderInRange
    <3>2. nextRecovery = After(clock, left)
      BY <2>2, <3>1 DEF DeadlineAhead
    <3> HIDE DEF left
    <3> QED
      BY <1>1, <2>1, <3>1, <3>2, AfterTick
  <2> QED
    BY <2>1, <2>2 DEF DeadlineAhead
<1>3. CASE Start
  <2>1. pc' = "top" /\ sinceAsked' = 0 /\ nextRecovery' = After(clock', ScanRecovery - 0)
    BY <1>1, <1>3 DEF Start, After
  <2> QED
    BY <2>1 DEF DeadlineAhead
<1>4. CASE StartScan \/ Stop \/ StopScan \/ ScanEnds \/ UNCHANGED vars
  BY <1>4 DEF StartScan, Stop, StopScan, ScanEnds, vars, taskVars, ages, DeadlineAhead
<1>5. CASE TaskStep
  <2>1. CASE \E started \in BOOLEAN : RecoverScan(started)
    <3>1. /\ pc = "recovery" /\ pc' = "deliver" /\ clock' = clock /\ sinceAsked' = 0
          /\ nextRecovery' = After(now, ScanRecovery)
      BY <2>1 DEF RecoverScan
    <3>2. now = clock
      BY <3>1 DEF DeadlineAhead
    <3>3. nextRecovery' = After(clock', ScanRecovery - sinceAsked')
      BY <1>1, <3>1, <3>2 DEF After
    <3> QED
      BY <3>1, <3>3 DEF DeadlineAhead
  <2>2. CASE LoopTest \/ ScanIsFine \/ SkipDelivery \/ BeginPost \/ WakeUp
             \/ \E completed, backlog \in BOOLEAN : EndPost(completed, backlog)
    BY <2>2 DEF LoopTest, ScanIsFine, SkipDelivery, BeginPost, WakeUp, EndPost, ages,
                DeadlineAhead
  <2> QED
    BY <1>5, <2>1, <2>2 DEF TaskStep
<1> QED
  BY <1>2, <1>3, <1>4, <1>5 DEF Next

LEMMA DeadlineInvariant == Spec => []DeadlineAhead
<1>1. Init => DeadlineAhead
  BY DEF Init, DeadlineAhead
<1> QED
  BY TimesInRange, DeadlineKept, <1>1, PTL DEF Spec

\* Whatever the clock reads, and also while it wraps round, the BLE host is not
\* asked again within a recovery interval, for every interval of up to half a turn
\* of the clock.
THEOREM RecoveriesAreSpaced ==
  ASSUME ScanRecovery <= ClockModulus \div 2
  PROVE  Spec => RecoverySpaced
<1>1. TypeOK /\ DeadlineAhead /\ [Next]_vars =>
        [\A started \in BOOLEAN :
           RecoverScan(started) => sinceAsked >= ScanRecovery]_vars
  <2> SUFFICES ASSUME TypeOK, DeadlineAhead, NEW started \in BOOLEAN,
                      RecoverScan(started), ~(sinceAsked >= ScanRecovery)
               PROVE  FALSE
    OBVIOUS
  <2>1. /\ sinceAsked < ScanRecovery + ClockModulus \div 2
        /\ sinceAsked < ClockModulus
    BY TimingAssumption DEF TypeOK
  <2>2. /\ pc = "recovery" /\ IsDue(now, nextRecovery)
    BY DEF RecoverScan, NeedsRecovery
  <2> QED
    BY <2>1, <2>2, DueAfter DEF DeadlineAhead
<1> QED
  BY TimesInRange, DeadlineInvariant, <1>1, PTL DEF Spec, RecoverySpaced

----------------------------------------------------------------------------
(* The scan is asked to start again in time.                               *)

\* No wait of a pass is longer than its kind allows.
WaitsInRange ==
  /\ pc = "posting" => wait <= HttpTimeout
  /\ pc = "asleep" => wait <= MaxRetry

\* How long it can take until the task is at the top of its loop.
Remaining ==
  IF pc = "deliver" THEN LongestPass
  ELSE IF pc = "posting" THEN wait + MaxRetry
  ELSE IF pc = "asleep" THEN wait ELSE 0

\* A scan that does not run is asked for in this pass or the next: by the top of
\* the loop it has been down for no longer than an interval and a pass, and its
\* deadline is not over by half a turn of the clock.
DownInTime ==
  /\ app = "stopping" => ~running
  /\ app = "starting" => sinceAsked = 0
  /\ running => pc # "none"
  /\ sinceAttempt <= sinceAsked
  /\ running /\ ~scanning =>
       /\ sinceAttempt + Remaining <= ScanRecovery + LongestPass
       /\ sinceAsked + Remaining < ScanRecovery + ClockModulus \div 2

Sensible ==
  /\ ScanRecovery <= ClockModulus \div 2 /\ BacklogYield <= MaxRetry
  /\ LongestPass < ClockModulus \div 2
  /\ HealthyLimit + LongestPass <= ScanRecovery + ClockModulus \div 2

LEMMA DownNumbers ==
  ASSUME TypeOK, WaitsInRange
  PROVE  /\ ClockModulus \div 2 \in Nat /\ HealthyLimit \in Nat
         /\ LongestPass \in Nat /\ HttpTimeout \in Nat /\ MaxRetry \in Nat
         /\ LongestPass = HttpTimeout + MaxRetry
         /\ ScanRecovery \in Nat \ {0} /\ wait \in Nat
         /\ sinceAsked \in Nat /\ sinceAttempt \in Nat
         /\ Remaining \in 0..LongestPass
<1>1. /\ HttpTimeout \in Nat /\ MaxRetry \in Nat /\ HealthyLimit \in Nat
      /\ ScanRecovery \in Nat \ {0} /\ ClockModulus \div 2 \in Nat
  BY IntervalTypes, TimingAssumption
<1>2. wait \in Nat /\ sinceAsked \in Nat /\ sinceAttempt \in Nat
  BY LongestWait, IntervalTypes DEF TypeOK
<1> QED
  BY <1>1, <1>2 DEF Remaining, LongestPass, WaitsInRange

LEMMA WaitsKept ==
  BacklogYield <= MaxRetry /\ TypeOK /\ RetryInRange /\ WaitsInRange /\ [Next]_vars
    => WaitsInRange'
<1> SUFFICES ASSUME BacklogYield <= MaxRetry, TypeOK, RetryInRange, WaitsInRange,
                    [Next]_vars
             PROVE  WaitsInRange'
  OBVIOUS
<1>1. /\ PostInterval <= MaxRetry /\ wait \in Nat /\ MaxRetry \in Nat
      /\ HttpTimeout \in Nat
  BY LongestWait, IntervalTypes DEF TypeOK
<1>2. ASSUME NEW completed \in BOOLEAN, NEW backlog \in BOOLEAN,
             EndPost(completed, backlog)
      PROVE  WaitsInRange'
  <2>1. /\ retry' = NextRetry(retry, completed) /\ retry \in Intervals /\ pc' = "asleep"
        /\ wait' \in {BacklogYield, retry'}
    BY <1>2 DEF EndPost, RetryInRange
  <2>2. retry' <= MaxRetry
    BY <2>1, NextRetryInRange, IntervalTypes DEF Intervals
  <2> QED
    BY <2>1, <2>2 DEF WaitsInRange
<1>3. CASE Tick
  BY <1>1, <1>3 DEF Tick, WaitsInRange
<1>4. CASE StartScan \/ Stop \/ StopScan \/ ScanEnds \/ UNCHANGED vars
  BY <1>4 DEF StartScan, Stop, StopScan, ScanEnds, vars, taskVars, WaitsInRange
<1>5. CASE \/ Start \/ LoopTest \/ ScanIsFine \/ WakeUp
           \/ \E started \in BOOLEAN : RecoverScan(started)
  BY <1>5 DEF Start, LoopTest, ScanIsFine, WakeUp, RecoverScan, WaitsInRange
<1>6. CASE SkipDelivery \/ BeginPost
  BY <1>1, <1>6 DEF SkipDelivery, BeginPost, WaitsInRange
<1> QED
  BY <1>2, <1>3, <1>4, <1>5, <1>6 DEF Next, TaskStep

LEMMA ShorterFits ==
  ASSUME NEW a \in Nat, NEW long \in Nat, NEW short \in Nat, short <= long,
         NEW limit \in Int
  PROVE  /\ a + long <= limit => a + short <= limit
         /\ a + long < limit => a + short < limit
OBVIOUS

LEMMA DownKept ==
  Sensible /\ TypeOK /\ RetryInRange /\ WaitsInRange /\ DeadlineAhead /\ DownInTime
    /\ [Next]_vars => DownInTime'
<1> SUFFICES ASSUME Sensible, TypeOK, RetryInRange, WaitsInRange, DeadlineAhead,
                    DownInTime, [Next]_vars
             PROVE  DownInTime'
  OBVIOUS
<1>1. /\ ClockModulus \div 2 \in Nat /\ HealthyLimit \in Nat
      /\ LongestPass \in Nat /\ HttpTimeout \in Nat /\ MaxRetry \in Nat
      /\ LongestPass = HttpTimeout + MaxRetry
      /\ ScanRecovery \in Nat \ {0} /\ wait \in Nat
      /\ sinceAsked \in Nat /\ sinceAttempt \in Nat
      /\ Remaining \in 0..LongestPass
  BY DownNumbers
<1>2. WaitsInRange' /\ LongestPass < ClockModulus \div 2
  BY WaitsKept DEF Sensible
<1>3. CASE Tick
  <2>1. /\ sinceAsked \in 0..ClockModulus /\ sinceAttempt \in 0..ClockModulus
        /\ ClockModulus \in Nat /\ app = "idle"
        /\ sinceAsked' = Older(sinceAsked) /\ sinceAttempt' = Older(sinceAttempt)
        /\ UNCHANGED <<app, running, scanning, pc>>
    BY <1>3, IntervalTypes DEF Tick, TypeOK
  <2>2. sinceAttempt' <= sinceAsked'
    BY <2>1, OlderInRange DEF DownInTime
  <2>3. /\ sinceAsked' <= sinceAsked + 1 /\ sinceAttempt' <= sinceAttempt + 1
        /\ sinceAsked' \in Nat /\ sinceAttempt' \in Nat
    BY <2>1, OlderInRange
  <2>4. ASSUME running, ~scanning PROVE Remaining' = Remaining - 1
    <3>1. pc \in {"asleep", "posting"} /\ wait' = wait - 1
      BY <1>3, <2>4 DEF Tick, DownInTime
    <3> QED
      BY <1>1, <2>1, <3>1 DEF Remaining
  <2> QED
    BY <1>1, <2>1, <2>2, <2>3, <2>4 DEF DownInTime
<1>4. CASE Start
  <2>1. /\ app' = "starting" /\ running' /\ pc' = "top"
        /\ sinceAsked' = 0 /\ sinceAttempt' = 0
    BY <1>4 DEF Start
  <2>2. Remaining' = 0
    BY <2>1 DEF Remaining
  <2> QED
    BY <1>1, <2>1, <2>2 DEF DownInTime
<1>5. CASE StartScan
  <2>1. /\ sinceAttempt' = 0 /\ sinceAsked' = sinceAsked /\ sinceAsked = 0
        /\ UNCHANGED <<pc, wait>>
    BY <1>5 DEF StartScan, DownInTime, taskVars
  <2>2. Remaining' = Remaining
    BY <2>1 DEF Remaining
  <2>3. \/ app' = "idle" /\ running' = running
        \/ app' = "stopping" /\ running' = FALSE
    BY <1>5 DEF StartScan
  <2> QED
    BY <1>1, <1>2, <2>1, <2>2, <2>3 DEF DownInTime
<1>6. CASE Stop \/ StopScan
  <2>1. /\ ~running' /\ app' \in {"idle", "stopping"}
        /\ UNCHANGED <<sinceAsked, sinceAttempt>>
    BY <1>6 DEF Stop, StopScan, DownInTime, ages
  <2> QED
    BY <2>1 DEF DownInTime
<1>7. CASE ScanEnds
  <2>1. /\ sinceAttempt' = 0 /\ sinceAsked' = sinceAsked /\ sinceAsked < HealthyLimit
        /\ UNCHANGED <<app, running, pc, wait>>
    BY <1>7 DEF ScanEnds, taskVars
  <2>2. Remaining' = Remaining
    BY <2>1 DEF Remaining
  <2> QED
    BY <1>1, <2>1, <2>2 DEF DownInTime, Sensible
<1>8. CASE ScanIsFine
  <2>1. /\ pc = "recovery" /\ ~NeedsRecovery /\ pc' = "deliver"
        /\ UNCHANGED <<app, running, scanning, sinceAsked, sinceAttempt>>
    BY <1>8 DEF ScanIsFine, ages
  <2>2. Remaining' = LongestPass
    BY <2>1 DEF Remaining
  <2>3. ASSUME running, ~scanning PROVE sinceAsked < ScanRecovery
    <3>1. sinceAsked < ScanRecovery + ClockModulus \div 2
      BY <1>1, <2>3 DEF DownInTime
    <3>2. sinceAsked < ClockModulus
      BY <1>1, <3>1, TimingAssumption DEF Sensible
    <3>3. nextRecovery = After(clock, ScanRecovery - sinceAsked) /\ now = clock
      BY <2>1, <3>2 DEF DeadlineAhead
    <3>4. ~IsDue(clock, nextRecovery)
      BY <2>1, <2>3, <3>3 DEF NeedsRecovery
    <3> QED
      BY <1>1, <3>1, <3>3, <3>4, DueAfter DEF Sensible
  <2> QED
    BY <1>1, <1>2, <2>1, <2>2, <2>3 DEF DownInTime
<1>9. CASE \E started \in BOOLEAN : RecoverScan(started)
  <2>1. /\ pc' = "deliver" /\ sinceAsked' = 0 /\ sinceAttempt' = 0
        /\ UNCHANGED <<app, running>>
    BY <1>9 DEF RecoverScan
  <2>2. Remaining' = LongestPass
    BY <2>1 DEF Remaining
  <2> QED
    BY <1>1, <1>2, <2>1, <2>2 DEF DownInTime
<1>10. CASE \/ LoopTest \/ SkipDelivery \/ BeginPost \/ WakeUp
            \/ \E completed, backlog \in BOOLEAN : EndPost(completed, backlog)
  <2>1. /\ UNCHANGED <<app, running, scanning, sinceAsked, sinceAttempt>>
        /\ running => pc' # "none"
    BY <1>10 DEF LoopTest, SkipDelivery, BeginPost, WakeUp, EndPost, ages
  <2>2. Remaining' \in Nat /\ Remaining' <= Remaining
    <3>1. CASE LoopTest \/ WakeUp
      BY <1>1, <3>1 DEF LoopTest, WakeUp, Remaining
    <3>2. CASE SkipDelivery
      <4>1. /\ pc = "deliver" /\ pc' = "asleep" /\ wait' = PostInterval
            /\ PostInterval <= MaxRetry /\ PostInterval \in Nat
        BY <3>2, IntervalTypes DEF SkipDelivery
      <4> QED
        BY <1>1, <4>1 DEF Remaining
    <3>3. CASE BeginPost
      BY <1>1, <3>3 DEF BeginPost, Remaining
    <3>4. ASSUME NEW completed \in BOOLEAN, NEW backlog \in BOOLEAN,
                 EndPost(completed, backlog)
          PROVE  Remaining' \in Nat /\ Remaining' <= Remaining
      <4>1. pc = "posting" /\ pc' = "asleep" /\ wait' <= MaxRetry
        BY <1>2, <3>4 DEF EndPost, WaitsInRange
      <4>2. wait' \in Nat
        <5>1. TypeOK'
          BY TypeKept
        <5> QED
          BY <5>1, LongestWait DEF TypeOK
      <4> QED
        BY <1>1, <4>1, <4>2 DEF Remaining
    <3> QED
      BY <1>10, <3>1, <3>2, <3>3, <3>4
  <2>3. ASSUME running, ~scanning
        PROVE  /\ sinceAttempt' + Remaining' <= ScanRecovery + LongestPass
               /\ sinceAsked' + Remaining' < ScanRecovery + ClockModulus \div 2
    <3>1. /\ sinceAttempt + Remaining <= ScanRecovery + LongestPass
          /\ sinceAsked + Remaining < ScanRecovery + ClockModulus \div 2
      BY <2>3 DEF DownInTime
    <3>2. sinceAttempt' = sinceAttempt /\ sinceAsked' = sinceAsked
      BY <2>1
    <3>3. /\ Remaining \in Nat /\ ScanRecovery + LongestPass \in Int
          /\ ScanRecovery + ClockModulus \div 2 \in Int
      BY <1>1
    <3>4. /\ sinceAttempt \in Nat /\ sinceAsked \in Nat
          /\ Remaining' \in Nat /\ Remaining' <= Remaining
      BY <1>1, <2>2
    <3>5. sinceAttempt + Remaining' <= ScanRecovery + LongestPass
      BY <3>1, <3>3, <3>4, ShorterFits
    <3>6. sinceAsked + Remaining' < ScanRecovery + ClockModulus \div 2
      BY <3>1, <3>3, <3>4, ShorterFits
    <3> QED
      BY <3>2, <3>5, <3>6
  <2> QED
    BY <2>1, <2>3 DEF DownInTime
<1>11. CASE UNCHANGED vars
  BY <1>11 DEF vars, taskVars, ages, DownInTime, Remaining
<1> QED
  BY <1>3, <1>4, <1>5, <1>6, <1>7, <1>8, <1>9, <1>10, <1>11 DEF Next, TaskStep

\* While the gateway runs, a scan that stopped is asked to start again within one
\* recovery interval and one pass, for every sensible choice of the intervals: a
\* pass shorter than half a turn of the clock, and a scan that does not stop by
\* itself after nearly half a turn.
THEOREM RecoveriesAreOnTime ==
  ASSUME Sensible
  PROVE  Spec => []RecoveryOnTime
<1>1. Init => WaitsInRange /\ DownInTime
  <2> SUFFICES ASSUME Init PROVE WaitsInRange /\ DownInTime
    OBVIOUS
  <2> QED
    BY DEF Init, WaitsInRange, DownInTime
<1>2. TypeOK /\ WaitsInRange /\ DownInTime => RecoveryOnTime
  <2> SUFFICES ASSUME TypeOK, WaitsInRange, DownInTime, running, ~scanning
               PROVE  sinceAttempt <= ScanRecovery + LongestPass
    BY DEF RecoveryOnTime
  <2> QED
    BY DownNumbers DEF DownInTime
<1>3. BacklogYield <= MaxRetry
  BY DEF Sensible
<1> QED
  BY TimesInRange, RetryWithinLimits, DeadlineInvariant, <1>1, <1>2, <1>3, WaitsKept,
     DownKept, PTL DEF Spec

----------------------------------------------------------------------------
(* The server is left alone after a failure.                               *)

\* The shortest delay after a failure that is told apart from success.
Backoff == Min({2 * PostInterval, MaxRetry})

\* After a failed POST the task is not before its next one until the server has
\* been left alone for long enough: what has passed and what its delay still takes
\* are together at least the limit.
BackedOff ==
  outcome = "failed" =>
    /\ pc = "asleep" => sincePost + wait >= Backoff
    /\ pc \in {"top", "recovery", "deliver"} => sincePost >= Backoff

\* Twice the normal interval, as far as the maximum allows.
LEMMA BackoffNumbers ==
  /\ Backoff \in 1..ClockModulus - 1 /\ Backoff <= MaxRetry /\ Backoff <= 2 * PostInterval
  /\ PostInterval < MaxRetry => PostInterval < Backoff
<1>1. /\ PostInterval \in 1..ClockModulus - 1 /\ MaxRetry \in 1..ClockModulus - 1
      /\ ClockModulus \in Nat
  BY TimingAssumption
<1>2. Backoff = IF 2 * PostInterval <= MaxRetry THEN 2 * PostInterval ELSE MaxRetry
  BY <1>1, MinOfTwo DEF Backoff
<1> QED
  BY <1>1, <1>2

\* next_retry_interval() after a failure: at least that long.
LEMMA FailureBacksOff ==
  ASSUME NEW current \in Intervals
  PROVE  NextRetry(current, FALSE) >= Backoff
<1>1. /\ PostInterval \in Nat /\ MaxRetry \in Nat /\ ClockModulus \in Nat
      /\ PostInterval > 0 /\ PostInterval <= MaxRetry
      /\ MaxRetry < ClockModulus /\ ClockModulus % 2 = 0
  BY TimingAssumption
<1>2. Backoff \in Int /\ Backoff <= MaxRetry /\ Backoff <= 2 * PostInterval
  BY <1>1, BackoffNumbers
<1>3. CASE current >= MaxRetry \/ current > (ClockModulus - 1) \div 2
  BY <1>1, <1>2, <1>3 DEF NextRetry
<1>4. CASE ~(current >= MaxRetry \/ current > (ClockModulus - 1) \div 2)
  <2>1. /\ current \in Nat /\ current >= PostInterval
        /\ current * 2 \in 0..ClockModulus - 1
    BY <1>1, <1>4 DEF Intervals
  <2>2. (current * 2) % ClockModulus = current * 2
    BY <1>1, <2>1
  <2>3. NextRetry(current, FALSE) = Min({current * 2, MaxRetry})
    BY <1>4, <2>2 DEF NextRetry
  <2>4. Min({current * 2, MaxRetry}) = IF current * 2 <= MaxRetry THEN current * 2
                                                                ELSE MaxRetry
    <3> DEFINE twice == current * 2
    <3>1. twice \in Int
      BY <2>1
    <3> HIDE DEF twice
    <3>2. Min({twice, MaxRetry}) = IF twice <= MaxRetry THEN twice ELSE MaxRetry
      BY <1>1, <3>1, MinOfTwo
    <3> QED
      BY <3>2 DEF twice
  <2>5. Min({current * 2, MaxRetry}) >= Backoff
    BY <1>1, <1>2, <2>1, <2>4
  <2> QED
    BY <2>3, <2>5
<1> QED
  BY <1>3, <1>4

LEMMA BackedOffKept ==
  PostInterval < MaxRetry /\ TypeOK /\ RetryInRange /\ BackedOff /\ [Next]_vars
    => BackedOff'
<1> SUFFICES ASSUME PostInterval < MaxRetry, TypeOK, RetryInRange, BackedOff,
                    [Next]_vars
             PROVE  BackedOff'
  OBVIOUS
<1>1. /\ Backoff \in Nat /\ Backoff < ClockModulus /\ PostInterval < Backoff
      /\ ClockModulus \in Nat /\ PostInterval \in Nat
      /\ sincePost \in 0..ClockModulus /\ wait \in Nat
  BY BackoffNumbers, IntervalTypes, LongestWait DEF TypeOK
<1>2. CASE Tick
  <2>1. /\ pc \in {"none", "asleep", "posting"}
        /\ pc # "none" => wait > 0 /\ wait' = wait - 1
        /\ UNCHANGED <<pc, outcome>>
        /\ sincePost' = IF sincePost < ClockModulus THEN sincePost + 1 ELSE sincePost
    BY <1>1, <1>2, OlderInRange DEF Tick
  <2> QED
    BY <1>1, <2>1 DEF BackedOff
<1>3. CASE Start
  BY <1>3 DEF Start, BackedOff
<1>4. CASE \/ StartScan \/ Stop \/ StopScan \/ ScanEnds \/ UNCHANGED vars
           \/ LoopTest \/ ScanIsFine \/ \E started \in BOOLEAN : RecoverScan(started)
  <2>1. /\ UNCHANGED <<outcome, sincePost, wait>>
        /\ \/ pc' \in {"none", pc}
           \/ pc \in {"top", "recovery"} /\ pc' \in {"recovery", "deliver"}
    BY <1>4 DEF StartScan, Stop, StopScan, ScanEnds, LoopTest, ScanIsFine, RecoverScan,
                vars, taskVars, ages
  <2> QED
    BY <2>1 DEF BackedOff
<1>5. CASE SkipDelivery
  \* Another delay, when the server has been left alone for long enough.
  <2>1. /\ pc = "deliver" /\ pc' = "asleep" /\ UNCHANGED <<outcome, sincePost>>
        /\ wait' = PostInterval
    BY <1>5 DEF SkipDelivery, ages
  <2> QED
    BY <1>1, <2>1 DEF BackedOff
<1>6. CASE BeginPost
  BY <1>6 DEF BeginPost, BackedOff
<1>7. CASE WakeUp
  <2>1. /\ pc = "asleep" /\ wait = 0 /\ pc' = "top" /\ UNCHANGED <<outcome, sincePost>>
    BY <1>7 DEF WakeUp, ages
  <2> QED
    BY <1>1, <2>1 DEF BackedOff
<1>8. ASSUME NEW completed \in BOOLEAN, NEW backlog \in BOOLEAN,
             EndPost(completed, backlog)
      PROVE  BackedOff'
  <2>1. /\ pc' = "asleep" /\ sincePost' = 0 /\ retry \in Intervals
        /\ outcome' = "failed" => ~completed
        /\ retry' = NextRetry(retry, completed)
        /\ wait' = IF retry' = PostInterval /\ backlog THEN BacklogYield ELSE retry'
    BY <1>8 DEF EndPost, RetryInRange
  <2>2. ASSUME ~completed PROVE wait' >= Backoff
    \* The interval is not the normal one: that is what tells the failure from a
    \* backlog.
    <3>1. retry' >= Backoff /\ retry' \in Intervals
      BY <2>1, <2>2, FailureBacksOff, NextRetryInRange
    <3>2. retry' # PostInterval
      BY <1>1, <3>1
    <3> QED
      BY <2>1, <3>1, <3>2
  <2>3. wait' >= Backoff => 0 + wait' >= Backoff
    <3>1. wait' \in Int
      <4>1. NextRetry(retry, completed) \in Intervals
        BY <2>1, NextRetryInRange
      <4> QED
        BY <2>1, <4>1, IntervalTypes DEF Intervals
    <3> QED
      BY <3>1
  <2> QED
    BY <2>1, <2>2, <2>3 DEF BackedOff
<1> QED
  BY <1>2, <1>3, <1>4, <1>5, <1>6, <1>7, <1>8 DEF Next, TaskStep

\* After a failed POST the server is left alone for twice the normal interval, or
\* for the maximum where that is shorter, whatever happens in between: a backlog, a
\* pass that skips its delivery, a scan to recover, the clock wrapping round.  With
\* a maximum equal to the normal interval this is not so: task_loop() then takes a
\* failure for a success with a backlog and waits for kBacklogYieldMs only.
THEOREM FailuresBackOff ==
  ASSUME PostInterval < MaxRetry
  PROVE  Spec => RetriesBackOff
<1>1. Init => BackedOff
  BY DEF Init, BackedOff
<1>2. BackedOff /\ [Next]_vars
        => [BeginPost /\ outcome = "failed"
              => sincePost >= Min({2 * PostInterval, MaxRetry})]_vars
  BY DEF BackedOff, BeginPost, Backoff
<1>3. PostInterval < MaxRetry
  OBVIOUS
<1> QED
  BY TimesInRange, RetryWithinLimits, BackedOffKept, <1>1, <1>2, <1>3, PTL
  DEF Spec, RetriesBackOff

=============================================================================
