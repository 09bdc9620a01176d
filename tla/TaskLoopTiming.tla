--------------------------- MODULE TaskLoopTiming ---------------------------
(***************************************************************************)
(* The part of AdvertisementGateway::task_loop() that is about time: when  *)
(* a stopped BLE scan is started again, how long the task waits after a    *)
(* pass and how the wait grows while the server fails.                     *)
(*                                                                         *)
(* The clock is millis(), a counter that wraps round; a deadline is due    *)
(* when the wrapped difference, read as a signed number, is not negative.  *)
(* Time passes while the task sleeps or waits for the server; its other    *)
(* steps, start() and stop() take no time, but they and the BLE host may   *)
(* act in any order.  What is sent, and the queue, are in                  *)
(* AdvertisementGateway.                                                   *)
(***************************************************************************)
EXTENDS Integers, FiniteSetsExt

CONSTANTS
  ClockModulus,   \* 2^32: values of a uint32_t, in milliseconds
  ScanRecovery,   \* kScanRecoveryIntervalMs
  PostInterval,   \* config.post_interval_ms
  MaxRetry,       \* config.max_retry_interval_ms
  BacklogYield,   \* kBacklogYieldMs
  HttpTimeout,    \* kHttpTimeoutMs
  HealthyLimit    \* bound: the BLE host stops a scan only when the task
                  \* set its recovery deadline less than this long ago

\* start() does not compare the two intervals; the defaults, and any sensible
\* configuration, have the maximum above the normal one.
ASSUME TimingAssumption ==
  /\ ClockModulus \in Nat \ {0} /\ ClockModulus % 2 = 0
  /\ \A d \in {ScanRecovery, PostInterval, MaxRetry, BacklogYield, HttpTimeout} :
       d \in 1..ClockModulus - 1
  /\ PostInterval <= MaxRetry
  /\ HealthyLimit \in Nat

VARIABLES
  clock,         \* clock_->now_ms()
  running,       \* running_
  app,           \* what the application thread is doing: start(), stop()
  scanning,      \* ble_->is_scanning()
  pc,            \* where the HTTP task is in a pass of task_loop()
  now,           \* its local: the clock at the top of the pass
  nextRecovery,  \* its local next_scan_recovery_ms
  retry,         \* its local retry_interval_ms
  wait,          \* how much longer its delay, or at most its request, takes
  outcome,       \* what became of the last POST (history)
  sincePost,     \* time since it ended (history)
  sinceAsked,    \* time since start() or the task last asked to scan (history)
  sinceAttempt   \* time since the scan stopped or was last asked to start
                 \* (history)

ages == <<sincePost, sinceAsked, sinceAttempt>>
taskVars == <<pc, now, nextRecovery, retry, wait, outcome>>
vars == <<clock, running, app, scanning, taskVars, ages>>

After(t, d) == (t + d) % ClockModulus

\* Fault: the two times are compared as they are.
IsDue_Unwrapped(t, deadline) == t >= deadline

\* static_cast<int32_t>(t - deadline) >= 0
IsDue(t, deadline) == (t - deadline) % ClockModulus < ClockModulus \div 2

\* Fault: an interval that has reached its maximum starts over.
NextRetry_StartsOver(current, completed) ==
  IF completed \/ current >= MaxRetry THEN PostInterval
  ELSE Min({(current * 2) % ClockModulus, MaxRetry})

\* Fault: no maximum.
NextRetry_Unlimited(current, completed) ==
  IF completed THEN PostInterval ELSE (current * 2) % ClockModulus

\* next_retry_interval()
NextRetry(current, completed) ==
  IF completed THEN PostInterval
  ELSE IF current >= MaxRetry \/ current > (ClockModulus - 1) \div 2
    THEN MaxRetry
    ELSE Min({(current * 2) % ClockModulus, MaxRetry})

\* The ages are not told apart beyond one turn of the clock.
Older(age) == Min({age + 1, ClockModulus})

Init ==
  /\ clock \in 0..ClockModulus - 1
  /\ running = FALSE /\ app = "idle" /\ scanning = FALSE
  /\ pc = "none" /\ now = 0 /\ nextRecovery = 0 /\ retry = 0 /\ wait = 0
  /\ outcome = "none"
  /\ sincePost = 0 /\ sinceAsked = 0 /\ sinceAttempt = 0

----------------------------------------------------------------------------
(* Time, the application thread and the BLE host.                          *)

Tick ==
  /\ app = "idle"
  /\ \/ pc = "none" /\ UNCHANGED wait
     \/ pc \in {"asleep", "posting"} /\ wait > 0 /\ wait' = wait - 1
  /\ clock' = After(clock, 1)
  /\ sincePost' = Older(sincePost)
  /\ sinceAsked' = Older(sinceAsked)
  /\ sinceAttempt' = Older(sinceAttempt)
  /\ UNCHANGED <<running, app, scanning, pc, now, nextRecovery, retry, outcome>>

\* start() up to xTaskCreate(), and the task up to its loop.  (AdvertisementGateway
\* has the start() that overtakes the task of the stop() before.)
Start ==
  /\ app = "idle" /\ ~running /\ pc = "none"
  /\ running' = TRUE
  /\ app' = "starting"
  /\ pc' = "top"
  /\ retry' = PostInterval
  /\ nextRecovery' = After(clock, ScanRecovery)
  /\ outcome' = "none"
  /\ sinceAsked' = 0 /\ sinceAttempt' = 0
  /\ UNCHANGED <<clock, scanning, now, wait, sincePost>>

\* start_scan() from start(): accepted, which does not mean that the scan runs,
\* or refused, and start() calls stop().
StartScan ==
  /\ app = "starting"
  /\ \/ scanning' \in {scanning, TRUE} /\ app' = "idle" /\ UNCHANGED running
     \/ UNCHANGED scanning /\ running' = FALSE /\ app' = "stopping"
  /\ sinceAttempt' = 0
  /\ UNCHANGED <<clock, taskVars, sincePost, sinceAsked>>

\* stop(): running_ first, the scan after it.
Stop ==
  /\ app = "idle" /\ running
  /\ running' = FALSE
  /\ app' = "stopping"
  /\ UNCHANGED <<clock, scanning, taskVars, ages>>

StopScan ==
  /\ app = "stopping"
  /\ scanning' = FALSE
  /\ app' = "idle"
  /\ UNCHANGED <<clock, running, taskVars, ages>>

\* The BLE host ends the scan by itself.
ScanEnds ==
  /\ scanning /\ sinceAsked < HealthyLimit
  /\ scanning' = FALSE
  /\ sinceAttempt' = 0
  /\ UNCHANGED <<clock, running, app, taskVars, sincePost, sinceAsked>>

----------------------------------------------------------------------------
(* A pass of task_loop().                                                  *)

LoopTest ==
  /\ pc = "top"
  /\ pc' = IF running THEN "recovery" ELSE "none"
  /\ now' = clock
  /\ UNCHANGED <<clock, running, app, scanning, nextRecovery, retry, wait,
                 outcome, ages>>

NeedsRecovery == ~scanning /\ IsDue(now, nextRecovery)

ScanIsFine ==
  /\ pc = "recovery" /\ ~NeedsRecovery
  /\ pc' = "deliver"
  /\ UNCHANGED <<clock, running, app, scanning, now, nextRecovery, retry, wait,
                 outcome, ages>>

\* Fault: only an accepted start moves the deadline.
RecoverScan_WhenAccepted(started) ==
  /\ pc = "recovery" /\ NeedsRecovery
  /\ scanning' = started
  /\ sinceAttempt' = 0
  /\ nextRecovery' = IF started THEN After(now, ScanRecovery) ELSE nextRecovery
  /\ sinceAsked' = 0
  /\ pc' = "deliver"
  /\ UNCHANGED <<clock, running, app, now, retry, wait, outcome, sincePost>>

\* start_scan() from the task; refused, or accepted and failing later, the next
\* attempt is one interval away all the same.
RecoverScan(started) ==
  /\ pc = "recovery" /\ NeedsRecovery
  /\ scanning' = started
  /\ sinceAttempt' = 0
  /\ nextRecovery' = After(now, ScanRecovery)
  /\ sinceAsked' = 0
  /\ pc' = "deliver"
  /\ UNCHANGED <<clock, running, app, now, retry, wait, outcome, sincePost>>

\* No token, no connection, or no batch prepared: the retry interval stays.
SkipDelivery ==
  /\ pc = "deliver"
  /\ wait' = PostInterval
  /\ pc' = "asleep"
  /\ UNCHANGED <<clock, running, app, scanning, now, nextRecovery, retry, outcome,
                 ages>>

BeginPost ==
  /\ pc = "deliver"
  /\ wait' = HttpTimeout
  /\ pc' = "posting"
  /\ UNCHANGED <<clock, running, app, scanning, now, nextRecovery, retry, outcome,
                 ages>>

\* Fault: pending() is asked after every request.
EndPost_AlwaysYields(completed, backlog) ==
  /\ pc = "posting"
  /\ retry' = NextRetry(retry, completed)
  /\ wait' = IF backlog THEN BacklogYield ELSE retry'
  /\ pc' = "asleep"
  /\ outcome' = IF completed THEN "completed" ELSE "failed"
  /\ sincePost' = 0
  /\ UNCHANGED <<clock, running, app, scanning, now, nextRecovery, sinceAsked,
                 sinceAttempt>>

\* post_batch() returns, at once when there is no server address; pending() is
\* asked when the interval is the normal one.
EndPost(completed, backlog) ==
  /\ pc = "posting"
  /\ retry' = NextRetry(retry, completed)
  /\ wait' = IF retry' = PostInterval /\ backlog THEN BacklogYield ELSE retry'
  /\ pc' = "asleep"
  /\ outcome' = IF completed THEN "completed" ELSE "failed"
  /\ sincePost' = 0
  /\ UNCHANGED <<clock, running, app, scanning, now, nextRecovery, sinceAsked,
                 sinceAttempt>>

WakeUp ==
  /\ pc = "asleep" /\ wait = 0
  /\ pc' = "top"
  /\ UNCHANGED <<clock, running, app, scanning, now, nextRecovery, retry, wait,
                 outcome, ages>>

TaskStep ==
  \/ LoopTest \/ ScanIsFine
  \/ \E started \in BOOLEAN : RecoverScan(started)
  \/ SkipDelivery \/ BeginPost
  \/ \E completed, backlog \in BOOLEAN : EndPost(completed, backlog)
  \/ WakeUp

Next ==
  \/ Tick \/ Start \/ StartScan \/ Stop \/ StopScan \/ ScanEnds
  \/ TaskStep

Spec == Init /\ [][Next]_vars

\* Time passes, the application finishes what it has begun, the task is
\* scheduled, and a BLE host that is asked again and again scans in the end.
FairSpec ==
  /\ Spec
  /\ WF_vars(Tick) /\ WF_vars(StartScan) /\ WF_vars(StopScan) /\ WF_vars(TaskStep)
  /\ SF_vars(RecoverScan(TRUE))

----------------------------------------------------------------------------
(* Properties.                                                             *)

\* The variables have their types; no interval exceeds its limit.
TypeOK ==
  /\ {clock, now, nextRecovery} \subseteq 0..ClockModulus - 1
  /\ running \in BOOLEAN /\ scanning \in BOOLEAN
  /\ app \in {"idle", "starting", "stopping"}
  /\ pc \in {"none", "top", "recovery", "deliver", "posting", "asleep"}
  /\ retry \in 0..MaxRetry
  /\ wait \in 0..Max({MaxRetry, HttpTimeout, BacklogYield})
  /\ outcome \in {"none", "completed", "failed"}
  /\ {sincePost, sinceAsked, sinceAttempt} \subseteq 0..ClockModulus

\* The longest a pass can last: a request that times out, then the longest delay.
LongestPass == HttpTimeout + MaxRetry

\* While the gateway runs, a scan that stopped is asked to start again within one
\* recovery interval and one pass, also when the clock wraps round meanwhile: the
\* firmware's acceptance criterion is a continuously running scan.
RecoveryOnTime ==
  running /\ ~scanning => sinceAttempt <= ScanRecovery + LongestPass

\* The BLE host is never asked to recover the scan twice within an interval, nor
\* sooner than an interval after start(), whatever the clock reads.
RecoverySpaced ==
  [][\A started \in BOOLEAN :
       RecoverScan(started) => sinceAsked >= ScanRecovery]_vars

\* However long the outage, a failed POST never makes the next delay shorter.
BackoffNeverShrinks ==
  [][pc = "posting" /\ outcome' = "failed" => retry' >= retry]_vars

\* After a failed POST, the server is left alone for longer than the normal
\* interval, as far as the configured maximum allows.
RetriesBackOff ==
  [][BeginPost /\ outcome = "failed"
       => sincePost >= Min({2 * PostInterval, MaxRetry})]_vars

\* A gateway that keeps running keeps recovering its scan.
ScanRecovered == <>[]running => []<>scanning

=============================================================================
