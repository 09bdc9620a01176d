# A verification of signalk-ble-gateway in TLA+

TLA+ modules of the ESP32 gateway and of the Signal K consumer plugin, the TLC
configurations that check them on small instances, and proofs, checked by TLAPS, of
their safety properties for every size. Paths are relative to `src/`.

## 1. The system

An ESP32 listens to BLE advertisements, queues them and posts them in batches to
a Signal K server. The server hands them to a plugin that decrypts and decodes
Victron records and publishes readings on Signal K paths.

| Component | Source | State | Operations |
|---|---|---|---|
| Batch queue | `gateway-library/include/.../transport_policy.h` | pending, in flight, sequence numbers | push, prepare, acknowledge, drop_invalid, size |
| Advertisement gateway | `gateway-library/src/advertisement_gateway.cpp` | running, mutex, queue, counters, credentials it reads | start, stop, destructor, on_advertisement, pending, task_loop |
| Task loop timing | the same `task_loop()`; `next_retry_interval` | recovery deadline, retry interval | scan recovery, delays |
| HTTP transport | `advertisement_gateway.cpp`, `runtime_interfaces.h` | none | post, serialize_batch |
| Allowlist configuration | `gateway-library/src/ble_allowlist_config.cpp` | the saved list | load, from_json, normalize |
| Firmware | `firmware/src/main.cpp` | Bluetooth host and controller, startup error | setup, log_heartbeat |
| Consumer | `consumer-plugin/lib/consumer.js`, `index.js` | last state and time of the last reading of each device, counters, listener | accept, isOnline, status, start, stop |
| Victron decoders | `consumer-plugin/lib/victron.js` | none | decodeEnvelope, twelve record decoders |
| Path builders | `consumer-plugin/index.js` | none; the server keeps the last value of a path | measurementDelta, eight builders, chargingMode |
| Web application | `consumer-plugin/public/app.js` | the page, the connection label, requests under way | refresh, render, measurementFields |
| Endurance logger | `tools/endurance/` | a file of samples | sample |

How they interact:

- The BLE host task calls `on_advertisement()`. Every successful `start()`
  creates an HTTP task that runs `task_loop()`. The application task calls
  `start()`, `stop()` and, from the heartbeat, `pending()`. They share
  `running_`, the mutex and the queue. The HTTP task reads the batch in flight
  *without* the mutex while it serialises and counts it.
- The gateway posts to the server; the server calls the plugin's listener, one
  advertisement after the other; the listener publishes a delta.
- The web application polls the plugin's status.

What is hard: the three threads and their lock timeouts (20 ms for the callback,
100 ms for the task); a `stop()` that does not wait for the task; answers that
are lost after the server took the batch; a queue that overflows during an
outage; a millisecond clock that wraps; several gateways that deliver late or
lose their power; a Bluetooth driver whose every call may fail; bit fields of odd
widths with reserved numbers; three tables in three files that must agree on the
names of readings; browser requests that overlap. `PROJECT.json` lists each hazard at
its line with the properties that cover it.

What makes each component correct, in short: the queue loses only the oldest
unassigned observations and counts them; the batch in flight is delivered whole
and retried as it is; a stopped scan is recovered on time; retries back off; a
device is online while its readings arrive; only fresh readings are published;
paths settle on the newest reading; a reserved number and only it is null; paths,
status and page tell the same; the allowlist in force is the one the operator last
saved before the boot, and a gateway that does not run says so.

## 2. The modules

| Module | Models |
|---|---|
| `BatchQueue` | the queue; its operations are actions that other modules conjoin into theirs |
| `AdvertisementGateway` (EXTENDS `BatchQueue`) | the threads, mutex, HTTP exchange and counters of the gateway |
| `BatchQueueTheorems`, `AdvertisementGatewayProofs`, `GatewayDeliveryProofs` | proofs about the queue and the gateway |
| `ObservationRelay` | what a gateway promises, without threads, lock or HTTP |
| `GatewayRefinement`, `GatewayRefinementProofs` | the refinement mapping from the gateway to the relay, and its proof |
| `TaskLoopTiming` | scan recovery, retry interval and delays on a wrapping clock |
| `TaskLoopTimingProofs` | its proofs |
| `VictronEnvelope` | `decodeEnvelope()`: which advertisements are records, and which of those can be read |
| `VictronConsumer` (EXTENDS `VictronEnvelope`) | `consumer.js` and the listener, `start()` and `stop()` of `index.js` |
| `ConsumerPlugin`, `MCConsumerPlugin` | the consumer with time passing and a wall clock that may be set |
| `ConsumerPluginProofs` | its proofs |
| `FirmwareBoot` | what `setup()` decides: allowlist, Bluetooth reset, the error shown |
| `EndToEnd`, `MCEndToEnd` (EXTENDS `VictronConsumer`, `FirmwareBoot`) | gateways as relays that may lose their power, the server's hand-over, the consumer and the paths |
| `EndToEndProofs` | its proofs |
| `VictronRecords` | the layouts of the twelve records and how a field is read |
| `RecordDecoding` | records whole, cut short, with any bit changed |
| `SignalKPaths`, `StatusPage` | the path builders of `index.js` and the rows of `app.js` |
| `ConsumerOutputs` (EXTENDS the last three) | records, the consumer's state, the server's paths and a polling browser |
| `RecordProofs` | proofs about records, paths and rows |

Definitions whose name ends in `_Something` and whose comment starts with
"Fault:" are not the code: each is a plausible mistake in the operation whose
name it begins with, and shows that a property would notice it.

### AdvertisementGateway

State: `running`, `mutex` (its owner), `callback` (the observation between its
count and its push), `pc[t]` (where task `t` is in `task_loop()`), `request[t]`
(the POST it waits for), `sk` (what the Signal K client knows), the queue and
the counters. `app` is where the application thread is in `start()`, or
"destroyed". `seen` and `acked` are history: what the server took and how many
observations were acknowledged.

An observation is the number `received_` had when it was counted. That number is
all the properties need: order, identity and count.

Each action is what one thread does between two points at which another can see
the difference. Taking the mutex, the work under it and giving up on it are
separate steps, so every timeout path exists: `TaskLockTimeout` models all four
`xSemaphoreTake` failures of the task, of which the two in `post_batch()` leave
the batch in flight and still answer true. A POST is two steps, sent and
answered; in between everybody else moves. `Answer` says what server and network
may do: a 2xx only for a batch that was taken whole, any batch taken may have
its answer lost, no bearer token is never taken.

Each `start()` attaches the callback again, also when it then creates no task. An
advertisement that is delivered to both attachments is two calls of
`on_advertisement()`, one after the other, and counted as two: two observations here.

The destructor may run while a task is alive. What such a task then does is
undefined; the model lets it go on, or never move again.

The `delivered` counter wraps in the model, at `CounterModulus`. The other
counters are the numbers before they wrap; since equal numbers have equal
remainders, the sum in `Accounting` also holds of the wrapped `uint32_t`s.

### TaskLoopTiming

The clock is a number modulo `ClockModulus`; `IsDue` is the signed comparison of
the wrapped difference. Time passes only while the task sleeps or posts, or is
not there. The refused and the accepted-but-failing `start_scan()` are both
`RecoverScan(FALSE)`.

The run `TimingRecovery` lets the BLE host stop a scan by itself only within
`HealthyLimit` of the last time it was asked to start: so soon that the deadline
the task then looks at is not half a turn of the clock in the past.
Without that bound `RecoveryOnTime` is false; see section 5.

### VictronEnvelope, VictronConsumer, ConsumerPlugin

An advertisement is the answers to what `decodeEnvelope()` asks of it, in the
order it asks: data under Victron's company, hex, a leading 0x10, nine bytes, the
key check, a decoder for its type. The key check compares one byte, so a key
stands for its first byte. `Exception` is any throw, `Undecoded` a record whose
type has no decoder; a configured key that is none (`Malformed`) throws where it is
looked at, after the length. `parseAdStructures()` and `manufacturerData()` are called by
tests only.

The server runs one callback at a time, so every callback is one action, and it stops
a plugin before it starts it again, which `index.js` does not test.
`Publish` is the listener's condition. `counters` are those of `status()`, up to
`MaxCount`. The clock is the wall clock, as `Date.now` is, and may be set;
`clockSet` is history, the devices whose last valid reading came before it was.
For those nothing is promised: a clock set back far enough keeps a silent device
online, one set forwards takes a live one offline until its next reading.
`failed` and `lastReading` are history too, computed from what was sent and not
from what the consumer made of it.

### FirmwareBoot, EndToEnd

A gateway is what `ObservationRelay` promises, which `GatewayRefinement` shows
the gateway to keep. The Signal K server is not part of the repository. The model
assumes it takes a POST whole and hands its advertisements over in order before
it takes another one. A path shows the last reading published for the device.
`Hear` is one advertisement: the gateways that hear it keep it unless the allowlist
filters it or, at the `late` ones, the callback gives up on the mutex. `last` is the
newest reading of a device that some gateway queued, so `LatestReadingsShown`
promises nothing for an advertisement that the callback lost: such a loss is counted
(`Accounting`) and no more. Nor does it for one that `Capacity` newer advertisements have
pushed out of the queue.

`Reboot` is a power failure or a restart: the queue is gone, the saved allowlist is
loaded, the Bluetooth is reset from any of its nine states with any of the four
driver calls failing, and `start()` succeeds or not. Calls and tests are in the
order of `reset_preinitialized_bluetooth()`; each test and call is a `Called`. `Edit` is an operator's text through
`from_json()`; a text is the sequence of what stands between its commas, each an
address or none. The file changes with it in one step: what `from_json()` changes
before the save is not looked at until the next boot. `CanRead` says whether the plugin can read what comes from an
address: it has a device for it, with a key that is one. `wanted` is history: what the operator last entered without a
mistake, and what that was at the last boot.

### VictronRecords, SignalKPaths, StatusPage, ConsumerOutputs

A record is its bits; a decoder is a set of fields (name, place, width, how it is
read, reserved number, step and offset). `readBits()` sums its bits by weight;
`NumberWith` does it from the highest, each bit and twice what is above it, and
counts the highest as it is told to: once for a number, minus once for a signed
one. A value is a whole number of the finest
step of its quantity, so that scaling and conversion are exact: a percentage is
counted in 0.001 %, a ratio in thousandths, so that `percent / 100` is a division
here too. The name of a
state or an error stands for its number. `RecordDecoding` starts from records of
zeros, ones, alternating bits, and one in which every reading is unavailable, and
changes any one bit or cuts bytes off.

A path builder is a set of candidates (path, measurement, conversion); a path
stands for that leaf of the device. `PathsAgreeWithStatus` does not use the builders'
`Convert`: `Means` says what a reading is in the unit of its path, from the name of the
reading alone. The server, external, keeps the last value of
each path, also while the plugin is restarted. A row of the page is the names it
tries in turn (`a ?? b`). `refresh()` is four steps per request: sent, answered
or failed, rendered or offline; the timer sends the next without waiting.

## 3. What is checked

| Run | Module | Shows |
|---|---|---|
| `GatewayDelivery` | GatewayRefinement | one task: `Accounting`, `Fifo`, `InflightIsMine`, `InflightRetained`, `ServerInOrder`, `AcknowledgedWasTaken`; the gateway implements the relay (`ImplementsRelay`) |
| `GatewayOutage` | AdvertisementGateway | `DrainsAfterOutage`, `StoppedTasksEnd` |
| `TimingRecovery` | TaskLoopTiming | `RecoveryOnTime`, `RecoverySpaced`, `BackoffNeverShrinks`, `RetriesBackOff`, `ScanRecovered` |
| `ConsumerReadings` | MCConsumerPlugin | `LastReadingKept`, `ErrorTellsLastReadout`, `OnlineTracksReadings`, `CountersMatchStates`, `PublishesFreshOnly` |
| `EndToEndOneGateway` | MCEndToEnd | `SettledIsNewest`, `LatestReadingsShown`, `AllowlistInForce`, `RunningOrErrorShown` |
| `RecordsDecoded` | ConsumerOutputs | decoding: `NotAvailableIsNull`, `OneReadingPerBit`, `CutShortIsNull`; outputs: `PathsAgreeWithStatus`, `InSignalKRange`, `EveryReadingHasAPlace`, `PageCatchesUp` |

The six runs of section 5 are the ones TLC must find violated.

### Bounds

- Gateway: four observations, a queue of two, batches of two. Four fill a batch
  and overflow the queue behind it. The liveness run has two observations and
  batches of one, enough for a retained batch and a backlog. `MaxObservations`
  bounds `received`; the moduli are small so that wraps happen.
- Statuses: none (0), 200, 400 and 401, one of each class
  `classify_http_status` and the 401/403 branch distinguish.
- `RestartLosesBatch`: two tasks, the least with which a restart can overlap.
- Timing: a clock of 16 values and intervals of 1 to 5 keep the ratios that
  matter: a retry maximum that doubling jumps over (2, 4, 5), and a deadline that
  is never half a turn of the clock away (`HealthyLimit` 5, a longest pass of 6,
  an interval of 3). `PostInterval < MaxRetry`, as in the defaults,
  but for `TimingEqualIntervals`.
- Consumer: two devices, one of them configured twice, once disabled, the other
  with a second address and a malformed key, and one unknown address; readings
  under both keys and every kind of advertisement that is none; a timeout of 1
  within 2 units of time, three advertisements, counters up to 4, and a clock
  that may be set by -2 and 3 while it stays within -2..3.
- End to end: two devices, both configured (what becomes of an address nobody
  configured is in `ConsumerReadings`); four advertisements, two held unclaimed, two
  claimed; a compiled
  list with a mistake, an edit that is accepted and one that is refused; all nine
  Bluetooth states and all sets of failing calls. The consumer's counters are
  switched off (`MaxCount` 0): they decide nothing.
- Records: all twelve layouts, 16 bytes, every single-bit change of the four
  base records and every length. Paths are checked for all of them, the browser
  (two overlapping requests, the least that can overtake one another) for one
  record type, `Polled`: it treats all alike. `RecordsDecoded` does not check
  deadlock: a behaviour may end when nothing is left of the record.

### Fairness

- `AdvertisementGateway`: FreeRTOS schedules every thread, delays, requests (5 s
  timeout) and critical sections end: weak fairness of the steps. A FreeRTOS
  mutex serves its waiters: strong fairness of taking it. A server that is asked
  again and again does not fail every time: strong fairness of a completed
  answer. `DrainsAfterOutage` also assumes that lock timeouts cease (20 and
  100 ms against sections of microseconds) and that the connection stays.
  Nothing is assumed of `start()`, `stop()`, the radio or the heartbeat's call.
- `TaskLoopTiming`: time passes, threads are scheduled; a BLE host asked again
  and again scans in the end.
- `EndToEnd`: a gateway delivers and settles, which is what `DrainsAfterOutage`
  says; the server hands over. Nothing is assumed of power, operator or radio;
  `LatestReadingsShown` excludes observations lost with the power.
- `ConsumerOutputs`: `setInterval` fires, and every fetch is answered or fails and
  its continuation runs, in any order. `PageCatchesUp` assumes that the server can
  be reached from some time on and that the status then stays.

## 4. What is proved

`AdvertisementGatewayProofs` proves, for every number of tasks, every queue and
batch size, allowlist and set of statuses, from `QueueAssumption` (what
`start()` checks in `valid()`) and `GatewayAssumption` (distinct threads):

| Theorem | Property | Argument |
|---|---|---|
| `TypeCorrect` | `TypeOK` | inductive as it is; its last two conjuncts (a task that owns the mutex is at a lock point, the callback at its push) are what makes giving it back well typed |
| `EveryLossIsCounted` | `Accounting` | inductive relative to `TypeOK`: prepare moves observations (`PrepareKeepsHeld`), push into a full queue exchanges one for one counted, the two clearings add what they remove |
| `HeldInOrder` | `Fifo` | inductive relative to `TypeOK`, from `AppendIncreasing`, `TailIncreasing`, `PushKeepsOrder`, `AcknowledgeKeepsOrder` |
| `BatchIsStable` | `InflightIsMine` | for one task (`SingleTask`); inductive relative to `TypeOK`: the callback touches only `pending`, and no other task can clear the batch |
| `BatchIsRetained` | `InflightRetained` | for one task: every step either leaves the batch or is one of the two clearings, of which `InflightIsMine` says what the server has |

`TypeCorrect`, `EveryLossIsCounted` and `HeldInOrder` need no bound on the tasks,
which is why a restart with two tasks cannot break them; the last two need
`SingleTask`, and `RestartLosesBatch` shows why. The lemmas about the queue are
in `BatchQueueTheorems`.

`GatewayDeliveryProofs` and `GatewayRefinementProofs`, all for `SingleTask`:

| Theorem | Property | Argument |
|---|---|---|
| `DeliveredInOrder` | `ServerInOrder` | the inductive invariant `SeenOrder`: what waits is younger than all the server has, and the batch in flight is either wholly with the server or wholly younger. It is needed because `Fifo` says nothing of what has left the queue |
| `AcknowledgedIsDelivered` | `AcknowledgedWasTaken` | the inductive invariant `AckedBesides`: the server has as many observations *besides* the batch in flight as were acknowledged, so that acknowledging this batch adds at most its own |
| `GatewayImplementsRelay` | `ImplementsRelay` | step by step: the callback's push is `Observe`, prepare is `Claim`, an answered POST `Arrive` or a stutter, acknowledging `Settle`, dropping an invalid batch `WriteOff`, all else stutters; relative to `SeenOrder`, `Fifo`, `InflightIsMine` and `TypeOK` |

`TaskLoopTimingProofs` proves, for every width of the clock and all intervals
with `PostInterval <= MaxRetry` (`TimingAssumption`; further assumptions in the
table):

| Theorem | Property | Argument |
|---|---|---|
| `RetryWithinLimits` | | the retry interval of a task stays in `PostInterval..MaxRetry` (`RetryInRange`, inductive: only `Start` and `EndPost` set it) |
| `RetryNeverShrinks` | `BackoffNeverShrinks` | from `RetryInRange` and `NextRetryInRange`: below half the width the doubling does not wrap, above it the maximum is taken |
| `FailuresBackOff` | `RetriesBackOff` | with `PostInterval < MaxRetry`: after a failed POST the retry interval is longer than the normal one, so that `task_loop()` does not take it for a completed one (`FailureBacksOff`); the inductive invariant `BackedOff` says that what has passed since and what remains of the delay are together at least that interval |
| `TimesInRange` | `TypeOK` | inductive relative to `RetryInRange` |
| `RecoveriesAreSpaced` | `RecoverySpaced` | with `ScanRecovery` at most half the width: the inductive invariant `DeadlineAhead` ties the deadline to the time since the last attempt, so that a deadline that is due is an interval after it (`DueAfter`) although only remainders are compared |
| `RecoveriesAreOnTime` | `RecoveryOnTime` | with `Sensible` (a longest pass below half the width, a scan that does not stop by itself after nearly half a turn): the invariants `WaitsInRange` and `DownInTime`, which bounds the time a scan has been down plus what remains of the pass |

TLC's instance has no interval above half the width of the clock; the test in
`next_retry_interval` that guards it is covered by this proof alone. `Sensible`
leaves out exactly what `TimingLongHealthyScan` shows to fail. The hypothesis of
`FailuresBackOff` is needed: `TimingEqualIntervals` shows what equal intervals do.

`ConsumerPluginProofs` proves, for every list of devices, set of addresses, keys
and advertisements, timeout and clock step, from `ConsumerAssumption` and
`PluginAssumption`:

| Theorem | Property |
|---|---|
| `TypeCorrect` | `TypeOK`, with the listener's consumer |
| `ReadingsAreKept` | `LastReadingKept` |
| `ErrorsAreOfLastReadout` | `ErrorTellsLastReadout` |
| `OnlineIsRecent` | `OnlineTracksReadings` |
| `CountersAgree` | `CountersMatchStates` |
| `PublishedOnce` | `PublishesFreshOnly` |

They share one inductive invariant, `IInv`: `TypeOK`; the types of the history;
that the states hold the last readings and errors (`ReadingsKept`, `ErrorsTold`,
also without a consumer, when both are empty); that the clock has gone on since
`decodedAt` by the time passed since `lastValid` unless it was set (`ValidTimes`,
which `OnlineTracksReadings` follows from but does not imply); and that states
without a count do not exist (`Counted`). `AdvertiseCases` splits an advertisement
into ignored, valid and failing by what was sent, and each case has a lemma.

`EndToEndProofs` proves, for every set of gateways, devices, texts and compiled
lists, every capacity and claim, from `EndToEndAssumption` and
`ConsumerAssumption`:

| Theorem | Property | Argument |
|---|---|---|
| `TypeCorrect` | | `TypeOK`, inductive as it is |
| `ForwardsTheAllowed` | `AllowlistInForce` | the invariant `FirmwareInv`: the saved list, or the compiled one without it, is what the operator wanted last, the list in force what was wanted at the boot, and all that is held passed it |
| `FailureIsShown` | `RunningOrErrorShown` | every outcome of a boot is one of `BootOutcomes`; `ResetIsClean` follows the five states of host and controller through the four calls |
| `OneGatewayIsInOrder` | `SettledIsNewest` | for one gateway (`OneGateway`): the inductive invariant `DeliveryInv` |

`SettledIsNewest` says nothing while the inbox has something, and is far from
inductive. `DeliveryInv` has three parts. `InOrder`: what is held and what is in the
inbox ascends. `Covered`: what the server has of a device, published or in the
inbox, is older than all that is unclaimed, and when the claim has a reading of the
device at all, not newer than the newest of those: so repeating the batch ends with
the newest again. `Shown`: a path is behind only
while the inbox has a reading of its device that will put it right. A second gateway
breaks `Covered`, as `EndToEndTwoGateways` shows.

`RecordProofs` proves, for records of any length and any content (TLC looks at four
of 16 bytes and at each with one bit changed), from `RecordsAssumption`:

| Theorem | Property | Argument |
|---|---|---|
| `RecordsAreRecords` | | the record is a sequence of bits, of whole bytes, of a known type (`RecordTypes`, inductive) |
| `OnlyReservedIsNull` | `NotAvailableIsNull` | `BitsOfNumber`: bits make a number exactly when they are the bits of that number; hence for signed and unsigned fields alike, since each reserved number fits its field (`ReservedNumbers`) |
| `ReadingsShareNoBits` | `OneReadingPerBit` | a field depends on its bits alone (`BitOfField`), and two fields of a layout start together or lie apart (`FieldsLieApart`, from the places of each layout) |
| `MissingBitsAreNull` | `CutShortIsNull` | what is left of a record has the same bits in the same places (`CutShortFieldIsNull`) |
| `PathsAgree` | `PathsAgreeWithStatus` | inductive: no two candidates of a record have one path (`CandidatesPaths`), so that each value in the delta is that of its candidate (`DeltaIs`); each candidate has the conversion that its reading needs (`CandidatesAreConverted`, `PathMeansReading`) |
| `ValuesInRange` | `InSignalKRange` | the candidates of these paths and the fields they read (`LimitedPaths`, `LimitedReadings`); unsigned numbers are not negative, -40 C is 233.15 K, what was consumed is negated twice, and the ten bits of a state of charge, without the reserved number, are at most 102.2 % (`ChargeReading`) |
| `TablesAgree` | `EveryReadingHasAPlace` | the names of each layout against the rows of its type, and the names the path builders look for against the layout; a row with a reading that is not null shows a value (`RowHasValue`) |

What a recursive function computes would be shown by induction, which is out of
reach. Here it is shown by a least counterexample: a set of positions at which it
goes wrong has a least one (`LeastNumber`, from the theorem that `<` is
well-founded), and going one further contradicts it. `FromExists` and `NumberIs` do
so for the recursion of `NumberWith`. The layouts are data, and the proofs about
them one lemma per layout: all that a larger proof needs of a field is `IsField`.

Only model-checked: liveness (out of TLAPS's reach, like ENABLED), so
`DrainsAfterOutage`, `StoppedTasksEnd`, `ScanRecovered`, `LatestReadingsShown` and
`PageCatchesUp`. Every other property that a passing run checks is proved. Some need a
hypothesis besides the assumptions on the constants: one HTTP task (`InflightIsMine`,
`InflightRetained`, `ServerInOrder`, `AcknowledgedWasTaken`, `ImplementsRelay`), one
gateway (`SettledIsNewest`), intervals in proportion (`RecoverySpaced`,
`RecoveryOnTime`, `RetriesBackOff`). `RestartLosesBatch`, `EndToEndTwoGateways`,
`TimingLongHealthyScan` and `TimingEqualIntervals` show what happens without them.

## 5. Where the code and its documents disagree

Each is a run that TLC must find violated.

- `RestartLosesBatch`: `stop()` does not wait for the task. A `start()` soon after
  sets `running_` before the old task tests it, and two tasks share the queue.
  Then one acknowledges the batch the other has just put in flight: it is lost,
  though counted as acknowledged.
- `DestroyedInUse`: the destructor deletes the mutex while the task or its
  request is under way.
- `TimingEqualIntervals`: a failed POST is told from a completed one by its retry
  interval being longer than the normal one. With `max_retry_interval_ms` equal to
  `post_interval_ms`, which nothing forbids, it is not: with a backlog the POST is
  repeated after 10 ms for as long as the outage lasts.
- `TimingLongHealthyScan`: the recovery deadline is only moved when it is used.
  After 2^31 ms of healthy scanning it lies in the apparent future, and a scan
  that then stops is not recovered until the clock has come round.
- `EndToEndTwoGateways`: readings are published as they come, so one that a
  gateway delivers late replaces a newer one from another, for good. (With one
  gateway a repeated batch does the same in passing; `SettledIsNewest` holds.)
- `RecordsStateShown`: a state of 0xFF is shown as 255.

Remarks that no run is spent on:

- A batch that was taken stays in flight when the mutex is not had within 100 ms. It
  is sent again and added to `delivered` again, which can so pass `received`. (An
  answer that is lost is not counted.) `docs/15` wants `delivered` to follow
  `received`, which this does not contradict.
- Online is measured on the wall clock, hence the exception in
  `OnlineTracksReadings`.
- `docs/07` says that the state and the error of an Orion XS remain
  "diagnostic-only" and `docs/06` that only two voltages of record 0x04 reach
  Signal K; `index.js` publishes charging mode, charger state and error of both.
- A boot whose Bluetooth reset or first `start_scan()` fails shows an error and is
  never tried again, though `docs/15` lists "component reinitialization" among the
  recoveries: `setup()` calls `start()` once.
- A path keeps its last value when its reading becomes unavailable
  (`PathsAgreeWithStatus` states when).
- The comment at `index.js:109-112` says the decoded values of 0x0d are visible in
  the web application; its monitor mode is not, nor the number beside the error
  name of a Multi RS (`NotShown`). The active AC input 3, reserved for not
  available, shows as "unknown".

The firmware as it is calls `start()` once and never `stop()` or the destructor;
`RestartLosesBatch` and
`DestroyedInUse` concern the library's interface, which ADR-007 offers for reuse.

## 6. Not modelled

JSON text, hex and AES-CTR (pure conversions); AD structures, which only tests
parse; the spelling of addresses; logging and the diagnostics that decide
nothing; the names of states and errors; number formats and layout of the web
page; the endurance script and build scripts (I/O without state). The Signal K
server, the Signal K client, the BLE host, the Bluetooth driver and the HTTP
client are external and modelled from how the code uses them.

Left for a later extension:

- The scan of a stopped gateway. `TaskLoopTiming` has the interleaving in which a
  pass overtaken by `stop()` starts the scan again; no document says what a stopped
  gateway's scan may do, so no property is stated.
- A device whose readings come through two plugins or two devices that share a
  path (the same id, or a `secondaryBattery` that names another device).
