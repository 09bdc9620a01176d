--------------------------- MODULE ConsumerPlugin ---------------------------
(***************************************************************************)
(* VictronConsumer at work: devices advertise, the plugin is started and   *)
(* stopped, time passes and the wall clock may be set.                     *)
(***************************************************************************)
EXTENDS VictronConsumer

CONSTANTS
  Heard,       \* the advertisements that are heard, their numbers aside
  ClockSteps,  \* by how much the wall clock may be set, forwards or back
  MaxElapsed,  \* bound: how long a behaviour lasts
  MaxHeard     \* bound: advertisements in a behaviour

ASSUME PluginAssumption ==
  /\ Heard \subseteq [company: BOOLEAN, hex: BOOLEAN, instant: BOOLEAN,
                      whole: BOOLEAN, key: Keys, known: BOOLEAN]
  /\ ClockSteps \subseteq Int /\ MaxElapsed \in Nat /\ MaxHeard \in Nat
  /\ MaxCount > 0

VARIABLES
  elapsed,    \* how much time has passed
  heard,      \* how many advertisements there were; a reading bears its number
  lastValid,  \* for each device, when its last valid reading arrived
  lastReading, \* for each device, that reading
  failed,      \* the devices whose last Instant Readout could not be read
  clockSet    \* the devices whose last valid reading came before the wall clock
              \* was last set

history == <<heard, lastValid, lastReading, failed, clockSet>>
vars == <<pluginVars, clock, elapsed, history>>

Init ==
  /\ ConsumerInit
  /\ clock = 0 /\ elapsed = 0
  /\ heard = 0
  /\ lastValid = [id \in Ids |-> Never]
  /\ lastReading = [id \in Ids |-> NoReading]
  /\ failed = {}
  /\ clockSet = {}

\* Nothing of Victron's, or a beacon.
IsOther(a) == a.company => a.hex /\ ~a.instant
CanBeRead(a, key) == a.company /\ a.hex /\ a.instant /\ a.whole /\ a.key = key

\* The BLE provider hands an advertisement to the listener; a reading bears its number.
Advertise(mac, a) ==
  LET isFrom(id) == Matching(mac) # {} /\ DeviceOf(mac) = id
      valid(id) == isFrom(id) /\ CanBeRead(a, Device(mac).key)
      reading == IF a.known THEN Reading(heard + 1) ELSE Undecoded
  IN /\ heard < MaxHeard
     /\ OnAdvertisement(mac, [company |-> a.company, hex |-> a.hex,
          instant |-> a.instant, whole |-> a.whole, key |-> a.key,
          known |-> a.known, number |-> heard + 1])
     /\ heard' = heard + 1
     /\ lastValid' = [id \in Ids |-> IF valid(id) THEN elapsed ELSE lastValid[id]]
     /\ lastReading' = [id \in Ids |-> IF valid(id) THEN reading ELSE lastReading[id]]
     /\ failed' = {id \in Ids : IF isFrom(id) /\ ~IsOther(a) THEN ~valid(id)
                                                            ELSE id \in failed}
     /\ clockSet' = {id \in clockSet : ~valid(id)}
     /\ UNCHANGED elapsed

Restart ==
  /\ (\E bleApi \in BOOLEAN : Start(bleApi)) \/ Stop
  /\ lastValid' = [id \in Ids |-> Never]
  /\ lastReading' = [id \in Ids |-> NoReading]
  /\ failed' = {}
  /\ clockSet' = {}
  /\ UNCHANGED <<elapsed, heard>>

TimePasses ==
  /\ elapsed < MaxElapsed
  /\ elapsed' = elapsed + 1
  /\ clock' = clock + 1
  /\ UNCHANGED <<pluginVars, history>>

SetClock ==
  /\ \E step \in ClockSteps : clock' = clock + step
  /\ clock' \in -MaxElapsed..MaxElapsed + 1
  /\ clockSet' = {id \in Ids : lastValid[id] # Never}
  /\ UNCHANGED <<pluginVars, elapsed, heard, lastValid, lastReading, failed>>

Next ==
  \/ \E mac \in Macs, a \in Heard : Advertise(mac, a)
  \/ Restart \/ TimePasses \/ SetClock

Spec == Init /\ [][Next]_vars

----------------------------------------------------------------------------
\* The variables have their types, and a registered listener has a consumer to
\* give its advertisements to, whichever way start() ended.
TypeOK ==
  /\ subscribed \in BOOLEAN /\ active \in BOOLEAN
  /\ states \in [Ids -> [error: BOOLEAN,
                        decoded: [kind: {"none", "undecoded", "reading"}, number: Nat]]]
  /\ decodedAt \in [Ids -> Int \union {Never}]
  /\ counters \in [Results -> 0..MaxCount]
  /\ clock \in Int /\ elapsed \in 0..MaxElapsed /\ heard \in 0..MaxHeard
  /\ subscribed => active

\* A device is reported online while, and only while, a valid reading arrived
\* within the timeout: beacons, errors and restarts in between change nothing,
\* and a wall clock that was set matters no more once the device is heard again.
OnlineTracksReadings ==
  \A id \in Ids \ clockSet :
    IsOnline(id) <=> /\ lastValid[id] # Never
                     /\ elapsed - lastValid[id] <= OnlineTimeout

\* The reading a device shows is its last valid one, through any number of errors
\* and beacons and whatever the other devices send.
LastReadingKept ==
  \A i \in DOMAIN Status : Status[i].decoded = lastReading[Devices[i].id]

\* A device shows an error while, and only while, the last Instant Readout it sent
\* could not be read: the beacons in between neither are errors nor end one.
ErrorTellsLastReadout ==
  \A i \in DOMAIN Status : Status[i].decode_error <=> Devices[i].id \in failed

\* The counters are those of this consumer: they add up, and where a device shows
\* an error or a reading there was one to count.
CountersMatchStates ==
  /\ counters.received < MaxCount =>
       counters.received = counters.decoded + counters.ignored + counters.errors
  /\ \A i \in DOMAIN Status :
       /\ Status[i].decode_error => counters.errors > 0
       /\ Status[i].decoded # NoReading => counters.decoded > 0

\* Only freshly decoded readings are published: none twice, none kept from before.
PublishesFreshOnly ==
  [][delta' # delta => delta'.reading.number > delta.reading.number]_vars

=============================================================================
