------------------------ MODULE ConsumerPluginProofs ------------------------
(***************************************************************************)
(* Theorems of ConsumerPlugin for every list of devices, keys, timeouts    *)
(* and clock settings.  The inductive invariant is IInv.                   *)
(***************************************************************************)
EXTENDS ConsumerPlugin, FiniteSetTheorems, WellFoundedInduction, TLAPS

\* The least of a non-empty set of indices is one of them: the sets 1..i of its
\* members are well-founded by inclusion.
LEMMA LeastIsMember ==
  ASSUME NEW n \in Nat, NEW M \in SUBSET (1..n), M # {}
  PROVE  Min(M) \in M
<1> DEFINE S == 1..n
           T == {1..i : i \in M}
           R == StrictSubsetOrdering(S)
<1>1. IsFiniteSet(S)
  BY FS_Interval
<1>2. IsWellFoundedOn(R, SUBSET S)
  BY <1>1, FS_StrictSubsetOrderingWellFounded, FS_FiniteSubsetsOfFinite
<1>3. T \subseteq SUBSET S /\ T # {}
  <2>1. \A i \in M : 1..i \subseteq S
    OBVIOUS
  <2>2. \A i \in M : 1..i \in T
    OBVIOUS
  <2>3. \E i : i \in M
    OBVIOUS
  <2>4. T \subseteq SUBSET S
    BY <2>1
  <2> QED
    BY <2>2, <2>3, <2>4
<1>4. PICK x \in T : \A y \in T : ~(<<y, x>> \in R)
  <2> HIDE DEF T, R, S
  <2> QED BY <1>2, <1>3, WFMin
<1>5. PICK m \in M : x = 1..m
  BY <1>4
<1>6. \A k \in M : m <= k
  <2> SUFFICES ASSUME NEW k \in M, k < m PROVE FALSE
    OBVIOUS
  <2>1. 1..k \in T /\ 1..k \subseteq 1..m /\ m \in 1..m /\ m \notin 1..k
    OBVIOUS
  <2>2. 1..k \in SUBSET S /\ 1..m \in SUBSET S
    OBVIOUS
  <2>3. <<1..k, 1..m>> \in R
    BY <2>1, <2>2 DEF StrictSubsetOrdering
  <2> QED
    BY <1>4, <1>5, <2>1, <2>3
<1> QED
  BY <1>6 DEF Min

LEMMA MinOfTwo ==
  ASSUME NEW a \in Int, NEW b \in Int
  PROVE  Min({a, b}) = IF a <= b THEN a ELSE b
BY DEF Min

\* The device of an address that is configured is one of the devices.
LEMMA DeviceIsConfigured ==
  ASSUME NEW mac, Matching(mac) # {}
  PROVE  DeviceOf(mac) \in Ids
<1>1. Len(Devices) \in Nat
  BY ConsumerAssumption
<1>2. Matching(mac) \in SUBSET (1..Len(Devices))
  BY DEF Matching
<1>3. Min(Matching(mac)) \in 1..Len(Devices)
  BY <1>1, <1>2, LeastIsMember
<1> QED
  BY <1>3 DEF DeviceOf, Device, Ids

----------------------------------------------------------------------------
\* What the listener is handed when `a` is heard.
Handed(a) ==
  [company |-> a.company, hex |-> a.hex, instant |-> a.instant, whole |-> a.whole,
   key |-> a.key, known |-> a.known, number |-> heard + 1]

\* accept() answers as the advertisement deserves: nothing for what is none of
\* Victron's records, a reading for what can be read, an exception for the rest.
LEMMA ResultOfAdvertisement ==
  ASSUME NEW mac, NEW a \in Heard, Matching(mac) # {}
  PROVE  /\ IsOther(a) => Result(mac, Handed(a)) = Nothing
                          /\ ~CanBeRead(a, Device(mac).key)
         /\ CanBeRead(a, Device(mac).key) =>
              Result(mac, Handed(a)) = IF a.known THEN Reading(heard + 1)
                                                  ELSE Undecoded
         /\ ~IsOther(a) /\ ~CanBeRead(a, Device(mac).key) =>
              Result(mac, Handed(a)) = Exception
<1>1. /\ a.company \in BOOLEAN /\ a.hex \in BOOLEAN /\ a.instant \in BOOLEAN
      /\ a.whole \in BOOLEAN /\ a.known \in BOOLEAN
  BY PluginAssumption
<1>2. Result(mac, Handed(a)) = DecodeEnvelope(Handed(a), Device(mac).key)
  BY DEF Result
<1>3. a.key # Malformed
  BY PluginAssumption, EnvelopeAssumption
<1> QED
  BY <1>1, <1>2, <1>3 DEF IsOther, CanBeRead, Handed, DecodeEnvelope

----------------------------------------------------------------------------
Decoded == [kind: {"none", "undecoded", "reading"}, number: Nat]

HistoryTypes ==
  /\ lastValid \in [Ids -> Int \union {Never}]
  /\ lastReading \in [Ids -> Decoded]
  /\ failed \subseteq Ids /\ clockSet \subseteq Ids
  /\ delta.reading.number \in 0..heard

\* With and without a consumer: without one there is nothing to remember.
ReadingsKept == \A id \in Ids : states[id].decoded = lastReading[id]
ErrorsTold == \A id \in Ids : states[id].error <=> id \in failed

\* Unless the clock was set since, it has gone on by as much as time has passed.
ValidTimes ==
  /\ \A id \in Ids : decodedAt[id] = Never <=> lastValid[id] = Never
  /\ \A id \in Ids \ clockSet :
       decodedAt[id] # Never => clock - decodedAt[id] = elapsed - lastValid[id]

Counted ==
  /\ counters.received < MaxCount =>
       counters.received = counters.decoded + counters.ignored + counters.errors
  /\ \A r \in Results : counters[r] <= counters.received
  /\ \A id \in Ids : /\ states[id].error => counters.errors > 0
                     /\ states[id].decoded # NoReading => counters.decoded > 0

IInv == TypeOK /\ HistoryTypes /\ ReadingsKept /\ ErrorsTold /\ ValidTimes /\ Counted

----------------------------------------------------------------------------
(* What an advertisement comes to: it is ignored, or it is a device's valid  *)
(* reading, or an error of the device.                                       *)

IsIgnored ==
  /\ Count("ignored")
  /\ UNCHANGED <<states, decodedAt, delta, lastValid, lastReading, failed, clockSet>>

IsValid(id, reading) ==
  /\ Decode(id, reading)
  /\ lastValid' = [lastValid EXCEPT ![id] = elapsed]
  /\ lastReading' = [lastReading EXCEPT ![id] = reading]
  /\ failed' = failed \ {id}
  /\ clockSet' = clockSet \ {id}
  /\ \/ reading = Undecoded /\ delta' = delta
     \/ reading = Reading(heard + 1) /\ delta'.reading = reading

IsError(id) ==
  /\ Fail(id)
  /\ failed' = failed \union {id}
  /\ UNCHANGED <<delta, lastValid, lastReading, clockSet>>

LEMMA AdvertiseCases ==
  ASSUME IInv, NEW mac, NEW a \in Heard, Advertise(mac, a)
  PROVE  /\ heard' = heard + 1
         /\ UNCHANGED <<subscribed, active, clock, elapsed>>
         /\ \/ IsIgnored
            \/ \E id \in Ids : IsValid(id, Undecoded) \/ IsValid(id, Reading(heard + 1))
            \/ \E id \in Ids : IsError(id)
<1>1. /\ heard' = heard + 1
      /\ UNCHANGED <<subscribed, active, clock, elapsed>>
      /\ Accept(mac, Handed(a)) /\ Publish(mac, Handed(a))
  BY DEF Advertise, OnAdvertisement, Handed
<1> DEFINE isFrom(id) == Matching(mac) # {} /\ DeviceOf(mac) = id
           valid(id) == isFrom(id) /\ CanBeRead(a, Device(mac).key)
           reading == IF a.known THEN Reading(heard + 1) ELSE Undecoded
<1>2. /\ lastValid' = [id \in Ids |-> IF valid(id) THEN elapsed ELSE lastValid[id]]
      /\ lastReading' = [id \in Ids |-> IF valid(id) THEN reading ELSE lastReading[id]]
      /\ failed' = {id \in Ids : IF isFrom(id) /\ ~IsOther(a) THEN ~valid(id)
                                                             ELSE id \in failed}
      /\ clockSet' = {id \in clockSet : ~valid(id)}
  BY DEF Advertise
<1>3. /\ lastValid \in [Ids -> Int \union {Never}] /\ lastReading \in [Ids -> Decoded]
      /\ failed \subseteq Ids /\ clockSet \subseteq Ids
      /\ states \in [Ids -> [error: BOOLEAN, decoded: Decoded]]
  BY DEF IInv, HistoryTypes, TypeOK, Decoded
<1>4. CASE Matching(mac) = {} \/ IsOther(a)
  <2>1. Result(mac, Handed(a)) = Nothing
    BY <1>4, ResultOfAdvertisement DEF Result
  <2>2. Count("ignored") /\ UNCHANGED <<states, decodedAt, delta>>
    BY <1>1, <2>1 DEF Accept, Publish, Nothing, Ignore
  <2>3. \A id : ~valid(id)
    BY <1>4, ResultOfAdvertisement
  <2>4. \A id : ~(isFrom(id) /\ ~IsOther(a))
    BY <1>4
  <2>5. UNCHANGED <<lastValid, lastReading, failed, clockSet>>
    BY <1>2, <1>3, <2>3, <2>4
  <2> QED
    BY <1>1, <2>2, <2>5 DEF IsIgnored
<1>5. CASE Matching(mac) # {} /\ CanBeRead(a, Device(mac).key)
  <2> DEFINE d == DeviceOf(mac)
  <2>1. d \in Ids
    BY <1>5, DeviceIsConfigured
  <2>2. Result(mac, Handed(a)) = reading /\ ~IsOther(a)
    BY <1>5, ResultOfAdvertisement
  <2>3. Decode(d, reading)
    BY <1>1, <2>2 DEF Accept, Reading, Undecoded
  <2>4. states'[d] = [error |-> FALSE, decoded |-> reading]
    BY <1>3, <2>1, <2>3 DEF Decode
  <2>5. \/ reading = Undecoded /\ delta' = delta
        \/ reading = Reading(heard + 1) /\ delta'.reading = reading
    BY <1>1, <1>5, <2>2, <2>4 DEF Publish, Message, IsReading, Reading, Undecoded
  <2>6. \A id : valid(id) <=> id = d
    BY <1>5
  <2>7. /\ lastValid' = [lastValid EXCEPT ![d] = elapsed]
        /\ lastReading' = [lastReading EXCEPT ![d] = reading]
    BY <1>2, <1>3, <2>1, <2>6
  <2>8. failed' = failed \ {d} /\ clockSet' = clockSet \ {d}
    <3> HIDE DEF d, reading
    <3>1. \A id : isFrom(id) => valid(id)
      BY <1>5
    <3> QED
      BY <1>2, <1>3, <2>2, <2>6, <3>1
  <2>9. IsValid(d, reading)
    BY <2>3, <2>5, <2>7, <2>8 DEF IsValid
  <2> QED
    BY <1>1, <2>1, <2>9
<1>6. CASE Matching(mac) # {} /\ ~IsOther(a) /\ ~CanBeRead(a, Device(mac).key)
  <2> DEFINE d == DeviceOf(mac)
  <2>1. d \in Ids
    BY <1>6, DeviceIsConfigured
  <2>2. Result(mac, Handed(a)) = Exception
    BY <1>6, ResultOfAdvertisement
  <2>3. Fail(d)
    BY <1>1, <2>2 DEF Accept, Exception
  <2>4. states'[d].error
    BY <1>3, <2>1, <2>3 DEF Fail
  <2>5. delta' = delta
    BY <1>1, <2>4 DEF Publish
  <2>6. \A id : ~valid(id)
    BY <1>6
  <2>7. UNCHANGED <<lastValid, lastReading, clockSet>>
    BY <1>2, <1>3, <2>6
  <2>8. failed' = failed \union {d}
    BY <1>2, <1>3, <1>6, <2>1, <2>6
  <2> QED
    BY <1>1, <2>1, <2>3, <2>5, <2>7, <2>8 DEF IsError
<1> QED
  BY <1>4, <1>5, <1>6

----------------------------------------------------------------------------
(* The invariant.                                                          *)

LEMMA InvInit == Init => IInv
<1> SUFFICES ASSUME Init PROVE IInv
  OBVIOUS
<1> USE ConsumerAssumption, PluginAssumption DEF Init, ConsumerInit, NoState,
        NoReading, NoDelta
<1>1. TypeOK
  <2>1. states \in [Ids -> [error: BOOLEAN, decoded: Decoded]]
    BY DEF Decoded
  <2>2. decodedAt \in [Ids -> Int \union {Never}]
    OBVIOUS
  <2>3. counters \in [Results -> 0..MaxCount]
    OBVIOUS
  <2>4. subscribed \in BOOLEAN /\ active \in BOOLEAN /\ (subscribed => active)
    BY Zenon
  <2>5. clock \in Int /\ elapsed \in 0..MaxElapsed /\ heard \in 0..MaxHeard
    OBVIOUS
  <2> QED
    BY <2>1, <2>2, <2>3, <2>4, <2>5, Zenon DEF TypeOK, Decoded
<1>2. HistoryTypes
  BY DEF HistoryTypes, Decoded
<1>3. ReadingsKept /\ ErrorsTold /\ ValidTimes
  BY DEF ReadingsKept, ErrorsTold, ValidTimes
<1>4. Counted
  BY DEF Counted, Results
<1> QED
  BY <1>1, <1>2, <1>3, <1>4 DEF IInv

\* Counting keeps the counters in their range and their sum, and shows.
LEMMA CountKeepsSum ==
  ASSUME counters \in [Results -> 0..MaxCount],
         counters.received < MaxCount =>
           counters.received = counters.decoded + counters.ignored + counters.errors,
         \A r \in Results : counters[r] <= counters.received,
         NEW result \in Results \ {"received"}, Count(result)
  PROVE  /\ counters' \in [Results -> 0..MaxCount]
         /\ counters'.received < MaxCount =>
              counters'.received = counters'.decoded + counters'.ignored
                                   + counters'.errors
         /\ \A r \in Results : counters'[r] <= counters'.received
         /\ counters'[result] > 0
         /\ \A r \in Results : counters'[r] >= counters[r]
<1> DEFINE more(n) == Min({n + 1, MaxCount})
<1>1. MaxCount \in Nat /\ MaxCount > 0
  BY ConsumerAssumption, PluginAssumption
<1>2. \A n \in 0..MaxCount : more(n) = IF n < MaxCount THEN n + 1 ELSE MaxCount
  BY <1>1, MinOfTwo
<1>3. counters' = [counters EXCEPT ![result] = more(@), !.received = more(@)]
  BY DEF Count
<1> HIDE DEF more
<1>4. /\ counters'[result] = more(counters[result])
      /\ counters'.received = more(counters.received)
      /\ \A r \in Results \ {result, "received"} : counters'[r] = counters[r]
      /\ counters' \in [Results -> {more(n) : n \in 0..MaxCount} \union 0..MaxCount]
  BY <1>3 DEF Results
<1>5. \A r \in Results : counters[r] \in 0..MaxCount
  OBVIOUS
<1>6. counters' \in [Results -> 0..MaxCount]
  BY <1>1, <1>2, <1>4
<1>7. \A r \in Results : counters'[r] >= counters[r] /\ counters'[r] <= counters'.received
  BY <1>1, <1>2, <1>4, <1>5 DEF Results
<1>8. counters'[result] > 0
  BY <1>1, <1>2, <1>4, <1>5
<1>9. ASSUME counters'.received < MaxCount
      PROVE  counters'.received = counters'.decoded + counters'.ignored
                                  + counters'.errors
  <2>1. counters.received < MaxCount
    BY <1>1, <1>2, <1>4, <1>5, <1>9 DEF Results
  <2>2. counters[result] < MaxCount
    <3>1. counters[result] <= counters.received /\ "received" \in Results
      BY DEF Results
    <3> QED
      BY <1>1, <1>5, <2>1, <3>1
  <2>3. /\ counters'.received = counters.received + 1
        /\ counters'[result] = counters[result] + 1
    BY <1>1, <1>2, <1>4, <1>5, <2>1, <2>2 DEF Results
  <2>4. CASE result = "decoded"
    BY <1>4, <1>5, <2>1, <2>3, <2>4 DEF Results
  <2>5. CASE result = "ignored"
    BY <1>4, <1>5, <2>1, <2>3, <2>5 DEF Results
  <2>6. CASE result = "errors"
    BY <1>4, <1>5, <2>1, <2>3, <2>6 DEF Results
  <2> QED
    BY <2>4, <2>5, <2>6 DEF Results
<1> QED
  BY <1>6, <1>7, <1>8, <1>9

LEMMA IgnoredKeepsInv ==
  ASSUME IInv, IsIgnored, heard < MaxHeard, heard' = heard + 1,
         UNCHANGED <<subscribed, active, clock, elapsed>>
  PROVE  IInv'
<1> USE DEF IInv
<1>1. /\ counters' \in [Results -> 0..MaxCount]
      /\ counters'.received < MaxCount =>
           counters'.received = counters'.decoded + counters'.ignored
                                + counters'.errors
      /\ \A r \in Results : counters'[r] <= counters'.received
      /\ \A r \in Results : counters'[r] >= counters[r]
  BY CountKeepsSum DEF IsIgnored, TypeOK, Counted, Results
<1>2. TypeOK'
  BY <1>1, PluginAssumption DEF IsIgnored, TypeOK
<1>3. HistoryTypes'
  BY DEF IsIgnored, HistoryTypes, TypeOK
<1>4. ReadingsKept' /\ ErrorsTold' /\ ValidTimes'
  BY DEF IsIgnored, ReadingsKept, ErrorsTold, ValidTimes
<1>5. Counted'
  <2>1. \A r \in Results : counters[r] \in 0..MaxCount /\ counters'[r] \in 0..MaxCount
    BY <1>1 DEF TypeOK
  <2> QED
    BY <1>1, <2>1, ConsumerAssumption DEF IsIgnored, Counted, Results
<1> QED
  BY <1>2, <1>3, <1>4, <1>5

LEMMA ValidKeepsInv ==
  ASSUME IInv, NEW id \in Ids, NEW reading \in {Undecoded, Reading(heard + 1)},
         IsValid(id, reading), heard < MaxHeard, heard' = heard + 1,
         UNCHANGED <<subscribed, active, clock, elapsed>>
  PROVE  /\ IInv'
         /\ delta' # delta => delta'.reading.number > delta.reading.number
<1> USE DEF IInv
<1>1. Count("decoded")
  BY DEF IsValid, Decode
<1>2. /\ counters' \in [Results -> 0..MaxCount]
      /\ counters'.received < MaxCount =>
           counters'.received = counters'.decoded + counters'.ignored
                                + counters'.errors
      /\ \A r \in Results : counters'[r] <= counters'.received
      /\ counters'.decoded > 0
      /\ \A r \in Results : counters'[r] >= counters[r]
  BY <1>1, CountKeepsSum DEF TypeOK, Counted, Results
<1>3. /\ clock \in Int /\ elapsed \in Int /\ heard \in Nat
      /\ reading \in Decoded /\ Never \notin Int
  BY ConsumerAssumption, PluginAssumption DEF TypeOK, Decoded, Undecoded, Reading
<1>4. /\ states' \in [Ids -> [error: BOOLEAN, decoded: Decoded]]
      /\ states'[id] = [error |-> FALSE, decoded |-> reading]
      /\ \A o \in Ids \ {id} : states'[o] = states[o]
  BY <1>3 DEF IsValid, Decode, TypeOK, Decoded
<1>5. /\ decodedAt' \in [Ids -> Int \union {Never}]
      /\ decodedAt'[id] = clock
      /\ \A o \in Ids \ {id} : decodedAt'[o] = decodedAt[o]
  BY <1>3 DEF IsValid, Decode, TypeOK
<1>6. TypeOK'
  BY <1>2, <1>4, <1>5, PluginAssumption DEF TypeOK, Decoded
<1>7. /\ lastValid' \in [Ids -> Int \union {Never}]
      /\ lastValid'[id] = elapsed
      /\ \A o \in Ids \ {id} : lastValid'[o] = lastValid[o]
  BY <1>3 DEF IsValid, HistoryTypes
<1>8. /\ lastReading' \in [Ids -> Decoded]
      /\ lastReading'[id] = reading
      /\ \A o \in Ids \ {id} : lastReading'[o] = lastReading[o]
  BY <1>3 DEF IsValid, HistoryTypes
<1>9. /\ delta'.reading.number \in 0..heard'
      /\ delta' # delta => delta'.reading.number > delta.reading.number
  BY <1>3 DEF IsValid, HistoryTypes, Undecoded, Reading
<1>10. failed' \subseteq Ids /\ clockSet' \subseteq Ids
  BY DEF IsValid, HistoryTypes
<1>11. HistoryTypes'
  BY <1>7, <1>8, <1>9, <1>10 DEF HistoryTypes
<1>12. ReadingsKept'
  BY <1>4, <1>8 DEF ReadingsKept
<1>13. ErrorsTold'
  BY <1>4 DEF ErrorsTold, IsValid
<1>14. ValidTimes'
  BY <1>3, <1>5, <1>7 DEF ValidTimes, IsValid
<1>15. Counted'
  <2>1. \A r \in Results : counters[r] \in 0..MaxCount /\ counters'[r] \in 0..MaxCount
    BY <1>2 DEF TypeOK
  <2>2. \A o \in Ids : states'[o].error => counters'.errors > 0
    BY <1>2, <1>4, <2>1, ConsumerAssumption DEF Counted, Results
  <2>3. \A o \in Ids : states'[o].decoded # NoReading => counters'.decoded > 0
    BY <1>2
  <2> QED
    BY <1>2, <2>2, <2>3 DEF Counted
<1> QED
  BY <1>6, <1>9, <1>11, <1>12, <1>13, <1>14, <1>15

LEMMA ErrorKeepsInv ==
  ASSUME IInv, NEW id \in Ids, IsError(id), heard < MaxHeard, heard' = heard + 1,
         UNCHANGED <<subscribed, active, clock, elapsed>>
  PROVE  IInv'
<1> USE DEF IInv
<1>1. Count("errors") /\ UNCHANGED decodedAt
  BY DEF IsError, Fail
<1>2. /\ counters' \in [Results -> 0..MaxCount]
      /\ counters'.received < MaxCount =>
           counters'.received = counters'.decoded + counters'.ignored
                                + counters'.errors
      /\ \A r \in Results : counters'[r] <= counters'.received
      /\ counters'.errors > 0
      /\ \A r \in Results : counters'[r] >= counters[r]
  BY <1>1, CountKeepsSum DEF TypeOK, Counted, Results
<1>3. /\ states' \in [Ids -> [error: BOOLEAN, decoded: Decoded]]
      /\ states'[id].error
      /\ \A o \in Ids : states'[o].decoded = states[o].decoded
      /\ \A o \in Ids \ {id} : states'[o] = states[o]
  BY DEF IsError, Fail, TypeOK, Decoded
<1>4. TypeOK'
  BY <1>1, <1>2, <1>3, PluginAssumption DEF TypeOK, Decoded
<1>5. HistoryTypes'
  BY DEF HistoryTypes, IsError, TypeOK
<1>6. ReadingsKept'
  BY <1>3 DEF ReadingsKept, IsError
<1>7. ErrorsTold'
  BY <1>3 DEF ErrorsTold, IsError
<1>8. ValidTimes'
  BY <1>1 DEF ValidTimes, IsError
<1>9. Counted'
  <2>1. \A r \in Results : counters[r] \in 0..MaxCount /\ counters'[r] \in 0..MaxCount
    BY <1>2 DEF TypeOK
  <2>2. \A o \in Ids : states'[o].error => counters'.errors > 0
    BY <1>2
  <2>3. \A o \in Ids : states'[o].decoded # NoReading => counters'.decoded > 0
    BY <1>2, <1>3, <2>1, ConsumerAssumption DEF Counted, Results
  <2> QED
    BY <1>2, <2>2, <2>3 DEF Counted
<1> QED
  BY <1>4, <1>5, <1>6, <1>7, <1>8, <1>9

LEMMA RestartKeepsInv == IInv /\ Restart => IInv'
<1> SUFFICES ASSUME IInv, Restart PROVE IInv'
  OBVIOUS
<1> USE ConsumerAssumption, PluginAssumption DEF IInv
<1>1. /\ active' \in BOOLEAN /\ subscribed' \in BOOLEAN
      /\ subscribed' => active'
      /\ NewConsumer(active')
      /\ UNCHANGED <<clock, delta, elapsed, heard>>
  BY DEF Restart, Start, Stop, NewConsumer
<1>2. /\ states' \in [Ids -> [error: BOOLEAN, decoded: Decoded]]
      /\ \A id \in Ids : states'[id] = NoState
  BY <1>1 DEF NewConsumer, NoState, NoReading, Decoded
<1>3. /\ decodedAt' \in [Ids -> Int \union {Never}]
      /\ \A id \in Ids : decodedAt'[id] = Never
  BY <1>1 DEF NewConsumer
<1>4. /\ counters' \in [Results -> 0..MaxCount]
      /\ \A r \in Results : counters'[r] = 0
  BY <1>1 DEF NewConsumer
<1>5. TypeOK'
  <2> HIDE DEF IInv
  <2>1. clock' \in Int /\ elapsed' \in 0..MaxElapsed /\ heard' \in 0..MaxHeard
    BY <1>1 DEF IInv, TypeOK
  <2> QED
    BY <1>1, <1>2, <1>3, <1>4, <2>1, Zenon DEF TypeOK, Decoded
<1>6. HistoryTypes'
  BY <1>1 DEF HistoryTypes, Restart, NoReading, Decoded
<1>7. ReadingsKept' /\ ErrorsTold'
  BY <1>2 DEF ReadingsKept, ErrorsTold, Restart, NoState
<1>8. ValidTimes'
  BY <1>3 DEF ValidTimes, Restart
<1>9. Counted'
  BY <1>2, <1>4 DEF Counted, Results, NoState
<1> QED
  BY <1>5, <1>6, <1>7, <1>8, <1>9

LEMMA TimeKeepsInv == IInv /\ (TimePasses \/ SetClock) => IInv'
<1> SUFFICES ASSUME IInv, TimePasses \/ SetClock PROVE IInv'
  OBVIOUS
<1> USE ConsumerAssumption, PluginAssumption DEF IInv
<1>1. UNCHANGED <<subscribed, active, states, decodedAt, counters, delta, heard,
                  lastValid, lastReading, failed>>
  BY DEF TimePasses, SetClock, pluginVars, consumerVars, history
<1>2. TypeOK'
  BY <1>1 DEF TypeOK, TimePasses, SetClock
<1>3. HistoryTypes'
  BY <1>1 DEF HistoryTypes, TimePasses, SetClock, history
<1>4. ReadingsKept' /\ ErrorsTold' /\ Counted'
  BY <1>1 DEF ReadingsKept, ErrorsTold, Counted
<1>5. ValidTimes'
  <2>1. /\ decodedAt \in [Ids -> Int \union {Never}]
        /\ lastValid \in [Ids -> Int \union {Never}]
        /\ clock \in Int /\ elapsed \in Int
    BY DEF TypeOK, HistoryTypes
  <2>2. CASE TimePasses
    BY <1>1, <2>1, <2>2 DEF ValidTimes, TimePasses, history
  <2>3. CASE SetClock
    BY <1>1, <2>1, <2>3 DEF ValidTimes, SetClock
  <2> QED
    BY <2>2, <2>3
<1> QED
  BY <1>2, <1>3, <1>4, <1>5

LEMMA InvNext == IInv /\ [Next]_vars => IInv'
<1> SUFFICES ASSUME IInv, [Next]_vars PROVE IInv'
  OBVIOUS
<1>1. ASSUME NEW mac \in Macs, NEW a \in Heard, Advertise(mac, a) PROVE IInv'
  <2>1. heard < MaxHeard
    BY <1>1 DEF Advertise
  <2> QED
    BY <1>1, <2>1, AdvertiseCases, IgnoredKeepsInv, ValidKeepsInv, ErrorKeepsInv
<1>2. CASE UNCHANGED vars
  BY <1>2 DEF vars, pluginVars, consumerVars, history, IInv, TypeOK, HistoryTypes,
     ReadingsKept, ErrorsTold, ValidTimes, Counted
<1> QED
  BY <1>1, <1>2, RestartKeepsInv, TimeKeepsInv DEF Next

LEMMA SpecInv == Spec => []IInv
<1> QED BY InvInit, InvNext, PTL DEF Spec

----------------------------------------------------------------------------
\* The type invariant of the consumer and of the plugin's subscription: a
\* registered listener has a consumer, whatever order start() and stop() come in.
THEOREM TypeCorrect == Spec => []TypeOK
<1>1. IInv => TypeOK
  BY DEF IInv
<1> QED BY <1>1, SpecInv, PTL

\* For every list of devices: what status() shows of a device is its last valid
\* reading.
THEOREM ReadingsAreKept == Spec => []LastReadingKept
<1>1. IInv => LastReadingKept
  <2> SUFFICES ASSUME IInv, NEW i \in DOMAIN Status
               PROVE  Status[i].decoded = lastReading[Devices[i].id]
    BY DEF LastReadingKept
  <2>1. i \in 1..Len(Devices) /\ Status[i].decoded = states[Devices[i].id].decoded
    BY DEF Status
  <2> QED
    BY <2>1 DEF IInv, ReadingsKept, Ids
<1> QED BY <1>1, SpecInv, PTL

\* An error is shown exactly while the last Instant Readout could not be read.
THEOREM ErrorsAreOfLastReadout == Spec => []ErrorTellsLastReadout
<1>1. IInv => ErrorTellsLastReadout
  <2> SUFFICES ASSUME IInv, NEW i \in DOMAIN Status
               PROVE  Status[i].decode_error <=> Devices[i].id \in failed
    BY DEF ErrorTellsLastReadout
  <2>1. i \in 1..Len(Devices) /\ Status[i].decode_error = states[Devices[i].id].error
    BY DEF Status
  <2> QED
    BY <2>1 DEF IInv, ErrorsTold, Ids
<1> QED BY <1>1, SpecInv, PTL

\* For every timeout: online means a valid reading within it, unless the clock
\* was set since the last one.
THEOREM OnlineIsRecent == Spec => []OnlineTracksReadings
<1>1. IInv => OnlineTracksReadings
  <2> SUFFICES ASSUME IInv, NEW id \in Ids \ clockSet
               PROVE  IsOnline(id) <=> /\ lastValid[id] # Never
                                       /\ elapsed - lastValid[id] <= OnlineTimeout
    BY DEF OnlineTracksReadings
  <2> QED
    BY DEF IInv, ValidTimes, IsOnline
<1> QED BY <1>1, SpecInv, PTL

\* The counters add up and agree with what the devices show.
THEOREM CountersAgree == Spec => []CountersMatchStates
<1>1. IInv => CountersMatchStates
  <2> SUFFICES ASSUME IInv PROVE CountersMatchStates
    OBVIOUS
  <2>1. ASSUME NEW i \in DOMAIN Status
        PROVE  /\ Status[i].decode_error => counters.errors > 0
               /\ Status[i].decoded # NoReading => counters.decoded > 0
    <3>1. /\ i \in 1..Len(Devices)
          /\ Status[i].decode_error = states[Devices[i].id].error
          /\ Status[i].decoded = states[Devices[i].id].decoded
      BY <2>1 DEF Status
    <3> QED
      BY <3>1 DEF IInv, Counted, Ids
  <2> QED
    BY <2>1 DEF CountersMatchStates, IInv, Counted
<1> QED BY <1>1, SpecInv, PTL

\* No reading reaches the server twice, or after a newer one.
THEOREM PublishedOnce == Spec => PublishesFreshOnly
<1>1. IInv /\ [Next]_vars =>
        [delta' # delta => delta'.reading.number > delta.reading.number]_vars
  <2> SUFFICES ASSUME IInv, Next, delta' # delta
               PROVE  delta'.reading.number > delta.reading.number
    OBVIOUS
  <2>1. PICK mac \in Macs, a \in Heard : Advertise(mac, a)
    BY DEF Next, Restart, Start, Stop, TimePasses, SetClock, pluginVars
  <2>2. heard < MaxHeard
    BY <2>1 DEF Advertise
  <2> QED
    BY <2>1, <2>2, AdvertiseCases, ValidKeepsInv DEF IsIgnored, IsError
<1> QED BY <1>1, SpecInv, PTL DEF Spec, PublishesFreshOnly

=============================================================================
