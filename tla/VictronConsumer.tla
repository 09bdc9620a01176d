-------------------------- MODULE VictronConsumer --------------------------
(***************************************************************************)
(* consumer-plugin: VictronConsumer of lib/consumer.js and the listener,   *)
(* start() and stop() of index.js that drive it inside the Signal K        *)
(* server.                                                                 *)
(*                                                                         *)
(* The server runs one callback at a time, so each is one action.  The     *)
(* wall clock that now() reads may be set.  Of what status() tells, names, *)
(* addresses and what comes with the last advertisement are left out.      *)
(***************************************************************************)
EXTENDS VictronEnvelope, Sequences, FiniteSetsExt

CONSTANTS
  Devices,        \* settings.devices: a sequence of [id, mac, key, enabled]
  Macs,           \* the addresses advertisements come from, normalised
  OnlineTimeout,  \* onlineTimeoutMs, 120000
  Never,          \* decodedAt has no entry
  MaxCount        \* bound: the counters stop there

NoReading == [kind |-> "none", number |-> 0]
IsReading(decoded) == decoded.kind = "reading"

Ids == {Devices[i].id : i \in 1..Len(Devices)}
Results == {"received", "decoded", "ignored", "errors"}
NoState == [error |-> FALSE, decoded |-> NoReading]

ASSUME ConsumerAssumption ==
  /\ Devices \in Seq(Range(Devices))
  /\ \A i \in 1..Len(Devices) : DOMAIN Devices[i] = {"id", "mac", "key", "enabled"}
  /\ \A i \in 1..Len(Devices) : Devices[i].mac \in Macs
  /\ \A i \in 1..Len(Devices) : Devices[i].key \in Keys \union {Malformed}
  /\ OnlineTimeout \in Nat /\ MaxCount \in Nat /\ Never \notin Int

VARIABLES
  subscribed,  \* the listener is registered with the BLE API
  active,      \* consumer # null
  states,      \* states: for each device, the last result of accept()
  decodedAt,   \* decodedAt: for each device, now() at its last valid reading
  counters,    \* received, decoded, ignored and errors, up to MaxCount
  clock,       \* what Date.now() answers
  delta        \* the last message to the server: [id, reading], and a bit that
               \* tells a message from one like it

consumerVars == <<active, states, decodedAt, counters>>
pluginVars == <<subscribed, consumerVars, delta>>

NoDelta == [id |-> Never, reading |-> NoReading, bit |-> FALSE]

NewConsumer(on) ==
  /\ active' = on
  /\ states' = [id \in Ids |-> NoState]
  /\ decodedAt' = [id \in Ids |-> Never]
  /\ counters' = [r \in Results |-> 0]

ConsumerInit ==
  /\ subscribed = FALSE /\ active = FALSE
  /\ states = [id \in Ids |-> NoState]
  /\ decodedAt = [id \in Ids |-> Never]
  /\ counters = [r \in Results |-> 0]
  /\ delta = NoDelta

----------------------------------------------------------------------------
(* lib/consumer.js                                                         *)

\* Array.find over the enabled devices with this address: the first one.
Matching(mac) ==
  {i \in 1..Len(Devices) : Devices[i].enabled /\ Devices[i].mac = mac}
Device(mac) == Devices[Min(Matching(mac))]
DeviceOf(mac) == Device(mac).id

\* Fault: online follows the packet, not the clock.
IsOnline_EverDecoded(id) == decodedAt[id] # Never

\* isOnline(), which status() asks for each device.
IsOnline(id) ==
  /\ decodedAt[id] # Never
  /\ clock - decodedAt[id] <= OnlineTimeout

\* Fault: an advertisement that is ignored does not count as received.
Count_NotIgnored(result) ==
  LET more(n) == Min({n + 1, MaxCount})
  IN counters' = [counters EXCEPT ![result] = more(@),
                                  !.received = IF result = "ignored" THEN @ ELSE more(@)]

Count(result) ==
  LET more(n) == Min({n + 1, MaxCount})
  IN counters' = [counters EXCEPT ![result] = more(@), !.received = more(@)]

Ignore == Count("ignored") /\ UNCHANGED <<states, decodedAt>>

Decode(id, decoded) ==
  /\ Count("decoded")
  /\ decodedAt' = [decodedAt EXCEPT ![id] = clock]
  /\ states' = [states EXCEPT ![id] = [error |-> FALSE, decoded |-> decoded]]

\* Fault: the error replaces the last good reading.
Fail_ForgetsReading(id) ==
  /\ Count("errors")
  /\ states' = [states EXCEPT ![id] = [error |-> TRUE, decoded |-> NoReading]]
  /\ UNCHANGED decodedAt

\* The last good reading is kept with the error.
Fail(id) ==
  /\ Count("errors")
  /\ states' = [states EXCEPT ![id].error = TRUE]
  /\ UNCHANGED decodedAt

\* What accept() returns: the device and its state, or nothing.
Result(mac, advertisement) ==
  IF Matching(mac) = {} THEN Nothing
                        ELSE DecodeEnvelope(advertisement, Device(mac).key)

\* accept()
Accept(mac, advertisement) ==
  LET result == Result(mac, advertisement)
  IN CASE result.kind = "null" -> Ignore
       [] result.kind = "exception" -> Fail(DeviceOf(mac))
       [] OTHER -> Decode(DeviceOf(mac), result)

\* status(), and what is told without a consumer
Status ==
  IF ~active THEN <<>>
  ELSE [i \in 1..Len(Devices) |->
         [id |-> Devices[i].id, online |-> IsOnline(Devices[i].id),
          decode_error |-> states[Devices[i].id].error,
          decoded |-> states[Devices[i].id].decoded]]

----------------------------------------------------------------------------
(* index.js                                                                *)

\* start() with the BLE API there, and without it: then the consumer exists but
\* is never fed.  The Signal K server stops a plugin before it starts it again.
Start(bleApi) ==
  /\ ~active
  /\ NewConsumer(TRUE)
  /\ subscribed' = bleApi
  /\ UNCHANGED <<clock, delta>>

\* Fault: stop() forgets to unsubscribe.
Stop_StaysSubscribed ==
  /\ active
  /\ NewConsumer(FALSE)
  /\ UNCHANGED <<subscribed, clock, delta>>

\* stop() ends the subscription and drops the consumer with all it knows.
Stop ==
  /\ active
  /\ NewConsumer(FALSE)
  /\ subscribed' = FALSE
  /\ UNCHANGED <<clock, delta>>

Message(id) ==
  [id |-> id, reading |-> states'[id].decoded, bit |-> ~delta.bit]

\* Fault: whatever reading the state holds is published, new or kept.
Publish_KeptReading(mac, advertisement) ==
  IF /\ Result(mac, advertisement).kind # "null"
     /\ IsReading(states'[DeviceOf(mac)].decoded)
    THEN delta' = Message(DeviceOf(mac))
    ELSE UNCHANGED delta

\* The condition of the listener: a result without an error and with
\* measurements is published.
Publish(mac, advertisement) ==
  IF /\ Result(mac, advertisement).kind # "null"
     /\ ~states'[DeviceOf(mac)].error
     /\ IsReading(states'[DeviceOf(mac)].decoded)
    THEN delta' = Message(DeviceOf(mac))
    ELSE UNCHANGED delta

\* The listener.
OnAdvertisement(mac, advertisement) ==
  /\ subscribed
  /\ Accept(mac, advertisement)
  /\ Publish(mac, advertisement)
  /\ UNCHANGED <<subscribed, active, clock>>

=============================================================================
