------------------------------ MODULE EndToEnd ------------------------------
(***************************************************************************)
(* From the radio to the Signal K path: gateways that hear devices, the    *)
(* server's BLE API and the consumer plugin behind it.                     *)
(*                                                                         *)
(* A gateway is what ObservationRelay promises and GatewayRefinement shows *)
(* AdvertisementGateway to keep: it holds observations, claims the oldest, *)
(* delivers a claim whole and maybe more than once, then settles it.  A    *)
(* gateway may lose its power at any time and boots again (FirmwareBoot)   *)
(* with the allowlist that was last saved, and with nothing it held.       *)
(*                                                                         *)
(* The consumer is VictronConsumer.  The server between them is not part   *)
(* of the repository: it takes a POST whole, in the order the POSTs come,  *)
(* and hands its advertisements to the listener one after the other before *)
(* it does anything else.                                                  *)
(***************************************************************************)
EXTENDS VictronConsumer, FirmwareBoot

CONSTANTS
  Gateways,
  Capacity,   \* observations a gateway holds unclaimed
  Claimable,  \* observations it claims together
  Compiled,   \* for each gateway, GATEWAY_BLE_MAC_ALLOWLIST
  Texts,      \* the allowlists an operator enters
  MaxHeard    \* bound: advertisements in a behaviour

ASSUME EndToEndAssumption ==
  /\ Capacity \in Nat \ {0} /\ Claimable \in Nat \ {0} /\ MaxHeard \in Nat
  /\ \A text \in Texts : ToSet(text) # NoFile

VARIABLES
  boot,     \* for each gateway, how its last boot went
  file,     \* for each gateway, the allowlist saved in its file system
  allowed,  \* for each gateway, the one it was started with
  held,     \* for each gateway, its observations [mac, number], oldest first
  claimed,  \* for each gateway, how many of them are being delivered
  taken,    \* for each gateway, whether the server has those
  inbox,    \* what the server has yet to hand to the listener
  path,     \* the number of the reading each device's paths show
  heard,    \* how many advertisements there were (history)
  last,     \* the last reading of each device that a gateway queued (history)
  newest,   \* the newest reading ever published for each device (history)
  wanted,   \* for each gateway, the addresses in the last list its operator entered
            \* without a mistake, and those when it was last booted (history)
  discarded \* whether an observation was ever written off, or lost with the power
            \* (history)

queues == <<held, claimed, taken>>
firmwareVars == <<boot, file, allowed, wanted>>
gatewayVars == <<queues, firmwareVars>>
serverVars == <<inbox, path, newest>>
vars == <<pluginVars, clock, gatewayVars, serverVars, heard, last, discarded>>

Init ==
  /\ ConsumerInit
  /\ clock = 0
  /\ boot \in [Gateways -> BootOutcomes]
  /\ file = [g \in Gateways |-> NoFile]
  /\ allowed = [g \in Gateways |-> Loaded(Compiled[g], NoFile)]
  /\ wanted = [g \in Gateways |-> [now |-> allowed[g], booted |-> allowed[g]]]
  /\ held = [g \in Gateways |-> <<>>]
  /\ claimed = [g \in Gateways |-> 0]
  /\ taken = [g \in Gateways |-> FALSE]
  /\ inbox = <<>>
  /\ path = [id \in Ids |-> 0]
  /\ heard = 0
  /\ last = [id \in Ids |-> 0]
  /\ newest = [id \in Ids |-> 0]
  /\ discarded = FALSE

----------------------------------------------------------------------------
(* The firmware.                                                           *)

\* The operator enters an allowlist; it is saved unless it is refused.  from_json()
\* and the save() after it are one step: what it changes before is not looked at
\* until the next boot, and is gone then if there was no save.
Edit(g, text) ==
  /\ file' = [file EXCEPT ![g] = FromJson(@, text)]
  /\ wanted' = [wanted EXCEPT ![g].now =
                  IF NotAMac \in Range(text) THEN @ ELSE Range(text)]
  /\ UNCHANGED <<pluginVars, clock, queues, boot, allowed, serverVars, heard, last,
                 discarded>>

\* Power fails, or the operator restarts the gateway.
Reboot(g) ==
  /\ \E outcome \in BootOutcomes : boot' = [boot EXCEPT ![g] = outcome]
  /\ allowed' = [allowed EXCEPT ![g] = Loaded(Compiled[g], file[g])]
  /\ wanted' = [wanted EXCEPT ![g].booted = wanted[g].now]
  /\ held' = [held EXCEPT ![g] = <<>>]
  /\ claimed' = [claimed EXCEPT ![g] = 0]
  /\ taken' = [taken EXCEPT ![g] = FALSE]
  /\ discarded' = (discarded \/ held[g] # <<>>)
  /\ UNCHANGED <<pluginVars, clock, file, serverVars, heard, last>>

----------------------------------------------------------------------------
(* The gateways at work.                                                   *)

\* Fault: a full gateway refuses the new observation.
Keep_DropsNewest(g, o) ==
  IF Len(held[g]) - claimed[g] < Capacity THEN Append(held[g], o) ELSE held[g]

\* Fault: the new observation is put at the wrong end.
Keep_PushesFront(g, o) ==
  LET claim == SubSeq(held[g], 1, claimed[g])
      rest == SubSeq(held[g], claimed[g] + 1, Len(held[g]))
  IN claim \o <<o>> \o (IF Len(rest) < Capacity THEN rest ELSE Tail(rest))

\* What g holds after it has heard o: the oldest unclaimed observation makes room.
Keep(g, o) ==
  LET claim == SubSeq(held[g], 1, claimed[g])
      rest == SubSeq(held[g], claimed[g] + 1, Len(held[g]))
  IN claim \o Append(IF Len(rest) < Capacity THEN rest ELSE Tail(rest), o)

\* Whether the plugin can read what the device with this address says.
CanRead(mac) == Matching(mac) # {} /\ Device(mac).key # Malformed

\* A device advertises a reading; some gateways hear it, and keep it unless it is
\* filtered, or the callback gives up on the mutex: at the late ones.
Hear(mac, hearers, late) ==
  LET keepers == {g \in hearers \ late : boot[g].up /\ Allows(allowed[g], mac)}
  IN /\ heard < MaxHeard
     /\ heard' = heard + 1
     /\ held' = [g \in Gateways |->
                  IF g \in keepers THEN Keep(g, [mac |-> mac, number |-> heard'])
                                   ELSE held[g]]
     /\ last' = [id \in Ids |->
                  IF keepers # {} /\ CanRead(mac) /\ DeviceOf(mac) = id
                    THEN heard' ELSE last[id]]
     /\ UNCHANGED <<pluginVars, clock, claimed, taken, firmwareVars, serverVars,
                    discarded>>

Claim(g) ==
  /\ claimed[g] = 0 /\ held[g] # <<>>
  /\ claimed' = [claimed EXCEPT ![g] = Min({Len(held[g]), Claimable})]
  /\ UNCHANGED <<pluginVars, clock, held, taken, firmwareVars, serverVars, heard, last,
                 discarded>>

\* The server takes the POST; the answer may be lost, and the POST repeated.
Arrive(g) ==
  /\ claimed[g] > 0 /\ inbox = <<>>
  /\ inbox' = SubSeq(held[g], 1, claimed[g])
  /\ taken' = [taken EXCEPT ![g] = TRUE]
  /\ UNCHANGED <<pluginVars, clock, held, claimed, firmwareVars, path, newest, heard,
                 last, discarded>>

Release(g) ==
  /\ claimed[g] > 0
  /\ held' = [held EXCEPT ![g] = SubSeq(@, claimed[g] + 1, Len(@))]
  /\ claimed' = [claimed EXCEPT ![g] = 0]
  /\ taken' = [taken EXCEPT ![g] = FALSE]
  /\ UNCHANGED <<pluginVars, clock, firmwareVars, serverVars, heard, last>>

\* The answer is 2xx and the batch acknowledged.
Settle(g) == taken[g] /\ Release(g) /\ UNCHANGED discarded

\* The answer is 400 and the batch dropped.
WriteOff(g) == ~taken[g] /\ Release(g) /\ discarded' = TRUE

----------------------------------------------------------------------------
\* The advertisement of an observation, under the device's own key; Malformed stands
\* for that key when the plugin has none to compare it with.
Readout(o) ==
  InstantReadout(IF CanRead(o.mac) THEN Device(o.mac).key ELSE Malformed, o.number)

\* The server hands the next advertisement over; without a listener it is gone.
\* A published reading is what the paths of the device show from then on.
HandOver ==
  /\ inbox # <<>>
  /\ inbox' = Tail(inbox)
  /\ \/ /\ OnAdvertisement(Head(inbox).mac, Readout(Head(inbox)))
        /\ IF delta' = delta
             THEN UNCHANGED <<path, newest>>
             ELSE /\ path' = [path EXCEPT ![delta'.id] = delta'.reading.number]
                  /\ newest' = [newest EXCEPT
                                  ![delta'.id] = Max({@, delta'.reading.number})]
     \/ /\ ~subscribed
        /\ UNCHANGED <<pluginVars, clock, path, newest>>
  /\ UNCHANGED <<gatewayVars, heard, last, discarded>>

StartPlugin ==
  /\ inbox = <<>>
  /\ \E bleApi \in BOOLEAN : Start(bleApi)
  /\ UNCHANGED <<gatewayVars, serverVars, heard, last, discarded>>

StopPlugin ==
  /\ inbox = <<>>
  /\ Stop
  /\ UNCHANGED <<gatewayVars, serverVars, heard, last, discarded>>

Next ==
  \/ \E mac \in Macs, hearers \in SUBSET Gateways \ {{}} :
       \E late \in SUBSET hearers : Hear(mac, hearers, late)
  \/ \E g \in Gateways : Reboot(g) \/ \E text \in Texts : Edit(g, text)
  \/ \E g \in Gateways : Claim(g) \/ Arrive(g) \/ Settle(g) \/ WriteOff(g)
  \/ HandOver
  \/ StartPlugin \/ StopPlugin

Spec == Init /\ [][Next]_vars

\* A gateway that keeps running and connected delivers and settles what it holds
\* (DrainsAfterOutage of AdvertisementGateway), and the server hands over.
FairSpec ==
  /\ Spec
  /\ WF_vars(HandOver)
  /\ \A g \in Gateways :
       /\ WF_vars(Claim(g)) /\ SF_vars(taken[g] = FALSE /\ Arrive(g))
       /\ WF_vars(Settle(g))

----------------------------------------------------------------------------
\* When the server has handed over all it took, the paths of a device show the
\* newest reading ever published for it: a batch delivered again after a lost
\* answer, with readings older than those shown, leaves no older value behind.
\* The API document calls the repeated updates naturally idempotent at the path
\* level.
SettledIsNewest == inbox = <<>> => path = newest

\* However long the outage, however many devices compete for the one queue, however
\* often a batch is repeated and whichever advertisements are lost while the callback
\* waits for the mutex: what a gateway queued of the last Capacity advertisements gets
\* through.  A device that falls silent is then shown with the last of its readings
\* that was queued, unless Capacity advertisements came after it; provided that the
\* plugin ran meanwhile, no batch was rejected as invalid, and no gateway lost its
\* power with observations in its queue.
LatestReadingsShown ==
  []((heard > 0 => subscribed) /\ ~discarded)
    => <>[](\A id \in Ids : last[id] > heard - Capacity => path[id] = last[id])

\* A gateway forwards only the devices in the list its operator wanted when it was
\* last started, everybody if that list was empty: through edits, refused edits and
\* power failures.
AllowlistInForce ==
  \A g \in Gateways : \A i \in DOMAIN held[g] : Allows(wanted[g].booted, held[g][i].mac)

\* Whatever state it finds the Bluetooth in and whichever call fails, a gateway that
\* shows no error has started, from a Bluetooth that was reset, and one that has not
\* started shows an error.
RunningOrErrorShown ==
  \A g \in Gateways : IF boot[g].error THEN ~boot[g].up ELSE boot[g].up /\ boot[g].clean

=============================================================================
