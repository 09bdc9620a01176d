---------------------------- MODULE FirmwareBoot ----------------------------
(***************************************************************************)
(* What setup() of firmware/src/main.cpp decides before the gateway runs:  *)
(* the Bluetooth it starts from, the allowlist it is given                 *)
(* (gateway-library/src/ble_allowlist_config.cpp), and what it tells of a  *)
(* start that failed.                                                      *)
(*                                                                         *)
(* A text of the operator is the sequence of what stands between its       *)
(* commas: an address, however it is spelled, or NotAMac.                  *)
(***************************************************************************)
EXTENDS SequencesExt

CONSTANTS
  NotAMac,  \* what normalize_mac_address() refuses
  NoFile    \* no allowlist was ever saved

----------------------------------------------------------------------------
(* BleAllowlistConfig.                                                     *)

\* Fault: what is no address is passed over.
Normalize_SkipsBad(text) == [ok |-> TRUE, value |-> ToSet(text) \ {NotAMac}]

\* normalize(): one bad address refuses the whole text.  The order of the addresses
\* and their repetitions are gone, as they are for is_allowed().
Normalize(text) ==
  IF NotAMac \in ToSet(text) THEN [ok |-> FALSE, value |-> {}]
                             ELSE [ok |-> TRUE, value |-> ToSet(text)]

\* from_json(): a text that is refused changes nothing.
FromJson(value, text) ==
  IF Normalize(text).ok THEN Normalize(text).value ELSE value

\* The constructor: the compiled list, or everybody when it is refused; then load().
Loaded(compiled, file) ==
  IF file = NoFile THEN FromJson({}, compiled) ELSE file

\* No list allows everybody.
Allows(value, mac) == value = {} \/ mac \in value

----------------------------------------------------------------------------
(* reset_preinitialized_bluetooth().                                       *)

\* Its calls of the driver: of which part, in which state, leading to which.
Calls == <<
  [part |-> "host", from |-> "enabled", to |-> "initialized"],
  [part |-> "host", from |-> "initialized", to |-> "uninitialized"],
  [part |-> "controller", from |-> "enabled", to |-> "initialized"],
  [part |-> "controller", from |-> "initialized", to |-> "idle"] >>

Normal == [host |-> "uninitialized", controller |-> "idle"]
BluetoothStates == [host: {"uninitialized", "initialized", "enabled"},
                    controller: {"idle", "initialized", "enabled"}]

\* Call i is made if its part was read to be in the state it is for; when it fails
\* the reset is over.
Called(after, i, read, failing) ==
  LET call == Calls[i]
  IN IF ~after.ok \/ read[call.part] # call.from THEN after
     ELSE IF i \in failing THEN [after EXCEPT !.ok = FALSE]
     ELSE [after EXCEPT !.bluetooth[call.part] = call.to]

\* Fault: the states are read once, before the calls.
Reset_ReadsOnce(bluetooth, failing) ==
  LET next(after, i) == Called(after, i, bluetooth, failing)
  IN next(next(next(next([ok |-> TRUE, bluetooth |-> bluetooth], 1), 2), 3), 4)

\* The states are read anew before each call.
Reset(bluetooth, failing) ==
  LET next(after, i) == Called(after, i, after.bluetooth, failing)
  IN next(next(next(next([ok |-> TRUE, bluetooth |-> bluetooth], 1), 2), 3), 4)

\* setup(): the outcome of a boot, with the Bluetooth it found, the calls that fail, a
\* controller that is in the end idle or not, and a start() that succeeds or not.
\* A reset that failed leaves no BLE, and start() then fails too.
BootOutcome(bluetooth, failing, idles, starts) ==
  LET reset == Reset(bluetooth, failing)
      ble == reset.ok /\ idles /\ reset.bluetooth.controller = "idle"
  IN [up |-> ble /\ starts,
      error |-> ~ble \/ ~starts,
      clean |-> reset.bluetooth = Normal]

BootOutcomes ==
  {BootOutcome(bluetooth, failing, idles, starts) :
     bluetooth \in BluetoothStates, failing \in SUBSET (1..Len(Calls)),
     idles \in BOOLEAN, starts \in BOOLEAN}

=============================================================================
