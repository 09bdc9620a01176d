---------------------------- MODULE SignalKPaths ----------------------------
(***************************************************************************)
(* consumer-plugin/index.js: which measurements become which Signal K      *)
(* paths.  A path stands for electrical.<group>.<id>.<leaf> of the device. *)
(***************************************************************************)
EXTENDS VictronRecords

\* A candidate of a path builder: the path, the measurement and its conversion.
To(path, name) == [path |-> path, name |-> name, as |-> "is"]
ToAs(as, path, name) == [path |-> path, name |-> name, as |-> as]

\* What every charger and solar charger says of its state and error.
ChargerState(group, state, error) ==
  { ToAs("mode", group.mode, state), To(group.state, state), To(group.error, error) }
Solar == [mode |-> "solar.chargingMode", state |-> "solar.chargerState",
          error |-> "solar.chargerError"]
Charger == [mode |-> "chargers.chargingMode", state |-> "chargers.chargerState",
            error |-> "chargers.chargerError"]

solarChargerCandidates ==
  { To("solar.voltage", "battery_voltage_v"),
    To("solar.current", "battery_charging_current_a"),
    To("solar.panelPower", "solar_power_w"),
    To("solar.yieldToday", "yield_today_j"),
    To("solar.loadCurrent", "external_device_load_a") }
  \union ChargerState(Solar, "charge_state", "charger_error")

dcDcConverterCandidates ==
  { To("chargers.voltage", "output_voltage_v"),
    To("chargers.inputVoltage", "input_voltage_v") }
  \union ChargerState(Charger, "state_name", "error_name")

batteryMonitorCandidates ==
  { To("batteries.voltage", "battery_voltage_v"),
    To("batteries.current", "battery_current_a"),
    ToAs("ratio", "batteries.capacity.stateOfCharge", "state_of_charge_percent"),
    To("batteries.capacity.timeRemaining", "time_to_go_s"),
    ToAs("coulombs", "batteries.capacity.dischargeSinceFull", "consumed_ah"),
    To("batteries.temperature", "temperature_k") }

smartLithiumCandidates ==
  { To("batteries.voltage", "battery_voltage_v"),
    ToAs("kelvin", "batteries.temperature", "temperature_c") }

inverterCandidates ==
  { To("inverters.dc.voltage", "battery_voltage_v"),
    To("inverters.ac.lineNeutralVoltage", "ac_voltage_v"),
    To("inverters.ac.current", "ac_current_a"),
    To("inverters.ac.apparentPower", "ac_apparent_power_va") }

inverterRsCandidates ==
  { To("inverters.dc.voltage", "battery_voltage_v"),
    To("inverters.dc.current", "battery_current_a"),
    To("inverters.ac.realPower", "ac_out_power_w") }

lynxCandidates ==
  { To("batteries.voltage", "battery_voltage_v"),
    To("batteries.current", "battery_current_a"),
    ToAs("ratio", "batteries.capacity.stateOfCharge", "state_of_charge_percent"),
    To("batteries.capacity.timeRemaining", "time_to_go_s"),
    ToAs("kelvin", "batteries.temperature", "temperature_c") }

orionCandidates ==
  { To("chargers.voltage", "output_voltage_v"),
    To("chargers.current", "output_current_a"),
    To("chargers.inputVoltage", "input_voltage_v"),
    To("chargers.inputCurrent", "input_current_a") }
  \union ChargerState(Charger, "state_name", "error_name")

\* PATH_BUILDERS; the other records publish nothing.
PathBuilders ==
  [type \in {1, 2, 3, 4, 5, 6, 10, 15} |->
    CASE type = 1 -> solarChargerCandidates  [] type = 2 -> batteryMonitorCandidates
      [] type = 3 -> inverterCandidates      [] type = 4 -> dcDcConverterCandidates
      [] type = 5 -> smartLithiumCandidates  [] type = 6 -> inverterRsCandidates
      [] type = 10 -> lynxCandidates         [] type = 15 -> orionCandidates]

\* chargingMode(): what Signal K has a word for, and "other".
ChargingMode(state) ==
  CASE state = 3 -> "bulk"
    [] state \in {4, 246} -> "acceptance"
    [] state \in {5, 6} -> "float"
    [] state = 7 -> "equalize"
    [] OTHER -> "other"

\* Fault: the percentage goes through as it is.
Convert_Percent(as, n) ==
  CASE as \in {"is", "ratio"} -> n
    [] as = "mode" -> ChargingMode(n)
    [] as = "kelvin" -> 100 * n + 27315
    [] as = "coulombs" -> -360 * n

\* To 0.01 K, C and thousandths.
Convert(as, n) ==
  CASE as = "is" -> n
    [] as = "mode" -> ChargingMode(n)
    [] as = "kelvin" -> 100 * n + 27315
    [] as = "coulombs" -> -360 * n
    [] as = "ratio" -> n \div 100

\* Fault: zero is no value either.
IsPublished_Truthy(value) == value # <<>> /\ value # <<0>>

\* value != null
IsPublished(value) == value # <<>>

SecondaryVoltage == To("secondaryBattery.voltage", "aux_voltage_v")

\* The candidates of a record; the auxiliary voltage is one more when the device has
\* a secondary battery configured and measures it.
Candidates(type, data, secondaryBattery) ==
  (IF type \in DOMAIN PathBuilders THEN PathBuilders[type] ELSE {})
  \union
  (IF /\ type = 2 /\ secondaryBattery
      /\ Measurement(type, data, "aux_input") = <<0>>
     THEN {SecondaryVoltage} ELSE {})

\* measurementDelta(): the values of the update, a function on its paths.
MeasurementDelta(type, data, secondaryBattery) ==
  LET published == {c \in Candidates(type, data, secondaryBattery) :
                      IsPublished(Measurement(type, data, c.name))}
      of(path) == CHOOSE c \in published : c.path = path
  IN [path \in {c.path : c \in published} |->
        << Convert(of(path).as, Measurement(type, data, of(path).name)[1]) >>]

=============================================================================
