----------------------------- MODULE StatusPage -----------------------------
(***************************************************************************)
(* consumer-plugin/public/app.js: the measurements the web application     *)
(* shows of a record, in measurementFields().  A row is the names it looks *)
(* at, the first that is not null; formats are left out.                   *)
(***************************************************************************)
EXTENDS VictronRecords, FiniteSetsExt

Plain(names) == {<<name>> : name \in names}
State == << "state_name", "state" >>
Error == << "error_name", "error" >>

BatteryRows == Plain({"battery_voltage_v", "battery_current_a",
  "state_of_charge_percent", "time_to_go_s", "consumed_ah", "aux_input",
  "aux_voltage_v", "mid_voltage_v", "temperature_k", "alarm_reason"})
MultiRows == {State, << "error_name", "ve_bus_error" >>} \union Plain({
  "battery_voltage_v", "battery_current_a", "active_ac_input",
  "active_ac_power_w", "ac_out_power_w", "solar_power_w", "yield_today_j",
  "state_of_charge_percent", "temperature_c", "alarm"})

\* Fault: a name from another record.
SolarRows_Misnamed == Plain({"charge_state", "charger_error",
  "battery_voltage_v", "battery_current_a", "solar_power_w", "yield_today_j",
  "external_device_load_a"})

SolarRows == Plain({"charge_state", "charger_error", "battery_voltage_v",
  "battery_charging_current_a", "solar_power_w", "yield_today_j",
  "external_device_load_a"})

\* measurementFields()
MeasurementFields(type) ==
  CASE type = 1 -> SolarRows
    [] type \in {2, 13} -> BatteryRows
    [] type = 3 -> {State} \union Plain({"battery_voltage_v", "ac_voltage_v",
         "ac_current_a", "ac_apparent_power_va", "alarm_reason"})
    [] type = 4 -> {State, Error} \union Plain({"input_voltage_v",
         "output_voltage_v", "off_reason"})
    [] type = 5 -> {Cells} \union Plain({"battery_voltage_v", "temperature_c",
         "balancer_status", "bms_flags", "error_flags"})
    [] type = 6 -> {State, Error} \union Plain({"battery_voltage_v",
         "battery_current_a", "solar_power_w", "yield_today_j",
         "ac_out_power_w"})
    [] type = 9 -> {State, Error} \union Plain({"output_state",
         "input_voltage_v", "output_voltage_v", "alarm_reason",
         "warning_reason", "off_reason"})
    [] type = 10 -> Plain({"battery_voltage_v", "battery_current_a",
         "state_of_charge_percent", "temperature_c", "time_to_go_s",
         "consumed_ah", "error", "io_status", "warnings_alarms"})
    [] type \in {11, 12} -> MultiRows
    [] type = 15 -> {State, Error} \union Plain({"input_voltage_v",
         "input_current_a", "output_voltage_v", "output_current_a",
         "off_reason"})
    [] OTHER -> {}

\* The text of a row: a ?? b
RowValue(row, type, data) ==
  LET given == {i \in DOMAIN row : Measurement(type, data, row[i]) # <<>>}
  IN IF given = {} THEN <<>> ELSE Measurement(type, data, row[Min(given)])

=============================================================================
