--------------------------- MODULE VictronRecords ---------------------------
(***************************************************************************)
(* consumer-plugin/lib/victron.js: how a decrypted Instant Readout record  *)
(* becomes measurements.                                                   *)
(*                                                                         *)
(* A record is a string of bits.  Its decoder is a set of fields, each     *)
(* with its place, the way it is read and the number that says the device  *)
(* has no such reading.  The name of a state or an error stands for its    *)
(* number.                                                                 *)
(*                                                                         *)
(* The value of a field is <<>> for null and <<v>> otherwise, v a whole    *)
(* number of: 0.01 V, mA, W or VA, 0.001 %, 0.1 Ah, s, kJ, 0.01 K; 1 C.    *)
(***************************************************************************)
EXTENDS Integers, Sequences

CONSTANT MaxBytes  \* length of the longest record considered, 16

ASSUME RecordsAssumption == MaxBytes \in Nat

\* The bits that say nothing else read as zero + step * number.
Field(kind, name, start, width, na) ==
  [kind |-> kind, name |-> name, start |-> start, width |-> width, na |-> na,
   step |-> 1, zero |-> 0]

\* Without a number for "not available"; bit sets are kept as they are.
Flags(name, start, width) == Field("flags", name, start, width, 0)
Unsigned(name, start, width, na) == Field("unsigned", name, start, width, na)
Signed(name, start, na) == Field("signed", name, start, 16, na)
InSteps(n, field) == [field EXCEPT !.step = n]
Celsius(name, start) == [Unsigned(name, start, 7, \h7F) EXCEPT !.zero = -40]
StateAndName == { Flags("state", 0, 8), Unsigned("state_name", 0, 8, 255) }
ErrorAndName(start) ==
  { Flags("error", start, 8), Unsigned("error_name", start, 8, 255) }

----------------------------------------------------------------------------
(* The layouts, one per decoder.                                           *)

SolarCharger == {
  Unsigned("charge_state", 0, 8, 255), Unsigned("charger_error", 8, 8, 255),
  Signed("battery_voltage_v", 16, \h7FFF),
  InSteps(100, Signed("battery_charging_current_a", 32, \h7FFF)),
  InSteps(36, Unsigned("yield_today_j", 48, 16, \hFFFF)),
  Unsigned("solar_power_w", 64, 16, \hFFFF),
  InSteps(100, Unsigned("external_device_load_a", 80, 9, \h1FF)) }

\* The aux field and its selector behind it are read as one field of 18 bits.
BatteryMonitor == {
  InSteps(60, Unsigned("time_to_go_s", 0, 16, \hFFFF)),
  Signed("battery_voltage_v", 16, \h7FFF),
  Flags("alarm_reason", 32, 16), Field("aux", "aux", 48, 18, \h7FFF),
  Field("allOnes", "battery_current_a", 66, 22, \h3FFFFF),
  InSteps(-1, Unsigned("consumed_ah", 88, 20, \hFFFFF)),
  InSteps(100, Unsigned("state_of_charge_percent", 108, 10, \h3FF)) }

Inverter == StateAndName \union {
  Flags("alarm_reason", 8, 16), Signed("battery_voltage_v", 24, \h7FFF),
  Unsigned("ac_apparent_power_va", 40, 16, \hFFFF),
  Unsigned("ac_voltage_v", 56, 15, \h7FFF),
  InSteps(100, Unsigned("ac_current_a", 71, 11, \h7FF)) }

DcDcConverter == {
  Unsigned("state", 0, 8, 255), Unsigned("state_name", 0, 8, 255),
  Unsigned("error", 8, 8, 255), Unsigned("error_name", 8, 8, 255),
  Unsigned("input_voltage_v", 16, 16, \hFFFF),
  Signed("output_voltage_v", 32, \h7FFF), Flags("off_reason", 48, 32) }

Cells == << "cell_1", "cell_2", "cell_3", "cell_4",
            "cell_5", "cell_6", "cell_7", "cell_8" >>

SmartLithium ==
  { Field("cell", Cells[i], 48 + (i - 1) * 7, 7, \h7F) : i \in 1..8 } \union {
  Flags("bms_flags", 0, 32), Flags("error_flags", 32, 16),
  Unsigned("battery_voltage_v", 104, 12, \hFFF),
  Unsigned("balancer_status", 116, 4, 15), Celsius("temperature_c", 120) }

InverterRs == StateAndName \union ErrorAndName(8) \union {
  Signed("battery_voltage_v", 16, \h7FFF),
  InSteps(100, Signed("battery_current_a", 32, \h7FFF)),
  Unsigned("solar_power_w", 48, 16, \hFFFF),
  InSteps(36, Unsigned("yield_today_j", 64, 16, \hFFFF)),
  Signed("ac_out_power_w", 80, \h7FFF) }

BatteryProtect == StateAndName \union ErrorAndName(16) \union {
  Unsigned("output_state", 8, 8, 255),
  Flags("alarm_reason", 24, 16), Flags("warning_reason", 40, 16),
  Signed("input_voltage_v", 56, \h7FFF),
  Unsigned("output_voltage_v", 72, 16, \hFFFF), Flags("off_reason", 88, 32) }

LynxSmartBms == {
  Flags("error", 0, 8), InSteps(60, Unsigned("time_to_go_s", 8, 16, \hFFFF)),
  Signed("battery_voltage_v", 24, \h7FFF),
  InSteps(100, Signed("battery_current_a", 40, \h7FFF)),
  Flags("io_status", 56, 16), Flags("warnings_alarms", 72, 18),
  InSteps(100, Unsigned("state_of_charge_percent", 90, 10, \h3FF)),
  InSteps(-1, Unsigned("consumed_ah", 100, 20, \hFFFFF)),
  Celsius("temperature_c", 120) }

MultiRsWith(voltageWidth) == StateAndName \union ErrorAndName(8) \union {
  InSteps(100, Signed("battery_current_a", 16, \h7FFF)),
  Unsigned("battery_voltage_v", 32, voltageWidth, \h3FFF),
  Flags("active_ac_input", 46, 2), Signed("active_ac_power_w", 48, \h7FFF),
  Signed("ac_out_power_w", 64, \h7FFF),
  Unsigned("solar_power_w", 80, 16, \hFFFF),
  InSteps(36, Unsigned("yield_today_j", 96, 16, \hFFFF)) }

\* Fault: the battery voltage is given a whole 16 bits.
MultiRs_WideVoltage == MultiRsWith(16)

MultiRs == MultiRsWith(14)

VeBus == StateAndName \union {
  Unsigned("ve_bus_error", 8, 8, 255),
  InSteps(100, Signed("battery_current_a", 16, \h7FFF)),
  Unsigned("battery_voltage_v", 32, 14, \h3FFF), Flags("active_ac_input", 46, 2),
  Field("signed", "active_ac_power_w", 48, 19, \h3FFFF),
  Field("signed", "ac_out_power_w", 67, 19, \h3FFFF),
  Unsigned("alarm", 86, 2, 3), Celsius("temperature_c", 88),
  InSteps(1000, Unsigned("state_of_charge_percent", 95, 7, \h7F)) }

\* No mid-point voltage in this record: selector 1 means nothing.
DcEnergyMeter == {
  Flags("bmv_monitor_mode", 0, 16), Signed("battery_voltage_v", 16, \h7FFF),
  Flags("alarm_reason", 32, 16), Field("auxNoMid", "aux", 48, 18, \h7FFF),
  Field("allOnes", "battery_current_a", 66, 22, \h3FFFFF) }

OrionXs == StateAndName \union ErrorAndName(8) \union {
  Signed("output_voltage_v", 16, \h7FFF),
  InSteps(100, Signed("output_current_a", 32, \h7FFF)),
  Unsigned("input_voltage_v", 48, 16, \hFFFF),
  InSteps(100, Unsigned("input_current_a", 64, 16, \hFFFF)),
  Flags("off_reason", 80, 32) }

\* RECORD_DECODERS
Layouts ==
  [type \in {1, 2, 3, 4, 5, 6, 9, 10, 11, 12, 13, 15} |->
    CASE type = 1 -> SolarCharger    [] type = 2 -> BatteryMonitor
      [] type = 3 -> Inverter        [] type = 4 -> DcDcConverter
      [] type = 5 -> SmartLithium    [] type = 6 -> InverterRs
      [] type = 9 -> BatteryProtect  [] type = 10 -> LynxSmartBms
      [] type = 11 -> MultiRs        [] type = 12 -> VeBus
      [] type = 13 -> DcEnergyMeter  [] type = 15 -> OrionXs]
FieldsOf(type) == Layouts[type]

----------------------------------------------------------------------------
(* Reading a field.                                                        *)

\* The number of some bits, the least significant first; the last counts as top, so
\* that the number is negative when top is.
NumberWith(bits, top) ==
  LET from[i \in 1..Len(bits)] ==
        IF i = Len(bits) THEN top ELSE bits[i] + 2 * from[i + 1]
  IN from[1]
Number(bits) == NumberWith(bits, bits[Len(bits)])
SignedNumber(bits) == NumberWith(bits, -bits[Len(bits)])

\* valueUnless(), up to its conversion
ValueUnless(n, na) == IF n = na THEN <<>> ELSE <<n>>

\* Fault: no test of the length: a byte that is not there reads as zeros.
ReadBits_PastTheEnd(data, start, width) ==
  [i \in 1..width |-> IF start + i <= Len(data) THEN data[start + i] ELSE 0]

\* readBits() before it makes a number of them; <<>> when the record is too short.
ReadBits(data, start, width) ==
  IF start + width > Len(data) THEN <<>>
                               ELSE SubSeq(data, start + 1, start + width)

\* decodeAuxInput(): the selector says what the field before it means.
AuxInput(bits, midVoltage) ==
  LET raw == SubSeq(bits, 1, 16)
      selector == Number(SubSeq(bits, 17, 18))
  IN CASE selector = 0 -> << 0, ValueUnless(SignedNumber(raw), \h7FFF) >>
       [] selector = 1 /\ midVoltage -> << 1, ValueUnless(Number(raw), \hFFFF) >>
       [] selector = 1 /\ ~midVoltage -> <<>>
       [] selector = 2 -> << 2, ValueUnless(Number(raw), \hFFFF) >>
       [] selector = 3 -> << 3, <<>> >>

\* decodeCellVoltage(): the lowest and the highest number are bounds.
CellVoltage(n) ==
  CASE n = \h7F -> <<>>
    [] n = 0 -> << "below", 0 >>
    [] n = 126 -> << "above", 0 >>
    [] OTHER -> << "exact", n >>

\* Fault: the all-ones field is sign-extended before the comparison.
SignedUnlessAllOnes_Extended(bits, na) == ValueUnless(SignedNumber(bits), na)

\* signedUnlessAllOnes()
SignedUnlessAllOnes(bits, na) ==
  IF Number(bits) = na THEN <<>> ELSE << SignedNumber(bits) >>

Value(f, data) ==
  LET bits == ReadBits(data, f.start, f.width)
      converted(v) == IF v = <<>> THEN <<>> ELSE << f.zero + f.step * v[1] >>
  IN IF bits = <<>> THEN <<>>
     ELSE CASE f.kind = "flags" -> << bits >>
            [] f.kind = "unsigned" -> converted(ValueUnless(Number(bits), f.na))
            [] f.kind = "signed" -> converted(ValueUnless(SignedNumber(bits), f.na))
            [] f.kind = "allOnes" -> SignedUnlessAllOnes(bits, f.na)
            [] f.kind = "cell" -> CellVoltage(Number(bits))
            [] f.kind = "aux" -> AuxInput(bits, TRUE)
            [] f.kind = "auxNoMid" -> AuxInput(bits, FALSE)

\* The readings that share the aux field, and what it holds for each.
AuxNames == << "aux_voltage_v", "mid_voltage_v", "temperature_k" >>
AuxReading(name, aux) ==
  IF aux = <<>> THEN <<>>
  ELSE IF name = "aux_input" THEN << aux[1] >>
  ELSE IF aux[1] < 3 /\ AuxNames[aux[1] + 1] = name THEN aux[2] ELSE <<>>

\* measurements[name], null where the decoder gives no such reading.
Measurement(type, data, name) ==
  LET named == {f \in FieldsOf(type) : f.name = name}
      aux == {f \in FieldsOf(type) : f.name = "aux"}
  IN IF named # {} THEN Value(CHOOSE f \in named : TRUE, data)
     ELSE IF aux # {} THEN AuxReading(name, Value(CHOOSE f \in aux : TRUE, data))
     ELSE <<>>

=============================================================================
