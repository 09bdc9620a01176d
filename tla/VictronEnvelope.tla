-------------------------- MODULE VictronEnvelope --------------------------
(***************************************************************************)
(* consumer-plugin/lib/victron.js, decodeEnvelope(): which advertisements  *)
(* are Instant Readout records, and which of those can be read.            *)
(*                                                                         *)
(* A key stands for its first byte, which is all that is checked of it; of *)
(* the record inside only its number matters here (VictronRecords has the  *)
(* rest).                                                                  *)
(***************************************************************************)
EXTENDS Integers

CONSTANTS
  Keys,      \* advertisement keys
  Malformed  \* a configured key that is not 32 hex characters

ASSUME EnvelopeAssumption == Malformed \notin Keys

Advertisements ==
  [company: BOOLEAN,  \* there is data under Victron's company identifier
   hex: BOOLEAN,      \* parseHex() accepts it
   instant: BOOLEAN,  \* it begins with 0x10; a beacon does not
   whole: BOOLEAN,    \* it has the nine bytes of an envelope
   key: Keys,         \* the key check
   known: BOOLEAN,    \* RECORD_DECODERS has its record type
   number: Nat]

InstantReadout(key, number) ==
  [company |-> TRUE, hex |-> TRUE, instant |-> TRUE, whole |-> TRUE,
   key |-> key, known |-> TRUE, number |-> number]

\* null, an exception, a record that measurements is null for, or a reading.
Nothing == [kind |-> "null", number |-> 0]
Exception == [kind |-> "exception", number |-> 0]
Undecoded == [kind |-> "undecoded", number |-> 0]
Reading(number) == [kind |-> "reading", number |-> number]

\* Fault: the length is checked before it is known what the payload is.
DecodeEnvelope_LengthFirst(a, key) ==
  IF ~a.company THEN Nothing
  ELSE IF ~a.hex \/ ~a.whole THEN Exception
  ELSE IF ~a.instant THEN Nothing
  ELSE IF key = Malformed \/ a.key # key THEN Exception
  ELSE IF a.known THEN Reading(a.number) ELSE Undecoded

\* normalizeKey(), of the key that is configured, and the key check fail alike.
DecodeEnvelope(a, key) ==
  IF ~a.company THEN Nothing
  ELSE IF ~a.hex THEN Exception
  ELSE IF ~a.instant THEN Nothing
  ELSE IF ~a.whole \/ key = Malformed \/ a.key # key THEN Exception
  ELSE IF a.known THEN Reading(a.number) ELSE Undecoded

=============================================================================
