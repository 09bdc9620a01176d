--------------------------- MODULE RecordDecoding ---------------------------
(***************************************************************************)
(* Records on their way to the decoders of VictronRecords: whole and cut   *)
(* short, with every reading there or missing, with any one bit changed.   *)
(* A behaviour is one record and ends when nothing is left of it.          *)
(***************************************************************************)
EXTENDS VictronRecords

VARIABLES
  type,    \* the record type of the device
  data,    \* the bits of its record
  changed  \* the bit that was changed, or 0

vars == <<type, data, changed>>

Fields == FieldsOf(type)
HasNA(f) == f.kind \in {"unsigned", "signed", "allOnes", "cell"}

\* The bits of a number.
BitOf(n, i) == (n \div 2^i) % 2

\* A record in which no reading is available.
Unavailable(fields) ==
  [b \in 1..8 * MaxBytes |->
    IF \E f \in fields : /\ f.kind # "flags"
                         /\ b \in f.start + 1..f.start + f.width
                         /\ BitOf(f.na, b - f.start - 1) = 1
      THEN 1 ELSE 0]

\* All zeros, all ones, one as often as the other, and nothing available.
Samples ==
  {[b \in 1..8 * MaxBytes |-> 0], [b \in 1..8 * MaxBytes |-> 1],
   [b \in 1..8 * MaxBytes |-> b % 2], Unavailable(Fields)}

Init == type \in DOMAIN Layouts /\ data \in Samples /\ changed = 0

IsWhole == changed = 0 /\ Len(data) = 8 * MaxBytes

ChangeBit(b) ==
  /\ IsWhole
  /\ data' = [data EXCEPT ![b] = 1 - @]
  /\ changed' = b
  /\ UNCHANGED type

CutShort ==
  /\ changed = 0 /\ data # <<>>
  /\ data' = SubSeq(data, 1, Len(data) - 8)
  /\ UNCHANGED <<type, changed>>

Next == (\E b \in 1..8 * MaxBytes : ChangeBit(b)) \/ CutShort

Spec == Init /\ [][Next]_vars

----------------------------------------------------------------------------
\* A reading is null exactly when the record is too short for it or its bits are
\* those of the number the specification reserves for "not available", signed or
\* not: no valid reading is lost and none is made up from the reserved number.
NotAvailableIsNull ==
  \A f \in Fields :
    HasNA(f) =>
      (Value(f, data) = <<>> <=>
         \/ f.start + f.width > Len(data)
         \/ \A i \in 1..f.width : data[f.start + i] = BitOf(f.na, i - 1))

\* One bit belongs to one reading: no decoder reads into the field beside it.
\* (What is read twice, a number and its name, starts at the same bit.)
OneReadingPerBit ==
  [][changed' # changed =>
       \A f, g \in {f \in Fields : Value(f, data') # Value(f, data)} :
         f.start = g.start]_vars

\* A record that arrives cut short gives up the readings it no longer has and
\* keeps the others as they are: none is made up from bits that are not there.
CutShortIsNull ==
  [][CutShort => \A f \in Fields :
       Value(f, data') # Value(f, data) => Value(f, data') = <<>>]_vars

=============================================================================
