--------------------------- MODULE ConsumerOutputs ---------------------------
(***************************************************************************)
(* One device, from its records to what people see: the consumer keeps the *)
(* last record for status(), the listener publishes its measurements, the  *)
(* Signal K server keeps the last value of each path, and a browser polls  *)
(* the status.                                                             *)
(*                                                                         *)
(* refresh() of app.js is called every three seconds whether or not the    *)
(* one before has its answer: requests overlap, and are answered and       *)
(* rendered in any order.  Before the browser polls, the device's record   *)
(* is examined bit by bit (RecordDecoding).                                *)
(***************************************************************************)
EXTENDS RecordDecoding, SignalKPaths, StatusPage

CONSTANTS
  Requests,  \* the fetches of the browser under way together
  Polled,    \* the record types of the devices looked at in a browser
  Empty      \* the status without a record of the device

VARIABLES
  secondaryBattery,  \* whether the device has a secondary battery configured
  status,     \* the record in the consumer's state of the device
  paths,      \* the Signal K server: the last value of each path
  reachable,  \* whether the browser gets through to the server
  fetches,    \* for each request, its phase and its answer
  page,       \* what render() last showed of the device
  live        \* whether the connection label says "Live"

serverVars == <<secondaryBattery, status, paths>>
browserVars == <<reachable, fetches, page, live>>
outputVars == <<vars, serverVars, browserVars>>

AllPaths == {SecondaryVoltage.path} \union
            UNION {{c.path : c \in PathBuilders[t]} : t \in DOMAIN PathBuilders}

NoFetch == [phase |-> "none", answer |-> Empty]

\* The listener with a record it can decode: the consumer's state takes it, and the
\* server's paths what measurementDelta() has of it.
Accepts(record, old) ==
  LET delta == MeasurementDelta(type, record, secondaryBattery)
  IN /\ status' = record
     /\ paths' = [path \in AllPaths |-> IF path \in DOMAIN delta THEN delta[path]
                                                                 ELSE old[path]]

OutputsInit ==
  /\ Init
  /\ secondaryBattery \in {FALSE, type = 2}  \* no other record looks at it
  /\ status = Empty
  /\ paths = [path \in AllPaths |-> <<>>]
  /\ reachable = TRUE
  /\ fetches = [r \in Requests |-> NoFetch]
  /\ page = Empty
  /\ live = FALSE

----------------------------------------------------------------------------
(* The device and the plugin.                                              *)

\* The listener gets the next record of the device.
Advertise ==
  /\ \E record \in (IF IsWhole THEN Samples ELSE {data}) \ {status} :
       data' = record /\ Accepts(record, paths)
  /\ UNCHANGED <<type, changed, secondaryBattery, browserVars>>

\* Its record changes bit by bit, before there is a status to poll.
Examine ==
  /\ status = Empty
  /\ browserVars = <<TRUE, [r \in Requests |-> NoFetch], Empty, FALSE>>
  /\ Next
  /\ UNCHANGED <<serverVars, browserVars>>

\* The plugin is started anew: the consumer forgets, the server does not.
Restart ==
  /\ status # Empty /\ IsWhole
  /\ status' = Empty
  /\ UNCHANGED <<vars, secondaryBattery, paths, browserVars>>

----------------------------------------------------------------------------
(* The browser.                                                            *)

IsPolled == IsWhole /\ type \in Polled

Reach ==
  /\ IsPolled
  /\ reachable' = ~reachable
  /\ UNCHANGED <<vars, serverVars, fetches, page, live>>

FetchStep(r, from, to) ==
  /\ fetches[r].phase = from
  /\ fetches' = [fetches EXCEPT ![r] = to]
  /\ UNCHANGED <<vars, serverVars, reachable>>

\* refresh(), called by the timer, up to its fetch().
Refresh(r) ==
  /\ IsPolled
  /\ FetchStep(r, "none", [NoFetch EXCEPT !.phase = "sent"])
  /\ UNCHANGED <<page, live>>

\* GET /status is answered, if it arrives.
Answer(r) ==
  /\ FetchStep(r, "sent", IF reachable THEN [phase |-> "answered", answer |-> status]
                                       ELSE [NoFetch EXCEPT !.phase = "failed"])
  /\ UNCHANGED <<page, live>>

\* render(), whichever request it is that was answered.
Render(r) ==
  /\ FetchStep(r, "answered", NoFetch)
  /\ page' = fetches[r].answer
  /\ live' = TRUE

\* Fault: the next call is set up by the one before, and only when that went well.
GoOffline_NoNextCall(r) ==
  /\ FetchStep(r, "failed", [NoFetch EXCEPT !.phase = "stopped"])
  /\ live' = FALSE
  /\ UNCHANGED page

\* The catch of refresh(), also when an answer breaks off: what is shown stays.
GoOffline(r) ==
  /\ \/ FetchStep(r, "failed", NoFetch)
     \/ ~reachable /\ FetchStep(r, "answered", NoFetch)
  /\ live' = FALSE
  /\ UNCHANGED page

OutputsNext ==
  \/ Advertise \/ Examine \/ Restart \/ Reach
  \/ \E r \in Requests : Refresh(r) \/ Answer(r) \/ Render(r) \/ GoOffline(r)

OutputsSpec == OutputsInit /\ [][OutputsNext]_outputVars

\* The timer fires, and every fetch ends.
OutputsFairSpec ==
  /\ OutputsSpec
  /\ \A r \in Requests :
       WF_outputVars(Refresh(r)) /\ WF_outputVars(Answer(r) \/ Render(r) \/ GoOffline(r))

----------------------------------------------------------------------------
ModePaths == {"solar.chargingMode", "chargers.chargingMode"}

\* What a reading is in Signal K's units, told from what is read and where it goes: 1 C
\* and 0.01 K, 0.1 Ah consumed and C discharged, 0.001 % and thousandths.
Means(path, name, reading, value) ==
  \/ name = "temperature_c" /\ value = 100 * reading + 27315
  \/ name = "consumed_ah" /\ value = -360 * reading
  \/ name = "state_of_charge_percent" /\ 100 * value = reading
  \/ /\ name \notin {"temperature_c", "consumed_ah", "state_of_charge_percent"}
     /\ value = IF path \in ModePaths THEN ChargingMode(reading) ELSE reading

\* What Signal K has on a path means what the status has, whichever builder put it
\* there, unless the record shown there has no such reading: then, and only then, the
\* path keeps an older value.  (A reading that becomes unavailable is left out of the
\* update, never cleared; a reading of zero is one.)
PathsAgreeWithStatus ==
  status # Empty =>
    \A c \in Candidates(type, status, secondaryBattery) :
      LET reading == Measurement(type, status, c.name)
          shown == paths[c.path]
      IN reading # <<>> => shown # <<>> /\ Means(c.path, c.name, reading[1], shown[1])

\* Whatever a record says, the values are such as Signal K defines them: kelvins and
\* discharged coulombs are not negative, a state of charge is a ratio, up to what the
\* ten bits of a record can say (102.2 %), and a charging mode is one of its words.
InSignalKRange ==
  /\ LET charge == paths["batteries.capacity.stateOfCharge"]
     IN charge # <<>> => 0 <= charge[1] /\ charge[1] <= 1022
  /\ \A path \in {"batteries.temperature", "batteries.capacity.dischargeSinceFull"} :
       paths[path] # <<>> => paths[path][1] >= 0
  /\ \A path \in ModePaths :
       paths[path] # <<>> =>
         paths[path][1] \in {"bulk", "acceptance", "overcharge", "float",
                            "equalize", "unknown", "other"}

Names(t) == {f.name : f \in FieldsOf(t)}
            \union (IF "aux" \in {f.name : f \in FieldsOf(t)}
                    THEN {"aux_input"} \union {AuxNames[i] : i \in 1..3} ELSE {})

NotShown(t) == {"aux", "bmv_monitor_mode"} \union (IF t = 11 THEN {"error"} ELSE {})

\* Three tables in three files agree on the names of the readings: each path is fed by
\* a reading its record has, and each reading is in a row of the web application (but
\* for the monitor mode of a DC meter and the number beside a Multi RS's error name).
\* A wrong name would be undefined: no error, no path and a dash.
EveryReadingHasAPlace ==
  /\ type \in DOMAIN PathBuilders =>
       \A c \in PathBuilders[type] : c.name \in Names(type)
  /\ \A name \in Names(type) \ NotShown(type) :
       Measurement(type, data, name) # <<>> =>
         \E row \in MeasurementFields(type) :
           /\ name \in {row[i] : i \in DOMAIN row}
           /\ RowValue(row, type, data) # <<>>

\* The state 0xFF means "not available" (NA) in every record that has a device
\* state: nothing is shown for it.
UnavailableStateNotShown ==
  Measurement(type, data, "state_name") = <<>>
    => RowValue(State, type, data) = <<>>

\* However requests overlap and answers overtake one another, once the device sends
\* the same record, the plugin runs on and the server can be reached, the page comes
\* to show that record and says it is live, for good.
PageCatchesUp ==
  <>[](reachable /\ IsPolled) /\ <>[][UNCHANGED <<data, status>>]_<<data, status>>
    => <>[](page = status /\ live)

=============================================================================
