-------------------------- MODULE MCConsumerPlugin --------------------------
(***************************************************************************)
(* Two devices, each entered twice: one a second time and disabled, the    *)
(* other with a second address and a key that is none; and one address     *)
(* nobody has configured.                                                  *)
(***************************************************************************)
EXTENDS ConsumerPlugin

CONSTANTS house, mppt, m1, m2, m3, m4

MCDevices ==
  <<[id |-> house, mac |-> m1, key |-> 2, enabled |-> FALSE],
    [id |-> house, mac |-> m1, key |-> 1, enabled |-> TRUE],
    [id |-> mppt, mac |-> m2, key |-> 2, enabled |-> TRUE],
    [id |-> mppt, mac |-> m3, key |-> Malformed, enabled |-> TRUE]>>

Readout == [company |-> TRUE, hex |-> TRUE, instant |-> TRUE, whole |-> TRUE,
            key |-> 1, known |-> TRUE]

\* Readings under both keys, and everything that is none.
MCHeard ==
  {Readout, [Readout EXCEPT !.key = 2], [Readout EXCEPT !.known = FALSE],
   [Readout EXCEPT !.whole = FALSE], [Readout EXCEPT !.hex = FALSE],
   [Readout EXCEPT !.instant = FALSE, !.whole = FALSE],
   [Readout EXCEPT !.company = FALSE]}

\* The wall clock is set back past the timeout, or forwards.
BackAndForth == {-2, 3}

=============================================================================
