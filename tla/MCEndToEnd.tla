----------------------------- MODULE MCEndToEnd -----------------------------
(***************************************************************************)
(* Two configured devices.                                                 *)
(***************************************************************************)
EXTENDS EndToEnd

CONSTANTS house, mppt, m1, m2

MCDevices == <<[id |-> house, mac |-> m1, key |-> 1, enabled |-> TRUE],
               [id |-> mppt, mac |-> m2, key |-> 2, enabled |-> TRUE]>>

\* A compiled allowlist with a mistake, and what an operator enters then.
MCCompiled == [g \in Gateways |-> <<m1, NotAMac>>]
MCTexts == {<<m1>>, <<m2, NotAMac>>}

=============================================================================
