-------------------------- MODULE ObservationRelay --------------------------
(***************************************************************************)
(* What the gateway promises, without threads, mutex, HTTP or counters of  *)
(* its own: a bounded buffer of observations of which the oldest may be    *)
(* claimed for delivery.  What is claimed stays until the server has all   *)
(* of it or it is written off; what is not claimed may be overwritten, the *)
(* oldest first; every observation that is given up is counted.            *)
(***************************************************************************)
EXTENDS Integers, Sequences

CONSTANTS
  Observations,  \* numbers
  Capacity,  \* observations that can wait unclaimed
  Claimable  \* observations that can be claimed together

VARIABLES
  held,     \* the observations in the buffer, oldest first
  claimed,  \* how many of them, from the oldest, are claimed
  taken,    \* the observations the server has
  lost      \* how many observations were given up

relayVars == <<held, claimed, taken, lost>>

Claimed == {held[i] : i \in 1..claimed}
Unclaimed == SubSeq(held, claimed + 1, Len(held))

RelayInit ==
  /\ held = <<>>
  /\ claimed = 0
  /\ taken = {}
  /\ lost = 0

\* A new observation, younger than all before it, overwrites the oldest unclaimed
\* one when there is no room.
Observe(o) ==
  /\ \A old \in taken \union {held[i] : i \in 1..Len(held)} : old < o
  /\ IF Len(Unclaimed) < Capacity
       THEN held' = Append(held, o) /\ UNCHANGED lost
       ELSE /\ held' = SubSeq(held, 1, claimed) \o Append(Tail(Unclaimed), o)
            /\ lost' = lost + 1
  /\ UNCHANGED <<claimed, taken>>

Claim ==
  /\ claimed = 0
  /\ claimed' \in 1..Claimable /\ claimed' <= Len(held)
  /\ UNCHANGED <<held, taken, lost>>

\* A delivery, or a repeated one.
Arrive ==
  /\ taken' = taken \union Claimed
  /\ UNCHANGED <<held, claimed, lost>>

Release ==
  /\ claimed > 0
  /\ held' = Unclaimed
  /\ claimed' = 0
  /\ UNCHANGED taken

Settle == Release /\ Claimed \subseteq taken /\ UNCHANGED lost

WriteOff == Release /\ lost' = lost + claimed

RelayNext ==
  \/ \E o \in Observations : Observe(o)
  \/ Claim \/ Arrive \/ Settle \/ WriteOff

RelaySpec == RelayInit /\ [][RelayNext]_relayVars

=============================================================================
