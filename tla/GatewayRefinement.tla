------------------------- MODULE GatewayRefinement -------------------------
(***************************************************************************)
(* AdvertisementGateway implements ObservationRelay as long as it has one  *)
(* HTTP task at a time: the batch in flight is what is claimed.            *)
(***************************************************************************)
EXTENDS AdvertisementGateway

Relay == INSTANCE ObservationRelay WITH
  Observations <- 1..MaxObservations,
  Capacity <- MaxPending,
  Claimable <- MaxBatch,
  held <- Held,
  claimed <- Len(inflight),
  taken <- seen,
  lost <- droppedQueueFull + droppedInvalid

\* Whatever the interleaving of the BLE callback, the HTTP task, its lock
\* timeouts, lost answers, stop() and start(), the gateway only does what the
\* relay may: a batch in flight is delivered whole, retried as it is and settled
\* once; the oldest waiting observation is the one overwritten; losses count.
ImplementsRelay == Relay!RelaySpec

=============================================================================
