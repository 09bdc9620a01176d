SPECIFICATION Spec
CONSTANTS
  MaxPending = 1
  MaxBatch = 1
  SequenceModulus = 2
  Ble = Ble
  Main = Main
  Tasks = {t1}
  Free = Free
  Advertisers = {sensor}
  AllowlistGiven = FALSE
  AllowedMacs = {}
  DedicatedToken = TRUE
  Statuses = {0, 200, 400}
  MaxObservations = 1
  CounterModulus = 64
INVARIANT NoTaskOutlivesGateway
