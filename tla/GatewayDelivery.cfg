SPECIFICATION Spec
CONSTANTS
  MaxPending = 2
  MaxBatch = 2
  SequenceModulus = 2
  Ble = Ble
  Main = Main
  Tasks = {t1}
  Free = Free
  Advertisers = {allowed, stranger}
  AllowlistGiven = TRUE
  AllowedMacs = {allowed}
  DedicatedToken = FALSE
  Statuses = {0, 200, 400, 401}
  MaxObservations = 4
  CounterModulus = 2
INVARIANTS
  TypeOK
  Accounting
  Fifo
  InflightIsMine
  AcknowledgedWasTaken
PROPERTIES
  InflightRetained
  ServerInOrder
  ImplementsRelay
