SPECIFICATION FairSpec
CONSTANTS
  MaxPending = 2
  MaxBatch = 1
  SequenceModulus = 2
  Ble = Ble
  Main = Main
  Tasks = {t1}
  Free = Free
  Advertisers = {sensor}
  AllowlistGiven = FALSE
  AllowedMacs = {}
  DedicatedToken = FALSE
  Statuses = {0, 200, 400, 401}
  MaxObservations = 2
  CounterModulus = 2
PROPERTIES
  DrainsAfterOutage
  StoppedTasksEnd
