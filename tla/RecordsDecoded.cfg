SPECIFICATION OutputsFairSpec
CONSTANTS
  MaxBytes = 16
  Requests = {r1, r2}
  Polled = {13}
  Empty = Empty
INVARIANTS
  NotAvailableIsNull
  PathsAgreeWithStatus
  InSignalKRange
  EveryReadingHasAPlace
PROPERTIES
  OneReadingPerBit
  CutShortIsNull
  PageCatchesUp
CHECK_DEADLOCK FALSE
