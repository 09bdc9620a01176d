SPECIFICATION OutputsSpec
CONSTANTS
  MaxBytes = 16
  Requests = {r1}
  Polled = {13}
  Empty = Empty
INVARIANT UnavailableStateNotShown
CHECK_DEADLOCK FALSE
