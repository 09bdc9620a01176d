SPECIFICATION Spec
CONSTANTS
  ClockModulus = 16
  ScanRecovery = 3
  PostInterval = 2
  MaxRetry = 2
  BacklogYield = 1
  HttpTimeout = 1
  HealthyLimit = 5
PROPERTY RetriesBackOff
