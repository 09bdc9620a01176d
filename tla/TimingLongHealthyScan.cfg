SPECIFICATION Spec
CONSTANTS
  ClockModulus = 16
  ScanRecovery = 3
  PostInterval = 1
  MaxRetry = 2
  BacklogYield = 1
  HttpTimeout = 1
  HealthyLimit = 16
INVARIANT RecoveryOnTime
