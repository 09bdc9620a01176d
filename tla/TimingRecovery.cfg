SPECIFICATION FairSpec
CONSTANTS
  ClockModulus = 16
  ScanRecovery = 3
  PostInterval = 2
  MaxRetry = 5
  BacklogYield = 1
  HttpTimeout = 1
  HealthyLimit = 5
INVARIANTS
  TypeOK
  RecoveryOnTime
PROPERTIES
  RecoverySpaced
  BackoffNeverShrinks
  RetriesBackOff
  ScanRecovered
