SPECIFICATION FairSpec
CONSTANTS
  NULL = NULL
  PollTimes = 2
  MaxL1 = 2
  MaxHangs = 1
  MaxLogs = 1
  MaxLost = 1
  MaxFails = 1
  MaxStops = 1
INVARIANT TypeOK
INVARIANT TxWithRecovery
INVARIANT QuietReset
INVARIANT PollingGoesOn
PROPERTY RecoveryEnds
PROPERTY PutOffResumes
CHECK_DEADLOCK FALSE
