SPECIFICATION FairSpec
CONSTANTS
  NULL = NULL
  PollTimes = 2
  MaxL1 = 1
  MaxHangs = 1
  MaxLogs = 0
  MaxLost = 0
  MaxFails = 0
  MaxStops = 0
PROPERTY WdtNoticed
