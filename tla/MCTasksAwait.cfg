SPECIFICATION FairSpec
CONSTANTS
  MaxTasks = 2
  MaxWaits = 2
  MaxFails = 0
  SqSize = 2
PROPERTY AwaitReturns
CHECK_DEADLOCK FALSE
