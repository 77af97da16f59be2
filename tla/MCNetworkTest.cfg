SPECIFICATION FairSpec
CONSTANTS
  Words = 5
  WordLen = 4
  MaxFails = 2
INVARIANTS TypeOK OneShotsHaveTheirFrame OpenWhileOwned
PROPERTIES ImplementsService ServerFollows
CHECK_DEADLOCK FALSE
