SPECIFICATION FairSpec
CONSTANTS
  MaxConns = 1
  MaxBytes = 3
  MaxFails = 1
  MaxThrows = 2
  Period = 3
  Limit = 10
  Speeds = {FALSE, TRUE}
INVARIANT IdleBound
PROPERTIES ImplementsService EveryConnectionClosed
