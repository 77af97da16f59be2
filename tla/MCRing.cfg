SPECIFICATION FairSpec
CONSTANTS
  SqSize = 2
  CqSize = 2
  MaxSqe = 3
  MaxCqe = 4
  MaxThrows = 1
INVARIANTS TypeOK InOrderOnce HandlerCqeIntact NoneLost PassBounded
PROPERTIES ImplementsLog EveryCompletionHandled
