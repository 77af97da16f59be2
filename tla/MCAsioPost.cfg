SPECIFICATION FairSpec
CONSTANTS
  Waits = 5
  Valued = 3
  Bytes = 4
INVARIANTS TypeOK HandlerForItsWait StopsWhenDone ResultsDelivered
PROPERTY Finishes
