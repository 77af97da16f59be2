SPECIFICATION Spec
CONSTANTS
  Words = 5
  WordLen = 4
  MaxFails = 0
INVARIANT EveryWordSent
CHECK_DEADLOCK FALSE
