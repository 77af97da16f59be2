SPECIFICATION Spec
CONSTANTS
  Base = 8
  MinLen = 1
  MaxLens <- MCMaxLens
  Inputs <- MCInputs
INVARIANTS TypeOK ViewIsSource ComparesLikeStrings
CHECK_DEADLOCK FALSE
