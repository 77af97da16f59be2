SPECIFICATION Spec
CONSTANTS
  MaxConns = 1
  MaxBytes = 1
  MaxFails = 1
  MaxThrows = 0
  Period = 1
  Limit = 1
  Speeds = {FALSE}
INVARIANT AlwaysListening
