SPECIFICATION Spec
CONSTANTS
  MaxConns = 2
  MaxBytes = 1
  MaxFails = 0
  MaxThrows = 1
  Period = 1
  Limit = 0
  Speeds = {FALSE}
INVARIANTS TypeOK EventsHaveTheirFrame MonitorOutlived OwnConnection DescriptorsHeldOnce ListensUnlessFailed
PROPERTY ImplementsService
