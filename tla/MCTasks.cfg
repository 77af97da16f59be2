SPECIFICATION Spec
CONSTANTS
  MaxTasks = 4
  MaxWaits = 3
  MaxFails = 2
  SqSize = 2
INVARIANTS TypeOK EventsInLiveFrames RoomForSqe StackIsRunning ContinuationWaits
CHECK_DEADLOCK FALSE
