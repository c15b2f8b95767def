\* A role of either pace, over a path that may already hold a file.
CONSTANTS
  Poll = 5
  DefaultTimeout = 20
  Timeouts <- SomeTimeouts
  Intervals <- SomeIntervals
  MaxWrites = 5
SPECIFICATION Spec
INVARIANT TypeOK
INVARIANT FinishedInTimeIsCollected
INVARIANT AcceptedIsComplete
INVARIANT HeartbeatInTime
PROPERTY WaitEnds
CHECK_DEADLOCK FALSE
