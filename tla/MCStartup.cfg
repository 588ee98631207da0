SPECIFICATION Spec
CONSTANTS
  None = None
  Absent = Absent
  Corrupt = Corrupt
  DefaultPositions = 16
  Requests = {r1, r2}
  Launches <- MCLaunches
INVARIANTS
  LimitsSafe
  CheckpointSound
  ShutdownOrderly
PROPERTIES
  SignalEndsServer
CHECK_DEADLOCK FALSE
