CONSTANTS
  TicksPerSec = 4
  AdjLimit = 2
  FloatStep = 2
  Commands <- ListenerCommands
  SleepTime = 1
  StartTime = 20
  MaxTime = 38
  InitErrors <- MCLargeErrors
  MaxFetch = 3
  FdLimit = 3
  MaxInbox = 1
  Datagrams = {"bcast"}
  Loopback = FALSE
SPECIFICATION Spec
INVARIANTS
  ClockErrorBounded
CHECK_DEADLOCK FALSE
