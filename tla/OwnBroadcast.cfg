CONSTANTS
  TicksPerSec = 2
  AdjLimit = 1
  FloatStep = 1
  Commands <- RelayCommands
  SleepTime = 1
  StartTime = 12
  MaxTime = 32
  InitErrors <- MCWildErrors
  MaxFetch = 3
  FdLimit = 3
  MaxInbox = 1
  Datagrams = {}
  Loopback = TRUE
SPECIFICATION Spec
INVARIANT
  ClockErrorBounded
CHECK_DEADLOCK FALSE
