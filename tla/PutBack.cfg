CONSTANTS
  TicksPerSec = 2
  AdjLimit = 1
  FloatStep = 1
  Commands <- ChainCommands
  SleepTime = 1
  StartTime = 12
  MaxTime = 32
  InitErrors <- MCWildErrors
  MaxFetch = 3
  FdLimit = 2
  MaxInbox = 1
  Datagrams = {}
  Loopback = FALSE
SPECIFICATION Spec
INVARIANT
  ChecksAfterPutBack
CHECK_DEADLOCK FALSE
