CONSTANTS
  TicksPerSec = 2
  AdjLimit = 1
  FloatStep = 1
  Commands <- ServerCommands
  SleepTime = 2
  StartTime = 12
  MaxTime = 34
  InitErrors <- MCInitErrors
  MaxFetch = 3
  FdLimit = 2
  MaxInbox = 2
  Datagrams = {"request"}
  Loopback = FALSE
SPECIFICATION Spec
INVARIANTS
  TypeOK
  NextSyncNear
  SyncGap
  StampAge
  ReplyAfterRequest
  NeverBlocksInReceive
  ClockErrorBounded
PROPERTY
  SyncPace
CHECK_DEADLOCK FALSE
