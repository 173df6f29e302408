CONSTANTS
  TicksPerSec = 20
  AdjLimit = 1
  FloatStep = 128
  Hosts = {"a", "b"}
  Attempts = 2
  Lookup = 1
  Wait = 2
  StartTimes <- MCStartTimes
  InitErrors <- MCInitErrors
  InitSlews <- MCInitSlews
  MaxAge = 1
  MaxQueue = 2
SPECIFICATION FairSpec
INVARIANTS
  TypeOK
  TimeWithinCall
PROPERTIES
  FetchSpec
  Returns
CHECK_DEADLOCK FALSE
