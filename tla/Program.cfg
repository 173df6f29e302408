CONSTANTS
  Procs = {"a", "b"}
  CommandLines <- MCCommandLines
  MaxPid = 6
  DateSeparators = {"/", "-", "_", "+"}
  Summers = {TRUE, FALSE}
  Zones = {"GMT", "CET", "EST"}
  Offset <- MCOffset
  Known = {"GMT", "CET"}
  Local = "CET"
  Environment = {"", "unset", "GMT"}
  TzOptions = {"", "GMT", "CET"}
  Chains <- MCChains
  MaxQueue = 3
  Loggers = {"p", "c"}
  Rotators = {"p"}
  LogMaxSize = 0
  MaxRotate = 2
  LogBuffer = 1
  MaxSaid <- MCSaid
  MaxFd = 9
  OpenFds <- MCOpenFds
  MaxSpawns = 2
  Tasks = {"t", "u"}
  Configs <- MCConfigs
  Passwds <- MCPasswds
SPECIFICATION Spec
INVARIANTS
  ProgramTypeOK
  PidFileNamesHolder
  CommandsObeyed
  ZoneExact
  ProcessesTrue
PROPERTIES
  RtcSameZone
  ComesUp
CHECK_DEADLOCK FALSE
