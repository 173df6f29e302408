CONSTANTS
  Pages = {"a", "b"}
  Methods = {"HEAD", "POST", "PUT"}
  Logins = {"url", "info", "oauth"}
  Transfers <- MCTransfers
  MaxRead = 12
  OutSize = 2
  HopTypes = {"tcp", "https", "ssh", "sshproxy", "socks4", "socks5", "socks5 login", "none"}
  MaxHops = 2
  Clients = {"c", "d"}
  Backlog = 2
  Headers = 2
  BasicLen = 1
  MaxFrameLen = 2
  MaxFrames = 2
  MaxRoom = 2
  MaxRecipients = 2
  MaxSlips = 1
  Messages <- MCMessages
  Users = {"u", "v"}
  NameOf <- MCNameOf
  MaxOld = 1
  MaxLogins = 2
  MaxGrants = 2
  MaxLines = 3
  Levels = {"", "ssl", "tls1.2"}
  Versions <- MCVersions
  Certs <- MCCerts
  SourceLen = 3
  AheadSize = 2
  QueueSize = 2
  CopyLen = 2
SPECIFICATION Spec
INVARIANTS
  WebTypeOK
  NoMutualWait
  LoginsEnd
  BodyIsWhole
  ConnectionsTrue
  SessionsTrue
PROPERTIES
  WebCallsReturn
CHECK_DEADLOCK FALSE
