SPECIFICATION FairSpec
CONSTANTS
  c1 = c1
  c2 = c2
  Clients = {c1}
  ServerAuth = "users"
  Creds <- OneCred
  HostAddrs <- TwoHost
  RemoteAddress = 0
  InMax = 2
  EmptyReads = FALSE
  MaxFailed = 0
PROPERTIES NotLockedOut
CHECK_DEADLOCK FALSE
