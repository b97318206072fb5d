SPECIFICATION Spec
CONSTANTS
  c1 = c1
  c2 = c2
  Clients = {c1, c2}
  ServerAuth = "cert"
  Creds <- OneCred
  HostAddrs <- TwoHost
  RemoteAddress = 0
  InMax = 1
  EmptyReads = FALSE
  MaxFailed = 1
SYMMETRY ClientSymmetry
INVARIANTS NoDangling NoLeak
PROPERTIES KeepsConnections
CHECK_DEADLOCK FALSE
