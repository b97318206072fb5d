SPECIFICATION FairSpec
CONSTANTS
  c1 = c1
  c2 = c2
  Clients = {c1}
  ServerAuth = "users"
  Creds <- Credentials
  HostAddrs <- TwoHost
  RemoteAddress = 0
  InMax = 2
  EmptyReads = TRUE
  MaxFailed = 2
INVARIANTS TypeOK AuthorisedOnly NamedPeersAsDocumented Conservation
PROPERTIES EofLosesNothing TornDown Served ExitComesToRest
CHECK_DEADLOCK FALSE
