SPECIFICATION FairSpec
CONSTANTS
  s1 = s1
  s2 = s2
  Sessions <- MCPair
  Requests <- MCRequests
  Present <- MCPresent
  DevNames <- MCDevNames
  Fallible = TRUE
  MaxUps = 2
INVARIANTS TypeOK OriginalKept TunnelHasDevice LeavesNoDevice
PROPERTIES EndsOnSignal
CHECK_DEADLOCK FALSE
