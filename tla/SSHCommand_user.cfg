SPECIFICATION FairSpec
CONSTANTS
  Found <- Tools
  Requests <- RequestType
  Passwords <- MCPasswords
  Opens <- MCOpens
  Permits <- MCMaybe
  Interruptible = TRUE
  MayClose = TRUE
  MaxTries = 2
  MaxLate = 2
INVARIANTS SyncIsClean NothingAstray AtMostOnce
PROPERTIES Returns
CHECK_DEADLOCK FALSE
