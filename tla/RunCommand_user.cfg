SPECIFICATION FairSpec
CONSTANTS
  Root = FALSE
  Found <- Tools
  LocalFlags <- MCBoth
  Passwords <- MCPasswords
  Opens <- MCOpens
  Permits <- MCMaybe
  Interruptible = TRUE
  OpenMayFail = TRUE
  MaxCalls = 3
  MaxTries = 2
INVARIANTS TypeOK AtMostOnce PasswordForTheTool StaysWithSu NoDeadWait
PROPERTIES KeepsPromise CallEnds
CHECK_DEADLOCK FALSE
