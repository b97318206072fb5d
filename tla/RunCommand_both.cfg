SPECIFICATION Spec
CONSTANTS
  Root = FALSE
  Found <- Tools
  LocalFlags <- MCBoth
  Passwords <- MCPasswords
  Opens <- MCOpens
  Permits <- MCNo
  Interruptible = FALSE
  OpenMayFail = FALSE
  MaxCalls = 2
  MaxTries = 2
INVARIANTS BothTried
CHECK_DEADLOCK FALSE
