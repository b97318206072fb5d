SPECIFICATION FairSpec
CONSTANTS
  InMax = 2
  OutMax = 1
INVARIANTS TypeOK
PROPERTIES NothingLost ComesUp EndsWhenOver
CHECK_DEADLOCK FALSE
