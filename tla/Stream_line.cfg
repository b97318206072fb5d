SPECIFICATION FairSpec
CONSTANTS
  Byte <- MCByte
  Newline = "nl"
  Size = 3
  WireSize = 2
  Texts <- MCTexts
  Wants <- MCWants
  FlushType = "line"
  MaxSignals = 1
INVARIANTS TypeOK NullOnlyAtEnd
PROPERTIES LinesWhole LineArrives InOrder
CHECK_DEADLOCK FALSE
