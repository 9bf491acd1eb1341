SPECIFICATION FairSpec
CONSTANTS
  Reader = Reader
  Collector = Collector
  Graces = {g1, g2}
  Free = Free
  MaxTurns = 1
  MaxHeard = 2
  SlowSends = FALSE
  Inputs <- Switching
PROPERTIES
  LimitCloses
  HandlersReturn
CHECK_DEADLOCK FALSE
