\* Sends that may suspend; two turns, three things said.
SPECIFICATION Spec
CONSTANTS
  Reader = Reader
  Collector = Collector
  Graces = {g1, g2}
  Free = Free
  MaxTurns = 2
  MaxHeard = 3
  SlowSends = TRUE
  Inputs <- Talking
SYMMETRY Timers
INVARIANTS
  TypeOK
  AskedOnce
  SttReleased
  WordsStopTheCountdown
  NeverStuckTalking
PROPERTIES
  Lifecycle
\* A closed session whose visitor has nothing left to say stops.
CHECK_DEADLOCK FALSE
