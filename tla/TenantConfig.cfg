\* Two operations of any kind overlap; one request fails.
CONSTANTS
  Ops = {o1, o2}
  Loop = Loop
  Configs = {plain, voiced}
  Voiced = {voiced}
  Blank = Blank
  Origin = Origin
  None = None
  MaxFaults = 1
  KindsUsed <- Everything
  Serving = FALSE
SPECIFICATION Spec
SYMMETRY Alike
INVARIANTS VersionsWereLive RejectedWroteNothing OnlyAskedIsSeen
PROPERTIES AloneKeepsItsPromise
CHECK_DEADLOCK FALSE
