\* One operation of any kind while turns are served; two requests fail.
CONSTANTS
  Ops = {o1}
  Loop = Loop
  Configs = {plain, voiced}
  Voiced = {voiced}
  Blank = Blank
  Origin = Origin
  None = None
  MaxFaults = 2
  KindsUsed <- Everything
  Serving = TRUE
SPECIFICATION FairSpec
PROPERTIES ServesWhatIsStored
CHECK_DEADLOCK FALSE
