CONSTANTS
  MaxTurns = 1
  MaxHops = 3
  MaxCalls = 2
  Limit = 4
  Artifacts = {"buttons", "flow"}
  Channels = {"widget", "trusted", "voice"}
  MaxFaults = 2
SPECIFICATION FairSpec
INVARIANTS Recorded ResultsAreTold
PROPERTIES Answered
CHECK_DEADLOCK FALSE
