CONSTANTS
  MaxTurns = 2
  MaxHops = 3
  MaxCalls = 1
  Limit = 3
  Artifacts = {}
  Channels = {"trusted", "voice"}
  MaxFaults = 1
SPECIFICATION Spec
INVARIANTS PromptIsSound NoEcho
PROPERTIES NothingForgotten
CHECK_DEADLOCK FALSE
