SPECIFICATION Spec
CONSTANTS
  Askers = {t1}
  Panels = {p}
  Configs = {rest, grid}
  Ttl = 1
  MaxTime = 2
  MaxEdits = 1
  Calls = {c1, c2}
  MaxTokens = 3
  MaxSessions = 3
  MaxFaults = 1
  Turns = {t1, t2}
  Servers = {crm, search}
  MaxTools = 1
  MaxChanges = 1
  Visitors = {v1, v2}
  Guests = {v1, v2}
  Limit <- Limits
  Window <- Windows
  MaxNow = 4
  MaxRequests = 5
  MaxVersions = 2
  DayLength = 8
  Horizon = 1
  Granularity = 2
  Lead = 1
  CandidateLimit = 3
  Read = 2
  Durations = {1, 2}
  OpeningHours <- Weeks
  MaxAppointments = 1
  Reports = {r1, r2}
  CallIds = {call, unknown}
  MaxResends = 2
  MaxUses = 3
  MaxRefusals = 2
  Symbols = {"<", "f", "/", "w"}
  Chunks <- OneOrTwo
  Runaway = 3
  MaxReply = 6
CHECK_DEADLOCK FALSE
INVARIANTS FreshAndItsOwn NoSessionIsLost OneStrike TwoWindowsAtMost DraftStaysPreview
  ToolsTellTheTruth SpokenInAnyChunks
PROPERTIES OnlyItsConnections RetryAfterHolds OffersTheNearest OneRowPerCall
