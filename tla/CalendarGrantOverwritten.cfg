CONSTANTS
  c1 = c1
  c2 = c2
  r1 = r1
  r2 = r2
  Replicas = {r1}
  Desk = Desk
  Callers = {c1}
  Where <- Alone
  Script = Script
  Never = Never
  Given = 1
  MaxGrants = 2
  MaxCalls = 2
  MaxFaults = 0
SPECIFICATION Spec
INVARIANT AuthorizationHolds
CHECK_DEADLOCK FALSE
