CONSTANTS
  c1 = c1
  c2 = c2
  r1 = r1
  r2 = r2
  Replicas = {r1, r2}
  Desk = Desk
  Callers = {c1, c2}
  Where <- Apart
  Script = Script
  Never = Never
  Given = 1
  MaxGrants = 2
  MaxCalls = 2
  MaxFaults = 1
SPECIFICATION Spec
INVARIANTS NoRotationLost LoneCallIsServed
SYMMETRY Swap
CHECK_DEADLOCK FALSE
