SPECIFICATION Spec
CONSTANTS
  Calls = {c1, c2}
  Starts = {1, 2}
  Lengths = {1, 2}
  TypeLength = 2
  Open = {1, 2, 3}
  Setups <- KeepingSetups
  MaxRestarts = 1
  MaxChanges = 1
CHECK_DEADLOCK FALSE
INVARIANTS BookedIsKept RecordMatchesCalendar NoSilentOrphan
PROPERTIES Answered KeepsTheAgenda
