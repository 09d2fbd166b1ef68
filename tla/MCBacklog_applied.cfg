CONSTANTS
  p1 = p1
  Plan = {p1}
  Rows <- MCRows
  Bulk = {p1}
  Pure = {}
  Cloud = {p1}
  Probed <- MCProbed
  Proc = {p, q}
  KeepDays = 0
  MaxClock = 1
  MaxEvents = 4
  Torn = Torn
  None = None
SPECIFICATION Spec
CHECK_DEADLOCK FALSE
INVARIANTS
  AppliedIsDone
