CONSTANTS
  c1 = c1
  c2 = c2
  f1 = f1
  f2 = f2
  Agent = {a, b}
  Token = {t}
  Content = {c1, c2}
  First = c1
  File = {f1, f2}
  Rows <- MCRows
  Cap = 2
  TTL = 0
  MaxClock = 1
  MaxEdits = 0
  MaxFaults = 0
  None = None
SYMMETRY AgentSymmetry
SPECIFICATION Spec
CHECK_DEADLOCK FALSE
INVARIANTS
  OneShot
