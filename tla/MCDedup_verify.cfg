CONSTANTS
  a = a
  b = b
  d = d
  x = x
  Path = {a, b, d}
  Content = {x}
  NoFile = NoFile
  Initial <- MCFull
  Priority <- MCPriority
  Action <- MCAction
  Recovered = {a}
  Bias = {FALSE, TRUE}
  Scopes <- MCScopes
  MaxClaims = 4
  MaxPlans = 2
  MaxEdits = 0
  MaxFaults = 0
SPECIFICATION Spec
CHECK_DEADLOCK FALSE
INVARIANTS
  VerifiedHasCopy
