CONSTANTS
  c1 = c1
  c2 = c2
  f1 = f1
  f2 = f2
  Agent = {a, b}
  Token = {t}
  Content = {c1, c2}
  First = c1
  File = {f1, f2}
  Rows <- MCRows
  Cap = 2
  TTL = 0
  MaxClock = 1
  MaxEdits = 1
  MaxFaults = 1
  None = None
  p1 = p1
  PlanIds = {p1}
  PlanRows <- MCPlanRows
  Bulk = {p1}
  Pure = {}
  Cloud = {p1}
  Probed <- MCProbed
  Proc = {p, q}
  KeepDays = 0
  MaxEvents = 4
  Torn = Torn
  src1 = src1
  src2 = src2
  dst = dst
  bytes1 = bytes1
  bytes2 = bytes2
  Source = {src1, src2}
  Dest = {dst}
  Bytes = {bytes1, bytes2}
  Held <- MCHeld
  DestOf <- MCDestOf
  MaxPlans = 2
  Bad = Bad
  Gone = Gone
  a1 = a1
  b1 = b1
  d1 = d1
  Places = {a1, b1, d1}
  Hashed = {bytes1}
  NoFile = NoFile
  Initial <- MCInitial
  Priority <- MCPriority
  Action <- MCAction
  Recovered = {}
  Bias <- MCBias
  Scopes <- MCScopes
  MaxClaims = 3
  Rel = {f1}
  Start <- MCStart
  CloudClaims = 3
  CloudPlans = 1
  CloudWrites = 1
  CloudFaults = 1
SPECIFICATION PlansSpec
CHECK_DEADLOCK FALSE
INVARIANTS
  AppliesWhatDryRunRead
  OneShotUndisturbed
  ListingSettles
  AppliedWasApplied
  RecordedIsThere
  LastCopySafe
  RetiredNotCurrent
  RemovedKnowingly
PROPERTIES
  TokenKeptUntilApplied
  NeverOverwrites
