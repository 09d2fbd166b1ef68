CONSTANTS
  r1 = r1
  bytes1 = bytes1
  Rel = {r1}
  Content = {bytes1}
  Gone = Gone
  Start <- MCStart
  MaxClaims = 2
  MaxPlans = 1
  MaxWrites = 0
  MaxFaults = 0
SPECIFICATION Spec
CHECK_DEADLOCK FALSE
INVARIANT KeeperStays
