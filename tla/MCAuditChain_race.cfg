CONSTANTS
  Conn = {1, 2}
  DataFirst = {}
  None = none
  Digest <- MCDigest
  Genesis = 0
  Hash <- MCHash
  MaxRows = 4
SPECIFICATION Spec
INVARIANTS
  ChainIntact
