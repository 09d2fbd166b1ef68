CONSTANTS
  a = a
  b = b
  c = c
  r1 = r1
  r2 = r2
  ra = ra
  rc = rc
  sa = sa
  sc = sc
  Run = {r1, r2}
  Source = {a, b, c}
  Dest = {ra, rc, sa, sc}
  DestOf <- MCDestOf
  Manifest <- MCManifest
  Proc = {p}
  CoolingOff = 1
  Setting <- OneDeath
  MaxEdits = 0
  NoFile = NoFile
  None = None
SPECIFICATION Spec
CHECK_DEADLOCK FALSE
INVARIANTS
  EveryRenameRecorded
