CONSTANTS
  Conn = {1, 2, 3}
  DataFirst = {3}
  Archiver = {1}
  HotMin = 1
  None = none
  Digest <- MCDigest
  Genesis = 0
  Hash <- MCHash
  MaxRows = 4
  a = a
  b = b
  l = l
  A = A
  B = B
  R = R
  Path = {a, b, l}
  Dir = {A, B, R}
  Root = R
  DirOf <- MCDirOf
  SizeOf <- MCSizeOf
  Threshold = 1
  CommitEvery = 2
  Starts <- MCStarts
  Busy = {a}
  MaxRuns = 2
  MaxClock = 1
  MaxEdits = 2
  MaxFaults = 1
  NoFile = NoFile
  zip = zip
  rar = rar
  m1 = m1
  m2 = m2
  Container = {zip, rar}
  Kind <- MCKind
  Version <- MCVersion
  Member = {m1, m2}
  Members <- MCMembers
  First <- MCFirst
  MaxScans = 2
  MaxRewrites = 1
  MaxTroubles = 1
  Nothing = Nothing
  Watched = {p, q}
  SkippedFile = {s}
  InSkippedDir = {t}
  MaxWrites = 3
  MaxStops = 1
  MaxReads = 1
  Gone = Gone
  rules = rules
  again = again
  OldRows <- MCOldRows
  BatchSize = 2
  Importer = {import, dry}
  DryRun = {dry}
  Classifier = {rules, again}
  Relabel = {again}
  Policy <- MCPolicy
  Embedder = {embed1, embed2}
  MaxImports = 2
  MaxMishaps = 1
SPECIFICATION InventorySpec
CHECK_DEADLOCK FALSE
INVARIANTS
  Rooted
  LockedAppendsChain
  SegmentsHold
  ClaimsWereThere
  MembersWereThere
  MembersAccounted
  FinishedCovers
  CommittedWhole
  NothingForgotten
PROPERTIES
  AppendOnly
  FinishedFrozen
  LabelsKept
  Follows
