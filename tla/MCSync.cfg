CONSTANTS
  m1 = m1
  m2 = m2
  x1 = x1
  Machine = {m1, m2}
  Self = self
  Pin = m1
  Permanode = {x1}
  Holds <- MCHolds
  Proc = {p, q}
  MaxAttach = 2
  MaxClock = 1
  MaxExports = 2
  MaxEvents = 3
  Bad = Bad
  None = None
  Exporter = {e1, e2, e3}
  MaxWrites = 1
  MaxKills = 1
  NoFile = NoFile
  dbfile = dbfile
  tree = tree
  rep1 = rep1
  rep2 = rep2
  arc = arc
  Replicator = {rep1, rep2}
  Archiver = {arc}
  Sources = {dbfile, tree}
  Snapshots = {dbfile}
  Outside = {tree}
  MaxRuns = 2
  MaxFaults = 1
  Policy <- MCPolicy
  Part = Part
  Empty = Empty
SYMMETRY ProcSymmetry
SPECIFICATION HostsSpec
CHECK_DEADLOCK FALSE
INVARIANTS
  AttachedGenuine
  PulledWasAttached
  ShippedIsChecked
  TransfersAttested
PROPERTIES
  ForeignNeverApplied
  ImplementsPublisher
