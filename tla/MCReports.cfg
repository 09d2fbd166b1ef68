CONSTANTS
  r1 = r1
  r2 = r2
  m1 = m1
  m2 = m2
  Root = {r1, r2}
  NewRoot = {r2}
  DeclaredMounts <- MCDeclared
  Unmanaged = {m3}
  MaxProbes = 2
  Critical = {m1}
  Total = 4
  BytesWarn = 3
  BytesFail = 2
  PercentWarn = 50
  PercentFail = 25
  Peer = {p1}
  HealthRequests <- MCHealthRequests
  ScanMaxAge = 1
  RollupMaxAge = 1
  StashLimit = 1
  AttachedMaxAge = 1
  EnvelopeMaxAge = 1
  Never = Never
  Unread = Unread
  MaxClock = 2
  MaxEvents = 2
  Writer = {w1, w2}
  Inode = {i1, i2, i3}
  NoFile = NoFile
  MaxAge = 1
  Skews = {0, 1}
  MaxChanges = 1
  MaxReports = 2
  mac = mac
  mini = mini
  boot = boot
  cloud = cloud
  nas = nas
  vault = vault
  Host = {mac, mini}
  Process = {"mac server", "mini cli"}
  HostOf <- MCHostOf
  Volumes <- MCVolumes
  MountedAt <- MCMounted
  Database <- MCDatabase
  Estates <- MCEstates
  Commands <- MCCommands
  MaxRuns = 2
  MaxDeploys = 1
  MaxCrashes = 1
  NoEstate = NoEstate
  Thread = {t1, t2}
  Polls <- MCPolls
  Actions = {"replicate_execute", "replicate_dry_run", "status_full"}
  Initial <- MCFacts
  MaxVersions = 1
  MaxPolls = 2
  NoEntry = NoEntry
SPECIFICATION ReportsSpec
CHECK_DEADLOCK FALSE
INVARIANTS
  OkIsTrue
  OkWasHealthy
  OwnersOnly
  ReadsItsActions
  BannerOkIsTrue
