SPECIFICATION Spec
CONSTANTS
  Procs = {p1, p2}
  MaxVersion = 2
  NoProc = NoProc
  kAdmin = kAdmin
  kTeam = kTeam
  Keys <- KeysDef
  Roles <- RolesDef
  Scopes <- ScopesDef
  AccessClusters = {c1, fleet}
  Fleet = fleet
  Group = grp
  Calls = {q1}
  KeyRecheckInterval = 1
  KeyTTL = 0
  MaxNow = 1
  MaxGroupEdits = 1
  Subscribers = {s1, s2}
  StreamBuffer = 1
  MaxEvents = 3
  Clients = {a1, a2}
  Budget <- BudgetDef
  Minute = 2
  BucketIdleTTL = 2
  BucketSweepInterval = 2
  MaxClock = 8
  ScanIDs = {1, 2}
  Clusters <- ClustersDef
  Names <- NamesDef
  Lists <- ListsDef
  Members <- MembersDef
  TagValues <- TagValuesDef
  Groups <- GroupsDef
  Requests = {r1, r2}
  ReportCacheSize = 1
  MaxSeconds = 1
  MaxEdits = 1
  Absent = Absent
  Items = {i1, i2, i3}
  PageLimit = 1
  MaxWrites = 2
SYMMETRY Symmetry
INVARIANT ServiceTypeOK
INVARIANT MigratedOnce
INVARIANT OnlyAuthorisedChanges
INVARIANT StreamsFaithful
INVARIANT ReportsFaithful
INVARIANT ListIsSnapshot
PROPERTY AnonymousWindow
PROPERTY ImplementsTokenBucket
CHECK_DEADLOCK FALSE
