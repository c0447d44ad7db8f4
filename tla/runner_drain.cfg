SPECIFICATION FairSpec
CONSTANTS
  j1 = j1
  a1 = a1
  a2 = a2
  r1 = r1
  v1 = v1
  v2 = v2
  p1 = p1
  p2 = p2
  NoVersion = NoVersion
  NoWindow = NoWindow
  Jobs = {j1}
  Windows = {a1, a2}
  JobOf <- MCJobOf
  Rank <- MCRank
  Batches <- MCBatches
  Workers = {r1}
  MaxAttempts = 2
  LeaseOutlives = FALSE
  Versions = {v1, v2}
  Paths = {p1, p2}
  MaxRollbacks = 0
  PathOf <- OneFileEach
  BatchSize = 2
  MaxWindows = 2
INVARIANTS
  TypeOK
  DoneIsReachable
  NoLeaseLeaks
  CoverageNotInflated
PROPERTIES
  AnsweredOnce
  Drains
CHECK_DEADLOCK FALSE
