SPECIFICATION FairSpec
CONSTANTS
  j1 = j1
  a1 = a1
  a2 = a2
  r1 = r1
  r2 = r2
  Jobs = {j1}
  Windows = {a1, a2}
  JobOf <- MCJobOf
  Rank <- MCRank
  Batches <- MCBatches
  Workers = {r1, r2}
  MaxAttempts = 2
  LeaseOutlives = TRUE
INVARIANTS
  TypeOK
  LeaseExclusive
  ClosedJobIsFinished
PROPERTIES
  TerminalStable
  DeadLeaseReturns
CHECK_DEADLOCK FALSE
