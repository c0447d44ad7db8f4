SPECIFICATION FairSpec
CONSTANTS
  j1 = j1
  a1 = a1
  a2 = a2
  r1 = r1
  r2 = r2
  Jobs = {j1}
  Windows = {a1, a2}
  JobOf <- MCJobOf
  Rank <- MCRank
  Batches <- MCBatches
  Workers = {r1}
  MaxAttempts = 2
  LeaseOutlives = FALSE
PROPERTY
  ExhaustedRetires
CHECK_DEADLOCK FALSE
