SPECIFICATION Spec
CONSTANTS
  single = single
  large = large
  id = id
  Requests = {single, large}
  CorrelationIds = {id}
  Cid <- MCCid
  Slices <- MCSlices
  Operator = Operator
  MaxAttempts = 2
  MaxRestarts = 0
INVARIANT NoBlindRetry
CHECK_DEADLOCK FALSE
