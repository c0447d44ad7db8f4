SPECIFICATION Spec
CONSTANTS
  single = single
  large = large
  id = id
  Requests = {single, large}
  CorrelationIds = {id}
  Cid <- MCCid
  Slices <- MCSlices
  Operator = Operator
  MaxAttempts = 3
  MaxRestarts = 1
INVARIANTS
  TypeOK
  OrdersAreOnRecord
  LifecycleInOrder
  RefusedIsUnplaced
  DuplicatesWereUnconfirmed
CHECK_DEADLOCK FALSE
