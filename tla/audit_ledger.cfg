SPECIFICATION Spec
CONSTANTS
  Writers = {w1, w2}
  Kinds = {"SUBMITTED", "RESPONSE"}
  MaxEvents = 4
  MaxRestarts = 2
INVARIANTS
  TypeOK
  ChainVerifies
PROPERTIES
  LoadableNeverShrinks
  
CHECK_DEADLOCK FALSE
