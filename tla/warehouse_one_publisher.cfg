SPECIFICATION Spec
CONSTANTS
  w1 = w1
  w2 = w2
  v1 = v1
  v2 = v2
  v3 = v3
  p1 = p1
  p2 = p2
  NoVersion = NoVersion
  Actors = {w1}
  Versions = {v1, v2, v3}
  Paths = {p1, p2}
  Digests = {1}
  MaxRollbacks = 1
INVARIANT
  CurrentParses
PROPERTIES
  ImplementsCatalog
  GenerationAdvances
SYMMETRY SymmetricNames
CHECK_DEADLOCK FALSE
