SPECIFICATION Spec
CONSTANTS
  w1 = w1
  w2 = w2
  v1 = v1
  v2 = v2
  v3 = v3
  p1 = p1
  p2 = p2
  NoVersion = NoVersion
  Actors = {w1, w2}
  Versions = {v1, v2}
  Paths = {p1, p2}
  Digests = {1, 2}
  MaxRollbacks = 1
INVARIANTS
  TypeOK
  CurrentIsReadable
PROPERTY
  PublishedIsImmutable
SYMMETRY SymmetricNames
CHECK_DEADLOCK FALSE
