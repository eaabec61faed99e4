CONSTANTS
  c1 = c1
  c2 = c2
  c3 = c3
  c4 = c4
  Call <- MCCall
  Nobody = nobody
  Impatient <- NoCall
  Faults <- LateFaults
  FloorTtl = 8
SPECIFICATION Spec
INVARIANTS
  NoncesDistinctAlways
CHECK_DEADLOCK FALSE
