CONSTANTS
  c1 = c1
  c2 = c2
  c3 = c3
  c4 = c4
  Call <- MCCall
  Nobody = nobody
  Impatient <- MCCall
  Faults <- NoFault
  FloorTtl = 1
SPECIFICATION Spec
INVARIANTS
  OneAtATimeAlways
CHECK_DEADLOCK FALSE
