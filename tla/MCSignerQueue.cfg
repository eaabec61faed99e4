CONSTANTS
  c1 = c1
  c2 = c2
  c3 = c3
  c4 = c4
  Call <- FourCalls
  Nobody = nobody
  Impatient <- FourCalls
  Faults <- AllFaults
  FloorTtl = 0
SPECIFICATION Spec
SYMMETRY MCSymmetry
INVARIANTS
  OneAtATime
  NoncesDistinct
  NoGap
  NobodyStranded
PROPERTIES
  GapIsRefilled
CHECK_DEADLOCK FALSE
