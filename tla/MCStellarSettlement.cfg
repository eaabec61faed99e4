CONSTANTS
  r1 = r1
  r2 = r2
  a1 = a1
  a2 = a2
  h1 = h1
  Req <- MCReq
  Auths <- MCAuths
  Hashes <- MCHashes
  Settings <- MCSettings
  Daily = 1
  MaxTx = 3
  MaxCalls = 2
  MaxCrash = 1
SPECIFICATION Spec
SYMMETRY MCSymmetry
INVARIANTS
  BooksAreTrue
  FeesBounded
PROPERTIES
  KeepsPromises
  NoFalseRefusal
CHECK_DEADLOCK FALSE
