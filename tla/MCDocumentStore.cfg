CONSTANTS
  c1 = c1
  c2 = c2
  e1 = e1
  e2 = e2
  Callers <- MCCallers
  Changes <- MCChanges
  MaxFail = 1
  MaxCrash = 1
SPECIFICATION FairSpec
PROPERTIES
  KeepsPromise
  SavedIsWritten
CHECK_DEADLOCK FALSE
