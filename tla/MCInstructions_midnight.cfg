CONSTANTS
  i1 = i1
  i2 = i2
  Ix <- MCIx
  Amount <- MCAmount
  Batch <- NoIx
  Screened = {}
  DailyCap = 4
  AutoApproveUnder = 3
  Agents <- OnlyNoVault
  MaxTries = 1
  MaxDay = 2
  MaxCrash = 0
SPECIFICATION Spec
INVARIANTS
  CounterIsClaims
CHECK_DEADLOCK FALSE
