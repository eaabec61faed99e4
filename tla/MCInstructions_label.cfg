CONSTANTS
  i1 = i1
  i2 = i2
  Ix <- MCIx
  Amount <- MCAmount
  Batch <- NoIx
  Screened = {}
  DailyCap = 4
  AutoApproveUnder = 3
  Agents <- OnlyEvmVault
  MaxTries = 2
  MaxDay = 1
  MaxCrash = 1
SPECIFICATION Spec
INVARIANTS
  PaysAtMostOnce
CHECK_DEADLOCK FALSE
