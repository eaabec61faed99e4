CONSTANTS
  i1 = i1
  i2 = i2
  Ix <- OneIx
  Amount <- OneAmount
  Batch <- NoIx
  Screened = {}
  DailyCap = 4
  AutoApproveUnder = 3
  Agents <- Payers
  MaxTries = 3
  MaxDay = 1
  MaxCrash = 2
SPECIFICATION FairSpec
INVARIANTS
  StorageKnowsPayments
PROPERTIES
  KeepsPromise
  HoldsResolve
  LandedIsRecorded
CHECK_DEADLOCK FALSE
