CONSTANTS
  i1 = i1
  i2 = i2
  Ix <- OneIx
  Amount <- OneAmount
  Batch <- OneIx
  Screened = {}
  DailyCap = 4
  AutoApproveUnder = 3
  Agents <- AllAgents
  MaxTries = 3
  MaxDay = 2
  MaxCrash = 0
SPECIFICATION Spec
INVARIANTS
  PaysAtMostOnce
  RecordIsTrue
  MoneyIsCounted
CHECK_DEADLOCK FALSE
