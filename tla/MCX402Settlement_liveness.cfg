CONSTANTS
  r1 = r1
  r2 = r2
  this = this
  other = other
  Req <- MCReq
  Nobody = nobody
  Settings <- WriteFails
  MaxTx = 1
  MaxRows = 1
  MaxServed = 2
  MaxCrash = 1
SPECIFICATION FairSpec
PROPERTIES
  PaidIsServed
CHECK_DEADLOCK FALSE
