CONSTANTS
  r1 = r1
  r2 = r2
  this = this
  other = other
  Req <- MCReq
  Nobody = nobody
  Settings <- UnsafeWrites
  MaxTx = 1
  MaxRows = 1
  MaxServed = 2
  MaxCrash = 0
SPECIFICATION Spec
INVARIANTS
  SentIsOnRecordAlways
  ServedOnceAlways
CHECK_DEADLOCK FALSE
