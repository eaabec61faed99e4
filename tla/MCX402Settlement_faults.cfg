CONSTANTS
  r1 = r1
  r2 = r2
  this = this
  other = other
  Req <- MCReq
  Nobody = nobody
  Settings <- MCSettings
  MaxTx = 2
  MaxRows = 2
  MaxServed = 3
  MaxCrash = 1
SPECIFICATION Spec
INVARIANTS
  BroadcastOnce
  SentIsOnRecord
  ServedIsPaid
PROPERTIES
  NeverSentBack
  KeepsPromise
CHECK_DEADLOCK FALSE
