CONSTANTS
  r1 = r1
  r2 = r2
  this = this
  other = other
  Req <- MCReq
  Nobody = nobody
  Settings <- HostsLag
  MaxTx = 2
  MaxRows = 2
  MaxServed = 2
  MaxCrash = 0
SPECIFICATION Spec
PROPERTIES
  NeverSentBackAlways
CHECK_DEADLOCK FALSE
