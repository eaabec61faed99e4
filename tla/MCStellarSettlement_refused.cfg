CONSTANTS
  r1 = r1
  r2 = r2
  a1 = a1
  a2 = a2
  h1 = h1
  Req <- MCReq
  Auths <- MCAuths
  Hashes <- MCHashes
  Settings <- RefusedSettings
  Daily = 1
  MaxTx = 1
  MaxCalls = 2
  MaxCrash = 1
SPECIFICATION Spec
INVARIANTS
  NoFalseRefusalAlways
  RedeemedOnceAlways
CHECK_DEADLOCK FALSE
