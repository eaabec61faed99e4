CONSTANTS
  owner = owner
  key = key
  Vault = vault
  Usdc = usdc
  NoAddress = none
  Address <- MCAddress
  Owner = owner
  Payees <- MCPayees
  Amount <- MCAmount
  Limit <- MCLimit
  MaxUint = 3
  DayLength = 2
  MaxTime = 3
  MaxSupply = 2
  SorobanDay = 2
  MinLife = 0
  LifeThreshold = 1
  LifeExtend = 2
  MaxDay = 1
SPECIFICATION VaultsSpec
INVARIANTS
  AgentWithinCap
  AgentIsCounted
PROPERTIES
  RevocationHolds
  KeepsPolicy
CHECK_DEADLOCK FALSE
