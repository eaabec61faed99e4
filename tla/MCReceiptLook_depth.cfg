CONSTANTS
  a = a
  b = b
  c = c
  Hosts <- MCHosts
  Settings <- MCSettings
  MaxHeight = 3
  MaxFail = 1
SPECIFICATION Spec
INVARIANT SettledIsFinalAlways
CHECK_DEADLOCK FALSE
