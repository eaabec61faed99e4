CONSTANTS
  a = a
  b = b
  c = c
  Hosts <- MCHosts
  Settings <- MCSettings
  MaxHeight = 3
  MaxFail = 1
SPECIFICATION FairSpec
INVARIANTS
  DroppedIsTrue
  SettledIsFinal
PROPERTIES
  FateIsKnown
CHECK_DEADLOCK FALSE
