CONSTANTS
  own = own
  other = other
  vendor = vendor
  k1 = k1
  k2 = k2
  x = x
  y = y
  e1 = e1
  e2 = e2
  o1 = o1
  o2 = o2
  Nobody = Nobody
  Addresses <- MCAddresses
  Signers <- MCSigners
  Proofs <- MCProofs
  Payees <- MCPayees
  Edits <- MCEdits
  Orders <- MCOrders
  Caps <- MCCaps
  Scenes <- MCScenes
  MaxFormer = 1
  MaxEdit = 2
  MaxMiss = 1
  MaxReboot = 1
  MaxJobs = 3
  MaxLost = 2
  MaxStop = 1
SYMMETRY Symmetry
SPECIFICATION Spec
INVARIANTS
  VerifiedIsProvenAlways
  ProvenIsKeptAlways
  AllowedIsKnownAlways
  AnsweredIsNotNeededAlways
  RecordSurvivesAlways
  FreezeHoldsAlways
  DroppedIsRevokedAlways
  SettledOnceAlways
  LockstepAlways
CHECK_DEADLOCK FALSE
