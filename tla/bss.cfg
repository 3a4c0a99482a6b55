SPECIFICATION Spec
CONSTANTS
  a1 = a1
  a2 = a2
  a3 = a3
  s1 = s1
  s2 = s2
  NoAp = NoAp
  NoSsid = NoSsid
  Size = 2
  Aps <- MCAps
  Ssids <- MCSsids
  Channels <- MCChannels
  Transfers <- MCTransfers
  Given <- MCGiven
  MaxResults = 2
  MaxTransfers = 3
  MaxJoins = 1
  MaxAges = 1
INVARIANTS
  WalkDelivers
  TableConsistent
PROPERTIES
  LeavesForAReason
  ResultsWhole
  JoinTargetHeard
CHECK_DEADLOCK FALSE
