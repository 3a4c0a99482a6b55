SPECIFICATION FairSpec
CONSTANTS
  LoadAttempts = 2
  Chunks <- MCChunks
  Cells = 8
  MapSize = 16
  MacAt = 0
  MacLength = 2
  Fuses <- MCFuses
  MaxOpens = 2
  MaxFaults = 1
INVARIANTS
  
  UpMeansReady
  MapIsTheFuses
PROPERTIES
  BringUpEnds
CHECK_DEADLOCK FALSE
