SPECIFICATION FairScanSpec
CONSTANTS
  Requesters = {r1, r2}
  SweepLength = 2
  Threads = 2
  MaxFaults = 1
INVARIANTS
  NotifierReaped
  ParkedBetweenSweeps
PROPERTIES
  ScanEnds
CHECK_DEADLOCK FALSE
