SPECIFICATION FairSpec
CONSTANTS
  Worker = Worker
  Joiner = Joiner
  Usb = Usb
  NoCaller = NoCaller
  Callers <- MCCallers
  Addrs <- Registers
  Ring = 2
  Retries = 1
  Attempts = 1
  MaxValue = 4
  MaxBacklog = 1
  MaxNaks = 0
  Boxes = 2
  MaxJoins = 1
  MaxDisconnects = 1
  MaxInterrupts = 1
  MaxBeacons = 1
PROPERTIES
  CommandWhole
  AssociationSetUp
  WorkerStops
CHECK_DEADLOCK FALSE
