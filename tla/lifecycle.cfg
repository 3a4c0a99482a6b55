SPECIFICATION FairSpec
CONSTANTS
  Devices = {d1, d2}
  SlotCount = 2
  Clients = {c1, c2}
  NoDevice = NoDevice
  NoOne = NoOne
  Bus = Bus
  MaxOpens = 4
INVARIANTS
  ListExact
  NoUseAfterDelete
  OpenReceives
PROPERTIES
  RemovedDeviceDies
CHECK_DEADLOCK FALSE
