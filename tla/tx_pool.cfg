SPECIFICATION FairSpec
CONSTANTS
  Pipes = {p1, p2}
  PerPipe = 1
  Senders = {t1, u1}
  UsbCallers = {u1}
  Closer = Closer
  Usb = Usb
  NoOne = NoOne
  MaxCalls = 3
  MaxCancels = 1
INVARIANTS
  NoSlotLeaks
  SlotExclusive
PROPERTIES
  CallsReturn
  ImplementsPool
CHECK_DEADLOCK FALSE
