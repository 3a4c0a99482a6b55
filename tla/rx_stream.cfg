SPECIFICATION Spec
CONSTANTS
  Buffers = 2
  RingSlots = 3
  Readers = {r1, r2}
  DrainAttempts = 2
  MaxFrames = 3
  MaxErrors = 1
  MaxCloses = 2
SYMMETRY AlikeReaders
INVARIANTS
  InFlightExact
  FramesHaveTokens
  CloseWakesReaders
CHECK_DEADLOCK FALSE
