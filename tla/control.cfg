SPECIFICATION ControlSpec
CONSTANTS
  Callers = {c1, c2}
  NoCaller = NoCaller
  Addrs = {a1}
  Ring = 2
  Retries = 2
  Attempts = 2
  MaxValue = 3
  MaxBacklog = 3
  MaxNaks = 2
SYMMETRY AlikeCallers
INVARIANTS
  RingHolds
  AnswersTrue
PROPERTIES
  MaskedSparesOthers
CHECK_DEADLOCK FALSE
