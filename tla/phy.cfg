SPECIFICATION Spec
CONSTANTS
  Callers = {sweep, client}
  Channels = {6, 36, 149}
  Widths = {20}
  Paths = 2
  Burnt <- MCBurnt
  MaxCalls = 3
  MaxLost = 1
INVARIANTS
  RadioWhole
  BandBeforeSynth
  CleanCallSets
PROPERTIES
  OkMeansTuned
CHECK_DEADLOCK FALSE
SYMMETRY MCSymmetry
