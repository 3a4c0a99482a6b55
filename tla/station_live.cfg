SPECIFICATION FairSpec
CONSTANTS
  Aps = {a1, a2}
  Secure = {a1}
  Listed = {a1}
  Writers = {w1}
  JoinModes = {"psk", "legacy"}
  NoAp = NoAp
  NoKey = NoKey
  NoFrame = NoFrame
  MaxJoins = 2
  MaxFaults = 1
  MaxCross = 0
  MaxStray = 1
  MaxSealed = 0
  MaxRekeys = 0
PROPERTIES
  HandshakeCompletes
  JoinSettles
CHECK_DEADLOCK FALSE
