SPECIFICATION Spec
CONSTANTS
  Aps = {a1, a2}
  Secure = {a1, a2}
  Listed = {a1, a2}
  Writers = {w1}
  JoinModes = {"mlme"}
  NoAp = NoAp
  NoKey = NoKey
  NoFrame = NoFrame
  MaxJoins = 2
  MaxFaults = 1
  MaxCross = 0
  MaxStray = 0
  MaxSealed = 2
  MaxRekeys = 1
INVARIANTS
  SupplicantKeysAgree
  PnUniqueInSession
CHECK_DEADLOCK FALSE
