\* Four driven events: a disable, a parameter change, a reset.
SPECIFICATION FairDeviceSpec
CONSTANTS
  Dev <- OneDev
  Request <- OneRequest
  OwnSubnet = 2
  Assignable <- OneEt
  MaxAttempt = 3
  MaxOut = 2
  MaxReplies = 1
  MaxDriven = 4
INVARIANTS DisableIsRemembered
\* A device whose NVM file is torn stays off.
CHECK_DEADLOCK FALSE
