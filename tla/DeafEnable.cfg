\* Two driven events: a disable and an enable.
SPECIFICATION FairDeviceSpec
CONSTANTS
  Dev <- OneDev
  Request <- OneRequest
  OwnSubnet = 2
  Assignable <- OneEt
  MaxAttempt = 3
  MaxOut = 2
  MaxReplies = 1
  MaxDriven = 2
PROPERTIES EnableIsObeyed
\* A device whose NVM file is torn stays off.
CHECK_DEADLOCK FALSE
