\* One SC and one comfort sensor: nothing fails.
SPECIFICATION FairSiteSpec
CONSTANTS
  SC <- OneSCs
  Rank <- OneRanks
  Dev <- OneDev
  Kind <- Sensor
  Installed <- NewSite
  LinkLocal = FALSE
  MaxQueue = 2
  MaxAudits = 1
  MaxDeadline = 0
  MaxCrash = 0
  MaxFault = 0
  MaxAnnounce = 0
  MaxCommand = 0
  OwnSubnet = 1
  MaxAttempt = 1
  MaxOut = 2
  MaxReplies = 1
  MaxDriven = 0
  MaxInbox = 2
  MaxOutage = 0

PROPERTIES WaitingIsAssigned
\* The device may wait for ever while the SC has no more to do.
CHECK_DEADLOCK FALSE
