\* One SC commissions one furnace; each may lose power once, the device also in
\* the middle of a write.
SPECIFICATION SiteSpec
CONSTANTS
  SC <- OneSCs
  Rank <- OneRanks
  Dev <- OneDev
  Kind <- Furnace
  Installed <- NewSite
  LinkLocal = FALSE
  MaxQueue = 2
  MaxAudits = 1
  MaxDeadline = 0
  MaxCrash = 1
  MaxFault = 0
  MaxAnnounce = 0
  MaxCommand = 0
  OwnSubnet = 1
  MaxAttempt = 1
  MaxOut = 2
  MaxReplies = 1
  MaxDriven = 0
  MaxInbox = 2
  MaxOutage = 1
INVARIANTS ArchivedIsHeld
PROPERTIES KeepsPromise
\* A device whose NVM file is torn stays off, and the SC may have no more to do.
CHECK_DEADLOCK FALSE
