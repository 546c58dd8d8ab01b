\* Two SCs with link relay, no fault of any kind.
SPECIFICATION FairSpec
CONSTANTS
  SC <- TwoSCs
  Rank <- TwoRanks
  Dev <- NoDevs
  Kind <- NoKind
  Installed <- NewSite
  LinkLocal = TRUE
  MaxQueue = 2
  MaxAudits = 1
  MaxDeadline = 0
  MaxCrash = 0
  MaxFault = 0
  MaxAnnounce = 0
  MaxCommand = 0
PROPERTIES
  RivalryEnds
\* SCs that are inactive, hard-disabled or out of deadlines rest for good.
CHECK_DEADLOCK FALSE
