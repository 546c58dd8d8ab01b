\* Two SCs, one deadline of passive expires.
SPECIFICATION Spec
CONSTANTS
  SC <- TwoSCs
  Rank <- TwoRanks
  Dev <- NoDevs
  Kind <- NoKind
  Installed <- NewSite
  LinkLocal = FALSE
  MaxQueue = 2
  MaxAudits = 1
  MaxDeadline = 1
  MaxCrash = 0
  MaxFault = 0
  MaxAnnounce = 0
  MaxCommand = 0
PROPERTIES
  OnlyBestLeads
\* SCs that are inactive, hard-disabled or out of deadlines rest for good.
CHECK_DEADLOCK FALSE
