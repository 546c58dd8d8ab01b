\* Two SCs, one of which may lose power once.
SPECIFICATION FairSpec
CONSTANTS
  SC <- TwoSCs
  Rank <- TwoRanks
  Dev <- NoDevs
  Kind <- NoKind
  Installed <- NewSite
  LinkLocal = FALSE
  MaxQueue = 2
  MaxAudits = 1
  MaxDeadline = 0
  MaxCrash = 1
  MaxFault = 0
  MaxAnnounce = 0
  MaxCommand = 0
PROPERTIES
  AuditEnds
\* SCs that are inactive, hard-disabled or out of deadlines rest for good.
CHECK_DEADLOCK FALSE
