\* Two SCs of different rank on a new site; the sends of one may fail and recover.
SPECIFICATION FairSpec
CONSTANTS
  SC <- TwoSCs
  Rank <- TwoRanks
  Dev <- NoDevs
  Kind <- NoKind
  Installed <- NewSite
  LinkLocal = FALSE
  MaxQueue = 2
  MaxAudits = 1
  MaxDeadline = 0
  MaxCrash = 0
  MaxFault = 1
  MaxAnnounce = 0
  MaxCommand = 0
INVARIANTS
  RivalLeadersWillMeet
PROPERTIES
  RivalryEnds
  AuditEnds
\* SCs that are inactive, hard-disabled or out of deadlines rest for good.
CHECK_DEADLOCK FALSE
