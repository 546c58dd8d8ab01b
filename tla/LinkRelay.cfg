\* Two SCs with link relay, SC 1 archived by SC 2. Either a sensor announces itself
\* once, or a sensor was archived by both, and there are two operator commands and
\* one expiry of a passive deadline.
SPECIFICATION ApartSpec
CONSTANTS
  SC <- TwoSCs
  Rank <- TwoRanks
  Dev <- SensorDevs
  Kind <- SensorKind
  Installed <- MovedSite
  LinkLocal = TRUE
  MaxQueue = 1
  MaxAudits = 1
  MaxDeadline = 1
  MaxCrash = 0
  MaxFault = 0
  MaxAnnounce = 1
  MaxCommand = 2
INVARIANTS
  TypeOK
  AuditHasDriver
  HardDisableDurable
  RivalLeadersWillMeet
  WaitingIsServed
\* SCs that are inactive, hard-disabled or out of deadlines rest for good.
CHECK_DEADLOCK FALSE
