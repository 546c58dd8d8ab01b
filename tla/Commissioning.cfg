\* One SC, a sensor and an indoor unit, a power cycle, two announcements, a
\* command.
SPECIFICATION FairSpec
CONSTANTS
  SC <- OneSCs
  Rank <- OneRanks
  Dev <- MixDevs
  Kind <- MixKind
  Installed <- NewSite
  LinkLocal = FALSE
  MaxQueue = 2
  MaxAudits = 1
  MaxDeadline = 0
  MaxCrash = 1
  MaxFault = 0
  MaxAnnounce = 2
  MaxCommand = 1
INVARIANTS
  AssignedIsArchived
  ArchivedTypeIsOwn
  HardDisableDurable
PROPERTIES
  SeenIsAssigned
\* SCs that are inactive, hard-disabled or out of deadlines rest for good.
CHECK_DEADLOCK FALSE
