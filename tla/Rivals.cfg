\* One SC and two sensors of one type that announce themselves: no power cycle,
\* no command.
SPECIFICATION Spec
CONSTANTS
  SC <- OneSCs
  Rank <- OneRanks
  Dev <- TwinDevs
  Kind <- TwinKind
  Installed <- NewSite
  LinkLocal = FALSE
  MaxQueue = 2
  MaxAudits = 1
  MaxDeadline = 0
  MaxCrash = 0
  MaxFault = 0
  MaxAnnounce = 2
  MaxCommand = 0
INVARIANTS
  RivalsAreServed
\* SCs that are inactive, hard-disabled or out of deadlines rest for good.
CHECK_DEADLOCK FALSE
