\* Each machine of a node that shares no state with the others, on its own.
SPECIFICATION MachinesSpec
CONSTANTS
  \* one device, three sends in a row, two driven events
  Dev <- OneDev
  Request <- OneRequest
  OwnSubnet = 2
  Assignable <- TwoEts
  MaxAttempt = 3
  MaxOut = 2
  MaxReplies = 1
  MaxDriven = 2
  \* both limits of the CAN counters, 128 and 256
  MaxCount = 256
  MaxPush = 2
  \* more alarms than the log keeps
  AlarmNo = {31, 400, 401}
  MaxLog = 2
  MaxReports = 2
  \* two devices of one type: the walk leaves the space of types at once
  EtDev = {8, 9}
  Child = {1, 2}
  Reported = {3}
  EtSpace = 4
  MaxWalk = 2
  MaxOffer = 2
  \* two units
  Unit = {8, 9}
  OpsEt = {16}
  MaxStatus = 1
  Override <- Overrides
INVARIANTS
  DeviceTypeOK AckedIsDurable SpeaksAsStored DisabledStaysDisabled
  CanStateFollowsCounts TroubleIsTold
  LogTellsAlarms
  ArchivedWasOffered
  DefaultsHaveAWitness
  HeardAsSent
PROPERTIES
  StartupEnds
\* a device whose NVM file is torn stays off, and counters are bounded
CHECK_DEADLOCK FALSE
