CONSTANTS
  Active = Active
  Passive = Passive
  WndSize = 2
  MaxPkt = 1
  MaxBytes = 2
  ReadMax = {0}
  AppOps <- MCNoReadShutdownOps
  TransportFails = TRUE
SPECIFICATION FairSpec
INVARIANT WindowConserved
INVARIANT WireRoundTrip
PROPERTY OutputDrains
CHECK_DEADLOCK FALSE
