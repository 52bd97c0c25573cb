CONSTANTS
  Active = Active
  Passive = Passive
  WndSize = 2
  MaxPkt = 1
  MaxBytes = 0
  ReadMax = {0}
  AppOps <- MCCloseOnlyOps
  TransportFails = FALSE
SPECIFICATION FairSpec
PROPERTY CloseCompletes
CHECK_DEADLOCK FALSE
