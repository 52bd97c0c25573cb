CONSTANTS
  Active = Active
  Passive = Passive
  WndSize = 2
  MaxPkt = 1
  MaxBytes = 2
  ReadMax = {0}
  AppOps <- MCWriteCloseOps
  TransportFails = FALSE
SPECIFICATION Spec
PROPERTY NoDataAfterFin
CHECK_DEADLOCK FALSE
