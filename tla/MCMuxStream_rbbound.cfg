CONSTANTS
  Active = Active
  Passive = Passive
  WndSize = 2
  MaxPkt = 1
  MaxBytes = 3
  ReadMax = {0}
  AppOps <- MCCloseReadOps
  TransportFails = FALSE
SPECIFICATION Spec
INVARIANT ReadBufferBound
CHECK_DEADLOCK FALSE
