CONSTANTS
  Active = Active
  Passive = Passive
  WndSize = 1
  MaxPkt = 1
  MaxBytes = 2
  ReadMax = {0, 1}
  AppOps <- MCAllOps
  TransportFails = TRUE
SPECIFICATION ReadFairSpec
INVARIANT TypeOK
INVARIANT StreamIntegrity
INVARIANT NoFailedAsserts
INVARIANT FinAtMostOnce
CHECK_DEADLOCK FALSE
PROPERTY ImplementsBytePipe
