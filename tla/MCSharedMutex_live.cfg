CONSTANTS
  t1 = t1
  t2 = t2
  t3 = t3
  Threads <- MCThreads
  Calls <- MCNoUpgradeToLock
  MaxOps = 3
SPECIFICATION FairSpec
PROPERTY WaitersProceed
CHECK_DEADLOCK FALSE
