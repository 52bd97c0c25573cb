CONSTANTS
  t1 = t1
  t2 = t2
  t3 = t3
  Threads <- MCThreads
  Calls <- MCAllCalls
  MaxOps = 2
SPECIFICATION FairSpec
PROPERTY WaitersProceed
CHECK_DEADLOCK FALSE
