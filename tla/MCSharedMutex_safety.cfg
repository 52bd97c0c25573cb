CONSTANTS
  t1 = t1
  t2 = t2
  t3 = t3
  Threads <- MCThreads
  Calls <- MCNoDowngrade
  MaxOps = 3
SYMMETRY MCSymmetry
SPECIFICATION Spec
INVARIANT TypeOK
INVARIANT MutualExclusion
INVARIANT NoFailedAsserts
CHECK_DEADLOCK FALSE
PROPERTY UpgradeHoldsOffReaders
