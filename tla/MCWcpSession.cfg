CONSTANTS
    So = So
    App = App
    FdC = FdC
    FdO = FdO
    MaxPush = 2
    MaxChunk = 3
    MaxRounds = 2
SPECIFICATION Spec
INVARIANT NoFailedAsserts
INVARIANT TransferIntact
PROPERTY ImplementsWatchQueue
PROPERTY TransferCompletes
CHECK_DEADLOCK FALSE
