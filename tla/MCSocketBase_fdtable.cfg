CONSTANTS
    a = a
    b = b
    c = c
    AppSockets <- MCAppSockets
    AcceptSlots <- MCAcceptSlots
    Fds <- MCFds
    CtorOptions <- MCBlank
    Protocol = "TCP"
    SysFails = TRUE
    Calls <- MCFdCalls
    MaxLen = 4
    MaxCalls = 5
INIT Init
NEXT Next
SYMMETRY MCSymmetry
INVARIANT TypeOK
INVARIANT FdTableConsistent
INVARIANT IoLoopsExact
CHECK_DEADLOCK FALSE
