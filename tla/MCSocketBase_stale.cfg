CONSTANTS
    a = a
    b = b
    c = c
    AppSockets <- MCAppSockets
    AcceptSlots <- MCAcceptSlots
    Fds <- MCFds
    CtorOptions <- MCBlank
    Protocol = "TCP"
    SysFails = FALSE
    Calls <- MCStaleCalls
    MaxLen = 4
    MaxCalls = 5
INIT Init
NEXT Next
INVARIANT NoForeignFdUse
CHECK_DEADLOCK FALSE
