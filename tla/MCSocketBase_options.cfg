CONSTANTS
    a = a
    b = b
    c = c
    AppSockets <- MCOneSocket
    AcceptSlots <- MCAcceptSlots
    Fds <- MCFds
    CtorOptions <- MCBlank
    Protocol = "TCP"
    SysFails = TRUE
    Calls <- MCNoCloseCalls
    MaxLen = 4
    MaxCalls = 5
INIT Init
NEXT Next
INVARIANT OptionsMatchFd
CHECK_DEADLOCK FALSE
