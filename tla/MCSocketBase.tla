---------------------------- MODULE MCSocketBase ----------------------------
EXTENDS SocketBase, TLC

CONSTANTS a, b, c

MCAppSockets == {a, b}
MCOneSocket == {a}
MCAcceptSlots == {c}
MCFds == {1, 2}
MCBlank == {{}}
MCAnyCtor == {{}, {"NONBLOCK"}}

MCAllCalls == {"open", "close", "shutdown", "bind", "listen", "accept", "sockopt",
               "connect", "nonblocking", "nodelay", "reuse_addr", "send", "recv"}
\* Every call but close(): no socket is opened a second time.
MCNoCloseCalls == MCAllCalls \ {"close"}
\* The calls that allocate, use or release a descriptor.
MCFdCalls == {"open", "close", "bind", "listen", "accept", "connect", "send", "recv"}
MCStaleCalls == {"open", "close", "nonblocking"}

MCSymmetry == Permutations(MCAppSockets)
====
