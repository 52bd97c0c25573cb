---------------------------- MODULE SocketBase ----------------------------
(***************************************************************************)
(* The state machine of wawo::net::socket_base (src/net/socket_base.cpp)   *)
(* for a set of socket objects that share one process descriptor table.   *)
(*                                                                         *)
(* Every call that takes m_mutexes[L_SOCKET] (open, close, shutdown, bind,*)
(* listen, connect and the option toggles) is one atomic step.  The calls *)
(* that test a flag or the state without L_SOCKET and then use m_fd are   *)
(* split in two steps: send and recv (the test of m_wflag / m_rflag) and  *)
(* accept (the test of m_state before L_READ).                            *)
(*                                                                         *)
(* The operating system is modelled by the set of open descriptors osFds, *)
(* allocated lowest-first as POSIX socket() and accept() do, and by the   *)
(* option bits osOpt actually set on each descriptor.                     *)
(***************************************************************************)
EXTENDS Integers, FiniteSets, SocketIo

CONSTANTS
    AppSockets,   \* socket objects the application constructs (the dummy ctor)
    AcceptSlots,  \* socket objects that accept() may construct
    Fds,          \* descriptor numbers the process may get, a set 1..N
    CtorOptions,  \* the option sets the application may pass to the ctor
    Protocol,     \* "TCP" or "WCP": which fcntl _set_options uses
    SysFails,     \* TRUE if bind, listen, connect and setsockopt may fail
    Calls         \* the calls the application makes

ASSUME Fds \subseteq Nat \ {0} /\ Protocol \in {"TCP", "WCP"}
ASSUME SysFails \in BOOLEAN

Sockets == AppSockets \cup AcceptSlots

\* m_state; "UNUSED" is an accept slot no socket object exists for yet.
SStates == {"UNUSED", "CLOSED", "OPENED", "BINDED", "LISTEN",
            "CONNECTING", "CONNECTED"}
\* m_sm
Modes == {"NONE", "ACTIVE", "PASSIVE", "LISTENER"}
\* The OPTION_* bits _set_options handles for a stream socket, in the
\* order it applies them (OPTION_REUSEPORT follows the REUSEADDR pattern).
OptOrder == <<"REUSEADDR", "NONBLOCK", "NODELAY">>
OptNames == {OptOrder[i] : i \in 1..3}

VARIABLES
    state,    \* m_state
    sm,       \* m_sm
    fd,       \* m_fd, -1 until open()
    rflag,    \* m_rflag has SHUTDOWN_RD
    wflag,    \* m_wflag has SHUTDOWN_WR
    option,   \* m_option
    pend,     \* calls past their unlocked test: "send", "recv", "accept"
    osFds,    \* descriptors open in the process
    osOpt,    \* option bits set on each descriptor
    foreign,  \* calls that reached a descriptor their socket does not own
    failed    \* WAWO_ASSERTs that would fail

vars == <<state, sm, fd, rflag, wflag, option, pend, osFds, osOpt,
          foreign, failed>>

\* A socket object that owns its descriptor: opened and not yet closed.
Live == {s \in Sockets : state[s] \notin {"UNUSED", "CLOSED"}}

\* The socket's m_fd is open in the process, but not as its own descriptor.
Foreign(s) == fd[s] \in osFds /\ s \notin Live

FreeFds == Fds \ osFds
LowestFree == CHOOSE f \in FreeFds : \A g \in FreeFds : f <= g

Check(ok, name) == IF ok THEN failed ELSE failed \cup {name}

\* The dummy ctors (socket_base.cpp:445-493) give the application sockets
\* S_CLOSED, fd -1, both shutdown flags and the caller's options.
Init ==
    /\ state = [s \in Sockets |-> IF s \in AppSockets THEN "CLOSED" ELSE "UNUSED"]
    /\ sm = [s \in Sockets |-> "NONE"]
    /\ fd = [s \in Sockets |-> -1]
    /\ rflag = [s \in Sockets |-> TRUE]
    /\ wflag = [s \in Sockets |-> TRUE]
    /\ \E co \in [AppSockets -> CtorOptions] :
          option = [s \in Sockets |-> IF s \in AppSockets THEN co[s] ELSE {}]
    /\ pend = [s \in Sockets |-> {}]
    /\ osFds = {}
    /\ osOpt = [f \in Fds |-> {}]
    /\ foreign = {}
    /\ failed = {}

-----------------------------------------------------------------------------
(* open(): WAWO_ASSERT(m_fd == -1) fails on a socket opened before, since  *)
(* _close leaves m_fd alone.  socket() fails when no descriptor is free.   *)
(* The _set_options(m_option) call compares m_option with itself, so it    *)
(* sets nothing on the new descriptor, whatever the ctor options were.     *)
Open(s) ==
    /\ s \in AppSockets
    /\ state[s] = "CLOSED"
    /\ FreeFds # {}
    /\ fd' = [fd EXCEPT ![s] = LowestFree]
    /\ osFds' = osFds \cup {LowestFree}
    /\ osOpt' = [osOpt EXCEPT ![LowestFree] = {}]
    /\ rflag' = [rflag EXCEPT ![s] = FALSE]
    /\ wflag' = [wflag EXCEPT ![s] = FALSE]
    /\ state' = [state EXCEPT ![s] = "OPENED"]
    /\ failed' = Check(fd[s] = -1, "open_fd_reset")
    /\ UNCHANGED <<sm, option, pend, foreign>>

\* Mutant: m_fd reset to 0 instead of keeping the old number.
CloseResetsFdZero(s) ==
    /\ state[s] # "UNUSED"
    /\ rflag' = [rflag EXCEPT ![s] = TRUE]
    /\ wflag' = [wflag EXCEPT ![s] = TRUE]
    /\ IF state[s] = "CLOSED"
         THEN UNCHANGED <<state, osFds, fd>>
         ELSE /\ osFds' = osFds \ {fd[s]}
              /\ state' = [state EXCEPT ![s] = "CLOSED"]
              /\ fd' = [fd EXCEPT ![s] = 0]
    /\ UNCHANGED <<sm, option, pend, osOpt, foreign, failed>>

\* Mutant: _close without its S_CLOSED early return closes m_fd again.
CloseTwice(s) ==
    /\ state[s] # "UNUSED"
    /\ rflag' = [rflag EXCEPT ![s] = TRUE]
    /\ wflag' = [wflag EXCEPT ![s] = TRUE]
    /\ osFds' = IF fd[s] = -1 THEN osFds ELSE osFds \ {fd[s]}
    /\ state' = [state EXCEPT ![s] = "CLOSED"]
    /\ UNCHANGED <<sm, fd, option, pend, osOpt, foreign, failed>>

(* close(): set both shutdown flags, then _close: a closed socket returns *)
(* E_INVALID_OPERATION; otherwise the descriptor is closed and the state  *)
(* becomes S_CLOSED, m_fd keeping the old number.                          *)
Close(s) ==
    /\ state[s] # "UNUSED"
    /\ rflag' = [rflag EXCEPT ![s] = TRUE]
    /\ wflag' = [wflag EXCEPT ![s] = TRUE]
    /\ IF state[s] = "CLOSED"
         THEN UNCHANGED <<state, osFds>>
         ELSE /\ osFds' = osFds \ {fd[s]}
              /\ state' = [state EXCEPT ![s] = "CLOSED"]
    /\ UNCHANGED <<sm, fd, option, pend, osOpt, foreign, failed>>
-----------------------------------------------------------------------------
(* _set_options(options): nothing happens when m_fd < 0.  Otherwise each  *)
(* option whose bit differs between m_option and options is set, in the  *)
(* order OptOrder; the first call that fails returns at once, leaving the *)
(* options before it applied.  A call on a closed descriptor fails; on a  *)
(* descriptor reused by another socket it succeeds and changes that one.  *)
(* Changing REUSEADDR asserts S_OPENED.  On WCP, turning NONBLOCK off     *)
(* computes mode &= WCP_O_NONBLOCK, which keeps the bit set.              *)
Changes(s, target) == {i \in 1..3 : (OptOrder[i] \in option[s]) # (OptOrder[i] \in target)}

\* The bits a successful call really changes on the descriptor.
OsEffect(cur, applied, target) ==
    LET off == IF Protocol = "WCP" THEN (applied \ target) \ {"NONBLOCK"}
                                   ELSE applied \ target
    IN (cur \ off) \cup (applied \cap target)

\* Mutant: m_option takes every asked bit, even past a failed call.
SetOptionsIgnoresFailure(s, target) ==
    LET f  == fd[s]
        ch == Changes(s, target)
    IN /\ f # -1
       /\ \E stop \in ch \cup {4} :
            LET applied == {OptOrder[i] : i \in {j \in ch : j < stop}}
            IN /\ stop \in ch => (f \notin osFds \/ SysFails)
               /\ applied # {} => f \in osFds
               /\ option' = [option EXCEPT ![s] = target]
               /\ osOpt' = IF applied = {} THEN osOpt
                           ELSE [osOpt EXCEPT ![f] = OsEffect(@, applied, target)]
               /\ failed' = Check(1 \in ch => state[s] = "OPENED", "reuseaddr_state")
       /\ foreign' = IF ch # {} /\ Foreign(s) THEN foreign \cup {"options"} ELSE foreign
       /\ UNCHANGED <<state, sm, fd, rflag, wflag, pend, osFds>>

SetOptions(s, target) ==
    LET f  == fd[s]
        ch == Changes(s, target)
    IN /\ f # -1
       /\ \E stop \in ch \cup {4} :
            LET applied == {OptOrder[i] : i \in {j \in ch : j < stop}}
            IN /\ stop \in ch => (f \notin osFds \/ SysFails)
               /\ applied # {} => f \in osFds
               /\ option' = [option EXCEPT ![s] = (@ \ applied) \cup (applied \cap target)]
               /\ osOpt' = IF applied = {} THEN osOpt
                           ELSE [osOpt EXCEPT ![f] = OsEffect(@, applied, target)]
               /\ failed' = Check(1 \in ch => state[s] = "OPENED", "reuseaddr_state")
       /\ foreign' = IF ch # {} /\ Foreign(s) THEN foreign \cup {"options"} ELSE foreign
       /\ UNCHANGED <<state, sm, fd, rflag, wflag, pend, osFds>>

\* turnon_nonblocking / turnoff_nonblocking / turnon_nodelay / turnoff_nodelay:
\* under L_SOCKET, return at once if the bit is already as asked.
TurnOn(s, o) ==
    /\ state[s] # "UNUSED"
    /\ o \notin option[s]
    /\ SetOptions(s, option[s] \cup {o})

TurnOff(s, o) ==
    /\ state[s] # "UNUSED"
    /\ o \in option[s]
    /\ SetOptions(s, option[s] \ {o})

\* reuse_addr(): no early return.  It reads m_option without L_SOCKET;
\* the model takes the read and _set_options as one step.
ReuseAddr(s) ==
    /\ state[s] # "UNUSED"
    /\ SetOptions(s, option[s] \cup {"REUSEADDR"})

(* The option calls that take no lock and call setsockopt / getsockopt on *)
(* m_fd at once.  set_snd_buffer_size, set_rcv_buffer_size, set_linger,   *)
(* set_tos and the buffer and linger getters first WAWO_ASSERT(m_fd > 0); *)
(* get_tos and turnon/turnoff_keep_alive assert nothing.                  *)
(* set_keep_alive_vals and get_keep_alive_vals return OK on WCP before    *)
(* any call, and otherwise reach m_fd unchecked.  The options they set    *)
(* are not m_option bits, so only the descriptor they reach matters.      *)
SockOptCalls == {"buffer_size", "linger", "tos", "get_tos", "keep_alive", "keep_alive_vals"}

AssertsFd(c) == c \in {"buffer_size", "linger", "tos"}
ReachesFd(c) == ~(c = "keep_alive_vals" /\ Protocol = "WCP")

SockOpt(s, c) ==
    /\ state[s] # "UNUSED"
    /\ failed' = Check(AssertsFd(c) => fd[s] > 0, "sockopt_fd")
    /\ foreign' = IF Foreign(s) /\ ReachesFd(c)
                  THEN foreign \cup {"sockopt"} ELSE foreign
    /\ UNCHANGED <<state, sm, fd, rflag, wflag, option, pend, osFds, osOpt>>

(* shutdown(flag): asserts a data socket; sets each asked flag not yet set *)
(* and calls ::shutdown for those, or returns E_INVALID_OPERATION if none. *)
Shutdown(s, how) ==
    /\ state[s] # "UNUSED"
    /\ LET sflag == {d \in how : IF d = "RD" THEN ~rflag[s] ELSE ~wflag[s]}
       IN /\ rflag' = [rflag EXCEPT ![s] = @ \/ "RD" \in how]
          /\ wflag' = [wflag EXCEPT ![s] = @ \/ "WR" \in how]
          /\ foreign' = IF sflag # {} /\ Foreign(s) THEN foreign \cup {"shutdown"}
                        ELSE foreign
    /\ failed' = Check(sm[s] \in {"ACTIVE", "PASSIVE"}, "shutdown_data_socket")
    /\ UNCHANGED <<state, sm, fd, option, pend, osFds, osOpt>>

(* bind(): asserts S_OPENED and SM_NONE; on success S_BINDED.             *)
Bind(s) ==
    /\ state[s] = "OPENED"
    /\ failed' = Check(sm[s] = "NONE", "bind_sm_none")
    /\ \/ state' = [state EXCEPT ![s] = "BINDED"]
       \/ SysFails /\ UNCHANGED state
    /\ UNCHANGED <<sm, fd, rflag, wflag, option, pend, osFds, osOpt, foreign>>

(* listen(): asserts SM_NONE and S_BINDED; on success the socket is a     *)
(* listener in S_LISTEN.                                                   *)
Listen(s) ==
    /\ state[s] = "BINDED"
    /\ failed' = Check(sm[s] = "NONE", "listen_sm_none")
    /\ \/ /\ sm' = [sm EXCEPT ![s] = "LISTENER"]
          /\ state' = [state EXCEPT ![s] = "LISTEN"]
       \/ SysFails /\ UNCHANGED <<sm, state>>
    /\ UNCHANGED <<fd, rflag, wflag, option, pend, osFds, osOpt, foreign>>

(* connect(): E_INVALID_STATE unless S_OPENED or S_BINDED; _connect       *)
(* asserts SM_NONE and sets m_sm = SM_ACTIVE before ::connect.  Success   *)
(* gives S_CONNECTED.  A descriptor that is really non-blocking answers   *)
(* EINPROGRESS, which gives S_CONNECTING only if m_option says            *)
(* non-blocking; every other failure returns with m_sm left SM_ACTIVE.    *)
Connect(s) ==
    /\ state[s] \in {"OPENED", "BINDED"}
    /\ failed' = Check(sm[s] = "NONE", "connect_sm_none")
    /\ sm' = [sm EXCEPT ![s] = "ACTIVE"]
    /\ \/ state' = [state EXCEPT ![s] = "CONNECTED"]
       \/ /\ "NONBLOCK" \in osOpt[fd[s]]
          /\ state' = [state EXCEPT ![s] =
                IF "NONBLOCK" \in option[s] THEN "CONNECTING" ELSE @]
       \/ SysFails /\ UNCHANGED state
    /\ UNCHANGED <<fd, rflag, wflag, option, pend, osFds, osOpt, foreign>>
-----------------------------------------------------------------------------
(* send() and recv(), and sendto() and recvfrom(), test m_wflag / m_rflag *)
(* without L_WRITE / L_READ and then call m_fn_send / m_fn_recv (or, off  *)
(* S_CONNECTED, m_fn_sendto / m_fn_recvfrom) on m_fd: a close() or        *)
(* shutdown() may run in between.  A call on a closed descriptor fails.   *)
IoCheck(s, op) ==
    /\ op \notin pend[s]
    /\ IF op = "send" THEN ~wflag[s] ELSE ~rflag[s]
    /\ pend' = [pend EXCEPT ![s] = @ \cup {op}]
    /\ UNCHANGED <<state, sm, fd, rflag, wflag, option, osFds, osOpt, foreign, failed>>

IoCall(s, op) ==
    /\ op \in pend[s]
    /\ pend' = [pend EXCEPT ![s] = @ \ {op}]
    /\ foreign' = IF Foreign(s) THEN foreign \cup {op} ELSE foreign
    /\ UNCHANGED <<state, sm, fd, rflag, wflag, option, osFds, osOpt, failed>>

(* accept(): asserts SM_LISTENER and returns E_INVALID_STATE unless       *)
(* S_LISTEN, both without L_SOCKET; then, under L_READ, ::accept on m_fd. *)
AcceptCheck(s) ==
    /\ sm[s] = "LISTENER"
    /\ state[s] = "LISTEN"
    /\ "accept" \notin pend[s]
    /\ pend' = [pend EXCEPT ![s] = @ \cup {"accept"}]
    /\ UNCHANGED <<state, sm, fd, rflag, wflag, option, osFds, osOpt, foreign, failed>>

(* The ctor of an accepted socket: descriptor f, SM_PASSIVE, S_CONNECTED, *)
(* no shutdown flags, OPTION_NONE.                                         *)
CtorAccepted(n, f) ==
    /\ state' = [state EXCEPT ![n] = "CONNECTED"]
    /\ sm' = [sm EXCEPT ![n] = "PASSIVE"]
    /\ fd' = [fd EXCEPT ![n] = f]
    /\ rflag' = [rflag EXCEPT ![n] = FALSE]
    /\ wflag' = [wflag EXCEPT ![n] = FALSE]
    /\ option' = [option EXCEPT ![n] = {}]

(* The loop of accept() for size 1: a connection queued on the listening  *)
(* descriptor becomes a new socket_base.  Otherwise the call ends with    *)
(* EWOULDBLOCK, EBADF or EMFILE and constructs nothing.                   *)
Listening(f) == \E t \in Sockets : fd[t] = f /\ state[t] = "LISTEN"

AcceptCall(s) ==
    /\ "accept" \in pend[s]
    /\ pend' = [pend EXCEPT ![s] = @ \ {"accept"}]
    /\ foreign' = IF Foreign(s) THEN foreign \cup {"accept"} ELSE foreign
    /\ \/ /\ fd[s] \in osFds
          /\ Listening(fd[s])
          /\ FreeFds # {}
          /\ \E n \in AcceptSlots :
               /\ state[n] = "UNUSED"
               /\ CtorAccepted(n, LowestFree)
               /\ osFds' = osFds \cup {LowestFree}
               /\ osOpt' = [osOpt EXCEPT ![LowestFree] = {}]
       \/ UNCHANGED <<state, sm, fd, rflag, wflag, option, osFds, osOpt>>
    /\ UNCHANGED failed

-----------------------------------------------------------------------------
Directions == {{"RD"}, {"WR"}, {"RD", "WR"}}

Next ==
    \E s \in Sockets :
        \/ "open" \in Calls /\ Open(s)
        \/ "close" \in Calls /\ Close(s)
        \/ "shutdown" \in Calls /\ \E how \in Directions : Shutdown(s, how)
        \/ "bind" \in Calls /\ Bind(s)
        \/ "listen" \in Calls /\ Listen(s)
        \/ "accept" \in Calls /\ AcceptCheck(s)
        \/ AcceptCall(s)
        \/ "connect" \in Calls /\ Connect(s)
        \/ "nonblocking" \in Calls /\ (TurnOn(s, "NONBLOCK") \/ TurnOff(s, "NONBLOCK"))
        \/ "nodelay" \in Calls /\ (TurnOn(s, "NODELAY") \/ TurnOff(s, "NODELAY"))
        \/ "reuse_addr" \in Calls /\ ReuseAddr(s)
        \/ "sockopt" \in Calls /\ \E c \in SockOptCalls : SockOpt(s, c)
        \/ \E op \in {"send", "recv"} :
              \/ op \in Calls /\ IoCheck(s, op)
              \/ IoCall(s, op)

Spec == Init /\ [][Next]_vars

-----------------------------------------------------------------------------
TypeOK ==
    /\ state \in [Sockets -> SStates]
    /\ sm \in [Sockets -> Modes]
    /\ fd \in [Sockets -> Fds \cup {-1}]
    /\ rflag \in [Sockets -> BOOLEAN]
    /\ wflag \in [Sockets -> BOOLEAN]
    /\ option \in [Sockets -> SUBSET OptNames]
    /\ pend \in [Sockets -> SUBSET {"send", "recv", "accept"}]
    /\ osFds \subseteq Fds
    /\ osOpt \in [Fds -> SUBSET OptNames]
    /\ foreign \subseteq {"options", "sockopt", "shutdown", "send", "recv", "accept"}

(* The descriptor table and the sockets agree: every open descriptor is   *)
(* owned by exactly one live socket and every live socket owns an open    *)
(* one.  It fails if close() leaks a descriptor, if open() or accept()    *)
(* takes one in use, or if a stale m_fd is closed a second time.          *)
FdTableConsistent ==
    /\ osFds = {fd[s] : s \in Live}
    /\ \A s, t \in Live : s # t => fd[s] # fd[t]

(* No call of a socket reaches a descriptor that is not its own: after    *)
(* close() the stale m_fd may name a descriptor the process has given to  *)
(* another socket, and a later option call (a toggle, or one of the      *)
(* unlocked setsockopt calls), or a send, recv or accept that passed its  *)
(* unlocked test before the close, acts on that socket.                   *)
NoForeignFdUse == foreign = {}

(* What m_option says of every live socket is what is set on its          *)
(* descriptor: is_nonblocking() decides how connect() and the observer    *)
(* treat the socket, so the two must agree.                                *)
OptionsMatchFd == \A s \in Live : option[s] = osOpt[fd[s]]

(* Every send() or recv() past its flag test runs a loop (m_fn_send /    *)
(* m_fn_recv, SocketIo) that returns exactly the bytes the kernel moved   *)
(* in the calls it made and stops at the call that ends the request or    *)
(* fails for good: a send that blocks or fails after part of its buffer   *)
(* was taken still reports that part (socket_base.cpp:72-98, 277-296), so *)
(* a caller that resends from the count neither loses nor repeats bytes.  *)
IoLoopsExact ==
  \A s \in Sockets :
     /\ "send" \in pend[s] => SendLoopsExact
     /\ "recv" \in pend[s] => RecvLoopsExact

(* No WAWO_ASSERT fails: a connect retried after a failed connect, or a   *)
(* bind after it, asserts m_sm == SM_NONE.                                *)
NoFailedAsserts == failed = {}
====
