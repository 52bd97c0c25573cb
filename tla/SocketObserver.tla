--------------------------- MODULE SocketObserver ---------------------------
(***************************************************************************)
(* wawo::net::socket_observer (src/net/socket_observer.cpp): threads ask  *)
(* for watch / unwatch operations, which observer::watch and unwatch      *)
(* queue in m_ops under m_ops_mutex (the push itself is in               *)
(* socket_observer.hpp, not in the repository); the ticker thread calls   *)
(* update(), which applies the queued operations to m_impl in             *)
(* _process_ops() and then polls in check_ioe(); deinit() drops what is   *)
(* queued.  check_ioe() schedules an io_select_task for each ready        *)
(* watched descriptor, whose run() moves the io context's r_state /       *)
(* w_state through POSTED, READING / WRITING and IDLE.                    *)
(*                                                                         *)
(* The poller (observer_impl::select) is not in the repository.  As the   *)
(* asserts of io_select_task::run require, it posts a task only for a     *)
(* context in S_READ_IDLE / S_WRITE_IDLE and sets it to POSTED; it tests  *)
(* r_state under ctx->r_mutex and w_state under ctx->w_mutex.             *)
(***************************************************************************)
EXTENDS Naturals, Sequences, SequencesExt

CONSTANTS
    Threads,   \* threads that call observer::watch / unwatch
    Fds,       \* descriptors with an io context
    MaxPush    \* the watch / unwatch calls each thread makes at most

ASSUME MaxPush \in Nat

Flags == {"READ", "WRITE"}               \* IOE_READ, IOE_WRITE
Keys == Flags \X Fds
Ops == [op : {"WATCH", "UNWATCH"}, key : Keys]   \* event_op
NoOp == [op |-> "NONE", key |-> "none"]         \* no push under way

VARIABLES
    ops,      \* m_ops
    opsLock,  \* the thread holding m_ops_mutex, or "none"
    pushing,  \* the op each thread is queueing under m_ops_mutex, or NoOp
    pushes,   \* the watch / unwatch calls each thread has made
    alive,    \* m_impl != NULL and the ticker scheduled
    tick,     \* the ticker thread: "idle", "lock" (in _process_ops, before
              \* m_ops_mutex) or "poll" (about to call check_ioe)
    watched,  \* the keys m_impl watches
    rState,   \* ctx->r_state per descriptor
    wState,   \* ctx->w_state per descriptor
    rLock,    \* the task holding ctx->r_mutex: "none", "rtask" or "wtask"
    tasks,    \* keys with an io_select_task scheduled and not yet run
    ofailed   \* WAWO_ASSERTs that would fail

ovars == <<ops, opsLock, pushing, pushes, alive, tick, watched,
           rState, wState, rLock, tasks, ofailed>>

OCheck(ok, name) == IF ok THEN ofailed ELSE ofailed \cup {name}

\* The ctor and init(): an empty queue, m_impl allocated, the ticker
\* scheduled; every io context idle.
Init ==
    /\ ops = <<>>
    /\ opsLock = "none"
    /\ pushing = [t \in Threads |-> NoOp]
    /\ pushes = [t \in Threads |-> 0]
    /\ alive = TRUE
    /\ tick = "idle"
    /\ watched = {}
    /\ rState = [f \in Fds |-> "IDLE"]
    /\ wState = [f \in Fds |-> "IDLE"]
    /\ rLock = [f \in Fds |-> "none"]
    /\ tasks = {}
    /\ ofailed = {}
-----------------------------------------------------------------------------
(* observer::watch / unwatch: take m_ops_mutex, then push the operation   *)
(* and release it.  The push is a step of its own: the ticker reads       *)
(* m_ops.empty() without the mutex and may do so in between.              *)
PushBegin(t, o) ==
    /\ pushing[t] = NoOp
    /\ pushes[t] < MaxPush
    /\ opsLock = "none"
    /\ opsLock' = t
    /\ pushing' = [pushing EXCEPT ![t] = o]
    /\ pushes' = [pushes EXCEPT ![t] = @ + 1]
    /\ UNCHANGED <<ops, alive, tick, watched, rState, wState, rLock,
                   tasks, ofailed>>

PushEnd(t) ==
    /\ pushing[t] # NoOp
    /\ ops' = Append(ops, pushing[t])
    /\ pushing' = [pushing EXCEPT ![t] = NoOp]
    /\ opsLock' = "none"
    /\ UNCHANGED <<pushes, alive, tick, watched, rState, wState, rLock,
                   tasks, ofailed>>

(* update() -> _process_ops(): return at once if m_ops.empty().  The read *)
(* is unsynchronised: while a push is under way it may see the queue      *)
(* either way (a data race, modelled as either outcome).                  *)
TickCheck ==
    /\ alive /\ tick = "idle"
    /\ \E seen \in {ops = <<>>} \cup
                   (IF \E t \in Threads : pushing[t] # NoOp THEN BOOLEAN ELSE {}) :
         tick' = IF seen THEN "poll" ELSE "lock"
    /\ UNCHANGED <<ops, opsLock, pushing, pushes, alive, watched,
                   rState, wState, rLock, tasks, ofailed>>

\* Mutant: the OP_WATCH case without its break falls into OP_UNWATCH.
ApplyOpFallThrough(w, o) ==
    IF o.op = "WATCH" THEN (w \cup {o.key}) \ {o.key} ELSE w \ {o.key}

\* m_impl->watch(flag, fd, ...) or m_impl->unwatch(flag, fd)
ApplyOp(w, o) == IF o.op = "WATCH" THEN w \cup {o.key} ELSE w \ {o.key}

(* Under m_ops_mutex, pop and apply every queued operation in order.      *)
TickDrain ==
    /\ tick = "lock"
    /\ opsLock = "none"
    /\ watched' = FoldLeft(LAMBDA w, o : ApplyOp(w, o), watched, ops)
    /\ ops' = <<>>
    /\ tick' = "poll"
    /\ ofailed' = OCheck(alive, "process_ops_impl")
    /\ UNCHANGED <<opsLock, pushing, pushes, alive, rState, wState,
                   rLock, tasks>>

(* check_ioe() with the set of keys the descriptors are ready for: an     *)
(* idle context of a watched, ready key is set to POSTED and its task is  *)
(* scheduled.  Testing r_state waits for ctx->r_mutex.                    *)
TickPoll(ready) ==
    LET due == watched \cap ready
        rpost == {f \in Fds : <<"READ", f>> \in due /\ rState[f] = "IDLE"}
        wpost == {f \in Fds : <<"WRITE", f>> \in due /\ wState[f] = "IDLE"}
    IN /\ tick = "poll"
       /\ \A f \in Fds : <<"READ", f>> \in due => rLock[f] = "none"
       /\ rState' = [f \in Fds |-> IF f \in rpost THEN "POSTED" ELSE rState[f]]
       /\ wState' = [f \in Fds |-> IF f \in wpost THEN "POSTED" ELSE wState[f]]
       /\ tasks' = tasks \cup ({"READ"} \X rpost) \cup ({"WRITE"} \X wpost)
       /\ tick' = "idle"
       /\ UNCHANGED <<ops, opsLock, pushing, pushes, alive, watched,
                      rLock, ofailed>>

(* deinit(): deschedule the ticker (taken to wait for a running update),  *)
(* clear m_ops under m_ops_mutex, deinit and free m_impl.                 *)
Deinit ==
    /\ alive /\ tick = "idle"
    /\ opsLock = "none"
    /\ ops' = <<>>
    /\ watched' = {}
    /\ alive' = FALSE
    /\ UNCHANGED <<opsLock, pushing, pushes, tick, rState, wState,
                   rLock, tasks, ofailed>>
-----------------------------------------------------------------------------
(* io_select_task::run for IOE_READ: under ctx->r_mutex, assert           *)
(* S_READ_POSTED, set S_READING and run the callback; then S_READ_IDLE.   *)
ReadTaskBegin(f) ==
    /\ <<"READ", f>> \in tasks
    /\ rLock[f] = "none"
    /\ rLock' = [rLock EXCEPT ![f] = "rtask"]
    /\ ofailed' = OCheck(rState[f] = "POSTED", "r_state_posted")
    /\ rState' = [rState EXCEPT ![f] = "READING"]
    /\ tasks' = tasks \ {<<"READ", f>>}
    /\ UNCHANGED <<ops, opsLock, pushing, pushes, alive, tick, watched,
                   wState>>

ReadTaskEnd(f) ==
    /\ rLock[f] = "rtask"
    /\ rState' = [rState EXCEPT ![f] = "IDLE"]
    /\ rLock' = [rLock EXCEPT ![f] = "none"]
    /\ UNCHANGED <<ops, opsLock, pushing, pushes, alive, tick, watched,
                   wState, tasks, ofailed>>

(* IOE_WRITE: the same with w_state, but under ctx->r_mutex, not          *)
(* ctx->w_mutex: it excludes the read task and not the poller.            *)
WriteTaskBegin(f) ==
    /\ <<"WRITE", f>> \in tasks
    /\ rLock[f] = "none"
    /\ rLock' = [rLock EXCEPT ![f] = "wtask"]
    /\ ofailed' = OCheck(wState[f] = "POSTED", "w_state_posted")
    /\ wState' = [wState EXCEPT ![f] = "WRITING"]
    /\ tasks' = tasks \ {<<"WRITE", f>>}
    /\ UNCHANGED <<ops, opsLock, pushing, pushes, alive, tick, watched,
                   rState>>

WriteTaskEnd(f) ==
    /\ rLock[f] = "wtask"
    /\ wState' = [wState EXCEPT ![f] = "IDLE"]
    /\ rLock' = [rLock EXCEPT ![f] = "none"]
    /\ UNCHANGED <<ops, opsLock, pushing, pushes, alive, tick, watched,
                   rState, tasks, ofailed>>
-----------------------------------------------------------------------------
Queue == INSTANCE WatchQueue WITH pending <- ops

(* The observer implements WatchQueue with m_ops as the queue: whatever   *)
(* the unlocked m_ops.empty() read in update() sees, and however pushes,  *)
(* ticks and deinit() interleave, m_impl's watched set changes only by    *)
(* applying the oldest queued operations, in the order the threads queued *)
(* them, each once; and every queued operation is eventually applied or  *)
(* dropped by deinit(), so the ticker never stops at a stale "empty".    *)
ImplementsWatchQueue == Queue!Spec
====
