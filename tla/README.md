# TLA+ models of wawo

This directory holds TLA+ models of the concurrent parts of wawo. TLC checks each of them. The sources are under `src/`. `spec.md` is the design document.

## The system and its parts

| part | source | status | module |
|---|---|---|---|
| Mux stream (`class stream`) | `include/wawo/net/peer/message/mux_cargo.hpp` | modelled | `MuxStream`, refining `BytePipe` |
| Flush driver, dispatch, teardown, sweep | not in `src/` (`_mux.hpp`); design §4.3–4.4 | modelled from the design | `MuxStream` |
| Frame codec (`mux_cargo::encode`, `bytes_helper`) | `mux_cargo.hpp`, `include/wawo/bytes_helper.hpp` | modelled (decode from the design) | `FrameCodec` |
| Reader/writer lock (`_impl_::shared_mutex`) | `include/wawo/thread/Mutex.hpp` | modelled | `SharedMutex` |
| Socket state machine (`socket_base`) | `src/net/socket_base.cpp` | modelled in part | `SocketBase`, `SocketIo` |
| Socket observer (op queue, ticker update, select tasks) | `src/net/socket_observer.cpp` | modelled in part: the poller is not in the repository | `SocketObserver` |
| Socket pipeline (handler chain) | `src/net/socket_pipeline.cpp` | not modelled: only `init`/`deinit` are in the repository | — |
| wcp test client (`client_req_handler`) | `test/wcp/src/client.cpp` | modelled in part: `main()` is set-up only | `WcpClient`, composed in `MCWcpSession` |
| HTTP utilities | `src/net/protocol/http_utils.cpp` | not modelled: wraps a third-party parser | — |
| Windows environment | `include/wawo/env/Env_Impl_win32.hpp` | not modelled: platform I/O | — |
| Config, constants, logging, compiler headers | various | not modelled: definitions only | — |

### How the parts interact

An application thread opens a stream on a mux session. It then calls `write`, `read`, `close_read`, `close_write` and `close` on the stream.

The session's driver thread ticks `update()` on every stream. In the established state, `update()` flushes the stream:
- a planned SYN;
- DATA, up to the send window;
- the planned FIN, once the write buffer is empty;
- a window update (UWND) returning the read credit.

These frames go through the one shared socket.

Frames from the peer are dispatched to the stream with their id:
- DATA goes into the read buffer;
- UWND grows the send window;
- FIN ends the read side;
- a SYN for an unknown id creates the passive stream.

When the socket fails, the stream is force-closed. A stream with both directions shut down is recycled and then swept from the table.

The socket observer serves the sockets' readiness. A thread asks for a watch or an unwatch. The request is queued in `m_ops` under `m_ops_mutex`. The observer's ticker thread calls `update()`. It first applies the queue to the poller (`_process_ops`) and then polls (`check_ioe`). For each ready watched descriptor, the poller schedules an `io_select_task`. The task's `run()` moves the context's `r_state` or `w_state` through POSTED, READING or WRITING, and back to IDLE, and calls the socket's handler in between. The wcp test client's `client_req_handler::read` is such a handler, and it runs inside the read task of its socket.

Each stream guards its state with three spin locks: `mutex`, `rb_mutex` and `wb_mutex`. `shared_mutex` is the library's reader/writer lock.

## Modules

### `MuxStream` (with `MCMuxStream`)

This module models one stream, seen from both of its ends: `Active` opens it and `Passive` accepts it. The transport is modelled as two FIFO channels of frames, one per direction.

Bytes are abstracted to their position in the writer's stream. So `wb` and `rb` are sequences of positions, and `written` counts the positions accepted so far. Two history variables, `delivered` and `sentFin`, record what `read()` returned and how many FINs were sent. `failed` collects the `WAWO_ASSERT`s that would fail.

| action | code |
|---|---|
| `Open` | `stream::open`, `_snd_syn` |
| `WriteCheck` | `write()` up to its unlocked flag test (line 127) |
| `WriteCommit` | `write()` under `wb_mutex`; refuses the whole packet if it does not fit |
| `Read` | `read(pack, max)` |
| `CloseRead` | `close_read()` |
| `CloseWrite` | `close_write()`, `_snd_fin` asserts |
| `Close` | `close()` |
| `FlushOk` | `update()` in `SS_ESTABLISHED`; `_flush`, where every send is accepted |
| `FlushFail` | `update()` in `SS_ESTABLISHED` when the send after the first k is refused; see below |
| `UpdateClosed` | `update()` in `SS_CLOSED` |
| `DispatchSyn`, `DispatchKnown`, `DispatchUnknown` | session dispatch (design §4.3) |
| `Teardown` | the session force-closes a stream once `is_read_write_closed()` holds |
| `Sweep` | `sweep()` |

`write()` is split into two actions because its shutdown test reads `flag` without any lock. Every other call is one atomic step: it runs under the stream's locks, or, for the driver and dispatch, on the single driver thread.

`FlushFail` covers two outcomes:
- On a block, the accepted prefix is applied and the tick ends.
- On an error, the socket is closed (`link` becomes FALSE) and the stream is `_force_close`d.

`_flush` is not in the sources. Following design §4.4, one tick sends:
1. SYN if `PLAN_SYN` is set;
2. one DATA frame of min(|wb|, wb_wnd) bytes;
3. FIN if `PLAN_FIN` is set and wb is then empty;
4. UWND of `rb_incre` if it is positive.

A flag is cleared only when its frame was accepted. Sending the bytes in one DATA frame instead of a loop of frames sends the same bytes in the same order.

#### Teardown

The session code is also missing from the sources. The model takes this from design §3: the session tears down a stream once `is_read_write_closed()` holds, and `_force_close` is the only way to `SS_CLOSED`. This step goes beyond the design. Design §5 says `force_close` is triggered only when the flush driver sees a transport error, while `Teardown` also force-closes an established stream whose two sides are closed. Only the first branch of the `mux_close` violation below depends on it.

#### `BytePipe`, and the refinement

`BytePipe` is the abstract specification of one direction of a stream. It has no buffers, window, frames or driver. Its variables are:
- `accepted`, the number of bytes `write()` accepted;
- `got`, the bytes `read()` returned;
- `cut`, whether the pipe was cut.

Its actions are `Write` (more bytes accepted), `Read` (the next bytes in write order are returned) and `Cut`. It is weakly fair on `Read` while the pipe is not cut.

`MuxStream` instantiates it twice, once per reading end: `PipeToActive` and `PipeToPassive`. The mapping is:
- `accepted` is the peer's `written`;
- `got` is this end's `delivered`;
- `cut` is `PipeCut(e)`: the link failed, the peer called `close_write()` or `close()`, or this end called `close_read()` or `close()`.

The flags are set by a force close too. Every other step of the stream is a stuttering step of the pipe. `ImplementsBytePipe` (in `MCMuxStream`) checks both instances. A single parameterised instance `Pipe(e)` would be the natural form, but TLC does not accept its fairness under a quantifier.

### `SharedMutex` (with `MCSharedMutex`)

This module models `_impl_::shared_mutex` for a set of threads.

Each method body runs under `m_state_mutex`, so it is one step, up to the point where its while loop sleeps. The three condition variables are modelled by `blocked`, the set of threads that sleep and have not been notified:
- `notify_one` removes one sleeper of that condition;
- `notify_all` removes all of them.

A notified thread re-takes the mutex in `Recheck` and tests its loop condition again. Spurious wakeups are not modelled. C++ allows them but never promises them, so no progress may depend on them.

The threads choose calls from `Calls`. `MaxOps` bounds the lock calls and mode changes of each thread.

`UpgradeHoldsOffReaders` is an action property. While a thread holds the upgrade mode or waits in `unlock_upgrade_and_lock()`, no other thread newly enters the shared or upgrade mode. `can_lock_shared()` tests the upgrade state, and that is what keeps a stream of readers from starving the upgrader. A writer may still overtake it. With the downgrade allowed, such a writer's `unlock_and_lock_shared()` enters the shared mode while the upgrader waits; this is the downgrade assertion described under the violations. Writers get no such protection: `lock_shared()` ignores waiting writers, so readers that never stop can starve a writer. The runs bound each thread's calls, so they cannot show that.

### `SocketBase` (with `MCSocketBase`)

This module models several `socket_base` objects in one process. They share the process's descriptor table:
- `osFds` is the set of open descriptors, allocated lowest first, as POSIX `socket()` and `accept()` do;
- `osOpt` is the option bits really set on each descriptor.

The socket's own fields are `state`, `sm`, `fd`, `rflag`, `wflag` and `option`. `AppSockets` start as the dummy constructors leave them: `S_CLOSED`, fd -1, both shutdown flags set, and the caller's options. `AcceptSlots` are the objects `accept()` may construct.

| action | code |
|---|---|
| `Open` | `open()`; `socket()` fails when no descriptor is free |
| `Close` | `close()` and `_close()` |
| `SetOptions` (via `TurnOn`, `TurnOff`, `ReuseAddr`) | `_set_options()`, `turnon_*`, `turnoff_*`, `reuse_addr()`. `reuse_addr()` reads `m_option` without `L_SOCKET`; the model takes it as one step, so the lost update of a toggle racing it is not reached (see the hazard at socket_base.cpp:1377). |
| `SockOpt` | `set_snd_buffer_size`, `set_rcv_buffer_size`, `set_linger`, `set_tos`, the keep-alive calls and their getters. They take no lock. The setters, except the keep-alive ones, and the buffer and linger getters `WAWO_ASSERT(m_fd > 0)`; `get_tos` and the keep-alive calls assert nothing (`AssertsFd`). Only the keep-alive vals calls on WCP return before reaching `m_fd` (`ReachesFd`). What matters is which descriptor they reach. |
| `Shutdown` | `shutdown()` and `_shutdown()` |
| `Bind`, `Listen`, `Connect` | `bind()`, `listen()`, `connect()` and `_connect()` |
| `AcceptCheck`, `AcceptCall` | `accept()`: its state test without `L_SOCKET`, then the loop under `L_READ`, which builds the socket with the accepted-socket ctor (`CtorAccepted`) |
| `IoCheck`, `IoCall` | `send()`, `recv()`, `sendto()` and `recvfrom()`: the unlocked flag test, then the call on `m_fd` |

Each call under `L_SOCKET` is one step. `send`, `recv` and `accept` are split because they test a flag or the state without that lock and only then use `m_fd`.

`SetOptions` applies the changed options in code order and stops at the first failing call. A call on a closed descriptor fails. A call on a descriptor that was reused succeeds, and it changes the socket that now owns the descriptor; `foreign` records this.

`SysFails` lets `bind`, `listen`, `connect` and `setsockopt` fail. A `connect` on a descriptor that is really non-blocking answers `EINPROGRESS`.

`WAWO_ASSERT`s on internal state that the caller cannot see are recorded in `failed`, and the step goes on as a release build would. These are `m_fd == -1` in `open`, `m_sm == SM_NONE` in `bind`, `listen` and `connect`, and the data-socket assertion in `shutdown`. The state preconditions the caller is told to respect (`S_OPENED` for `bind`, `S_BINDED` for `listen`, `SM_LISTENER` for `accept`) are guards.

### `SocketIo`

The send and receive loops of `socket_base.cpp` are operators over the answers the kernel gives to successive calls. An answer is a record: `ret` is a byte count, 0 (an orderly shutdown, for `recv`) or -1, and `errno` is the error when `ret` is -1.

| operator | code |
|---|---|
| `SendLoop`, via `StandardSend`, `WcpSend` and `StandardSendto` | the loops of `standard_socket::send` and `sendto` (EINTR retried) and of `wcp_socket::send` (nothing retried) |
| `RecvLoop`, via `StandardRecv` and `WcpRecv` | the loops of `standard_socket::recv` and `wcp_socket::recv` |

Each loop is checked against a reference that does not run it. `FirstStop` finds the first answer that ends the request or fails with an errno that is not retried. `BytesMoved` is the bytes moved up to that answer, computed with `FoldLeft`. The loop must stop exactly there and report those bytes. The error code must be `OK` exactly when the request is complete, and the block code exactly when that answer was `EWOULDBLOCK`. The kernel answers are every sequence of up to `MaxCalls` answers. A stream send takes 1 to the remaining bytes per call. A datagram is taken whole or refused.

`IoLoopsExact` in `SocketBase` states this for every socket with a `send` or `recv` pending in `IoCall`. The check is the loops' meaning for the byte counts that `IoCall` abstracts away.

### `FrameCodec`

This module has no state of its own. It contains:
- `WriteImpl` and `ReadImpl`: `write_impl` and `read_impl` of `bytes_helper.hpp`. Both are big-endian and keep exactly `sizeof(T)` bytes. `WriteImpl` is RECURSIVE, and `ReadImpl` is a left fold;
- `WriteU16`, `WriteU32`, `ReadU16` and `ReadU32`;
- `TypeCode`: the `mux_stream_message_type` values;
- `Encode`: `mux_cargo::encode`. `write_left` prepends, so the wire order is id, type, payload;
- `Decode` and the UWND payload, which are not in the sources and follow the design.

`MCMuxStream` instantiates the module with a 32-bit id. `WireRoundTrip` checks that every frame in either channel decodes back to the id, type and payload it was encoded from. This composes the codec with the flush and the dispatch that the model's channels stand for.

### `SocketObserver`

The state is the following:
- `ops` and `opsLock`: the queue and its mutex;
- `pushing` and `pushes`: the push each thread has under way, and how many each has made;
- `tick`: where the ticker thread is in `update()`;
- `alive`: `m_impl` exists;
- `watched`: the keys (flag, fd) that the poller watches;
- `rState`, `wState` and `rLock`: each io context's states, and which task holds `ctx->r_mutex`;
- `tasks`: the tasks scheduled and not yet run;
- `ofailed`: the `WAWO_ASSERT`s that would fail.

| action | code |
|---|---|
| `PushBegin`, `PushEnd` | `observer::watch` / `unwatch`: the queue push under `m_ops_mutex` (the push itself is in the header, not in `src/`) |
| `TickCheck` | `update()` → `_process_ops()`: the unlocked `m_ops.empty()` return (line 104) |
| `TickDrain` | the loop under `m_ops_mutex`: `ApplyOp` for every queued op, in order (a fold) |
| `TickPoll` | `check_ioe()`: not in the repository; it posts an idle context of a ready watched key, as the asserts of `run()` require |
| `Deinit` | `deinit()`: clears the queue under the mutex and frees `m_impl` |
| `ReadTaskBegin`/`End`, `WriteTaskBegin`/`End` | `io_select_task::run`; both cases lock `ctx->r_mutex` (line 167) |

Each task step and `TickPoll` is atomic, and the poller's own updates of `w_state` are not in the repository. The write task's change of `w_state` under `r_mutex` instead of `w_mutex` (line 167) therefore races with nothing in the model, and no property covers it.

The read of `m_ops.empty()` in line 104 is a data race with a push. While a push is under way, the model lets it see either answer. `deinit()` is taken to wait for a running `update()`, because `observer_ticker::deschedule` is not in the repository.

### `WatchQueue`, and the refinement

`WatchQueue` is the abstract specification of what the observer promises. It has no threads, locks or ticker. Its variables are the following:
- `pending`: the requests made and not yet applied;
- `watched`: the keys the poller watches;
- `alive`: the observer has not been shut down.

Its actions are the following:
- `Request` appends a request.
- `Apply` applies the oldest `k` requests in order.
- `Shutdown` drops the queue and empties the set.

`Apply` is weakly fair.

`SocketObserver` instantiates it as `Queue` with `pending <- ops`, and `watched` and `alive` keep their names. `ImplementsWatchQueue == Queue!Spec` is checked as a property. Under this mapping:
- `PushEnd` is a `Request`;
- `TickDrain` is an `Apply` of the whole queue;
- `Deinit` is a `Shutdown`;
- every other step is a stutter.

The property fails if an operation is applied twice, out of order or with the wrong effect. It also fails if the ticker can leave a queued operation unapplied forever while the observer is alive.

### `WcpClient`

This module models `client_req_handler`. `tstate` is `transfer_state`. `tmp`, `filelen` and `received` are the handler's fields. `reqs` counts the requests it writes. `done` is a history variable: the content of `received_packet` at each `C_RECEIVE_DONE`.

- `Connected` is `connected()`. Reading the file is abstracted to the constant `File`.
- `Read(chunk)` is `read()`. It puts `tmp` before the delivery, then runs `Parse`, a RECURSIVE operator that follows the `switch` with its `goto _CHECK`. The unparsed rest goes back into `tmp`.
- `OnHeader` reads the length with `FrameCodec`'s `ReadU32`, which is `read<u32_t>`.
- `OnContent` and `OnDone` are the content and done cases.

The server is the environment. `ServerRespond` appends the answer to a request to `inbox`: the header byte, the length and the file. `Deliver` hands `read()` the next 1 to `MaxChunk` bytes, so every split of the stream is tried.

### `MCWcpSession`

This module composes the two components. The client's socket is `FdC`. Once `connected()` has run, the socket thread `So` queues one watch of (READ, `FdC`), as the socket layer (not in the repository) does. `ClientRead` is the read task of `FdC` calling `Deliver`. `FdC` is ready to read when `inbox` holds bytes. A second thread, `App`, watches and unwatches both flags of `FdO`, whose peer is always ready. This keeps the queue and the tasks of another descriptor busy while the client works.

## Runs

| run | cfg | expect | checks |
|---|---|---|---|
| `mux_safety` | `MCMuxStream_safety.cfg` | pass | `TypeOK`, `StreamIntegrity`, `NoFailedAsserts`, `FinAtMostOnce`, and `ImplementsBytePipe` (the spec's P2, as a refinement) under `ReadFairSpec` |
| `mux_drain` | `MCMuxStream_drain.cfg` | pass | `WindowConserved`, `WireRoundTrip`, and `OutputDrains` under `FairSpec` (no read shutdown) |
| `mux_rb_overflow` | `MCMuxStream_rbbound.cfg` | violation | `ReadBufferBound` |
| `mux_data_after_fin` | `MCMuxStream_finorder.cfg` | violation | `NoDataAfterFin` |
| `mux_close` | `MCMuxStream_close.cfg` | violation | `CloseCompletes` |
| `mutex_safety` | `MCSharedMutex_safety.cfg` | pass | `TypeOK`, `MutualExclusion`, `NoFailedAsserts`, `UpgradeHoldsOffReaders` (no downgrade) |
| `mutex_live` | `MCSharedMutex_live.cfg` | pass | `WaitersProceed` (no upgrade to exclusive) |
| `mutex_upgrade_lost_wakeup` | `MCSharedMutex_upgrade.cfg` | violation | `WaitersProceed` |
| `sock_fdtable` | `MCSocketBase_fdtable.cfg` | pass | `TypeOK`, `FdTableConsistent`, `IoLoopsExact` (with `send` and `recv` calls) |
| `sock_options` | `MCSocketBase_options.cfg` | pass | `OptionsMatchFd` (TCP, blank ctor options, no reopen) |
| `sock_stale_fd` | `MCSocketBase_stale.cfg` | violation | `NoForeignFdUse` |
| `wcp_session` | `MCWcpSession.cfg` | pass | `NoFailedAsserts`, `TransferIntact`, and, under the fairness below, `ImplementsWatchQueue` (refinement of `WatchQueue`) and `TransferCompletes` |

### What the violations show

**`mux_rb_overflow`.** `close_read()` adds the unread bytes to `rb_incre` but leaves them in `rb`. The peer is therefore credited with space that is still in use. Its next DATA frame makes `rb` hold more than the window (mux_cargo.hpp:185).

**`mux_data_after_fin`.** The run goes through this sequence:
1. `write()` passes its unlocked test.
2. `close_write()` runs.
3. The flush sends the FIN.
4. The write appends its bytes.
5. The next flush sends them after the FIN (mux_cargo.hpp:127).

**`mux_close`.** After `close()` there are two possible orders, and neither completes a graceful close (mux_cargo.hpp:207, 266):
- If teardown comes first, it force-closes the stream while only `PLAN_FIN` is set. The FIN is never sent. This branch rests on the design-modelled `Teardown` (see Teardown above), not on code in the repository.
- If the FIN is flushed first, `PLAN_FIN` is cleared, and nothing but `_force_close` sets `WRITE_SHUTDOWN`. The stream stays established forever. This branch stands on `mux_cargo.hpp` alone.

**`mutex_upgrade_lost_wakeup`.** An upgrader waits in the `S_UP_UPING` state. `unlock_shared()` notifies `m_upgrade_cond` only in `S_UP_SET`, so the upgrader is never woken. Readers and upgraders are then locked out forever as well (Mutex.hpp:225).

**Also reachable without a run of its own: the downgrade assertion.** With `Calls = MCAllCalls`, a writer overtakes a pending upgrader. Its `unlock_and_lock_shared()` then fails `WAWO_ASSERT(can_lock_shared())` (Mutex.hpp:271).

**`sock_stale_fd`.** The run goes through this sequence (socket_base.cpp:664, 1090):
1. Socket `a` is opened on descriptor 1 and closed. Its `m_fd` stays 1.
2. Socket `b` is opened and gets descriptor 1.
3. `a.turnon_nonblocking()` passes the `m_fd < 0` test and makes `b`'s descriptor non-blocking.

**Also reachable without a run of its own: ctor options.** With `CtorOptions <- {{"NONBLOCK"}}` and only `open` calls, `OptionsMatchFd` fails. `open()` calls `_set_options(m_option)`. Every `should_set` in it compares `m_option` with itself, so a socket constructed non-blocking gets a blocking descriptor (socket_base.cpp:595).

**Also reachable without a run of its own: WCP non-blocking.** With `Protocol = "WCP"`, `turnoff_nonblocking()` computes `mode &= WCP_O_NONBLOCK`. The descriptor stays non-blocking while `m_option` says blocking (socket_base.cpp:1188).

**Also reachable without a run of its own: connect retry.** With `SysFails = TRUE`, a failed `connect()` leaves `m_sm = SM_ACTIVE` with the state still `S_OPENED`. A retry is accepted and then fails `WAWO_ASSERT(m_sm == SM_NONE)` (socket_base.cpp:905).

### Bounds and why they suffice

**MuxStream.**
- `mux_safety` uses `WndSize = 1`, `MaxPkt = 1` and 2 bytes per end, with fatal transport errors. The second byte must then wait for credit, which is enough to see positions reordered, lost or duplicated across blocks, errors and force-closes. With a window of 2 the run has 4.9 million states and takes several minutes. The same small window is what makes `ImplementsBytePipe` depend on `read()` handing credit back: a `read()` that forgets `rb_incre` stalls the second byte.
- `mux_drain` uses `WndSize = 2`, so the window can be partly used while a DATA frame carries fewer bytes than `wb` holds. This is the case `WindowConserved` is about. Without `close_read` this run cannot reach the double credit of mux_cargo.hpp:185; `ReadBufferBound` in `mux_rb_overflow` does. Likewise `StreamIntegrity` holds even when DATA follows the FIN (mux_cargo.hpp:127), because the bytes stay in order; only `NoDataAfterFin` sees that.
- `ReadMax = {0, 1}` covers both the "all" and the partial read.
- In the violation runs the bounds are the smallest that show the behaviour. `mux_close` uses `MaxBytes = 0`, so no data is pending and the result cannot come from a peer that never reads.

**SharedMutex.** Three threads with up to 3 calls each are enough to put a reader, a writer and an upgrader against one another. Thread symmetry is used in the safety run.

**SocketBase.**
- Two descriptors for three socket objects make descriptor reuse and a full table both reachable.
- `sock_fdtable` has two application sockets and one accept slot, and leaves out the option calls. `FdTableConsistent` does not depend on options, and with them the state space has more than 40 million states.
- `MaxLen = 4` and `MaxCalls = 5` (`SocketIo`): a 4-byte send can be taken in up to four partial pieces, and five answers are enough for two partial sends, an EINTR and then a block or an error. That is the case where a loop could lose or double-count the part already sent.
- `sock_options` uses one application socket and the accept slot with every call but `close`. Without a reopen, the only ways left to break `OptionsMatchFd` are the ctor options and the stale descriptor described above.

**MCWcpSession.** The run has two threads, two descriptors and at most 2 pushes per thread. `So`'s one watch therefore races with two of `App`'s, so the queue holds up to three operations of both kinds when the ticker reads it. A 2-byte file containing a zero byte makes a 7-byte response. `MaxChunk = 3` splits that response inside the header, inside the length and inside the content. One delivery cannot carry the end of one file together with the start of the next response: the client writes the next `C_TRANSFER_FILE` request only in the `read()` that finishes a file (`client.cpp:115`), and the server answers only requests already made. What a delivery can carry is `tmp`'s leftover across the header, length and content parses. `MaxRounds = 2` makes the reset between transfers matter. The run has about 25 000 states.

### Fairness

**MuxStream** (`FairSpec`):
- The observer's scheduler ticks the driver forever, and the session reads the transport whenever a frame is there. This gives weak fairness for `FlushOk`, `UpdateClosed`, dispatch, `Teardown` and `Sweep`.
- A `write()` past its flag test finishes, which gives weak fairness for `WriteCommit`.
- The applications promise nothing else.
- A refused send is not fair: `FlushFail` may happen, but not forever instead of `FlushOk`. This is the meaning of weak fairness on `FlushOk` while it stays enabled.
- `ReadFairSpec` (run `mux_safety`) adds that each application keeps reading while bytes wait in `rb`. This is the premise of P2, "a sufficiently large sequence of reads". Under it, the fairness of `BytePipe` says that every byte the peer's `write()` accepted is eventually read. Excepted are a failed link, the peer's `close_write()` and this end's `close_read()`. The unconditional P2 fails through the `mux_data_after_fin` and `mux_close` findings, where `close_write()` loses bytes.

**SharedMutex** (`FairSpec`):
- A holder eventually releases: weak fairness of `Release(t)`.
- A notified thread eventually runs: weak fairness of `Recheck(t)`.

**MCWcpSession:**
- **Ticker.** `observer_ticker` reschedules `update()` forever. This gives weak fairness for the ticker's steps as one process.
- **Pushing thread.** A thread inside `m_ops_mutex` finishes its push, so each `PushEnd(t)` is weakly fair.
- **Tasks.** The scheduler runs posted tasks, so the task steps of each descriptor are weakly fair, and so are `ClientRead` and the read task of `FdO`.
- **Client side.** The socket layer registers its watch once connected (`SoWatchRead`). The server answers each request (`ServerRespond`). The channel connects (`Connected`).
- **Not fair.** `App`'s own calls and `deinit()`: the application may stop or shut down at any time.

### Deadlock checking

All runs set `CHECK_DEADLOCK FALSE`. This is because a quiescent state is a normal state of these programs:
- the driver keeps ticking without effect;
- threads that have made all their calls stay outside the lock;
- the wcp client has received its `MaxRounds` files, or the observer was shut down.

Lost progress is checked instead, by the liveness properties.

## Not modelled

- **Socket pipeline.** `socket_pipeline.cpp` holds only `init()`, which links a head and a tail context, and `deinit()`, which walks the chain back from the tail and clears every link. The operations that add, remove and fire handlers, and the contexts themselves, are in `socket_pipeline.hpp` and `socket_handler.hpp`, which are not in the repository.
  - With no handlers added, the chain is always the two contexts.
  - `deinit()` is a sequential walk that nothing runs concurrently with.
  - A model would say nothing a reading of the 43 lines does not.
- **Parts of the observer.** These are left out:
  - the poller, the ticker and the queue push, which are not in the repository;
  - `_alloc_impl`, which picks the poller by the poll type;
  - the non-select branch of `run()`, which only runs the task.
- **Parts of the wcp client.**
  - `main()` only builds the channel and waits.
  - The file is read with stdio, which is abstracted to the constant `File`.
  - The test's own check of the contents uses `strncmp`, which stops at a zero byte, and then a `WAWO_ASSERT` of a string literal, which always holds. The model checks the contents directly, with `TransferIntact`.
- **Parts of `socket_base`.** These are left out:
  - `async_connect` as an action of its own. It is `turnon_nonblocking()` followed by `connect()`, each under `L_SOCKET`, and the model already interleaves the two. Its `begin_async_connect` watch is not in the repository;
  - the values that the unlocked setsockopt calls set, which no modelled state reads. Only the descriptor they reach is modelled;
  - `recvfrom`. A zero-length datagram makes `::recvfrom` return 0. The code then fails `WAWO_ASSERT(nbytes == -1)` and reads an `errno` that no call set (socket_base.cpp:207). Showing this would take a violation run of its own;
  - the wcp stack that `wcp_socket::send` calls. The loop treats an answer of 0 as success with part of the buffer unsent (socket_base.cpp:287). Whether the stack can answer 0 is not in the repository.
- **`write_flag` (`STREAM_WRITE_BLOCKED`) and `ctx`.** Nothing in the sources reads them.
- **RST, WRITE_BLOCK and WRITE_UNBLOCK frames.** No code sends them.
- **Several streams in one session, and id allocation.** The streams share nothing but the socket, and the socket's failure is modelled.
- **`http_utils`, the win32 environment and the headers.** These are parsing, platform I/O and definitions.

## Plan

1. `FrameCodec`: done. It is checked on the frames of `mux_drain`; a run of its own over a wider range of ids and types would add little.
2. `SocketBase`: done. The send and receive loops are checked in `SocketIo`. `recvfrom` is left out; see Not modelled.
3. `SocketObserver` and `WcpClient`: done, composed in `MCWcpSession`.
4. An abstract byte pipe that `MuxStream` refines (INSTANCE ... WITH), per direction: done, `BytePipe`.
5. The socket pipeline's handler chain: dropped, since its operations are not in the repository (see Not modelled).
