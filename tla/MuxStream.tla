------------------------------ MODULE MuxStream ------------------------------
(***************************************************************************)
(* One multiplexed stream of wawo's mux, seen from both of its ends.       *)
(*                                                                         *)
(* The class `stream` (include/wawo/net/peer/message/mux_cargo.hpp) keeps *)
(* per end: state, flag bits, id, the read ring buffer rb with the credit  *)
(* counter rb_incre, the write ring buffer wb with the send window wb_wnd. *)
(* Application threads call open/write/read/close_read/close_write/close;  *)
(* the session's driver thread calls update(), which flushes through the   *)
(* shared transport, and dispatches frames that arrive from the peer.      *)
(*                                                                         *)
(* Bytes are abstracted to their position in the writer's byte stream, so *)
(* a ring buffer is a sequence of positions.  The flush driver (_flush),   *)
(* frame dispatch and the session's teardown and sweep are not in the     *)
(* repository's sources; they are modelled from the design (spec.md 4.3,  *)
(* 4.4) and marked as such below.                                          *)
(***************************************************************************)
EXTENDS Naturals, Sequences, SequencesExt, FiniteSets

CONSTANTS
  Active,     \* the end whose application calls open_stream()
  Passive,    \* the end whose session accepts the stream on SYN
  WndSize,    \* MUX_STREAM_WND_SIZE: capacity of rb and wb, initial wb_wnd
  MaxPkt,     \* largest packet the application passes to write()
  MaxBytes,   \* bound: bytes the application of one end writes in total
  ReadMax,    \* the `max` arguments the application passes to read()
  AppOps,     \* the stream calls the applications make (restricts a run)
  TransportFails  \* whether the shared transport may report a fatal error

Ends == {Active, Passive}
Peer(e) == IF e = Active THEN Passive ELSE Active

ASSUME /\ Active # Passive
       /\ WndSize \in Nat \ {0}
       /\ MaxPkt \in 1..WndSize
       /\ MaxBytes \in Nat
       /\ ReadMax \subseteq Nat
       /\ AppOps \subseteq {"write", "read", "close_read", "close_write", "close"}
       /\ TransportFails \in BOOLEAN

\* enum stream_flag
RSC == "READ_SHUTDOWN_CALLED"
RS  == "READ_SHUTDOWN"
WSC == "WRITE_SHUTDOWN_CALLED"
WS  == "WRITE_SHUTDOWN"
PLAN_FIN == "PLAN_FIN"
PLAN_SYN == "PLAN_SYN"
Flags == {RSC, RS, WSC, WS, PLAN_FIN, PLAN_SYN}

\* enum stream_state; "NONE" stands for no stream object at a passive end
\* that has not yet seen the SYN
States == {"NONE", "CLOSED", "ESTABLISHED", "RECYCLE"}

\* The id open() assigns; one stream, so one id.
Sid == 1

\* mux_stream_message_type, as far as this stream's frames use it
Frame(t, d, n) == [type |-> t, data |-> d, n |-> n]
FrameTypes == {"SYN", "DATA", "FIN", "UWND", "ACCEPTED"}

VARIABLES
  state, flag, id,      \* stream::state, stream::flag, stream::id
  rb, rb_incre,         \* stream::rb (byte positions), stream::rb_incre
  wb, wb_wnd,           \* stream::wb (byte positions), stream::wb_wnd
  wpend,                \* a write() past its flag check: packet length, or 0
  present,              \* the stream is in its session's stream table
  chan,                 \* chan[e]: frames on the transport towards end e
  link,                 \* the shared transport is still open
  written,              \* bytes accepted by write() so far (numbers the bytes)
  delivered,            \* history: bytes returned by read(), in order
  sentFin,              \* history: FIN frames end e has put on the wire
  failed                \* WAWO_ASSERTs that did not hold when executed

vars == <<state, flag, id, rb, rb_incre, wb, wb_wnd, wpend, present, chan,
          link, written, delivered, sentFin, failed>>

MinOf(a, b) == IF a < b THEN a ELSE b
Drop(s, n) == SubSeq(s, n + 1, Len(s))

-----------------------------------------------------------------------------
(* stream() and init(): flag 0, id 0, SS_CLOSED, empty buffers, full window *)
Init ==
  /\ state = [e \in Ends |-> IF e = Active THEN "CLOSED" ELSE "NONE"]
  /\ flag = [e \in Ends |-> {}]
  /\ id = [e \in Ends |-> 0]
  /\ rb = [e \in Ends |-> <<>>]
  /\ rb_incre = [e \in Ends |-> 0]
  /\ wb = [e \in Ends |-> <<>>]
  /\ wb_wnd = [e \in Ends |-> WndSize]
  /\ wpend = [e \in Ends |-> 0]
  /\ present = [e \in Ends |-> FALSE]
  /\ chan = [e \in Ends |-> <<>>]
  /\ link = TRUE
  /\ written = [e \in Ends |-> 0]
  /\ delivered = [e \in Ends |-> <<>>]
  /\ sentFin = [e \in Ends |-> 0]
  /\ failed = {}

(* The assertions of _snd_fin(), checked against the state it is called in *)
SndFinAsserts(e) ==
  IF state[e] = "ESTABLISHED" /\ id[e] # 0 /\ WSC \notin flag[e]
     /\ PLAN_FIN \notin flag[e]
  THEN {} ELSE {"_snd_fin"}

(* _force_close(): both directions fully shut down, state SS_CLOSED *)
ForceClose(e) ==
  /\ flag' = [flag EXCEPT ![e] = @ \cup {RSC, RS, WSC, WS}]
  /\ state' = [state EXCEPT ![e] = "CLOSED"]

(* is_read_write_closed() *)
IsReadWriteClosed(e) ==
  \/ {RS, PLAN_FIN} \subseteq flag[e]
  \/ {RS, WS} \subseteq flag[e]

-----------------------------------------------------------------------------
(* Application calls.  The application of an end holds the stream once it  *)
(* is opened (active end) or accepted (passive end).  Calls that return an *)
(* error code without changing anything are stuttering steps.              *)

(* open(): asserts id == 0 and SS_CLOSED; sets id, SS_ESTABLISHED, and      *)
(* _snd_syn() plans a SYN; open_stream() puts the stream in the table.      *)
Open(e) ==
  /\ e = Active
  /\ ~present[e] /\ id[e] = 0
  /\ id' = [id EXCEPT ![e] = Sid]
  /\ state' = [state EXCEPT ![e] = "ESTABLISHED"]
  /\ flag' = [flag EXCEPT ![e] = @ \cup {PLAN_SYN}]
  /\ present' = [present EXCEPT ![e] = TRUE]
  /\ failed' = failed \cup (IF state[e] = "CLOSED" /\ PLAN_SYN \notin flag[e]
                            THEN {} ELSE {"open"})
  /\ UNCHANGED <<rb, rb_incre, wb, wb_wnd, wpend, chan, link, written,
                 delivered, sentFin>>

(* write(), first half: the shutdown test reads flag without any lock and  *)
(* returns E_MUX_STREAM_CARGO_STREAM_WRITE_SHUTDOWNED_ALREADY if set.       *)
WriteCheck(e, k) ==
  /\ "write" \in AppOps
  /\ id[e] # 0 /\ wpend[e] = 0
  /\ written[e] + k <= MaxBytes
  /\ flag[e] \cap {WSC, WS} = {}
  /\ wpend' = [wpend EXCEPT ![e] = k]
  /\ UNCHANGED <<state, flag, id, rb, rb_incre, wb, wb_wnd, present, chan,
                 link, written, delivered, sentFin, failed>>

(* write(), second half, under wb_mutex: refuse (WRITE_BLOCK) if the whole *)
(* packet does not fit, otherwise append all of it.                        *)
WriteCommit(e) ==
  LET k == wpend[e] IN
  /\ k > 0
  /\ wpend' = [wpend EXCEPT ![e] = 0]
  /\ IF WndSize - Len(wb[e]) < k
     THEN UNCHANGED <<wb, written>>
     ELSE /\ wb' = [wb EXCEPT ![e] = @ \o [i \in 1..k |-> written[e] + i]]
          /\ written' = [written EXCEPT ![e] = @ + k]
  /\ UNCHANGED <<state, flag, id, rb, rb_incre, wb_wnd, present, chan, link,
                 delivered, sentFin, failed>>

(* Fault-injection variants of read(): all of rb is consumed although at  *)
(* most max bytes are returned; the returned bytes are not credited.       *)
ReadDropsAll(e, max) ==
  LET n == IF max # 0 /\ Len(rb[e]) > max THEN max ELSE Len(rb[e]) IN
  /\ "read" \in AppOps
  /\ id[e] # 0 /\ rb[e] # <<>>
  /\ delivered' = [delivered EXCEPT ![e] = @ \o SubSeq(rb[e], 1, n)]
  /\ rb' = [rb EXCEPT ![e] = <<>>]
  /\ rb_incre' = [rb_incre EXCEPT ![e] = @ + n]
  /\ UNCHANGED <<state, flag, id, wb, wb_wnd, wpend, present, chan, link,
                 written, sentFin, failed>>
ReadNoCredit(e, max) ==
  LET n == IF max # 0 /\ Len(rb[e]) > max THEN max ELSE Len(rb[e]) IN
  /\ "read" \in AppOps
  /\ id[e] # 0 /\ rb[e] # <<>>
  /\ delivered' = [delivered EXCEPT ![e] = @ \o SubSeq(rb[e], 1, n)]
  /\ rb' = [rb EXCEPT ![e] = Drop(@, n)]
  /\ UNCHANGED <<state, flag, id, rb_incre, wb, wb_wnd, wpend, present, chan,
                 link, written, sentFin, failed>>

(* read(pack, max), under rb_mutex: take min(max, count) bytes (max 0 means *)
(* all) and add them to rb_incre.                                          *)
Read(e, max) ==
  LET n == IF max # 0 /\ Len(rb[e]) > max THEN max ELSE Len(rb[e]) IN
  /\ "read" \in AppOps
  /\ id[e] # 0 /\ rb[e] # <<>>
  /\ delivered' = [delivered EXCEPT ![e] = @ \o SubSeq(rb[e], 1, n)]
  /\ rb' = [rb EXCEPT ![e] = Drop(@, n)]
  /\ rb_incre' = [rb_incre EXCEPT ![e] = @ + n]
  /\ UNCHANGED <<state, flag, id, wb, wb_wnd, wpend, present, chan, link,
                 written, sentFin, failed>>

(* close_read(), under mutex and rb_mutex: the unread bytes are counted    *)
(* into rb_incre; they are not removed from rb.                            *)
CloseRead(e) ==
  /\ "close_read" \in AppOps
  /\ id[e] # 0 /\ RSC \notin flag[e]
  /\ flag' = [flag EXCEPT ![e] = @ \cup {RSC, RS}]
  /\ rb_incre' = [rb_incre EXCEPT ![e] = @ + Len(rb[e])]
  /\ UNCHANGED <<state, id, rb, wb, wb_wnd, wpend, present, chan, link,
                 written, delivered, sentFin, failed>>

(* Fault-injection variant of close_write() without its CALLED test *)
CloseWriteUnguarded(e) ==
  /\ "close_write" \in AppOps
  /\ id[e] # 0
  /\ flag' = [flag EXCEPT ![e] = @ \cup {PLAN_FIN, WSC}]
  /\ failed' = failed \cup SndFinAsserts(e)
  /\ UNCHANGED <<state, id, rb, rb_incre, wb, wb_wnd, wpend, present, chan,
                 link, written, delivered, sentFin>>

(* close_write(), under mutex and wb_mutex: _snd_fin() plans the FIN.       *)
CloseWrite(e) ==
  /\ "close_write" \in AppOps
  /\ id[e] # 0 /\ WSC \notin flag[e]
  /\ flag' = [flag EXCEPT ![e] = @ \cup {PLAN_FIN, WSC}]
  /\ failed' = failed \cup SndFinAsserts(e)
  /\ UNCHANGED <<state, id, rb, rb_incre, wb, wb_wnd, wpend, present, chan,
                 link, written, delivered, sentFin>>

(* Fault-injection variant of close(): the write part runs even when    *)
(* close_write() was already called.                                       *)
CloseRefinsWrite(e) ==
  LET rd == RSC \notin flag[e]
      wr == TRUE
  IN
  /\ "close" \in AppOps
  /\ id[e] # 0 /\ (rd \/ WSC \notin flag[e])
  /\ flag' = [flag EXCEPT ![e] = @ \cup (IF rd THEN {RSC, RS} ELSE {})
                                   \cup (IF wr THEN {PLAN_FIN, WSC} ELSE {})]
  /\ rb_incre' = [rb_incre EXCEPT ![e] = @ + (IF rd THEN Len(rb[e]) ELSE 0)]
  /\ failed' = failed \cup (IF wr THEN SndFinAsserts(e) ELSE {})
  /\ UNCHANGED <<state, id, rb, wb, wb_wnd, wpend, present, chan, link,
                 written, delivered, sentFin>>

(* close(): refused when both *_SHUTDOWN_CALLED are set; otherwise the     *)
(* close_read part and the close_write part for each side not yet called.  *)
Close(e) ==
  LET rd == RSC \notin flag[e]
      wr == WSC \notin flag[e]
  IN
  /\ "close" \in AppOps
  /\ id[e] # 0 /\ (rd \/ wr)
  /\ flag' = [flag EXCEPT ![e] = @ \cup (IF rd THEN {RSC, RS} ELSE {})
                                   \cup (IF wr THEN {PLAN_FIN, WSC} ELSE {})]
  /\ rb_incre' = [rb_incre EXCEPT ![e] = @ + (IF rd THEN Len(rb[e]) ELSE 0)]
  /\ failed' = failed \cup (IF wr THEN SndFinAsserts(e) ELSE {})
  /\ UNCHANGED <<state, id, rb, wb, wb_wnd, wpend, present, chan, link,
                 written, delivered, sentFin>>

-----------------------------------------------------------------------------
(* The session's driver thread.                                            *)

(* _flush() (design 4.4, not in the sources): the frames one tick puts on  *)
(* the wire if every send succeeds: a planned SYN, then one DATA frame of  *)
(* min(|wb|, wb_wnd) bytes, then the planned FIN once wb is empty, then a  *)
(* UWND returning rb_incre to the peer.                                    *)
FlushSends(e) ==
  LET n    == MinOf(Len(wb[e]), wb_wnd[e])
      syn  == IF PLAN_SYN \in flag[e] THEN <<Frame("SYN", <<>>, 0)>> ELSE <<>>
      data == IF n > 0 THEN <<Frame("DATA", SubSeq(wb[e], 1, n), 0)>> ELSE <<>>
      fin  == IF PLAN_FIN \in flag[e] /\ Len(wb[e]) = n
              THEN <<Frame("FIN", <<>>, 0)>> ELSE <<>>
      uwnd == IF rb_incre[e] > 0 THEN <<Frame("UWND", <<>>, rb_incre[e])>>
              ELSE <<>>
  IN syn \o data \o fin \o uwnd

(* The flags the accepted sends `sent` (a prefix of FlushSends(e)) clear   *)
FlushCleared(sent) ==
  {IF sent[i].type = "SYN" THEN PLAN_SYN ELSE PLAN_FIN :
     i \in {j \in DOMAIN sent : sent[j].type \in {"SYN", "FIN"}}}

(* The effect of the accepted sends on the wire, wb, wb_wnd and rb_incre;  *)
(* `flags` is the end's flag word afterwards.                               *)
FlushApply(e, sent, flags) ==
  LET Has(t) == \E i \in DOMAIN sent : sent[i].type = t
      d == IF Has("DATA")
           THEN Len(sent[CHOOSE i \in DOMAIN sent : sent[i].type = "DATA"].data)
           ELSE 0
  IN
  /\ chan' = [chan EXCEPT ![Peer(e)] = @ \o sent]
  /\ wb' = [wb EXCEPT ![e] = Drop(@, d)]
  /\ wb_wnd' = [wb_wnd EXCEPT ![e] = @ - d]
  /\ rb_incre' = [rb_incre EXCEPT ![e] = IF Has("UWND") THEN 0 ELSE @]
  /\ sentFin' = [sentFin EXCEPT ![e] = @ + (IF Has("FIN") THEN 1 ELSE 0)]
  /\ flag' = [flag EXCEPT ![e] = flags]

(* Fault-injection variant: the driver flushes only when wb holds data *)
FlushOkDataOnly(e) ==
  LET sends == FlushSends(e) IN
  /\ present[e] /\ state[e] = "ESTABLISHED" /\ link
  /\ wb[e] # <<>> /\ sends # <<>>
  /\ FlushApply(e, sends, flag[e] \ FlushCleared(sends))
  /\ UNCHANGED <<state, id, rb, wpend, present, link, written, delivered,
                 failed>>

(* update() in SS_ESTABLISHED: _flush(), and the transport accepts every   *)
(* send (ec OK).                                                           *)
FlushOk(e) ==
  LET sends == FlushSends(e) IN
  /\ present[e] /\ state[e] = "ESTABLISHED" /\ link
  /\ sends # <<>>
  /\ FlushApply(e, sends, flag[e] \ FlushCleared(sends))
  /\ UNCHANGED <<state, id, rb, wpend, present, link, written, delivered,
                 failed>>

(* update() in SS_ESTABLISHED when the send after the first k is refused:  *)
(* E_SOCKET_SEND_BLOCK ends the tick; any other error closes the socket    *)
(* (so->close) and _force_close()s the stream.  A closed socket refuses    *)
(* every send with an error.                                               *)
FlushFail(e) ==
  LET sends == FlushSends(e) IN
  /\ present[e] /\ state[e] = "ESTABLISHED"
  /\ sends # <<>>
  /\ \E k \in 0..(Len(sends) - 1) :
       LET ok == SubSeq(sends, 1, k) IN
       \/ /\ link
          /\ FlushApply(e, ok, flag[e] \ FlushCleared(ok))
          /\ UNCHANGED <<state, link>>
       \/ /\ TransportFails \/ ~link
          /\ link \/ k = 0
          /\ FlushApply(e, ok, (flag[e] \ FlushCleared(ok)) \cup {RSC, RS, WSC, WS})
          /\ state' = [state EXCEPT ![e] = "CLOSED"]
          /\ link' = FALSE
  /\ UNCHANGED <<id, rb, wpend, present, written, delivered, failed>>

(* update() in SS_CLOSED: recycle once both directions are fully shut down *)
UpdateClosed(e) ==
  /\ present[e] /\ state[e] = "CLOSED"
  /\ {RS, WS} \subseteq flag[e]
  /\ state' = [state EXCEPT ![e] = "RECYCLE"]
  /\ UNCHANGED <<flag, id, rb, rb_incre, wb, wb_wnd, wpend, present, chan,
                 link, written, delivered, sentFin, failed>>

-----------------------------------------------------------------------------
(* The session (design 4.3, not in the sources): dispatch of the frame at  *)
(* the head of the transport, teardown and sweep.                          *)

(* A SYN for an id the table does not hold creates the passive stream,     *)
(* established, and answers ACCEPTED.                                      *)
DispatchSyn(e) ==
  /\ link /\ chan[e] # <<>> /\ Head(chan[e]).type = "SYN"
  /\ ~present[e] /\ state[e] = "NONE"
  /\ state' = [state EXCEPT ![e] = "ESTABLISHED"]
  /\ id' = [id EXCEPT ![e] = Sid]
  /\ present' = [present EXCEPT ![e] = TRUE]
  /\ chan' = [chan EXCEPT ![e] = Tail(@),
                          ![Peer(e)] = Append(@, Frame("ACCEPTED", <<>>, 0))]
  /\ UNCHANGED <<flag, rb, rb_incre, wb, wb_wnd, wpend, link, written,
                 delivered, sentFin, failed>>

(* Fault-injection variant of dispatch: UWND shrinks the window *)
DispatchKnownUwndShrinks(e) ==
  LET f == Head(chan[e]) IN
  /\ link /\ chan[e] # <<>> /\ present[e]
  /\ chan' = [chan EXCEPT ![e] = Tail(@)]
  /\ rb' = IF f.type = "DATA" THEN [rb EXCEPT ![e] = @ \o f.data] ELSE rb
  /\ wb_wnd' = IF f.type = "UWND" THEN [wb_wnd EXCEPT ![e] = @ - f.n] ELSE wb_wnd
  /\ flag' = IF f.type = "FIN" THEN [flag EXCEPT ![e] = @ \cup {RS}] ELSE flag
  /\ UNCHANGED <<state, id, rb_incre, wb, wpend, present, link, written,
                 delivered, sentFin, failed>>

(* DATA goes into rb (under rb_mutex), UWND grows wb_wnd, FIN ends the     *)
(* read side, ACCEPTED and a repeated SYN change nothing.                  *)
DispatchKnown(e) ==
  LET f == Head(chan[e]) IN
  /\ link /\ chan[e] # <<>> /\ present[e]
  /\ chan' = [chan EXCEPT ![e] = Tail(@)]
  /\ rb' = IF f.type = "DATA" THEN [rb EXCEPT ![e] = @ \o f.data] ELSE rb
  /\ wb_wnd' = IF f.type = "UWND" THEN [wb_wnd EXCEPT ![e] = @ + f.n] ELSE wb_wnd
  /\ flag' = IF f.type = "FIN" THEN [flag EXCEPT ![e] = @ \cup {RS}] ELSE flag
  /\ UNCHANGED <<state, id, rb_incre, wb, wpend, present, link, written,
                 delivered, sentFin, failed>>

(* A frame for an id the table does not hold, other than the first SYN, is *)
(* a protocol error: logged and dropped.                                   *)
DispatchUnknown(e) ==
  /\ link /\ chan[e] # <<>> /\ ~present[e]
  /\ ~(Head(chan[e]).type = "SYN" /\ state[e] = "NONE")
  /\ chan' = [chan EXCEPT ![e] = Tail(@)]
  /\ UNCHANGED <<state, flag, id, rb, rb_incre, wb, wb_wnd, wpend, present,
                 link, written, delivered, sentFin, failed>>

(* The session reclaims an established stream once is_read_write_closed(): *)
(* the only way to SS_CLOSED in the sources is _force_close().             *)
Teardown(e) ==
  /\ present[e] /\ state[e] = "ESTABLISHED" /\ IsReadWriteClosed(e)
  /\ ForceClose(e)
  /\ UNCHANGED <<id, rb, rb_incre, wb, wb_wnd, wpend, present, chan, link,
                 written, delivered, sentFin, failed>>

(* sweep(): a recycled stream leaves the table *)
Sweep(e) ==
  /\ present[e] /\ state[e] = "RECYCLE"
  /\ present' = [present EXCEPT ![e] = FALSE]
  /\ UNCHANGED <<state, flag, id, rb, rb_incre, wb, wb_wnd, wpend, chan, link,
                 written, delivered, sentFin, failed>>

-----------------------------------------------------------------------------
App(e) ==
  \/ Open(e)
  \/ \E k \in 1..MaxPkt : WriteCheck(e, k)
  \/ WriteCommit(e)
  \/ \E m \in ReadMax : Read(e, m)
  \/ CloseRead(e)
  \/ CloseWrite(e)
  \/ Close(e)

Driver(e) ==
  \/ FlushOk(e)
  \/ FlushFail(e)
  \/ UpdateClosed(e)
  \/ DispatchSyn(e)
  \/ DispatchKnown(e)
  \/ DispatchUnknown(e)
  \/ Teardown(e)
  \/ Sweep(e)

(* An end whose application has nothing more to call, whose stream has   *)
(* nothing to send and whose transport brings nothing is idle: the real    *)
(* driver keeps ticking update() without effect, so idle states are not   *)
(* deadlocks of the program.                                               *)
Next == \E e \in Ends : App(e) \/ Driver(e)

(* The driver is ticked by the observer's scheduler forever and the         *)
(* session reads the transport whenever a frame is there; a send is not    *)
(* refused forever.  A write() past its flag check finishes.  The          *)
(* applications make no other promise.                                     *)
Fairness ==
  \A e \in Ends :
    /\ WF_vars(FlushOk(e)) /\ WF_vars(UpdateClosed(e))
    /\ WF_vars(DispatchSyn(e)) /\ WF_vars(DispatchKnown(e))
    /\ WF_vars(DispatchUnknown(e))
    /\ WF_vars(Teardown(e)) /\ WF_vars(Sweep(e))
    /\ WF_vars(WriteCommit(e))

Spec == Init /\ [][Next]_vars
FairSpec == Spec /\ Fairness

-----------------------------------------------------------------------------
(* Properties                                                              *)

Seq1To(n) == [i \in 1..n |-> i]

\* the bytes of the DATA frames of a frame sequence, in order
DataIn(s) == FlattenSeq([i \in 1..Len(SelectSeq(s, LAMBDA f : f.type = "DATA")) |->
                           SelectSeq(s, LAMBDA f : f.type = "DATA")[i].data])

\* the window the UWND frames of a frame sequence return
UwndIn(s) == FoldLeft(LAMBDA acc, f : acc + f.n, 0, s)

\* the stream object of e has been recycled and removed from its table
Swept(e) == state[e] = "RECYCLE" /\ ~present[e]

\* sequences of byte positions a stream can hold
Bytes == BoundedSeq(1..MaxBytes, MaxBytes)

TypeOK ==
  /\ state \in [Ends -> States]
  /\ flag \in [Ends -> SUBSET Flags]
  /\ id \in [Ends -> {0, Sid}]
  /\ rb \in [Ends -> Bytes]
  /\ rb_incre \in [Ends -> Nat]
  /\ wb \in [Ends -> Bytes]
  /\ wb_wnd \in [Ends -> Nat]
  /\ wpend \in [Ends -> 0..MaxPkt]
  /\ present \in [Ends -> BOOLEAN]
  /\ \A e \in Ends : \A i \in DOMAIN chan[e] :
       chan[e][i] \in [type : FrameTypes, data : Bytes, n : Nat]
  /\ link \in BOOLEAN
  /\ written \in [Ends -> 0..MaxBytes]
  /\ delivered \in [Ends -> Bytes]
  /\ sentFin \in [Ends -> Nat]
  /\ failed \subseteq {"open", "_snd_fin"}

(* Byte-stream integrity (design P2), over write(), _flush(), dispatch and *)
(* read() of two ends racing with close calls and transport errors: until  *)
(* the receiving stream is swept, every byte write() accepted at one end   *)
(* is in exactly one place (the writer's wb, the wire, the reader's rb, or *)
(* returned by read()), and those places hold the bytes in write order.    *)
StreamIntegrity ==
  \A e \in Ends : ~Swept(e) =>
    delivered[e] \o rb[e] \o DataIn(chan[e]) \o wb[Peer(e)]
      = Seq1To(written[Peer(e)])

(* Flow-control conservation (read()'s rb_incre, _flush()'s UWND and DATA, *)
(* dispatch of UWND): the sender's window, the bytes on the wire, the      *)
(* receiver's buffered bytes, its unreturned credit and the credit on the  *)
(* wire back always add up to the receive buffer's capacity, so the peer   *)
(* can never be allowed to overrun rb.                                     *)
WindowConserved ==
  \A e \in Ends : ~Swept(e) /\ ~Swept(Peer(e)) =>
    wb_wnd[Peer(e)] + Len(DataIn(chan[e])) + Len(rb[e]) + rb_incre[e]
      + UwndIn(chan[Peer(e)]) = WndSize

(* The read ring buffer, fixed at MUX_STREAM_WND_SIZE, is never asked to   *)
(* hold more bytes than that: the window credit read() and close_read()    *)
(* hand back never lets the peer send more than rb has room for.           *)
ReadBufferBound == \A e \in Ends : Len(rb[e]) <= WndSize

(* No WAWO_ASSERT of open() or _snd_fin() fails, whichever order the       *)
(* application's open/close_write/close and the driver's force close run. *)
NoFailedAsserts == failed = {}

(* A stream puts at most one FIN on the wire, however close_write(),       *)
(* close() and the flush driver interleave.                                *)
FinAtMostOnce == \A e \in Ends : sentFin[e] <= 1

(* Once an end has sent its FIN it sends no more DATA: write() refuses     *)
(* after close_write() (design 4.1) and the FIN is flushed only behind the *)
(* data written before it.                                                 *)
NewData(e) ==
  \E i \in (Len(chan[Peer(e)]) + 1)..Len(chan'[Peer(e)]) :
    chan'[Peer(e)][i].type = "DATA"
NoDataAfterFin == [][\A e \in Ends : sentFin[e] > 0 => ~NewData(e)]_vars

(* The flush driver makes progress: whatever an established end has to    *)
(* send while the transport is open (SYN, data within the window, FIN,     *)
(* window update) is eventually sent, unless the stream is closed first.   *)
OutputDrains ==
  \A e \in Ends :
    (present[e] /\ state[e] = "ESTABLISHED" /\ link /\ FlushSends(e) # <<>>)
      ~> (FlushSends(e) = <<>> \/ state[e] # "ESTABLISHED" \/ ~link)

(* Graceful close (design scenario C and P4): once the application has     *)
(* shut both directions, the stream's FIN reaches the wire and the stream  *)
(* is recycled, unless the transport fails.                                *)
CloseCompletes ==
  \A e \in Ends :
    (link /\ {RSC, WSC} \subseteq flag[e])
      ~> ((sentFin[e] > 0 /\ state[e] = "RECYCLE") \/ ~link)

-----------------------------------------------------------------------------
(* One BytePipe per direction, named for the reading end: the bytes the  *)
(* peer's write() accepted, the bytes this end's read() returned, and the *)
(* pipe is cut once the transport fails, the peer calls close_write() or  *)
(* close(), or this end calls close_read() or close() (a force close sets *)
(* the same flags).                                                        *)
PipeCut(e) == ~link \/ WSC \in flag[Peer(e)] \/ RSC \in flag[e]

PipeToActive == INSTANCE BytePipe
  WITH accepted <- written[Passive], got <- delivered[Active], cut <- PipeCut(Active)
PipeToPassive == INSTANCE BytePipe
  WITH accepted <- written[Active], got <- delivered[Passive], cut <- PipeCut(Passive)
=============================================================================
