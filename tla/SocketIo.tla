----------------------------- MODULE SocketIo -----------------------------
(***************************************************************************)
(* The send and receive loops of socket_base.cpp: standard_socket::send,  *)
(* recv and sendto, and wcp_socket::send and recv.  Each loop calls the   *)
(* kernel (or the wcp stack) until it has an answer for its caller, and   *)
(* returns the bytes moved with an error code ec_o.                        *)
(*                                                                         *)
(* A loop is an operator over the answers the kernel gives to its         *)
(* successive calls.  An answer is a record: ret is what the call returned *)
(* (a byte count, 0 for an orderly shutdown seen by recv, or -1) and      *)
(* errno the error when ret = -1 (wcp returns -errno; same information).  *)
(* Each loop is checked against a reference that says, without running   *)
(* the loop, at which call it must stop and what it must report there.    *)
(***************************************************************************)
EXTENDS Naturals, Sequences
LOCAL INSTANCE FiniteSetsExt
LOCAL INSTANCE SequencesExt

CONSTANTS
  MaxLen,    \* the largest buffer a call is given
  MaxCalls   \* the most kernel calls one loop is followed for

Errnos == {"EWOULDBLOCK", "EINTR", "ECONNRESET"}
NoErr == "NONE"

Moved(n) == [ret |-> n, errno |-> NoErr]     \* n bytes sent or read
Eof == [ret |-> 0, errno |-> NoErr]          \* recv: the peer shut down
Fail(e) == [ret |-> -1, errno |-> e]         \* -1 with errno e

\* What the loop has when the kernel answers run out before it stops
Running(total, used) == [ret |-> total, ec |-> "RUNNING", used |-> used]
Done(total, ec, used) == [ret |-> total, ec |-> ec, used |-> used]

-----------------------------------------------------------------------------
(* standard_socket::send and wcp_socket::send: add each positive answer  *)
(* to sent_total and stop when it reaches len; stop with                  *)
(* E_SOCKET_SEND_BLOCK on EWOULDBLOCK; call again on an errno in retried; *)
(* stop with the error otherwise.  The standard loop retries EINTR, the   *)
(* wcp loop retries nothing.  `used` counts the answers consumed.         *)
RECURSIVE SendLoop(_, _, _, _, _)
\* Fault-injection variant: a block after part of the buffer was taken
\* reports nothing sent.
SendLoopBlockDropsPartial(len, sent_total, ks, retried, used) ==
  IF used = Len(ks) THEN Running(sent_total, used)
  ELSE LET k == ks[used + 1] IN
       IF k.ret > 0
       THEN IF sent_total + k.ret = len THEN Done(len, "OK", used + 1)
            ELSE SendLoop(len, sent_total + k.ret, ks, retried, used + 1)
       ELSE IF k.errno = "EWOULDBLOCK" THEN Done(0, "SEND_BLOCK", used + 1)
       ELSE IF k.errno \in retried THEN SendLoop(len, sent_total, ks, retried, used + 1)
       ELSE Done(sent_total, k.errno, used + 1)

SendLoop(len, sent_total, ks, retried, used) ==
  IF used = Len(ks) THEN Running(sent_total, used)
  ELSE LET k == ks[used + 1] IN
       IF k.ret > 0
       THEN IF sent_total + k.ret = len THEN Done(len, "OK", used + 1)
            ELSE SendLoop(len, sent_total + k.ret, ks, retried, used + 1)
       ELSE IF k.errno = "EWOULDBLOCK" THEN Done(sent_total, "SEND_BLOCK", used + 1)
       ELSE IF k.errno \in retried THEN SendLoop(len, sent_total, ks, retried, used + 1)
       ELSE Done(sent_total, k.errno, used + 1)

StandardSend(len, ks) == SendLoop(len, 0, ks, {"EINTR"}, 0)
WcpSend(len, ks) == SendLoop(len, 0, ks, {}, 0)

\* standard_socket::sendto: one datagram, taken whole (WAWO_ASSERT(sent ==
\* len)) or refused; EINTR is retried.  On such answers it is the loop above.
StandardSendto(len, ks) == SendLoop(len, 0, ks, {"EINTR"}, 0)

(* standard_socket::recv and wcp_socket::recv: the first positive answer  *)
(* is returned with OK; 0 is E_SOCKET_GRACE_CLOSE; EWOULDBLOCK is         *)
(* E_SOCKET_RECV_BLOCK; EINTR calls again; any other errno is returned.   *)
RECURSIVE RecvLoop(_, _)
RecvLoop(ks, used) ==
  IF used = Len(ks) THEN Running(0, used)
  ELSE LET k == ks[used + 1] IN
       IF k.ret > 0 THEN Done(k.ret, "OK", used + 1)
       ELSE IF k.ret = 0 THEN Done(0, "GRACE_CLOSE", used + 1)
       ELSE IF k.errno = "EWOULDBLOCK" THEN Done(0, "RECV_BLOCK", used + 1)
       ELSE IF k.errno = "EINTR" THEN RecvLoop(ks, used + 1)
       ELSE Done(0, k.errno, used + 1)

StandardRecv(size, ks) == RecvLoop(ks, 0)
WcpRecv(size, ks) == RecvLoop(ks, 0)
-----------------------------------------------------------------------------
(* The kernel: the answers it may give to successive calls, up to         *)
(* MaxCalls of them.  A stream send of rem bytes takes 1..rem of them or  *)
(* fails; a datagram is taken whole or refused; a recv into a buffer of   *)
(* size bytes returns 1..size bytes, 0 at an orderly shutdown, or fails.  *)
RECURSIVE StreamSendAnswers(_, _)
StreamSendAnswers(rem, k) ==
  IF k = 0 \/ rem = 0 THEN {<<>>}
  ELSE {<<>>} \cup {<<Fail(e)>> \o r : e \in Errnos, r \in StreamSendAnswers(rem, k - 1)}
              \cup UNION {{<<Moved(n)>> \o r : r \in StreamSendAnswers(rem - n, k - 1)} :
                          n \in 1..rem}

DatagramAnswers(len) == BoundedSeq({Moved(len)} \cup {Fail(e) : e \in Errnos}, MaxCalls)

RecvAnswers(size) ==
  BoundedSeq({Moved(n) : n \in 1..size} \cup {Eof} \cup {Fail(e) : e \in Errnos}, MaxCalls)

(* The reference: a call stops the loop when it ends the caller's request *)
(* (the buffer is all sent; some bytes or the shutdown were read) or      *)
(* fails with an errno the loop does not call again for.  The loop must   *)
(* stop at the first such call, and must return the bytes that all the    *)
(* calls up to it moved.                                                   *)
BytesMoved(ks, i) == FoldLeft(LAMBDA acc, k : IF k.ret > 0 THEN acc + k.ret ELSE acc,
                              0, SubSeq(ks, 1, i))
Stops(ks, i, retried, Ends(_)) ==
  Ends(i) \/ (ks[i].ret < 0 /\ ks[i].errno \notin retried)
FirstStop(ks, retried, Ends(_)) ==
  LET S == {i \in 1..Len(ks) : Stops(ks, i, retried, Ends)}
  IN IF S = {} THEN 0 ELSE Min(S)

\* the result r of a send loop over answers ks is the one the reference gives
SendMeetsReference(len, ks, retried, r) ==
  LET Ends(i) == BytesMoved(ks, i) = len
      i == FirstStop(ks, retried, Ends)
  IN IF i = 0 THEN r.ec = "RUNNING"
     ELSE /\ r.used = i
          /\ r.ret = BytesMoved(ks, i)
          /\ (r.ec = "OK") <=> (r.ret = len)
          /\ (r.ec = "SEND_BLOCK") <=> (ks[i].errno = "EWOULDBLOCK")

RecvMeetsReference(ks, r) ==
  LET Ends(i) == ks[i].ret >= 0
      i == FirstStop(ks, {"EINTR"}, Ends)
  IN IF i = 0 THEN r.ec = "RUNNING"
     ELSE /\ r.used = i
          /\ r.ret = BytesMoved(ks, i)
          /\ (r.ec = "OK") <=> (r.ret > 0)
          /\ (r.ec = "GRACE_CLOSE") <=> (ks[i].ret = 0)

\* Every send loop, over every answer of the kernel, agrees with the reference.
SendLoopsExact ==
  /\ \A len \in 1..MaxLen : \A ks \in StreamSendAnswers(len, MaxCalls) :
        /\ SendMeetsReference(len, ks, {"EINTR"}, StandardSend(len, ks))
        /\ SendMeetsReference(len, ks, {}, WcpSend(len, ks))
  /\ \A len \in 1..MaxLen : \A ks \in DatagramAnswers(len) :
        SendMeetsReference(len, ks, {"EINTR"}, StandardSendto(len, ks))

\* Every receive loop, over every answer of the kernel, agrees with the reference.
RecvLoopsExact ==
  \A size \in 1..MaxLen : \A ks \in RecvAnswers(size) :
     /\ RecvMeetsReference(ks, StandardRecv(size, ks))
     /\ RecvMeetsReference(ks, WcpRecv(size, ks))
====
