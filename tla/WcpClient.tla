----------------------------- MODULE WcpClient -----------------------------
(***************************************************************************)
(* The file-transfer test client of test/wcp/src/client.cpp: the handler  *)
(* client_req_handler, whose read() is called with whatever the transport *)
(* delivered (any split of the server's byte stream) and keeps what it     *)
(* cannot parse yet in tmp.                                                *)
(*                                                                         *)
(* The server (test/wcp/src/server.cpp, not in the repository) is the      *)
(* environment: for each C_TRANSFER_FILE request it sends the u8           *)
(* C_TRANSFER_FILE_HEADER, the u32 file length and the file.  inbox holds  *)
(* the bytes sent and not yet delivered to read().                         *)
(***************************************************************************)
EXTENDS Naturals, Sequences

CONSTANTS
    File,          \* the bytes of the file both sides read (TEST_FILE)
    HeaderCmd,     \* the byte value of wcp_test::C_TRANSFER_FILE_HEADER
    FastTransfer,  \* the FAST_TRANSFER macro
    MaxChunk,      \* the most bytes one delivery to read() carries
    MaxRounds      \* the requests the server answers

ASSUME MaxChunk \in Nat \ {0} /\ MaxRounds \in Nat /\ FastTransfer \in BOOLEAN

LOCAL Codec == INSTANCE FrameCodec WITH IdWidth <- 4

VARIABLES
    tstate,    \* transfer_state; "NONE" before connected()
    tmp,       \* tmp: bytes of earlier deliveries not parsed yet
    filelen,   \* filelen: the length read from the last header
    received,  \* received_packet
    reqs,      \* C_TRANSFER_FILE requests written by the client
    served,    \* requests the server answered
    inbox,     \* bytes the server sent that read() has not been given
    done,      \* the contents of received_packet at each C_RECEIVE_DONE
    cfailed    \* WAWO_ASSERTs of the handler that would fail

cvars == <<tstate, tmp, filelen, received, reqs, served, inbox, done, cfailed>>

\* The server's answer to one request: cmd, write_u32(length), content.
Response == <<HeaderCmd>> \o Codec!WriteU32(Len(File)) \o File

\* The handler's ctor: nothing is set up before connected().
Init ==
    /\ tstate = "NONE"
    /\ tmp = <<>>
    /\ filelen = 0
    /\ received = <<>>
    /\ reqs = 0
    /\ served = 0
    /\ inbox = <<>>
    /\ done = <<>>
    /\ cfailed = {}

(* connected(): read the file, make empty received_packet and tmp, write  *)
(* a C_TRANSFER_FILE request (asserting it is accepted) and wait for the  *)
(* header.                                                                 *)
Connected ==
    /\ tstate = "NONE"
    /\ tstate' = "C_RECEIVE_HEADER"
    /\ tmp' = <<>>
    /\ received' = <<>>
    /\ reqs' = reqs + 1
    /\ UNCHANGED <<filelen, served, inbox, done, cfailed>>

(* The cases of the switch of read(), over c = [st, in, flen, rcv, reqs, *)
(* done, bad].  C_RECEIVE_HEADER reads the u8 command, asserting it is the *)
(* header, and the u32 length.                                            *)
OnHeader(c) ==
    [c EXCEPT !.bad = @ \/ c.in[1] # HeaderCmd,
              !.flen = Codec!ReadU32(SubSeq(c.in, 2, 5)),
              !.in = SubSeq(c.in, 6, Len(c.in)),
              !.st = "C_RECEIVE_CONTENT"]

\* Mutant: the content is taken only when more than filelen bytes are there.
ContentReadyStrict(c) == Len(c.in) > c.flen

\* C_RECEIVE_CONTENT: income->len() >= filelen.
ContentReady(c) == Len(c.in) >= c.flen

\* Mutant: income->skip(filelen) left out.
OnContentNoSkip(c) ==
    [c EXCEPT !.rcv = @ \o SubSeq(c.in, 1, c.flen), !.st = "C_RECEIVE_DONE"]

\* received_packet->write(income->begin(), filelen); income->skip(filelen).
OnContent(c) ==
    [c EXCEPT !.rcv = @ \o SubSeq(c.in, 1, c.flen),
              !.in = SubSeq(c.in, c.flen + 1, Len(c.in)),
              !.st = "C_RECEIVE_DONE"]

\* Mutant: received_packet->reset() left out.
OnDoneKeepsReceived(c) ==
    [c EXCEPT !.done = Append(@, c.rcv),
              !.st = IF FastTransfer THEN "C_RECEIVE_HEADER" ELSE "C_REQUEST"]

(* C_RECEIVE_DONE compares the contents with strncmp and, on a difference, *)
(* evaluates WAWO_ASSERT("file transfer failed"), which holds for any     *)
(* string: nothing is recorded.  received_packet is reset, and the client *)
(* asks again, or under FAST_TRANSFER waits for the next header.          *)
OnDone(c) ==
    [c EXCEPT !.done = Append(@, c.rcv), !.rcv = <<>>,
              !.st = IF FastTransfer THEN "C_RECEIVE_HEADER" ELSE "C_REQUEST"]

(* The switch with its goto _CHECK: C_REQUEST writes a request; the loop  *)
(* stops when the header or the content is not all there yet.             *)
RECURSIVE Parse(_)
Parse(c) ==
    CASE c.st = "C_REQUEST" ->
            Parse([c EXCEPT !.reqs = @ + 1, !.st = "C_RECEIVE_HEADER"])
      [] c.st = "C_RECEIVE_HEADER" /\ Len(c.in) >= 5 -> Parse(OnHeader(c))
      [] c.st = "C_RECEIVE_CONTENT" /\ ContentReady(c) -> Parse(OnContent(c))
      [] c.st = "C_RECEIVE_DONE" -> Parse(OnDone(c))
      [] OTHER -> c

(* read(income): what tmp holds is put before income (write_left) and tmp *)
(* is reset; the switch runs.  Every way out of it is an incomplete      *)
(* header or content, which sets tmp = income, the unparsed rest.         *)
Read(chunk) ==
    LET r == Parse([st |-> tstate, in |-> tmp \o chunk, flen |-> filelen,
                    rcv |-> received, reqs |-> reqs, done |-> done, bad |-> FALSE])
    IN /\ tstate' = r.st
       /\ tmp' = r.in
       /\ filelen' = r.flen
       /\ received' = r.rcv
       /\ reqs' = r.reqs
       /\ done' = r.done
       /\ cfailed' = IF r.bad THEN cfailed \cup {"header_cmd"} ELSE cfailed

\* The transport hands read() the next 1..MaxChunk bytes the server sent.
Deliver ==
    /\ tstate \notin {"NONE"}
    /\ \E k \in 1..MaxChunk :
         /\ k <= Len(inbox)
         /\ Read(SubSeq(inbox, 1, k))
         /\ inbox' = SubSeq(inbox, k + 1, Len(inbox))
    /\ UNCHANGED served

\* The server answers a request it has not answered yet.
ServerRespond ==
    /\ served < reqs
    /\ served < MaxRounds
    /\ served' = served + 1
    /\ inbox' = inbox \o Response
    /\ UNCHANGED <<tstate, tmp, filelen, received, reqs, done, cfailed>>
====
