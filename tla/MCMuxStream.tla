----------------------------- MODULE MCMuxStream -----------------------------
(* Model-checking instance of MuxStream: the call mixes of the runs.       *)
EXTENDS MuxStream

\* every stream call the application can make
MCAllOps == {"write", "read", "close_read", "close_write", "close"}

\* an application that never shuts its read side
MCNoReadShutdownOps == {"write", "read", "close_write"}

\* an application that writes nothing and only closes
MCCloseOnlyOps == {"close"}

\* an application that writes and shuts its read side while data is queued
MCCloseReadOps == {"write", "close_read"}

\* an application that writes and shuts its write side
MCWriteCloseOps == {"write", "close_write"}

\* stream_id_t is a 32-bit id (design 3.1: the session's id type).
Codec == INSTANCE FrameCodec WITH IdWidth <- 4

\* The bytes a frame on the wire carries after its header.
WirePayload(f) ==
    CASE f.type = "DATA" -> f.data
      [] f.type = "UWND" -> Codec!UwndPayload(f.n)
      [] OTHER -> <<>>

(* Every frame _flush puts on the transport survives mux_cargo::encode and *)
(* decode: the big-endian write_impl / read_impl of the stream id and the  *)
(* 16-bit type give back the id, the type and the payload, with the UWND   *)
(* credit readable from it, so dispatch routes each frame as sent.         *)
WireRoundTrip ==
    \A e \in Ends : \A i \in DOMAIN chan[e] :
        LET f == chan[e][i]
            w == Codec!Encode(Sid, Codec!TypeCode[f.type], WirePayload(f))
        IN /\ Len(w) >= Codec!HeaderSize
           /\ Codec!Decode(w) = [id |-> Sid, type |-> Codec!TypeCode[f.type],
                                 payload |-> WirePayload(f)]
           /\ f.type = "UWND" => Codec!ReadU32(Codec!Decode(w).payload) = f.n
(* The application keeps calling read() while bytes wait in rb: the       *)
(* premise of "a sufficiently large sequence of reads".                   *)
ReadFairSpec == FairSpec /\ \A e \in Ends : WF_vars(\E m \in ReadMax : Read(e, m))
(* P2 as flow control must deliver it, in the form of a refinement: both  *)
(* directions of the stream implement BytePipe.  Every byte read() returns *)
(* is the next one a write() of the peer accepted, and every accepted byte *)
(* is eventually read, however little the window lets through at a time,  *)
(* since read() hands rb_incre back as UWND credit.  Excepted, as a cut    *)
(* pipe, are a failed link, the peer's close_write() (the DATA-after-FIN   *)
(* and teardown findings lose bytes there) and this end's close_read().    *)
ImplementsBytePipe == PipeToActive!Spec /\ PipeToPassive!Spec
====
