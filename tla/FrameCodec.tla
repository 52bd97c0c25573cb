---------------------------- MODULE FrameCodec ----------------------------
(***************************************************************************)
(* The mux frame codec: the big-endian integer helpers of                  *)
(* include/wawo/bytes_helper.hpp and mux_cargo::encode                     *)
(* (include/wawo/net/peer/message/mux_cargo.hpp).  A byte is a natural    *)
(* number below 256 and a buffer is a sequence of bytes.  write_impl      *)
(* keeps the low sizeof(T) bytes of its value, which is the conversion to *)
(* the unsigned type T; read_impl of sizeof(T) bytes never leaves T.       *)
(***************************************************************************)
EXTENDS Naturals, Sequences, SequencesExt

CONSTANT IdWidth   \* sizeof(stream_id_t)

ASSUME IdWidth \in Nat \ {0}


\* Mutant: the bytes of val, least significant first.
RECURSIVE WriteImplLittleEndian(_, _)
WriteImplLittleEndian(val, w) ==
    IF w = 0 THEN <<>>
    ELSE << val % 256 >> \o WriteImplLittleEndian(val \div 256, w - 1)

\* write_impl<T>: the sizeof(T) bytes of val, most significant first.
RECURSIVE WriteImpl(_, _)
WriteImpl(val, w) ==
    IF w = 0 THEN <<>>
    ELSE << (val \div 2^(8 * (w - 1))) % 256 >> \o WriteImpl(val, w - 1)

\* read_impl<T>: ret <<= 8; ret |= byte, over sizeof(T) bytes, in type T.
ReadImpl(bytes, w) ==
    FoldLeft(LAMBDA ret, b : ret * 256 + b, 0, SubSeq(bytes, 1, w))

\* write_u16 / write_u32 / read_u16 / read_u32: the value converted to the
\* unsigned type, then write_impl / read_impl of that width.
WriteU16(v) == WriteImpl(v, 2)
WriteU32(v) == WriteImpl(v, 4)
ReadU16(bytes) == ReadImpl(bytes, 2)
ReadU32(bytes) == ReadImpl(bytes, 4)

\* enum mux_stream_message_type
TypeCode == [SYN |-> 1, DATA |-> 2, UWND |-> 4, RST |-> 8, FIN |-> 16,
             ACCEPTED |-> 32, CLOSED |-> 64, WRITE_BLOCK |-> 128,
             WRITE_UNBLOCK |-> 256]

(* mux_cargo::encode: the payload, if any, then write_left of the type    *)
(* masked to 16 bits, then write_left of the stream id; write_left puts   *)
(* its bytes before what the packet holds, so the wire order is           *)
(* id, type, payload.                                                       *)
Encode(id, type, payload) ==
    WriteImpl(id, IdWidth)
      \o WriteU16(type % 65536)
      \o payload

HeaderSize == IdWidth + 2

\* The payload of a UWND frame: the credit as a u32 (design 4.4; _flush is
\* not in the repository).
UwndPayload(n) == WriteU32(n)

(* decode (design 3.1): InvalidFrame when the buffer is shorter than the   *)
(* header; otherwise the id, the 16-bit type and the rest as payload.      *)
Decode(bytes) ==
    IF Len(bytes) < HeaderSize THEN "InvalidFrame"
    ELSE [id      |-> ReadImpl(bytes, IdWidth),
          type    |-> ReadU16(SubSeq(bytes, IdWidth + 1, HeaderSize)),
          payload |-> SubSeq(bytes, HeaderSize + 1, Len(bytes))]
====
