------------------------------ MODULE BytePipe ------------------------------
(***************************************************************************)
(* What one direction of a mux stream promises its reader, without         *)
(* buffers, windows, frames or a driver: the bytes write() accepted, in    *)
(* order, each once, are what read() returns; and while the pipe is not    *)
(* cut, every accepted byte is eventually returned to a reader that keeps *)
(* reading.  The pipe is cut when the transport fails or an end shuts its *)
(* side down; after that, reads may stop short.                            *)
(***************************************************************************)
EXTENDS Naturals, Sequences

VARIABLES
  accepted,  \* bytes accepted so far; the bytes are numbered 1..accepted
  got,       \* the bytes read() returned, in order
  cut        \* the pipe was cut

pvars == <<accepted, got, cut>>

Init == accepted = 0 /\ got = <<>> /\ cut = FALSE

\* a write() accepts more bytes
Write == accepted' > accepted /\ UNCHANGED <<got, cut>>

\* a read() returns the next bytes, in write order
Read ==
  /\ \E n \in 1..(accepted - Len(got)) :
       got' = got \o [i \in 1..n |-> Len(got) + i]
  /\ UNCHANGED <<accepted, cut>>

Cut == ~cut /\ cut' = TRUE /\ UNCHANGED <<accepted, got>>

Next == Write \/ Read \/ Cut

Spec == Init /\ [][Next]_pvars /\ WF_pvars(~cut /\ Read)
====
