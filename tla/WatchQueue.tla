----------------------------- MODULE WatchQueue -----------------------------
(***************************************************************************)
(* What the socket observer promises its callers, without threads, locks  *)
(* or a ticker: watch and unwatch requests join one FIFO queue; the       *)
(* poller's watched set changes only by applying the oldest requests, in  *)
(* order, each once; deinit() drops what is queued and empties the set.   *)
(* A queued request is eventually applied, unless the observer is shut    *)
(* down first.                                                            *)
(***************************************************************************)
EXTENDS Naturals, Sequences

CONSTANT Keys            \* (flag, descriptor) pairs

Requests == [op : {"WATCH", "UNWATCH"}, key : Keys]

VARIABLES
    pending,   \* requests made and not yet applied
    watched,   \* the keys the poller watches
    alive      \* not yet shut down

avars == <<pending, watched, alive>>

\* The effect of one request on the watched set.
Effect(w, r) == IF r.op = "WATCH" THEN w \cup {r.key} ELSE w \ {r.key}

RECURSIVE EffectAll(_, _)
EffectAll(w, s) == IF s = <<>> THEN w ELSE EffectAll(Effect(w, Head(s)), Tail(s))

Init == pending = <<>> /\ watched = {} /\ alive = TRUE

Request(r) ==
    /\ pending' = Append(pending, r)
    /\ UNCHANGED <<watched, alive>>

\* The k oldest requests take effect together.
Apply ==
    /\ alive
    /\ \E k \in 1..Len(pending) :
         /\ watched' = EffectAll(watched, SubSeq(pending, 1, k))
         /\ pending' = SubSeq(pending, k + 1, Len(pending))
    /\ UNCHANGED alive

Shutdown ==
    /\ alive
    /\ pending' = <<>>
    /\ watched' = {}
    /\ alive' = FALSE

Next == (\E r \in Requests : Request(r)) \/ Apply \/ Shutdown

Spec == Init /\ [][Next]_avars /\ WF_avars(Apply)
====
