---------------------------- MODULE MCWcpSession ----------------------------
(***************************************************************************)
(* The test client over the observer: the client socket's descriptor FdC  *)
(* is watched for IOE_READ once connected() has run (socket.cpp, not in   *)
(* the repository, queues that watch), and each read task of FdC runs the *)
(* socket's read, which hands client_req_handler::read the bytes that     *)
(* arrived.  Another thread watches and unwatches a second descriptor FdO *)
(* whose peer is always ready, so its tasks, and the queue, keep busy.    *)
(***************************************************************************)
EXTENDS Naturals, Sequences, TLC

CONSTANTS So, App, FdC, FdO, MaxPush, MaxChunk, MaxRounds

VARIABLES ops, opsLock, pushing, pushes, alive, tick, watched,
          rState, wState, rLock, tasks, ofailed,
          tstate, tmp, filelen, received, reqs, served, inbox, done, cfailed

\* A one-byte-plus file with a zero byte, as strncmp would see it.
MCFile == <<7, 0>>

Obs == INSTANCE SocketObserver WITH Threads <- {So, App}, Fds <- {FdC, FdO}
Cl == INSTANCE WcpClient WITH File <- MCFile, HeaderCmd <- 2, FastTransfer <- FALSE

obsVars == <<ops, opsLock, pushing, pushes, alive, tick, watched,
             rState, wState, rLock, tasks, ofailed>>
clVars == <<tstate, tmp, filelen, received, reqs, served, inbox, done, cfailed>>
vars == <<obsVars, clVars>>

WatchRead == [op |-> "WATCH", key |-> <<"READ", FdC>>]

\* FdC is readable when bytes wait for it; the rest is always ready.
ReadyKeys == (IF inbox # <<>> THEN {<<"READ", FdC>>} ELSE {})
               \cup {<<"WRITE", FdC>>} \cup ({"READ", "WRITE"} \X {FdO})

Init == Obs!Init /\ Cl!Init

SoWatchRead ==
    /\ tstate # "NONE" /\ pushes[So] = 0
    /\ Obs!PushBegin(So, WatchRead) /\ UNCHANGED clVars

AppPush == \E o \in [op : {"WATCH", "UNWATCH"}, key : Obs!Flags \X {FdO}] :
              Obs!PushBegin(App, o) /\ UNCHANGED clVars

ClientRead == Obs!ReadTaskBegin(FdC) /\ Cl!Deliver

ObserverStep ==
    /\ \/ \E t \in {So, App} : Obs!PushEnd(t)
       \/ Obs!TickCheck
       \/ Obs!TickDrain
       \/ Obs!TickPoll(ReadyKeys)
       \/ Obs!ReadTaskBegin(FdO)
       \/ \E f \in {FdC, FdO} : \/ Obs!ReadTaskEnd(f)
                                 \/ Obs!WriteTaskBegin(f)
                                 \/ Obs!WriteTaskEnd(f)
    /\ UNCHANGED clVars

Next ==
    \/ Cl!Connected /\ UNCHANGED obsVars
    \/ Cl!ServerRespond /\ UNCHANGED obsVars
    \/ SoWatchRead
    \/ AppPush
    \/ ClientRead
    \/ ObserverStep
    \/ Obs!Deinit /\ UNCHANGED clVars

(* The ticker is rescheduled by observer_ticker, the tasks run on the     *)
(* scheduler's threads, the socket layer registers the read watch, and    *)
(* the server answers: each is weakly fair.  The application's own        *)
(* watch / unwatch calls and deinit() are not.                            *)
Fairness ==
    /\ WF_vars(Cl!Connected /\ UNCHANGED obsVars)
    /\ WF_vars(Cl!ServerRespond /\ UNCHANGED obsVars)
    /\ WF_vars(SoWatchRead)
    /\ WF_vars(ClientRead)
    /\ \A t \in {So, App} : WF_vars(Obs!PushEnd(t) /\ UNCHANGED clVars)
    /\ WF_vars((Obs!TickCheck \/ Obs!TickDrain \/ Obs!TickPoll(ReadyKeys))
               /\ UNCHANGED clVars)
    /\ \A f \in {FdC, FdO} :
         WF_vars((Obs!ReadTaskEnd(f) \/ Obs!WriteTaskBegin(f) \/ Obs!WriteTaskEnd(f))
                 /\ UNCHANGED clVars)
    /\ WF_vars(Obs!ReadTaskBegin(FdO) /\ UNCHANGED clVars)

Spec == Init /\ [][Next]_vars /\ Fairness
-----------------------------------------------------------------------------
ImplementsWatchQueue == Obs!ImplementsWatchQueue

(* No WAWO_ASSERT fails: the io tasks find their context POSTED, and the  *)
(* client finds C_TRANSFER_FILE_HEADER wherever it parses a header, so    *)
(* the bytes it keeps in tmp across deliveries are neither lost nor read  *)
(* twice.                                                                 *)
NoFailedAsserts == ofailed = {} /\ cfailed = {}

(* Every transfer the client completes holds exactly the file the server  *)
(* sent, however the stream was split between read() calls.  The client's *)
(* own check cannot tell: its WAWO_ASSERT on a mismatch is of a string.   *)
TransferIntact == \A i \in 1..Len(done) : done[i] = MCFile

(* The client completes every transfer the server answers, unless the     *)
(* observer is shut down: the read watch is applied and every delivery    *)
(* that ends a file completes it.                                         *)
TransferCompletes == <>(Len(done) = MaxRounds \/ ~alive)
====
