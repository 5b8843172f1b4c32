-------------------------- MODULE LiveQueryClient ---------------------------
(***************************************************************************)
(* fondamenta/backend/LiveQueryClient.cpp, talking to the server of module *)
(* LiveQuery over a channel of its own, which delivers the server's frames *)
(* in order and may go down at any time.                                   *)
(*                                                                         *)
(* `view' is what a caller gets who starts from the initial set and applies*)
(* each update its callback is given.                                      *)
(***************************************************************************)
EXTENDS LiveQuery

CONSTANT fQueryId
ASSUME ClientAssumption == fQueryId \in QueryId

VARIABLES
    caller,        \* where the thread that calls Open and Close is
    thread,        \* the receive thread: "none", "running" or "returned"
    fStop,
    down,          \* the channel has been shut down, or has failed
    received,      \* number of frames of `out' the client has received
    view,          \* initial set and updates handed to the caller
    changedSince   \* history: files that changed since Open returned

clientVars == <<caller, thread, fStop, down, received, view, changedSince>>
allVars == <<vars, clientVars>>

CallerPC == {"idle", "opening", "open", "shutdown", "join", "closed", "failed"}

ClientTypeOK ==
    /\ TypeOK
    /\ caller \in CallerPC
    /\ thread \in {"none", "running", "returned"}
    /\ fStop \in BOOLEAN /\ down \in BOOLEAN
    /\ received \in 0 .. Len(out)
    /\ view \in SUBSET File
    /\ changedSince \in SUBSET File

ClientInit ==
    /\ Init
    /\ caller = "idle"
    /\ thread = "none"
    /\ fStop = FALSE
    /\ down = FALSE
    /\ received = 0
    /\ view = {}
    /\ changedSince = {}

Send(op) ==
    IF down THEN UNCHANGED peerVars
    ELSE /\ inbox' = Append(inbox, [op |-> op, q |-> fQueryId])
         /\ asked' = asked + 1

FrameReady == ~down /\ received < Len(out)
NextFrame == out[received + 1]

\* The channel is down, or the server has closed it and all was read.
ReceiveFailed == down \/ (reader = "destroyed" /\ received = Len(out))

-----------------------------------------------------------------------------
\* Open.

Open ==
    /\ caller = "idle"
    /\ asked < MaxRequests
    /\ ~down
    /\ Send("open")
    /\ caller' = "opening"
    /\ UNCHANGED <<serverVars, kernelVars, thread, fStop, down, received, view, changedSince>>

\* Frames that are not the result are skipped.
OpenReceives ==
    /\ caller = "opening"
    /\ FrameReady
    /\ received' = received + 1
    /\ \/ /\ NextFrame.type = "error"
          /\ caller' = "failed"
          /\ UNCHANGED <<thread, view>>
       \/ /\ NextFrame.type = "result"
          /\ view' = NextFrame.entries
          /\ thread' = "running"
          /\ caller' = "open"
       \/ /\ NextFrame.type \notin {"error", "result"}
          /\ UNCHANGED <<caller, thread, view>>
    /\ UNCHANGED <<vars, fStop, down, changedSince>>

OpenFails ==
    /\ caller = "opening"
    /\ ReceiveFailed
    /\ caller' = "failed"
    /\ UNCHANGED <<vars, thread, fStop, down, received, view, changedSince>>

-----------------------------------------------------------------------------
\* The receive thread.

Applied(frame) ==
    IF frame.type # "update" \/ frame.q # fQueryId THEN view
    ELSE IF frame.added THEN view \cup {frame.file} ELSE view \ {frame.file}

\* Mutant of ReceiveLoop: a removal is taken for an addition.
ReceiveLoopAddsOnly ==
    /\ thread = "running"
    /\ FrameReady
    /\ received' = received + 1
    /\ view' = view \cup Applied(NextFrame)
    /\ thread' = IF fStop THEN "returned" ELSE thread
    /\ UNCHANGED <<vars, caller, fStop, down, changedSince>>

\* Receive gives a frame, which is delivered if it is an update of this query;
\* then fStop is looked at.
ReceiveLoop ==
    /\ thread = "running"
    /\ FrameReady
    /\ received' = received + 1
    /\ view' = Applied(NextFrame)
    /\ thread' = IF fStop THEN "returned" ELSE thread
    /\ UNCHANGED <<vars, caller, fStop, down, changedSince>>

\* Mutant of ReceiveLoopEnds: a failed Receive is tried again.
ReceiveLoopSpins ==
    /\ thread = "running"
    /\ ReceiveFailed
    /\ UNCHANGED allVars

ReceiveLoopEnds ==
    /\ thread = "running"
    /\ ReceiveFailed
    /\ thread' = "returned"
    /\ UNCHANGED <<vars, caller, fStop, down, received, view, changedSince>>

-----------------------------------------------------------------------------
\* Close.

CloseSend ==
    /\ caller = "open"
    /\ down \/ asked < MaxRequests
    /\ fStop' = TRUE
    /\ Send("close")
    /\ caller' = "shutdown"
    /\ UNCHANGED <<serverVars, kernelVars, thread, down, received, view, changedSince>>

CloseShutdown ==
    /\ caller = "shutdown"
    /\ down' = TRUE
    /\ caller' = "join"
    /\ UNCHANGED <<vars, thread, fStop, received, view, changedSince>>

CloseJoin ==
    /\ caller = "join"
    /\ thread = "returned"
    /\ caller' = "closed"
    /\ UNCHANGED <<vars, thread, fStop, down, received, view, changedSince>>

Client ==
    \/ OpenReceives \/ OpenFails \/ ReceiveLoop \/ ReceiveLoopEnds
    \/ CloseShutdown \/ CloseJoin

-----------------------------------------------------------------------------
ChannelFails ==
    /\ ~down
    /\ down' = TRUE
    /\ UNCHANGED <<vars, caller, thread, fStop, received, view, changedSince>>

\* The server sees the end of the connection once the channel is down.
ServerSteps ==
    /\ Reader \/ Looper \/ (down /\ ConnectionEnds)
    /\ UNCHANGED clientVars

FileChanges(f) ==
    /\ Change(f)
    /\ changedSince' = IF caller = "open" THEN changedSince \cup {f} ELSE changedSince
    /\ UNCHANGED <<caller, thread, fStop, down, received, view>>

\* Neither side has anything left to do.
Over ==
    /\ caller \in {"idle", "closed", "failed"} /\ reader = "destroyed"
    /\ UNCHANGED allVars

ClientNext ==
    \/ Open \/ CloseSend \/ Client \/ ChannelFails \/ ServerSteps
    \/ \E f \in File : FileChanges(f)
    \/ Over

ClientSpec ==
    /\ ClientInit /\ [][ClientNext]_allVars
    /\ WF_allVars(Client) /\ WF_allVars(ServerSteps)

-----------------------------------------------------------------------------
\* Nothing is under way: no message, no frame, no request.
Settled ==
    /\ caller = "open" /\ ~down /\ reader = "receive" /\ inbox = <<>>
    /\ queue = <<>> /\ LooperUnlocked /\ received = Len(out)

\* A file that changes once Open has returned reaches the caller, in the right
\* order: when all is delivered, the view is right about it.
LaterChangesAreSeen ==
    Settled => \A f \in changedSince : f \in view <=> f \in matching \cap Inside

\* Close returns (LiveQueryClient.cpp, "unblock the receive thread's Receive and
\* join it"), whatever the server does.
CloseReturns == (caller = "shutdown") ~> (caller = "closed")
=============================================================================
