------------------------------ MODULE Dispatch ------------------------------
(***************************************************************************)
(* ServeConnection of traghetto/dispatch/Dispatch.cpp: the threads of one  *)
(* served connection.                                                      *)
(*                                                                         *)
(*   reader   the peer's thread: Receive, Handle, Enqueue the reply, leave *)
(*            the loop when Receive fails or the writer has failed, then   *)
(*            clear the sink, stop and join the writer;                    *)
(*   writer   the FrameWriter thread (module FrameWriter);                 *)
(*   pusher   a query looper of the handler, which sends unsolicited       *)
(*            frames through the sink (FileServer::PushFrame holds         *)
(*            fSinkMutex across the call, and SetFrameSink takes it);      *)
(*   peer     sends requests, reads replies when it likes, may close.      *)
(*                                                                         *)
(* Requests are told apart by their request id only; a reply is            *)
(* <<"reply", id>> and a pushed frame <<"update", n>>.                     *)
(***************************************************************************)
EXTENDS FrameWriter, FiniteSets

CONSTANTS
    RequestId,     \* the request ids peers use
    MaxRequests,   \* bound: requests the peer sends on this connection
    MaxUpdates     \* bound: frames the handler pushes

DispatchFrame == ({"reply"} \X RequestId) \cup ({"update"} \X (1 .. MaxUpdates))

ASSUME DispatchAssumption ==
    /\ MaxRequests \in Nat
    /\ MaxUpdates \in Nat
    /\ Frame = DispatchFrame

VARIABLES
    reader,     \* where the reader thread is in ServeConnection
    request,    \* the request the reader is handling
    inbox,      \* request ids sent by the peer and not yet received
    asked,      \* history: request ids the peer has sent, in order
    fSink,      \* the handler has a sink (FileServer::fSink is not null)
    pusher,     \* "idle", or "pushing" with fSinkMutex held inside the sink
    pushes      \* number of frames pushed so far

dispatchVars == <<reader, request, inbox, asked, fSink, pusher, pushes>>
vars == <<writerVars, dispatchVars>>

ReaderPC == {"start", "install", "receive", "handle", "check", "unsink",
             "stop", "join", "returned"}

TypeOK ==
    /\ FrameWriterTypeOK
    /\ reader \in ReaderPC
    /\ request \in RequestId
    /\ inbox \in Seq(RequestId)
    /\ asked \in Seq(RequestId) /\ Len(asked) <= MaxRequests
    /\ fSink \in BOOLEAN
    /\ pusher \in {"idle", "pushing"}
    /\ pushes \in 0 .. MaxUpdates

Init ==
    /\ InitFrameWriter
    /\ reader = "start"
    /\ request \in RequestId
    /\ inbox = <<>>
    /\ asked = <<>>
    /\ fSink = FALSE
    /\ pusher = "idle"
    /\ pushes = 0

-----------------------------------------------------------------------------
\* The reader thread.

StartWriter ==
    /\ reader = "start"
    /\ Start
    /\ reader' = "install"
    /\ UNCHANGED <<request, inbox, asked, fSink, pusher, pushes>>

InstallSink ==
    /\ reader = "install"
    /\ pusher = "idle"          \* SetFrameSink locks fSinkMutex
    /\ fSink' = TRUE
    /\ reader' = "receive"
    /\ UNCHANGED <<writerVars, request, inbox, asked, pusher, pushes>>

Receive ==
    /\ reader = "receive"
    /\ inbox # <<>>
    /\ request' = Head(inbox)
    /\ inbox' = Tail(inbox)
    /\ reader' = "handle"
    /\ UNCHANGED <<writerVars, asked, fSink, pusher, pushes>>

\* Data that arrived before the channel went down may be read or be lost.
ReceiveFails ==
    /\ reader = "receive"
    /\ closed
    /\ reader' = "unsink"
    /\ UNCHANGED <<writerVars, request, inbox, asked, fSink, pusher, pushes>>

\* Mutant of EnqueueReply: the reply keeps the handler's own id.
EnqueueReplyOwnId ==
    /\ reader = "handle"
    /\ Enqueue(<<"reply", CHOOSE id \in RequestId : TRUE>>)
    /\ reader' = "check"
    /\ UNCHANGED <<request, inbox, asked, fSink, pusher, pushes>>

\* handler.Handle, then the reply with the request's id goes to the writer.
EnqueueReply ==
    /\ reader = "handle"
    /\ Enqueue(<<"reply", request>>)
    /\ reader' = "check"
    /\ UNCHANGED <<request, inbox, asked, fSink, pusher, pushes>>

CheckFailed ==
    /\ reader = "check"
    /\ reader' = IF fFailed THEN "unsink" ELSE "receive"
    /\ UNCHANGED <<writerVars, request, inbox, asked, fSink, pusher, pushes>>

\* Mutant of ClearSink: SetFrameSink does not take fSinkMutex.
ClearSinkUnlocked ==
    /\ reader = "unsink"
    /\ fSink' = FALSE
    /\ reader' = "stop"
    /\ UNCHANGED <<writerVars, request, inbox, asked, pusher, pushes>>

ClearSink ==
    /\ reader = "unsink"
    /\ pusher = "idle"          \* SetFrameSink locks fSinkMutex
    /\ fSink' = FALSE
    /\ reader' = "stop"
    /\ UNCHANGED <<writerVars, request, inbox, asked, pusher, pushes>>

StopWriter ==
    /\ reader = "stop"
    /\ StopRequest
    /\ reader' = "join"
    /\ UNCHANGED <<request, inbox, asked, fSink, pusher, pushes>>

\* The join returns, ServeConnection returns and the writer is destroyed.
JoinWriter ==
    /\ reader = "join"
    /\ JoinDone
    /\ reader' = "returned"
    /\ UNCHANGED <<writerVars, request, inbox, asked, fSink, pusher, pushes>>

Reader ==
    \/ StartWriter \/ InstallSink \/ Receive \/ ReceiveFails \/ EnqueueReply
    \/ CheckFailed \/ ClearSink \/ StopWriter \/ JoinWriter

-----------------------------------------------------------------------------
\* The handler's looper: FileServer::PushFrame.

PushBegin ==
    /\ pusher = "idle"
    /\ fSink
    /\ pushes < MaxUpdates
    /\ pusher' = "pushing"
    /\ pushes' = pushes + 1
    /\ UNCHANGED <<writerVars, reader, request, inbox, asked, fSink>>

PushEnqueue ==
    /\ pusher = "pushing"
    /\ Enqueue(<<"update", pushes>>)
    /\ pusher' = "idle"
    /\ UNCHANGED <<reader, request, inbox, asked, fSink, pushes>>

Pusher == PushBegin \/ PushEnqueue

-----------------------------------------------------------------------------
\* The writer thread, the peer and the channel.

Writer == (Run \/ SpuriousWake) /\ UNCHANGED dispatchVars

PeerSends(id) ==
    /\ ~closed
    /\ Len(asked) < MaxRequests
    /\ inbox' = Append(inbox, id)
    /\ asked' = Append(asked, id)
    /\ UNCHANGED <<writerVars, reader, request, fSink, pusher, pushes>>

PeerReceives == PeerReads /\ UNCHANGED dispatchVars

Shutdown == ChannelDown /\ UNCHANGED dispatchVars

\* ServeConnection has returned: the connection's threads are gone.
Finished == reader = "returned" /\ UNCHANGED vars

Next ==
    \/ Reader
    \/ Pusher
    \/ Writer
    \/ \E id \in RequestId : PeerSends(id)
    \/ PeerReceives
    \/ Shutdown
    \/ Finished

\* Every thread of the server is scheduled; nothing is assumed of the peer.
ThreadFairness ==
    /\ WF_vars(Reader)
    /\ WF_vars(Run /\ UNCHANGED dispatchVars)
    /\ WF_vars(PushEnqueue)

Spec == Init /\ [][Next]_vars /\ ThreadFairness

-----------------------------------------------------------------------------
IsReply(f) == f[1] = "reply"

\* How many of the first n frames of s are replies.
Replies(s, n) == Cardinality({j \in 1 .. n : IsReply(s[j])})

\* The k-th reply on the wire answers the k-th request of the peer, with its
\* id, however many frames were pushed in between (Dispatch.cpp, the serve
\* loop: "a reply always echoes the request id").
RepliesInRequestOrder ==
    \A i \in 1 .. Len(sent) :
        IsReply(sent[i]) =>
            /\ Replies(sent, i) <= Len(asked)
            /\ sent[i][2] = asked[Replies(sent, i)]

\* The sink is never inside a writer that ServeConnection has destroyed: the
\* push that holds fSinkMutex delays SetFrameSink(nullptr), which comes before
\* writer.Stop() (Dispatch.cpp, "Stop async pushes before the writer goes away").
NoPushIntoDeadWriter == pusher = "pushing" => reader \notin {"stop", "join", "returned"}

\* When ServeConnection returns and the writer has not failed, every frame that
\* was accepted is on the wire (Dispatch.cpp, "then flush and join it").
ReturnFlushes == (reader = "returned" /\ ~fFailed) => sent = accepted

\* Once the channel is down, ServeConnection returns: neither the reader in
\* Receive nor the writer in Send is left behind (Daemon::Stop relies on it).
ShutdownEndsServe == closed ~> reader = "returned"

\* A peer that keeps reading is sent every frame the writer accepted, unless
\* the writer fails: no wake-up of the writer is ever lost.
AcceptedIsSent ==
    WF_vars(PeerReceives) =>
    \A n \in 1 .. MaxRequests + MaxUpdates :
        (Len(accepted) >= n) ~> (Len(sent) >= n \/ fFailed)
=============================================================================
