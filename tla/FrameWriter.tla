---------------------------- MODULE FrameWriter ----------------------------
(***************************************************************************)
(* The per-connection writer thread of traghetto/dispatch/FrameWriter.cpp. *)
(*                                                                         *)
(* Any thread may call Enqueue; one thread, started by Start, takes the    *)
(* frames off the bounded queue and calls channel.Send outside the lock;   *)
(* Stop asks that thread to drain the queue and joins it.  The mutex       *)
(* fMutex makes each critical section one action.  The condition variable  *)
(* is kept: a writer that finds nothing to do is "asleep" and only a       *)
(* notify (or a spurious wake-up) makes it look at the queue again.        *)
(*                                                                         *)
(* The channel is a socket with room for SocketRoom unread frames: Send    *)
(* blocks while the peer does not read, and fails for a frame that is too  *)
(* large to encode or once the channel is down.  accepted and sent are     *)
(* history variables: every frame Enqueue took, and every frame the        *)
(* channel took, in order.                                                 *)
(***************************************************************************)
EXTENDS Integers, Sequences

CONSTANTS
    Frame,        \* the frames that may be written
    TooLarge,     \* the frames EncodeFrame refuses: payload over the maximum
    fMaxQueued,   \* the bound on the backlog (4096 in the code)
    SocketRoom    \* frames the transport buffers before Send blocks

ASSUME BoundsAssumption == fMaxQueued \in Nat \ {0} /\ SocketRoom \in Nat \ {0}

VARIABLES
    fQueue,      \* std::deque<Frame>: the backlog
    fStop,       \* Stop() has been called
    fFailed,     \* a Send failed or the queue overflowed
    writer,      \* where the writer thread is
    inHand,      \* the frame popped and not sent (yet, or ever): <<>> or <<f>>
    closed,      \* the channel is down: shut down here or closed by the peer
    drained,     \* how many of the sent frames the peer has read
    accepted,    \* history: frames Enqueue appended to the queue
    sent         \* history: frames for which channel.Send returned true

writerVars == <<fQueue, fStop, fFailed, writer, inHand, closed, drained,
                accepted, sent>>

WriterPC == {"unstarted", "check", "asleep", "sending", "returned"}

FrameWriterTypeOK ==
    /\ fQueue \in Seq(Frame) /\ Len(fQueue) <= fMaxQueued
    /\ fStop \in BOOLEAN
    /\ fFailed \in BOOLEAN
    /\ writer \in WriterPC
    /\ inHand \in Seq(Frame) /\ Len(inHand) <= 1
    /\ closed \in BOOLEAN
    /\ drained \in Nat
    /\ accepted \in Seq(Frame)
    /\ sent \in Seq(Frame)

InitFrameWriter ==
    /\ fQueue = <<>>
    /\ fStop = FALSE
    /\ fFailed = FALSE
    /\ writer = "unstarted"
    /\ inHand = <<>>
    /\ closed = FALSE
    /\ drained = 0
    /\ accepted = <<>>
    /\ sent = <<>>

\* fCv.notify_one and fCv.notify_all: the writer is the only thread that waits.
Notified == IF writer = "asleep" THEN "check" ELSE writer

Start ==
    /\ writer = "unstarted"
    /\ writer' = "check"
    /\ UNCHANGED <<fQueue, fStop, fFailed, inHand, closed, drained, accepted, sent>>

EnqueueAfterEnd ==
    /\ fStop \/ fFailed
    /\ UNCHANGED writerVars

EnqueueOverflow ==
    /\ ~fStop /\ ~fFailed
    /\ Len(fQueue) >= fMaxQueued
    /\ fFailed' = TRUE
    /\ writer' = Notified
    /\ UNCHANGED <<fQueue, fStop, inHand, closed, drained, accepted, sent>>

\* Mutant of EnqueueAppend: the writer is not notified.
EnqueueSilently(f) ==
    /\ ~fStop /\ ~fFailed
    /\ Len(fQueue) < fMaxQueued
    /\ fQueue' = Append(fQueue, f)
    /\ accepted' = Append(accepted, f)
    /\ UNCHANGED <<writer, fStop, fFailed, inHand, closed, drained, sent>>

EnqueueAppend(f) ==
    /\ ~fStop /\ ~fFailed
    /\ Len(fQueue) < fMaxQueued
    /\ fQueue' = Append(fQueue, f)
    /\ accepted' = Append(accepted, f)
    /\ writer' = Notified
    /\ UNCHANGED <<fStop, fFailed, inHand, closed, drained, sent>>

Enqueue(f) == EnqueueAfterEnd \/ EnqueueOverflow \/ EnqueueAppend(f)

\* Mutant of StopRequest: the sleeping writer is not notified.
StopSilently ==
    /\ fStop' = TRUE
    /\ UNCHANGED <<fQueue, fFailed, writer, inHand, closed, drained, accepted, sent>>

\* The locked half of Stop; the join that follows is a wait for JoinDone.
StopRequest ==
    /\ fStop' = TRUE
    /\ writer' = Notified
    /\ UNCHANGED <<fQueue, fFailed, inHand, closed, drained, accepted, sent>>

JoinDone == writer \in {"unstarted", "returned"}

\* The critical section of Run: wait on the condition, return, or take a frame.
RunWait ==
    /\ writer = "check"
    /\ fQueue = <<>> /\ ~fStop /\ ~fFailed
    /\ writer' = "asleep"
    /\ UNCHANGED <<fQueue, fStop, fFailed, inHand, closed, drained, accepted, sent>>

\* Mutant of RunReturn: a stop request is obeyed before the queue is drained.
RunReturnUndrained ==
    /\ writer = "check"
    /\ fFailed \/ fStop
    /\ writer' = "returned"
    /\ UNCHANGED <<fQueue, fStop, fFailed, inHand, closed, drained, accepted, sent>>

RunReturn ==
    /\ writer = "check"
    /\ fFailed \/ (fStop /\ fQueue = <<>>)
    /\ writer' = "returned"
    /\ UNCHANGED <<fQueue, fStop, fFailed, inHand, closed, drained, accepted, sent>>

\* Mutant of RunTake: the newest frame goes first.
RunTakeNewest ==
    /\ writer = "check"
    /\ ~fFailed /\ fQueue # <<>>
    /\ inHand' = <<fQueue[Len(fQueue)]>>
    /\ fQueue' = SubSeq(fQueue, 1, Len(fQueue) - 1)
    /\ writer' = "sending"
    /\ UNCHANGED <<fStop, fFailed, closed, drained, accepted, sent>>

RunTake ==
    /\ writer = "check"
    /\ ~fFailed /\ fQueue # <<>>
    /\ inHand' = <<Head(fQueue)>>
    /\ fQueue' = Tail(fQueue)
    /\ writer' = "sending"
    /\ UNCHANGED <<fStop, fFailed, closed, drained, accepted, sent>>

\* channel.Send, outside the lock.
SendDone ==
    /\ writer = "sending"
    /\ inHand[1] \notin TooLarge
    /\ Len(sent) - drained < SocketRoom
    /\ sent' = sent \o inHand
    /\ inHand' = <<>>
    /\ writer' = "check"
    /\ UNCHANGED <<fQueue, fStop, fFailed, closed, drained, accepted>>

SendFailed ==
    /\ writer = "sending"
    /\ closed \/ inHand[1] \in TooLarge
    /\ fFailed' = TRUE
    /\ writer' = "returned"
    /\ UNCHANGED <<fQueue, fStop, inHand, closed, drained, accepted, sent>>

Run == RunWait \/ RunReturn \/ RunTake \/ SendDone \/ SendFailed

\* A condition variable may wake its waiter without a notify.
SpuriousWake ==
    /\ writer = "asleep"
    /\ writer' = "check"
    /\ UNCHANGED <<fQueue, fStop, fFailed, inHand, closed, drained, accepted, sent>>

PeerReads ==
    /\ drained < Len(sent)
    /\ drained' = drained + 1
    /\ UNCHANGED <<fQueue, fStop, fFailed, writer, inHand, closed, accepted, sent>>

\* The channel goes down: Shutdown() from the daemon, or the peer closes.
ChannelDown ==
    /\ ~closed
    /\ closed' = TRUE
    /\ UNCHANGED <<fQueue, fStop, fFailed, writer, inHand, drained, accepted, sent>>

NextFrameWriter ==
    \/ Start
    \/ \E f \in Frame : Enqueue(f)
    \/ StopRequest
    \/ Run
    \/ SpuriousWake
    \/ PeerReads
    \/ ChannelDown

SpecFrameWriter == InitFrameWriter /\ [][NextFrameWriter]_writerVars

-----------------------------------------------------------------------------
\* No frame is lost, duplicated or reordered between Enqueue and channel.Send:
\* what was accepted is what was sent, then the frame in hand, then the
\* backlog, whatever failed (FrameWriter.cpp, Enqueue and Run).
Conserved == accepted = sent \o inHand \o fQueue

\* A writer thread that returned without failing has sent every frame ever
\* accepted: Stop flushes (FrameWriter.cpp, Stop and Run).
StopFlushes == (writer = "returned" /\ ~fFailed) => sent = accepted

Stream == INSTANCE FrameStream WITH accepted <- accepted, sent <- sent

\* The queue, the thread and the socket together implement a stream of frames:
\* every step accepts one frame, delivers the next one, or changes neither.
ImplementsStream == Stream!Spec
=============================================================================
