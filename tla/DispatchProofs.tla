--------------------------- MODULE DispatchProofs ---------------------------
(***************************************************************************)
(* Proofs about the served connection, for every queue bound, socket size, *)
(* set of request ids and number of requests and pushes: first about the   *)
(* FrameWriter on its own, whoever calls it, then about ServeConnection,   *)
(* whose steps are FrameWriter steps or leave the writer alone.            *)
(***************************************************************************)
EXTENDS Dispatch, FiniteSetTheorems, SequenceTheorems, TLAPS

\* Conserved is inductive only with the place of the writer thread: a frame is
\* in hand only while it is being sent (or was refused by the channel), and a
\* thread that returned without failing left nothing behind.
Idle == {"unstarted", "check", "asleep"}

FrameWriterInv ==
    /\ FrameWriterTypeOK
    /\ Conserved
    /\ writer \in Idle => inHand = <<>>
    /\ writer = "sending" => Len(inHand) = 1
    /\ (writer = "returned" /\ ~fFailed) =>
            fStop /\ fQueue = <<>> /\ inHand = <<>>

\* Taking the head of the backlog in hand moves no frame.
LEMMA HeadInHand ==
    ASSUME NEW S, NEW s \in Seq(S), NEW q \in Seq(S), q # <<>>
    PROVE  /\ <<Head(q)>> \in Seq(S)
           /\ Tail(q) \in Seq(S)
           /\ Len(Tail(q)) = Len(q) - 1
           /\ (s \o <<>>) \o q = (s \o <<Head(q)>>) \o Tail(q)
<1>1. Head(q) \in S /\ Tail(q) \in Seq(S) /\ Len(Tail(q)) = Len(q) - 1
  BY HeadTailProperties
<1>2. q = <<Head(q)>> \o Tail(q)
  <2>1. <<Head(q)>> \o Tail(q) \in Seq(S) /\ Len(<<Head(q)>> \o Tail(q)) = Len(q)
    BY <1>1, ConcatProperties, LenProperties, EmptySeq, <<Head(q)>> \in Seq(S), Len(<<Head(q)>>) = 1
  <2>2. ASSUME NEW i \in 1 .. Len(q) PROVE q[i] = (<<Head(q)>> \o Tail(q))[i]
    BY <1>1, HeadTailProperties, ConcatProperties, LenProperties, <<Head(q)>> \in Seq(S), Len(<<Head(q)>>) = 1
  <2> QED
    BY <2>1, <2>2, SeqEqual
<1>3. s \o <<>> = s
  BY ConcatEmptySeq
<1>4. (s \o <<Head(q)>>) \o Tail(q) = s \o (<<Head(q)>> \o Tail(q))
  BY <1>1, ConcatAssociative, <<Head(q)>> \in Seq(S)
<1> QED
  BY <1>1, <1>2, <1>3, <1>4

LEMMA OneMore ==
  ASSUME NEW S, NEW s \in Seq(S), NEW q \in Seq(S), NEW f \in S
  PROVE  (s \o q) \o <<f>> = s \o (q \o <<f>>)
<1>1. <<f>> \in Seq(S)
  OBVIOUS
<1> QED
  BY <1>1, ConcatAssociative

-----------------------------------------------------------------------------
\* The FrameWriter, whoever calls it.

LEMMA AppendConserves ==
  ASSUME FrameWriterTypeOK, Conserved, NEW f \in Frame, EnqueueAppend(f) PROVE Conserved'
<1> DEFINE ahead == sent \o inHand
<1>1. sent \in Seq(Frame) /\ inHand \in Seq(Frame) /\ fQueue \in Seq(Frame)
  BY DEF FrameWriterTypeOK
<1>2. ahead \in Seq(Frame) /\ accepted = ahead \o fQueue /\ ahead' = ahead
  BY <1>1, ConcatProperties DEF Conserved, EnqueueAppend
<1>3. accepted \in Seq(Frame)
  BY <1>1, <1>2, ConcatProperties
<1>4. accepted' = accepted \o <<f>> /\ fQueue' = fQueue \o <<f>>
  BY <1>1, <1>3, AppendIsConcat DEF EnqueueAppend
<1> HIDE DEF ahead
<1>5. (ahead \o fQueue) \o <<f>> = ahead \o (fQueue \o <<f>>)
  BY <1>1, <1>2, OneMore
<1> QED
  BY <1>2, <1>4, <1>5 DEF Conserved, ahead

LEMMA FrameWriterInit == InitFrameWriter => FrameWriterInv
<1> SUFFICES ASSUME InitFrameWriter PROVE FrameWriterInv
  OBVIOUS
<1>1. <<>> \in Seq(Frame) /\ Len(<<>>) = 0
  BY EmptySeq
<1>2. Conserved
  <2>1. (<<>> \o <<>>) \o <<>> = <<>>
    BY <1>1, ConcatEmptySeq
  <2> QED
    BY <2>1 DEF InitFrameWriter, Conserved
<1>3. FrameWriterTypeOK
  <2>1. Len(fQueue) <= fMaxQueued /\ Len(inHand) <= 1
    BY <1>1, BoundsAssumption DEF InitFrameWriter
  <2> QED
    BY <1>1, <2>1 DEF InitFrameWriter, FrameWriterTypeOK, WriterPC
<1> QED
  BY <1>2, <1>3 DEF InitFrameWriter, FrameWriterInv, Idle

LEMMA FrameWriterStep ==
    ASSUME FrameWriterInv, [NextFrameWriter]_writerVars
    PROVE  FrameWriterInv'
<1> USE DEF FrameWriterInv, FrameWriterTypeOK, WriterPC, Idle, Notified
<1>1. CASE Start
  BY <1>1 DEF Start, Conserved
<1>2. ASSUME NEW f \in Frame, Enqueue(f) PROVE FrameWriterInv'
  <2>1. CASE EnqueueAfterEnd
    BY <2>1 DEF EnqueueAfterEnd, writerVars, Conserved
  <2>2. CASE EnqueueOverflow
    BY <2>2 DEF EnqueueOverflow, Conserved
  <2>3. CASE EnqueueAppend(f)
    <3>1. Conserved'
      BY <2>3, AppendConserves
    <3>2. FrameWriterTypeOK'
      BY <2>3, AppendProperties, BoundsAssumption, LenProperties DEF EnqueueAppend
    <3> QED
      BY <2>3, <3>1, <3>2 DEF EnqueueAppend
  <2> QED
    BY <1>2, <2>1, <2>2, <2>3 DEF Enqueue
<1>3. CASE StopRequest
  BY <1>3 DEF StopRequest, Conserved
<1>4. CASE Run
  <2>1. CASE RunWait
    BY <2>1 DEF RunWait, Conserved
  <2>2. CASE RunReturn
    BY <2>2 DEF RunReturn, Conserved
  <2>3. CASE RunTake
    <3>1. Len(<<Head(fQueue)>>) = 1
      OBVIOUS
    <3>2. FrameWriterTypeOK'
      BY <2>3, <3>1, HeadInHand, BoundsAssumption, LenProperties DEF RunTake
    <3>3. Conserved'
      BY <2>3, HeadInHand DEF RunTake, Conserved
    <3> QED
      BY <2>3, <3>1, <3>2, <3>3 DEF RunTake
  <2>4. CASE SendDone
    <3>1. Conserved'
      BY <2>4, ConcatProperties, ConcatEmptySeq DEF SendDone, Conserved
    <3>2. FrameWriterTypeOK'
      BY <2>4, ConcatProperties, EmptySeq DEF SendDone
    <3> QED
      BY <2>4, <3>1, <3>2 DEF SendDone
  <2>5. CASE SendFailed
    BY <2>5 DEF SendFailed, Conserved
  <2> QED
    BY <1>4, <2>1, <2>2, <2>3, <2>4, <2>5 DEF Run
<1>5. CASE SpuriousWake
  BY <1>5 DEF SpuriousWake, Conserved
<1>6. CASE PeerReads
  BY <1>6 DEF PeerReads, Conserved
<1>7. CASE ChannelDown
  BY <1>7 DEF ChannelDown, Conserved
<1>8. CASE UNCHANGED writerVars
  BY <1>8 DEF writerVars, Conserved
<1> QED
  BY <1>1, <1>2, <1>3, <1>4, <1>5, <1>6, <1>7, <1>8 DEF NextFrameWriter

LEMMA FrameWriterInvFlushes == FrameWriterInv => StopFlushes
<1> SUFFICES ASSUME FrameWriterInv, writer = "returned", ~fFailed
             PROVE  sent = accepted
  BY DEF StopFlushes
<1>1. accepted = (sent \o <<>>) \o <<>>
  BY DEF FrameWriterInv, Conserved
<1> QED
  BY <1>1, ConcatEmptySeq DEF FrameWriterInv, FrameWriterTypeOK

\* Every writer step accepts a frame, delivers the next frame of the stream,
\* or leaves the stream alone.
LEMMA StreamStep ==
    ASSUME FrameWriterInv, [NextFrameWriter]_writerVars
    PROVE  [Stream!Next]_<<accepted, sent>>
<1>1. ASSUME NEW f \in Frame, EnqueueAppend(f) PROVE Stream!Next
  BY <1>1 DEF EnqueueAppend, Stream!Next, Stream!Accept
<1>2. CASE SendDone
  <2>1. PICK f \in Frame : inHand = <<f>>
    <3>1. Len(inHand) = 1 /\ inHand \in Seq(Frame)
      BY <1>2 DEF SendDone, FrameWriterInv, FrameWriterTypeOK
    <3>2. inHand[1] \in Frame
      BY <3>1, ElementOfSeq
    <3>3. inHand = <<inHand[1]>>
      BY <3>1, <3>2, SeqEqual, <<inHand[1]>> \in Seq(Frame), Len(<<inHand[1]>>) = 1
    <3> QED
      BY <3>2, <3>3
  <2>2. /\ sent \in Seq(Frame) /\ fQueue \in Seq(Frame) /\ <<f>> \in Seq(Frame)
        /\ Len(<<f>>) = 1 /\ Len(sent) \in Nat /\ Len(fQueue) \in Nat
    BY LenProperties DEF FrameWriterInv, FrameWriterTypeOK
  <2>3. /\ sent \o <<f>> \in Seq(Frame) /\ Len(sent \o <<f>>) = Len(sent) + 1
        /\ (sent \o <<f>>)[Len(sent) + 1] = f
    BY <2>2, ConcatProperties
  <2>4. accepted = (sent \o <<f>>) \o fQueue
    BY <2>1 DEF FrameWriterInv, Conserved
  <2>5. Len(accepted) = Len(sent) + 1 + Len(fQueue) /\ accepted[Len(sent) + 1] = f
    BY <2>2, <2>3, <2>4, ConcatProperties
  <2>6. sent' = Append(sent, f)
    BY <1>2, <2>1, <2>2, AppendIsConcat DEF SendDone
  <2> QED
    BY <1>2, <2>2, <2>5, <2>6 DEF SendDone, Stream!Next, Stream!Deliver
<1>3. ASSUME NextFrameWriter, ~SendDone, \A f \in Frame : ~EnqueueAppend(f)
      PROVE  UNCHANGED <<accepted, sent>>
  BY <1>3 DEF NextFrameWriter, Start, Enqueue, EnqueueAfterEnd, EnqueueOverflow,
              StopRequest, Run, RunWait, RunReturn, RunTake, SendFailed,
              SpuriousWake, PeerReads, ChannelDown, writerVars
<1>4. CASE UNCHANGED writerVars
  BY <1>4 DEF writerVars
<1> QED
  BY <1>1, <1>2, <1>3, <1>4

\* However its callers, its thread and the channel interleave, the writer never
\* loses, duplicates or reorders a frame (FrameWriter.cpp, Enqueue and Run).
THEOREM WriterConserves == SpecFrameWriter => []Conserved
<1>1. FrameWriterInv => Conserved
  BY DEF FrameWriterInv
<1> QED
  BY <1>1, FrameWriterInit, FrameWriterStep, PTL DEF SpecFrameWriter

\* The writer implements a stream of frames (FrameWriter.h: one thread sends
\* everything that was enqueued).
THEOREM WriterImplementsStream == SpecFrameWriter => ImplementsStream
<1>1. InitFrameWriter => Stream!Init
  BY DEF InitFrameWriter, Stream!Init
<1> QED
  BY <1>1, FrameWriterInit, FrameWriterStep, StreamStep, PTL
  DEF SpecFrameWriter, ImplementsStream, Stream!Spec

-----------------------------------------------------------------------------
\* ServeConnection.

\* The sink exists only between InstallSink and ClearSink, a push is under way
\* only while it exists, and ServeConnection returns only after the thread.
DispatchInv ==
    /\ TypeOK
    /\ FrameWriterInv
    /\ pusher = "pushing" => fSink /\ pushes # 0
    /\ reader \in {"start", "install", "stop", "join", "returned"} => ~fSink
    /\ reader # "start" => writer # "unstarted"
    /\ reader = "returned" => writer = "returned"

\* A reply and a pushed frame are frames of the writer.
LEMMA OwnFrames ==
    ASSUME TypeOK
    PROVE  /\ <<"reply", request>> \in Frame
           /\ pushes # 0 => <<"update", pushes>> \in Frame
  BY DispatchAssumption DEF TypeOK, DispatchFrame

\* Every step of the connection is a step of its writer or none at all.
LEMMA WriterSimulation ==
    ASSUME TypeOK, pusher = "pushing" => pushes # 0, [Next]_vars
    PROVE  [NextFrameWriter]_writerVars
<1>1. CASE Reader
  BY <1>1, OwnFrames
  DEF Reader, StartWriter, InstallSink, Receive, ReceiveFails, EnqueueReply,
      CheckFailed, ClearSink, StopWriter, JoinWriter, NextFrameWriter
<1>2. CASE Pusher
  BY <1>2, OwnFrames DEF Pusher, PushBegin, PushEnqueue, NextFrameWriter
<1>3. CASE Writer
  BY <1>3 DEF Writer, NextFrameWriter
<1>4. CASE \E id \in RequestId : PeerSends(id)
  BY <1>4 DEF PeerSends
<1>5. CASE PeerReceives \/ Shutdown
  BY <1>5 DEF PeerReceives, Shutdown, NextFrameWriter
<1>6. CASE Finished \/ UNCHANGED vars
  BY <1>6 DEF Finished, vars
<1> QED
  BY <1>1, <1>2, <1>3, <1>4, <1>5, <1>6 DEF Next

LEMMA DispatchInit == Init => DispatchInv
<1> SUFFICES ASSUME Init PROVE DispatchInv
  OBVIOUS
<1>1. FrameWriterInv
  BY FrameWriterInit DEF Init
<1>2. <<>> \in Seq(RequestId) /\ Len(<<>>) = 0
  BY EmptySeq
<1>3. 0 <= MaxRequests /\ 0 \in 0 .. MaxUpdates
  BY DispatchAssumption
<1>4. TypeOK
  BY <1>1, <1>2, <1>3 DEF Init, TypeOK, ReaderPC, FrameWriterInv
<1> QED
  BY <1>1, <1>4 DEF Init, DispatchInv

\* The writer thread is created once and nothing un-returns it.
LEMMA ThreadProgress ==
    ASSUME [NextFrameWriter]_writerVars
    PROVE  /\ writer # "unstarted" => writer' # "unstarted"
           /\ writer = "returned" => writer' = "returned"
  BY DEF NextFrameWriter, Start, Enqueue, EnqueueAfterEnd, EnqueueOverflow,
         EnqueueAppend, StopRequest, Run, RunWait, RunReturn, RunTake, SendDone,
         SendFailed, SpuriousWake, PeerReads, ChannelDown, Notified, writerVars

LEMMA DispatchStep ==
    ASSUME DispatchInv, [Next]_vars
    PROVE  DispatchInv'
<1>1. [NextFrameWriter]_writerVars
  BY WriterSimulation DEF DispatchInv
<1>2. FrameWriterInv'
  BY <1>1, FrameWriterStep DEF DispatchInv
<1>3. /\ writer # "unstarted" => writer' # "unstarted"
      /\ writer = "returned" => writer' = "returned"
  BY <1>1, ThreadProgress
<1>4. FrameWriterTypeOK'
  BY <1>2 DEF FrameWriterInv
<1> USE DEF DispatchInv, TypeOK, ReaderPC
<1>5. CASE Reader
  <2>1. CASE StartWriter
    BY <1>2, <1>4, <2>1 DEF StartWriter, Start
  <2>2. CASE InstallSink
    BY <1>2, <1>3, <1>4, <2>2 DEF InstallSink
  <2>3. CASE Receive
    <3>1. Head(inbox) \in RequestId /\ Tail(inbox) \in Seq(RequestId)
      BY <2>3, HeadTailProperties DEF Receive
    <3> QED
      BY <1>2, <1>3, <1>4, <2>3, <3>1 DEF Receive
  <2>4. CASE ReceiveFails
    BY <1>2, <1>3, <1>4, <2>4 DEF ReceiveFails
  <2>5. CASE EnqueueReply
    BY <1>2, <1>3, <1>4, <2>5 DEF EnqueueReply
  <2>6. CASE CheckFailed
    BY <1>2, <1>3, <1>4, <2>6 DEF CheckFailed
  <2>7. CASE ClearSink
    BY <1>2, <1>3, <1>4, <2>7 DEF ClearSink
  <2>8. CASE StopWriter
    BY <1>2, <1>3, <1>4, <2>8 DEF StopWriter
  <2>9. CASE JoinWriter
    BY <1>2, <1>3, <1>4, <2>9 DEF JoinWriter, JoinDone, writerVars
  <2> QED
    BY <1>5, <2>1, <2>2, <2>3, <2>4, <2>5, <2>6, <2>7, <2>8, <2>9 DEF Reader
<1>6. CASE Pusher
  <2>1. CASE PushBegin
    <3>1. pushes + 1 \in 0 .. MaxUpdates /\ pushes + 1 # 0
      BY <2>1, DispatchAssumption DEF PushBegin
    <3> QED
      BY <1>2, <1>3, <1>4, <2>1, <3>1 DEF PushBegin
  <2>2. CASE PushEnqueue
    BY <1>2, <1>3, <1>4, <2>2 DEF PushEnqueue
  <2> QED
    BY <1>6, <2>1, <2>2 DEF Pusher
<1>7. CASE Writer \/ PeerReceives \/ Shutdown \/ Finished \/ UNCHANGED vars
  BY <1>2, <1>3, <1>4, <1>7
  DEF Writer, PeerReceives, Shutdown, Finished, vars, dispatchVars
<1>8. ASSUME NEW id \in RequestId, PeerSends(id) PROVE DispatchInv'
  <2>1. /\ Append(inbox, id) \in Seq(RequestId)
        /\ Append(asked, id) \in Seq(RequestId)
        /\ Len(Append(asked, id)) = Len(asked) + 1
        /\ Len(asked) \in Nat
    BY AppendProperties, LenProperties
  <2>2. Len(asked') <= MaxRequests
    BY <1>8, <2>1, DispatchAssumption DEF PeerSends
  <2> QED
    BY <1>2, <1>3, <1>4, <1>8, <2>1, <2>2 DEF PeerSends
<1> QED
  BY <1>5, <1>6, <1>7, <1>8 DEF Next

\* No thread of a served connection ever holds a value outside its type, and
\* the backlog never exceeds fMaxQueued.
THEOREM DispatchTypeCorrect == Spec => []TypeOK
<1>1. DispatchInv => TypeOK
  BY DEF DispatchInv
<1> QED
  BY <1>1, DispatchInit, DispatchStep, PTL DEF Spec

\* A push never runs into a FrameWriter that is stopping or destroyed: the sink
\* is cleared under fSinkMutex before writer.Stop() (Dispatch.cpp, the end of
\* ServeConnection; FileServer.cpp, PushFrame and SetFrameSink).
THEOREM SinkIsSafe == Spec => []NoPushIntoDeadWriter
<1>1. DispatchInv => NoPushIntoDeadWriter
  BY DEF DispatchInv, NoPushIntoDeadWriter
<1> QED
  BY <1>1, DispatchInit, DispatchStep, PTL DEF Spec

\* ServeConnection returns with every accepted frame on the wire, unless the
\* writer failed (Dispatch.cpp, "then flush and join it").
THEOREM ServeFlushes == Spec => []ReturnFlushes
<1>1. DispatchInv => ReturnFlushes
  BY FrameWriterInvFlushes DEF DispatchInv, ReturnFlushes, StopFlushes
<1> QED
  BY <1>1, DispatchInit, DispatchStep, PTL DEF Spec

\* What a served connection puts on the wire is a stream: replies and pushed
\* frames in the order they were enqueued, each once, with no gap.
THEOREM ServeImplementsStream == Spec => ImplementsStream
<1>1. Init => Stream!Init
  BY DEF Init, InitFrameWriter, Stream!Init
<1>2. DispatchInv /\ [Next]_vars => [Stream!Next]_<<accepted, sent>>
  BY WriterSimulation, StreamStep DEF DispatchInv
<1> QED
  BY <1>1, <1>2, DispatchInit, DispatchStep, PTL DEF Spec, ImplementsStream, Stream!Spec

-----------------------------------------------------------------------------
\* The order of the replies.

\* The requests the reader has taken off the connection.
Received == Len(asked) - Len(inbox)

\* What is still in the inbox is the end of what was asked.
InboxIsTheRest ==
    /\ Received \in Nat
    /\ \A k \in 1 .. Len(inbox) : inbox[k] = asked[Received + k]

\* Every accepted reply answers its request, sent or not; until the writer
\* fails, every received request but the one in hand has had its reply.
RepliesAccepted ==
    \A i \in 1 .. Len(accepted) :
        IsReply(accepted[i]) =>
            /\ Replies(accepted, i) \in 1 .. Received
            /\ accepted[i][2] = asked[Replies(accepted, i)]

InHand == IF reader = "handle" THEN 1 ELSE 0

OrderInv ==
    /\ InboxIsTheRest
    /\ RepliesAccepted
    /\ fStop => reader \in {"join", "returned"}
    /\ reader = "handle" => Received >= 1 /\ request = asked[Received]
    /\ ~fFailed => Replies(accepted, Len(accepted)) = Received - InHand

\* One more frame at the end changes no earlier count.
LEMMA RepliesOfAppend ==
    ASSUME NEW S, NEW s \in Seq(S), NEW f \in S
    PROVE  /\ \A i \in 0 .. Len(s) : Replies(Append(s, f), i) = Replies(s, i)
           /\ Replies(s, Len(s)) \in Nat
           /\ Replies(Append(s, f), Len(s) + 1) =
                Replies(s, Len(s)) + (IF IsReply(f) THEN 1 ELSE 0)
<1> DEFINE t == Append(s, f)
           n == Len(s)
           R(q, i) == {j \in 1 .. i : IsReply(q[j])}
<1>1. n \in Nat /\ t[n + 1] = f /\ \A j \in 1 .. n : t[j] = s[j]
  BY AppendProperties, LenProperties
<1> HIDE DEF t, n
<1>2. ASSUME NEW i \in 0 .. n PROVE R(t, i) = R(s, i)
  <2>1. \A j \in 1 .. i : t[j] = s[j]
    BY <1>1, <1>2
  <2> QED
    BY <2>1
<1>3. IsFiniteSet(R(s, n)) /\ Cardinality(R(s, n)) \in Nat
  <2>1. IsFiniteSet(1 .. n)
    BY <1>1, FS_Interval
  <2> QED
    BY <2>1, FS_Subset, FS_CardinalityType
<1>4. R(t, n + 1) = IF IsReply(f) THEN R(s, n) \cup {n + 1} ELSE R(s, n)
  <2>1. \A j : j \in 1 .. n + 1 <=> j \in 1 .. n \/ j = n + 1
    BY <1>1
  <2> QED
    BY <1>1, <2>1
<1>5. Cardinality(R(s, n) \cup {n + 1}) = Cardinality(R(s, n)) + 1
  <2>1. n + 1 \notin R(s, n)
    BY <1>1
  <2> QED
    BY <1>3, <2>1, FS_AddElement
<1>6. Cardinality(R(t, n + 1)) = Cardinality(R(s, n)) + (IF IsReply(f) THEN 1 ELSE 0)
  <2>1. CASE IsReply(f)
    BY <1>4, <1>5, <2>1
  <2>2. CASE ~IsReply(f)
    <3>1. R(t, n + 1) = R(s, n)
      BY <1>4, <2>2
    <3>2. (IF IsReply(f) THEN 1 ELSE 0) = 0
      BY <2>2
    <3>3. PICK c \in Nat : c = Cardinality(R(s, n))
      BY <1>3
    <3> QED
      BY <3>1, <3>2, <3>3, c + 0 = c
  <2> QED
    BY <2>1, <2>2
<1> QED
  BY <1>2, <1>3, <1>6 DEF Replies, t, n

LEMMA OrderInit == Init => OrderInv
<1> SUFFICES ASSUME Init PROVE OrderInv
  OBVIOUS
<1>1. accepted = <<>> /\ asked = <<>> /\ inbox = <<>> /\ ~fStop /\ reader = "start"
  BY DEF Init, InitFrameWriter
<1>2. Len(<<>>) = 0 /\ 1 .. 0 = {}
  BY EmptySeq
<1>3. Received = 0 /\ InHand = 0
  BY <1>1, <1>2 DEF Received, InHand
<1>4. Replies(accepted, Len(accepted)) = 0
  <2>1. {j \in 1 .. 0 : IsReply(accepted[j])} = {}
    BY <1>2
  <2> QED
    BY <1>1, <1>2, <2>1, FS_EmptySet DEF Replies
<1> QED
  BY <1>1, <1>2, <1>3, <1>4 DEF OrderInv, InboxIsTheRest, RepliesAccepted

\* The accepted frames grow only by a frame of the caller.
Quiet == UNCHANGED accepted
Appends(f) == ~fFailed /\ ~fStop /\ accepted' = Append(accepted, f)

\* Every step of the writer accepts nothing, or is the Enqueue of a frame;
\* a failure is for good, and Stop alone sets fStop.
LEMMA EnqueueEffect ==
    ASSUME NEW f, Enqueue(f)
    PROVE  /\ Appends(f) \/ (Quiet /\ (fStop \/ fFailed'))
           /\ fFailed => fFailed'
           /\ fStop' = fStop
  BY DEF Enqueue, EnqueueAfterEnd, EnqueueOverflow, EnqueueAppend, Quiet, Appends, writerVars

LEMMA WriterEffect ==
    ASSUME Run \/ SpuriousWake \/ PeerReads \/ ChannelDown \/ Start \/ UNCHANGED writerVars
    PROVE  Quiet /\ (fFailed => fFailed') /\ (fStop' => fStop)
  BY DEF Run, RunWait, RunReturn, RunTake, SendDone, SendFailed, SpuriousWake,
         PeerReads, ChannelDown, Start, Quiet, writerVars

\* A frame that is accepted keeps the replies in order when it is a pushed
\* frame, and when it is the reply to the request in hand.
LEMMA AcceptedInOrder ==
    ASSUME DispatchInv, OrderInv, NEW f \in Frame, Appends(f), UNCHANGED <<inbox, asked>>,
           IsReply(f) => reader = "handle" /\ f[2] = request
    PROVE  /\ RepliesAccepted'
           /\ Replies(accepted', Len(accepted')) =
                Received - InHand + (IF IsReply(f) THEN 1 ELSE 0)
<1> DEFINE a == Append(accepted, f)
           n == Len(accepted)
<1>1. accepted \in Seq(Frame) /\ n \in Nat
  BY LenProperties DEF DispatchInv, FrameWriterInv, FrameWriterTypeOK
<1>2. /\ accepted' = a /\ Len(a) = n + 1 /\ a[n + 1] = f
      /\ \A j \in 1 .. n : a[j] = accepted[j]
  BY <1>1, AppendProperties DEF Appends
<1>3. /\ \A i \in 1 .. n : Replies(a, i) = Replies(accepted, i)
      /\ Replies(a, n + 1) = Replies(accepted, n) + (IF IsReply(f) THEN 1 ELSE 0)
  BY <1>1, RepliesOfAppend
<1> HIDE DEF a, n
<1>4. Received \in Nat /\ Replies(accepted, n) = Received - InHand /\ Received' = Received
  BY DEF OrderInv, InboxIsTheRest, Appends, Received, n
<1>5. ASSUME NEW i \in 1 .. n + 1, IsReply(a[i])
      PROVE  Replies(a, i) \in 1 .. Received /\ a[i][2] = asked[Replies(a, i)]
  <2>1. CASE i \in 1 .. n
    BY <1>2, <1>3, <1>5, <2>1 DEF OrderInv, RepliesAccepted, n
  <2>2. CASE i = n + 1
    <3>1. reader = "handle" /\ f[2] = request /\ IsReply(f)
      BY <1>2, <1>5, <2>2
    <3>2. Received >= 1 /\ request = asked[Received] /\ InHand = 1
      BY <3>1 DEF OrderInv, InHand
    <3>3. Replies(a, i) = Received
      BY <1>3, <1>4, <2>2, <3>1, <3>2
    <3> QED
      BY <1>2, <1>4, <2>2, <3>1, <3>2, <3>3
  <2> QED
    BY <1>1, <2>1, <2>2
<1>6. RepliesAccepted'
  BY <1>2, <1>4, <1>5 DEF RepliesAccepted
<1> QED
  BY <1>2, <1>3, <1>4, <1>6

\* A step that accepts nothing and reads nothing.
LEMMA OrderKept ==
    ASSUME OrderInv, Quiet, UNCHANGED <<inbox, asked, request>>,
           fFailed => fFailed', fStop' => reader' \in {"join", "returned"},
           reader' = reader \/ (reader # "handle" /\ reader' # "handle")
    PROVE  OrderInv'
<1>1. Received' = Received /\ InHand' = InHand /\ accepted' = accepted /\ asked' = asked
  BY DEF Received, InHand, Quiet
<1>2. InboxIsTheRest'
  BY <1>1 DEF OrderInv, InboxIsTheRest
<1>3. RepliesAccepted'
  BY <1>1 DEF OrderInv, RepliesAccepted, Quiet
<1>4. Replies(accepted, Len(accepted))' = Replies(accepted, Len(accepted))
  BY <1>1
<1> QED
  BY <1>1, <1>2, <1>3, <1>4 DEF OrderInv

LEMMA OrderStep ==
    ASSUME DispatchInv, OrderInv, [Next]_vars
    PROVE  OrderInv'
<1>1. /\ Received \in Nat /\ Len(asked) \in Nat /\ Len(inbox) \in Nat
      /\ asked \in Seq(RequestId) /\ inbox \in Seq(RequestId)
  BY LenProperties DEF DispatchInv, TypeOK, OrderInv, InboxIsTheRest
<1>2. /\ <<"reply", request>> \in Frame
      /\ pusher = "pushing" => <<"update", pushes>> \in Frame
  BY OwnFrames DEF DispatchInv
<1>3. CASE Receive
  <2>1. /\ Head(inbox) = inbox[1] /\ Len(inbox) # 0 /\ Len(Tail(inbox)) = Len(inbox) - 1
        /\ \A k \in 1 .. Len(Tail(inbox)) : Tail(inbox)[k] = inbox[k + 1]
    BY <1>1, <1>3, HeadTailProperties, EmptySeq DEF Receive
  <2>2. /\ inbox' = Tail(inbox) /\ request' = inbox[1] /\ reader = "receive" /\ reader' = "handle"
        /\ UNCHANGED <<asked, accepted, fFailed, fStop>>
    BY <1>3, <2>1 DEF Receive, writerVars
  <2>3. Received' = Received + 1 /\ InHand = 0 /\ InHand' = 1
    BY <1>1, <2>1, <2>2 DEF Received, InHand
  <2>4. InboxIsTheRest'
    <3>1. ASSUME NEW k \in 1 .. Len(Tail(inbox))
          PROVE  Tail(inbox)[k] = asked[Received + 1 + k]
      <4>1. k + 1 \in 1 .. Len(inbox) /\ Received + (k + 1) = Received + 1 + k
        BY <1>1, <2>1
      <4> QED
        BY <2>1, <4>1 DEF OrderInv, InboxIsTheRest
    <3> QED
      BY <1>1, <2>2, <2>3, <3>1 DEF InboxIsTheRest
  <2>5. RepliesAccepted'
    <3>1. \A r \in 1 .. Received : r \in 1 .. Received + 1
      BY <1>1
    <3> QED
      BY <2>2, <2>3, <3>1 DEF OrderInv, RepliesAccepted
  <2>6. request' = asked'[Received'] /\ Received' >= 1
    <3>1. inbox[1] = asked[Received + 1]
      BY <1>1, <2>1, 1 \in 1 .. Len(inbox) DEF OrderInv, InboxIsTheRest
    <3> QED
      BY <1>1, <2>2, <2>3, <3>1
  <2>7. ~fFailed' => Replies(accepted, Len(accepted))' = Received' - InHand'
    BY <1>1, <2>2, <2>3 DEF OrderInv
  <2> QED
    BY <2>2, <2>4, <2>5, <2>6, <2>7 DEF OrderInv
<1>4. CASE EnqueueReply
  <2> DEFINE f == <<"reply", request>>
  <2>1. /\ reader = "handle" /\ reader' = "check" /\ UNCHANGED <<inbox, asked, request>>
        /\ Appends(f) \/ (Quiet /\ (fStop \/ fFailed'))
        /\ fFailed => fFailed'
        /\ fStop' = fStop
    BY <1>4, EnqueueEffect DEF EnqueueReply
  <2>2. f \in Frame /\ IsReply(f) /\ f[2] = request /\ ~fStop
    BY <1>2, <2>1 DEF IsReply, OrderInv
  <2> HIDE DEF f
  <2>3. Received' = Received /\ InHand = 1 /\ InHand' = 0
    BY <2>1 DEF Received, InHand
  <2>4. InboxIsTheRest'
    BY <2>1, <2>3 DEF OrderInv, InboxIsTheRest
  <2>5. CASE Appends(f)
    <3>1. /\ RepliesAccepted'
          /\ Replies(accepted', Len(accepted')) = Received - InHand + 1
      BY <2>1, <2>2, <2>5, AcceptedInOrder
    <3> QED
      BY <1>1, <2>1, <2>2, <2>3, <2>4, <3>1 DEF OrderInv
  <2>6. CASE Quiet /\ fFailed'
    <3>1. RepliesAccepted'
      BY <2>1, <2>3, <2>6 DEF OrderInv, RepliesAccepted, Quiet
    <3> QED
      BY <2>1, <2>2, <2>4, <2>6, <3>1 DEF OrderInv
  <2> QED
    BY <2>1, <2>2, <2>5, <2>6
<1>5. CASE PushEnqueue
  <2> DEFINE f == <<"update", pushes>>
  <2>1. /\ UNCHANGED <<reader, inbox, asked, request>>
        /\ Appends(f) \/ (Quiet /\ (fStop \/ fFailed'))
        /\ fFailed => fFailed'
        /\ fStop' = fStop
    BY <1>5, EnqueueEffect DEF PushEnqueue
  <2>2. f \in Frame /\ ~IsReply(f)
    BY <1>2, <1>5 DEF IsReply, PushEnqueue
  <2> HIDE DEF f
  <2>3. CASE Appends(f)
    <3>1. /\ RepliesAccepted'
          /\ Replies(accepted', Len(accepted')) = Received - InHand + 0
      BY <2>1, <2>2, <2>3, AcceptedInOrder
    <3>2. Received' = Received /\ InHand' = InHand /\ InHand \in {0, 1}
      BY <2>1 DEF Received, InHand
    <3>3. InboxIsTheRest'
      BY <2>1, <3>2 DEF OrderInv, InboxIsTheRest
    <3>4. Replies(accepted, Len(accepted))' = Received' - InHand'
      BY <1>1, <3>1, <3>2
    <3> QED
      BY <2>1, <3>1, <3>2, <3>3, <3>4 DEF OrderInv
  <2>4. CASE Quiet
    BY <2>1, <2>4, OrderKept DEF OrderInv
  <2> QED
    BY <2>1, <2>3, <2>4
<1>6. ASSUME NEW id \in RequestId, PeerSends(id) PROVE OrderInv'
  <2>1. /\ inbox' = Append(inbox, id) /\ asked' = Append(asked, id)
        /\ UNCHANGED <<reader, request, accepted, fFailed, fStop>>
    BY <1>6 DEF PeerSends, writerVars
  <2>2. /\ Len(inbox') = Len(inbox) + 1 /\ inbox'[Len(inbox) + 1] = id
        /\ Len(asked') = Len(asked) + 1 /\ asked'[Len(asked) + 1] = id
        /\ \A k \in 1 .. Len(inbox) : inbox'[k] = inbox[k]
        /\ \A k \in 1 .. Len(asked) : asked'[k] = asked[k]
    BY <1>1, <2>1, AppendProperties
  <2>3. Received' = Received /\ InHand' = InHand
    BY <1>1, <2>1, <2>2 DEF Received, InHand
  <2>4. Received + Len(inbox) = Len(asked)
    BY <1>1 DEF Received
  <2>5. InboxIsTheRest'
    <3>1. ASSUME NEW k \in 1 .. Len(inbox) + 1 PROVE inbox'[k] = asked'[Received + k]
      <4>1. CASE k \in 1 .. Len(inbox)
        <5>1. Received + k \in 1 .. Len(asked)
          BY <1>1, <2>4, <4>1
        <5> QED
          BY <2>2, <4>1, <5>1 DEF OrderInv, InboxIsTheRest
      <4>2. CASE k = Len(inbox) + 1
        <5>1. Received + k = Len(asked) + 1
          BY <1>1, <2>4, <4>2
        <5> QED
          BY <2>2, <4>2, <5>1
      <4> QED
        BY <1>1, <4>1, <4>2
    <3> QED
      BY <1>1, <2>2, <2>3, <3>1 DEF InboxIsTheRest
  <2>6. \A r \in 1 .. Received : asked'[r] = asked[r]
    <3>1. \A r \in 1 .. Received : r \in 1 .. Len(asked)
      BY <1>1, <2>4
    <3> QED
      BY <2>2, <3>1
  <2>7. RepliesAccepted'
    BY <2>1, <2>3, <2>6 DEF OrderInv, RepliesAccepted
  <2>8. reader' = "handle" => Received' >= 1 /\ request' = asked'[Received']
    <3> SUFFICES ASSUME reader' = "handle" PROVE Received >= 1 /\ request = asked'[Received]
      BY <2>1, <2>3
    <3>1. Received >= 1 /\ request = asked[Received]
      BY <2>1 DEF OrderInv
    <3> QED
      BY <1>1, <2>6, <3>1
  <2> QED
    BY <2>1, <2>3, <2>5, <2>7, <2>8 DEF OrderInv
<1>7. CASE StartWriter \/ InstallSink \/ ReceiveFails \/ CheckFailed \/ ClearSink \/ JoinWriter
  <2>1. Quiet /\ (fFailed => fFailed') /\ (fStop' => fStop)
    BY <1>7, WriterEffect
    DEF StartWriter, InstallSink, ReceiveFails, CheckFailed, ClearSink, JoinWriter
  <2>2. /\ UNCHANGED <<inbox, asked, request>>
        /\ reader \in {"start", "install", "receive", "check", "unsink", "join"}
        /\ reader' \in {"install", "receive", "unsink", "stop", "returned"}
        /\ reader = "join" => reader' = "returned"
    BY <1>7 DEF StartWriter, InstallSink, ReceiveFails, CheckFailed, ClearSink, JoinWriter
  <2> QED
    BY <2>1, <2>2, OrderKept DEF OrderInv
<1>8. CASE StopWriter
  BY <1>8, OrderKept DEF StopWriter, StopRequest, Quiet
<1>9. CASE PushBegin \/ Writer \/ PeerReceives \/ Shutdown \/ Finished \/ UNCHANGED vars
  <2>1. Quiet /\ (fFailed => fFailed') /\ (fStop' => fStop)
    BY <1>9, WriterEffect DEF PushBegin, Writer, PeerReceives, Shutdown, Finished, vars
  <2>2. UNCHANGED <<inbox, asked, request, reader>>
    BY <1>9 DEF PushBegin, Writer, PeerReceives, Shutdown, Finished, vars, dispatchVars
  <2> QED
    BY <2>1, <2>2, OrderKept DEF OrderInv
<1> QED
  BY <1>3, <1>4, <1>5, <1>6, <1>7, <1>8, <1>9 DEF Next, Reader, Pusher

\* What is sent is the beginning of what was accepted, so the replies on the
\* wire are in the order of the accepted ones.
LEMMA SentInOrder ==
    ASSUME DispatchInv, OrderInv
    PROVE  RepliesInRequestOrder
<1> DEFINE n == Len(sent)
<1>1. /\ sent \in Seq(Frame) /\ inHand \in Seq(Frame) /\ fQueue \in Seq(Frame)
      /\ accepted = (sent \o inHand) \o fQueue
  BY DEF DispatchInv, FrameWriterInv, FrameWriterTypeOK, Conserved
<1>2. n \in Nat /\ Len(accepted) \in Nat /\ n <= Len(accepted)
  BY <1>1, ConcatProperties, LenProperties
<1>3. \A i \in 1 .. n : accepted[i] = sent[i]
  BY <1>1, ConcatProperties, LenProperties
<1>4. Received <= Len(asked) /\ Received \in Nat
  BY LenProperties DEF DispatchInv, TypeOK, OrderInv, InboxIsTheRest, Received
<1> HIDE DEF n
<1>5. ASSUME NEW i \in 1 .. n, IsReply(sent[i])
      PROVE  Replies(sent, i) <= Len(asked) /\ sent[i][2] = asked[Replies(sent, i)]
  <2>1. i \in 1 .. Len(accepted) /\ \A j \in 1 .. i : accepted[j] = sent[j]
    BY <1>2, <1>3
  <2>2. {j \in 1 .. i : IsReply(accepted[j])} = {j \in 1 .. i : IsReply(sent[j])}
    BY <2>1
  <2>3. Replies(sent, i) = Replies(accepted, i) /\ accepted[i] = sent[i]
    BY <1>3, <2>2 DEF Replies
  <2>4. Replies(accepted, i) \in 1 .. Received /\ sent[i][2] = asked[Replies(accepted, i)]
    BY <1>5, <2>1, <2>3 DEF OrderInv, RepliesAccepted
  <2> QED
    BY <1>4, <2>3, <2>4, LenProperties DEF DispatchInv, TypeOK
<1> QED
  BY <1>5 DEF RepliesInRequestOrder, n

\* For any number of requests and pushes and any queue bound, the k-th reply on
\* the wire carries the id of the k-th request (Dispatch.cpp, the serve loop).
THEOREM RepliesKeepTheOrder == Spec => []RepliesInRequestOrder
  BY DispatchInit, DispatchStep, OrderInit, OrderStep, SentInOrder, PTL DEF Spec
=============================================================================
