------------------------- MODULE SftpBackendProofs --------------------------
(***************************************************************************)
(* Proofs about a mounted SFTP volume, for any paths, open files, keys,    *)
(* lengths and numbers of lost links: what a handle stands for, what a     *)
(* status and a listing mean, and with whom a session is.                  *)
(***************************************************************************)
EXTENDS SftpBackend, TLAPS

\* Where in a call there is a session, where there is none yet.
Connecting == {"connect", "trust", "auth"}
Requesting == {"probe", "request", "list", "failed", "transfer", "close"}

\* A session ends only when its link was lost: their number is bounded by the losses.
Sessions ==
    /\ call.at \in Connecting => ~connected
    /\ call.at \in Requesting => connected
    /\ ~connected => sftpErr = "none"
    /\ connected => link # "none"
    /\ session <= drops + 1
    /\ ~connected \/ link = "down" \/ errno = "socket" => session <= drops

\* What belongs together in a call.
CallShape ==
    /\ call.at = "list" => call.op = "readdir"
    /\ call.at \in {"attempt", "probe", "request", "list", "failed"} \cup Connecting =>
            call.op \in PathOps /\ call.avail <= Length
    /\ call.op \in OpenOps => fNextHandle <= MaxHandles
    /\ call.at \in {"transfer", "close"} => call.op \in HandleOps
    /\ call.at \in {"attempt", "probe", "request", "list"} => call.applied <= call.attempt
    /\ call.at \in Connecting /\ call.from = "failed" => call.attempt = 0
    /\ call.at \in {"failed"} \cup Connecting => call.applied <= call.attempt + 1

\* A handle that can be looked up was opened in the session in use.
Handles ==
    /\ \A d \in Fd :
        fds[d].handle \in DOMAIN fOpen => fOpen[fds[d].handle].path = fds[d].path
    /\ \A h \in DOMAIN fOpen : connected /\ fOpen[h].session = session

\* A first connection has asked the host for nothing; in the session of a retry the last
\* error of the SFTP channel is an answer to this call.
Honest ==
    /\ call.at = "attempt" => connected \/ call.applied = 0
    /\ call.at \in Connecting /\ call.from = "head" => call.applied = 0
    /\ connected /\ call.attempt = 1 => sftpErr \in call.told \cup {"none"}
    /\ call.at = "failed" => errno = "socket" \/ sftpErr \in call.told
    /\ StatusIsHonest

Listing ==
    /\ call.at = "list" => call.got = call.pos
    /\ ListingIsWhole

\* Keys come from decisions, wherever they are kept.
Keys ==
    /\ known \in accepted \cup {NoKey}
    /\ call.pinned \in accepted \cup {NoKey}
    /\ call.at = "auth" => sessionKey \in accepted
    /\ SessionKeyWasAccepted


SftpInv ==
    TypeOK /\ Sessions /\ CallShape /\ Handles /\ Honest /\ Listing /\ Keys

-----------------------------------------------------------------------------
\* Types.

LEMMA IdleTypes == Idle \in Call /\ NoResult \in Result /\ ClosedFd.path \in Path
  BY SftpAssumption DEF Idle, NoResult, ClosedFd, Call, Result, CallAt, Status, PathOps, OpenOps, HandleOps

\* The status that an error returns.
LEMMA ErrorTypes == SessionTypeOK => SftpError \in Status \ {"ok", "transportError"}
  BY DEF SessionTypeOK, SftpError, Status

LEMMA HostTypeStep == ASSUME SftpInv, [Next]_vars PROVE HostTypeOK'
<1> USE DEF HostTypeOK, hostVars
<1>1. HostTypeOK /\ call.path \in Path /\ call.to \in Path
  BY DEF SftpInv, TypeOK, Call
<1>2. CASE UNCHANGED <<host, hostKey, node, events, link, drops, known, accepted>>
  BY <1>1, <1>2
<1>3. Done \in [Path -> {"none", "file", "dir"}]
  BY <1>1 DEF Done
<1>4. CASE CallStep
  <2>1. CASE RequestDone \/ OpenDone
    BY <1>1, <1>3, <2>1 DEF RequestDone, OpenDone
  <2>2. CASE AttemptReconnect \/ ReconnectIfDead \/ ConnectFails \/ Handshake
    BY <1>1, <2>2 DEF AttemptReconnect, ReconnectIfDead, ConnectFails, Handshake, Reconnect, Disconnect
  <2> QED
    BY <1>2, <1>4, <2>1, <2>2
    DEF CallStep, Attempt, Trust, SftpInit, ReturnError, ProbeAnswered, ProbeFails,
        OpenDirDone, RequestRefused, RequestDead, ListNext, ListEnd, TransferChunk,
        TransferDone, TransferFails, CloseDone
<1>5. CASE BeginCall
  BY <1>2, <1>5 DEF BeginCall, BeginPathOp, BeginHandleOp, BadHandle
<1>6. CASE Environment
  BY <1>1, <1>3, <1>6, SftpAssumption
  DEF Environment, RequestLost, LinkDrops, HostChanges, HostKeyChanges, HelperPins,
      OtherVolumeSaves, Event
<1> QED
  BY <1>2, <1>4, <1>5, <1>6 DEF Next, vars

LEMMA SessionTypeStep == ASSUME SftpInv, [Next]_vars PROVE SessionTypeOK'
<1> USE DEF SessionTypeOK, sessVars
<1>1. SessionTypeOK /\ hostKey \in Key /\ drops \in 0 .. MaxDrops
  BY DEF SftpInv, TypeOK, HostTypeOK
<1>2. CASE UNCHANGED sessVars
  BY <1>1, <1>2
<1>3. CASE SftpInit
  <2>1. session <= drops
    BY <1>3 DEF SftpInit, SftpInv, Sessions, Connecting
  <2> QED
    BY <1>1, <1>3, <2>1, SftpAssumption DEF SftpInit
<1>4. CASE AttemptReconnect \/ ReconnectIfDead \/ ConnectFails
  BY <1>1, <1>4 DEF AttemptReconnect, ReconnectIfDead, ConnectFails, Reconnect, Disconnect
<1>5. CASE Handshake \/ ProbeFails \/ RequestRefused \/ RequestDead \/ TransferFails \/ CloseDone \/ RequestLost
  BY <1>1, <1>5
  DEF Handshake, ProbeFails, RequestRefused, RequestDead, TransferFails, CloseDone, RequestLost
<1>6. CASE CallStep
  BY <1>2, <1>3, <1>4, <1>5, <1>6
    DEF CallStep, Attempt, Trust, ReturnError, ProbeAnswered, RequestDone, OpenDone,
        OpenDirDone, ListNext, ListEnd, TransferChunk, TransferDone
<1>7. CASE BeginCall
  BY <1>2, <1>7 DEF BeginCall, BeginPathOp, BeginHandleOp, BadHandle
<1>8. CASE Environment
  BY <1>2, <1>5, <1>8
  DEF Environment, LinkDrops, HostChanges, HostKeyChanges, HelperPins, OtherVolumeSaves
<1> QED
  BY <1>2, <1>6, <1>7, <1>8 DEF Next, vars

LEMMA HandleTypeStep == ASSUME SftpInv, [Next]_vars PROVE HandleTypeOK'
<1>1. HandleTypeOK /\ session \in 1 .. MaxDrops + 1 /\ call.path \in Path
  BY DEF SftpInv, TypeOK, SessionTypeOK, Call
<1>2. CASE UNCHANGED <<openVars, fds>>
  BY <1>1, <1>2 DEF HandleTypeOK, openVars
<1>3. CASE OpenDone
  <2>1. fNextHandle \in 1 .. MaxHandles
    BY <1>1, <1>3, SftpAssumption DEF OpenDone, HandleTypeOK, SftpInv, CallShape
  <2>2. fNextHandle' = fNextHandle + 1 /\ fNextHandle' - 1 = fNextHandle
    BY <1>3, <2>1, SftpAssumption DEF OpenDone
  <2>3. fds' \in [Fd -> [handle : 0 .. fNextHandle, path : Path]]
    <3>1. ASSUME NEW d \in Fd PROVE fds[d] \in [handle : 0 .. fNextHandle, path : Path]
      <4>1. fds[d] \in [handle : 0 .. fNextHandle - 1, path : Path]
        BY <1>1 DEF HandleTypeOK
      <4>2. 0 .. fNextHandle - 1 \subseteq 0 .. fNextHandle
        BY <2>1, SftpAssumption
      <4> QED
        BY <4>1, <4>2
    <3>2. fds \in [Fd -> [handle : 0 .. fNextHandle, path : Path]]
      BY <1>1, <3>1 DEF HandleTypeOK
    <3>3. [handle |-> fNextHandle, path |-> call.path] \in [handle : 0 .. fNextHandle, path : Path]
      BY <1>1, <2>1, SftpAssumption
    <3> QED
      BY <1>3, <3>2, <3>3 DEF OpenDone
  <2>4. DOMAIN fOpen' = DOMAIN fOpen \cup {fNextHandle}
    BY <1>3 DEF OpenDone
  <2>5. DOMAIN fOpen' \subseteq 1 .. fNextHandle
    BY <1>1, <2>1, <2>4, SftpAssumption DEF HandleTypeOK
  <2>6. \A h \in DOMAIN fOpen' : fOpen'[h] \in [path : Path, session : 1 .. MaxDrops + 1]
    BY <1>1, <1>3, <2>4 DEF OpenDone, HandleTypeOK
  <2> QED
    BY <2>1, <2>2, <2>3, <2>5, <2>6, SftpAssumption DEF HandleTypeOK
<1>4. ASSUME NEW d \in Fd PROVE [fds EXCEPT ![d] = ClosedFd] \in [Fd -> [handle : 0 .. fNextHandle - 1, path : Path]]
  BY <1>1, IdleTypes, SftpAssumption DEF HandleTypeOK, ClosedFd, NoHandle
<1>5. CASE CloseDone
  <2>1. call.fd \in Fd
    BY DEF SftpInv, TypeOK, Call
  <2> QED
    BY <1>1, <1>4, <1>5, <2>1 DEF CloseDone, HandleTypeOK
<1>6. CASE AttemptReconnect \/ ReconnectIfDead \/ ConnectFails
  <2>1. fOpen' = << >> /\ UNCHANGED <<fNextHandle, fds>>
    BY <1>6 DEF AttemptReconnect, ReconnectIfDead, ConnectFails, Reconnect, Disconnect
  <2>2. DOMAIN fOpen' = {}
    BY <2>1
  <2> QED
    BY <1>1, <2>1, <2>2 DEF HandleTypeOK
<1>7. CASE CallStep
  BY <1>2, <1>3, <1>5, <1>6, <1>7
    DEF CallStep, Attempt, Handshake, Trust, SftpInit, ReturnError, ProbeAnswered, ProbeFails,
        RequestDone, OpenDirDone, RequestRefused, RequestDead, ListNext, ListEnd,
        TransferChunk, TransferDone, TransferFails
<1>8. ASSUME NEW op \in HandleOps, NEW d \in Fd, BadHandle(op, d) PROVE HandleTypeOK'
  BY <1>1, <1>4, <1>8 DEF BadHandle, HandleTypeOK, openVars
<1>9. CASE BeginCall
  BY <1>2, <1>8, <1>9 DEF BeginCall, BeginPathOp, BeginHandleOp
<1>10. CASE Environment
  BY <1>2, <1>10
  DEF Environment, RequestLost, LinkDrops, HostChanges, HostKeyChanges, HelperPins, OtherVolumeSaves
<1> QED
  BY <1>2, <1>7, <1>9, <1>10 DEF Next, vars

\* What a call is after a step of it, apart from where it stands.
LEMMA CallTypeStep == ASSUME SftpInv, [Next]_vars PROVE call' \in Call
<1>1. call \in Call /\ SftpInv
  BY DEF SftpInv, TypeOK
<1>2. CASE UNCHANGED call
  BY <1>1, <1>2
<1>3. ASSUME NEW at \in CallAt, Goto(at) PROVE call' \in Call
  BY <1>1, <1>3 DEF Goto, Call
<1>4. CASE call' = Idle
  BY <1>4, IdleTypes
<1> USE DEF Goto
<1>5. CASE Attempt \/ Handshake \/ Trust \/ RequestDead
  BY <1>3, <1>5 DEF Attempt, Handshake, Trust, RequestDead, CallAt
<1>6. CASE AttemptReconnect \/ ReconnectIfDead
  <2>1. known \in Key \cup {NoKey}
    BY <1>1 DEF SftpInv, TypeOK, HostTypeOK
  <2>2. PICK from \in {"head", "failed"} :
             call' = [call EXCEPT !.at = "connect", !.from = from, !.pinned = known]
    BY <1>6 DEF AttemptReconnect, ReconnectIfDead, Reconnect, LoadFromFile
  <2> QED
    BY <1>1, <2>1, <2>2 DEF Call, CallAt
<1>7. CASE SftpInit
  <2> DEFINE n == IF call.from = "failed" THEN 1 ELSE call.attempt
  <2>1. n \in 0 .. 1 /\ call' = [call EXCEPT !.at = "attempt", !.attempt = n]
    BY <1>1, <1>7 DEF SftpInit, Call
  <2> HIDE DEF n
  <2> QED
    BY <1>1, <2>1 DEF Call, CallAt
<1>8. CASE ProbeAnswered
  <2>1. PICK b \in BOOLEAN : call' = [call EXCEPT !.at = "request", !.isDir = b]
    BY <1>8 DEF ProbeAnswered
  <2> QED
    BY <1>1, <2>1 DEF Call, CallAt
<1>9. CASE ProbeFails
  <2>1. PICK told \in SUBSET Status :
             call' = [call EXCEPT !.at = "request", !.isDir = FALSE, !.told = told]
    <3>1. CASE call' = [call EXCEPT !.at = "request", !.isDir = FALSE]
      <4>1. call' = [call EXCEPT !.at = "request", !.isDir = FALSE, !.told = call.told]
        BY <1>1, <3>1 DEF Call
      <4> QED
        BY <1>1, <4>1 DEF Call
    <3>2. CASE sftpErr' \in {"notFound", "accessDenied"}
               /\ call' = [call EXCEPT !.at = "request", !.isDir = FALSE, !.told = @ \cup {sftpErr'}]
      BY <1>1, <3>2 DEF Call, Status
    <3> QED
      BY <1>9, <3>1, <3>2 DEF ProbeFails
  <2> QED
    BY <1>1, <2>1 DEF Call, CallAt
<1>10. CASE RequestRefused
  <2>1. PICK s \in {"notFound", "accessDenied"} : call' = [call EXCEPT !.at = "failed", !.told = @ \cup {s}]
    BY <1>10 DEF RequestRefused
  <2>2. call.told \cup {s} \in SUBSET Status
    BY <1>1 DEF Call, Status
  <2> QED
    BY <1>1, <2>1, <2>2 DEF Call, CallAt
<1>11. CASE OpenDirDone
  <2>1. 0 \in 0 .. Length
    BY SftpAssumption
  <2> QED
    BY <1>1, <1>11, <2>1 DEF OpenDirDone, Call, CallAt
<1>12. CASE ListNext
  <2>1. call.pos + 1 \in 0 .. Length /\ call.got + 1 \in 0 .. Length
    BY <1>1, <1>12, SftpAssumption DEF ListNext, Call, SftpInv, CallShape, Listing
  <2> QED
    BY <1>1, <1>12, <2>1 DEF ListNext, Call
<1>13. CASE TransferChunk
  <2>1. PICK n \in 1 .. Wanted - call.got : call' = [call EXCEPT !.got = @ + n]
    BY <1>13 DEF TransferChunk
  <2>2. call.got + n \in 0 .. Length
    BY <1>1, <2>1, SftpAssumption DEF Wanted, Call
  <2> QED
    BY <1>1, <2>1, <2>2 DEF Call
<1>14. CASE RequestLost
  <2>1. call.applied + 1 \in 0 .. 2
    BY <1>1, <1>14 DEF RequestLost, SftpInv, CallShape, Call
  <2> QED
    BY <1>1, <1>14, <2>1 DEF RequestLost, Call, CallAt
<1>15. CASE CallStep
  BY <1>4, <1>5, <1>6, <1>7, <1>8, <1>9, <1>10, <1>11, <1>12, <1>13, <1>15
  DEF CallStep, ConnectFails, ReturnError, RequestDone, OpenDone, ListEnd, TransferDone,
      TransferFails, CloseDone, Return
<1>16. ASSUME NEW op \in PathOps, NEW p \in Path, NEW q \in Path, BeginPathOp(op, p, q)
       PROVE  call' \in Call
  <2>1. PICK d \in Fd, n \in 0 .. Length :
             call' = [Idle EXCEPT !.op = op, !.at = "attempt", !.path = p, !.to = q,
                                  !.fd = d, !.avail = n]
    BY <1>16 DEF BeginPathOp
  <2>2. n \in 0 .. Length + 1
    BY SftpAssumption
  <2> QED
    BY <2>1, <2>2, IdleTypes DEF Call, CallAt
<1>17. ASSUME NEW op \in HandleOps, NEW d \in Fd, BeginHandleOp(op, d) PROVE call' \in Call
  <2>1. PICK at \in CallAt, n \in 0 .. Length + 1 :
             call' = [Idle EXCEPT !.op = op, !.at = at, !.path = fds[d].path, !.fd = d,
                                  !.avail = n]
    BY <1>17 DEF BeginHandleOp, CallAt
  <2>2. fds[d].path \in Path
    BY <1>1 DEF SftpInv, TypeOK, HandleTypeOK
  <2> QED
    BY <2>1, <2>2, IdleTypes DEF Call
<1>18. CASE BeginCall
  BY <1>2, <1>16, <1>17, <1>18 DEF BeginCall, BadHandle
<1>19. CASE Environment
  BY <1>2, <1>14, <1>19
  DEF Environment, LinkDrops, HostChanges, HostKeyChanges, HelperPins, OtherVolumeSaves
<1> QED
  BY <1>2, <1>15, <1>18, <1>19 DEF Next, vars

LEMMA ResultTypeStep == ASSUME SftpInv, [Next]_vars PROVE result' \in Result
<1>1. call \in Call /\ result \in Result /\ SessionTypeOK
  BY DEF SftpInv, TypeOK
<1>2. CASE UNCHANGED result
  BY <1>1, <1>2
<1>3. ASSUME NEW status \in Status, Return(status) PROVE result' \in Result
  BY <1>1, <1>3 DEF Return, Call, Result
<1>4. CASE ConnectFails \/ ReturnError \/ ListEnd \/ TransferDone \/ TransferFails \/ CloseDone
  BY <1>1, <1>3, <1>4, ErrorTypes
  DEF ConnectFails, ReturnError, ListEnd, TransferDone, TransferFails, CloseDone, Status
<1>5. CASE RequestDone \/ OpenDone
  <2>1. call.applied + 1 \in 0 .. 2
    BY <1>1, <1>5 DEF RequestDone, OpenDone, SftpInv, CallShape, Call
  <2>2. result' = [NoResult EXCEPT !.op = call.op, !.applied = call.applied + 1, !.told = call.told]
    BY <1>5 DEF RequestDone, OpenDone
  <2>3. call.op \in PathOps \cup HandleOps \cup {"none"} /\ call.told \in SUBSET Status
    BY <1>1 DEF Call
  <2> QED
    BY <2>1, <2>2, <2>3, IdleTypes DEF Result
<1>6. CASE CallStep
  BY <1>2, <1>4, <1>5, <1>6
  DEF CallStep, Attempt, AttemptReconnect, Handshake, Trust, SftpInit, ReconnectIfDead, Reconnect,
      ProbeAnswered, ProbeFails, OpenDirDone, RequestRefused, RequestDead, ListNext, TransferChunk
<1>7. ASSUME NEW op \in HandleOps, NEW d \in Fd, BadHandle(op, d) PROVE result' \in Result
  BY <1>7, IdleTypes DEF BadHandle, Result, Status
<1>8. CASE BeginCall
  BY <1>7, <1>8, IdleTypes DEF BeginCall, BeginPathOp, BeginHandleOp
<1>9. CASE Environment
  BY <1>2, <1>9
  DEF Environment, RequestLost, LinkDrops, HostChanges, HostKeyChanges, HelperPins, OtherVolumeSaves
<1> QED
  BY <1>2, <1>6, <1>8, <1>9 DEF Next, vars

-----------------------------------------------------------------------------
\* The parts of the invariant.

LEMMA SessionsStep == ASSUME SftpInv, [Next]_vars PROVE Sessions'
<1> USE DEF Sessions, Connecting, Requesting, sessVars
<1>1. /\ Sessions /\ call \in Call
      /\ session \in Nat /\ drops \in Nat /\ link \in {"none", "up", "down"}
      /\ connected \in BOOLEAN
  BY SftpAssumption DEF SftpInv, TypeOK, SessionTypeOK, HostTypeOK
<1>6. CASE UNCHANGED <<call, sessVars, link, drops>>
  BY <1>1, <1>6
<1>2. CASE CallStep
  <2>1. CASE Attempt
    BY <1>1, <2>1 DEF Attempt, Goto, Call
  <2>2. CASE AttemptReconnect \/ ReconnectIfDead
    BY <1>1, <2>2 DEF AttemptReconnect, ReconnectIfDead, Reconnect, Disconnect, SessionDead, Call
  <2>3. CASE Handshake \/ Trust
    BY <1>1, <2>3 DEF Handshake, Trust, Goto, Call
  <2>4. CASE SftpInit
    BY <1>1, <2>4 DEF SftpInit, Call
  <2>5. CASE ConnectFails
    BY <1>1, <2>5 DEF ConnectFails, ConnectFailed, Disconnect, Return, Idle
  <2>6. CASE ProbeAnswered \/ ProbeFails
    BY <1>1, <2>6 DEF ProbeAnswered, ProbeFails, Call
  <2>7. CASE OpenDirDone \/ RequestRefused \/ RequestDead \/ ListNext \/ TransferChunk
    BY <1>1, <2>7 DEF OpenDirDone, RequestRefused, RequestDead, ListNext, TransferChunk, Goto, Call
  <2>8. CASE ReturnError \/ RequestDone \/ OpenDone \/ ListEnd \/ TransferDone \/ TransferFails \/ CloseDone
    BY <1>1, <2>8
    DEF ReturnError, RequestDone, OpenDone, ListEnd, TransferDone, TransferFails, CloseDone,
        Return, Idle
  <2> QED
    BY <1>2, <2>1, <2>2, <2>3, <2>4, <2>5, <2>6, <2>7, <2>8 DEF CallStep
<1>3. CASE BeginCall
  <2>1. ASSUME NEW op \in HandleOps, NEW d \in Fd, BeginHandleOp(op, d) PROVE Sessions'
    <3>1. connected
      BY <2>1 DEF BeginHandleOp, SftpInv, Handles
    <3> QED
      BY <1>1, <2>1, <3>1, IdleTypes DEF BeginHandleOp, Call
  <2>2. ASSUME NEW op \in PathOps, NEW p \in Path, NEW q \in Path, BeginPathOp(op, p, q)
        PROVE  Sessions'
    <3>1. call'.at = "attempt" /\ UNCHANGED <<sessVars, link, drops>>
      BY <2>2, IdleTypes DEF BeginPathOp, Call
    <3> QED
      BY <1>1, <3>1
  <2> QED
    BY <1>3, <1>6, <2>1, <2>2 DEF BeginCall, BadHandle
<1>4. CASE RequestLost
  BY <1>1, <1>4 DEF RequestLost, Answering, Call
<1>5. CASE LinkDrops
  BY <1>1, <1>5 DEF LinkDrops
<1>7. CASE Environment
  BY <1>4, <1>5, <1>6, <1>7
  DEF Environment, HostChanges, HostKeyChanges, HelperPins, OtherVolumeSaves
<1> QED
  BY <1>2, <1>3, <1>6, <1>7 DEF Next, vars

LEMMA CallShapeStep == ASSUME SftpInv, [Next]_vars PROVE CallShape'
<1> USE DEF CallShape, Connecting, openVars
<1>1. CallShape /\ call \in Call
  BY DEF SftpInv, TypeOK
<1>2. CASE CallStep
  <2>1. CASE Attempt \/ Handshake \/ Trust \/ RequestDead
    BY <1>1, <2>1 DEF Attempt, Handshake, Trust, RequestDead, Goto, Call
  <2>2. CASE AttemptReconnect
    BY <1>1, <2>2 DEF AttemptReconnect, Reconnect, Disconnect, Call, SftpInv, Honest
  <2>3. CASE ReconnectIfDead
    BY <1>1, <2>3 DEF ReconnectIfDead, Reconnect, Disconnect, Call
  <2>4. CASE SftpInit
    BY <1>1, <2>4 DEF SftpInit, Call, SftpInv, Honest
  <2>5. CASE ProbeAnswered \/ ProbeFails
    <3>1. call.at = "probe" /\ UNCHANGED fNextHandle
      BY <2>5 DEF ProbeAnswered, ProbeFails
    <3> DEFINE Kept == /\ call'.at = "request" /\ call'.op = call.op /\ call'.applied = call.applied
                       /\ call'.attempt = call.attempt /\ call'.avail = call.avail
    <3>2. CASE ProbeAnswered
      <4>1. Kept
        BY <1>1, <3>2 DEF ProbeAnswered, Call
      <4> QED
        BY <1>1, <3>1, <4>1
    <3>3. CASE ProbeFails
      <4>1. Kept
        BY <1>1, <3>3 DEF ProbeFails, Call
      <4> QED
        BY <1>1, <3>1, <4>1
    <3> QED
      BY <2>5, <3>2, <3>3
  <2>6. CASE OpenDirDone \/ ListNext \/ TransferChunk
    BY <1>1, <2>6 DEF OpenDirDone, ListNext, TransferChunk, Call
  <2>8. CASE RequestRefused
    <3>1. /\ call'.at = "failed" /\ call'.op = call.op /\ call'.applied = call.applied
          /\ call'.attempt = call.attempt /\ call'.avail = call.avail
          /\ UNCHANGED fNextHandle
      BY <1>1, <2>8 DEF RequestRefused, Call
    <3>2. call.at \in {"request", "list"} /\ call.applied \in Nat /\ call.attempt \in Nat
      BY <1>1, <2>8 DEF RequestRefused, Call
    <3> QED
      BY <1>1, <3>1, <3>2
  <2>7. CASE ConnectFails \/ ReturnError \/ RequestDone \/ OpenDone \/ ListEnd \/ TransferDone
             \/ TransferFails \/ CloseDone
    BY <2>7
    DEF ConnectFails, ReturnError, RequestDone, OpenDone, ListEnd, TransferDone, TransferFails,
        CloseDone, Return, Idle, OpenOps
  <2> QED
    BY <1>2, <2>1, <2>2, <2>3, <2>4, <2>5, <2>6, <2>7, <2>8 DEF CallStep
<1>3. CASE BeginCall
  <2>1. ASSUME NEW op \in PathOps, NEW p \in Path, NEW q \in Path, BeginPathOp(op, p, q)
        PROVE  CallShape'
    BY <1>1, <2>1, IdleTypes, SftpAssumption DEF BeginPathOp, Call, Idle
  <2>2. ASSUME NEW op \in HandleOps, NEW d \in Fd, BeginHandleOp(op, d) PROVE CallShape'
    BY <1>1, <2>2, IdleTypes DEF BeginHandleOp, Call, HandleOps, OpenOps
  <2> QED
    BY <1>1, <1>3, <2>1, <2>2 DEF BeginCall, BadHandle
<1>4. CASE RequestLost
  BY <1>1, <1>4 DEF RequestLost, Call
<1>5. CASE UNCHANGED <<call, openVars>>
  BY <1>1, <1>5
<1>6. CASE Environment
  BY <1>4, <1>5, <1>6
  DEF Environment, LinkDrops, HostChanges, HostKeyChanges, HelperPins, OtherVolumeSaves
<1> QED
  BY <1>2, <1>3, <1>5, <1>6 DEF Next, vars

LEMMA HandlesStep == ASSUME SftpInv, [Next]_vars PROVE Handles'
<1>1. Handles /\ HandleTypeOK
  BY DEF SftpInv, TypeOK
<1>2. CASE UNCHANGED <<fOpen, fds, connected, session>>
  BY <1>1, <1>2 DEF Handles
<1>3. CASE SftpInit
  <2>1. DOMAIN fOpen = {}
    BY <1>3 DEF SftpInit, SftpInv, Sessions, Handles, Connecting
  <2> QED
    BY <1>3, <2>1 DEF SftpInit, Handles, openVars
<1>4. CASE AttemptReconnect \/ ReconnectIfDead \/ ConnectFails
  <2>1. fOpen' = << >>
    BY <1>4 DEF AttemptReconnect, ReconnectIfDead, ConnectFails, Reconnect, Disconnect
  <2>2. DOMAIN fOpen' = {}
    BY <2>1
  <2> QED
    BY <2>2 DEF Handles
<1>5. CASE OpenDone
  <2>1. connected /\ UNCHANGED <<connected, session>>
    BY <1>5 DEF OpenDone, SftpInv, Sessions, Requesting, sessVars
  <2>2. \A d \in Fd : fds[d].handle # fNextHandle
    BY <1>1, SftpAssumption DEF HandleTypeOK
  <2>3. fNextHandle \notin DOMAIN fOpen
    BY <1>1, SftpAssumption DEF HandleTypeOK
  <2>4. /\ DOMAIN fOpen' = DOMAIN fOpen \cup {fNextHandle}
        /\ \A h \in DOMAIN fOpen : fOpen'[h] = fOpen[h]
        /\ fOpen'[fNextHandle] = [path |-> call.path, session |-> session]
    BY <1>5, <2>3 DEF OpenDone
  <2>5. ASSUME NEW d \in Fd, fds'[d].handle \in DOMAIN fOpen'
        PROVE  fOpen'[fds'[d].handle].path = fds'[d].path
    <3>1. CASE d = call.fd
      <4>1. fds'[d] = [handle |-> fNextHandle, path |-> call.path]
        BY <1>1, <1>5, <3>1 DEF OpenDone, HandleTypeOK
      <4> QED
        BY <2>4, <4>1
    <3>2. CASE d # call.fd
      <4>1. fds'[d] = fds[d]
        BY <1>1, <1>5, <3>2 DEF OpenDone, HandleTypeOK
      <4> QED
        BY <1>1, <2>2, <2>4, <2>5, <4>1 DEF Handles
    <3> QED
      BY <3>1, <3>2
  <2> QED
    BY <1>1, <2>1, <2>4, <2>5 DEF Handles
<1>6. ASSUME NEW d \in Fd, fds' = [fds EXCEPT ![d] = ClosedFd],
             DOMAIN fOpen' \subseteq DOMAIN fOpen,
             \A h \in DOMAIN fOpen' : fOpen'[h] = fOpen[h], UNCHANGED <<connected, session>>
      PROVE  Handles'
  <2>1. NoHandle \notin DOMAIN fOpen
    BY <1>1, SftpAssumption DEF HandleTypeOK, NoHandle
  <2>2. \A e \in Fd : fds'[e] = fds[e] \/ fds'[e].handle = NoHandle
    BY <1>1, <1>6 DEF HandleTypeOK, ClosedFd
  <2> QED
    BY <1>1, <1>6, <2>1, <2>2 DEF Handles
<1>7. CASE CloseDone
  <2>1. call.fd \in Fd
    BY DEF SftpInv, TypeOK, Call
  <2> QED
    BY <1>6, <1>7, <2>1 DEF CloseDone
<1>8. CASE CallStep
  BY <1>2, <1>3, <1>4, <1>5, <1>7, <1>8
  DEF CallStep, Attempt, Handshake, Trust, ReturnError, ProbeAnswered, ProbeFails, RequestDone,
      OpenDirDone, RequestRefused, RequestDead, ListNext, ListEnd, TransferChunk,
      TransferDone, TransferFails, openVars, sessVars
<1>9. ASSUME NEW op \in HandleOps, NEW d \in Fd, BadHandle(op, d) PROVE Handles'
  BY <1>2, <1>6, <1>9 DEF BadHandle, openVars, sessVars
<1>10. CASE BeginCall
  BY <1>2, <1>9, <1>10 DEF BeginCall, BeginPathOp, BeginHandleOp, openVars, sessVars
<1>11. CASE Environment
  BY <1>2, <1>11
  DEF Environment, RequestLost, LinkDrops, HostChanges, HostKeyChanges, HelperPins,
      OtherVolumeSaves, openVars, sessVars
<1> QED
  BY <1>2, <1>8, <1>10, <1>11 DEF Next, vars, openVars, sessVars

LEMMA HonestStep == ASSUME SftpInv, [Next]_vars PROVE Honest'
<1>1. Honest /\ StatusIsHonest /\ call \in Call /\ SessionTypeOK
  BY DEF SftpInv, Honest, TypeOK
<1>2. CASE UNCHANGED <<call, connected, errno, sftpErr, result>>
  BY <1>1, <1>2 DEF Honest, StatusIsHonest
<1>3. ASSUME call'.at = "idle", call'.attempt = 0, StatusIsHonest' PROVE Honest'
  BY <1>3 DEF Honest, Connecting
<1>4. ASSUME call' = Idle, StatusIsHonest' PROVE Honest'
  BY <1>3, <1>4 DEF Idle
<1>5. CASE CallStep
  <2>1. CASE Attempt \/ OpenDirDone \/ ListNext \/ TransferChunk \/ ProbeAnswered
    <3>1. /\ UNCHANGED <<connected, errno, sftpErr, result>>
          /\ call'.attempt = call.attempt /\ call'.told = call.told
          /\ call'.at \in {"probe", "request", "list", "transfer"}
      <4>1. CASE Attempt
        BY <1>1, <4>1 DEF Attempt, Goto, Call, sessVars
      <4>2. CASE OpenDirDone
        BY <1>1, <4>2 DEF OpenDirDone, Call, sessVars
      <4>3. CASE ListNext
        BY <1>1, <4>3 DEF ListNext, Call, sessVars
      <4>4. CASE TransferChunk
        BY <1>1, <4>4 DEF TransferChunk, Call, sessVars
      <4>5. CASE ProbeAnswered
        BY <1>1, <4>5 DEF ProbeAnswered, Call, sessVars
      <4> QED
        BY <2>1, <4>1, <4>2, <4>3, <4>4, <4>5
    <3> QED
      BY <1>1, <3>1 DEF Honest, StatusIsHonest, Connecting
  <2>2. CASE AttemptReconnect \/ ReconnectIfDead
    BY <1>1, <2>2
    DEF AttemptReconnect, ReconnectIfDead, Reconnect, Disconnect, Call, Honest, StatusIsHonest, Connecting
  <2>3. CASE Handshake \/ Trust
    BY <1>1, <2>3 DEF Handshake, Trust, Goto, Call, Honest, StatusIsHonest, Connecting, sessVars
  <2>4. CASE SftpInit
    <3>1. sftpErr = "none"
      BY <2>4 DEF SftpInit, SftpInv, Sessions, Connecting
    <3> QED
      BY <1>1, <2>4, <3>1 DEF SftpInit, Call, Honest, StatusIsHonest, Connecting
  <2>5. CASE ConnectFails
    <3>1. result'.status \in {"transportError", "ioError"}
          /\ result'.status = "transportError" => result'.applied = 0
      BY <1>1, <2>5
      DEF ConnectFails, ConnectFailed, Return, Call, Honest, Connecting
    <3> QED
      BY <1>4, <2>5, <3>1 DEF ConnectFails, Return, StatusIsHonest
  <2>6. CASE ReturnError
    <3>1. sftpErr \in call.told \cup {"none"}
      <4>1. connected
        BY <2>6 DEF ReturnError, SftpInv, Sessions, Requesting
      <4>2. call.attempt \in 0 .. 1
        BY <1>1 DEF Call
      <4> QED
        BY <1>1, <2>6, <4>1, <4>2 DEF ReturnError, SessionDead, Honest
    <3>2. result'.status = SftpError /\ result'.told = call.told
      BY <2>6 DEF ReturnError, Return
    <3> QED
      BY <1>1, <1>4, <2>6, <3>1, <3>2, ErrorTypes
      DEF ReturnError, Return, StatusIsHonest, SftpError, SessionTypeOK
  <2>7. CASE ProbeFails
    <3>1. /\ UNCHANGED <<connected, result>> /\ call'.at = "request" /\ call'.attempt = call.attempt
          /\ \/ UNCHANGED sftpErr /\ call'.told = call.told
             \/ sftpErr' \in call'.told
      BY <1>1, <2>7 DEF ProbeFails, Call
    <3> QED
      BY <1>1, <3>1 DEF Honest, StatusIsHonest, Connecting
  <2>8. CASE RequestDone \/ OpenDone
    <3>1. result'.status = "ok" /\ result'.applied = call.applied + 1
      BY <2>8 DEF RequestDone, OpenDone, NoResult
    <3>2. call.applied \in Nat
      BY <1>1 DEF Call
    <3> QED
      BY <1>4, <2>8, <3>1, <3>2 DEF RequestDone, OpenDone, StatusIsHonest
  <2>9. CASE RequestRefused \/ RequestDead
    <3>1. CASE RequestRefused
      BY <1>1, <3>1 DEF RequestRefused, Call, Honest, StatusIsHonest, Connecting
    <3>2. CASE RequestDead
      BY <1>1, <3>2 DEF RequestDead, Goto, Call, Honest, StatusIsHonest, Connecting
    <3> QED
      BY <2>9, <3>1, <3>2
  <2>10. CASE ListEnd \/ TransferDone \/ TransferFails \/ CloseDone
    <3>1. result'.status \in {"ok", "ioError"} /\ result'.op = call.op /\ call' = Idle
      BY <2>10 DEF ListEnd, TransferDone, TransferFails, CloseDone, Return
    <3>2. call.op \in HandleOps \cup {"readdir"}
      BY <2>10 DEF ListEnd, TransferDone, TransferFails, CloseDone, SftpInv, CallShape
    <3>3. call.op \notin PathOps \ {"readdir"}
      BY <3>2 DEF PathOps, OpenOps, HandleOps
    <3> QED
      BY <1>4, <3>1, <3>3 DEF StatusIsHonest
  <2> QED
    BY <1>5, <2>1, <2>2, <2>3, <2>4, <2>5, <2>6, <2>7, <2>8, <2>9, <2>10 DEF CallStep
<1>6. CASE BeginCall
  <2>1. ASSUME NEW op \in PathOps, NEW p \in Path, NEW q \in Path, BeginPathOp(op, p, q)
        PROVE  Honest'
    BY <2>1, IdleTypes
    DEF BeginPathOp, Call, Idle, NoResult, Honest, StatusIsHonest, Connecting, PathOps, OpenOps
  <2>2. ASSUME NEW op \in HandleOps, NEW d \in Fd, BeginHandleOp(op, d) PROVE Honest'
    BY <2>2, IdleTypes
    DEF BeginHandleOp, Call, Idle, NoResult, Honest, StatusIsHonest, Connecting, PathOps, OpenOps
  <2>3. ASSUME NEW op \in HandleOps, NEW d \in Fd, BadHandle(op, d) PROVE Honest'
    BY <1>1, <2>3
    DEF BadHandle, NoResult, Honest, StatusIsHonest, PathOps, OpenOps, HandleOps, sessVars
  <2> QED
    BY <1>6, <2>1, <2>2, <2>3 DEF BeginCall
<1>7. CASE RequestLost
  BY <1>1, <1>7 DEF RequestLost, Call, Honest, StatusIsHonest, Connecting
<1>8. CASE Environment
  BY <1>2, <1>7, <1>8
  DEF Environment, LinkDrops, HostChanges, HostKeyChanges, HelperPins, OtherVolumeSaves, sessVars
<1> QED
  BY <1>2, <1>5, <1>6, <1>8 DEF Next, vars, sessVars

LEMMA ListingStep == ASSUME SftpInv, [Next]_vars PROVE Listing'
<1> USE DEF Listing, ListingIsWhole
<1>1. Listing /\ call \in Call
  BY DEF SftpInv, TypeOK
<1>2. CASE UNCHANGED <<call, result>>
  BY <1>1, <1>2
<1>3. CASE CallStep
  <2>1. CASE ListEnd
    BY <1>1, <2>1 DEF ListEnd, Return, Idle
  <2>2. CASE ConnectFails \/ ReturnError
    BY <2>2, ErrorTypes DEF ConnectFails, ReturnError, Return, Idle, SftpInv, TypeOK
  <2>3. CASE RequestDone \/ OpenDone
    <3>1. call' = Idle /\ result'.op = call.op
      BY <2>3 DEF RequestDone, OpenDone, NoResult
    <3>2. call.op # "readdir"
      BY <2>3 DEF RequestDone, OpenDone, OpenOps
    <3> QED
      BY <3>1, <3>2 DEF Idle
  <2>4. CASE TransferDone \/ TransferFails \/ CloseDone
    BY <2>4 DEF TransferDone, TransferFails, CloseDone, Return, Idle, SftpInv, CallShape, HandleOps
  <2>5. CASE OpenDirDone
    BY <1>1, <2>5 DEF OpenDirDone, Call
  <2>11. CASE ListNext
    BY <1>1, <2>11 DEF ListNext, Call
  <2>6. CASE Attempt \/ Handshake \/ Trust \/ RequestDead
    BY <1>1, <2>6 DEF Attempt, Handshake, Trust, RequestDead, Goto, Call
  <2>7. CASE AttemptReconnect \/ ReconnectIfDead \/ SftpInit
    BY <1>1, <2>7 DEF AttemptReconnect, ReconnectIfDead, Reconnect, SftpInit, Call
  <2>8. CASE ProbeAnswered \/ ProbeFails
    BY <1>1, <2>8 DEF ProbeAnswered, ProbeFails, Call
  <2>9. CASE RequestRefused
    BY <1>1, <2>9 DEF RequestRefused, Call
  <2>10. CASE TransferChunk
    BY <1>1, <2>10 DEF TransferChunk, Call
  <2> QED
    BY <1>3, <2>1, <2>2, <2>3, <2>4, <2>5, <2>6, <2>7, <2>8, <2>9, <2>10, <2>11 DEF CallStep
<1>4. CASE BeginCall
  <2>1. ASSUME NEW op \in PathOps, NEW p \in Path, NEW q \in Path, BeginPathOp(op, p, q)
        PROVE  Listing'
    BY <2>1, IdleTypes DEF BeginPathOp, Call, NoResult
  <2>2. ASSUME NEW op \in HandleOps, NEW d \in Fd, BeginHandleOp(op, d) PROVE Listing'
    BY <2>2, IdleTypes DEF BeginHandleOp, Call, NoResult
  <2>3. ASSUME NEW op \in HandleOps, NEW d \in Fd, BadHandle(op, d) PROVE Listing'
    BY <1>1, <2>3 DEF BadHandle, NoResult
  <2> QED
    BY <1>4, <2>1, <2>2, <2>3 DEF BeginCall
<1>5. CASE RequestLost
  BY <1>1, <1>5 DEF RequestLost, Call
<1>6. CASE Environment
  BY <1>2, <1>5, <1>6
  DEF Environment, LinkDrops, HostChanges, HostKeyChanges, HelperPins, OtherVolumeSaves
<1> QED
  BY <1>2, <1>3, <1>4, <1>6 DEF Next, vars

LEMMA KeysStep == ASSUME SftpInv, [Next]_vars PROVE Keys'
<1> USE DEF Keys, SessionKeyWasAccepted
<1>1. Keys /\ call \in Call /\ sessionKey \in Key
  BY DEF SftpInv, TypeOK, SessionTypeOK
<1>2. CASE UNCHANGED <<known, call, sessionKey, connected>> /\ accepted \subseteq accepted'
  BY <1>1, <1>2
<1>3. CASE CallStep
  <2>1. CASE Trust
    BY <1>1, <2>1, SftpAssumption DEF Trust, Trusted, Goto, Call, sessVars
  <2>2. CASE SftpInit
    BY <1>1, <2>2 DEF SftpInit, Call
  <2>3. CASE Handshake
    BY <1>1, <2>3 DEF Handshake, Goto, Call, SftpInv, Sessions, Connecting
  <2>4. CASE AttemptReconnect \/ ReconnectIfDead
    BY <1>1, <2>4 DEF AttemptReconnect, ReconnectIfDead, Reconnect, Disconnect, LoadFromFile, Call
  <2>5. CASE ConnectFails \/ ReturnError \/ RequestDone \/ OpenDone \/ ListEnd \/ TransferDone
             \/ TransferFails \/ CloseDone
    BY <1>1, <2>5
    DEF ConnectFails, Disconnect, ReturnError, RequestDone, OpenDone, ListEnd, TransferDone,
        TransferFails, CloseDone, Return, Idle, sessVars
  <2>6. CASE Attempt \/ RequestDead
    BY <1>1, <2>6 DEF Attempt, RequestDead, Goto, Call, sessVars
  <2>7. CASE OpenDirDone
    BY <1>1, <2>7 DEF OpenDirDone, Call, sessVars
  <2>9. CASE ListNext
    BY <1>1, <2>9 DEF ListNext, Call, sessVars
  <2>10. CASE TransferChunk
    BY <1>1, <2>10 DEF TransferChunk, Call, sessVars
  <2>11. CASE ProbeAnswered
    BY <1>1, <2>11 DEF ProbeAnswered, Call, sessVars
  <2>12. CASE ProbeFails
    BY <1>1, <2>12 DEF ProbeFails, Call
  <2>8. CASE RequestRefused
    BY <1>1, <2>8 DEF RequestRefused, Call
  <2> QED
    BY <1>3, <2>1, <2>2, <2>3, <2>4, <2>5, <2>6, <2>7, <2>8, <2>9, <2>10, <2>11, <2>12 DEF CallStep
<1>4. CASE BeginCall
  <2>1. ASSUME NEW op \in PathOps, NEW p \in Path, NEW q \in Path, BeginPathOp(op, p, q)
        PROVE  Keys'
    BY <1>1, <2>1, IdleTypes DEF BeginPathOp, Call, Idle, sessVars
  <2>2. ASSUME NEW op \in HandleOps, NEW d \in Fd, BeginHandleOp(op, d) PROVE Keys'
    BY <1>1, <2>2, IdleTypes DEF BeginHandleOp, Call, Idle, sessVars
  <2> QED
    BY <1>2, <1>4, <2>1, <2>2 DEF BeginCall, BadHandle, sessVars
<1>5. CASE RequestLost
  BY <1>1, <1>5 DEF RequestLost, Call
<1>6. ASSUME NEW k \in Key, HelperPins(k) PROVE Keys'
  BY <1>1, <1>6 DEF HelperPins, sessVars
<1>7. ASSUME NEW k \in accepted \cup {NoKey}, OtherVolumeSaves(k) PROVE Keys'
  BY <1>1, <1>7 DEF OtherVolumeSaves, sessVars
<1>8. CASE Environment
  BY <1>2, <1>5, <1>6, <1>7, <1>8 DEF Environment, LinkDrops, HostChanges, HostKeyChanges, sessVars
<1> QED
  BY <1>2, <1>3, <1>4, <1>8 DEF Next, vars, sessVars

-----------------------------------------------------------------------------
LEMMA SftpInvInit == Init => SftpInv
<1> SUFFICES ASSUME Init PROVE SftpInv
  OBVIOUS
<1>1. TypeOK
  <2>1. DOMAIN fOpen = {} /\ HandleTypeOK
    BY SftpAssumption, IdleTypes DEF Init, HandleTypeOK, ClosedFd, NoHandle
  <2> QED
    BY <2>1, SftpAssumption, IdleTypes DEF Init, TypeOK, HostTypeOK, SessionTypeOK
<1>2. Handles
  BY DEF Init, Handles
<1>3. Sessions /\ CallShape /\ Honest /\ Listing /\ Keys
  BY SftpAssumption
  DEF Init, Idle, NoResult, Sessions, CallShape, Honest, StatusIsHonest, Listing, ListingIsWhole,
      Keys, SessionKeyWasAccepted, Connecting, Requesting, OpenOps, PathOps
<1> QED
  BY <1>1, <1>2, <1>3 DEF SftpInv

LEMMA SftpStep == SftpInv /\ [Next]_vars => SftpInv'
  BY HostTypeStep, SessionTypeStep, HandleTypeStep, CallTypeStep, ResultTypeStep, SessionsStep,
     CallShapeStep, HandlesStep, HonestStep, ListingStep, KeysStep
  DEF SftpInv, TypeOK

\* Every variable of a mounted volume keeps its type; in particular no call ever lists or
\* transfers more than there is, and a request is carried out twice at most (SftpBackend:
\* one retry per call).
THEOREM SftpTypeCorrect == Spec => []TypeOK
<1>1. SftpInv => TypeOK
  BY DEF SftpInv
<1> QED
  BY <1>1, SftpInvInit, SftpStep, PTL DEF Spec

\* A handle never stands for another file than the one it was opened on, and is never looked
\* up in a session that was freed, however often the volume reconnects (SftpBackend: fOpen,
\* fNextHandle, Disconnect).
THEOREM HandlesAreNotReused == Spec => []HandleNamesItsFile
<1>1. SftpInv => HandleNamesItsFile
  BY DEF SftpInv, Handles, HandleNamesItsFile
<1> QED
  BY <1>1, SftpInvInit, SftpStep, PTL DEF Spec

\* A status means what it says, whatever was lost and retried (SftpBackend: the retry loops
\* and SftpError).
THEOREM StatusesAreHonest == Spec => []StatusIsHonest
<1>1. SftpInv => StatusIsHonest
  BY DEF SftpInv, Honest
<1> QED
  BY <1>1, SftpInvInit, SftpStep, PTL DEF Spec

\* A listing that succeeds is complete and holds nothing twice (SftpBackend::ReadDir).
THEOREM ListingsAreWhole == Spec => []ListingIsWhole
<1>1. SftpInv => ListingIsWhole
  BY DEF SftpInv, Listing
<1> QED
  BY <1>1, SftpInvInit, SftpStep, PTL DEF Spec

\* A session is only ever with a host whose key somebody accepted, whatever other volumes
\* write to the known-hosts file (SftpBackend::Reconnect).
THEOREM NoUnknownHost == Spec => []SessionKeyWasAccepted
<1>1. SftpInv => SessionKeyWasAccepted
  BY DEF SftpInv, Keys
<1> QED
  BY <1>1, SftpInvInit, SftpStep, PTL DEF Spec
=============================================================================
