---------------------------- MODULE SftpBackend ----------------------------
(***************************************************************************)
(* fondamenta/backend/SftpBackend.cpp behind fondamenta/fuse/              *)
(* CampielloFuse.cpp: one mounted SFTP volume.  Every FUSE callback holds  *)
(* gContext.mutex from its first line to its last, so there is one call at *)
(* a time and any thread may make the next one; the host, the link and the *)
(* known-hosts file change at any moment of it.                            *)
(*                                                                         *)
(* A call is taken apart at its libssh2 requests.  A request is answered,  *)
(* fails on a dead link, or is lost: the host may have carried it out      *)
(* although the answer never arrives.  Contents are left out: a directory  *)
(* is a number of entries, a transfer a number of chunks.                  *)
(***************************************************************************)
EXTENDS Integers, FiniteSets

CONSTANTS
    Path,        \* remote paths used by the applications
    Fd,          \* open file objects of the kernel (struct fuse_file_info)
    Key, NoKey,  \* host keys; NoKey: the known-hosts file has no entry
    Length,      \* bound: entries of a directory, chunks of a transfer
    MaxHandles,  \* bound: files opened
    MaxDrops,    \* bound: times the link is lost
    MaxEvents    \* bound: changes of the host and of the known-hosts file

ASSUME SftpAssumption ==
    /\ NoKey \notin Key /\ Path # {} /\ Fd # {}
    /\ Length \in Nat \ {0} /\ MaxHandles \in Nat /\ MaxDrops \in Nat
    /\ MaxEvents \in Nat

OpenOps == {"open", "openwrite"}
PathOps == {"stat", "readdir", "mkdir", "unlink", "rename", "truncate"} \cup OpenOps
HandleOps == {"read", "write", "close"}
NoHandle == 0
Status == {"ok", "notFound", "accessDenied", "ioError", "badHandle", "transportError"}

VARIABLES
    host,         \* "up", "off", "refuses" (authentication fails) or "silent"
    hostKey,      \* the key the host presents
    node,         \* what each remote path is: "none", "file" or "dir"
    events,
    link,         \* the TCP connection of fSession: "none", "up" or "down"
    drops,
    known,        \* the entry of this host in the known-hosts file
    accepted,     \* history: keys a decision accepted for this host
    connected,    \* fSftp # nullptr
    session,      \* history: number of the current or last session
    sessionKey,   \* history: the key the host presented in it
    errno,        \* libssh2_session_last_errno: "none", "protocol" or "socket"
    sftpErr,      \* libssh2_sftp_last_error: "none" or the status of a refusal
    fOpen, fNextHandle,
    fds,          \* the file each fuse_file_info stands for, and its fh
    call,         \* the callback that holds the mutex
    result        \* history: the call that returned last, until the next one

hostVars == <<host, hostKey, node, events>>
sessVars == <<connected, session, sessionKey, errno, sftpErr>>
openVars == <<fOpen, fNextHandle>>
vars == <<hostVars, link, drops, known, accepted, sessVars, openVars, fds, call, result>>

\* `at' is where the call is; `from' where Reconnect was called; `got' the
\* entries in `out' or chunks transferred, `pos' where the host is, `avail' how many there
\* are; `applied' and `told' record what the host did and answered in this call.
Idle == [op |-> "none", at |-> "idle", path |-> CHOOSE p \in Path : TRUE,
         to |-> CHOOSE p \in Path : TRUE, fd |-> CHOOSE d \in Fd : TRUE, attempt |-> 0,
         from |-> "head", isDir |-> FALSE, pinned |-> NoKey, pos |-> 0, got |-> 0, avail |-> 0,
         applied |-> 0, told |-> {}]
NoResult == [op |-> "none", status |-> "ok", got |-> 0, avail |-> 0, applied |-> 0,
             told |-> {}, pinned |-> NoKey]
ClosedFd == [handle |-> NoHandle, path |-> CHOOSE p \in Path : TRUE]

CallAt == {"idle", "attempt", "probe", "request", "list", "transfer", "close", "failed",
           "connect", "trust", "auth"}

Call == [op : PathOps \cup HandleOps \cup {"none"}, at : CallAt, path : Path, to : Path,
         fd : Fd, attempt : 0 .. 1, from : {"head", "failed"}, isDir : BOOLEAN,
         pinned : Key \cup {NoKey}, pos : 0 .. Length, got : 0 .. Length,
         avail : 0 .. Length + 1, applied : 0 .. 2, told : SUBSET Status]
Result == [op : PathOps \cup HandleOps \cup {"none"}, status : Status, got : 0 .. Length,
           avail : 0 .. Length + 1, applied : 0 .. 2, told : SUBSET Status,
           pinned : Key \cup {NoKey}]

HostTypeOK ==
    /\ host \in {"up", "off", "refuses", "silent"} /\ hostKey \in Key
    /\ node \in [Path -> {"none", "file", "dir"}]
    /\ link \in {"none", "up", "down"} /\ drops \in 0 .. MaxDrops
    /\ events \in 0 .. MaxEvents
    /\ known \in Key \cup {NoKey} /\ accepted \subseteq Key

SessionTypeOK ==
    /\ connected \in BOOLEAN /\ session \in 1 .. MaxDrops + 1 /\ sessionKey \in Key
    /\ errno \in {"none", "protocol", "socket"}
    /\ sftpErr \in {"none", "notFound", "accessDenied"}

\* The keys of fOpen are handles given out; a handle of an open file was given out.
HandleTypeOK ==
    /\ fNextHandle \in 1 .. MaxHandles + 1
    /\ DOMAIN fOpen \subseteq 1 .. fNextHandle - 1
    /\ \A h \in DOMAIN fOpen : fOpen[h] \in [path : Path, session : 1 .. MaxDrops + 1]
    /\ fds \in [Fd -> [handle : 0 .. fNextHandle - 1, path : Path]]

TypeOK ==
    /\ HostTypeOK /\ SessionTypeOK /\ HandleTypeOK
    /\ call \in Call /\ result \in Result

\* The add-on's Connect has succeeded; it may have failed to save the key it pinned.
Init ==
    /\ host = "up" /\ hostKey \in Key
    /\ node \in [Path -> {"none", "file", "dir"}]
    /\ link = "up" /\ drops = 0 /\ events = 0
    /\ known \in {hostKey, NoKey}
    /\ accepted = {hostKey}
    /\ connected = TRUE /\ session = 1 /\ sessionKey = hostKey
    /\ errno = "none" /\ sftpErr = "none"
    /\ fOpen = << >> /\ fNextHandle = 1
    /\ fds = [d \in Fd |-> ClosedFd]
    /\ call = Idle /\ result = NoResult

Goto(at) == call' = [call EXCEPT !.at = at]

\* The callback returns and the mutex is released.
Return(status) ==
    /\ call' = Idle
    /\ result' = [op |-> call.op, status |-> status, got |-> call.got,
                  avail |-> call.avail, applied |-> call.applied, told |-> call.told,
                  pinned |-> call.pinned]

SftpError == IF connected /\ sftpErr # "none" THEN sftpErr ELSE "ioError"

\* Mutant of SessionDead: a dead socket is taken for an ordinary error.
NeverDead == FALSE

SessionDead == errno = "socket"

Answering == link = "up" /\ host \in {"up", "refuses"}

-----------------------------------------------------------------------------
\* The callbacks of CampielloFuse.cpp.

BeginPathOp(op, p, q) ==
    /\ call.at = "idle"
    /\ \E d \in Fd, n \in 0 .. Length :
        /\ op \in OpenOps => fds[d] = ClosedFd /\ fNextHandle <= MaxHandles
        /\ op \notin OpenOps => d = Idle.fd
        /\ op # "readdir" => n = 0
        /\ call' = [Idle EXCEPT !.op = op, !.at = "attempt", !.path = p, !.to = q,
                                !.fd = d, !.avail = n]
    /\ result' = NoResult
    /\ UNCHANGED <<hostVars, link, drops, known, accepted, sessVars, openVars, fds>>

\* cf_read, cf_write, cf_release: the handle is looked up in fOpen.
BeginHandleOp(op, d) ==
    /\ call.at = "idle"
    /\ fds[d] # ClosedFd
    /\ fds[d].handle \in DOMAIN fOpen
    /\ \E n \in 0 .. Length + 1 :
        /\ op = "write" => n = Length
        /\ op = "close" => n = 0
        /\ call' = [Idle EXCEPT !.op = op, !.at = IF op = "close" THEN op ELSE "transfer",
                                !.path = fds[d].path, !.fd = d, !.avail = n]
    /\ result' = NoResult
    /\ UNCHANGED <<hostVars, link, drops, known, accepted, sessVars, openVars, fds>>

BadHandle(op, d) ==
    /\ call.at = "idle"
    /\ fds[d] # ClosedFd
    /\ fds[d].handle \notin DOMAIN fOpen
    /\ result' = [NoResult EXCEPT !.op = op, !.status = "badHandle"]
    /\ fds' = IF op = "close" THEN [fds EXCEPT ![d] = ClosedFd] ELSE fds
    /\ UNCHANGED <<hostVars, link, drops, known, accepted, sessVars, openVars, call>>

-----------------------------------------------------------------------------
\* Disconnect and Reconnect.

\* Mutant of Disconnect: handles are numbered from 1 in every session.
DisconnectAndRenumber ==
    /\ fOpen' = << >>
    /\ fNextHandle' = 1
    /\ connected' = FALSE
    /\ link' = "none"
    /\ sftpErr' = "none"

\* Closes every open handle and frees the session.
Disconnect ==
    /\ fOpen' = << >>
    /\ connected' = FALSE
    /\ link' = "none"
    /\ sftpErr' = "none"
    /\ UNCHANGED fNextHandle

\* The entry of this host in the file as it is now.
LoadFromFile == known

\* Reconnect: Disconnect, LoadFromFile, Connect.
Reconnect(from) ==
    /\ Disconnect
    /\ call' = [call EXCEPT !.at = "connect", !.from = from, !.pinned = LoadFromFile]
    /\ UNCHANGED <<hostVars, drops, known, accepted, session, sessionKey, errno, fds, result>>

Attempt ==
    /\ call.at = "attempt"
    /\ connected
    /\ Goto(IF call.op = "unlink" THEN "probe" ELSE "request")
    /\ UNCHANGED <<hostVars, link, drops, known, accepted, sessVars, openVars, fds, result>>

AttemptReconnect ==
    /\ call.at = "attempt"
    /\ ~connected
    /\ Reconnect("head")

\* TcpConnect and libssh2_session_handshake.
Handshake ==
    /\ call.at = "connect"
    /\ host \in {"up", "refuses"}
    /\ link' = "up"
    /\ sessionKey' = hostKey
    /\ Goto("trust")
    /\ UNCHANGED <<hostVars, drops, known, accepted, connected, session, errno, sftpErr,
                   openVars, fds, result>>

\* Evaluate: the key the host presents is the one pinned for it.
Trusted == call.pinned = sessionKey

\* Mutant of Trust: a reconnect accepts a key it does not know.
TrustUnknown ==
    /\ call.at = "trust"
    /\ call.pinned \in {sessionKey, NoKey}
    /\ Goto("auth")
    /\ UNCHANGED <<hostVars, link, drops, known, accepted, sessVars, openVars, fds, result>>

\* The decision of a reconnect rejects, so only a pinned key passes.
Trust ==
    /\ call.at = "trust"
    /\ Trusted
    /\ Goto("auth")
    /\ UNCHANGED <<hostVars, link, drops, known, accepted, sessVars, openVars, fds, result>>

\* Authentication and libssh2_sftp_init succeed; ReconnectIfDead makes the caller
\* go round its loop.
SftpInit ==
    /\ call.at = "auth"
    /\ link = "up" /\ host = "up"
    /\ connected' = TRUE
    /\ session' = session + 1
    /\ errno' = "none"
    /\ call' = [call EXCEPT !.at = "attempt",
                            !.attempt = IF call.from = "failed" THEN 1 ELSE @]
    /\ UNCHANGED <<hostVars, link, drops, known, accepted, sessionKey, sftpErr, openVars,
                   fds, result>>

ConnectFailed ==
    \/ call.at = "connect" /\ host = "off"
    \/ call.at = "trust" /\ ~Trusted
    \/ call.at = "auth" /\ (link = "down" \/ host = "refuses")

\* Mutant of ConnectFails: the retry's failure is reported like the first attempt's.
ConnectFailsAlike ==
    /\ ConnectFailed
    /\ Disconnect
    /\ Return("transportError")
    /\ UNCHANGED <<hostVars, drops, known, accepted, session, sessionKey, errno, fds>>

\* Connect disconnects and fails; so does the call (fSftp is null: SftpError is
\* kIoError).
ConnectFails ==
    /\ ConnectFailed
    /\ Disconnect
    /\ Return(IF call.from = "head" THEN "transportError" ELSE "ioError")
    /\ UNCHANGED <<hostVars, drops, known, accepted, session, sessionKey, errno, fds>>

\* attempt == 0 && ReconnectIfDead().
ReconnectIfDead ==
    /\ call.at = "failed"
    /\ call.attempt = 0 /\ SessionDead
    /\ Reconnect("failed")

ReturnError ==
    /\ call.at = "failed"
    /\ ~(call.attempt = 0 /\ SessionDead)
    /\ Return(SftpError)
    /\ UNCHANGED <<hostVars, link, drops, known, accepted, sessVars, openVars, fds>>

-----------------------------------------------------------------------------
\* The requests of a path operation.

\* The host can carry the request out, and what is then at each path.
CanDo ==
    CASE call.op \in {"stat", "rename"} -> node[call.path] # "none"
      [] call.op = "readdir" -> node[call.path] = "dir"
      [] call.op \in {"open", "truncate"} -> node[call.path] = "file"
      [] call.op = "openwrite" -> node[call.path] # "dir"
      [] call.op = "mkdir" -> node[call.path] = "none"
      [] call.op = "unlink" -> node[call.path] = IF call.isDir THEN "dir" ELSE "file"

Done ==
    CASE call.op = "openwrite" -> [node EXCEPT ![call.path] = "file"]
      [] call.op = "mkdir" -> [node EXCEPT ![call.path] = "dir"]
      [] call.op = "unlink" -> [node EXCEPT ![call.path] = "none"]
      [] call.op = "rename" -> [node EXCEPT ![call.path] = "none",
                                           ![call.to] = node[call.path]]
      [] OTHER -> node

\* Unlink asks for the node's type; no answer counts as "not a directory".
ProbeAnswered ==
    /\ call.at = "probe"
    /\ Answering /\ node[call.path] # "none"
    /\ call' = [call EXCEPT !.at = "request", !.isDir = node[call.path] = "dir"]
    /\ UNCHANGED <<hostVars, link, drops, known, accepted, sessVars, openVars, fds, result>>

ProbeFails ==
    /\ call.at = "probe"
    /\ \/ /\ link = "down"
          /\ errno' = "socket"
          /\ call' = [call EXCEPT !.at = "request", !.isDir = FALSE]
          /\ UNCHANGED sftpErr
       \/ /\ Answering
          /\ errno' = "protocol"
          /\ sftpErr' = IF node[call.path] = "none" THEN "notFound" ELSE "accessDenied"
          /\ call' = [call EXCEPT !.at = "request", !.isDir = FALSE,
                                  !.told = @ \cup {sftpErr'}]
    /\ UNCHANGED <<hostVars, link, drops, known, accepted, connected, session, sessionKey,
                   openVars, fds, result>>

RequestDone ==
    /\ call.at = "request"
    /\ call.op \notin OpenOps \cup {"readdir"}
    /\ Answering /\ CanDo
    /\ node' = Done
    /\ call' = Idle
    /\ result' = [NoResult EXCEPT !.op = call.op, !.applied = call.applied + 1,
                                  !.told = call.told]
    /\ UNCHANGED <<host, hostKey, events, link, drops, known, accepted, sessVars, openVars, fds>>

\* Open and OpenWrite: the handle gets the next number.
OpenDone ==
    /\ call.at = "request"
    /\ call.op \in OpenOps
    /\ Answering /\ CanDo
    /\ node' = Done
    /\ fOpen' = [h \in DOMAIN fOpen \cup {fNextHandle} |->
                    IF h = fNextHandle THEN [path |-> call.path, session |-> session]
                    ELSE fOpen[h]]
    /\ fNextHandle' = fNextHandle + 1
    /\ fds' = [fds EXCEPT ![call.fd] = [handle |-> fNextHandle, path |-> call.path]]
    /\ call' = Idle
    /\ result' = [NoResult EXCEPT !.op = call.op, !.applied = call.applied + 1,
                                  !.told = call.told]
    /\ UNCHANGED <<host, hostKey, events, link, drops, known, accepted, sessVars>>

\* Mutant of OpenDirDone: entries of the first attempt are kept.
OpenDirAgain ==
    /\ call.at = "request"
    /\ call.op = "readdir"
    /\ Answering /\ CanDo
    /\ call' = [call EXCEPT !.at = "list", !.pos = 0]
    /\ UNCHANGED <<hostVars, link, drops, known, accepted, sessVars, openVars, fds, result>>

\* ReadDir: the directory is open, out.clear().
OpenDirDone ==
    /\ call.at = "request"
    /\ call.op = "readdir"
    /\ Answering /\ CanDo
    /\ call' = [call EXCEPT !.at = "list", !.pos = 0, !.got = 0]
    /\ UNCHANGED <<hostVars, link, drops, known, accepted, sessVars, openVars, fds, result>>

\* The host refuses, because it cannot or because it will not.
RequestRefused ==
    /\ call.at \in {"request", "list"}
    /\ Answering
    /\ \E s \in {"notFound", "accessDenied"} :
        /\ CanDo => s = "accessDenied"
        /\ sftpErr' = s
        /\ call' = [call EXCEPT !.at = "failed", !.told = @ \cup {s}]
    /\ errno' = "protocol"
    /\ UNCHANGED <<hostVars, link, drops, known, accepted, connected, session, sessionKey,
                   openVars, fds, result>>

\* The link is dead.
RequestDead ==
    /\ call.at \in {"request", "list"}
    /\ link = "down"
    /\ errno' = "socket"
    /\ Goto("failed")
    /\ UNCHANGED <<hostVars, link, drops, known, accepted, connected, session, sessionKey,
                   sftpErr, openVars, fds, result>>

\* The host carries the request out and the link is lost before the answer.
RequestLost ==
    /\ call.at = "request"
    /\ Answering /\ CanDo
    /\ drops < MaxDrops
    /\ node' = Done
    /\ link' = "down" /\ drops' = drops + 1
    /\ errno' = "socket"
    /\ call' = [call EXCEPT !.at = "failed", !.applied = @ + 1]
    /\ UNCHANGED <<host, hostKey, events, known, accepted, connected, session, sessionKey, sftpErr,
                   openVars, fds, result>>

ListNext ==
    /\ call.at = "list"
    /\ Answering /\ call.pos < call.avail
    /\ call' = [call EXCEPT !.pos = @ + 1, !.got = @ + 1]
    /\ UNCHANGED <<hostVars, link, drops, known, accepted, sessVars, openVars, fds, result>>

ListEnd ==
    /\ call.at = "list"
    /\ Answering /\ call.pos = call.avail
    /\ Return("ok")
    /\ UNCHANGED <<hostVars, link, drops, known, accepted, sessVars, openVars, fds>>

-----------------------------------------------------------------------------
\* Read, Write and Close of an open handle: no retry.

\* What is left to transfer: Read stops at the end of the file.
Wanted == IF call.avail < Length THEN call.avail ELSE Length

\* The host takes or gives as much as it likes, at least one chunk.
TransferChunk ==
    /\ call.at = "transfer"
    /\ Answering /\ call.got < Wanted
    /\ \E n \in 1 .. Wanted - call.got : call' = [call EXCEPT !.got = @ + n]
    /\ UNCHANGED <<hostVars, link, drops, known, accepted, sessVars, openVars, fds, result>>

\* The request is satisfied; or Read gets 0: end of file; or Write gets 0: no progress.
TransferDone ==
    /\ call.at = "transfer"
    /\ \/ call.got = Length
       \/ call.op = "read" /\ Answering /\ call.got = Wanted
       \/ call.op = "write" /\ Answering
    /\ Return("ok")
    /\ UNCHANGED <<hostVars, link, drops, known, accepted, sessVars, openVars, fds>>

TransferFails ==
    /\ call.at = "transfer"
    /\ call.got < Length
    /\ \/ link = "down" /\ errno' = "socket" /\ UNCHANGED sftpErr
       \/ Answering /\ errno' = "protocol" /\ sftpErr' = "accessDenied"
    /\ Return("ioError")
    /\ UNCHANGED <<hostVars, link, drops, known, accepted, connected, session, sessionKey,
                   openVars, fds>>

\* libssh2_sftp_close, whose result is not used; then the handle is erased.
CloseDone ==
    /\ call.at = "close"
    /\ Answering \/ link = "down"
    /\ errno' = IF link = "down" THEN "socket" ELSE errno
    /\ fOpen' = [h \in DOMAIN fOpen \ {fds[call.fd].handle} |-> fOpen[h]]
    /\ fds' = [fds EXCEPT ![call.fd] = ClosedFd]
    /\ Return("ok")
    /\ UNCHANGED <<hostVars, link, drops, known, accepted, connected, session, sessionKey,
                   sftpErr, fNextHandle>>

-----------------------------------------------------------------------------
\* The host, the network and the other processes that use the known-hosts file.

LinkDrops ==
    /\ link = "up"
    /\ drops < MaxDrops
    /\ link' = "down" /\ drops' = drops + 1
    /\ UNCHANGED <<hostVars, known, accepted, sessVars, openVars, fds, call, result>>

Event == events < MaxEvents /\ events' = events + 1

\* A host that goes off takes its connections with it; one that hangs stays so.
HostChanges(to) ==
    /\ Event
    /\ host \notin {to, "silent"}
    /\ to = "off" => link # "up"
    /\ host' = to
    /\ UNCHANGED <<hostKey, node, link, drops, known, accepted, sessVars, openVars, fds,
                   call, result>>

HostKeyChanges(k) ==
    /\ Event
    /\ hostKey # k
    /\ hostKey' = k
    /\ UNCHANGED <<host, node, link, drops, known, accepted, sessVars, openVars, fds, call,
                   result>>

\* The user accepts a key in the connect helper, which saves it.
HelperPins(k) ==
    /\ Event
    /\ known # k
    /\ known' = k /\ accepted' = accepted \cup {k}
    /\ UNCHANGED <<host, hostKey, node, link, drops, sessVars, openVars, fds, call, result>>

\* Another volume saves the whole file as it was when that volume loaded it: an entry
\* pinned meanwhile is lost (SaveToFile takes no lock).
OtherVolumeSaves(k) ==
    /\ Event
    /\ known # k
    /\ known' = k
    /\ UNCHANGED <<host, hostKey, node, link, drops, accepted, sessVars, openVars, fds,
                   call, result>>

CallStep ==
    \/ Attempt \/ AttemptReconnect \/ Handshake \/ Trust \/ SftpInit \/ ConnectFails
    \/ ReconnectIfDead \/ ReturnError
    \/ ProbeAnswered \/ ProbeFails
    \/ RequestDone \/ OpenDone \/ OpenDirDone \/ RequestRefused \/ RequestDead
    \/ ListNext \/ ListEnd
    \/ TransferChunk \/ TransferDone \/ TransferFails \/ CloseDone

BeginCall ==
    \/ \E op \in PathOps, p \in Path, q \in Path :
        (IF op = "rename" THEN p # q ELSE p = q) /\ BeginPathOp(op, p, q)
    \/ \E op \in HandleOps, d \in Fd : BeginHandleOp(op, d) \/ BadHandle(op, d)

Environment ==
    \/ RequestLost \/ LinkDrops
    \/ \E to \in {"up", "off", "refuses", "silent"} : HostChanges(to)
    \/ \E k \in Key : HostKeyChanges(k) \/ HelperPins(k)
    \/ \E k \in accepted \cup {NoKey} : OtherVolumeSaves(k)

Next == CallStep \/ BeginCall \/ Environment

\* A call makes progress whenever it can; applications keep looking at the volume.
Fairness ==
    /\ WF_vars(CallStep)
    /\ SF_vars(\E p \in Path : BeginPathOp("stat", p, p))

Spec == Init /\ [][Next]_vars /\ Fairness

-----------------------------------------------------------------------------
\* The file a kernel file object was opened on is the one its handle still stands for,
\* through any number of reconnects: a stale handle is unknown, never another's, and
\* every libssh2 handle that can be looked up belongs to the session in use, not to one
\* that Disconnect freed (SftpBackend: fOpen, fNextHandle).
HandleNamesItsFile ==
    /\ \A d \in Fd :
        fds[d].handle \in DOMAIN fOpen => fOpen[fds[d].handle].path = fds[d].path
    /\ \A h \in DOMAIN fOpen : connected /\ fOpen[h].session = session

\* Whatever was lost and retried on the way, kTransportError means the host did
\* nothing, kOk that it did something, and a status of the host was its answer to this
\* call (SftpBackend: the retry loops, SftpError).
StatusIsHonest ==
    /\ result.status = "transportError" => result.applied = 0
    /\ result.op \in PathOps \ {"readdir"} /\ result.status = "ok" => result.applied > 0
    /\ result.status \in {"notFound", "accessDenied"} => result.status \in result.told

\* A listing that succeeds names every entry once, even when the session died under it
\* and was replaced (SftpBackend::ReadDir).
ListingIsWhole ==
    result.op = "readdir" /\ result.status = "ok" => result.got = result.avail

\* The session in use is with a host whose key somebody accepted: Reconnect never
\* accepts one by itself (SftpBackend::Reconnect).
SessionKeyWasAccepted == connected => sessionKey \in accepted

\* Once the host stays reachable with the pinned key, the volume works again: the
\* dead session is noticed and replaced.
HostIsBack == host = "up" /\ hostKey = known
VolumeComesBack == <>[]HostIsBack => []<>(connected /\ link = "up")
=============================================================================
