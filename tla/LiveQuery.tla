----------------------------- MODULE LiveQuery ------------------------------
(***************************************************************************)
(* The live queries of one connection: HandleQueryOpen, HandleQueryClose,  *)
(* PushQueryUpdate, CloseQuerySession and CloseAllQuerySessions of         *)
(* traghetto/server/FileServer.cpp.                                        *)
(*                                                                         *)
(*   reader   the connection's thread, which runs the handlers and, at the *)
(*            end, the FileServer's destructor;                            *)
(*   looper   fQueryLooper: takes B_QUERY_UPDATE messages in order, drops  *)
(*            those whose handler has been removed, and holds its own lock *)
(*            while it runs a handler;                                     *)
(*   kernel   posts one message per live query for each matching file that *)
(*            appears or goes away.                                        *)
(*                                                                         *)
(* `out' is the sequence of frames handed to the FrameWriter, which sends  *)
(* them in that order (module Dispatch).  A file is a member of File; the  *)
(* files in Inside are under the shared root.                              *)
(***************************************************************************)
EXTENDS Integers, Sequences, FiniteSets

CONSTANTS
    File,          \* files that may match the predicate, anywhere on the volume
    Inside,        \* those under fRoot
    QueryId,       \* query ids the peer uses
    Gated,         \* the FileServer is behind a GatedHandler
    MaxOpens,      \* bound: QUERY_OPEN requests
    MaxChanges,    \* bound: files that appear or go away
    MaxRequests    \* bound: requests of the peer

ASSUME LiveQueryAssumption ==
    /\ Inside \subseteq File
    /\ Gated \in BOOLEAN
    /\ MaxOpens \in Nat /\ MaxChanges \in Nat /\ MaxRequests \in Nat

Session == 1 .. MaxOpens
NoSession == 0

Request == [op : {"open", "close"}, q : QueryId]
Message == [session : Session, file : File, added : BOOLEAN]
Update == [type : {"update"}, q : QueryId, file : File, added : BOOLEAN]
Result == [type : {"result"}, q : QueryId, entries : SUBSET File]
Ack == [type : {"closed", "error"}, q : QueryId]

NoMessage == [session |-> NoSession]

VARIABLES
    matching,      \* the files that match the predicate now
    changes,       \* number of changes so far
    fSink,         \* the FileServer has a sink
    fQueries,      \* the session stored under each id, or NoSession
    queryOf,       \* the id each session was created with, in order
    target,        \* sessions whose BQuery is live: the kernel posts to them
    handlers,      \* sessions whose handler is attached to the looper
    queue,         \* messages posted to the looper
    running,       \* the message the looper is handling, or NoMessage
    reader,        \* where the reader is
    current,       \* the request being handled, with its session
    unseen,        \* files the initial fetch has still to visit
    entries,       \* the initial set collected so far
    inbox,         \* requests sent and not yet received
    asked,         \* number of requests sent
    out,           \* frames enqueued on the writer
    fetchedAt,     \* history: Len(out) when each session went live
    replaced       \* history: sessions that replaced an open one

serverVars == <<fSink, fQueries, queryOf, target, handlers, queue, running,
                reader, current, unseen, entries, out, fetchedAt, replaced>>
kernelVars == <<matching, changes>>
peerVars == <<inbox, asked>>
vars == <<serverVars, kernelVars, peerVars>>

ReaderPC == {"receive", "target", "fetch", "scan", "closeOld", "detachOld",
             "store", "reply", "acknowledge", "destroyQueries", "joinLooper", "destroyed"}

TypeOK ==
    /\ matching \in SUBSET File
    /\ changes \in 0 .. MaxChanges
    /\ fSink \in BOOLEAN
    /\ fQueries \in [QueryId -> Session \cup {NoSession}]
    /\ queryOf \in Seq(QueryId) /\ Len(queryOf) <= MaxOpens
    /\ target \in SUBSET Session
    /\ handlers \in SUBSET Session
    /\ queue \in Seq(Message)
    /\ running \in Message \cup {NoMessage}
    /\ reader \in ReaderPC
    /\ current \in [op : {"open", "close"}, q : QueryId, live : BOOLEAN, old : Session \cup {NoSession}]
    /\ unseen \in SUBSET File
    /\ entries \in SUBSET File
    /\ inbox \in Seq(Request)
    /\ asked \in 0 .. MaxRequests
    /\ out \in Seq(Update \cup Result \cup Ack)
    /\ fetchedAt \in [Session -> Nat]
    /\ replaced \in SUBSET Session

\* ServeConnection has installed its sink.  GatedHandler inherits SetFrameSink
\* from RequestHandler, where it does nothing, so a gated server has none.
Init ==
    /\ matching \in SUBSET File
    /\ changes = 0
    /\ fSink = ~Gated
    /\ fQueries = [q \in QueryId |-> NoSession]
    /\ queryOf = <<>>
    /\ target = {}
    /\ handlers = {}
    /\ queue = <<>>
    /\ running = NoMessage
    /\ reader = "receive"
    /\ \E q \in QueryId : current = [op |-> "close", q |-> q, live |-> FALSE, old |-> NoSession]
    /\ unseen = {}
    /\ entries = {}
    /\ inbox = <<>>
    /\ asked = 0
    /\ out = <<>>
    /\ fetchedAt = [s \in Session |-> 0]
    /\ replaced = {}

\* Everything but the named part of the server's state is left alone.
KeepSessions == UNCHANGED <<fQueries, queryOf, target, handlers, fetchedAt, replaced>>
KeepLooper == UNCHANGED <<queue, running>>
KeepOthers == UNCHANGED <<kernelVars, peerVars>>

LooperUnlocked == running = NoMessage

\* The session of the latest QUERY_OPEN.
newest == Len(queryOf)

-----------------------------------------------------------------------------
\* The kernel: a file starts or stops matching, and every live query is told.

MessagesFor(f, added, S) ==
    LET CountBelow(s) == Cardinality({r \in S : r < s})
        Nth(i) == CHOOSE s \in S : CountBelow(s) = i - 1
    IN  [i \in 1 .. Cardinality(S) |-> [session |-> Nth(i), file |-> f, added |-> added]]

Change(f) ==
    /\ changes < MaxChanges
    /\ changes' = changes + 1
    /\ matching' = IF f \in matching THEN matching \ {f} ELSE matching \cup {f}
    /\ queue' = queue \o MessagesFor(f, f \notin matching, target)
    /\ KeepSessions
    /\ UNCHANGED <<fSink, running, reader, current, unseen, entries, out, peerVars>>

-----------------------------------------------------------------------------
\* The reader: HandleQueryOpen.

ReceiveOpen(q) ==
    /\ reader = "receive"
    /\ inbox # <<>> /\ Head(inbox) = [op |-> "open", q |-> q]
    /\ newest < MaxOpens
    /\ inbox' = Tail(inbox)
    /\ queryOf' = Append(queryOf, q)
    /\ current' = [op |-> "open", q |-> q, live |-> fSink, old |-> NoSession]
    /\ reader' = IF fSink THEN "target" ELSE "fetch"
    /\ KeepLooper
    /\ UNCHANGED <<fQueries, target, handlers, fetchedAt, replaced, fSink, unseen,
                   entries, out, kernelVars, asked>>

\* A request of either kind that does not decode, or, for an open, a volume
\* without queries or a bad predicate.
Refuse ==
    /\ reader = "receive"
    /\ inbox # <<>>
    /\ inbox' = Tail(inbox)
    /\ out' = Append(out, [type |-> "error", q |-> Head(inbox).q])
    /\ KeepSessions /\ KeepLooper
    /\ UNCHANGED <<fSink, reader, current, unseen, entries, kernelVars, asked>>

\* AddHandler under the looper's lock, then SetTarget.
AttachHandler ==
    /\ reader = "target"
    /\ LooperUnlocked
    /\ handlers' = handlers \cup {newest}
    /\ reader' = "fetch"
    /\ KeepLooper /\ KeepOthers
    /\ UNCHANGED <<fQueries, queryOf, target, fetchedAt, replaced, fSink, current,
                   unseen, entries, out>>

\* From Fetch on a live query is told of changes.
Fetch ==
    /\ reader = "fetch"
    /\ target' = IF current.live THEN target \cup {newest} ELSE target
    /\ fetchedAt' = [fetchedAt EXCEPT ![newest] = Len(out)]
    /\ unseen' = File
    /\ entries' = {}
    /\ reader' = "scan"
    /\ KeepLooper /\ KeepOthers
    /\ UNCHANGED <<fQueries, queryOf, handlers, replaced, fSink, current, out>>

\* Fetch fails: the handler is removed under the looper's lock and freed.
FetchFails ==
    /\ reader = "fetch"
    /\ current.live => LooperUnlocked
    /\ handlers' = handlers \ {newest}
    /\ out' = Append(out, [type |-> "error", q |-> current.q])
    /\ reader' = "receive"
    /\ KeepLooper /\ KeepOthers
    /\ UNCHANGED <<fQueries, queryOf, target, fetchedAt, replaced, fSink, current,
                   unseen, entries>>

\* GetNextRef: the index is walked while files go on changing.
Scan(f) ==
    /\ reader = "scan"
    /\ f \in unseen
    /\ unseen' = unseen \ {f}
    /\ entries' = IF f \in matching \cap Inside THEN entries \cup {f} ELSE entries
    /\ KeepSessions /\ KeepLooper /\ KeepOthers
    /\ UNCHANGED <<fSink, reader, current, out>>

\* The walk is over.  A query that is not live is deleted and answered.
Scanned ==
    /\ reader = "scan"
    /\ unseen = {}
    /\ reader' = IF current.live THEN "closeOld" ELSE "reply"
    /\ KeepSessions /\ KeepLooper /\ KeepOthers
    /\ UNCHANGED <<fSink, current, unseen, entries, out>>

-----------------------------------------------------------------------------
\* CloseQuerySession(current.q), called by both handlers.

AfterClose == IF current.op = "open" THEN "store" ELSE "acknowledge"

\* Mutant of CloseQuery: the entry is overwritten later and its BQuery stays.
CloseQueryKeepingTarget ==
    /\ reader = "closeOld"
    /\ fQueries' = [fQueries EXCEPT ![current.q] = NoSession]
    /\ current' = [current EXCEPT !.old = fQueries[current.q]]
    /\ reader' = IF fQueries[current.q] = NoSession THEN AfterClose ELSE "detachOld"
    /\ replaced' = IF current.op = "open" /\ fQueries[current.q] # NoSession
                   THEN replaced \cup {newest} ELSE replaced
    /\ KeepLooper /\ KeepOthers
    /\ UNCHANGED <<queryOf, target, handlers, fetchedAt, fSink, unseen, entries, out>>

\* The session leaves the map and its BQuery is deleted: no more messages.
CloseQuery ==
    /\ reader = "closeOld"
    /\ fQueries' = [fQueries EXCEPT ![current.q] = NoSession]
    /\ target' = target \ {fQueries[current.q]}
    /\ current' = [current EXCEPT !.old = fQueries[current.q]]
    /\ reader' = IF fQueries[current.q] = NoSession THEN AfterClose ELSE "detachOld"
    /\ replaced' = IF current.op = "open" /\ fQueries[current.q] # NoSession
                   THEN replaced \cup {newest} ELSE replaced
    /\ KeepLooper /\ KeepOthers
    /\ UNCHANGED <<queryOf, handlers, fetchedAt, fSink, unseen, entries, out>>

\* Mutant of DetachHandler: the looper's lock is not taken.
DetachHandlerUnlocked ==
    /\ reader = "detachOld"
    /\ handlers' = handlers \ {current.old}
    /\ reader' = AfterClose
    /\ KeepLooper /\ KeepOthers
    /\ UNCHANGED <<fQueries, queryOf, target, fetchedAt, replaced, fSink, current,
                   unseen, entries, out>>

\* RemoveHandler under the looper's lock, then the handler is freed.
DetachHandler ==
    /\ reader = "detachOld"
    /\ LooperUnlocked
    /\ handlers' = handlers \ {current.old}
    /\ reader' = AfterClose
    /\ KeepLooper /\ KeepOthers
    /\ UNCHANGED <<fQueries, queryOf, target, fetchedAt, replaced, fSink, current,
                   unseen, entries, out>>

StoreSession ==
    /\ reader = "store"
    /\ fQueries' = [fQueries EXCEPT ![current.q] = newest]
    /\ reader' = "reply"
    /\ KeepLooper /\ KeepOthers
    /\ UNCHANGED <<queryOf, target, handlers, fetchedAt, replaced, fSink, current,
                   unseen, entries, out>>

Reply ==
    /\ reader = "reply"
    /\ out' = Append(out, [type |-> "result", q |-> current.q, entries |-> entries])
    /\ reader' = "receive"
    /\ KeepSessions /\ KeepLooper /\ KeepOthers
    /\ UNCHANGED <<fSink, current, unseen, entries>>

ReceiveClose(q) ==
    /\ reader = "receive"
    /\ inbox # <<>> /\ Head(inbox) = [op |-> "close", q |-> q]
    /\ inbox' = Tail(inbox)
    /\ current' = [op |-> "close", q |-> q, live |-> FALSE, old |-> NoSession]
    /\ reader' = "closeOld"
    /\ KeepSessions /\ KeepLooper
    /\ UNCHANGED <<fSink, unseen, entries, out, kernelVars, asked>>

Acknowledge ==
    /\ reader = "acknowledge"
    /\ out' = Append(out, [type |-> "closed", q |-> current.q])
    /\ reader' = "receive"
    /\ KeepSessions /\ KeepLooper /\ KeepOthers
    /\ UNCHANGED <<fSink, current, unseen, entries>>

-----------------------------------------------------------------------------
\* The end of the connection: the sink is cleared (module Dispatch), then the
\* FileServer is destroyed, with CloseAllQuerySessions.

ConnectionEnds ==
    /\ reader = "receive"
    /\ fSink' = FALSE
    /\ fQueries' = [q \in QueryId |-> NoSession]
    /\ unseen' = {}
    /\ reader' = "destroyQueries"
    /\ KeepLooper /\ KeepOthers
    /\ UNCHANGED <<queryOf, target, handlers, fetchedAt, replaced, current, entries, out>>

DestroyQuery(s) ==
    /\ reader = "destroyQueries"
    /\ s \in target
    /\ target' = target \ {s}
    /\ KeepLooper /\ KeepOthers
    /\ UNCHANGED <<fQueries, queryOf, handlers, fetchedAt, replaced, fSink, reader,
                   current, unseen, entries, out>>

\* With the looper locked every handler is removed and freed; Quit unlocks it.
QuitLooper ==
    /\ reader = "destroyQueries"
    /\ target = {}
    /\ LooperUnlocked
    /\ handlers' = {}
    /\ reader' = "joinLooper"
    /\ KeepLooper /\ KeepOthers
    /\ UNCHANGED <<fQueries, queryOf, target, fetchedAt, replaced, fSink, current,
                   unseen, entries, out>>

\* Quit returns once the looper has gone through what was posted to it.
JoinLooper ==
    /\ reader = "joinLooper"
    /\ queue = <<>> /\ LooperUnlocked
    /\ reader' = "destroyed"
    /\ KeepSessions /\ KeepLooper /\ KeepOthers
    /\ UNCHANGED <<fSink, current, unseen, entries, out>>

Reader ==
    \/ \E q \in QueryId : ReceiveOpen(q) \/ ReceiveClose(q)
    \/ Refuse \/ AttachHandler \/ Fetch \/ FetchFails \/ Scanned
    \/ \E f \in File : Scan(f)
    \/ CloseQuery \/ DetachHandler \/ StoreSession \/ Reply \/ Acknowledge
    \/ \E s \in Session : DestroyQuery(s)
    \/ QuitLooper \/ JoinLooper

-----------------------------------------------------------------------------
\* The looper: QueryUpdateHandler::MessageReceived and PushQueryUpdate.

KeepReader == UNCHANGED <<fSink, reader, current, unseen, entries>>

TakeMessage ==
    /\ LooperUnlocked
    /\ queue # <<>>
    /\ queue' = Tail(queue)
    /\ running' = IF Head(queue).session \in handlers THEN Head(queue) ELSE NoMessage
    /\ KeepSessions /\ KeepReader /\ KeepOthers
    /\ UNCHANGED out

\* Mutant of PushQueryUpdate: a removed file is resolved like a created one and,
\* being gone, is not reported.
PushCreatedOnly ==
    /\ running # NoMessage
    /\ running' = NoMessage
    /\ out' = IF running.file \in Inside /\ fSink /\ running.added
              THEN Append(out, [type |-> "update", q |-> queryOf[running.session],
                                file |-> running.file, added |-> TRUE])
              ELSE out
    /\ KeepSessions /\ KeepReader /\ KeepOthers
    /\ UNCHANGED queue

\* Mutant of PushQueryUpdate: the early return for a file outside the shared root
\* leaves the looper locked.
PushKeepsLock ==
    /\ running # NoMessage
    /\ running.file \in Inside
    /\ running' = NoMessage
    /\ out' = IF fSink
              THEN Append(out, [type |-> "update", q |-> queryOf[running.session],
                                file |-> running.file, added |-> running.added])
              ELSE out
    /\ KeepSessions /\ KeepReader /\ KeepOthers
    /\ UNCHANGED queue

\* The entry is resolved, dropped when it is outside the shared root, and pushed
\* through the sink if there is one.
PushQueryUpdate ==
    /\ running # NoMessage
    /\ running' = NoMessage
    /\ out' = IF running.file \in Inside /\ fSink
              THEN Append(out, [type |-> "update", q |-> queryOf[running.session],
                                file |-> running.file, added |-> running.added])
              ELSE out
    /\ KeepSessions /\ KeepReader /\ KeepOthers
    /\ UNCHANGED queue

Looper == TakeMessage \/ PushQueryUpdate

Server == Reader \/ Looper \/ ConnectionEnds

-----------------------------------------------------------------------------
\* A peer that sends what it likes.

PeerSends(r) ==
    /\ asked < MaxRequests
    /\ asked' = asked + 1
    /\ inbox' = Append(inbox, r)
    /\ UNCHANGED <<serverVars, kernelVars>>

Destroyed == reader = "destroyed" /\ UNCHANGED vars

Next ==
    \/ Server
    \/ \E f \in File : Change(f)
    \/ \E r \in Request : PeerSends(r)
    \/ Destroyed

\* The reader and the looper are threads of the server and are scheduled.
ServerFairness == WF_vars(Reader) /\ WF_vars(Looper)

Spec == Init /\ [][Next]_vars /\ ServerFairness

-----------------------------------------------------------------------------
\* The looper never runs a handler that has been removed, and so freed
\* (CloseQuerySession, "blocks until the looper is not dispatching a message").
NoFreedHandlerRuns == running # NoMessage => running.session \in handlers

\* What the frames since a session went live say of the matching files: the
\* last update of a file decides, else the initial set.
LastUpdate(q, from, f) ==
    LET U == {i \in from + 1 .. Len(out) : out[i].type = "update" /\ out[i].q = q /\ out[i].file = f}
    IN  IF U = {} THEN 0 ELSE CHOOSE i \in U : \A j \in U : j <= i

InitialSet(q, from) ==
    LET R == {i \in from + 1 .. Len(out) : out[i].type = "result" /\ out[i].q = q}
    IN  out[CHOOSE i \in R : TRUE].entries

Reported(s) ==
    LET q == queryOf[s]
        last(f) == LastUpdate(q, fetchedAt[s], f)
    IN  {f \in File : IF last(f) = 0 THEN f \in InitialSet(q, fetchedAt[s]) ELSE out[last(f)].added}

\* A live session misses nothing and leaks nothing: when the looper has nothing
\* left, the frames of the session add up to the matching files under the shared
\* root, whatever changed while the initial set was collected (HandleQueryOpen
\* sets the target before it fetches).  A session that took over an open id is
\* left out: late updates of the old session are mixed with its own.
NothingIsMissed ==
    \A q \in QueryId :
        (reader = "receive" /\ queue = <<>> /\ LooperUnlocked
            /\ fQueries[q] # NoSession /\ fQueries[q] \notin replaced)
        => Reported(fQueries[q]) = matching \cap Inside

\* Every handler and live BQuery belongs to a stored session, or to the request
\* in progress: none is left behind, with a dangling FileServer, by a failed
\* Fetch, by a replaced id, by QUERY_CLOSE or by the destructor.
NothingLeaks ==
    (reader = "receive" => handlers = {fQueries[q] : q \in QueryId} \ {NoSession} /\ target = handlers)
    /\ (reader = "destroyed" => handlers \cup target = {} /\ queue = <<>> /\ LooperUnlocked)

\* The destructor ends: Quit does not wait for ever.
DestructorReturns == (reader = "destroyQueries") ~> (reader = "destroyed")

\* docs/PROTOCOL.md: "The server opens a live BQuery ... and each B_QUERY_UPDATE
\* is resolved ..., turned into a QUERY_UPDATE frame, and pushed".
AnsweredQueriesAreLive ==
    [][reader = "reply" /\ reader' = "receive" => fQueries[current.q] # NoSession]_vars
=============================================================================
