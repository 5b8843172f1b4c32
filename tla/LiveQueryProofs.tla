--------------------------- MODULE LiveQueryProofs --------------------------
(***************************************************************************)
(* Proofs for modules LiveQuery and LiveQueryClient, for any files, query  *)
(* ids and requests: the looper never runs a freed handler; no handler or  *)
(* live BQuery is left without a session that owns it; what a session is   *)
(* sent adds up to the matching files under the shared root; and the       *)
(* client's caller ends up with every change made after Open.              *)
(***************************************************************************)
EXTENDS LiveQueryClient, FiniteSetTheorems, SequenceTheorems, TLAPS

Stored == {fQueries[q] : q \in QueryId} \ {NoSession}

\* The session of the QUERY_OPEN in progress, when it is live.
Fresh == IF current.op = "open" /\ current.live THEN {newest} ELSE {}

\* The sessions in the map are distinct and were created earlier.
SessionsDistinct ==
    /\ newest \in Nat
    /\ fQueries \in [QueryId -> Nat]
    /\ \A q \in QueryId : fQueries[q] <= newest
    /\ \A q, r \in QueryId : fQueries[q] = fQueries[r] /\ q # r => fQueries[q] = NoSession
    /\ current.q \in QueryId
    /\ reader \in ReaderPC

\* Who owns the handlers and the live queries at each point of the reader.
Owned ==
    /\ reader \in {"receive", "acknowledge", "reply"} => handlers = Stored /\ target = Stored
    /\ reader \in {"target", "fetch", "scan", "store"} =>
         current.op = "open" /\ newest > 0 /\ newest \notin Stored
    /\ reader = "target" => current.live /\ handlers = Stored /\ target = Stored
    /\ reader = "fetch" => handlers = Stored \cup Fresh /\ target = Stored
    /\ reader = "scan" => handlers = Stored \cup Fresh /\ target = Stored \cup Fresh
    /\ reader = "closeOld" =>
         /\ handlers = Stored \cup Fresh /\ target = Stored \cup Fresh
         /\ current.op = "open" => current.live /\ newest > 0 /\ newest \notin Stored
    /\ reader = "detachOld" =>
         /\ handlers = Stored \cup Fresh \cup {current.old} /\ target = Stored \cup Fresh
         /\ current.old \notin Stored \cup Fresh
         /\ fQueries[current.q] = NoSession
         /\ current.op = "open" => current.live /\ newest > 0 /\ newest \notin Stored
    /\ reader = "store" =>
         /\ current.live /\ handlers = Stored \cup Fresh /\ target = Stored \cup Fresh
         /\ fQueries[current.q] = NoSession
    /\ reader \in {"joinLooper", "destroyed"} => handlers = {} /\ target = {}
    /\ reader = "destroyed" => queue = <<>> /\ LooperUnlocked

\* current has the fields the handlers use.
CurrentShape ==
    current = [op |-> current.op, q |-> current.q, live |-> current.live, old |-> current.old]

LiveInv ==
    /\ SessionsDistinct /\ Owned /\ CurrentShape
    /\ queryOf \in Seq(QueryId)
    /\ current.op \in {"open", "close"}
    /\ NoFreedHandlerRuns

-----------------------------------------------------------------------------
\* A change is posted to nobody when no query is live.
LEMMA NoTargetNoMessage ==
    ASSUME NEW f, NEW added, queue = <<>>
    PROVE  queue \o MessagesFor(f, added, {}) = <<>>
  <1>1. Cardinality({}) = 0
      BY FS_EmptySet
  <1>2. MessagesFor(f, added, {}) = <<>>
      BY <1>1 DEF MessagesFor
  <1> QED
      BY <1>2

LEMMA LiveInvInit == Init => LiveInv
  <1> SUFFICES ASSUME Init PROVE LiveInv
      OBVIOUS
  <1>1. newest = 0
      BY DEF Init, newest
  <1>2. Stored = {}
      BY DEF Init, Stored
  <1> QED
      BY <1>1, <1>2 DEF Init, LiveInv, SessionsDistinct, Owned, CurrentShape, NoFreedHandlerRuns,
                        NoSession, ReaderPC, LooperUnlocked, Fresh

\* Every step of the reader, the looper, the kernel and the peer keeps the
\* invariant.
LEMMA LiveInvStep == LiveInv /\ [Next]_vars => LiveInv'
  <1> SUFFICES ASSUME LiveInv, [Next]_vars PROVE LiveInv'
      OBVIOUS
  <1> USE DEF LiveInv, SessionsDistinct, Owned, CurrentShape, NoFreedHandlerRuns,
              NoSession, ReaderPC, LooperUnlocked, Fresh, Stored, newest,
              KeepSessions, KeepLooper, KeepOthers, KeepReader, kernelVars, peerVars
  <1>1. ASSUME NEW f \in File, Change(f) PROVE LiveInv'
    <2>1. target = {} /\ queue = <<>> => queue' = <<>>
        BY <1>1, NoTargetNoMessage DEF Change
    <2>2. UNCHANGED <<fQueries, queryOf, target, handlers, running, reader, current>>
        BY <1>1 DEF Change
    <2> QED
        BY <2>1, <2>2
  <1>2. ASSUME NEW q \in QueryId, ReceiveOpen(q) PROVE LiveInv'
      BY <1>2 DEF ReceiveOpen
  <1>3. CASE Refuse
      BY <1>3 DEF Refuse
  <1>4. CASE AttachHandler
      BY <1>4 DEF AttachHandler
  <1>5. CASE Fetch
      BY <1>5 DEF Fetch
  <1>6. CASE FetchFails
      BY <1>6 DEF FetchFails
  <1>7. ASSUME NEW f \in File, Scan(f) PROVE LiveInv'
      BY <1>7 DEF Scan
  <1>8. CASE Scanned
      BY <1>8 DEF Scanned
  <1>9. CASE CloseQuery
      BY <1>9 DEF CloseQuery, AfterClose
  <1>10. CASE DetachHandler
      BY <1>10 DEF DetachHandler, AfterClose
  <1>11. CASE StoreSession
      BY <1>11 DEF StoreSession
  <1>12. CASE Reply
      BY <1>12 DEF Reply
  <1>13. ASSUME NEW q \in QueryId, ReceiveClose(q) PROVE LiveInv'
      BY <1>13 DEF ReceiveClose
  <1>14. CASE Acknowledge
      BY <1>14 DEF Acknowledge
  <1>15. CASE ConnectionEnds
      BY <1>15 DEF ConnectionEnds
  <1>16. ASSUME NEW s \in Session, DestroyQuery(s) PROVE LiveInv'
      BY <1>16 DEF DestroyQuery
  <1>17. CASE QuitLooper
      BY <1>17 DEF QuitLooper
  <1>18. CASE JoinLooper
      BY <1>18 DEF JoinLooper
  <1>19. CASE TakeMessage
      BY <1>19 DEF TakeMessage
  <1>20. CASE PushQueryUpdate
      BY <1>20 DEF PushQueryUpdate
  <1>21. ASSUME NEW r \in Request, PeerSends(r) PROVE LiveInv'
      BY <1>21 DEF PeerSends, serverVars
  <1>22. CASE UNCHANGED vars
      BY <1>22 DEF vars, serverVars
  <1> QED
      BY <1>1, <1>2, <1>3, <1>4, <1>5, <1>6, <1>7, <1>8, <1>9, <1>10, <1>11, <1>12,
         <1>13, <1>14, <1>15, <1>16, <1>17, <1>18, <1>19, <1>20, <1>21, <1>22
      DEF Next, Server, Reader, Looper, Destroyed

-----------------------------------------------------------------------------
\* The looper never runs a handler that CloseQuerySession, a failed Fetch or
\* the destructor has freed.
THEOREM HandlersOutliveMessages == Spec => []NoFreedHandlerRuns
  <1>1. LiveInv => NoFreedHandlerRuns
      BY DEF LiveInv
  <1> QED
      BY <1>1, LiveInvInit, LiveInvStep, PTL DEF Spec

\* Between requests every handler and live BQuery belongs to a session of
\* fQueries, and the destructor leaves none.
THEOREM SessionsOwnEverything == Spec => []NothingLeaks
  <1>1. LiveInv => NothingLeaks
      BY DEF LiveInv, Owned, NothingLeaks, Stored
  <1> QED
      BY <1>1, LiveInvInit, LiveInvStep, PTL DEF Spec
-----------------------------------------------------------------------------
\* Types, and what the kernel posts.

LEMMA FunctionIsSeq ==
    ASSUME NEW n \in Nat, NEW X, NEW g \in [1 .. n -> X]
    PROVE  g \in Seq(X) /\ Len(g) = n
  OBVIOUS

\* A change is posted once to every live query, whatever their number.
LEMMA EachIsTold ==
    ASSUME NEW f, NEW added, NEW S \in SUBSET Nat, IsFiniteSet(S)
    PROVE  /\ MessagesFor(f, added, S) \in Seq([session : S, file : {f}, added : {added}])
           /\ \A s \in S : \E i \in 1 .. Len(MessagesFor(f, added, S)) :
                MessagesFor(f, added, S)[i].session = s
           /\ \A i, j \in 1 .. Len(MessagesFor(f, added, S)) :
                MessagesFor(f, added, S)[i].session = MessagesFor(f, added, S)[j].session => i = j
  <1> DEFINE n == Cardinality(S)
             Below(s) == {r \in S : r < s}
             count == [s \in S |-> Cardinality(Below(s))]
             Nth(i) == CHOOSE s \in S : Cardinality(Below(s)) = i - 1
             M == [i \in 1 .. n |-> [session |-> Nth(i), file |-> f, added |-> added]]
  <1>1. MessagesFor(f, added, S) = M
      BY DEF MessagesFor
  <1>2. n \in Nat
      BY FS_CardinalityType
  <1>3. ASSUME NEW s \in S
        PROVE  /\ IsFiniteSet(Below(s)) /\ Cardinality(Below(s)) \in Nat
               /\ Cardinality(Below(s)) < n
    <2>1. Below(s) \in SUBSET S /\ s \notin Below(s)
        OBVIOUS
    <2>2. IsFiniteSet(Below(s)) /\ Cardinality(Below(s)) <= n /\ (n = Cardinality(Below(s)) => S = Below(s))
        BY <2>1, FS_Subset
    <2>3. Cardinality(Below(s)) \in Nat
        BY <2>2, FS_CardinalityType
    <2> QED
        BY <1>2, <2>1, <2>2, <2>3
  <1>4. ASSUME NEW s \in S, NEW t \in S, s < t
        PROVE  Cardinality(Below(s)) < Cardinality(Below(t))
    <2>0. s \in Nat /\ t \in Nat /\ \A r \in S : r \in Nat
        OBVIOUS
    <2>1. Below(s) \in SUBSET Below(t) /\ s \in Below(t) /\ s \notin Below(s)
      <3>1. \A r \in S : r < s => r < t
          BY <1>4, <2>0
      <3>2. ~(s < s)
          BY <2>0
      <3> QED
          BY <1>4, <3>1, <3>2, Zenon
    <2>2. /\ Cardinality(Below(s)) <= Cardinality(Below(t))
          /\ Cardinality(Below(t)) = Cardinality(Below(s)) => Below(t) = Below(s)
        BY <1>3, <2>1, FS_Subset
    <2> QED
        BY <1>3, <2>1, <2>2
  <1>5. ASSUME NEW s \in S, NEW t \in S, Cardinality(Below(s)) = Cardinality(Below(t))
        PROVE  s = t
    <2>1. s \in Nat /\ t \in Nat
        OBVIOUS
    <2>2. ~(s < t) /\ ~(t < s)
        BY <1>3, <1>4, <1>5
    <2> QED
        BY <2>1, <2>2
  <1>6. count \in Injection(S, 0 .. n - 1)
    <2>1. \A s \in S : count[s] \in 0 .. n - 1
        BY <1>2, <1>3
    <2>2. count \in [S -> 0 .. n - 1]
        BY <2>1
    <2>3. \A s, t \in S : count[s] = count[t] => s = t
        BY <1>5
    <2> QED
        BY <2>2, <2>3 DEF Injection, IsInjective
  <1>7. IsFiniteSet(0 .. n - 1) /\ Cardinality(0 .. n - 1) = n
    <2>1. 0 \in Int /\ n - 1 \in Int
        BY <1>2
    <2>2. /\ IsFiniteSet(0 .. n - 1)
          /\ Cardinality(0 .. n - 1) = IF 0 > n - 1 THEN 0 ELSE n - 1 - 0 + 1
        BY <2>1, FS_Interval
    <2> QED
        BY <1>2, <2>2
  <1>8. count \in Surjection(S, 0 .. n - 1)
      BY <1>6, <1>7, FS_Injection
  <1>9. ASSUME NEW i \in 1 .. n PROVE Nth(i) \in S /\ Cardinality(Below(Nth(i))) = i - 1
    <2>1. i - 1 \in 0 .. n - 1
        BY <1>2
    <2>2. \E s \in S : count[s] = i - 1
        BY <1>8, <2>1 DEF Surjection
    <2> QED
        BY <2>2
  <1>10. M \in Seq([session : S, file : {f}, added : {added}]) /\ Len(M) = n
    <2>1. \A i \in 1 .. n : M[i] \in [session : S, file : {f}, added : {added}]
        BY <1>9
    <2>2. M \in [1 .. n -> [session : S, file : {f}, added : {added}]]
        BY <2>1
    <2> DEFINE X == [session : S, file : {f}, added : {added}]
    <2> HIDE DEF M, n, X
    <2>3. n \in Nat /\ M \in [1 .. n -> X]
        BY <1>2, <2>2 DEF X
    <2>4. M \in Seq(X) /\ Len(M) = n
        BY <2>3, FunctionIsSeq
    <2> QED
        BY <2>4 DEF X
  <1>11. ASSUME NEW s \in S PROVE \E i \in 1 .. n : M[i].session = s
    <2> DEFINE i == Cardinality(Below(s)) + 1
    <2>1. i \in 1 .. n /\ Cardinality(Below(s)) = i - 1
        BY <1>2, <1>3
    <2>2. Nth(i) = s
        BY <1>5, <1>9, <2>1
    <2> QED
        BY <2>1, <2>2
  <1>12. ASSUME NEW i \in 1 .. n, NEW j \in 1 .. n, M[i].session = M[j].session
         PROVE  i = j
    <2>1. Nth(i) = Nth(j)
        BY <1>12
    <2>2. i - 1 = j - 1
        BY <1>9, <2>1
    <2> QED
        BY <1>2, <2>2
  <1> QED
      BY <1>1, <1>10, <1>11, <1>12

\* A message is for a session that has gone live, and so for an earlier one
\* while the newest is still being set up.
Messages ==
    /\ \A i \in 1 .. Len(queue) : queue[i].session \in 1 .. newest
    /\ running.session \in 0 .. newest
    /\ target \subseteq 1 .. newest
    /\ reader \in {"target", "fetch"} =>
         /\ \A i \in 1 .. Len(queue) : queue[i].session # newest
         /\ running.session # newest

LEMMA TypesInit == Init => TypeOK
  <1> SUFFICES ASSUME Init PROVE TypeOK
      OBVIOUS
  <1>1. 0 \in 0 .. MaxChanges /\ 0 \in 0 .. MaxRequests /\ 0 <= MaxOpens
      BY LiveQueryAssumption
  <1>2. Len(<<>>) = 0
      OBVIOUS
  <1> QED
      BY <1>1, <1>2, LiveQueryAssumption DEF Init, TypeOK, ReaderPC, NoSession

LEMMA TypesStep ==
    ASSUME TypeOK, LiveInv, Messages, [Next]_vars
    PROVE  TypeOK'
  <1> DEFINE Out == Update \cup Result \cup Ack
  <1>0. /\ newest \in Nat /\ newest <= MaxOpens /\ MaxOpens \in Nat /\ MaxChanges \in Nat /\ MaxRequests \in Nat
        /\ current.q \in QueryId /\ current.live \in BOOLEAN /\ current.old \in Session \cup {NoSession}
        /\ reader \in {"target", "fetch", "scan", "store"} => newest > 0
        /\ fQueries \in [QueryId -> Session \cup {NoSession}]
      BY LenProperties, LiveQueryAssumption DEF TypeOK, newest, LiveInv, Owned
  <1> USE DEF TypeOK, ReaderPC, KeepSessions, KeepLooper, KeepOthers, KeepReader,
              kernelVars, peerVars
  <1>1. ASSUME NEW f \in File, Change(f) PROVE TypeOK'
    <2>1. changes + 1 \in 0 .. MaxChanges
        BY <1>0, <1>1 DEF Change
    <2>2. target \in SUBSET Nat /\ IsFiniteSet(target)
      <3>1. IsFiniteSet(Session)
          BY <1>0, FS_Interval DEF Session
      <3>2. IsFiniteSet(target)
          BY <3>1, FS_Subset
      <3> QED
          BY <1>0, <3>2 DEF Session
    <2> DEFINE M == MessagesFor(f, f \notin matching, target)
    <2>3. M \in Seq([session : target, file : {f}, added : {f \notin matching}])
        BY <2>2, EachIsTold
    <2>4. M \in Seq(Message)
      <3>1. [session : target, file : {f}, added : {f \notin matching}] \subseteq Message
          BY DEF Message
      <3> HIDE DEF M
      <3> QED
          BY <2>3, <3>1, SeqMonotonic
    <2> HIDE DEF M
    <2>5. queue \o M \in Seq(Message)
        BY <2>4, ConcatProperties
    <2> QED
        BY <1>1, <2>1, <2>5 DEF Change, M
  <1>2. ASSUME NEW q \in QueryId, ReceiveOpen(q) PROVE TypeOK'
    <2>1. Append(queryOf, q) \in Seq(QueryId) /\ Len(Append(queryOf, q)) <= MaxOpens
        BY <1>0, <1>2, AppendProperties DEF ReceiveOpen, newest
    <2>2. Tail(inbox) \in Seq(Request)
        BY <1>2, HeadTailProperties DEF ReceiveOpen
    <2> QED
        BY <1>2, <2>1, <2>2 DEF ReceiveOpen, NoSession
  <1>3. CASE Refuse
    <2>1. Head(inbox) \in Request /\ Tail(inbox) \in Seq(Request)
        BY <1>3, HeadTailProperties DEF Refuse
    <2>2. [type |-> "error", q |-> Head(inbox).q] \in Out
        BY <2>1 DEF Request, Ack
    <2>3. out' \in Seq(Out)
        BY <1>3, <2>2, AppendProperties DEF Refuse
    <2> QED
        BY <1>3, <2>1, <2>3 DEF Refuse
  <1>4. CASE AttachHandler
      BY <1>0, <1>4 DEF AttachHandler, Session
  <1>5. CASE Fetch
    <2>1. newest \in Session /\ Len(out) \in Nat
        BY <1>0, <1>5, LenProperties DEF Fetch, Session
    <2> QED
        BY <1>5, <2>1 DEF Fetch
  <1>6. CASE FetchFails
    <2>2. [type |-> "error", q |-> current.q] \in Out
        BY <1>0 DEF Ack
    <2>3. out' \in Seq(Out)
        BY <1>6, <2>2, AppendProperties DEF FetchFails
    <2> QED
        BY <1>6, <2>3 DEF FetchFails
  <1>7. ASSUME NEW f \in File, Scan(f) PROVE TypeOK'
      BY <1>7 DEF Scan
  <1>8. CASE Scanned
      BY <1>8 DEF Scanned
  <1>9. CASE CloseQuery
    <2>1. newest \in Session \/ current.op # "open"
        BY <1>0, <1>9 DEF CloseQuery, LiveInv, Owned, Session
    <2>2. fQueries[current.q] \in Session \cup {NoSession}
        BY <1>0
    <2> QED
        BY <1>9, <2>1, <2>2 DEF CloseQuery, AfterClose
  <1>10. CASE DetachHandler
      BY <1>10 DEF DetachHandler, AfterClose
  <1>11. CASE StoreSession
    <2>1. newest \in Session
        BY <1>0, <1>11 DEF StoreSession, Session
    <2> QED
        BY <1>11, <2>1 DEF StoreSession
  <1>12. CASE Reply
    <2>2. [type |-> "result", q |-> current.q, entries |-> entries] \in Out
        BY <1>0 DEF Result
    <2>3. out' \in Seq(Out)
        BY <1>12, <2>2, AppendProperties DEF Reply
    <2> QED
        BY <1>12, <2>3 DEF Reply
  <1>13. ASSUME NEW q \in QueryId, ReceiveClose(q) PROVE TypeOK'
    <2>2. Tail(inbox) \in Seq(Request)
        BY <1>13, HeadTailProperties DEF ReceiveClose
    <2> QED
        BY <1>13, <2>2 DEF ReceiveClose
  <1>14. CASE Acknowledge
    <2>2. [type |-> "closed", q |-> current.q] \in Out
        BY <1>0 DEF Ack
    <2>3. out' \in Seq(Out)
        BY <1>14, <2>2, AppendProperties DEF Acknowledge
    <2> QED
        BY <1>14, <2>3 DEF Acknowledge
  <1>15. CASE ConnectionEnds
      BY <1>15 DEF ConnectionEnds
  <1>16. ASSUME NEW s \in Session, DestroyQuery(s) PROVE TypeOK'
      BY <1>16 DEF DestroyQuery
  <1>17. CASE QuitLooper
      BY <1>17 DEF QuitLooper
  <1>18. CASE JoinLooper
      BY <1>18 DEF JoinLooper
  <1>19. CASE TakeMessage
    <2>1. Head(queue) \in Message /\ Tail(queue) \in Seq(Message)
        BY <1>19, HeadTailProperties DEF TakeMessage
    <2> QED
        BY <1>19, <2>1 DEF TakeMessage
  <1>20. CASE PushQueryUpdate
    <2>1. running \in Message
        BY <1>20 DEF PushQueryUpdate
    <2>2. queryOf[running.session] \in QueryId
      <3>1. running.session \in 1 .. Len(queryOf)
          BY <2>1 DEF Messages, Message, Session, newest
      <3> QED
          BY <3>1
    <2>3. [type |-> "update", q |-> queryOf[running.session], file |-> running.file,
           added |-> running.added] \in Out
        BY <2>1, <2>2 DEF Update, Message
    <2>4. out' \in Seq(Out)
        BY <1>20, <2>3, AppendProperties DEF PushQueryUpdate
    <2> QED
        BY <1>20, <2>4 DEF PushQueryUpdate
  <1>21. ASSUME NEW r \in Request, PeerSends(r) PROVE TypeOK'
    <2>1. Append(inbox, r) \in Seq(Request) /\ asked + 1 \in 0 .. MaxRequests
        BY <1>0, <1>21, AppendProperties DEF PeerSends
    <2> QED
        BY <1>21, <2>1 DEF PeerSends, serverVars
  <1>22. CASE UNCHANGED vars
      BY <1>22 DEF vars, serverVars
  <1> QED
      BY <1>1, <1>2, <1>3, <1>4, <1>5, <1>6, <1>7, <1>8, <1>9, <1>10, <1>11, <1>12,
         <1>13, <1>14, <1>15, <1>16, <1>17, <1>18, <1>19, <1>20, <1>21, <1>22
      DEF Next, Server, Reader, Looper, Destroyed

-----------------------------------------------------------------------------
\* The ids of the sessions, the messages on their way, and the shared root.

\* A QUERY_OPEN past Fetch and not yet answered.
Opening == current.op = "open" /\ reader \in {"scan", "closeOld", "detachOld", "store", "reply"}

SessionIds ==
    /\ \A q \in QueryId : fQueries[q] # NoSession => fSink /\ queryOf[fQueries[q]] = q
    /\ reader \in {"target", "fetch"} \/ Opening =>
         /\ current.op = "open" /\ newest > 0
         /\ queryOf[newest] = current.q /\ current.live = fSink
    /\ reader = "detachOld" =>
         /\ current.old \in 1 .. newest /\ queryOf[current.old] = current.q
         /\ current.op = "open" => newest \in replaced
    /\ reader = "reply" =>
         /\ current.op = "open"
         /\ fQueries[current.q] = IF current.live THEN newest ELSE NoSession
    /\ Opening /\ reader # "scan" => unseen = {}
    /\ reader = "scan" => entries \cap unseen = {}
    /\ reader \in {"destroyQueries", "joinLooper", "destroyed"} =>
         \A q \in QueryId : fQueries[q] = NoSession

\* Nothing outside the shared root is ever reported.
RootKept ==
    /\ entries \subseteq Inside
    /\ \A i \in 1 .. Len(out) :
         /\ out[i].type = "update" => out[i].file \in Inside
         /\ out[i].type = "result" => out[i].entries \subseteq Inside

QueryInv == TypeOK /\ LiveInv /\ SessionIds /\ Messages /\ RootKept

\* What the facts about the reader use of LiveInv.
LEMMA ReaderFacts ==
    ASSUME TypeOK, LiveInv
    PROVE  /\ newest \in Nat /\ queryOf \in Seq(QueryId) /\ newest = Len(queryOf)
           /\ current.q \in QueryId /\ current.op \in {"open", "close"} /\ current.live \in BOOLEAN
           /\ current = [op |-> current.op, q |-> current.q, live |-> current.live, old |-> current.old]
           /\ fQueries \in [QueryId -> Nat]
           /\ \A q \in QueryId : fQueries[q] <= newest
           /\ reader \in {"target", "fetch", "scan", "store"} => current.op = "open" /\ newest > 0
           /\ reader = "store" => current.live /\ fQueries[current.q] = NoSession
           /\ reader = "target" => current.live
  BY DEF TypeOK, LiveInv, SessionsDistinct, CurrentShape, Owned, newest

LEMMA IdsStep ==
    ASSUME TypeOK, LiveInv, SessionIds, [Next]_vars
    PROVE  SessionIds'
  <1> DEFINE Same == UNCHANGED <<fQueries, queryOf, reader, current, fSink, replaced, unseen, entries>>
  <1>1. CASE Same
      BY <1>1 DEF SessionIds, Opening, newest
  <1>2. ASSUME NEW q \in QueryId, ReceiveOpen(q) PROVE SessionIds'
    <2>1. /\ queryOf' = Append(queryOf, q) /\ newest' = newest + 1
          /\ current' = [op |-> "open", q |-> q, live |-> fSink, old |-> NoSession]
          /\ reader' \in {"target", "fetch"} /\ UNCHANGED <<fQueries, fSink>>
        BY <1>2, ReaderFacts, AppendProperties DEF ReceiveOpen, newest
    <2>2. queryOf'[newest + 1] = q /\ \A s \in 1 .. newest : queryOf'[s] = queryOf[s]
        BY <2>1, ReaderFacts, AppendProperties
    <2>3. \A r \in QueryId : fQueries[r] # NoSession => fQueries[r] \in 1 .. newest
        BY ReaderFacts DEF NoSession
    <2> QED
        BY <2>1, <2>2, <2>3, ReaderFacts DEF SessionIds, Opening
  <1>3. CASE AttachHandler \/ Fetch
      BY <1>3, ReaderFacts DEF AttachHandler, Fetch, SessionIds, Opening, newest
  <1>4. CASE FetchFails
      BY <1>4, ReaderFacts DEF FetchFails, SessionIds, Opening, newest
  <1>5. ASSUME NEW f \in File, Scan(f) PROVE SessionIds'
      BY <1>5 DEF Scan, SessionIds, Opening, newest, KeepSessions
  <1>6. CASE Scanned
    <2>1. /\ UNCHANGED <<fQueries, queryOf, current, fSink, replaced, unseen>> /\ newest' = newest
          /\ reader = "scan" /\ unseen = {} /\ Opening /\ current.op = "open"
          /\ reader' = IF current.live THEN "closeOld" ELSE "reply"
        BY <1>6, ReaderFacts DEF Scanned, Opening, newest, KeepSessions
    <2>2. ~current.live => fQueries[current.q] = NoSession
        BY <2>1, ReaderFacts DEF SessionIds
    <2> QED
        BY <2>1, <2>2 DEF SessionIds, Opening
  <1>7. CASE CloseQuery
    <2>1. /\ reader = "closeOld" /\ UNCHANGED <<queryOf, fSink, unseen>> /\ newest' = newest
          /\ fQueries' = [fQueries EXCEPT ![current.q] = NoSession]
          /\ current' = [current EXCEPT !.old = fQueries[current.q]]
          /\ reader' = IF fQueries[current.q] = NoSession THEN AfterClose ELSE "detachOld"
          /\ replaced' = IF current.op = "open" /\ fQueries[current.q] # NoSession
                         THEN replaced \cup {newest} ELSE replaced
        BY <1>7 DEF CloseQuery, newest
    <2>2. /\ current'.op = current.op /\ current'.q = current.q /\ current'.live = current.live
          /\ current'.old = fQueries[current.q]
        BY <2>1, ReaderFacts
    <2>3. fQueries[current.q] # NoSession => fQueries[current.q] \in 1 .. newest
        BY ReaderFacts DEF NoSession
    <2>4. \A r \in QueryId : fQueries'[r] # NoSession => fQueries'[r] = fQueries[r]
        BY <2>1, ReaderFacts
    <2> QED
        BY <2>1, <2>2, <2>3, <2>4, ReaderFacts DEF SessionIds, Opening, AfterClose
  <1>8. CASE DetachHandler
      BY <1>8, ReaderFacts DEF DetachHandler, AfterClose, SessionIds, Opening, newest
  <1>9. CASE StoreSession
    <2>1. /\ reader = "store" /\ reader' = "reply" /\ newest' = newest
          /\ fQueries' = [fQueries EXCEPT ![current.q] = newest]
          /\ UNCHANGED <<queryOf, current, fSink, unseen>>
        BY <1>9 DEF StoreSession, newest
    <2>2. /\ fQueries'[current.q] = newest
          /\ \A r \in QueryId : fQueries'[r] = fQueries[r] \/ (r = current.q /\ fQueries'[r] = newest)
        BY <2>1, ReaderFacts
    <2>3. Opening /\ fSink = TRUE /\ queryOf[newest] = current.q /\ current.live
        BY <2>1, ReaderFacts DEF SessionIds, Opening
    <2> QED
        BY <2>1, <2>2, <2>3, ReaderFacts DEF SessionIds, Opening
  <1>10. CASE Reply \/ Acknowledge
      BY <1>10 DEF Reply, Acknowledge, SessionIds, Opening, newest, KeepSessions
  <1>11. ASSUME NEW q \in QueryId, ReceiveClose(q) PROVE SessionIds'
      BY <1>11 DEF ReceiveClose, SessionIds, Opening, newest, KeepSessions
  <1>12. CASE ConnectionEnds
      BY <1>12 DEF ConnectionEnds, SessionIds, Opening, newest, NoSession
  <1>13. CASE QuitLooper \/ JoinLooper
      BY <1>13 DEF QuitLooper, JoinLooper, SessionIds, Opening, newest, KeepSessions
  <1>14. CASE Looper \/ Refuse \/ (\E s \in Session : DestroyQuery(s)) \/ (\E f \in File : Change(f))
              \/ (\E r \in Request : PeerSends(r)) \/ Destroyed \/ UNCHANGED vars
    <2>1. Same
        BY <1>14 DEF Looper, TakeMessage, PushQueryUpdate, Refuse, DestroyQuery, Change, PeerSends,
                     Destroyed, KeepSessions, KeepReader, serverVars, vars
    <2> QED
        BY <1>1, <2>1
  <1> QED
      BY <1>2, <1>3, <1>4, <1>5, <1>6, <1>7, <1>8, <1>9, <1>10, <1>11, <1>12, <1>13, <1>14
      DEF Next, Server, Reader

LEMMA MessagesStep ==
    ASSUME TypeOK, LiveInv, Messages, [Next]_vars
    PROVE  Messages'
  <1> DEFINE Same == UNCHANGED <<queue, running, newest>>
             Early == reader' \in {"target", "fetch"} => reader \in {"target", "fetch"}
  <1>0. newest \in Nat /\ queue \in Seq(Message) /\ Len(queue) \in Nat
      BY ReaderFacts, LenProperties DEF TypeOK
  <1>1. CASE Same /\ Early /\ target' \subseteq 1 .. newest
      BY <1>1 DEF Messages
  <1>2. ASSUME NEW f \in File, Change(f) PROVE Messages'
    <2> DEFINE M == MessagesFor(f, f \notin matching, target)
    <2>1. queue' = queue \o M /\ UNCHANGED <<running, reader, target, newest>>
        BY <1>2 DEF Change, KeepSessions, newest
    <2>2. target \in SUBSET Nat /\ IsFiniteSet(target)
      <3>1. IsFiniteSet(1 .. newest)
          BY <1>0, FS_Interval
      <3>2. IsFiniteSet(target)
          BY <3>1, FS_Subset DEF Messages
      <3> QED
          BY <1>0, <3>2 DEF Messages
    <2> DEFINE X == [session : target, file : {f}, added : {f \notin matching}]
    <2>3. M \in Seq(X)
        BY <2>2, EachIsTold
    <2>4. \A i \in 1 .. Len(M) : M[i].session \in target
      <3> HIDE DEF M
      <3>1. \A i \in 1 .. Len(M) : M[i] \in X
        <4> HIDE DEF X
        <4> QED
            BY <2>3, ElementOfSeq
      <3> QED
          BY <3>1
    <2>5. M \in Seq(Message)
      <3>1. X \subseteq Message
          BY DEF Message, TypeOK
      <3> HIDE DEF M, X
      <3> QED
          BY <2>3, <3>1, SeqMonotonic
    <2> HIDE DEF M
    <2>6. \A i \in 1 .. Len(queue') : (queue'[i] = queue[i] /\ i \in 1 .. Len(queue))
                                      \/ \E j \in 1 .. Len(M) : queue'[i] = M[j]
      <3>1. Len(M) \in Nat /\ Len(queue') = Len(queue) + Len(M)
          BY <1>0, <2>1, <2>5, ConcatProperties, LenProperties
      <3>2. \A i \in 1 .. Len(queue) + Len(M) :
              queue'[i] = IF i <= Len(queue) THEN queue[i] ELSE M[i - Len(queue)]
          BY <1>0, <2>1, <2>5, ConcatProperties
      <3>3. \A i \in 1 .. Len(queue) + Len(M) : i > Len(queue) => i - Len(queue) \in 1 .. Len(M)
          BY <1>0, <3>1
      <3> QED
          BY <1>0, <3>1, <3>2, <3>3
    <2>7. reader \in {"target", "fetch"} => newest \notin target
        BY DEF LiveInv, Owned
    <2> QED
        BY <2>1, <2>4, <2>6, <2>7 DEF Messages
  <1>3. ASSUME NEW q \in QueryId, ReceiveOpen(q) PROVE Messages'
    <2>1. newest' = newest + 1 /\ UNCHANGED <<queue, running, target>>
        BY <1>3, ReaderFacts, AppendProperties DEF ReceiveOpen, newest, KeepLooper
    <2> QED
        BY <1>0, <2>1 DEF Messages
  <1>4. CASE Fetch
      BY <1>0, <1>1, <1>4, ReaderFacts DEF Fetch, Messages, newest, KeepLooper
  <1>5. CASE TakeMessage
    <2>1. /\ queue # <<>> /\ queue' = Tail(queue) /\ UNCHANGED <<reader, target, newest>>
          /\ running' = Head(queue) \/ running' = NoMessage
        BY <1>5 DEF TakeMessage, KeepReader, KeepSessions, newest
    <2>2. /\ Len(queue') = Len(queue) - 1 /\ Len(queue) > 0
          /\ \A i \in 1 .. Len(queue') : queue'[i] = queue[i + 1] /\ i + 1 \in 1 .. Len(queue)
        BY <1>0, <2>1, HeadTailProperties, EmptySeq
    <2>3. Head(queue) = queue[1] /\ 1 \in 1 .. Len(queue)
        BY <1>0, <2>1, <2>2
    <2>4. running'.session \in 0 .. newest /\ (reader \in {"target", "fetch"} => running'.session # newest)
        BY <1>0, <2>1, <2>3, ReaderFacts DEF Messages, NoMessage, NoSession
    <2> QED
        BY <2>1, <2>2, <2>4 DEF Messages
  <1>6. CASE PushQueryUpdate
      BY <1>0, <1>6, ReaderFacts
      DEF PushQueryUpdate, Messages, NoMessage, NoSession, KeepReader, KeepSessions, newest
  <1>7. CASE \/ Refuse \/ AttachHandler \/ FetchFails \/ Scanned \/ (\E f \in File : Scan(f))
             \/ CloseQuery \/ DetachHandler \/ StoreSession \/ Reply \/ Acknowledge
             \/ (\E q \in QueryId : ReceiveClose(q)) \/ (\E s \in Session : DestroyQuery(s))
             \/ QuitLooper \/ JoinLooper \/ ConnectionEnds
             \/ (\E r \in Request : PeerSends(r)) \/ Destroyed \/ UNCHANGED vars
    <2>1. Same
        BY <1>7 DEF Refuse, AttachHandler, FetchFails, Scanned, Scan, CloseQuery, DetachHandler,
            StoreSession, Reply, Acknowledge, ReceiveClose, DestroyQuery, QuitLooper, JoinLooper,
            ConnectionEnds, PeerSends, Destroyed, KeepSessions, KeepLooper, serverVars, vars, newest
    <2>2. Early
        BY <1>7 DEF Refuse, AttachHandler, FetchFails, Scanned, Scan, CloseQuery, DetachHandler,
            StoreSession, Reply, Acknowledge, ReceiveClose, DestroyQuery, QuitLooper, JoinLooper,
            ConnectionEnds, PeerSends, Destroyed, AfterClose, serverVars, vars
    <2>3. target' \subseteq target
        BY <1>7 DEF Refuse, AttachHandler, FetchFails, Scanned, Scan, CloseQuery, DetachHandler,
            StoreSession, Reply, Acknowledge, ReceiveClose, DestroyQuery, QuitLooper, JoinLooper,
            ConnectionEnds, PeerSends, Destroyed, KeepSessions, serverVars, vars
    <2> QED
        BY <1>1, <2>1, <2>2, <2>3 DEF Messages
  <1> QED
      BY <1>2, <1>3, <1>4, <1>5, <1>6, <1>7 DEF Next, Server, Reader, Looper

\* One more frame.
LEMMA OneMoreFrame ==
    ASSUME TypeOK, NEW fr, out' = Append(out, fr)
    PROVE  /\ Len(out) \in Nat /\ Len(out') = Len(out) + 1 /\ out'[Len(out) + 1] = fr
           /\ \A i \in 1 .. Len(out) : out'[i] = out[i]
  BY LenProperties DEF TypeOK

LEMMA RootStep ==
    ASSUME TypeOK, LiveInv, RootKept, [Next]_vars
    PROVE  RootKept'
  <1>1. ASSUME NEW fr, out' = Append(out, fr), entries' = entries,
               fr.type = "update" => fr.file \in Inside,
               fr.type = "result" => fr.entries \subseteq Inside
        PROVE  RootKept'
    <2>1. /\ Len(out) \in Nat /\ Len(out') = Len(out) + 1 /\ out'[Len(out) + 1] = fr
          /\ \A i \in 1 .. Len(out) : out'[i] = out[i]
        BY <1>1, OneMoreFrame
    <2>2. \A i \in 1 .. Len(out') : i \in 1 .. Len(out) \/ i = Len(out) + 1
        BY <2>1
    <2> QED
        BY <1>1, <2>1, <2>2 DEF RootKept
  <1>2. CASE Reply
      BY <1>1, <1>2 DEF Reply, RootKept
  <1>3. CASE Acknowledge
      BY <1>1, <1>3 DEF Acknowledge
  <1>4. CASE Refuse
      BY <1>1, <1>4 DEF Refuse
  <1>5. CASE FetchFails
      BY <1>1, <1>5 DEF FetchFails
  <1>6. CASE PushQueryUpdate
    <2>1. CASE running.file \in Inside /\ fSink
        BY <1>1, <1>6, <2>1 DEF PushQueryUpdate, KeepReader
    <2>2. CASE ~(running.file \in Inside /\ fSink)
        BY <1>6, <2>2 DEF PushQueryUpdate, KeepReader, RootKept
    <2> QED
        BY <2>1, <2>2
  <1>7. CASE Fetch \/ \E f \in File : Scan(f)
      BY <1>7 DEF Fetch, Scan, RootKept
  <1>8. CASE \/ TakeMessage \/ AttachHandler \/ Scanned \/ (\E f \in File : Change(f))
             \/ CloseQuery \/ DetachHandler \/ StoreSession
             \/ (\E q \in QueryId : ReceiveOpen(q) \/ ReceiveClose(q)) \/ (\E s \in Session : DestroyQuery(s))
             \/ QuitLooper \/ JoinLooper \/ ConnectionEnds
             \/ (\E r \in Request : PeerSends(r)) \/ Destroyed \/ UNCHANGED vars
    <2>1. UNCHANGED <<entries, out>>
        BY <1>8 DEF TakeMessage, AttachHandler, Scanned, Change, CloseQuery, DetachHandler, StoreSession,
            ReceiveOpen, ReceiveClose, DestroyQuery, QuitLooper, JoinLooper, ConnectionEnds,
            PeerSends, Destroyed, KeepReader, serverVars, vars
    <2> QED
        BY <2>1 DEF RootKept
  <1> QED
      BY <1>2, <1>3, <1>4, <1>5, <1>6, <1>7, <1>8 DEF Next, Server, Reader, Looper

LEMMA QueryInvInit == Init => QueryInv
  <1> SUFFICES ASSUME Init PROVE QueryInv
      OBVIOUS
  <1>1. newest = 0 /\ Len(queue) = 0 /\ Len(out) = 0 /\ 1 .. 0 = {} /\ running.session = 0
      BY DEF Init, newest, NoMessage, NoSession
  <1>2. SessionIds
      BY DEF Init, SessionIds, Opening
  <1>3. Messages
      BY <1>1 DEF Init, Messages
  <1>4. RootKept
      BY <1>1 DEF Init, RootKept
  <1> QED
      BY <1>2, <1>3, <1>4, TypesInit, LiveInvInit DEF QueryInv

LEMMA QueryInvStep == QueryInv /\ [Next]_vars => QueryInv'
  BY TypesStep, LiveInvStep, IdsStep, MessagesStep, RootStep DEF QueryInv

-----------------------------------------------------------------------------
\* The last word on a file: what the messages q, the message r in hand and the
\* frames o after `from' say of file f of session s, whose id is `id', is v.

Concerns(m, s, f) == m.session = s /\ m.file = f
IsUpdate(fr, id, f) == fr.type = "update" /\ fr.q = id /\ fr.file = f
IsResult(fr, id) == fr.type = "result" /\ fr.q = id

Posted(q, s, f) == {i \in 1 .. Len(q) : Concerns(q[i], s, f)}
Updates(o, from, id, f) == {i \in from + 1 .. Len(o) : IsUpdate(o[i], id, f)}
Results(o, from, id) == {i \in from + 1 .. Len(o) : IsResult(o[i], id)}

IsLast(i, S) == i \in S /\ \A j \in S : j <= i

\* The last message posted decides, else the one in hand, else the last update
\* sent, else `initially', which says that the initial set is right.
LastWord(q, r, o, from, id, s, f, initially, v) ==
    \/ \E i \in Posted(q, s, f) : IsLast(i, Posted(q, s, f)) /\ q[i].added = v
    \/ Posted(q, s, f) = {} /\ Concerns(r, s, f) /\ r.added = v
    \/ /\ Posted(q, s, f) = {} /\ ~Concerns(r, s, f)
       /\ \E i \in Updates(o, from, id, f) : IsLast(i, Updates(o, from, id, f)) /\ o[i].added = v
    \/ /\ Posted(q, s, f) = {} /\ ~Concerns(r, s, f)
       /\ Updates(o, from, id, f) = {} /\ initially

\* A change of f posts one message to s, which becomes the last word.
LEMMA WordPosted ==
    ASSUME NEW A, NEW q \in Seq(A), NEW m \in Seq(A), NEW r, NEW o, NEW from, NEW id,
           NEW s, NEW f, NEW initially, NEW v, NEW k \in 1 .. Len(m),
           Concerns(m[k], s, f), m[k].added = v,
           \A j \in 1 .. Len(m) : m[j].session = s => j = k
    PROVE  LastWord(q \o m, r, o, from, id, s, f, initially, v)
  <1> DEFINE n == Len(q)
             l == n + k
  <1>1. n \in Nat /\ Len(m) \in Nat /\ k \in Nat /\ Len(q \o m) = n + Len(m)
      BY ConcatProperties, LenProperties
  <1>2. \A i \in 1 .. n + Len(m) : (q \o m)[i] = IF i <= n THEN q[i] ELSE m[i - n]
      BY ConcatProperties
  <1> HIDE DEF n
  <1>3. l \in 1 .. n + Len(m) /\ l - n = k /\ ~(l <= n)
      BY <1>1
  <1>4. (q \o m)[l] = m[k]
      BY <1>2, <1>3
  <1>5. ASSUME NEW i \in 1 .. n + Len(m), Concerns((q \o m)[i], s, f) PROVE i <= l
    <2>1. CASE i <= n
        BY <1>1, <2>1
    <2>2. CASE ~(i <= n)
      <3>1. i - n \in 1 .. Len(m) /\ (q \o m)[i] = m[i - n]
          BY <1>1, <1>2, <2>2
      <3>2. i - n = k
          BY <1>5, <3>1 DEF Concerns
      <3> QED
          BY <1>1, <3>2
    <2> QED
        BY <2>1, <2>2
  <1>6. l \in Posted(q \o m, s, f) /\ \A j \in Posted(q \o m, s, f) : j <= l
      BY <1>1, <1>3, <1>4, <1>5 DEF Posted
  <1> QED
      BY <1>4, <1>6 DEF LastWord, IsLast

\* A change of another file posts nothing about f.
LEMMA WordUntouched ==
    ASSUME NEW A, NEW q \in Seq(A), NEW m \in Seq(A), NEW r, NEW o, NEW from, NEW id,
           NEW s, NEW f, NEW initially, NEW v,
           \A j \in 1 .. Len(m) : ~Concerns(m[j], s, f),
           LastWord(q, r, o, from, id, s, f, initially, v)
    PROVE  LastWord(q \o m, r, o, from, id, s, f, initially, v)
  <1> DEFINE n == Len(q)
  <1>1. n \in Nat /\ Len(m) \in Nat /\ Len(q \o m) = n + Len(m)
      BY ConcatProperties, LenProperties
  <1>2. \A i \in 1 .. n + Len(m) : (q \o m)[i] = IF i <= n THEN q[i] ELSE m[i - n]
      BY ConcatProperties
  <1>3. \A i \in 1 .. n + Len(m) : ~(i <= n) => i - n \in 1 .. Len(m)
      BY <1>1
  <1>4. \A i \in 1 .. n : i \in 1 .. n + Len(m) /\ i <= n
      BY <1>1
  <1>5. \A i \in 1 .. n + Len(m) : i <= n => i \in 1 .. n
      BY <1>1
  <1> HIDE DEF n
  <1>6. \A i : i \in Posted(q \o m, s, f) <=> i \in Posted(q, s, f)
    <2>1. Posted(q \o m, s, f) = {i \in 1 .. n + Len(m) : Concerns((q \o m)[i], s, f)}
        BY <1>1 DEF Posted
    <2>2. Posted(q, s, f) = {i \in 1 .. n : Concerns(q[i], s, f)}
        BY DEF Posted, n
    <2> QED
        BY <1>2, <1>3, <1>4, <1>5, <2>1, <2>2
  <1>7. Posted(q \o m, s, f) = Posted(q, s, f)
      BY <1>6
  <1>8. \A i \in Posted(q, s, f) : (q \o m)[i] = q[i]
      BY <1>2, <1>4 DEF Posted, n
  <1> QED
      BY <1>7, <1>8 DEF LastWord

\* The looper takes the oldest message, in hand only when it concerns f of s.
LEMMA WordTaken ==
    ASSUME NEW A, NEW q \in Seq(A), q # <<>>, NEW r, NEW r2, NEW o, NEW from, NEW id,
           NEW s, NEW f, NEW initially, NEW v,
           ~Concerns(r, s, f),
           Concerns(Head(q), s, f) => r2 = Head(q),
           ~Concerns(Head(q), s, f) => ~Concerns(r2, s, f),
           LastWord(q, r, o, from, id, s, f, initially, v)
    PROVE  LastWord(Tail(q), r2, o, from, id, s, f, initially, v)
  <1> DEFINE n == Len(q)
             t == Tail(q)
  <1>1. /\ n \in Nat /\ n > 0 /\ Len(t) = n - 1 /\ Head(q) = q[1]
        /\ \A i \in 1 .. n - 1 : t[i] = q[i + 1]
      BY HeadTailProperties, EmptySeq, LenProperties
  <1> HIDE DEF n, t
  <1>2. \A i \in 1 .. n - 1 : i \in Posted(t, s, f) <=> i + 1 \in Posted(q, s, f)
    <2>1. \A i \in 1 .. n - 1 : i + 1 \in 1 .. n
        BY <1>1
    <2> QED
        BY <1>1, <2>1 DEF Posted, n
  <1>3. Posted(t, s, f) \subseteq 1 .. n - 1 /\ Posted(q, s, f) \subseteq 1 .. n
      BY <1>1 DEF Posted, n
  <1>4. CASE Posted(q, s, f) = {}
    <2>1. Posted(t, s, f) = {}
        BY <1>2, <1>3, <1>4
    <2>2. 1 \in 1 .. n
        BY <1>1
    <2>3. ~Concerns(Head(q), s, f)
        BY <1>1, <1>4, <2>2 DEF Posted, n
    <2> QED
        BY <1>4, <2>1, <2>3 DEF LastWord, t
  <1>5. CASE Posted(q, s, f) # {}
    <2>1. PICK i \in Posted(q, s, f) : IsLast(i, Posted(q, s, f)) /\ q[i].added = v
        BY <1>5 DEF LastWord
    <2>2. i \in 1 .. n /\ Concerns(q[i], s, f)
        BY <1>3, <2>1 DEF Posted
    <2>3. CASE i = 1
      <3>1. Posted(t, s, f) = {}
        <4> SUFFICES ASSUME NEW j \in Posted(t, s, f) PROVE FALSE
            OBVIOUS
        <4>1. j \in 1 .. n - 1 /\ j + 1 \in Posted(q, s, f)
            BY <1>2, <1>3
        <4>2. j + 1 <= 1
            BY <2>1, <2>3, <4>1 DEF IsLast
        <4> QED
            BY <1>1, <4>1, <4>2
      <3>2. r2 = q[1]
          BY <1>1, <2>2, <2>3
      <3> QED
          BY <2>1, <2>2, <2>3, <3>1, <3>2 DEF LastWord, t
    <2>4. CASE i # 1
      <3> DEFINE k == i - 1
      <3>1. k \in 1 .. n - 1 /\ k + 1 = i
          BY <1>1, <2>2, <2>4
      <3> HIDE DEF k
      <3>2. k \in Posted(t, s, f) /\ t[k] = q[i]
          BY <1>1, <1>2, <2>1, <3>1
      <3>3. ASSUME NEW j \in Posted(t, s, f) PROVE j <= k
        <4>1. j \in 1 .. n - 1 /\ j + 1 \in Posted(q, s, f)
            BY <1>2, <1>3
        <4>2. j + 1 <= i
            BY <2>1, <4>1 DEF IsLast
        <4> QED
            BY <1>1, <3>1, <4>1, <4>2
      <3> QED
          BY <2>1, <3>2, <3>3 DEF LastWord, IsLast, t
    <2> QED
        BY <2>3, <2>4
  <1> QED
      BY <1>4, <1>5

\* What one more frame adds to the updates and the results.
LEMMA OneMoreUpdate ==
    ASSUME NEW B, NEW o \in Seq(B), NEW fr \in B, NEW from \in 0 .. Len(o), NEW id, NEW f
    PROVE  /\ Len(o) \in Nat /\ Append(o, fr)[Len(o) + 1] = fr
           /\ \A i \in 1 .. Len(o) : Append(o, fr)[i] = o[i]
           /\ ~IsUpdate(fr, id, f) => Updates(Append(o, fr), from, id, f) = Updates(o, from, id, f)
           /\ IsUpdate(fr, id, f) => Updates(Append(o, fr), from, id, f) = Updates(o, from, id, f) \cup {Len(o) + 1}
           /\ ~IsResult(fr, id) => Results(Append(o, fr), from, id) = Results(o, from, id)
           /\ IsResult(fr, id) => Results(Append(o, fr), from, id) = Results(o, from, id) \cup {Len(o) + 1}
  <1> DEFINE n == Len(o)
             a == Append(o, fr)
  <1>1. n \in Nat /\ Len(a) = n + 1 /\ a[n + 1] = fr /\ \A i \in 1 .. n : a[i] = o[i]
      BY AppendProperties, LenProperties
  <1> HIDE DEF n, a
  <1>2. from \in Nat /\ from <= n
      BY <1>1 DEF n
  <1>3. \A i : i \in from + 1 .. n + 1 <=> i \in from + 1 .. n \/ i = n + 1
      BY <1>1, <1>2
  <1>4. \A i \in from + 1 .. n : i \in 1 .. n
      BY <1>1, <1>2
  <1>5. n + 1 \notin from + 1 .. n
      BY <1>1, <1>2
  <1>6. Updates(a, from, id, f) = {i \in from + 1 .. n + 1 : IsUpdate(a[i], id, f)}
      BY <1>1 DEF Updates
  <1>7. Results(a, from, id) = {i \in from + 1 .. n + 1 : IsResult(a[i], id)}
      BY <1>1 DEF Results
  <1>8. Updates(o, from, id, f) = {i \in from + 1 .. n : IsUpdate(a[i], id, f)}
      BY <1>1, <1>4 DEF Updates, n
  <1>9. Results(o, from, id) = {i \in from + 1 .. n : IsResult(a[i], id)}
      BY <1>1, <1>4 DEF Results, n
  <1>10. /\ ~IsUpdate(fr, id, f) => Updates(a, from, id, f) = Updates(o, from, id, f)
         /\ IsUpdate(fr, id, f) => Updates(a, from, id, f) = Updates(o, from, id, f) \cup {n + 1}
      BY <1>1, <1>3, <1>6, <1>8
  <1>11. /\ ~IsResult(fr, id) => Results(a, from, id) = Results(o, from, id)
         /\ IsResult(fr, id) => Results(a, from, id) = Results(o, from, id) \cup {n + 1}
      BY <1>1, <1>3, <1>7, <1>9
  <1> QED
      BY <1>1, <1>10, <1>11 DEF a, n

LEMMA OneMoreResult ==
    ASSUME NEW B, NEW o \in Seq(B), NEW fr \in B, NEW from \in 0 .. Len(o), NEW id
    PROVE  /\ Len(o) \in Nat /\ Append(o, fr)[Len(o) + 1] = fr
           /\ \A i \in 1 .. Len(o) : Append(o, fr)[i] = o[i]
           /\ ~IsResult(fr, id) => Results(Append(o, fr), from, id) = Results(o, from, id)
           /\ IsResult(fr, id) => Results(Append(o, fr), from, id) = Results(o, from, id) \cup {Len(o) + 1}
  <1>1. /\ Len(o) \in Nat /\ Append(o, fr)[Len(o) + 1] = fr
        /\ \A i \in 1 .. Len(o) : Append(o, fr)[i] = o[i]
        /\ ~IsUpdate(fr, id, {}) => Updates(Append(o, fr), from, id, {}) = Updates(o, from, id, {})
        /\ ~IsResult(fr, id) => Results(Append(o, fr), from, id) = Results(o, from, id)
        /\ IsResult(fr, id) => Results(Append(o, fr), from, id) = Results(o, from, id) \cup {Len(o) + 1}
      BY OneMoreUpdate
  <1> QED
      BY <1>1

\* The looper pushes the message in hand.
LEMMA WordPushed ==
    ASSUME NEW B, NEW o \in Seq(B), NEW fr \in B, NEW from \in 0 .. Len(o), NEW id,
           NEW q, NEW r, NEW r2, NEW s, NEW f, NEW initially, NEW v,
           Concerns(r, s, f), ~Concerns(r2, s, f), IsUpdate(fr, id, f), fr.added = r.added,
           LastWord(q, r, o, from, id, s, f, initially, v)
    PROVE  LastWord(q, r2, Append(o, fr), from, id, s, f, initially, v)
  <1> DEFINE n == Len(o)
             a == Append(o, fr)
  <1>1. n \in Nat /\ a[n + 1] = fr /\ Updates(a, from, id, f) = Updates(o, from, id, f) \cup {n + 1}
      BY OneMoreUpdate
  <1>2. \A j \in Updates(a, from, id, f) : j <= n + 1
    <2>1. from \in Nat
        BY <1>1
    <2>2. \A j \in Updates(o, from, id, f) : j <= n + 1
        BY <1>1, <2>1 DEF Updates
    <2> QED
        BY <1>1, <2>2
  <1> HIDE DEF n, a
  <1>3. CASE Posted(q, s, f) = {}
    <2>1. r.added = v
        BY <1>3 DEF LastWord
    <2> QED
        BY <1>1, <1>2, <1>3, <2>1 DEF LastWord, IsLast, a
  <1>4. CASE Posted(q, s, f) # {}
      BY <1>4 DEF LastWord
  <1> QED
      BY <1>3, <1>4

\* A frame that is not an update of f says nothing about it.
LEMMA WordFramed ==
    ASSUME NEW B, NEW o \in Seq(B), NEW fr \in B, NEW from \in 0 .. Len(o), NEW id,
           NEW q, NEW r, NEW s, NEW f, NEW initially, NEW v,
           ~IsUpdate(fr, id, f),
           LastWord(q, r, o, from, id, s, f, initially, v)
    PROVE  LastWord(q, r, Append(o, fr), from, id, s, f, initially, v)
  <1>1. /\ Updates(Append(o, fr), from, id, f) = Updates(o, from, id, f)
        /\ Len(o) \in Nat /\ \A i \in 1 .. Len(o) : Append(o, fr)[i] = o[i]
      BY OneMoreUpdate
  <1>2. from \in Nat
      BY <1>1
  <1>3. \A i \in Updates(o, from, id, f) : i \in 1 .. Len(o)
      BY <1>1, <1>2 DEF Updates
  <1> QED
      BY <1>1, <1>3 DEF LastWord

\* Receiving the next frame drops it from what is still to come.
LEMMA WordReceived ==
    ASSUME NEW B, NEW o \in Seq(B), NEW from \in Nat, from < Len(o), NEW id,
           NEW q, NEW r, NEW s, NEW f, NEW before, NEW after, NEW v,
           IsUpdate(o[from + 1], id, f) /\ o[from + 1].added = v => after,
           ~IsUpdate(o[from + 1], id, f) /\ before => after,
           LastWord(q, r, o, from, id, s, f, before, v)
    PROVE  LastWord(q, r, o, from + 1, id, s, f, after, v)
  <1> DEFINE U == Updates(o, from, id, f)
             W == Updates(o, from + 1, id, f)
  <1>1. Len(o) \in Nat
      BY LenProperties
  <1>2. \A i : i \in from + 1 .. Len(o) <=> i = from + 1 \/ i \in from + 1 + 1 .. Len(o)
      BY <1>1
  <1>3. \A i \in from + 1 + 1 .. Len(o) : i > from + 1
      BY <1>1
  <1>4. U = W \/ (U = W \cup {from + 1} /\ IsUpdate(o[from + 1], id, f))
      BY <1>2 DEF Updates
  <1>5. IsUpdate(o[from + 1], id, f) => from + 1 \in U
      BY <1>2 DEF Updates
  <1>6. from + 1 \notin W /\ \A i \in W : i > from + 1
    <2>1. ~(from + 1 > from + 1)
        BY <1>1
    <2> QED
        BY <1>3, <2>1 DEF Updates
  <1>7. CASE Posted(q, s, f) # {} \/ Concerns(r, s, f)
      BY <1>7 DEF LastWord
  <1>8. CASE Posted(q, s, f) = {} /\ ~Concerns(r, s, f) /\ U = {}
    <2>1. W = {} /\ ~IsUpdate(o[from + 1], id, f)
        BY <1>4, <1>5, <1>8
    <2>2. before
        BY <1>8 DEF LastWord
    <2> QED
        BY <1>8, <2>1, <2>2 DEF LastWord
  <1>9. CASE Posted(q, s, f) = {} /\ ~Concerns(r, s, f) /\ U # {}
    <2>1. PICK i \in U : IsLast(i, U) /\ o[i].added = v
        BY <1>9 DEF LastWord
    <2>2. CASE i \in W
      <3>1. IsLast(i, W)
          BY <1>4, <2>1, <2>2 DEF IsLast
      <3> QED
          BY <1>9, <2>1, <2>2, <3>1 DEF LastWord
    <2>3. CASE i \notin W
      <3>1. i = from + 1 /\ IsUpdate(o[from + 1], id, f)
          BY <1>4, <2>1, <2>3
      <3>2. W = {}
        <4> SUFFICES ASSUME NEW j \in W PROVE FALSE
            OBVIOUS
        <4>1. j <= from + 1 /\ j > from + 1 /\ j \in Int
            BY <1>1, <1>4, <1>6, <2>1, <3>1 DEF IsLast, Updates
        <4> QED
            BY <4>1
      <3>3. after
          BY <2>1, <3>1
      <3> QED
          BY <1>9, <3>2, <3>3 DEF LastWord
    <2> QED
        BY <2>2, <2>3
  <1> QED
      BY <1>7, <1>8, <1>9

-----------------------------------------------------------------------------
\* The stream of a session.

\* The sessions whose updates are alone under their id: those in the map, save
\* one that is being reopened, and the one in progress under an id that is free.
Tracked(s) ==
    /\ s \notin replaced
    /\ \/ \E q \in QueryId :
            /\ fQueries[q] = s /\ s # NoSession
            /\ ~(Opening /\ reader \in {"scan", "closeOld"} /\ q = current.q)
       \/ /\ s = newest /\ current.live /\ Opening /\ reader # "reply"
          /\ fQueries[current.q] = NoSession

Unanswered(s) == s = newest /\ Opening

\* What the initial set says of f, once the walk has come to it.
InitiallyRight(s, f) ==
    IF Unanswered(s) THEN f \in unseen \/ (f \in entries <=> f \in matching)
    ELSE \A k \in Results(out, fetchedAt[s], queryOf[s]) : f \in out[k].entries <=> f \in matching

OneResult(s) ==
    IF Unanswered(s) THEN Results(out, fetchedAt[s], queryOf[s]) = {}
    ELSE \E k : Results(out, fetchedAt[s], queryOf[s]) = {k}

WordRight(s, f) ==
    LastWord(queue, running, out, fetchedAt[s], queryOf[s], s, f,
             InitiallyRight(s, f), f \in matching)

StreamRight(s) == OneResult(s) /\ \A f \in Inside : WordRight(s, f)

StreamInv ==
    /\ \A s \in Session : fetchedAt[s] <= Len(out)
    /\ \A s \in 1 .. newest : Tracked(s) => StreamRight(s)

\* A tracked session is live, and no other handler pushes under its id.
LEMMA TrackedFacts ==
    ASSUME QueryInv, NEW s, Tracked(s)
    PROVE  /\ s \in 1 .. newest /\ s \in Session
           /\ s \in handlers /\ s \in target /\ fSink = TRUE
           /\ \A t \in handlers : queryOf[t] = queryOf[s] /\ t # s =>
                reader \in {"target", "fetch"} /\ t = newest
  <1>0. /\ newest \in Nat /\ newest <= MaxOpens /\ MaxOpens \in Nat
        /\ current.q \in QueryId /\ fQueries \in [QueryId -> Nat]
        /\ fSink \in BOOLEAN
        /\ \A q \in QueryId : fQueries[q] <= newest
      BY ReaderFacts, LiveQueryAssumption DEF QueryInv, TypeOK, newest
  <1>1. CASE s = newest /\ current.live /\ Opening /\ reader # "reply" /\ fQueries[current.q] = NoSession
    <2>0. reader \in {"scan", "closeOld", "detachOld", "store"} /\ current.op = "open"
        BY <1>1 DEF Opening
    <2>1. s > 0 /\ queryOf[s] = current.q /\ fSink = TRUE /\ reader # "detachOld"
        BY <1>1, <2>0 DEF Tracked, QueryInv, SessionIds
    <2>2. Fresh = {s} /\ handlers = Stored \cup {s} /\ target = Stored \cup {s}
        BY <1>1, <2>0, <2>1 DEF QueryInv, LiveInv, Owned, Fresh
    <2>3. \A t \in Stored : queryOf[t] # current.q
        BY <1>1 DEF Stored, QueryInv, SessionIds
    <2> QED
        BY <1>0, <1>1, <2>1, <2>2, <2>3 DEF Session
  <1>2. ASSUME NEW q \in QueryId, fQueries[q] = s, s # NoSession,
               ~(Opening /\ reader \in {"scan", "closeOld"} /\ q = current.q)
        PROVE  /\ s \in 1 .. newest /\ s \in Session
               /\ s \in handlers /\ s \in target /\ fSink = TRUE
               /\ \A t \in handlers : queryOf[t] = queryOf[s] /\ t # s =>
                    reader \in {"target", "fetch"} /\ t = newest
    <2>1. s \in 1 .. newest /\ fSink = TRUE /\ queryOf[s] = q /\ s \in Stored
        BY <1>0, <1>2 DEF QueryInv, SessionIds, Stored, NoSession
    <2>2. reader \notin {"destroyQueries", "joinLooper", "destroyed"} /\ reader \in ReaderPC
        BY <1>2 DEF QueryInv, SessionIds, TypeOK
    <2>3. s \in handlers /\ s \in target
        BY <2>1, <2>2 DEF QueryInv, LiveInv, Owned, ReaderPC
    <2>4. \A t \in Stored : queryOf[t] = q => t = s
        BY <1>2 DEF Stored, QueryInv, SessionIds
    <2>5. ASSUME NEW t \in handlers, t \notin Stored, queryOf[t] = q
          PROVE  reader \in {"target", "fetch"} /\ t = newest
      <3>1. CASE reader = "fetch"
          BY <2>5, <3>1 DEF QueryInv, LiveInv, Owned, Fresh
      <3>2. CASE reader = "scan" \/ (reader = "closeOld" /\ current.op = "open")
        <4>1. Opening /\ q # current.q
            BY <1>2, <3>2 DEF QueryInv, LiveInv, Owned, Opening
        <4> QED
            BY <2>5, <3>2, <4>1 DEF QueryInv, LiveInv, Owned, Fresh, SessionIds
      <3>3. CASE reader = "store" \/ reader = "detachOld"
        <4>1. fQueries[current.q] = NoSession /\ q # current.q
            BY <1>2, <3>3 DEF QueryInv, LiveInv, Owned
        <4>2. current.op = "open" => queryOf[newest] = current.q
            BY <3>3 DEF QueryInv, SessionIds, Opening
        <4>3. reader = "detachOld" => queryOf[current.old] = current.q
            BY DEF QueryInv, SessionIds
        <4>4. (t = newest /\ current.op = "open") \/ (reader = "detachOld" /\ t = current.old)
            BY <2>5, <3>3 DEF QueryInv, LiveInv, Owned, Fresh
        <4> QED
            BY <2>5, <4>1, <4>2, <4>3, <4>4
      <3>4. CASE reader \in {"receive", "acknowledge", "reply", "target"}
                \/ (reader = "closeOld" /\ current.op # "open")
          BY <2>5, <3>4 DEF QueryInv, LiveInv, Owned, Fresh
      <3> QED
          BY <2>2, <3>1, <3>2, <3>3, <3>4 DEF ReaderPC
    <2>6. s \in Session
        BY <1>0, <2>1 DEF Session
    <2> QED
        BY <2>1, <2>3, <2>4, <2>5, <2>6
  <1> QED
      BY <1>1, <1>2 DEF Tracked

\* Nothing that the stream of s is made of changes.
LEMMA StreamKept ==
    ASSUME NEW s, StreamRight(s), UNCHANGED <<queue, running, out, matching>>,
           fetchedAt'[s] = fetchedAt[s], queryOf'[s] = queryOf[s],
           Unanswered(s)' = Unanswered(s), Unanswered(s) => UNCHANGED <<entries, unseen>>
    PROVE  StreamRight(s)'
  <1>1. OneResult(s)'
      BY DEF StreamRight, OneResult
  <1>2. ASSUME NEW f \in Inside PROVE WordRight(s, f)'
    <2>1. InitiallyRight(s, f)' = InitiallyRight(s, f)
        BY DEF InitiallyRight
    <2> QED
        BY <2>1 DEF StreamRight, WordRight
  <1> QED
      BY <1>1, <1>2 DEF StreamRight

\* A frame is enqueued that is neither an update nor a result of s.
LEMMA StreamFramed ==
    ASSUME QueryInv, NEW s \in Session, StreamRight(s), fetchedAt[s] <= Len(out), TypeOK',
           NEW fr, out' = Append(out, fr), UNCHANGED <<queue, running, matching, entries, unseen>>,
           fetchedAt'[s] = fetchedAt[s], queryOf'[s] = queryOf[s],
           Unanswered(s)' = Unanswered(s),
           fr.type # "update", ~IsResult(fr, queryOf[s])
    PROVE  StreamRight(s)'
  <1> DEFINE B == Update \cup Result \cup Ack
             from == fetchedAt[s]
             id == queryOf[s]
  <1>1. Len(out) \in Nat /\ Len(out') = Len(out) + 1 /\ out'[Len(out) + 1] = fr
      BY OneMoreFrame DEF QueryInv
  <1>2. out \in Seq(B) /\ fr \in B /\ from \in 0 .. Len(out)
    <2>1. out' \in Seq(B) /\ Len(out) + 1 \in 1 .. Len(out') /\ from \in Nat /\ out \in Seq(B)
        BY <1>1 DEF QueryInv, TypeOK
    <2> QED
        BY <1>1, <2>1
  <1> HIDE DEF B, from, id
  <1>3. /\ Results(Append(out, fr), from, id) = Results(out, from, id)
        /\ \A i \in 1 .. Len(out) : Append(out, fr)[i] = out[i]
      BY <1>2, OneMoreResult DEF id
  <1>4. \A k \in Results(out, from, id) : k \in 1 .. Len(out)
      BY <1>1, <1>2 DEF Results
  <1>5. OneResult(s)'
      BY <1>3 DEF StreamRight, OneResult, from, id
  <1>6. ASSUME NEW f \in Inside PROVE WordRight(s, f)'
    <2>1. InitiallyRight(s, f)' = InitiallyRight(s, f)
        BY <1>3, <1>4 DEF InitiallyRight, from, id
    <2>2. ~IsUpdate(fr, id, f)
        BY DEF IsUpdate
    <2>3. LastWord(queue, running, out, from, id, s, f, InitiallyRight(s, f), f \in matching)
        BY <1>6 DEF StreamRight, WordRight, from, id
    <2>4. LastWord(queue, running, Append(out, fr), from, id, s, f, InitiallyRight(s, f), f \in matching)
        BY <1>2, <2>2, <2>3, WordFramed
    <2> QED
        BY <2>1, <2>4 DEF WordRight, from, id
  <1> QED
      BY <1>5, <1>6 DEF StreamRight

\* What the kernel and the looper do to the last word on a file.
LEMMA ChangeMovesWord ==
    ASSUME QueryInv, NEW s, s \in target, NEW g \in File, Change(g), NEW from, NEW id, NEW f, NEW i0
    PROVE  /\ f = g => LastWord(queue', running, out, from, id, s, f, i0, f \in matching')
           /\ f # g /\ LastWord(queue, running, out, from, id, s, f, i0, f \in matching) =>
                /\ LastWord(queue', running, out, from, id, s, f, i0, f \in matching')
                /\ (f \in matching') = (f \in matching)
  <1> DEFINE M == MessagesFor(g, g \notin matching, target)
             X == [session : target, file : {g}, added : {g \notin matching}]
  <1>0. ASSUME NEW a, target \in SUBSET Nat, IsFiniteSet(target)
        PROVE  LET m == MessagesFor(g, a, target) IN
               /\ m \in Seq([session : target, file : {g}, added : {a}])
               /\ \A t \in target : \E i \in 1 .. Len(m) : m[i].session = t
               /\ \A i, j \in 1 .. Len(m) : m[i].session = m[j].session => i = j
      BY <1>0, EachIsTold
  <1>1. /\ queue' = queue \o M
        /\ matching' = IF g \in matching THEN matching \ {g} ELSE matching \cup {g}
      BY DEF Change
  <1>2. /\ (g \in matching') = (g \notin matching)
        /\ f # g => (f \in matching') = (f \in matching)
      BY <1>1
  <1>4. target \in SUBSET Nat /\ IsFiniteSet(target) /\ queue \in Seq(Message)
    <2>1. newest \in Nat /\ target \in SUBSET (1 .. newest)
        BY ReaderFacts DEF QueryInv, Messages
    <2>2. IsFiniteSet(1 .. newest)
        BY <2>1, FS_Interval
    <2>3. IsFiniteSet(target)
        BY <2>1, <2>2, FS_Subset
    <2> QED
        BY <2>1, <2>3 DEF QueryInv, TypeOK
  <1>5. /\ M \in Seq(X)
        /\ \A t \in target : \E i \in 1 .. Len(M) : M[i].session = t
        /\ \A i, j \in 1 .. Len(M) : M[i].session = M[j].session => i = j
      BY <1>0, <1>4
  <1> HIDE DEF M
  <1>6. \A i \in 1 .. Len(M) : M[i] \in X
    <2> HIDE DEF X
    <2> QED
        BY <1>5, ElementOfSeq
  <1>7. M \in Seq(Message)
    <2>1. X \subseteq Message
        BY DEF X, Message, QueryInv, TypeOK
    <2> HIDE DEF X
    <2> QED
        BY <1>5, <2>1, SeqMonotonic
  <1>8. \A i \in 1 .. Len(M) : M[i].file = g /\ M[i].added = (g \notin matching)
      BY <1>6 DEF X
  <1>9. ASSUME f # g, LastWord(queue, running, out, from, id, s, f, i0, f \in matching)
        PROVE  LastWord(queue', running, out, from, id, s, f, i0, f \in matching')
    <2>1. \A j \in 1 .. Len(M) : ~Concerns(M[j], s, f)
        BY <1>8, <1>9 DEF Concerns
    <2>2. LastWord(queue \o M, running, out, from, id, s, f, i0, f \in matching)
        BY <1>4, <1>7, <1>9, <2>1, WordUntouched
    <2> QED
        BY <1>1, <1>2, <1>9, <2>2
  <1>10. ASSUME f = g
         PROVE  LastWord(queue', running, out, from, id, s, f, i0, f \in matching')
    <2>1. PICK k \in 1 .. Len(M) : M[k].session = s
        BY <1>5
    <2>2. Concerns(M[k], s, g) /\ M[k].added = (g \in matching')
        BY <1>2, <1>8, <2>1 DEF Concerns
    <2>3. \A j \in 1 .. Len(M) : M[j].session = s => j = k
        BY <1>5, <2>1
    <2>4. LastWord(queue \o M, running, out, from, id, s, g, i0, g \in matching')
        BY <1>4, <1>7, <2>2, <2>3, WordPosted
    <2> QED
        BY <1>1, <1>10, <2>4
  <1> QED
      BY <1>2, <1>9, <1>10

LEMMA TakingMovesWord ==
    ASSUME QueryInv, TakeMessage, NEW s, s \in handlers, s # NoSession, NEW from, NEW id,
           NEW f, NEW i0, NEW v, LastWord(queue, running, out, from, id, s, f, i0, v)
    PROVE  LastWord(queue', running', out', from, id, s, f, i0, v)
  <1>1. /\ running = NoMessage /\ queue # <<>> /\ queue' = Tail(queue) /\ out' = out
        /\ running' = IF Head(queue).session \in handlers THEN Head(queue) ELSE NoMessage
        /\ queue \in Seq(Message)
      BY DEF TakeMessage, LooperUnlocked, QueryInv, TypeOK
  <1>2. ~Concerns(NoMessage, s, f)
      BY DEF Concerns, NoMessage
  <1>3. /\ Concerns(Head(queue), s, f) => running' = Head(queue)
        /\ ~Concerns(Head(queue), s, f) => ~Concerns(running', s, f)
      BY <1>1, <1>2 DEF Concerns
  <1>4. LastWord(Tail(queue), running', out, from, id, s, f, i0, v)
      BY <1>1, <1>2, <1>3, WordTaken
  <1> QED
      BY <1>1, <1>4

\* The frame pushed, and what it is to a session s with no other under its id.
LEMMA PushedFrame ==
    ASSUME QueryInv, QueryInv', PushQueryUpdate, fSink = TRUE, NEW from, from \in 0 .. Len(out), NEW id
    PROVE  /\ Results(out', from, id) = Results(out, from, id)
           /\ \A i \in 1 .. Len(out) : out'[i] = out[i]
           /\ Len(out) \in Nat /\ Len(out') \in Nat /\ Len(out) <= Len(out')
  <1> DEFINE B == Update \cup Result \cup Ack
             fr == [type |-> "update", q |-> queryOf[running.session],
                    file |-> running.file, added |-> running.added]
  <1>1. out' = IF running.file \in Inside THEN Append(out, fr) ELSE out
      BY DEF PushQueryUpdate
  <1>2. out \in Seq(B) /\ out' \in Seq(B) /\ Len(out) \in Nat /\ Len(out') \in Nat
      BY LenProperties DEF QueryInv, TypeOK
  <1>3. CASE running.file \in Inside
    <2>1. Len(out') = Len(out) + 1 /\ out'[Len(out) + 1] = fr /\ out' = Append(out, fr)
        BY <1>1, <1>3, OneMoreFrame DEF QueryInv
    <2>2. Len(out) + 1 \in 1 .. Len(out')
        BY <1>2, <2>1
    <2>3. ~IsResult(fr, id)
        BY DEF IsResult
    <2> HIDE DEF B, fr
    <2>4. fr \in B
        BY <1>2, <2>1, <2>2, ElementOfSeq
    <2>5. /\ Results(Append(out, fr), from, id) = Results(out, from, id)
          /\ \A i \in 1 .. Len(out) : Append(out, fr)[i] = out[i]
        BY <1>2, <2>3, <2>4, OneMoreResult
    <2> QED
        BY <1>2, <2>1, <2>5
  <1>4. CASE running.file \notin Inside
      BY <1>1, <1>2, <1>4
  <1> QED
      BY <1>3, <1>4

LEMMA PushingMovesWord ==
    ASSUME QueryInv, QueryInv', PushQueryUpdate, fSink = TRUE,
           NEW s, s \in handlers, s # NoSession,
           \A t \in handlers : queryOf[t] = queryOf[s] /\ t # s =>
                reader \in {"target", "fetch"} /\ t = newest,
           NEW from, from \in 0 .. Len(out), NEW f \in Inside, NEW i0, NEW v,
           LastWord(queue, running, out, from, queryOf[s], s, f, i0, v)
    PROVE  LastWord(queue', running', out', from, queryOf[s], s, f, i0, v)
  <1> DEFINE B == Update \cup Result \cup Ack
             id == queryOf[s]
             fr == [type |-> "update", q |-> queryOf[running.session],
                    file |-> running.file, added |-> running.added]
  <1>1. /\ running # NoMessage /\ running' = NoMessage /\ queue' = queue
        /\ out' = IF running.file \in Inside THEN Append(out, fr) ELSE out
      BY DEF PushQueryUpdate
  <1>2. running \in Message /\ running.session \in handlers
      BY <1>1 DEF QueryInv, TypeOK, LiveInv, NoFreedHandlerRuns
  <1>3. queryOf[running.session] = id => running.session = s
      BY <1>2 DEF QueryInv, Messages
  <1>4. fr.type = "update" /\ fr.q = queryOf[running.session] /\ fr.file = running.file /\ fr.added = running.added
      OBVIOUS
  <1>5. out \in Seq(B) /\ out' \in Seq(B) /\ Len(out) \in Nat
      BY LenProperties DEF QueryInv, TypeOK
  <1>6. running.file \in Inside => fr \in B
    <2> SUFFICES ASSUME running.file \in Inside PROVE fr \in B
        OBVIOUS
    <2>1. Len(out') = Len(out) + 1 /\ out'[Len(out) + 1] = fr
        BY <1>1, OneMoreFrame DEF QueryInv
    <2>2. Len(out) + 1 \in 1 .. Len(out')
        BY <1>5, <2>1
    <2> HIDE DEF B, fr
    <2> QED
        BY <1>5, <2>1, <2>2, ElementOfSeq
  <1>7. ~Concerns(NoMessage, s, f)
      BY DEF Concerns, NoMessage
  <1> HIDE DEF B, id, fr
  <1>8. LastWord(queue, running, out, from, id, s, f, i0, v)
      BY DEF id
  <1>9. CASE Concerns(running, s, f)
    <2>1. running.file \in Inside /\ out' = Append(out, fr) /\ IsUpdate(fr, id, f)
        BY <1>1, <1>4, <1>9 DEF Concerns, IsUpdate, id
    <2>2. LastWord(queue, NoMessage, Append(out, fr), from, id, s, f, i0, v)
        BY <1>4, <1>5, <1>6, <1>7, <1>8, <1>9, <2>1, WordPushed
    <2> QED
        BY <1>1, <2>1, <2>2 DEF id
  <1>10. CASE ~Concerns(running, s, f)
    <2>1. LastWord(queue, NoMessage, out, from, id, s, f, i0, v)
        BY <1>7, <1>8, <1>10 DEF LastWord
    <2>2. CASE running.file \in Inside
      <3>1. ~IsUpdate(fr, id, f)
          BY <1>3, <1>4, <1>10 DEF IsUpdate, Concerns
      <3>2. LastWord(queue, NoMessage, Append(out, fr), from, id, s, f, i0, v)
          BY <1>5, <1>6, <2>1, <2>2, <3>1, WordFramed
      <3> QED
          BY <1>1, <2>2, <3>2 DEF id
    <2>3. CASE running.file \notin Inside
        BY <1>1, <2>1, <2>3 DEF id
    <2> QED
        BY <2>2, <2>3
  <1> QED
      BY <1>9, <1>10

LEMMA StreamChanged ==
    ASSUME QueryInv, NEW s, Tracked(s), StreamRight(s), NEW g \in File, Change(g)
    PROVE  StreamRight(s)'
  <1>1. /\ UNCHANGED <<running, reader, current, out, fetchedAt, queryOf, newest, entries, unseen>>
        /\ s \in target
      BY TrackedFacts DEF Change, KeepSessions, newest
  <1>2. Unanswered(s)' = Unanswered(s)
      BY <1>1 DEF Unanswered, Opening
  <1>3. OneResult(s)'
      BY <1>1, <1>2 DEF StreamRight, OneResult
  <1>4. ASSUME NEW f \in Inside PROVE WordRight(s, f)'
    <2>1. CASE f = g
        BY <1>1, <2>1, ChangeMovesWord DEF WordRight
    <2>2. CASE f # g
      <3>1. WordRight(s, f)
          BY <1>4 DEF StreamRight
      <3>2. /\ LastWord(queue', running, out, fetchedAt[s], queryOf[s], s, f, InitiallyRight(s, f), f \in matching')
            /\ (f \in matching') = (f \in matching)
          BY <1>1, <2>2, <3>1, ChangeMovesWord DEF WordRight
      <3>3. InitiallyRight(s, f)' = InitiallyRight(s, f)
          BY <1>1, <1>2, <3>2 DEF InitiallyRight
      <3> QED
          BY <1>1, <3>2, <3>3 DEF WordRight
    <2> QED
        BY <2>1, <2>2
  <1> QED
      BY <1>3, <1>4 DEF StreamRight

LEMMA StreamTaken ==
    ASSUME QueryInv, NEW s, Tracked(s), StreamRight(s), TakeMessage
    PROVE  StreamRight(s)'
  <1>1. UNCHANGED <<reader, current, out, fetchedAt, queryOf, newest, entries, unseen, matching>>
      BY DEF TakeMessage, KeepSessions, KeepReader, KeepOthers, kernelVars, newest
  <1>2. Unanswered(s)' = Unanswered(s)
      BY <1>1 DEF Unanswered, Opening
  <1>3. s \in handlers /\ s # NoSession
    <2>1. s \in handlers /\ s \in 1 .. newest /\ newest \in Nat
        BY TrackedFacts, ReaderFacts DEF QueryInv
    <2> QED
        BY <2>1 DEF NoSession
  <1>4. OneResult(s)'
      BY <1>1, <1>2 DEF StreamRight, OneResult
  <1>5. ASSUME NEW f \in Inside PROVE WordRight(s, f)'
    <2>1. InitiallyRight(s, f)' = InitiallyRight(s, f)
        BY <1>1, <1>2 DEF InitiallyRight
    <2>2. LastWord(queue, running, out, fetchedAt[s], queryOf[s], s, f, InitiallyRight(s, f), f \in matching)
        BY <1>5 DEF StreamRight, WordRight
    <2>3. LastWord(queue', running', out', fetchedAt[s], queryOf[s], s, f, InitiallyRight(s, f), f \in matching)
        BY <1>3, <2>2, TakingMovesWord
    <2> QED
        BY <1>1, <2>1, <2>3 DEF WordRight
  <1> QED
      BY <1>4, <1>5 DEF StreamRight

LEMMA StreamPushed ==
    ASSUME QueryInv, QueryInv', NEW s, Tracked(s), StreamRight(s), fetchedAt[s] <= Len(out), PushQueryUpdate
    PROVE  StreamRight(s)'
  <1> DEFINE from == fetchedAt[s]
             id == queryOf[s]
  <1>1. UNCHANGED <<queue, reader, current, fetchedAt, queryOf, newest, entries, unseen, matching>>
      BY DEF PushQueryUpdate, KeepSessions, KeepReader, KeepOthers, kernelVars, newest
  <1>2. Unanswered(s)' = Unanswered(s)
      BY <1>1 DEF Unanswered, Opening
  <1>3. /\ s \in handlers /\ s \in Session /\ s # NoSession /\ fSink = TRUE
        /\ \A t \in handlers : queryOf[t] = queryOf[s] /\ t # s =>
             reader \in {"target", "fetch"} /\ t = newest
    <2>1. \A t \in Session : t # NoSession
        BY LiveQueryAssumption DEF Session, NoSession
    <2> QED
        BY <2>1, TrackedFacts
  <1>4. from \in 0 .. Len(out) /\ Len(out) \in Nat
      BY <1>3, LenProperties DEF QueryInv, TypeOK
  <1> HIDE DEF from, id
  <1>5. Results(out', from, id) = Results(out, from, id) /\ \A i \in 1 .. Len(out) : out'[i] = out[i]
      BY <1>3, <1>4, PushedFrame
  <1>6. OneResult(s)'
      BY <1>1, <1>2, <1>5 DEF StreamRight, OneResult, from, id
  <1>7. ASSUME NEW f \in Inside PROVE WordRight(s, f)'
    <2> DEFINE i0 == InitiallyRight(s, f)
    <2>1. InitiallyRight(s, f)' = i0
      <3>1. \A k \in Results(out, from, id) : k \in 1 .. Len(out)
          BY <1>4 DEF Results
      <3> QED
          BY <1>1, <1>2, <1>5, <3>1 DEF InitiallyRight, from, id
    <2>2. LastWord(queue, running, out, from, queryOf[s], s, f, i0, f \in matching)
        BY <1>7 DEF StreamRight, WordRight, from
    <2> HIDE DEF i0
    <2>3. LastWord(queue', running', out', from, queryOf[s], s, f, i0, f \in matching)
        BY <1>3, <1>4, <2>2, PushingMovesWord
    <2> QED
        BY <1>1, <2>1, <2>3 DEF WordRight, from
  <1> QED
      BY <1>6, <1>7 DEF StreamRight

\* The initial set of the newest session is sent.
LEMMA StreamAnswered ==
    ASSUME QueryInv, QueryInv', Reply, NEW s, s = newest, Tracked(s), StreamRight(s), fetchedAt[s] <= Len(out)
    PROVE  StreamRight(s)'
  <1> DEFINE B == Update \cup Result \cup Ack
             from == fetchedAt[s]
             id == queryOf[s]
             n == Len(out)
             fr == [type |-> "result", q |-> current.q, entries |-> entries]
  <1>1. /\ reader = "reply" /\ reader' = "receive" /\ out' = Append(out, fr)
        /\ UNCHANGED <<queue, running, current, fetchedAt, queryOf, newest, entries, unseen, matching>>
      BY DEF Reply, KeepSessions, KeepLooper, KeepOthers, kernelVars, newest
  <1>2. Opening /\ unseen = {} /\ id = current.q /\ s \in Session
      BY <1>1, TrackedFacts DEF QueryInv, SessionIds, Opening
  <1>3. Unanswered(s) /\ ~Unanswered(s)'
      BY <1>1, <1>2 DEF Unanswered, Opening
  <1>4. out \in Seq(B) /\ fr \in B /\ from \in 0 .. n /\ n \in Nat
    <2>1. from \in Nat /\ n \in Nat /\ out \in Seq(B)
        BY <1>2, LenProperties DEF QueryInv, TypeOK
    <2>2. fr \in Result
        BY ReaderFacts DEF Result, QueryInv, TypeOK
    <2> QED
        BY <2>1, <2>2
  <1>5. IsResult(fr, id) /\ fr.entries = entries /\ \A f : ~IsUpdate(fr, id, f)
      BY <1>2 DEF IsResult, IsUpdate
  <1> HIDE DEF B, from, id, fr
  <1>6. Results(Append(out, fr), from, id) = {n + 1} /\ out'[n + 1] = fr
    <2>1. Results(out, from, id) = {}
        BY <1>3 DEF StreamRight, OneResult, from, id
    <2>2. /\ Append(out, fr)[n + 1] = fr
          /\ Results(Append(out, fr), from, id) = Results(out, from, id) \cup {n + 1}
        BY <1>4, <1>5, OneMoreResult
    <2> QED
        BY <1>1, <2>1, <2>2
  <1>7. OneResult(s)'
      BY <1>1, <1>3, <1>6 DEF OneResult, from, id
  <1>8. ASSUME NEW f \in Inside PROVE WordRight(s, f)'
    <2> DEFINE v == f \in matching
    <2>1. InitiallyRight(s, f) => (f \in entries <=> f \in matching)
        BY <1>2, <1>3 DEF InitiallyRight
    <2>2. (f \in entries <=> f \in matching) => InitiallyRight(s, f)'
        BY <1>1, <1>3, <1>5, <1>6 DEF InitiallyRight, from, id
    <2>3. LastWord(queue, running, out, from, id, s, f, InitiallyRight(s, f), v)
        BY <1>8 DEF StreamRight, WordRight, from, id
    <2> HIDE DEF v
    <2>4. LastWord(queue, running, Append(out, fr), from, id, s, f, InitiallyRight(s, f), v)
        BY <1>4, <1>5, <2>3, WordFramed
    <2>5. LastWord(queue, running, Append(out, fr), from, id, s, f, InitiallyRight(s, f)', v)
        BY <2>1, <2>2, <2>4 DEF LastWord
    <2> QED
        BY <1>1, <2>5 DEF WordRight, from, id, v
  <1> QED
      BY <1>7, <1>8 DEF StreamRight

\* The walk comes to a file.
LEMMA StreamScanned ==
    ASSUME QueryInv, NEW g \in File, Scan(g), NEW s, Unanswered(s), StreamRight(s)
    PROVE  StreamRight(s)'
  <1>1. /\ reader = "scan" /\ g \in unseen /\ unseen' = unseen \ {g}
        /\ entries' = IF g \in matching \cap Inside THEN entries \cup {g} ELSE entries
        /\ UNCHANGED <<reader, queue, running, current, fetchedAt, queryOf, newest, out, matching>>
      BY DEF Scan, KeepSessions, KeepLooper, KeepOthers, kernelVars, newest
  <1>2. Unanswered(s)' /\ g \notin entries
      BY <1>1 DEF Unanswered, Opening, QueryInv, SessionIds
  <1>3. OneResult(s)'
      BY <1>1, <1>2 DEF StreamRight, OneResult
  <1>4. ASSUME NEW f \in Inside PROVE WordRight(s, f)'
    <2>1. InitiallyRight(s, f) => InitiallyRight(s, f)'
        BY <1>1, <1>2 DEF InitiallyRight
    <2>2. LastWord(queue, running, out, fetchedAt[s], queryOf[s], s, f, InitiallyRight(s, f), f \in matching)
        BY <1>4 DEF StreamRight, WordRight
    <2>3. LastWord(queue, running, out, fetchedAt[s], queryOf[s], s, f, InitiallyRight(s, f)', f \in matching)
        BY <2>1, <2>2 DEF LastWord
    <2> QED
        BY <1>1, <2>3 DEF WordRight
  <1> QED
      BY <1>3, <1>4 DEF StreamRight

\* A session goes live: nothing has been said yet, and nothing has been seen.
LEMMA StreamBegins ==
    ASSUME QueryInv, Fetch, NEW s, s = newest, s \in Session, current.op = "open"
    PROVE  StreamRight(s)'
  <1>1. /\ reader = "fetch" /\ reader' = "scan" /\ unseen' = File
        /\ fetchedAt' = [fetchedAt EXCEPT ![newest] = Len(out)]
        /\ UNCHANGED <<queue, running, current, queryOf, newest, out>>
      BY DEF Fetch, KeepLooper, newest
  <1>2. Unanswered(s)' /\ fetchedAt'[s] = Len(out) /\ Len(out) \in Nat
      BY <1>1, LenProperties DEF Unanswered, Opening, QueryInv, TypeOK
  <1>3. Len(out) + 1 .. Len(out) = {}
      BY <1>2
  <1>4. /\ Results(out', fetchedAt'[s], queryOf'[s]) = {}
        /\ \A f : Updates(out', fetchedAt'[s], queryOf'[s], f) = {}
      BY <1>1, <1>2, <1>3 DEF Results, Updates
  <1>5. \A f : Posted(queue', s, f) = {} /\ ~Concerns(running', s, f)
      BY <1>1 DEF QueryInv, Messages, Posted, Concerns
  <1>6. \A f \in Inside : InitiallyRight(s, f)'
      BY <1>1, <1>2, LiveQueryAssumption DEF InitiallyRight
  <1>7. OneResult(s)'
      BY <1>2, <1>4 DEF OneResult
  <1>8. \A f \in Inside : WordRight(s, f)'
      BY <1>4, <1>5, <1>6 DEF WordRight, LastWord
  <1> QED
      BY <1>7, <1>8 DEF StreamRight

LEMMA StreamInvInit == Init => StreamInv
  <1> SUFFICES ASSUME Init PROVE StreamInv
      OBVIOUS
  <1>1. newest = 0 /\ Len(out) = 0 /\ 1 .. 0 = {}
      BY DEF Init, newest
  <1> QED
      BY <1>1 DEF Init, StreamInv

LEMMA FetchedStep ==
    ASSUME QueryInv, StreamInv, [Next]_vars
    PROVE  \A s \in Session : fetchedAt'[s] <= Len(out')
  <1> DEFINE old == Len(out)
  <1>1. old \in Nat /\ fetchedAt \in [Session -> Nat] /\ \A s \in Session : fetchedAt[s] <= old
      BY LenProperties DEF QueryInv, TypeOK, StreamInv
  <1>2. CASE out' = out /\ fetchedAt' = fetchedAt
      BY <1>1, <1>2
  <1>3. ASSUME NEW fr, out' = Append(out, fr), fetchedAt' = fetchedAt
        PROVE  \A s \in Session : fetchedAt'[s] <= Len(out')
    <2>1. Len(out') = old + 1
        BY <1>3, OneMoreFrame DEF QueryInv
    <2> QED
        BY <1>1, <1>3, <2>1
  <1>4. CASE Fetch
      BY <1>1, <1>4 DEF Fetch
  <1>5. CASE Reply
      BY <1>3, <1>5 DEF Reply, KeepSessions
  <1>6. CASE Acknowledge
      BY <1>3, <1>6 DEF Acknowledge, KeepSessions
  <1>7. CASE Refuse
      BY <1>3, <1>7 DEF Refuse, KeepSessions
  <1>8. CASE FetchFails
      BY <1>3, <1>8 DEF FetchFails
  <1>9. CASE PushQueryUpdate
    <2>1. fetchedAt' = fetchedAt /\ (out' = out \/ \E fr : out' = Append(out, fr))
        BY <1>9 DEF PushQueryUpdate, KeepSessions
    <2> QED
        BY <1>2, <1>3, <2>1
  <1>10. CASE \/ TakeMessage \/ AttachHandler \/ Scanned \/ (\E f \in File : Change(f) \/ Scan(f))
             \/ CloseQuery \/ DetachHandler \/ StoreSession
             \/ (\E q \in QueryId : ReceiveOpen(q) \/ ReceiveClose(q)) \/ (\E s \in Session : DestroyQuery(s))
             \/ QuitLooper \/ JoinLooper \/ ConnectionEnds
             \/ (\E r \in Request : PeerSends(r)) \/ Destroyed \/ UNCHANGED vars
    <2>1. UNCHANGED <<out, fetchedAt>>
        BY <1>10 DEF TakeMessage, AttachHandler, Scanned, Scan, Change, CloseQuery, DetachHandler, StoreSession,
            ReceiveOpen, ReceiveClose, DestroyQuery, QuitLooper, JoinLooper, ConnectionEnds,
            PeerSends, Destroyed, KeepReader, KeepSessions, serverVars, vars
    <2> QED
        BY <1>2, <2>1
  <1> QED
      BY <1>4, <1>5, <1>6, <1>7, <1>8, <1>9, <1>10 DEF Next, Server, Reader, Looper

LEMMA StreamStep ==
    ASSUME QueryInv, StreamInv, QueryInv', [Next]_vars
    PROVE  StreamInv'
  <1> SUFFICES ASSUME NEW s, s \in 1 .. newest', Tracked(s)'
               PROVE  StreamRight(s)'
      BY FetchedStep DEF StreamInv
  <1>0. newest \in Nat /\ s \in Session /\ fQueries \in [QueryId -> Nat] /\ current.q \in QueryId
        /\ current.op \in {"open", "close"}
        /\ current = [op |-> current.op, q |-> current.q, live |-> current.live, old |-> current.old]
    <2>1. newest \in Nat /\ newest' <= MaxOpens /\ MaxOpens \in Nat /\ newest' \in Nat
        BY ReaderFacts, LiveQueryAssumption, LenProperties DEF QueryInv, TypeOK, newest
    <2>2. s \in Session
        BY <2>1 DEF Session
    <2> QED
        BY <2>1, <2>2, ReaderFacts DEF QueryInv
  \* The stream of a session that was tracked before.
  <1>1. ASSUME Tracked(s) PROVE s \in 1 .. newest /\ StreamRight(s) /\ fetchedAt[s] <= Len(out)
      BY <1>0, <1>1, TrackedFacts DEF StreamInv
  <1> DEFINE Still == Tracked(s) /\ UNCHANGED <<queue, running, out, matching, entries, unseen, fetchedAt>>
                      /\ queryOf'[s] = queryOf[s] /\ Unanswered(s)' = Unanswered(s)
  <1>2. CASE Still
      BY <1>1, <1>2, StreamKept
  <1> DEFINE SameSessions == UNCHANGED <<fQueries, queryOf, replaced, reader, current>>
  <1>3. ASSUME SameSessions PROVE Tracked(s) /\ queryOf'[s] = queryOf[s] /\ Unanswered(s)' = Unanswered(s)
      BY <1>3 DEF Tracked, Opening, Unanswered, newest
  <1>4. ASSUME NEW g \in File, Change(g) PROVE StreamRight(s)'
    <2>1. SameSessions
        BY <1>4 DEF Change, KeepSessions
    <2> QED
        BY <1>1, <1>3, <1>4, <2>1, StreamChanged
  <1>5. CASE TakeMessage
    <2>1. SameSessions
        BY <1>5 DEF TakeMessage, KeepSessions, KeepReader
    <2> QED
        BY <1>1, <1>3, <1>5, <2>1, StreamTaken
  <1>6. CASE PushQueryUpdate
    <2>1. SameSessions
        BY <1>6 DEF PushQueryUpdate, KeepSessions, KeepReader
    <2> QED
        BY <1>1, <1>3, <1>6, <2>1, StreamPushed
  <1>7. CASE Refuse \/ Acknowledge \/ FetchFails
    <2>1. /\ UNCHANGED <<fQueries, queryOf, replaced, current, queue, running, matching, entries, unseen, fetchedAt>>
          /\ reader \in {"receive", "acknowledge", "fetch"} /\ reader' = "receive"
          /\ \E fr : out' = Append(out, fr) /\ fr.type \in {"error", "closed"}
        BY <1>7 DEF Refuse, Acknowledge, FetchFails, KeepSessions, KeepLooper, KeepOthers, kernelVars
    <2>2. Tracked(s) /\ queryOf'[s] = queryOf[s] /\ Unanswered(s)' = Unanswered(s)
        BY <2>1 DEF Tracked, Opening, Unanswered, newest
    <2>3. PICK fr : out' = Append(out, fr) /\ fr.type \in {"error", "closed"}
        BY <2>1
    <2>4. fr.type # "update" /\ ~IsResult(fr, queryOf[s])
        BY <2>3 DEF IsResult
    <2>5. TypeOK'
        BY DEF QueryInv
    <2> QED
        BY <1>0, <1>1, <2>1, <2>2, <2>3, <2>4, <2>5, StreamFramed
  <1>8. CASE Reply
    <2> DEFINE fr == [type |-> "result", q |-> current.q, entries |-> entries]
    <2>1. /\ UNCHANGED <<fQueries, queryOf, replaced, current, queue, running, matching, entries, unseen, fetchedAt>>
          /\ reader = "reply" /\ reader' = "receive" /\ out' = Append(out, fr) /\ newest' = newest
        BY <1>8 DEF Reply, KeepSessions, KeepLooper, KeepOthers, kernelVars, newest
    <2>2. PICK q \in QueryId : fQueries[q] = s /\ s # NoSession
        BY <2>1 DEF Tracked, Opening
    <2>3. Tracked(s)
        BY <2>1, <2>2 DEF Tracked
    <2>4. CASE s = newest
        BY <1>1, <1>8, <2>3, <2>4, StreamAnswered
    <2>5. CASE s # newest
      <3>1. queryOf[s] = q /\ fSink
          BY <2>2 DEF QueryInv, SessionIds
      <3>2. q # current.q
          BY <2>1, <2>2, <2>5 DEF QueryInv, SessionIds
      <3>3. fr.type # "update" /\ ~IsResult(fr, queryOf[s])
          BY <3>1, <3>2 DEF IsResult
      <3>4. Unanswered(s)' = Unanswered(s) /\ TypeOK'
          BY <2>1, <2>5 DEF Unanswered, QueryInv
      <3> HIDE DEF fr
      <3> QED
          BY <1>0, <1>1, <2>1, <2>3, <3>3, <3>4, StreamFramed
    <2> QED
        BY <2>4, <2>5
  <1>9. ASSUME NEW g \in File, Scan(g) PROVE StreamRight(s)'
    <2>1. SameSessions /\ UNCHANGED <<queue, running, out, matching, fetchedAt>>
        BY <1>9 DEF Scan, KeepSessions, KeepLooper, KeepOthers, kernelVars
    <2>2. Tracked(s) /\ queryOf'[s] = queryOf[s] /\ Unanswered(s)' = Unanswered(s)
        BY <1>3, <2>1
    <2>3. CASE Unanswered(s)
        BY <1>1, <1>9, <2>2, <2>3, StreamScanned
    <2>4. CASE ~Unanswered(s)
        BY <1>1, <2>1, <2>2, <2>4, StreamKept
    <2> QED
        BY <2>3, <2>4
  <1>10. CASE Fetch
    <2>1. /\ UNCHANGED <<fQueries, queryOf, replaced, current, queue, running, matching, out>> /\ newest' = newest
          /\ reader = "fetch" /\ reader' = "scan" /\ fetchedAt' = [fetchedAt EXCEPT ![newest] = Len(out)]
        BY <1>10 DEF Fetch, KeepLooper, KeepOthers, kernelVars, newest
    <2>2. CASE s = newest
      <3>1. current.op = "open"
          BY <2>1, ReaderFacts DEF QueryInv
      <3> QED
          BY <1>0, <1>10, <2>2, <3>1, StreamBegins
    <2>3. CASE s # newest
      <3>1. Tracked(s) /\ ~Unanswered(s) /\ ~Unanswered(s)'
          BY <2>1, <2>3 DEF Tracked, Unanswered, Opening
      <3>2. fetchedAt'[s] = fetchedAt[s]
          BY <1>0, <2>1, <2>3 DEF QueryInv, TypeOK
      <3>3. Unanswered(s)' = Unanswered(s)
          BY <3>1 DEF Unanswered
      <3> QED
          BY <1>1, <2>1, <3>1, <3>2, <3>3, StreamKept
    <2> QED
        BY <2>2, <2>3
  <1>11. ASSUME NEW q \in QueryId, ReceiveOpen(q) PROVE StreamRight(s)'
    <2>1. /\ UNCHANGED <<fQueries, replaced, queue, running, out, matching, entries, unseen, fetchedAt>>
          /\ reader = "receive" /\ reader' \in {"target", "fetch"} /\ queryOf' = Append(queryOf, q)
        BY <1>11 DEF ReceiveOpen, KeepLooper, kernelVars
    <2>2. Tracked(s) /\ ~Unanswered(s) /\ ~Unanswered(s)'
        BY <2>1 DEF Tracked, Opening, Unanswered
    <2>3. queryOf'[s] = queryOf[s]
        BY <1>1, <2>1, <2>2, ReaderFacts, AppendProperties DEF QueryInv
    <2>4. Unanswered(s)' = Unanswered(s)
        BY <2>2 DEF Unanswered
    <2> QED
        BY <1>2, <2>1, <2>2, <2>3, <2>4
  <1>12. CASE Scanned
    <2>1. /\ UNCHANGED <<fQueries, queryOf, replaced, current, queue, running, out, matching, entries, unseen, fetchedAt>>
          /\ newest' = newest /\ reader = "scan" /\ reader' = IF current.live THEN "closeOld" ELSE "reply"
        BY <1>12 DEF Scanned, KeepSessions, KeepLooper, KeepOthers, kernelVars, newest
    <2>2. current.op = "open" /\ Opening /\ Opening'
        BY <2>1, ReaderFacts DEF Opening, QueryInv
    <2>3. reader' = "reply" => ~Tracked(s)'
      <3> SUFFICES ASSUME reader' = "reply" PROVE ~Tracked(s)'
          OBVIOUS
      <3>1. fSink = FALSE
          BY <2>1, <2>2 DEF QueryInv, SessionIds, TypeOK
      <3> QED
          BY <2>1, <3>1 DEF Tracked, QueryInv, SessionIds
    <2>4. Tracked(s) /\ Unanswered(s)' = Unanswered(s)
        BY <2>1, <2>2, <2>3 DEF Tracked, Unanswered
    <2> QED
        BY <1>2, <2>1, <2>4
  <1>13. CASE CloseQuery
    <2>1. /\ UNCHANGED <<queryOf, queue, running, out, matching, entries, unseen, fetchedAt>>
          /\ newest' = newest /\ reader = "closeOld"
          /\ fQueries' = [fQueries EXCEPT ![current.q] = NoSession]
          /\ current' = [current EXCEPT !.old = fQueries[current.q]]
          /\ reader' = IF fQueries[current.q] = NoSession THEN AfterClose ELSE "detachOld"
          /\ replaced' = IF current.op = "open" /\ fQueries[current.q] # NoSession
                         THEN replaced \cup {newest} ELSE replaced
        BY <1>13 DEF CloseQuery, KeepLooper, KeepOthers, kernelVars, newest
    <2>2. current'.op = current.op /\ current'.q = current.q /\ current'.live = current.live
        BY <1>0, <2>1
    <2>3. \A q \in QueryId : fQueries'[q] = IF q = current.q THEN NoSession ELSE fQueries[q]
        BY <1>0, <2>1
    <2>4. Opening' = Opening
        BY <1>0, <2>1, <2>2 DEF Opening, AfterClose
    <2>5. Tracked(s) /\ Unanswered(s)' = Unanswered(s)
        BY <1>0, <2>1, <2>2, <2>3, <2>4 DEF Tracked, Unanswered, Opening
    <2> QED
        BY <1>2, <2>1, <2>5
  <1>14. CASE DetachHandler
    <2>1. /\ UNCHANGED <<fQueries, queryOf, replaced, current, queue, running, out, matching, entries, unseen, fetchedAt>>
          /\ newest' = newest /\ reader = "detachOld" /\ reader' = AfterClose
        BY <1>14 DEF DetachHandler, KeepLooper, KeepOthers, kernelVars, newest
    <2>2. Tracked(s) /\ Unanswered(s)' = Unanswered(s)
        BY <1>0, <2>1 DEF Tracked, Unanswered, Opening, AfterClose
    <2> QED
        BY <1>2, <2>1, <2>2
  <1>15. CASE StoreSession
    <2>1. /\ UNCHANGED <<queryOf, replaced, current, queue, running, out, matching, entries, unseen, fetchedAt>>
          /\ newest' = newest /\ reader = "store" /\ reader' = "reply"
          /\ fQueries' = [fQueries EXCEPT ![current.q] = newest]
        BY <1>15 DEF StoreSession, KeepLooper, KeepOthers, kernelVars, newest
    <2>2. current.op = "open" /\ current.live /\ fQueries[current.q] = NoSession /\ Opening /\ Opening'
        BY <2>1, ReaderFacts DEF QueryInv, Opening
    <2>3. \A q \in QueryId : fQueries'[q] = IF q = current.q THEN newest ELSE fQueries[q]
        BY <1>0, <2>1
    <2>4. Tracked(s) /\ Unanswered(s)' = Unanswered(s)
        BY <2>1, <2>2, <2>3 DEF Tracked, Unanswered
    <2> QED
        BY <1>2, <2>1, <2>4
  <1>16. ASSUME NEW q \in QueryId, ReceiveClose(q) PROVE StreamRight(s)'
    <2>1. /\ UNCHANGED <<fQueries, queryOf, replaced, queue, running, out, matching, entries, unseen, fetchedAt>>
          /\ newest' = newest /\ reader = "receive" /\ current'.op = "close"
        BY <1>16 DEF ReceiveClose, KeepSessions, KeepLooper, kernelVars, newest
    <2>2. Tracked(s) /\ Unanswered(s)' = Unanswered(s)
        BY <2>1 DEF Tracked, Unanswered, Opening
    <2> QED
        BY <1>2, <2>1, <2>2
  <1>17. CASE AttachHandler \/ QuitLooper \/ JoinLooper
    <2>1. /\ UNCHANGED <<fQueries, queryOf, replaced, current, queue, running, out, matching, entries, unseen, fetchedAt>>
          /\ newest' = newest
          /\ reader \in {"target", "destroyQueries", "joinLooper"}
          /\ reader' \in {"fetch", "joinLooper", "destroyed"}
        BY <1>17 DEF AttachHandler, QuitLooper, JoinLooper, KeepSessions, KeepLooper, KeepOthers, kernelVars, newest
    <2>2. Tracked(s) /\ Unanswered(s)' = Unanswered(s)
        BY <2>1 DEF Tracked, Unanswered, Opening
    <2> QED
        BY <1>2, <2>1, <2>2
  <1>18. CASE ConnectionEnds
    <2>1. ~Tracked(s)'
        BY <1>18 DEF ConnectionEnds, Tracked, Opening, NoSession
    <2> QED
        BY <2>1
  <1>19. CASE \/ (\E t \in Session : DestroyQuery(t)) \/ (\E r \in Request : PeerSends(r))
              \/ Destroyed \/ UNCHANGED vars
    <2>1. SameSessions /\ UNCHANGED <<queue, running, out, matching, entries, unseen, fetchedAt>>
        BY <1>19 DEF DestroyQuery, PeerSends, Destroyed, KeepLooper, KeepOthers, kernelVars, serverVars, vars
    <2> QED
        BY <1>2, <1>3, <2>1
  <1> QED
      BY <1>4, <1>5, <1>6, <1>7, <1>8, <1>9, <1>10, <1>11, <1>12, <1>13, <1>14, <1>15,
         <1>16, <1>17, <1>18, <1>19
      DEF Next, Server, Reader, Looper

\* Once all is handled the frames of a session add up to the matching files.
LEMMA FramesAddUp ==
    ASSUME QueryInv, StreamInv
    PROVE  NothingIsMissed
  <1> SUFFICES ASSUME NEW q \in QueryId, reader = "receive", queue = <<>>, LooperUnlocked,
                      fQueries[q] # NoSession, fQueries[q] \notin replaced
               PROVE  Reported(fQueries[q]) = matching \cap Inside
      BY DEF NothingIsMissed
  <1> DEFINE s == fQueries[q]
             from == fetchedAt[s]
             id == queryOf[s]
  <1>1. Tracked(s) /\ ~Unanswered(s)
      BY DEF Tracked, Opening, Unanswered
  <1>2. s \in 1 .. newest /\ s \in Session /\ StreamRight(s)
      BY <1>1, TrackedFacts DEF StreamInv
  <1>3. from \in Nat /\ Len(out) \in Nat
      BY <1>2, LenProperties DEF QueryInv, TypeOK
  <1>4. PICK k : Results(out, from, id) = {k}
      BY <1>1, <1>2 DEF StreamRight, OneResult
  <1>5. k \in 1 .. Len(out) /\ out[k].type = "result" /\ InitialSet(id, from) = out[k].entries
    <2>1. k \in from + 1 .. Len(out) /\ out[k].type = "result"
        BY <1>4 DEF Results, IsResult
    <2>2. {i \in from + 1 .. Len(out) : out[i].type = "result" /\ out[i].q = id} = {k}
        BY <1>4 DEF Results, IsResult
    <2>3. (CHOOSE i \in {k} : TRUE) = k
        OBVIOUS
    <2> QED
        BY <1>3, <2>1, <2>2, <2>3 DEF InitialSet
  <1>7. ASSUME NEW f
        PROVE  LastUpdate(id, from, f) =
               IF Updates(out, from, id, f) = {} THEN 0
               ELSE CHOOSE i \in Updates(out, from, id, f) : \A j \in Updates(out, from, id, f) : j <= i
    <2> HIDE DEF id, from
    <2> QED
        BY DEF LastUpdate, Updates, IsUpdate
  <1>8. ASSUME NEW f \in File
        PROVE  (IF LastUpdate(id, from, f) = 0 THEN f \in InitialSet(id, from)
                ELSE out[LastUpdate(id, from, f)].added) = (f \in matching \cap Inside)
    <2> DEFINE U == Updates(out, from, id, f)
    <2>1. CASE f \notin Inside
      <3>1. U = {}
        <4>1. \A i \in from + 1 .. Len(out) : i \in 1 .. Len(out)
            BY <1>3
        <4> QED
            BY <2>1, <4>1 DEF Updates, IsUpdate, QueryInv, RootKept
      <3>2. f \notin out[k].entries
          BY <1>5, <2>1 DEF QueryInv, RootKept
      <3> QED
          BY <1>5, <1>7, <2>1, <3>1, <3>2
    <2>2. CASE f \in Inside
      <3>1. Posted(queue, s, f) = {}
        <4>1. Len(<<>>) = 0 /\ 1 .. 0 = {}
            OBVIOUS
        <4> QED
            BY <4>1 DEF Posted
      <3>2. ~Concerns(running, s, f)
          BY <1>2 DEF LooperUnlocked, NoMessage, NoSession, Concerns
      <3>3. LastWord(queue, running, out, from, id, s, f, InitiallyRight(s, f), f \in matching)
          BY <1>2, <2>2 DEF StreamRight, WordRight
      <3>4. \/ \E i \in U : IsLast(i, U) /\ out[i].added = (f \in matching)
            \/ U = {} /\ InitiallyRight(s, f)
          BY <3>1, <3>2, <3>3 DEF LastWord
      <3>5. ASSUME NEW i \in U, IsLast(i, U), out[i].added = (f \in matching)
            PROVE  LastUpdate(id, from, f) = i /\ i # 0
        <4>1. \A j \in U : j \in Nat /\ j # 0
            BY <1>3 DEF Updates
        <4>2. \A j \in U : (\A l \in U : l <= j) => j = i
            BY <3>5, <4>1 DEF IsLast
        <4>3. (CHOOSE j \in U : \A l \in U : l <= j) = i
            BY <3>5, <4>2 DEF IsLast
        <4> QED
            BY <1>7, <3>5, <4>1, <4>3
      <3>6. CASE \E i \in U : IsLast(i, U) /\ out[i].added = (f \in matching)
          BY <2>2, <3>5, <3>6
      <3>7. CASE U = {} /\ InitiallyRight(s, f)
        <4>1. f \in out[k].entries <=> f \in matching
            BY <1>1, <1>4, <3>7 DEF InitiallyRight
        <4> QED
            BY <1>5, <1>7, <2>2, <3>7, <4>1
      <3> QED
          BY <3>4, <3>6, <3>7
    <2> QED
        BY <2>1, <2>2
  <1>9. matching \cap Inside \subseteq File
      BY LiveQueryAssumption
  <1>10. Reported(s) = {f \in File : IF LastUpdate(id, from, f) = 0 THEN f \in InitialSet(id, from)
                                     ELSE out[LastUpdate(id, from, f)].added}
      BY DEF Reported
  <1> QED
      BY <1>8, <1>9, <1>10

\* For any files, ids, requests and interleaving, what a session is sent adds up
\* to the matching files under the shared root, however they changed while the
\* initial set was collected (FileServer.cpp, HandleQueryOpen, PushQueryUpdate).
THEOREM UpdatesAddUp == Spec => []NothingIsMissed
  <1>1. QueryInv /\ StreamInv /\ [Next]_vars => QueryInv' /\ StreamInv'
      BY QueryInvStep, StreamStep
  <1> QED
      BY <1>1, QueryInvInit, StreamInvInit, FramesAddUp, PTL DEF Spec

\* The state of a connection is of its type: what is posted, in hand and sent are
\* messages and frames of sessions and files that exist (FileServer.cpp).
THEOREM LiveQueryTypeCorrect == Spec => []TypeOK
  <1>1. QueryInv => TypeOK
      BY DEF QueryInv
  <1> QED
      BY <1>1, QueryInvInit, QueryInvStep, PTL DEF Spec

\* The sink ServeConnection installs stays until the connection ends.
SinkKept == reader \notin {"destroyQueries", "joinLooper", "destroyed"} => fSink = ~Gated

\* A server that is not gated answers QUERY_OPEN only with a live session in the
\* map: what the run with a GatedHandler refutes holds without one
\* (FileServer.cpp, HandleQueryOpen).
THEOREM UngatedAnswersAreLive ==
    ASSUME ~Gated
    PROVE  Spec => AnsweredQueriesAreLive
  <1>1. Init => SinkKept
      BY DEF Init, SinkKept
  <1>2. SinkKept /\ [Next]_vars => SinkKept'
    <2> SUFFICES ASSUME SinkKept, [Next]_vars PROVE SinkKept'
        OBVIOUS
    <2>1. CASE ConnectionEnds \/ QuitLooper \/ JoinLooper
        BY <2>1 DEF SinkKept, ConnectionEnds, QuitLooper, JoinLooper
    <2>2. CASE Reader /\ ~QuitLooper /\ ~JoinLooper
      <3>1. fSink' = fSink /\ (reader \notin {"destroyQueries", "joinLooper", "destroyed"} \/ reader' = reader)
          BY <2>2 DEF Reader, ReceiveOpen, ReceiveClose, Refuse, AttachHandler, Fetch, FetchFails, Scanned,
                 Scan, CloseQuery, DetachHandler, StoreSession, Reply, Acknowledge, DestroyQuery
      <3> QED
          BY <3>1 DEF SinkKept
    <2>3. CASE Looper \/ (\E f \in File : Change(f)) \/ (\E r \in Request : PeerSends(r)) \/ Destroyed
               \/ UNCHANGED vars
        BY <2>3 DEF SinkKept, Looper, TakeMessage, PushQueryUpdate, KeepReader, Change, PeerSends, Destroyed,
                    serverVars, vars
    <2> QED
        BY <2>1, <2>2, <2>3 DEF Next, Server
  <1>3. QueryInv /\ SinkKept => (reader = "reply" => fQueries[current.q] # NoSession)
    <2> SUFFICES ASSUME QueryInv, SinkKept, reader = "reply" PROVE fQueries[current.q] # NoSession
        OBVIOUS
    <2>1. fSink = TRUE /\ current.op = "open"
        BY DEF SinkKept, QueryInv, SessionIds
    <2>2. newest > 0 /\ newest \in Nat /\ current.live
        BY <2>1, ReaderFacts DEF QueryInv, SessionIds, Opening
    <2> QED
        BY <2>2 DEF QueryInv, SessionIds, NoSession
  <1>4. QueryInv /\ SinkKept => [reader = "reply" /\ reader' = "receive" => fQueries[current.q] # NoSession]_vars
      BY <1>3
  <1> QED
      BY <1>1, <1>2, <1>4, QueryInvInit, QueryInvStep, PTL DEF Spec, AnsweredQueriesAreLive

-----------------------------------------------------------------------------
\* LiveQueryClient against this server.

NoResult == \A i \in 1 .. Len(out) : out[i].type # "result"

OpenRequest == [op |-> "open", q |-> fQueryId]

\* Where the server can be with the one request of Open: not received, or
\* refused; being handled; answered, with the session stored.
Before ==
    /\ reader = "receive" /\ NoResult /\ fQueries[fQueryId] = NoSession
    /\ inbox \in {<<>>, <<OpenRequest>>}

During ==
    /\ reader \in {"target", "fetch", "scan", "closeOld", "store", "reply"}
    /\ current.op = "open" /\ current.live /\ current.q = fQueryId
    /\ reader # "reply" => fQueries[fQueryId] = NoSession
    /\ NoResult /\ inbox = <<>>

Live == reader = "receive" /\ inbox = <<>> /\ fQueries[fQueryId] # NoSession

\* While the channel is up the server keeps step with the caller.
Phases ==
    ~down =>
      /\ fSink = TRUE
      /\ caller = "idle" => Before /\ inbox = <<>>
      /\ caller = "opening" => Before \/ During \/ Live
      /\ caller = "open" => Live

\* The last word on a file that has changed since, from what is still to be
\* received on.
ClientWord(f) ==
    LastWord(queue, running, out, received, fQueryId, fQueries[fQueryId], f,
             f \in view <=> f \in matching, f \in matching)

ClientInv ==
    /\ received \in 0 .. Len(out)
    /\ view \subseteq Inside
    /\ caller \in {"idle", "opening"} => changedSince = {}
    /\ Phases
    /\ caller = "open" /\ ~down => \A f \in changedSince \cap Inside : ClientWord(f)

\* Every step of the client is a step of the server's environment, or none.
LEMMA ClientSimulation ==
    ASSUME [ClientNext]_allVars
    PROVE  [Next]_vars
  <1>1. ASSUME NEW op \in {"open", "close"}, Send(op), ~down, asked < MaxRequests,
               UNCHANGED <<serverVars, kernelVars>>
        PROVE  \E r \in Request : PeerSends(r)
    <2>1. [op |-> op, q |-> fQueryId] \in Request
        BY ClientAssumption DEF Request
    <2> QED
        BY <1>1, <2>1 DEF Send, PeerSends
  <1>2. CASE Open
      BY <1>1, <1>2 DEF Open, Next
  <1>3. CASE CloseSend
    <2>1. CASE down
        BY <1>3, <2>1 DEF CloseSend, Send, vars
    <2>2. CASE ~down
        BY <1>1, <1>3, <2>2 DEF CloseSend, Next
    <2> QED
        BY <2>1, <2>2
  <1>4. CASE Client \/ ChannelFails \/ Over \/ UNCHANGED allVars
      BY <1>4 DEF Client, OpenReceives, OpenFails, ReceiveLoop, ReceiveLoopEnds, CloseShutdown, CloseJoin,
                  ChannelFails, Over, allVars
  <1>5. CASE ServerSteps
      BY <1>5 DEF ServerSteps, Next, Server
  <1>6. CASE \E f \in File : FileChanges(f)
      BY <1>6 DEF FileChanges, Next
  <1> QED
      BY <1>2, <1>3, <1>4, <1>5, <1>6 DEF ClientNext

LEMMA ClientInvInit ==
    ASSUME ~Gated, ClientInit
    PROVE  ClientInv
  <1>1. Len(out) = 0 /\ 1 .. 0 = {} /\ 0 \in 0 .. 0
      BY DEF ClientInit, Init
  <1>2. fSink = TRUE /\ fQueries[fQueryId] = NoSession
      BY ClientAssumption, LiveQueryAssumption DEF ClientInit, Init
  <1> QED
      BY <1>1, <1>2 DEF ClientInit, Init, ClientInv, Phases, Before, NoResult

\* The frames only grow.
LEMMA FramesGrow ==
    ASSUME QueryInv, QueryInv', [Next]_vars
    PROVE  /\ Len(out) \in Nat /\ Len(out') \in Nat /\ Len(out) <= Len(out')
           /\ \A i \in 1 .. Len(out) : out'[i] = out[i]
  <1>1. Len(out) \in Nat /\ Len(out') \in Nat
      BY LenProperties DEF QueryInv, TypeOK
  <1>2. out' = out \/ \E fr : out' = Append(out, fr)
    <2>1. CASE Looper
        BY <2>1 DEF Looper, TakeMessage, PushQueryUpdate
    <2>2. CASE Refuse \/ FetchFails \/ Reply \/ Acknowledge
        BY <2>2 DEF Refuse, FetchFails, Reply, Acknowledge
    <2>3. CASE \/ AttachHandler \/ Scanned \/ Fetch \/ (\E f \in File : Change(f) \/ Scan(f))
               \/ CloseQuery \/ DetachHandler \/ StoreSession
               \/ (\E q \in QueryId : ReceiveOpen(q) \/ ReceiveClose(q)) \/ (\E s \in Session : DestroyQuery(s))
               \/ QuitLooper \/ JoinLooper \/ ConnectionEnds
               \/ (\E r \in Request : PeerSends(r)) \/ Destroyed \/ UNCHANGED vars
        BY <2>3 DEF AttachHandler, Scanned, Fetch, Scan, Change, CloseQuery, DetachHandler, StoreSession,
            ReceiveOpen, ReceiveClose, DestroyQuery, QuitLooper, JoinLooper, ConnectionEnds,
            PeerSends, Destroyed, serverVars, vars
    <2> QED
        BY <2>1, <2>2, <2>3 DEF Next, Server, Reader
  <1>3. ASSUME NEW fr, out' = Append(out, fr)
        PROVE  Len(out) <= Len(out') /\ \A i \in 1 .. Len(out) : out'[i] = out[i]
    <2>1. Len(out') = Len(out) + 1 /\ \A i \in 1 .. Len(out) : out'[i] = out[i]
        BY <1>3, OneMoreFrame DEF QueryInv
    <2> QED
        BY <1>1, <2>1
  <1> QED
      BY <1>1, <1>2, <1>3

\* A frame that is not a result keeps there being none.
LEMMA NoResultKept ==
    ASSUME QueryInv, NoResult, out' = out \/ \E fr : out' = Append(out, fr) /\ fr.type # "result"
    PROVE  NoResult'
  <1>1. CASE out' = out
      BY <1>1 DEF NoResult
  <1>2. ASSUME NEW fr, out' = Append(out, fr), fr.type # "result" PROVE NoResult'
    <2>1. /\ Len(out) \in Nat /\ Len(out') = Len(out) + 1 /\ out'[Len(out) + 1] = fr
          /\ \A i \in 1 .. Len(out) : out'[i] = out[i]
        BY <1>2, OneMoreFrame DEF QueryInv
    <2>2. \A i \in 1 .. Len(out') : i \in 1 .. Len(out) \/ i = Len(out) + 1
        BY <2>1
    <2> QED
        BY <1>2, <2>1, <2>2 DEF NoResult
  <1> QED
      BY <1>1, <1>2

\* The server's steps with the channel up.
LEMMA PhaseStep ==
    ASSUME QueryInv, fSink = TRUE, Reader \/ Looper \/ \E f \in File : Change(f)
    PROVE  /\ fSink' = TRUE
           /\ Before /\ inbox = <<>> => Before' /\ inbox' = <<>>
           /\ Before => Before' \/ During'
           /\ During => Before' \/ During' \/ Live'
           /\ Live => Live' /\ UNCHANGED <<fQueries, handlers, target, reader>> /\ ~Reader
  <1> DEFINE SameServer == UNCHANGED <<fSink, reader, inbox, fQueries, current, handlers, target>>
  <1>0. /\ newest \in Nat /\ current.op \in {"open", "close"} /\ fQueries \in [QueryId -> Nat]
        /\ current = [op |-> current.op, q |-> current.q, live |-> current.live, old |-> current.old]
        /\ fQueryId \in QueryId
      BY ReaderFacts, ClientAssumption DEF QueryInv
  <1>1. CASE Looper \/ \E f \in File : Change(f)
    <2>1. SameServer /\ (out' = out \/ \E fr : out' = Append(out, fr) /\ fr.type # "result")
      <3>1. CASE TakeMessage \/ \E f \in File : Change(f)
          BY <3>1 DEF TakeMessage, Change, KeepSessions, KeepReader, KeepOthers, peerVars
      <3>2. CASE PushQueryUpdate
          BY <3>2 DEF PushQueryUpdate, KeepSessions, KeepReader, KeepOthers, peerVars
      <3> QED
          BY <1>1, <3>1, <3>2 DEF Looper
    <2>2. NoResult => NoResult'
        BY <2>1, NoResultKept
    <2>3. reader = "receive" /\ inbox = <<>> => ~Reader
        BY DEF Reader, ReceiveOpen, ReceiveClose, Refuse, AttachHandler, Fetch, FetchFails, Scanned, Scan,
               CloseQuery, DetachHandler, StoreSession, Reply, Acknowledge, DestroyQuery, QuitLooper, JoinLooper
    <2> QED
        BY <2>1, <2>2, <2>3 DEF Before, During, Live
  <1>2. CASE Reader
    <2>1. ~Live /\ ~(Before /\ inbox = <<>>)
        BY <1>2 DEF Before, Live, Reader, ReceiveOpen, ReceiveClose, Refuse, AttachHandler, Fetch, FetchFails,
               Scanned, Scan, CloseQuery, DetachHandler, StoreSession, Reply, Acknowledge, DestroyQuery,
               QuitLooper, JoinLooper
    <2>2. fSink' = TRUE
        BY <1>2 DEF Reader, ReceiveOpen, ReceiveClose, Refuse, AttachHandler, Fetch, FetchFails, Scanned, Scan,
               CloseQuery, DetachHandler, StoreSession, Reply, Acknowledge, DestroyQuery, QuitLooper, JoinLooper
    <2>3. ASSUME Before PROVE Before' \/ During'
      <3>1. inbox = <<OpenRequest>> /\ Head(inbox) = OpenRequest /\ Tail(inbox) = <<>> /\ reader = "receive"
        <4>1. inbox # <<>> /\ inbox \in {<<>>, <<OpenRequest>>} /\ reader = "receive"
            BY <2>1, <2>3 DEF Before
        <4>2. \A x : Head(<<x>>) = x /\ Tail(<<x>>) = <<>>
            OBVIOUS
        <4>3. inbox = <<OpenRequest>>
            BY <4>1
        <4> QED
            BY <4>1, <4>2, <4>3
      <3>2. CASE Refuse
        <4>1. /\ UNCHANGED <<reader, fQueries>> /\ inbox' = <<>>
              /\ \E fr : out' = Append(out, fr) /\ fr.type # "result"
            BY <3>1, <3>2 DEF Refuse, KeepSessions
        <4>2. NoResult'
            BY <2>3, <4>1, NoResultKept DEF Before
        <4> QED
            BY <2>3, <4>1, <4>2 DEF Before
      <3>3. ASSUME NEW q \in QueryId, ReceiveOpen(q) PROVE During'
        <4>1. q = fQueryId
            BY <3>1, <3>3 DEF ReceiveOpen, OpenRequest
        <4>2. /\ reader' = "target" /\ inbox' = <<>> /\ UNCHANGED <<fQueries, out>>
              /\ current' = [op |-> "open", q |-> q, live |-> TRUE, old |-> NoSession]
            BY <3>1, <3>3 DEF ReceiveOpen
        <4> QED
            BY <2>3, <4>1, <4>2 DEF Before, During, NoResult
      <3>4. ASSUME NEW q \in QueryId PROVE ~ReceiveClose(q)
        <4>1. OpenRequest.op = "open" /\ [op |-> "close", q |-> q].op = "close"
            BY DEF OpenRequest
        <4> QED
            BY <3>1, <4>1 DEF ReceiveClose
      <3> QED
          BY <1>2, <3>1, <3>2, <3>3, <3>4 DEF Reader, AttachHandler, Fetch, FetchFails, Scanned, Scan,
               CloseQuery, DetachHandler, StoreSession, Reply, Acknowledge, DestroyQuery, QuitLooper, JoinLooper
    <2>4. ASSUME During PROVE Before' \/ During' \/ Live'
      <3>0. current.q = fQueryId /\ current.op = "open" /\ current.live = TRUE /\ inbox = <<>>
          BY <2>4 DEF During, QueryInv, TypeOK
      <3>1. CASE AttachHandler \/ Fetch \/ Scanned \/ \E f \in File : Scan(f)
          BY <2>4, <3>0, <3>1 DEF AttachHandler, Fetch, Scanned, Scan, During, NoResult,
             KeepOthers, peerVars, KeepSessions
      <3>2. CASE FetchFails
        <4>1. /\ reader = "fetch" /\ reader' = "receive" /\ UNCHANGED <<fQueries, inbox>>
              /\ \E fr : out' = Append(out, fr) /\ fr.type # "result"
            BY <3>2 DEF FetchFails, KeepOthers, peerVars
        <4>2. NoResult'
            BY <2>4, <4>1, NoResultKept DEF During
        <4> QED
            BY <2>4, <3>0, <4>1, <4>2 DEF Before, During
      <3>3. CASE CloseQuery
        <4>1. /\ reader = "closeOld" /\ fQueries' = [fQueries EXCEPT ![current.q] = NoSession]
              /\ current' = [current EXCEPT !.old = fQueries[current.q]] /\ UNCHANGED <<inbox, out>>
              /\ reader' = IF fQueries[current.q] = NoSession THEN AfterClose ELSE "detachOld"
            BY <3>3 DEF CloseQuery, KeepOthers, peerVars
        <4>2. current'.op = "open" /\ current'.q = fQueryId /\ current'.live = TRUE
            BY <1>0, <3>0, <4>1
        <4>3. reader' = "store" /\ fQueries'[fQueryId] = NoSession
            BY <1>0, <2>4, <3>0, <4>1 DEF During, AfterClose
        <4> QED
            BY <2>4, <3>0, <4>1, <4>2, <4>3 DEF During, NoResult
      <3>4. CASE StoreSession
          BY <2>4, <3>0, <3>4 DEF StoreSession, During, NoResult, KeepOthers, peerVars
      <3>5. CASE Reply
        <4>1. /\ reader = "reply" /\ reader' = "receive" /\ UNCHANGED <<fQueries, inbox>>
            BY <3>5 DEF Reply, KeepSessions, KeepOthers, peerVars
        <4>2. fQueries[fQueryId] = newest /\ newest > 0
            BY <3>0, <4>1 DEF QueryInv, SessionIds, Opening
        <4> QED
            BY <1>0, <3>0, <4>1, <4>2 DEF Live, NoSession
      <3> QED
          BY <1>2, <2>4, <3>0, <3>1, <3>2, <3>3, <3>4, <3>5
          DEF During, Reader, ReceiveOpen, ReceiveClose, Refuse, DetachHandler, Acknowledge, DestroyQuery,
              QuitLooper, JoinLooper
    <2> QED
        BY <2>1, <2>2, <2>3, <2>4
  <1> QED
      BY <1>1, <1>2

\* The session of an open query: live, and alone under its id.
LEMMA LiveFacts ==
    ASSUME QueryInv, Live
    PROVE  /\ fQueries[fQueryId] \in handlers /\ fQueries[fQueryId] \in target
           /\ fQueries[fQueryId] # NoSession /\ queryOf[fQueries[fQueryId]] = fQueryId
           /\ \A t \in handlers : queryOf[t] = fQueryId => t = fQueries[fQueryId]
  <1>1. handlers = Stored /\ target = Stored /\ fQueries[fQueryId] # NoSession
      BY DEF Live, QueryInv, LiveInv, Owned
  <1>2. \A q \in QueryId : fQueries[q] # NoSession => queryOf[fQueries[q]] = q
      BY DEF QueryInv, SessionIds
  <1>3. \A t \in Stored : queryOf[t] = fQueryId => t = fQueries[fQueryId]
      BY <1>2 DEF Stored
  <1>4. fQueries[fQueryId] \in Stored
      BY <1>1, ClientAssumption DEF Stored
  <1> QED
      BY <1>1, <1>2, <1>3, <1>4, ClientAssumption

\* A frame received moves the view by what it says.
LEMMA ClientReceives ==
    ASSUME QueryInv, ClientInv, ReceiveLoop
    PROVE  ClientInv'
  <1> DEFINE B == Update \cup Result \cup Ack
             fr == out[received + 1]
  <1>1. /\ UNCHANGED vars /\ UNCHANGED <<caller, fStop, down, changedSince>>
        /\ received < Len(out) /\ received' = received + 1 /\ view' = Applied(fr) /\ ~down
      BY DEF ReceiveLoop, FrameReady, NextFrame
  <1>2. UNCHANGED <<fSink, reader, inbox, fQueries, current, queue, running, out, matching>>
      BY <1>1 DEF vars, serverVars, kernelVars, peerVars
  <1>3. Len(out) \in Nat /\ received \in Nat /\ out \in Seq(B) /\ received + 1 \in 1 .. Len(out)
      BY <1>1, LenProperties DEF QueryInv, TypeOK, ClientInv
  <1>4. fr \in B
    <2> HIDE DEF B
    <2> QED
        BY <1>3, ElementOfSeq
  <1>5. fr.type = "update" => fr.added \in BOOLEAN /\ fr.file \in Inside
    <2>1. fr.type = "update" => fr \in Update
        BY <1>4 DEF Result, Ack
    <2> QED
        BY <1>3, <2>1 DEF Update, QueryInv, RootKept
  <1>6. Phases' = Phases
      BY <1>1, <1>2 DEF Phases, Before, During, Live, NoResult, OpenRequest
  <1> HIDE DEF fr, B
  <1>7. view' \subseteq Inside
      BY <1>1, <1>5 DEF ClientInv, Applied
  <1>8. ASSUME caller = "open", NEW f \in changedSince \cap Inside
        PROVE  ClientWord(f)'
    <2> DEFINE before == f \in view <=> f \in matching
               after == f \in view' <=> f \in matching
               s == fQueries[fQueryId]
    <2>1. LastWord(queue, running, out, received, fQueryId, s, f, before, f \in matching)
        BY <1>1, <1>8 DEF ClientInv, ClientWord
    <2>2. IsUpdate(fr, fQueryId, f) /\ fr.added = (f \in matching) => after
        BY <1>1, <1>5 DEF IsUpdate, Applied
    <2>3. ~IsUpdate(fr, fQueryId, f) /\ before => after
        BY <1>1, <1>5 DEF IsUpdate, Applied
    <2> HIDE DEF before, after, s
    <2>4. LastWord(queue, running, out, received + 1, fQueryId, s, f, after, f \in matching)
        BY <1>1, <1>3, <2>1, <2>2, <2>3, WordReceived DEF fr
    <2> QED
        BY <1>1, <1>2, <2>4 DEF ClientWord, after, s
  <1> QED
      BY <1>1, <1>2, <1>3, <1>6, <1>7, <1>8 DEF ClientInv

\* The server's steps: with the channel up, only the looper moves an open query.
LEMMA ClientServed ==
    ASSUME QueryInv, QueryInv', ClientInv, ServerSteps
    PROVE  ClientInv'
  <1>1. UNCHANGED <<caller, thread, fStop, down, received, view, changedSince>>
      BY DEF ServerSteps, clientVars
  <1>2. [Next]_vars
      BY DEF ServerSteps, Next, Server
  <1>3. received \in 0 .. Len(out')
    <2>1. Len(out) \in Nat /\ Len(out') \in Nat /\ Len(out) <= Len(out')
        BY <1>2, FramesGrow
    <2> QED
        BY <2>1 DEF ClientInv
  <1>4. CASE down
      BY <1>1, <1>3, <1>4 DEF ClientInv, Phases
  <1>5. CASE ~down
    <2>1. fSink = TRUE /\ (Reader \/ Looper)
        BY <1>5 DEF ServerSteps, ClientInv, Phases
    <2>2. /\ fSink' = TRUE
          /\ Before /\ inbox = <<>> => Before' /\ inbox' = <<>>
          /\ Before => Before' \/ During'
          /\ During => Before' \/ During' \/ Live'
          /\ Live => Live' /\ UNCHANGED <<fQueries, handlers, target, reader>> /\ ~Reader
        BY <2>1, PhaseStep
    <2>3. Phases'
        BY <1>1, <1>5, <2>2 DEF ClientInv, Phases
    <2>4. ASSUME caller = "open", NEW f \in changedSince \cap Inside
          PROVE  ClientWord(f)'
      <3> DEFINE s == fQueries[fQueryId]
                 i0 == f \in view <=> f \in matching
      <3>1. Live /\ Looper /\ UNCHANGED <<fQueries, matching>>
        <4>1. Live
            BY <1>5, <2>4 DEF ClientInv, Phases
        <4> QED
            BY <2>1, <2>2, <4>1 DEF Looper, TakeMessage, PushQueryUpdate, KeepOthers, kernelVars
      <3>2. /\ s \in handlers /\ s # NoSession /\ queryOf[s] = fQueryId
            /\ \A t \in handlers : queryOf[t] = fQueryId => t = s
          BY <3>1, LiveFacts
      <3>3. LastWord(queue, running, out, received, fQueryId, s, f, i0, f \in matching)
          BY <1>5, <2>4 DEF ClientInv, ClientWord
      <3>4. LastWord(queue', running', out', received, fQueryId, s, f, i0, f \in matching)
        <4> HIDE DEF s, i0
        <4>1. CASE TakeMessage
            BY <3>2, <3>3, <4>1, TakingMovesWord
        <4>2. CASE PushQueryUpdate
          <5>1. LastWord(queue, running, out, received, queryOf[s], s, f, i0, f \in matching)
              BY <3>2, <3>3
          <5>2. /\ received \in 0 .. Len(out) /\ f \in Inside
                /\ \A t \in handlers : queryOf[t] = queryOf[s] /\ t # s =>
                     reader \in {"target", "fetch"} /\ t = newest
              BY <2>4, <3>2 DEF ClientInv
          <5>3. LastWord(queue', running', out', received, queryOf[s], s, f, i0, f \in matching)
              BY <2>1, <3>2, <4>2, <5>1, <5>2, PushingMovesWord
          <5> QED
              BY <3>2, <5>3
        <4> QED
            BY <3>1, <4>1, <4>2 DEF Looper
      <3> QED
          BY <1>1, <3>1, <3>4 DEF ClientWord
    <2> QED
        BY <1>1, <1>3, <2>3, <2>4 DEF ClientInv
  <1> QED
      BY <1>4, <1>5

\* A file changes: what is posted about it becomes the last word.
LEMMA ClientFileChanges ==
    ASSUME QueryInv, ClientInv, NEW g \in File, FileChanges(g)
    PROVE  ClientInv'
  <1>1. /\ Change(g) /\ UNCHANGED <<caller, thread, fStop, down, received, view>>
        /\ changedSince' = IF caller = "open" THEN changedSince \cup {g} ELSE changedSince
      BY DEF FileChanges
  <1>2. UNCHANGED <<running, out, fQueries, fSink, inbox, reader, current>>
      BY <1>1 DEF Change, KeepSessions, peerVars
  <1>3. Phases' = Phases
      BY <1>1, <1>2 DEF Phases, Before, During, Live, NoResult, OpenRequest
  <1>4. ASSUME caller = "open", ~down, NEW f \in changedSince' \cap Inside
        PROVE  ClientWord(f)'
    <2> DEFINE s == fQueries[fQueryId]
               i0 == f \in view <=> f \in matching
               i1 == f \in view <=> f \in matching'
    <2>1. s \in target
        BY <1>4, LiveFacts DEF ClientInv, Phases
    <2>2. CASE f = g
      <3>1. LastWord(queue', running, out, received, fQueryId, s, f, i1, f \in matching')
        <4> HIDE DEF s, i1
        <4> QED
            BY <1>1, <2>1, <2>2, ChangeMovesWord
      <3> QED
          BY <1>1, <1>2, <3>1 DEF ClientWord
    <2>3. CASE f # g
      <3>1. LastWord(queue, running, out, received, fQueryId, s, f, i0, f \in matching)
          BY <1>1, <1>4, <2>3 DEF ClientInv, ClientWord
      <3>2. /\ LastWord(queue', running, out, received, fQueryId, s, f, i0, f \in matching')
            /\ (f \in matching') = (f \in matching)
        <4> HIDE DEF s, i0
        <4> QED
            BY <1>1, <2>1, <2>3, <3>1, ChangeMovesWord
      <3> QED
          BY <1>1, <1>2, <3>2 DEF ClientWord
    <2> QED
        BY <2>2, <2>3
  <1> QED
      BY <1>1, <1>2, <1>3, <1>4 DEF ClientInv

LEMMA ClientInvStep ==
    ASSUME QueryInv, ClientInv, [ClientNext]_allVars
    PROVE  QueryInv' /\ ClientInv'
  <1>0. QueryInv'
      BY QueryInvStep, ClientSimulation
  <1> DEFINE SameServer == UNCHANGED <<fSink, reader, inbox, fQueries, current, queue, running, out, matching>>
  <1>1. ASSUME UNCHANGED vars PROVE SameServer
      BY <1>1 DEF vars, serverVars, kernelVars, peerVars
  <1>2. CASE Open
    <2>1. /\ caller = "idle" /\ caller' = "opening" /\ ~down /\ inbox' = Append(inbox, OpenRequest)
          /\ UNCHANGED <<down, received, view, changedSince>>
          /\ UNCHANGED <<fSink, reader, fQueries, current, queue, running, out, matching>>
        BY <1>2 DEF Open, Send, OpenRequest, serverVars, kernelVars
    <2>2. Before /\ inbox = <<>>
        BY <2>1 DEF ClientInv, Phases
    <2>3. inbox' = <<OpenRequest>> /\ OpenRequest' = OpenRequest
        BY <2>1, <2>2 DEF OpenRequest
    <2>4. Before'
        BY <2>1, <2>2, <2>3 DEF Before, NoResult
    <2> QED
        BY <1>0, <2>1, <2>4 DEF ClientInv, Phases
  <1>3. CASE OpenReceives
    <2> DEFINE fr == out[received + 1]
    <2>1. /\ caller = "opening" /\ ~down /\ received < Len(out) /\ received' = received + 1
          /\ SameServer /\ UNCHANGED <<down, changedSince>>
        BY <1>1, <1>3 DEF OpenReceives, FrameReady
    <2>2. \/ caller' = "failed" /\ view' = view
          \/ fr.type = "result" /\ view' = fr.entries /\ caller' = "open"
          \/ caller' = caller /\ view' = view
        BY <1>3 DEF OpenReceives, NextFrame
    <2>3. Len(out) \in Nat /\ received \in Nat /\ received + 1 \in 1 .. Len(out) /\ received + 1 \in 0 .. Len(out)
        BY <2>1, LenProperties DEF QueryInv, TypeOK, ClientInv
    <2>4. fr.type = "result" => Live /\ fr.entries \subseteq Inside
        BY <2>1, <2>3 DEF ClientInv, Phases, Before, During, NoResult, QueryInv, RootKept
    <2> HIDE DEF fr
    <2>5. changedSince' = {} /\ fSink = TRUE
        BY <2>1 DEF ClientInv, Phases
    <2>6. Before' = Before /\ During' = During /\ Live' = Live
        BY <2>1 DEF Before, During, Live, NoResult, OpenRequest
    <2>7. view' \subseteq Inside
        BY <2>2, <2>4 DEF ClientInv
    <2>8. Phases'
        BY <2>1, <2>2, <2>4, <2>5, <2>6 DEF ClientInv, Phases
    <2> QED
        BY <1>0, <2>1, <2>3, <2>5, <2>7, <2>8 DEF ClientInv
  <1>4. CASE OpenFails \/ CloseSend \/ CloseShutdown \/ CloseJoin
    <2>1. /\ caller' \notin {"idle", "opening", "open"} /\ UNCHANGED <<received, view, changedSince, out, fSink>>
          /\ (~down' => ~down) /\ caller \in {"opening", "open", "shutdown", "join"}
        BY <1>1, <1>4 DEF OpenFails, CloseSend, CloseShutdown, CloseJoin, serverVars
    <2> QED
        BY <1>0, <2>1 DEF ClientInv, Phases
  <1>5. CASE ReceiveLoop
      BY <1>0, <1>5, ClientReceives
  <1>6. CASE ReceiveLoopEnds \/ Over \/ UNCHANGED allVars
    <2>1. SameServer /\ UNCHANGED <<caller, down, received, view, changedSince>>
        BY <1>1, <1>6 DEF ReceiveLoopEnds, Over, allVars, clientVars
    <2> QED
        BY <1>0, <2>1 DEF ClientInv, ClientWord, Phases, Before, During, Live, NoResult, OpenRequest
  <1>7. CASE ChannelFails
    <2>1. down' = TRUE /\ out' = out /\ UNCHANGED <<caller, received, view, changedSince>>
        BY <1>1, <1>7 DEF ChannelFails
    <2> QED
        BY <1>0, <2>1 DEF ClientInv, Phases
  <1>8. CASE ServerSteps
      BY <1>0, <1>8, ClientServed
  <1>9. ASSUME NEW g \in File, FileChanges(g) PROVE ClientInv'
      BY <1>9, ClientFileChanges
  <1> QED
      BY <1>0, <1>2, <1>3, <1>4, <1>5, <1>6, <1>7, <1>8, <1>9 DEF ClientNext, Client

\* Nothing under way: the last word is the view.
LEMMA SettledView ==
    ASSUME QueryInv, ClientInv
    PROVE  LaterChangesAreSeen
  <1> SUFFICES ASSUME Settled, NEW f \in changedSince PROVE f \in view <=> f \in matching \cap Inside
      BY DEF LaterChangesAreSeen
  <1>1. CASE f \notin Inside
      BY <1>1 DEF ClientInv
  <1>2. CASE f \in Inside
    <2>1. ClientWord(f)
        BY <1>2 DEF ClientInv, Settled
    <2>2. Len(queue) = 0 /\ 1 .. 0 = {} /\ Len(out) \in Nat
        BY LenProperties DEF Settled, QueryInv, TypeOK
    <2>3. Posted(queue, fQueries[fQueryId], f) = {}
        BY <2>2 DEF Posted
    <2>4. Updates(out, received, fQueryId, f) = {}
      <3>1. received + 1 .. Len(out) = {}
          BY <2>2 DEF Settled
      <3> QED
          BY <3>1 DEF Updates
    <2>5. ~Concerns(running, fQueries[fQueryId], f)
      <3>1. running = NoMessage /\ Live
          BY DEF Settled, LooperUnlocked, ClientInv, Phases
      <3> QED
          BY <3>1 DEF Live, Concerns, NoMessage
    <2> QED
        BY <1>2, <2>1, <2>3, <2>4, <2>5 DEF ClientWord, LastWord
  <1> QED
      BY <1>1, <1>2

\* On a server with a sink, and for any files and interleaving of the reader, the
\* looper, the kernel and the client's two threads, a change after Open has
\* returned reaches the caller, and the last one wins (LiveQueryClient.cpp, Open,
\* ReceiveLoop).
THEOREM LaterChangesArrive ==
    ASSUME ~Gated
    PROVE  ClientSpec => []LaterChangesAreSeen
  <1>1. ClientInit => QueryInv /\ ClientInv
      BY QueryInvInit, ClientInvInit DEF ClientInit
  <1>2. QueryInv /\ ClientInv /\ [ClientNext]_allVars => (QueryInv /\ ClientInv)'
      BY ClientInvStep
  <1>3. QueryInv /\ ClientInv => LaterChangesAreSeen
      BY SettledView
  <1> QED
      BY <1>1, <1>2, <1>3, PTL DEF ClientSpec

=============================================================================
