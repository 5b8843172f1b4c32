------------------------ MODULE NetworkVolumeProofs ------------------------
(***************************************************************************)
(* What the network volume promises, for any machines, names, files and    *)
(* query answers and any number of calls: a read returns bytes of the file *)
(* that was opened, a name is pinned with one key, and a query folder      *)
(* lists what the machines heard have found, each under its own name.      *)
(***************************************************************************)
EXTENDS NetworkVolume, FiniteSetTheorems, SequenceTheorems, WellFoundedInduction, TLAPS

\* The calls that begin with a path, and those that begin with a handle.
OnPath == {"stat", "readdir", "open", "query"}
OnFile == {"read", "close"}

\* A call under way.  An open names a file; read and close go to the connection their
\* handle was opened on, without looking for another.
CallShape ==
  call # Idle =>
    /\ call = [op |-> call.op, path |-> call.path, handle |-> call.handle, stage |-> call.stage,
               todo |-> call.todo, hits |-> call.hits, heard |-> call.heard,
               host |-> call.host, life |-> call.life]
    /\ call.op \in OnPath \cup OnFile
    /\ call.stage \in {"backend", "hello", "request"}
    /\ call.op = "open" => call.path[2] \in Files
    /\ call.op \in OnFile =>
         /\ call.stage = "request"
         /\ call.handle \in DOMAIN fOpen
         /\ call.path[1] = fOpen[call.handle].name

\* A connection is made once per name and kept: it is there for the request, it is not
\* while HELLO is being exchanged, and its machine's key is pinned from before HELLO.
Connected ==
  /\ \A n \in DOMAIN conns :
       /\ conns[n] = [host |-> conns[n].host, life |-> conns[n].life, table |-> conns[n].table]
       /\ conns[n].table \in Seq(Files)
       /\ T!Find(trust, conns[n].host)
  /\ conns = [n \in DOMAIN conns |-> conns[n]]
  /\ call # Idle /\ call.stage = "request" => call.path[1] \in DOMAIN conns
  /\ call # Idle /\ call.stage = "hello" =>
       call.path[1] \notin DOMAIN conns /\ T!Find(trust, call.host)

\* Handles are numbered from one and never used twice, and each leads, through the
\* connection it was opened on, to the file that was opened.
Numbering == \E n \in Nat : DOMAIN opened = 1 .. n
Leads(h) ==
  /\ h \in DOMAIN opened
  /\ fOpen[h].name \in DOMAIN conns
  /\ fOpen[h].at \in DOMAIN conns[fOpen[h].name].table
  /\ opened[h] = [host |-> conns[fOpen[h].name].host,
                  file |-> conns[fOpen[h].name].table[fOpen[h].at]]
HandlesLead == \A h \in DOMAIN fOpen : Leads(h)

\* Every handle that a read answered for has been given out.
ReadFits ==
  last.op = "read" /\ last.status = "kOk" =>
    /\ last.value.handle \in DOMAIN opened
    /\ opened[last.value.handle] = [host |-> last.value.host, file |-> last.value.file]

\* The stores, in memory and on disk, give no name to two keys.
Pinned == IsInjective(trust) /\ IsInjective(saved)

VolumeInv ==
  /\ CallShape
  /\ Connected
  /\ Numbering
  /\ HandlesLead
  /\ ReadFits
  /\ Pinned

-----------------------------------------------------------------------------
\* Most steps end the call or send it on to look for a connection, return no bytes of a
\* file, and leave the connections, the store and the files handed out alone.

Onward ==
  \/ call' = Idle
  \/ /\ call' = [op |-> call'.op, path |-> call'.path, handle |-> call'.handle,
                 stage |-> "backend", todo |-> call'.todo, hits |-> call'.hits,
                 heard |-> call'.heard, host |-> call'.host, life |-> call'.life]
     /\ call'.op \in OnPath
     /\ call'.op = "open" => call'.path[2] \in Files

Quiet == UNCHANGED last \/ ~ (last'.op = "read" /\ last'.status = "kOk")

\* Handles may be dropped.
Dropped == DOMAIN fOpen' \subseteq DOMAIN fOpen /\ \A h \in DOMAIN fOpen' : fOpen'[h] = fOpen[h]

LEMMA OnwardStep ==
  ASSUME VolumeInv, Onward, Quiet, Dropped, UNCHANGED <<trust, saved, conns, opened>>
  PROVE  VolumeInv'
<1>1. call' # Idle => call'.stage = "backend"
  BY DEF Onward
<1>2. CallShape'
  BY DEF Onward, CallShape, OnPath, OnFile
<1>3. Connected'
  BY <1>1 DEF VolumeInv, Connected, T!Find
<1>4. Numbering' /\ Pinned'
  BY DEF VolumeInv, Numbering, Pinned
<1>5. HandlesLead'
  BY DEF VolumeInv, HandlesLead, Leads, Dropped
<1>6. ReadFits'
  BY DEF VolumeInv, ReadFits, Quiet
<1> QED
  BY <1>2, <1>3, <1>4, <1>5, <1>6 DEF VolumeInv

LEMMA SameHandles ==
  ASSUME UNCHANGED fOpen
  PROVE  Dropped
BY DEF Dropped

LEMMA ReturnGoes ==
  ASSUME NEW op, NEW status, NEW value, Return(op, status, value),
         op = "read" => status # "kOk"
  PROVE  Onward /\ Quiet
BY DEF Return, NoResult, Onward, Quiet

\* BackendFor's failures and those of a request (Unreachable).
LEMMA UnreachableGoes ==
  ASSUME CallShape, call # Idle, Unreachable
  PROVE  Onward /\ Quiet
<1>1. CASE call.op # "query" \/ call.todo = <<>>
  BY <1>1, ReturnGoes DEF Unreachable
<1>2. CASE call.op = "query" /\ call.todo # <<>>
  <2>1. /\ call' = [call EXCEPT !.path = <<Head(call.todo)>>, !.todo = Tail(@), !.stage = "backend"]
        /\ UNCHANGED last
    BY <1>2 DEF Unreachable
  <2>2. call = [op |-> call.op, path |-> call.path, handle |-> call.handle, stage |-> call.stage,
               todo |-> call.todo, hits |-> call.hits, heard |-> call.heard,
               host |-> call.host, life |-> call.life]
    BY DEF CallShape
  <2>3. call' = [op |-> call.op, path |-> <<Head(call.todo)>>, handle |-> call.handle,
                 stage |-> "backend", todo |-> Tail(call.todo), hits |-> call.hits,
                 heard |-> call.heard, host |-> call.host, life |-> call.life]
    BY <2>1, <2>2
  <2> QED
    BY <1>2, <2>1, <2>3 DEF Onward, Quiet, OnPath
<1> QED
  BY <1>1, <1>2

-----------------------------------------------------------------------------
\* The beginning of a call.

\* The paths of files are those with two parts that are not under /.query.
LEMMA FilePaths ==
  ASSUME NEW path \in Paths, ClassifyQuery(path) = "none", ~ (Len(path) <= 1)
  PROVE  path[2] \in Files
<1>1. CASE path \in {<<n, f>> : n \in Names, f \in Files}
  BY <1>1
<1>2. CASE path \in {<<n>> : n \in Names}
  BY <1>2
<1>3. CASE path = <<>> \/ path = <<QueryDir>>
  BY <1>3
<1>4. CASE path = <<QueryDir, Predicate>>
  BY <1>4 DEF ClassifyQuery
<1>5. CASE path = <<QueryDir, Predicate, Leaf>>
  BY <1>5 DEF ClassifyQuery
<1> QED
  BY <1>1, <1>2, <1>3, <1>4, <1>5 DEF Paths

LEMMA AnsweredStep ==
  ASSUME VolumeInv, NEW op, NEW status, NEW value, Answered(op, status, value),
         op = "read" => status # "kOk"
  PROVE  VolumeInv'
BY ReturnGoes, OnwardStep, SameHandles DEF Answered

LEMMA GoesStep ==
  ASSUME VolumeInv, NEW op \in OnPath, NEW path, NEW todo, Goes(op, path, 0, todo),
         op = "open" => path[2] \in Files
  PROVE  VolumeInv'
<1>1. Onward /\ Quiet
  BY DEF Goes, Onward, Quiet, NoResult
<1> QED
  BY <1>1, OnwardStep, SameHandles DEF Goes

LEMMA StatStep ==
  ASSUME VolumeInv, NEW path \in Paths, Stat(path)
  PROVE  VolumeInv'
BY AnsweredStep, GoesStep DEF Stat, OnPath

LEMMA ReadDirStep ==
  ASSUME VolumeInv, NEW path \in Paths, ReadDir(path)
  PROVE  VolumeInv'
<1>1. \/ \E op \in {"readdir", "query"} : \E status, value : Answered(op, status, value)
      \/ \E op \in {"readdir", "query"} : \E p, todo : Goes(op, p, 0, todo)
  BY DEF ReadDir
<1> QED
  BY <1>1, AnsweredStep, GoesStep DEF OnPath

LEMMA OpenStep ==
  ASSUME VolumeInv, NEW path \in Paths, Open(path)
  PROVE  VolumeInv'
<1>1. \/ \E status, value : Answered("open", status, value)
      \/ /\ Goes("open", path, 0, <<>>)
         /\ ClassifyQuery(path) \notin {"root", "predicate", "result"}
         /\ ~ (Len(path) <= 1)
  BY DEF Open
<1>2. ClassifyQuery(path) \in {"none", "root", "predicate", "result"}
  BY DEF ClassifyQuery, Paths
<1> QED
  BY <1>1, <1>2, FilePaths, AnsweredStep, GoesStep DEF OnPath

LEMMA OnHandleStep ==
  ASSUME VolumeInv, NEW op \in OnFile, NEW h, OnHandle(op, h)
  PROVE  VolumeInv'
<1>1. CASE h \notin DOMAIN fOpen
  BY <1>1, AnsweredStep DEF OnHandle
<1>2. CASE h \in DOMAIN fOpen
  <2>1. /\ call' = [op |-> op, path |-> <<fOpen[h].name>>, handle |-> h, stage |-> "request",
                    todo |-> <<>>, hits |-> <<>>, heard |-> {}, host |-> "none", life |-> 0]
        /\ last' = NoResult
        /\ UNCHANGED <<trust, saved, conns, fOpen, opened>>
    BY <1>2 DEF OnHandle
  <2>2. CallShape'
    BY <1>2, <2>1 DEF CallShape, OnFile, OnPath
  <2>3. Connected'
    <3>1. fOpen[h].name \in DOMAIN conns
      BY <1>2 DEF VolumeInv, HandlesLead, Leads
    <3> QED
      BY <2>1, <3>1 DEF VolumeInv, Connected, T!Find
  <2> QED
    BY <2>1, <2>2, <2>3 DEF VolumeInv, Numbering, HandlesLead, Leads, ReadFits, NoResult, Pinned
<1> QED
  BY <1>1, <1>2

-----------------------------------------------------------------------------
\* BackendFor and Hello.

LEMMA CallFields ==
  ASSUME VolumeInv, call # Idle
  PROVE  call = [op |-> call.op, path |-> call.path, handle |-> call.handle, stage |-> call.stage,
                 todo |-> call.todo, hits |-> call.hits, heard |-> call.heard,
                 host |-> call.host, life |-> call.life]
BY DEF VolumeInv, CallShape

\* The call moves to another stage and keeps all else but the machine it greets.
LEMMA StageStep ==
  ASSUME VolumeInv, call # Idle, call.op \in OnPath, NEW stage \in {"hello", "request"},
         NEW h, NEW life,
         call' = [op |-> call.op, path |-> call.path, handle |-> call.handle, stage |-> stage,
                  todo |-> call.todo, hits |-> call.hits, heard |-> call.heard,
                  host |-> h, life |-> life]
  PROVE  CallShape' /\ call' # Idle /\ call'.stage = stage /\ call'.path = call.path /\ call'.host = h
<1>1. call.op = "open" => call.path[2] \in Files
  BY DEF VolumeInv, CallShape
<1> QED
  BY <1>1 DEF CallShape, OnPath, OnFile, Idle

\* Establish: a key that is not pinned is pinned only under a name that no key has.
LEMMA PinStep ==
  ASSUME VolumeInv, NEW h, Trusted(h),
         IF T!Find(trust, h) THEN UNCHANGED <<trust, saved>>
         ELSE trust' = T!Pin(trust, h, Peer) /\ saved' \in {saved, trust'}
  PROVE  /\ Pinned'
         /\ T!Find(trust', h)
         /\ \A k : T!Find(trust, k) => T!Find(trust', k)
<1>1. CASE T!Find(trust, h)
  BY <1>1 DEF VolumeInv, Pinned
<1>2. CASE ~ T!Find(trust, h)
  <2>1. \A k \in DOMAIN trust : trust[k] # Peer
    BY <1>2 DEF Trusted, T!Evaluate
  <2>2. trust' = [k \in DOMAIN trust \cup {h} |-> IF k = h THEN Peer ELSE trust[k]]
    BY <1>2 DEF T!Pin
  <2>3. IsInjective(trust')
    <3>1. h \notin DOMAIN trust /\ IsInjective(trust)
      BY <1>2 DEF T!Find, VolumeInv, Pinned
    <3> QED
      BY <2>1, <2>2, <3>1 DEF IsInjective
  <2> QED
    BY <1>2, <2>2, <2>3 DEF VolumeInv, Pinned, T!Find
<1> QED
  BY <1>1, <1>2

LEMMA BackendForStep ==
  ASSUME VolumeInv, BackendFor
  PROVE  VolumeInv'
<1>1. /\ call # Idle /\ call.stage = "backend" /\ call.op \in OnPath
      /\ UNCHANGED <<conns, fOpen, opened>>
  BY DEF BackendFor, VolumeInv, CallShape
<1>2. CASE Unreachable /\ UNCHANGED <<trust, saved>>
  BY <1>1, <1>2, UnreachableGoes, OnwardStep, SameHandles DEF VolumeInv
<1>3. CASE Peer \in DOMAIN conns /\ call' = [call EXCEPT !.stage = "request"]
           /\ UNCHANGED <<last, trust, saved>>
  <2>1. call' = [op |-> call.op, path |-> call.path, handle |-> call.handle, stage |-> "request",
                 todo |-> call.todo, hits |-> call.hits, heard |-> call.heard,
                 host |-> call.host, life |-> call.life]
    BY <1>1, <1>3, CallFields
  <2>2. CallShape' /\ call' # Idle /\ call'.stage = "request" /\ call'.path = call.path
    BY <1>1, <2>1, StageStep
  <2>3. Connected'
    BY <1>1, <1>3, <2>2 DEF VolumeInv, Connected, Peer, T!Find
  <2> QED
    BY <1>1, <1>3, <2>2, <2>3 DEF VolumeInv, Numbering, HandlesLead, Leads, ReadFits, Pinned
<1>4. ASSUME NEW h, Peer \notin DOMAIN conns, Trusted(h),
             call' = [call EXCEPT !.stage = "hello", !.host = h, !.life = host[h].life],
             IF T!Find(trust, h) THEN UNCHANGED <<trust, saved>>
             ELSE trust' = T!Pin(trust, h, Peer) /\ saved' \in {saved, trust'},
             UNCHANGED last
      PROVE  VolumeInv'
  <2>1. call' = [op |-> call.op, path |-> call.path, handle |-> call.handle, stage |-> "hello",
                 todo |-> call.todo, hits |-> call.hits, heard |-> call.heard,
                 host |-> h, life |-> host[h].life]
    BY <1>1, <1>4, CallFields
  <2>2. CallShape' /\ call' # Idle /\ call'.stage = "hello" /\ call'.path = call.path /\ call'.host = h
    BY <1>1, <2>1, StageStep
  <2>3. Pinned' /\ T!Find(trust', h) /\ \A k : T!Find(trust, k) => T!Find(trust', k)
    BY <1>4, PinStep
  <2>4. Connected'
    BY <1>1, <1>4, <2>2, <2>3 DEF VolumeInv, Connected, Peer
  <2> QED
    BY <1>1, <1>4, <2>2, <2>3, <2>4 DEF VolumeInv, Numbering, HandlesLead, Leads, ReadFits
<1> QED
  BY <1>2, <1>3, <1>4 DEF BackendFor, Connect

LEMMA HelloStep ==
  ASSUME VolumeInv, Hello
  PROVE  VolumeInv'
<1>1. /\ call # Idle /\ call.stage = "hello" /\ call.op \in OnPath
      /\ UNCHANGED <<trust, saved, fOpen, opened>>
  BY DEF Hello, VolumeInv, CallShape
<1>2. CASE Unreachable /\ UNCHANGED conns
  BY <1>1, <1>2, UnreachableGoes, OnwardStep, SameHandles DEF VolumeInv
<1>3. ASSUME conns' = With(conns, Peer, [host |-> call.host, life |-> call.life, table |-> <<>>]),
             call' = [call EXCEPT !.stage = "request"], UNCHANGED last
      PROVE  VolumeInv'
  <2>1. call' = [op |-> call.op, path |-> call.path, handle |-> call.handle, stage |-> "request",
                 todo |-> call.todo, hits |-> call.hits, heard |-> call.heard,
                 host |-> call.host, life |-> call.life]
    BY <1>1, <1>3, CallFields
  <2>2. CallShape' /\ call' # Idle /\ call'.stage = "request" /\ call'.path = call.path
    BY <1>1, <2>1, StageStep
  <2> DEFINE new == [host |-> call.host, life |-> call.life, table |-> <<>>]
  <2>3. /\ DOMAIN conns' = DOMAIN conns \cup {Peer}
        /\ conns' = [n \in DOMAIN conns' |-> conns'[n]]
        /\ conns'[Peer] = new
        /\ \A n \in DOMAIN conns : conns'[n] = conns[n]
    <3>1. Peer \notin DOMAIN conns
      BY <1>1 DEF VolumeInv, Connected, Peer
    <3> HIDE DEF new
    <3> QED
      BY <1>3, <3>1 DEF With, new
  <2>4. new.host = call.host /\ new.table = <<>> /\ new = [host |-> new.host, life |-> new.life, table |-> new.table]
    OBVIOUS
  <2>5. new.table \in Seq(Files)
    BY <2>4
  <2>6. Connected'
    <3>1. T!Find(trust, call.host)
      BY <1>1 DEF VolumeInv, Connected
    <3> HIDE DEF new
    <3>2. ASSUME NEW n \in DOMAIN conns'
          PROVE  /\ conns'[n] = [host |-> conns'[n].host, life |-> conns'[n].life, table |-> conns'[n].table]
                 /\ conns'[n].table \in Seq(Files)
                 /\ T!Find(trust', conns'[n].host)
      <4>1. CASE n = Peer
        BY <1>1, <2>3, <2>4, <2>5, <3>1, <4>1 DEF T!Find
      <4>2. CASE n \in DOMAIN conns
        BY <1>1, <2>3, <4>2 DEF VolumeInv, Connected, T!Find
      <4> QED
        BY <2>3, <4>1, <4>2
    <3> QED
      BY <2>2, <2>3, <3>2 DEF Connected, Peer
  <2>7. HandlesLead'
    BY <1>1, <2>3 DEF VolumeInv, HandlesLead, Leads
  <2> QED
    BY <1>1, <1>3, <2>2, <2>6, <2>7 DEF VolumeInv, Numbering, ReadFits, Pinned
<1> QED
  BY <1>2, <1>3 DEF Hello

-----------------------------------------------------------------------------
\* Requests.

\* A request ends with no bytes of a file, or goes on to the next peer of a query.
LEMMA AnswerGoes ==
  ASSUME NEW status, NEW value, Answer(status, value), call.op = "read" => status # "kOk"
  PROVE  Onward /\ Quiet
BY ReturnGoes DEF Answer

LEMMA RequestFailsStep ==
  ASSUME VolumeInv, RequestFails
  PROVE  VolumeInv'
<1>1. call # Idle /\ Unreachable
  BY DEF RequestFails, Asked
<1>2. Dropped
  BY DEF RequestFails, Dropped
<1> QED
  BY <1>1, <1>2, UnreachableGoes, OnwardStep DEF RequestFails, VolumeInv

LEMMA ServeStatStep ==
  ASSUME VolumeInv, ServeStat
  PROVE  VolumeInv'
<1>1. call.op # "read"
  BY DEF ServeStat, Served, Asked
<1> QED
  BY <1>1, AnswerGoes, OnwardStep, SameHandles DEF ServeStat

LEMMA ServeCloseStep ==
  ASSUME VolumeInv, ServeClose
  PROVE  VolumeInv'
<1>1. call.op # "read"
  BY DEF ServeClose, Served, Asked
<1>2. Dropped
  BY DEF ServeClose, Dropped
<1> QED
  BY <1>1, <1>2, AnswerGoes, OnwardStep DEF ServeClose

LEMMA ServeQueryStep ==
  ASSUME VolumeInv, ServeQuery
  PROVE  VolumeInv'
<1>1. call # Idle /\ call.op = "query"
  BY DEF ServeQuery, Served, Asked
<1>2. PICK hits, heard :
        \/ Return("query", "kOk", Found(hits, heard))
        \/ /\ call' = [call EXCEPT !.hits = hits, !.heard = heard, !.stage = "backend",
                                   !.path = <<Head(call.todo)>>, !.todo = Tail(@)]
           /\ UNCHANGED last
  BY DEF ServeQuery
<1>3. CASE Return("query", "kOk", Found(hits, heard))
  BY <1>3, ReturnGoes, OnwardStep, SameHandles DEF ServeQuery
<1>4. CASE /\ call' = [call EXCEPT !.hits = hits, !.heard = heard, !.stage = "backend",
                                   !.path = <<Head(call.todo)>>, !.todo = Tail(@)]
           /\ UNCHANGED last
  <2>1. call' = [op |-> call.op, path |-> <<Head(call.todo)>>, handle |-> call.handle,
                 stage |-> "backend", todo |-> Tail(call.todo), hits |-> hits,
                 heard |-> heard, host |-> call.host, life |-> call.life]
    BY <1>1, <1>4, CallFields
  <2>2. Onward /\ Quiet
    BY <1>1, <1>4, <2>1 DEF Onward, Quiet, OnPath
  <2> QED
    BY <2>2, OnwardStep, SameHandles DEF ServeQuery
<1> QED
  BY <1>2, <1>3, <1>4

\* PathRouter::Read: the number kept with the handle is looked up on the connection kept
\* with it.
LEMMA ServeReadStep ==
  ASSUME VolumeInv, ServeRead
  PROVE  VolumeInv'
<1> DEFINE h == call.handle
<1>1. /\ call # Idle /\ call.op = "read" /\ call.op \in OnFile
      /\ UNCHANGED <<trust, saved, conns, fOpen, opened>>
  BY DEF ServeRead, Served, Asked, OnFile
<1>2. /\ h \in DOMAIN fOpen /\ Peer = fOpen[h].name /\ Leads(h)
  BY <1>1 DEF VolumeInv, CallShape, HandlesLead, Peer
<1>3. CASE Answer("kBadHandle", <<>>)
  BY <1>1, <1>3, AnswerGoes, OnwardStep, SameHandles
<1>4. CASE Answer("kOk", [handle |-> h, host |-> Conn.host, file |-> Conn.table[fOpen[h].at]])
  <2>1. /\ call' = Idle
        /\ last' = [op |-> "read", status |-> "kOk",
                    value |-> [handle |-> h, host |-> Conn.host, file |-> Conn.table[fOpen[h].at]]]
    BY <1>1, <1>4 DEF Answer, Return
  <2>2. /\ last'.value.handle = h /\ last'.value.host = Conn.host
        /\ last'.value.file = Conn.table[fOpen[h].at]
    BY <2>1
  <2>3. ReadFits'
    BY <1>1, <1>2, <2>2 DEF ReadFits, Leads, Conn
  <2> QED
    BY <1>1, <2>1, <2>3 DEF VolumeInv, CallShape, Connected, T!Find, Numbering, HandlesLead, Leads, Pinned
<1> QED
  BY <1>3, <1>4 DEF ServeRead

\* PathRouter::Open: a new number at the end of the connection's own numbering, kept
\* under a handle that was never given out.
LEMMA ServeOpenStep ==
  ASSUME VolumeInv, ServeOpen
  PROVE  VolumeInv'
<1> DEFINE h == Cardinality(DOMAIN opened) + 1
           f == call.path[2]
<1>1. /\ call # Idle /\ call.op = "open" /\ call.stage = "request"
      /\ UNCHANGED <<trust, saved>>
  BY DEF ServeOpen, Served, Asked
<1>2. CASE Answer("kNotFound", 0) /\ UNCHANGED <<conns, fOpen, opened>>
  BY <1>1, <1>2, AnswerGoes, OnwardStep, SameHandles
<1>3. ASSUME conns' = [conns EXCEPT ![Peer].table = Append(@, f)],
             fOpen' = With(fOpen, h, [name |-> Peer, at |-> Len(Conn.table) + 1]),
             opened' = With(opened, h, [host |-> Conn.host, file |-> f]),
             Answer("kOk", h)
      PROVE  VolumeInv'
  <2>1. /\ Peer \in DOMAIN conns /\ f \in Files
        /\ conns = [n \in DOMAIN conns |-> conns[n]]
        /\ Conn = [host |-> Conn.host, life |-> Conn.life, table |-> Conn.table]
        /\ Conn.table \in Seq(Files)
    BY <1>1 DEF VolumeInv, CallShape, Connected, Peer, Conn
  <2>2. PICK n \in Nat : DOMAIN opened = 1 .. n
    BY DEF VolumeInv, Numbering
  <2>3. h = n + 1
    <3>1. Cardinality(1 .. n) = n
      BY FS_Interval
    <3> QED
      BY <2>2, <3>1
  <2>4. h \notin DOMAIN opened /\ DOMAIN opened \cup {h} = 1 .. n + 1
    BY <2>2, <2>3
  <2>5. DOMAIN fOpen \subseteq DOMAIN opened
    BY DEF VolumeInv, HandlesLead, Leads
  <2> DEFINE table == Append(Conn.table, f)
             at == Len(Conn.table) + 1
  <2>6. /\ table \in Seq(Files)
        /\ at \in DOMAIN table /\ table[at] = f
        /\ \A k \in DOMAIN Conn.table : k \in DOMAIN table /\ table[k] = Conn.table[k]
    BY <2>1
  <2>7. conns' = [conns EXCEPT ![Peer] = [host |-> Conn.host, life |-> Conn.life, table |-> table]]
    <3>1. conns' = [conns EXCEPT ![Peer] = [Conn EXCEPT !.table = table]]
      BY <1>3 DEF Conn
    <3> HIDE DEF table
    <3>2. [Conn EXCEPT !.table = table] = [host |-> Conn.host, life |-> Conn.life, table |-> table]
      BY <2>1
    <3> QED
      BY <3>1, <3>2
  <2> HIDE DEF table
  <2>8. /\ DOMAIN conns' = DOMAIN conns
        /\ conns' = [m \in DOMAIN conns' |-> conns'[m]]
        /\ conns'[Peer] = [host |-> Conn.host, life |-> Conn.life, table |-> table]
        /\ \A m \in DOMAIN conns \ {Peer} : conns'[m] = conns[m]
    BY <2>1, <2>7
  <2>9. conns'[Peer].host = Conn.host /\ conns'[Peer].table = table
    BY <2>8
  <2>10. /\ DOMAIN opened' = DOMAIN opened \cup {h}
         /\ opened'[h] = [host |-> Conn.host, file |-> f]
         /\ \A k \in DOMAIN opened : opened'[k] = opened[k]
    <3> HIDE DEF h
    <3> QED
      BY <1>3, <2>4 DEF With
  <2>11. /\ DOMAIN fOpen' = DOMAIN fOpen \cup {h}
         /\ fOpen'[h] = [name |-> Peer, at |-> at]
         /\ \A k \in DOMAIN fOpen : fOpen'[k] = fOpen[k]
    <3> HIDE DEF h, at
    <3> QED
      BY <1>3, <2>4, <2>5 DEF With, at
  <2> HIDE DEF h, at, f
  <2>12. call' = Idle /\ ~ (last'.op = "read" /\ last'.status = "kOk")
    BY <1>1, <1>3 DEF Answer, Return, NoResult
  <2>13. Numbering'
    BY <2>4, <2>10 DEF Numbering
  <2>14. Connected'
    <3>1. ASSUME NEW m \in DOMAIN conns'
          PROVE  /\ conns'[m] = [host |-> conns'[m].host, life |-> conns'[m].life, table |-> conns'[m].table]
                 /\ conns'[m].table \in Seq(Files)
                 /\ T!Find(trust', conns'[m].host)
      <4>1. CASE m = Peer
        <5>1. T!Find(trust, Conn.host)
          BY <2>1 DEF VolumeInv, Connected, Conn
        <5> QED
          BY <1>1, <2>6, <2>8, <2>9, <4>1, <5>1 DEF T!Find
      <4>2. CASE m # Peer
        BY <1>1, <2>8, <4>2 DEF VolumeInv, Connected, T!Find
      <4> QED
        BY <4>1, <4>2
    <3> QED
      BY <2>8, <2>12, <3>1 DEF Connected
  <2>15. HandlesLead'
    <3>1. ASSUME NEW k \in DOMAIN fOpen'
          PROVE  Leads(k)'
      <4>1. CASE k = h
        <5>1. fOpen'[k].name = Peer /\ fOpen'[k].at = at
          BY <2>11, <4>1
        <5> QED
          BY <2>1, <2>6, <2>8, <2>9, <2>10, <4>1, <5>1 DEF Leads
      <4>2. CASE k \in DOMAIN fOpen
        <5>1. Leads(k)
          BY <4>2 DEF VolumeInv, HandlesLead
        <5>2. CASE fOpen[k].name = Peer
          BY <2>6, <2>8, <2>9, <2>10, <2>11, <4>2, <5>1, <5>2 DEF Leads, Conn
        <5>3. CASE fOpen[k].name # Peer
          BY <2>8, <2>10, <2>11, <4>2, <5>1, <5>3 DEF Leads
        <5> QED
          BY <5>2, <5>3
      <4> QED
        BY <2>11, <4>1, <4>2
    <3> QED
      BY <3>1 DEF HandlesLead
  <2> QED
    BY <1>1, <2>12, <2>13, <2>14, <2>15 DEF VolumeInv, CallShape, ReadFits, Pinned
<1> QED
  BY <1>2, <1>3 DEF ServeOpen

-----------------------------------------------------------------------------
\* The network, and the volume mounted again.

LEMMA NetworkStep ==
  ASSUME VolumeInv, UNCHANGED <<trust, saved, conns, fOpen, opened, call, last>>
  PROVE  VolumeInv'
<1>1. CallShape' /\ Numbering' /\ HandlesLead'
  BY DEF VolumeInv, CallShape, Numbering, HandlesLead, Leads
<1>2. Connected' /\ ReadFits' /\ Pinned'
  BY DEF VolumeInv, Connected, T!Find, ReadFits, Pinned
<1> QED
  BY <1>1, <1>2 DEF VolumeInv

LEMMA NoneOpen ==
  ASSUME conns = <<>>, fOpen = <<>>, opened = <<>>, call = Idle, last = NoResult, Pinned
  PROVE  VolumeInv
<1>1. DOMAIN <<>> = {} /\ 1 .. 0 = {} /\ 0 \in Nat
  OBVIOUS
<1>2. <<>> = [n \in DOMAIN <<>> |-> <<>>[n]]
  OBVIOUS
<1>3. Numbering
  BY <1>1 DEF Numbering
<1>4. Connected
  BY <1>1, <1>2 DEF Connected
<1> QED
  BY <1>1, <1>3, <1>4 DEF VolumeInv, CallShape, HandlesLead, ReadFits, NoResult

LEMMA RemountStep ==
  ASSUME VolumeInv, Remount
  PROVE  VolumeInv'
<1>1. /\ conns' = <<>> /\ fOpen' = <<>> /\ opened' = <<>> /\ call' = Idle /\ last' = NoResult
      /\ trust' = saved /\ saved' = saved
  BY DEF Remount
<1>2. Pinned'
  BY <1>1 DEF VolumeInv, Pinned
<1>3. DOMAIN <<>> = {} /\ 1 .. 0 = {} /\ 0 \in Nat
  OBVIOUS
<1>4. <<>> = [n \in DOMAIN <<>> |-> <<>>[n]]
  OBVIOUS
<1>5. Numbering'
  BY <1>1, <1>3 DEF Numbering
<1>6. Connected'
  BY <1>1, <1>3, <1>4 DEF Connected
<1> QED
  BY <1>1, <1>2, <1>3, <1>5, <1>6 DEF VolumeInv, CallShape, HandlesLead, ReadFits, NoResult

-----------------------------------------------------------------------------
\* The theorems.

LEMMA VolumeInit == Init => VolumeInv
<1> SUFFICES ASSUME Init PROVE VolumeInv
  OBVIOUS
<1>1. DOMAIN <<>> = {}
  OBVIOUS
<1>2. Pinned
  BY <1>1 DEF Init, Pinned, IsInjective
<1> QED
  BY <1>2, NoneOpen DEF Init

LEMMA VolumeStep == VolumeInv /\ [Next]_vars => VolumeInv'
<1> SUFFICES ASSUME VolumeInv, [Next]_vars PROVE VolumeInv'
  OBVIOUS
<1>1. CASE Begin
  BY <1>1, StatStep, ReadDirStep, OpenStep, OnHandleStep DEF Begin, OnFile
<1>2. CASE Serve
  BY <1>2, ServeStatStep, ServeOpenStep, ServeReadStep, ServeCloseStep, ServeQueryStep DEF Serve
<1>3. ASSUME Move \/ (\E h \in Hosts : Crash(h) \/ ComesBack(h)) \/ UNCHANGED vars
      PROVE  VolumeInv'
  <2>1. UNCHANGED <<trust, saved, conns, fOpen, opened, call, last>>
    BY <1>3 DEF Move, Crash, ComesBack, vars
  <2> QED
    BY <2>1, NetworkStep
<1> QED
  BY <1>1, <1>2, <1>3, BackendForStep, HelloStep, RequestFailsStep, RemountStep DEF Next

\* PathRouter keeps a handle together with the connection it belongs to, and
\* ConnectionManager never replaces a connection: a read returns bytes of the file that
\* was opened, on the machine it was opened on.
THEOREM ReadsAreOfTheOpenedFile == Spec => []ReadsTheOpenedFile
<1>1. VolumeInv => ReadsTheOpenedFile
  BY DEF VolumeInv, ReadFits, ReadsTheOpenedFile
<1> QED
  BY <1>1, VolumeInit, VolumeStep, PTL DEF Spec

\* Establish refuses a second key under a pinned name and pins a key before HELLO.
THEOREM NamesHaveOneKey == Spec => []OneKeyPerName
<1>1. VolumeInv => OneKeyPerName
  BY DEF VolumeInv, Pinned, Connected, OneKeyPerName
<1> QED
  BY <1>1, VolumeInit, VolumeStep, PTL DEF Spec

-----------------------------------------------------------------------------
\* What is assumed of the numbers and the quota.
LEMMA QuotaIsNat == Quota \in Nat
  BY VolumeAssumption, Zenon

LEMMA NumbersDiffer ==
  /\ \A i \in 1..Quota : Decimal[i] \in Chars
  /\ \A i, j \in 1..Quota : Decimal[i] = Decimal[j] => i = j
  <1>1. Decimal \in [1..Quota -> Chars] /\ IsInjective(Decimal)
    BY VolumeAssumption, Zenon
  <1> QED
    BY <1>1 DEF IsInjective

-----------------------------------------------------------------------------
\* The least and the greatest of some numbers, and induction, for a set of numbers.
LEMMA LeastExists ==
  ASSUME NEW S \in SUBSET Nat, S # {} PROVE \E x \in S : \A y \in S : x <= y
  <1>1. PICK x \in S : \A y \in S : ~(<<y, x>> \in OpToRel(<, Nat))
    BY NatLessThanWellFounded, WFMin
  <1>2. x \in S /\ \A y \in S : ~(y < x)
    BY <1>1 DEF OpToRel
  <1> HIDE <1>1
  <1> QED
    BY <1>2

LEMMA GreatestExists ==
  ASSUME NEW n \in Nat, NEW S \in SUBSET (1..n), S # {} PROVE \E x \in S : \A y \in S : y <= x
  <1> DEFINE Left == {n - i : i \in S}
  <1>1. Left \in SUBSET Nat /\ Left # {}
    <2>1. \A i \in S : n - i \in Nat
      OBVIOUS
    <2> QED
      BY <2>1
  <1>2. PICK t \in Left : \A u \in Left : t <= u
    <2> HIDE DEF Left
    <2> QED
      BY <1>1, LeastExists
  <1>3. PICK x \in S : t = n - x
    OBVIOUS
  <1>4. \A y \in S : n - x <= n - y
    BY <1>2, <1>3
  <1> QED
    BY <1>4

LEMMA SetInduction ==
  ASSUME NEW S, 0 \in S, \A n \in Nat : n \in S => n + 1 \in S
  PROVE  Nat \subseteq S
  <1> DEFINE Left == Nat \ S
  <1>1. SUFFICES ASSUME Left # {} PROVE FALSE
    OBVIOUS
  <1>2. PICK x \in Left : \A y \in Left : x <= y
    <2>1. Left \in SUBSET Nat
      OBVIOUS
    <2> HIDE DEF Left
    <2> QED
      BY <1>1, <2>1, LeastExists
  <1>3. x - 1 \in Nat /\ x - 1 < x /\ x = (x - 1) + 1
    BY <1>2
  <1> QED
    BY <1>2, <1>3

LEMMA MaxIsTop ==
  ASSUME NEW k \in Nat, NEW s \in SUBSET (1..k), k \in s PROVE Max(s) = k
  <1>1. \A y \in s : k >= y
    OBVIOUS
  <1>2. \A x \in s : (\A y \in s : x >= y) => x = k
    OBVIOUS
  <1> QED
    BY <1>1, <1>2, Zenon DEF Max

\* An element at the end of a sequence.
LEMMA RangeAppend ==
  ASSUME NEW X, NEW s \in Seq(X), NEW x
  PROVE  /\ Append(s, x) \in Seq(X \cup {x}) /\ Range(Append(s, x)) = Range(s) \cup {x}
         /\ Len(Append(s, x)) = Len(s) + 1
         /\ (IsInjective(s) /\ x \notin Range(s)) => IsInjective(Append(s, x))
  <1>1. /\ Append(s, x) \in Seq(X \cup {x}) /\ DOMAIN Append(s, x) = 1..(Len(s) + 1)
        /\ DOMAIN s = 1..Len(s) /\ Len(s) \in Nat /\ Len(Append(s, x)) = Len(s) + 1
        /\ Append(s, x)[Len(s) + 1] = x /\ \A i \in 1..Len(s) : Append(s, x)[i] = s[i]
    OBVIOUS
  <1> PICK t : t = Append(s, x)
    OBVIOUS
  <1>2. Range(t) = Range(s) \cup {x}
    BY <1>1 DEF Range
  <1>3. ASSUME IsInjective(s), x \notin Range(s), NEW a \in DOMAIN t, NEW b \in DOMAIN t, t[a] = t[b]
        PROVE  a = b
    <2>1. \A i \in 1..Len(s) : t[i] = s[i] /\ t[i] \in Range(s)
      BY <1>1 DEF Range
    <2>2. a \in 1..Len(s) <=> b \in 1..Len(s)
      BY <1>1, <1>3, <2>1
    <2> QED
      BY <1>1, <1>3, <2>1, <2>2 DEF IsInjective
  <1> QED
    BY <1>1, <1>2, <1>3 DEF IsInjective

LEMMA ContainsIsRange ==
  ASSUME NEW X, NEW s \in Seq(X), NEW e PROVE Contains(s, e) <=> e \in Range(s)
  BY DEF Contains, Range

-----------------------------------------------------------------------------
\* The fold of Aggregate, step by step.
HitOf(n, f) == [peer |-> n, file |-> f]
Kept(out, hit) == IF Len(out) >= Quota \/ Contains(out, hit) THEN out ELSE Append(out, hit)
LEMMA AggregateFolds ==
  ASSUME NEW X, NEW found \in Seq(X), NEW hits, NEW n
  PROVE  \E g : /\ g[0] = hits
                /\ \A k \in 1..Len(found) : g[k] = Kept(g[k - 1], HitOf(n, found[k]))
                /\ Aggregate(hits, n, found) = g[Len(found)]
  <1> DEFINE l == Len(found)
             Taken(out, x) == Kept(out, HitOf(n, found[x]))
             Fold(f, k) == f = [s \in SUBSET (1..k) |->
                                  IF s = {} THEN hits ELSE Taken(f[s \ {Max(s)}], Max(s))]
             P == {k \in Nat : \E f : Fold(f, k)}
  <1>0. l \in Nat /\ DOMAIN found = 1..l
    OBVIOUS
  <1>1. 0 \in P
    <2>1. Fold([s \in SUBSET (1..0) |-> hits], 0)
      OBVIOUS
    <2> QED
      BY <2>1
  <1>2. ASSUME NEW k \in Nat, k \in P PROVE k + 1 \in P
    <2> HIDE DEF Taken
    <2> PICK f : Fold(f, k)
      BY <1>2
    <2>1. \A s \in SUBSET (1..k) : f[s] = IF s = {} THEN hits ELSE Taken(f[s \ {Max(s)}], Max(s))
      OBVIOUS
    <2> DEFINE e == [s \in SUBSET (1..(k + 1)) |->
                       IF k + 1 \in s THEN Taken(f[s \ {k + 1}], k + 1) ELSE f[s]]
    <2>2. ASSUME NEW s \in SUBSET (1..(k + 1))
          PROVE  e[s] = IF s = {} THEN hits ELSE Taken(e[s \ {Max(s)}], Max(s))
      <3>1. CASE k + 1 \in s
        <4>1. Max(s) = k + 1
          BY <3>1, MaxIsTop
        <4>2. s \ {k + 1} \in SUBSET (1..(k + 1)) /\ k + 1 \notin s \ {k + 1}
          OBVIOUS
        <4> QED
          BY <3>1, <4>1, <4>2
      <3>2. CASE k + 1 \notin s
        <4>1. s \in SUBSET (1..k)
          BY <3>2
        <4>3. s \ {Max(s)} \in SUBSET (1..(k + 1)) /\ k + 1 \notin s \ {Max(s)}
          BY <3>2
        <4> QED
          BY <2>1, <3>2, <4>1, <4>3
      <3> QED
        BY <3>1, <3>2
    <2>3. Fold(e, k + 1)
      BY <2>2
    <2> HIDE DEF e, Fold
    <2> QED
      BY <2>3
  <1>3. l \in P
    <2> HIDE DEF P
    <2> QED
      BY <1>0, <1>1, <1>2, SetInduction
  <1> DEFINE f == CHOOSE f : Fold(f, l)
  <1>4. Fold(f, l)
    BY <1>3
  <1>5. Aggregate(hits, n, found) = f[1..l]
    BY <1>0 DEF Aggregate, FoldLeft, MapThenFoldSet, Kept, HitOf
  <1> DEFINE g == [k \in 0..l |-> f[1..k]]
  <1>6. ASSUME NEW k \in 1..l PROVE g[k] = Taken(g[k - 1], k)
    <2> HIDE DEF f, Taken
    <2>1. Max(1..k) = k /\ 1..k # {} /\ (1..k) \ {k} = 1..(k - 1) /\ 1..k \in SUBSET (1..l)
      BY <1>0, MaxIsTop
    <2>2. f[1..k] = Taken(f[(1..k) \ {Max(1..k)}], Max(1..k))
      BY <1>4, <2>1
    <2>3. g[k] = f[1..k] /\ g[k - 1] = f[1..(k - 1)]
      BY <1>0
    <2> HIDE DEF g
    <2> QED
      BY <2>1, <2>2, <2>3
  <1>7. g[0] = hits /\ g[l] = f[1..l]
    <2> HIDE DEF f
    <2> QED
      BY <1>0, <1>4
  <1> HIDE DEF g
  <1> QED
    BY <1>0, <1>5, <1>6, <1>7

\* The fold of Found's names, step by step.
LEMMA NamesFold ==
  ASSUME NEW X, NEW hits \in Seq(X), NEW heard
  PROVE  \E g : /\ g[0] = <<>>
                /\ \A k \in 1..Len(hits) : g[k] = Append(g[k - 1], QueryLeafName(hits[k], g[k - 1]))
                /\ Found(hits, heard).names = g[Len(hits)]
  <1> DEFINE l == Len(hits)
             Taken(used, x) == Append(used, QueryLeafName(hits[x], used))
             Fold(f, k) == f = [s \in SUBSET (1..k) |->
                                  IF s = {} THEN <<>> ELSE Taken(f[s \ {Max(s)}], Max(s))]
             P == {k \in Nat : \E f : Fold(f, k)}
  <1>0. l \in Nat /\ DOMAIN hits = 1..l
    OBVIOUS
  <1>1. 0 \in P
    <2>1. Fold([s \in SUBSET (1..0) |-> <<>>], 0)
      OBVIOUS
    <2> QED
      BY <2>1
  <1>2. ASSUME NEW k \in Nat, k \in P PROVE k + 1 \in P
    <2> HIDE DEF Taken
    <2> PICK f : Fold(f, k)
      BY <1>2
    <2>1. \A s \in SUBSET (1..k) : f[s] = IF s = {} THEN <<>> ELSE Taken(f[s \ {Max(s)}], Max(s))
      OBVIOUS
    <2> DEFINE e == [s \in SUBSET (1..(k + 1)) |->
                       IF k + 1 \in s THEN Taken(f[s \ {k + 1}], k + 1) ELSE f[s]]
    <2>2. ASSUME NEW s \in SUBSET (1..(k + 1))
          PROVE  e[s] = IF s = {} THEN <<>> ELSE Taken(e[s \ {Max(s)}], Max(s))
      <3>1. CASE k + 1 \in s
        <4>1. Max(s) = k + 1
          BY <3>1, MaxIsTop
        <4>2. s \ {k + 1} \in SUBSET (1..(k + 1)) /\ k + 1 \notin s \ {k + 1}
          OBVIOUS
        <4> QED
          BY <3>1, <4>1, <4>2
      <3>2. CASE k + 1 \notin s
        <4>1. s \in SUBSET (1..k)
          BY <3>2
        <4>3. s \ {Max(s)} \in SUBSET (1..(k + 1)) /\ k + 1 \notin s \ {Max(s)}
          BY <3>2
        <4> QED
          BY <2>1, <3>2, <4>1, <4>3
      <3> QED
        BY <3>1, <3>2
    <2>3. Fold(e, k + 1)
      BY <2>2
    <2> HIDE DEF e, Fold
    <2> QED
      BY <2>3
  <1>3. l \in P
    <2> HIDE DEF P
    <2> QED
      BY <1>0, <1>1, <1>2, SetInduction
  <1> DEFINE f == CHOOSE f : Fold(f, l)
  <1>4. Fold(f, l)
    BY <1>3
  <1>5. Found(hits, heard).names = f[1..l]
    BY <1>0 DEF Found, FoldLeft, MapThenFoldSet
  <1> DEFINE g == [k \in 0..l |-> f[1..k]]
  <1>6. ASSUME NEW k \in 1..l PROVE g[k] = Taken(g[k - 1], k)
    <2> HIDE DEF f, Taken
    <2>1. Max(1..k) = k /\ 1..k # {} /\ (1..k) \ {k} = 1..(k - 1) /\ 1..k \in SUBSET (1..l)
      BY <1>0, MaxIsTop
    <2>2. f[1..k] = Taken(f[(1..k) \ {Max(1..k)}], Max(1..k))
      BY <1>4, <2>1
    <2>3. g[k] = f[1..k] /\ g[k - 1] = f[1..(k - 1)]
      BY <1>0
    <2> HIDE DEF g
    <2> QED
      BY <2>1, <2>2, <2>3
  <1>7. g[0] = <<>> /\ g[l] = f[1..l]
    <2> HIDE DEF f
    <2> QED
      BY <1>0, <1>4
  <1> HIDE DEF g
  <1> QED
    BY <1>0, <1>5, <1>6, <1>7


-----------------------------------------------------------------------------
\* What a query has gathered so far from the machines it has heard.
Hits == [peer : Seq(Chars), file : Files]
Exact(hits, heard) ==
  /\ heard \subseteq Hosts
  /\ hits \in Seq(Hits)
  /\ IsInjective(hits)
  /\ Len(hits) <= Quota
  /\ \A x \in Range(hits) : \E h \in heard : NameOf[h] = x.peer /\ x.file \in Range(Matches[h])
  /\ Len(hits) < Quota =>
       \A h \in heard : \A f \in Range(Matches[h]) : [peer |-> NameOf[h], file |-> f] \in Range(hits)

\* One more hit.
LEMMA KeptIs ==
  ASSUME NEW out \in Seq(Hits), IsInjective(out), Len(out) <= Quota, NEW hit \in Hits
  PROVE  /\ Kept(out, hit) \in Seq(Hits) /\ IsInjective(Kept(out, hit))
         /\ Len(Kept(out, hit)) <= Quota /\ Len(out) <= Len(Kept(out, hit))
         /\ Range(out) \subseteq Range(Kept(out, hit))
         /\ Range(Kept(out, hit)) \subseteq Range(out) \cup {hit}
         /\ Len(Kept(out, hit)) < Quota => hit \in Range(Kept(out, hit))
  <1>0. Quota \in Nat /\ Len(out) \in Nat
    BY QuotaIsNat
  <1>1. CASE Len(out) >= Quota \/ Contains(out, hit)
    <2>1. Kept(out, hit) = out
      BY <1>1 DEF Kept
    <2>2. Contains(out, hit) <=> hit \in Range(out)
      BY ContainsIsRange
    <2> QED
      BY <1>0, <1>1, <2>1, <2>2
  <1>2. CASE ~(Len(out) >= Quota \/ Contains(out, hit))
    <2>1. Kept(out, hit) = Append(out, hit)
      BY <1>2 DEF Kept
    <2>2. hit \notin Range(out)
      BY <1>2, ContainsIsRange
    <2>3. /\ Range(Append(out, hit)) = Range(out) \cup {hit} /\ IsInjective(Append(out, hit))
          /\ Len(Append(out, hit)) = Len(out) + 1
      BY <2>2, RangeAppend
    <2>4. Append(out, hit) \in Seq(Hits)
      OBVIOUS
    <2> QED
      BY <1>0, <1>2, <2>1, <2>3, <2>4
  <1> QED
    BY <1>1, <1>2

\* What Aggregate adds: hits of this peer, each once, all of them below the quota.
LEMMA AggregateAdds ==
  ASSUME NEW hits \in Seq(Hits), IsInjective(hits), Len(hits) <= Quota,
         NEW n \in Seq(Chars), NEW found \in Seq(Files)
  PROVE  LET out == Aggregate(hits, n, found)
             theirs == {[peer |-> n, file |-> f] : f \in Range(found)}
         IN /\ out \in Seq(Hits) /\ IsInjective(out) /\ Len(out) <= Quota /\ Len(hits) <= Len(out)
            /\ Range(hits) \subseteq Range(out) /\ Range(out) \subseteq Range(hits) \cup theirs
            /\ Len(out) < Quota => theirs \subseteq Range(out)
  <1> DEFINE l == Len(found)
             Hit(k) == HitOf(n, found[k])
  <1>0. l \in Nat /\ DOMAIN found = 1..l /\ Quota \in Nat /\ \A k \in 1..l : Hit(k) \in Hits
    BY QuotaIsNat DEF Hits, HitOf
  <1>1. PICK g : /\ g[0] = hits
                 /\ \A k \in 1..l : g[k] = Kept(g[k - 1], Hit(k))
                 /\ Aggregate(hits, n, found) = g[l]
    BY AggregateFolds
  <1> DEFINE Good(m) ==
               /\ g[m] \in Seq(Hits) /\ IsInjective(g[m]) /\ Len(g[m]) <= Quota /\ Len(hits) <= Len(g[m])
               /\ Range(hits) \subseteq Range(g[m])
               /\ Range(g[m]) \subseteq Range(hits) \cup {Hit(k) : k \in 1..m}
               /\ Len(g[m]) < Quota => \A k \in 1..m : Hit(k) \in Range(g[m])
             P == {m \in Nat : m <= l => Good(m)}
  <1>2. 0 \in P
    <2>1. Good(0)
      BY <1>1
    <2> QED
      BY <2>1
  <1>3. ASSUME NEW m \in Nat, m \in P PROVE m + 1 \in P
    <2>1. SUFFICES ASSUME m + 1 <= l PROVE Good(m + 1)
      OBVIOUS
    <2>2. Good(m) /\ m + 1 \in 1..l /\ (m + 1) - 1 = m
      <3> HIDE DEF Good
      <3> QED
        BY <1>0, <1>3, <2>1
    <2>3. PICK out, next, hit : out = g[m] /\ next = g[m + 1] /\ hit = Hit(m + 1)
      OBVIOUS
    <2>4. next = Kept(out, hit) /\ hit \in Hits
      BY <1>0, <1>1, <2>2, <2>3
    <2>5. /\ out \in Seq(Hits) /\ IsInjective(out) /\ Len(out) <= Quota
      BY <2>2, <2>3
    <2>6. /\ next \in Seq(Hits) /\ IsInjective(next)
          /\ Len(next) <= Quota /\ Len(out) <= Len(next)
          /\ Range(out) \subseteq Range(next) /\ Range(next) \subseteq Range(out) \cup {hit}
          /\ Len(next) < Quota => hit \in Range(next)
      BY <2>4, <2>5, KeptIs
    <2>7. Len(hits) \in Nat /\ Len(out) \in Nat /\ Len(next) \in Nat
      BY <2>5, <2>6
    <2>8. 1..(m + 1) = (1..m) \cup {m + 1}
      OBVIOUS
    <2>9. Len(hits) <= Len(next) /\ Range(hits) \subseteq Range(next)
      BY <2>2, <2>3, <2>6, <2>7
    <2> HIDE DEF Hit
    <2>10. Range(next) \subseteq Range(hits) \cup {Hit(k) : k \in 1..(m + 1)}
      BY <2>2, <2>3, <2>6, <2>8
    <2>11. Len(next) < Quota => \A k \in 1..(m + 1) : Hit(k) \in Range(next)
      BY <1>0, <2>2, <2>3, <2>6, <2>7, <2>8
    <2> QED
      BY <2>3, <2>6, <2>9, <2>10, <2>11
  <1>4. Good(l)
    <2>1. l \in P
      <3> HIDE DEF P
      <3> QED
        BY <1>0, <1>2, <1>3, SetInduction
    <2> QED
      BY <1>0, <2>1
  <1>5. {Hit(k) : k \in 1..l} = {[peer |-> n, file |-> f] : f \in Range(found)}
    BY <1>0 DEF Range, HitOf
  <1> HIDE DEF Hit
  <1>6. (\A k \in 1..l : Hit(k) \in Range(g[l])) => {Hit(k) : k \in 1..l} \subseteq Range(g[l])
    OBVIOUS
  <1> QED
    BY <1>1, <1>4, <1>5, <1>6

LEMMA AggregateExact ==
  ASSUME NEW hits, NEW heard, Exact(hits, heard), NEW h \in Hosts, NameOf[h] \in Seq(Chars)
  PROVE  Exact(Aggregate(hits, NameOf[h], Matches[h]), heard \cup {h})
  <1> PICK out, theirs : /\ out = Aggregate(hits, NameOf[h], Matches[h])
                         /\ theirs = {[peer |-> NameOf[h], file |-> f] : f \in Range(Matches[h])}
    OBVIOUS
  <1>0. Matches[h] \in Seq(Files) /\ Quota \in Nat
    BY VolumeAssumption
  <1>1. /\ out \in Seq(Hits) /\ IsInjective(out) /\ Len(out) <= Quota /\ Len(hits) <= Len(out)
        /\ Range(hits) \subseteq Range(out) /\ Range(out) \subseteq Range(hits) \cup theirs
        /\ Len(out) < Quota => theirs \subseteq Range(out)
    BY <1>0, AggregateAdds DEF Exact
  <1>2. \A x \in theirs : x.peer = NameOf[h] /\ x.file \in Range(Matches[h])
    OBVIOUS
  <1>3. ASSUME NEW x \in Range(out)
        PROVE  \E k \in heard \cup {h} : NameOf[k] = x.peer /\ x.file \in Range(Matches[k])
    BY <1>1, <1>2 DEF Exact
  <1>4. ASSUME Len(out) < Quota, NEW k \in heard \cup {h}, NEW f \in Range(Matches[k])
        PROVE  [peer |-> NameOf[k], file |-> f] \in Range(out)
    <2>1. Len(hits) < Quota
      BY <1>0, <1>1, <1>4 DEF Exact
    <2>2. CASE k = h
      BY <1>1, <1>4, <2>2
    <2>3. CASE k \in heard
      BY <1>1, <2>1, <2>3 DEF Exact
    <2> QED
      BY <2>2, <2>3
  <1> QED
    BY <1>1, <1>3, <1>4 DEF Exact


-----------------------------------------------------------------------------
\* Short sequences, and two in a row.
LEMMA Tuples ==
  ASSUME NEW C, NEW a \in C, NEW b \in C, NEW c \in C, NEW d \in C
  PROVE  /\ <<a, b, c>> \in Seq(C) /\ <<a, b, c, d>> \in Seq(C)
         /\ Len(<<a, b, c, d>>) = 4 /\ <<a, b, c, d>>[3] = c
  OBVIOUS

LEMMA Joined ==
  ASSUME NEW C, NEW s \in Seq(C), NEW t \in Seq(C)
  PROVE  /\ s \o t \in Seq(C) /\ Len(s \o t) = Len(s) + Len(t)
         /\ \A i \in 1..(Len(s) + Len(t)) :
              (s \o t)[i] = IF i <= Len(s) THEN s[i] ELSE t[i - Len(s)]
  OBVIOUS

LEMMA FunIsSeq ==
  ASSUME NEW n \in Nat, NEW Y, NEW t \in [1..n -> Y] PROVE t \in Seq(Y)
  OBVIOUS

LEMMA ThirdOfFour ==
  ASSUME NEW l \in Nat PROVE l + 3 \in 1..(l + 4) /\ (l + 3) - l = 3 /\ ~(l + 3 <= l)
  OBVIOUS

LEMMA CardinalityUpTo ==
  ASSUME NEW l \in Nat PROVE IsFiniteSet(1..l) /\ Cardinality(1..l) = l
  <1>1. \A a, b \in Int : IsFiniteSet(a..b) /\ Cardinality(a..b) = IF a > b THEN 0 ELSE b - a + 1
    BY FS_Interval
  <1>2. IsFiniteSet(1..l) /\ Cardinality(1..l) = IF 1 > l THEN 0 ELSE l - 1 + 1
    BY <1>1
  <1> QED
    BY <1>2

LEMMA Marks == " " \in Chars /\ "-" \in Chars /\ "(" \in Chars /\ ")" \in Chars
  BY VolumeAssumption

\* A base with different numbers behind it gives different names.
LEMMA NumberedDiffer ==
  ASSUME NEW base \in Seq(Chars), NEW m \in 1..Quota, NEW n \in 1..Quota,
         Numbered(base, m) = Numbered(base, n)
  PROVE  m = n
  <1>0. /\ Quota \in Nat /\ Len(base) \in Nat /\ \A i \in 1..Quota : Decimal[i] \in Chars
        /\ \A i, j \in 1..Quota : Decimal[i] = Decimal[j] => i = j
    BY QuotaIsNat, NumbersDiffer
  <1>1. ASSUME NEW k \in 1..Quota, k # 1
        PROVE  Len(Numbered(base, k)) = Len(base) + 4 /\ Numbered(base, k)[Len(base) + 3] = Decimal[k]
    <2> PICK t : t = <<" ", "(", Decimal[k], ")">>
      OBVIOUS
    <2>1. t \in Seq(Chars) /\ Len(t) = 4 /\ t[3] = Decimal[k]
      BY <1>0, Marks, Tuples
    <2>2. Numbered(base, k) = base \o t
      BY <1>1 DEF Numbered
    <2>3. Len(base \o t) = Len(base) + Len(t) /\ \A i \in 1..(Len(base) + Len(t)) :
             (base \o t)[i] = IF i <= Len(base) THEN base[i] ELSE t[i - Len(base)]
      BY <2>1, Joined
    <2>4. PICK l \in Nat : l = Len(base)
      BY <1>0
    <2>5. l + 3 \in 1..(l + 4) /\ (l + 3) - l = 3 /\ ~(l + 3 <= l)
      BY ThirdOfFour
    <2> QED
      BY <2>1, <2>2, <2>3, <2>4, <2>5
  <1>2. Numbered(base, 1) = base
    BY DEF Numbered
  <1> QED
    BY <1>0, <1>1, <1>2

LEMMA NumberedIsName ==
  ASSUME NEW base \in Seq(Chars), NEW n \in 1..Quota PROVE Numbered(base, n) \in Seq(Chars)
  <1>1. Decimal[n] \in Chars
    BY NumbersDiffer
  <1>2. <<" ", "(", Decimal[n], ")">> \in Seq(Chars)
    BY <1>1, Marks, Tuples
  <1> QED
    BY <1>2, Joined DEF Numbered

\* The names that are used are one fewer than the numbers that are tried: one is free.
LEMMA OneIsFree ==
  ASSUME NEW base \in Seq(Chars), NEW used \in Seq(Seq(Chars)), Len(used) < Quota
  PROVE  \E n \in 1..(Len(used) + 1) : Numbered(base, n) \notin Range(used)
  <1> DEFINE l == Len(used)
  <1>0. l \in Nat /\ DOMAIN used = 1..l /\ Quota \in Nat /\ 1..(l + 1) \subseteq 1..Quota
    BY QuotaIsNat
  <1> SUFFICES ASSUME \A n \in 1..(l + 1) : Numbered(base, n) \in Range(used) PROVE FALSE
    OBVIOUS
  <1> DEFINE f == [n \in 1..(l + 1) |-> CHOOSE i \in 1..l : used[i] = Numbered(base, n)]
  <1>1. \A n \in 1..(l + 1) : f[n] \in 1..l /\ used[f[n]] = Numbered(base, n)
    BY <1>0 DEF Range
  <1>2. f \in [1..(l + 1) -> 1..l]
    BY <1>1
  <1>3. /\ IsFiniteSet(1..(l + 1)) /\ IsFiniteSet(1..l)
        /\ Cardinality(1..(l + 1)) = l + 1 /\ Cardinality(1..l) = l
    BY <1>0, CardinalityUpTo
  <1> HIDE DEF f
  <1>4. PICK x, y \in 1..(l + 1) : x # y /\ f[x] = f[y]
    <2>1. Cardinality(1..l) < Cardinality(1..(l + 1))
      BY <1>0, <1>3
    <2> QED
      BY <1>2, <1>3, <2>1, FS_PigeonHole
  <1>5. Numbered(base, x) = Numbered(base, y) /\ x \in 1..Quota /\ y \in 1..Quota
    BY <1>0, <1>1, <1>4
  <1> QED
    BY <1>4, <1>5, NumberedDiffer

\* QueryLeafName finds a name that is not used.
LEMMA LeafNameIsNew ==
  ASSUME NEW hit \in Hits, NEW used \in Seq(Seq(Chars)), Len(used) < Quota
  PROVE  QueryLeafName(hit, used) \in Seq(Chars) /\ QueryLeafName(hit, used) \notin Range(used)
  <1> DEFINE flat == [i \in DOMAIN hit.file |-> IF hit.file[i] = "/" THEN "-" ELSE hit.file[i]]
             base == hit.peer \o <<" ", "-", " ">> \o flat
             Free(n) == Numbered(base, n) \notin Range(used)
  <1>0. Len(used) \in Nat /\ Quota \in Nat
    BY QuotaIsNat
  <1>1. base \in Seq(Chars)
    <2>1. hit.file \in Seq(Chars) /\ hit.peer \in Seq(Chars)
      BY VolumeAssumption DEF Hits
    <2>2. flat \in Seq(Chars)
      <3> PICK s : s = hit.file
        OBVIOUS
      <3>1. DOMAIN s = 1..Len(s) /\ Len(s) \in Nat /\ \A i \in 1..Len(s) : s[i] \in Chars
        BY <2>1
      <3>2. flat = [i \in 1..Len(s) |-> IF s[i] = "/" THEN "-" ELSE s[i]]
        BY <3>1
      <3> HIDE DEF flat
      <3>3. flat \in [1..Len(s) -> Chars]
        BY <3>1, <3>2, Marks
      <3> QED
        BY <3>1, <3>3, FunIsSeq
    <2>3. <<" ", "-", " ">> \in Seq(Chars)
      BY Marks, Tuples
    <2> HIDE DEF flat
    <2>4. <<" ", "-", " ">> \o flat \in Seq(Chars)
      BY <2>2, <2>3, Joined
    <2>5. hit.peer \o <<" ", "-", " ">> \in Seq(Chars)
      BY <2>1, <2>3, Joined
    <2> QED
      BY <2>1, <2>2, <2>4, <2>5, Joined
  <1> HIDE DEF base
  <1>2. PICK k \in 1..(Len(used) + 1) : Free(k)
    BY <1>1, OneIsFree
  <1> DEFINE S == {n \in 1..(Len(used) + 1) : Free(n)}
  <1>3. PICK x \in S : \A y \in S : x <= y
    <2>1. k \in S
      BY <1>2
    <2>2. S \subseteq Nat
      BY <1>0
    <2> HIDE DEF S
    <2> QED
      BY <2>1, <2>2, LeastExists
  <1>4. \A e : Contains(used, e) <=> e \in Range(used)
    BY ContainsIsRange
  <1>5. /\ x \in 1..(Len(used) + 1) /\ ~Contains(used, Numbered(base, x))
        /\ \A m \in 1..x - 1 : Contains(used, Numbered(base, m))
    BY <1>0, <1>3, <1>4
  <1> DEFINE c == CHOOSE n \in 1..Len(used) + 1 : /\ ~Contains(used, Numbered(base, n))
                                                  /\ \A m \in 1..n - 1 : Contains(used, Numbered(base, m))
  <1>6. c \in 1..(Len(used) + 1) /\ ~Contains(used, Numbered(base, c))
    BY <1>5
  <1>7. QueryLeafName(hit, used) = Numbered(base, c)
    BY DEF QueryLeafName, base
  <1> HIDE DEF c
  <1>8. c \in 1..Quota
    BY <1>0, <1>6
  <1> QED
    BY <1>1, <1>4, <1>6, <1>7, <1>8, NumberedIsName

\* The names of the results: as many as the results, and all different.
LEMMA NamesDiffer ==
  ASSUME NEW hits \in Seq(Hits), Len(hits) <= Quota, NEW heard
  PROVE  Len(Found(hits, heard).names) = Len(hits) /\ IsInjective(Found(hits, heard).names)
  <1> DEFINE l == Len(hits)
  <1>0. l \in Nat /\ Quota \in Nat /\ \A k \in 1..l : hits[k] \in Hits
    BY QuotaIsNat
  <1>1. PICK g : /\ g[0] = <<>>
                 /\ \A k \in 1..l : g[k] = Append(g[k - 1], QueryLeafName(hits[k], g[k - 1]))
                 /\ Found(hits, heard).names = g[l]
    BY NamesFold
  <1> DEFINE Good(m) == g[m] \in Seq(Seq(Chars)) /\ Len(g[m]) = m /\ IsInjective(g[m])
             P == {m \in Nat : m <= l => Good(m)}
  <1>2. 0 \in P
    <2>1. <<>> \in Seq(Seq(Chars)) /\ Len(<<>>) = 0 /\ IsInjective(<<>>)
      BY DEF IsInjective
    <2> QED
      BY <1>1, <2>1
  <1>3. ASSUME NEW m \in Nat, m \in P PROVE m + 1 \in P
    <2>1. SUFFICES ASSUME m + 1 <= l PROVE Good(m + 1)
      OBVIOUS
    <2>2. Good(m) /\ m + 1 \in 1..l /\ (m + 1) - 1 = m
      <3> HIDE DEF Good
      <3> QED
        BY <1>0, <1>3, <2>1
    <2>3. PICK used, name : used = g[m] /\ name = QueryLeafName(hits[m + 1], used)
      OBVIOUS
    <2>4. g[m + 1] = Append(used, name)
      BY <1>1, <2>2, <2>3
    <2>5. used \in Seq(Seq(Chars)) /\ Len(used) = m /\ IsInjective(used) /\ Len(used) < Quota
      BY <1>0, <2>1, <2>2, <2>3
    <2>6. name \in Seq(Chars) /\ name \notin Range(used)
      BY <1>0, <2>2, <2>3, <2>5, LeafNameIsNew
    <2>7. Append(used, name) \in Seq(Seq(Chars)) /\ Len(Append(used, name)) = m + 1
      BY <2>5, <2>6
    <2>8. IsInjective(Append(used, name))
      BY <2>5, <2>6, RangeAppend
    <2> QED
      BY <2>4, <2>7, <2>8
  <1>4. Good(l)
    <2>1. l \in P
      <3> HIDE DEF P
      <3> QED
        BY <1>0, <1>2, <1>3, SetInduction
    <2> QED
      BY <1>0, <2>1
  <1> QED
    BY <1>1, <1>4


-----------------------------------------------------------------------------
\* The names of machines are names.
LEMMA NamesAreNames == \A h \in Hosts : NameOf[h] \in Seq(Chars)
  <1> SUFFICES ASSUME NEW h \in Hosts PROVE SanitizeName(Instance[h]) \in Seq(Chars)
    BY DEF NameOf
  <1> PICK s : s = Instance[h]
    OBVIOUS
  <1>1. s \in Seq(Chars)
    BY VolumeAssumption
  <1> DEFINE t == [i \in DOMAIN s |-> IF s[i] = "/" THEN "-" ELSE s[i]]
             from == {i \in DOMAIN t : t[i] # "."}
             to == {i \in DOMAIN t : t[i] # " "}
             a == CHOOSE i \in from : \A j \in from : i <= j
             b == CHOOSE i \in to : \A j \in to : j <= i
  <1>2. DOMAIN s = 1..Len(s) /\ Len(s) \in Nat /\ \A i \in 1..Len(s) : s[i] \in Chars
    BY <1>1
  <1>3. DOMAIN t = 1..Len(s)
    BY <1>2
  <1>4. t \in Seq(Chars) /\ Len(t) = Len(s)
    <2>1. t \in [1..Len(s) -> Chars]
      BY <1>2, Marks
    <2> HIDE DEF t
    <2>2. t \in Seq(Chars)
      BY <1>2, <2>1, FunIsSeq
    <2> QED
      BY <1>2, <1>3, <2>2
  <1> HIDE DEF t
  <1>5. from \in SUBSET (1..Len(s)) /\ to \in SUBSET (1..Len(s))
    BY <1>3
  <1> HIDE DEF from, to
  <1>6. CASE from = {} \/ to = {}
    <2>1. SanitizeName(s) = <<>>
      BY <1>6, Zenon DEF SanitizeName, from, to, t
    <2>2. <<>> \in Seq(Chars)
      OBVIOUS
    <2> QED
      BY <2>1, <2>2
  <1>7. CASE from # {} /\ to # {}
    <2>1. a \in 1..Len(s)
      <3>1. from \in SUBSET Nat
        BY <1>2, <1>5
      <3>2. \E i \in from : \A j \in from : i <= j
        BY <1>7, <3>1, LeastExists
      <3> QED
        BY <1>5, <3>2
    <2>2. b \in 1..Len(s)
      <3>1. \E i \in to : \A j \in to : j <= i
        BY <1>2, <1>5, <1>7, GreatestExists
      <3> QED
        BY <1>5, <3>1
    <2>3. SanitizeName(s) = SubSeq(t, a, b)
      BY <1>7 DEF SanitizeName, from, to, t
    <2> HIDE DEF a, b
    <2>4. SubSeq(t, a, b) \in Seq(Chars)
      BY <1>2, <1>4, <2>1, <2>2
    <2> QED
      BY <2>3, <2>4
  <1> QED
    BY <1>6, <1>7

-----------------------------------------------------------------------------
(***************************************************************************)
(* The query.  Discovery lists machines; a connection is to a machine of   *)
(* the name it is kept under; what a call has gathered is exact for the    *)
(* machines it has heard; and so is what the last query returned.          *)
(***************************************************************************)
Gathered == call # Idle => Exact(call.hits, call.heard)
Named ==
  /\ peers \in Seq(Hosts)
  /\ \A n \in DOMAIN conns : conns[n].host \in Hosts /\ NameOf[conns[n].host] = n
  /\ call # Idle /\ call.stage = "hello" => call.host \in Hosts /\ NameOf[call.host] = Peer
LastIsExact ==
  last.op = "query" => \E hits, heard : last.value = Found(hits, heard) /\ Exact(hits, heard)
QueryInv == Gathered /\ Named /\ LastIsExact

\* Nothing is gathered when a call begins.
LEMMA NothingYet == Exact(<<>>, {})
  <1>1. /\ <<>> \in Seq(Hits) /\ Len(<<>>) = 0 /\ DOMAIN <<>> = {} /\ Range(<<>>) = {}
    BY DEF Range
  <1> QED
    BY <1>1, QuotaIsNat DEF Exact, IsInjective

\* A call that ends, or goes on with what it has, between machines that stay.
CallGoesOn ==
  \/ call' = Idle
  \/ call' # Idle /\ call'.stage # "hello" /\ Exact(call'.hits, call'.heard)
LEMMA QueryGoesOn ==
  ASSUME QueryInv, CallGoesOn, LastIsExact', UNCHANGED <<peers, conns>> PROVE QueryInv'
  BY DEF QueryInv, CallGoesOn, Gathered, Named, Peer

LEMMA ReturnQuery ==
  ASSUME NEW op, NEW status, NEW value, Return(op, status, value),
         op = "query" => \E hits, heard : value = Found(hits, heard) /\ Exact(hits, heard)
  PROVE  CallGoesOn /\ LastIsExact'
  <1>1. CASE op = "query"
    <2>1. call' = Idle /\ last' = [op |-> op, status |-> status, value |-> value]
      BY <1>1 DEF Return
    <2>2. last'.value = value
      BY <2>1
    <2> QED
      BY <1>1, <2>1, <2>2 DEF CallGoesOn, LastIsExact
  <1>2. CASE op # "query"
    <2>1. call' = Idle /\ last'.op # "query"
      BY <1>2 DEF Return, NoResult
    <2> QED
      BY <2>1 DEF CallGoesOn, LastIsExact
  <1> QED
    BY <1>1, <1>2

LEMMA UnreachableQuery ==
  ASSUME CallShape, QueryInv, call # Idle, Unreachable PROVE CallGoesOn /\ LastIsExact'
  <1>1. Exact(call.hits, call.heard)
    BY DEF QueryInv, Gathered
  <1>2. CASE call.op # "query"
    BY <1>2, ReturnQuery DEF Unreachable
  <1>3. CASE call.op = "query" /\ call.todo = <<>>
    BY <1>1, <1>3, ReturnQuery DEF Unreachable
  <1>4. CASE call.op = "query" /\ call.todo # <<>>
    <2>1. /\ call' = [call EXCEPT !.path = <<Head(call.todo)>>, !.todo = Tail(@), !.stage = "backend"]
          /\ UNCHANGED last
      BY <1>4 DEF Unreachable
    <2>2. call = [op |-> call.op, path |-> call.path, handle |-> call.handle, stage |-> call.stage,
                  todo |-> call.todo, hits |-> call.hits, heard |-> call.heard,
                  host |-> call.host, life |-> call.life]
      BY DEF CallShape
    <2>3. call' = [op |-> call.op, path |-> <<Head(call.todo)>>, handle |-> call.handle,
                   stage |-> "backend", todo |-> Tail(call.todo), hits |-> call.hits,
                   heard |-> call.heard, host |-> call.host, life |-> call.life]
      BY <2>1, <2>2
    <2>4. call'.stage = "backend" /\ call'.hits = call.hits /\ call'.heard = call.heard
      BY <2>3
    <2> QED
      BY <1>1, <2>1, <2>4 DEF CallGoesOn, QueryInv, LastIsExact
  <1> QED
    BY <1>2, <1>3, <1>4

-----------------------------------------------------------------------------
LEMMA AnsweredQuery ==
  ASSUME QueryInv, NEW op, NEW status, NEW value, Answered(op, status, value),
         op = "query" => value = Found(<<>>, {})
  PROVE  QueryInv'
  <1>1. UNCHANGED <<peers, conns>>
    BY DEF Answered, env
  <1> QED
    BY <1>1, ReturnQuery, NothingYet, QueryGoesOn DEF Answered

LEMMA GoesQuery ==
  ASSUME QueryInv, NEW op, NEW path, NEW h, NEW todo, Goes(op, path, h, todo) PROVE QueryInv'
  <1>1. UNCHANGED <<peers, conns>>
    BY DEF Goes, env
  <1>2. CallGoesOn /\ LastIsExact'
    BY NothingYet DEF Goes, CallGoesOn, LastIsExact, NoResult, Idle
  <1> QED
    BY <1>1, <1>2, QueryGoesOn

LEMMA BeginQuery ==
  ASSUME QueryInv, Begin PROVE QueryInv'
  <1>1. ASSUME NEW path, Stat(path) PROVE QueryInv'
    BY <1>1, AnsweredQuery, GoesQuery DEF Stat
  <1>2. ASSUME NEW path, ReadDir(path) PROVE QueryInv'
    <2>1. \/ \E status, value : Answered("readdir", status, value)
          \/ \E status : Answered("query", status, Found(<<>>, {}))
          \/ \E op, p, h, todo : Goes(op, p, h, todo)
      BY <1>2 DEF ReadDir
    <2> QED
      BY <2>1, AnsweredQuery, GoesQuery
  <1>3. ASSUME NEW path, Open(path) PROVE QueryInv'
    <2>1. \/ \E status, value : Answered("open", status, value)
          \/ \E op, p, h, todo : Goes(op, p, h, todo)
      BY <1>3 DEF Open
    <2> QED
      BY <2>1, AnsweredQuery, GoesQuery
  <1>4. ASSUME NEW op \in {"read", "close"}, NEW h, OnHandle(op, h) PROVE QueryInv'
    <2>1. CASE h \notin DOMAIN fOpen
      BY <1>4, <2>1, AnsweredQuery DEF OnHandle
    <2>2. CASE h \in DOMAIN fOpen
      <3>1. UNCHANGED <<peers, conns>>
        BY <1>4, <2>2 DEF OnHandle, env
      <3>2. /\ call' = [op |-> op, path |-> <<fOpen[h].name>>, handle |-> h, stage |-> "request",
                        todo |-> <<>>, hits |-> <<>>, heard |-> {}, host |-> "none", life |-> 0]
            /\ last' = NoResult
        BY <1>4, <2>2 DEF OnHandle
      <3>3. call'.stage = "request" /\ call'.hits = <<>> /\ call'.heard = {} /\ last'.op = "none"
        BY <3>2 DEF NoResult
      <3>4. CallGoesOn
        BY <3>3, NothingYet DEF CallGoesOn
      <3>5. LastIsExact'
        BY <3>3 DEF LastIsExact
      <3> QED
        BY <3>1, <3>4, <3>5, QueryGoesOn
    <2> QED
      BY <2>1, <2>2
  <1> QED
    BY <1>1, <1>2, <1>3, <1>4 DEF Begin

\* FindEndpoint gives a machine of that name.
LEMMA FirstIsNamed ==
  ASSUME QueryInv, NEW n, FindEndpoint(n) # {}
  PROVE  First(FindEndpoint(n)) \in Hosts /\ NameOf[First(FindEndpoint(n))] = n
  <1> DEFINE E == FindEndpoint(n)
  <1>1. DOMAIN peers = 1..Len(peers) /\ Len(peers) \in Nat /\ \A i \in DOMAIN peers : peers[i] \in Hosts
    BY DEF QueryInv, Named
  <1>2. E \subseteq DOMAIN peers /\ \A i \in E : NameOf[peers[i]] = n
    BY DEF FindEndpoint
  <1> HIDE DEF E
  <1>3. E \in SUBSET Nat /\ E # {}
    BY <1>1, <1>2 DEF E
  <1>4. PICK i \in E : First(E) = peers[i]
    BY <1>3, LeastExists DEF First
  <1> QED
    BY <1>1, <1>2, <1>4 DEF E

LEMMA BackendForQuery ==
  ASSUME VolumeInv, QueryInv, BackendFor PROVE QueryInv'
  <1>1. /\ call # Idle /\ UNCHANGED <<peers, conns>> /\ CallShape
        /\ Exact(call.hits, call.heard)
    BY DEF BackendFor, env, VolumeInv, QueryInv, Gathered
  <1>2. CASE Unreachable
    BY <1>1, <1>2, UnreachableQuery, QueryGoesOn
  <1>3. CASE call' = [call EXCEPT !.stage = "request"] /\ UNCHANGED last
    <2>1. call' = [op |-> call.op, path |-> call.path, handle |-> call.handle, stage |-> "request",
                   todo |-> call.todo, hits |-> call.hits, heard |-> call.heard,
                   host |-> call.host, life |-> call.life]
      BY <1>1, <1>3, CallFields
    <2>2. call'.stage = "request" /\ call'.hits = call.hits /\ call'.heard = call.heard
      BY <2>1
    <2>3. CallGoesOn /\ LastIsExact'
      BY <1>1, <1>3, <2>2 DEF CallGoesOn, QueryInv, LastIsExact
    <2> QED
      BY <1>1, <2>3, QueryGoesOn
  <1>4. ASSUME NEW h, h \in Hosts, NameOf[h] = Peer,
               call' = [call EXCEPT !.stage = "hello", !.host = h, !.life = host[h].life],
               UNCHANGED last
        PROVE  QueryInv'
    <2>1. call' = [op |-> call.op, path |-> call.path, handle |-> call.handle, stage |-> "hello",
                   todo |-> call.todo, hits |-> call.hits, heard |-> call.heard,
                   host |-> h, life |-> host[h].life]
      BY <1>1, <1>4, CallFields
    <2>2. /\ call'.stage = "hello" /\ call'.hits = call.hits /\ call'.heard = call.heard
          /\ call'.host = h /\ call'.path = call.path
      BY <2>1
    <2>3. Named'
      BY <1>1, <1>4, <2>2 DEF QueryInv, Named, Peer
    <2> QED
      BY <1>1, <1>4, <2>2, <2>3 DEF QueryInv, Gathered, LastIsExact
  <1>5. CASE FindEndpoint(Peer) # {} /\ Connect(First(FindEndpoint(Peer)))
    <2> PICK h : h = First(FindEndpoint(Peer))
      OBVIOUS
    <2>1. h \in Hosts /\ NameOf[h] = Peer
      BY <1>5, FirstIsNamed
    <2> QED
      BY <1>2, <1>4, <1>5, <2>1 DEF Connect
  <1> QED
    BY <1>2, <1>3, <1>5 DEF BackendFor

LEMMA HelloQuery ==
  ASSUME VolumeInv, QueryInv, Hello PROVE QueryInv'
  <1>1. /\ call # Idle /\ call.stage = "hello" /\ UNCHANGED peers /\ CallShape
        /\ Exact(call.hits, call.heard) /\ call.host \in Hosts /\ NameOf[call.host] = Peer
    BY DEF Hello, env, VolumeInv, QueryInv, Gathered, Named
  <1>2. CASE Unreachable /\ UNCHANGED conns
    BY <1>1, <1>2, UnreachableQuery, QueryGoesOn
  <1>3. CASE /\ conns' = With(conns, Peer, [host |-> call.host, life |-> call.life, table |-> <<>>])
             /\ call' = [call EXCEPT !.stage = "request"] /\ UNCHANGED last
    <2>1. call' = [op |-> call.op, path |-> call.path, handle |-> call.handle, stage |-> "request",
                   todo |-> call.todo, hits |-> call.hits, heard |-> call.heard,
                   host |-> call.host, life |-> call.life]
      BY <1>1, <1>3, CallFields
    <2>2. call'.stage = "request" /\ call'.hits = call.hits /\ call'.heard = call.heard
      BY <2>1
    <2> PICK new : new = [host |-> call.host, life |-> call.life, table |-> <<>>]
      OBVIOUS
    <2>3. new.host = call.host
      OBVIOUS
    <2>4. /\ DOMAIN conns' = DOMAIN conns \cup {Peer} /\ conns'[Peer] = new
          /\ \A n \in DOMAIN conns \ {Peer} : conns'[n] = conns[n]
      BY <1>3 DEF With
    <2>5. \A n \in DOMAIN conns' : conns'[n].host \in Hosts /\ NameOf[conns'[n].host] = n
      BY <1>1, <2>3, <2>4 DEF QueryInv, Named
    <2> QED
      BY <1>1, <1>3, <2>2, <2>5 DEF QueryInv, Gathered, LastIsExact, Named
  <1> QED
    BY <1>2, <1>3 DEF Hello

LEMMA ServeQueryQuery ==
  ASSUME VolumeInv, QueryInv, ServeQuery PROVE QueryInv'
  <1>1. /\ call # Idle /\ call.op = "query" /\ call.stage = "request" /\ UNCHANGED <<peers, conns>>
        /\ Exact(call.hits, call.heard)
    BY DEF ServeQuery, Served, Asked, env, QueryInv, Gathered
  <1>2. Conn.host \in Hosts /\ NameOf[Conn.host] = Peer
    BY <1>1 DEF VolumeInv, Connected, QueryInv, Named, Conn, Peer
  <1>3. PICK hits, heard :
          /\ Exact(hits, heard)
          /\ \/ Return("query", "kOk", Found(hits, heard))
             \/ /\ call' = [call EXCEPT !.hits = hits, !.heard = heard, !.stage = "backend",
                                        !.path = <<Head(call.todo)>>, !.todo = Tail(@)]
                /\ UNCHANGED last
    <2>1. Exact(Aggregate(call.hits, Peer, Matches[Conn.host]), call.heard \cup {Conn.host})
      <3>1. NameOf[Conn.host] \in Seq(Chars)
        BY <1>2, NamesAreNames
      <3>2. Exact(Aggregate(call.hits, NameOf[Conn.host], Matches[Conn.host]), call.heard \cup {Conn.host})
        BY <1>1, <1>2, <3>1, AggregateExact
      <3> QED
        BY <1>2, <3>2
    <2>2. PICK ok \in BOOLEAN :
            LET hits == IF ok THEN Aggregate(call.hits, Peer, Matches[Conn.host]) ELSE call.hits
                heard == IF ok THEN call.heard \cup {Conn.host} ELSE call.heard
            IN IF call.todo = <<>> \/ Len(hits) >= Quota
               THEN Return("query", "kOk", Found(hits, heard))
               ELSE /\ call' = [call EXCEPT !.hits = hits, !.heard = heard, !.stage = "backend",
                                            !.path = <<Head(call.todo)>>, !.todo = Tail(@)]
                    /\ UNCHANGED last
      BY Zenon DEF ServeQuery
    <2> PICK hits, heard :
          /\ hits = IF ok THEN Aggregate(call.hits, Peer, Matches[Conn.host]) ELSE call.hits
          /\ heard = IF ok THEN call.heard \cup {Conn.host} ELSE call.heard
      BY Zenon
    <2>3. Exact(hits, heard)
      BY <1>1, <2>1, Zenon
    <2>4. \/ Return("query", "kOk", Found(hits, heard))
          \/ /\ call' = [call EXCEPT !.hits = hits, !.heard = heard, !.stage = "backend",
                                     !.path = <<Head(call.todo)>>, !.todo = Tail(@)]
             /\ UNCHANGED last
      BY <2>2, Zenon
    <2> QED
      BY <2>3, <2>4, Zenon
  <1>4. CASE Return("query", "kOk", Found(hits, heard))
    BY <1>1, <1>3, <1>4, ReturnQuery, QueryGoesOn
  <1>5. CASE /\ call' = [call EXCEPT !.hits = hits, !.heard = heard, !.stage = "backend",
                                     !.path = <<Head(call.todo)>>, !.todo = Tail(@)]
             /\ UNCHANGED last
    <2>1. call' = [op |-> call.op, path |-> <<Head(call.todo)>>, handle |-> call.handle,
                   stage |-> "backend", todo |-> Tail(call.todo), hits |-> hits,
                   heard |-> heard, host |-> call.host, life |-> call.life]
      BY <1>1, <1>5, CallFields
    <2>2. call'.stage = "backend" /\ call'.hits = hits /\ call'.heard = heard
      BY <2>1
    <2>3. CallGoesOn /\ LastIsExact'
      BY <1>3, <1>5, <2>2 DEF CallGoesOn, QueryInv, LastIsExact
    <2> QED
      BY <1>1, <2>3, QueryGoesOn
  <1> QED
    BY <1>3, <1>4, <1>5

LEMMA RequestQuery ==
  ASSUME VolumeInv, QueryInv, RequestFails \/ ServeStat \/ ServeRead \/ ServeClose PROVE QueryInv'
  <1>1. UNCHANGED <<peers, conns>> /\ call # Idle /\ CallShape
    BY DEF RequestFails, ServeStat, ServeRead, ServeClose, Served, Asked, env, VolumeInv
  <1>2. CASE RequestFails
    BY <1>1, <1>2, UnreachableQuery, QueryGoesOn DEF RequestFails
  <1>3. ASSUME NEW status, NEW value, call.op # "query", Answer(status, value) PROVE QueryInv'
    BY <1>1, <1>3, ReturnQuery, QueryGoesOn DEF Answer
  <1> QED
    BY <1>2, <1>3 DEF ServeStat, ServeRead, ServeClose, Served, Asked

LEMMA ServeOpenQuery ==
  ASSUME VolumeInv, QueryInv, ServeOpen PROVE QueryInv'
  <1>1. call # Idle /\ call.op = "open" /\ call.stage = "request" /\ UNCHANGED peers
    BY DEF ServeOpen, Served, Asked, env
  <1>2. CallGoesOn /\ LastIsExact' /\ call' = Idle
    BY <1>1, ReturnQuery DEF ServeOpen, Answer, Return
  <1>3. \/ UNCHANGED conns
        \/ conns' = [conns EXCEPT ![Peer].table = Append(@, call.path[2])]
    BY DEF ServeOpen
  <1>4. \A n \in DOMAIN conns : DOMAIN conns[n] = {"host", "life", "table"}
    BY DEF VolumeInv, Connected
  <1>5. DOMAIN conns' = DOMAIN conns /\ \A n \in DOMAIN conns : conns'[n].host = conns[n].host
    BY <1>3, <1>4
  <1> QED
    BY <1>1, <1>2, <1>5 DEF QueryInv, Gathered, Named

LEMMA NetworkQuery ==
  ASSUME QueryInv, Move \/ (\E h \in Hosts : Crash(h) \/ ComesBack(h)) \/ UNCHANGED vars
  PROVE  QueryInv'
  <1>1. UNCHANGED <<conns, call, last>>
    BY DEF Move, Crash, ComesBack, vars
  <1>2. peers' \in Seq(Hosts)
    <2>0. peers \in Seq(Hosts) /\ Len(peers) \in Nat /\ DOMAIN peers = 1..Len(peers)
      BY DEF QueryInv, Named
    <2>1. CASE UNCHANGED peers
      BY <2>0, <2>1
    <2>2. CASE \E h \in Hosts \ Range(peers) : peers' = Append(peers, h)
      BY <2>0, <2>2
    <2>3. ASSUME NEW i \in DOMAIN peers, peers' = RemoveAt(peers, i) PROVE peers' \in Seq(Hosts)
      <3>1. SubSeq(peers, 1, i - 1) \in Seq(Hosts) /\ SubSeq(peers, i + 1, Len(peers)) \in Seq(Hosts)
        BY <2>0
      <3> QED
        BY <2>3, <3>1, Joined DEF RemoveAt
    <2> QED
      BY <2>1, <2>2, <2>3 DEF Move, Crash, ComesBack, vars
  <1> QED
    BY <1>1, <1>2 DEF QueryInv, Gathered, Named, LastIsExact, Peer

LEMMA RemountQuery ==
  ASSUME QueryInv, Remount PROVE QueryInv'
  <1>1. DOMAIN conns' = {} /\ call' = Idle /\ last'.op # "query" /\ UNCHANGED peers
    BY DEF Remount, NoResult
  <1> QED
    BY <1>1 DEF QueryInv, Gathered, Named, LastIsExact

LEMMA QueryStarts == Init => QueryInv
  <1> SUFFICES ASSUME Init PROVE QueryInv
    OBVIOUS
  <1>1. DOMAIN conns = {} /\ call = Idle /\ last.op # "query"
    BY DEF Init, NoResult
  <1>2. PICK found \in SUBSET Hosts : peers = SetToSeq(found)
    BY DEF Init
  <1>3. peers \in Seq(Hosts)
    <2>1. IsFiniteSet(found)
      <3>1. IsFiniteSet(Hosts)
        BY VolumeAssumption, Zenon
      <3> QED
        BY <3>1, FS_Subset
    <2>2. Cardinality(found) \in Nat /\ ExistsBijection(1..Cardinality(found), found)
      BY <2>1, FS_CardinalityType
    <2>3. \E f \in [1..Cardinality(found) -> found] : IsInjective(f)
      BY <2>2 DEF ExistsBijection, Bijection, Injection, IsInjective
    <2>4. peers \in [1..Cardinality(found) -> found]
      BY <1>2, <2>3 DEF SetToSeq
    <2>5. peers \in [1..Cardinality(found) -> Hosts]
      BY <2>4
    <2> QED
      BY <2>2, <2>5, FunIsSeq
  <1> QED
    BY <1>1, <1>3 DEF QueryInv, Gathered, Named, LastIsExact

LEMMA QueryStep == VolumeInv /\ QueryInv /\ [Next]_vars => QueryInv'
  <1> SUFFICES ASSUME VolumeInv, QueryInv, [Next]_vars PROVE QueryInv'
    OBVIOUS
  <1>1. CASE Serve
    BY <1>1, RequestQuery, ServeOpenQuery, ServeQueryQuery DEF Serve
  <1> QED
    BY <1>1, BeginQuery, BackendForQuery, HelloQuery, RequestQuery, NetworkQuery, RemountQuery DEF Next

NamesOf(hits) == FoldLeft(LAMBDA used, hit : Append(used, QueryLeafName(hit, used)), <<>>, hits)
LEMMA FoundFields ==
  ASSUME NEW hits, NEW heard, NEW v, v = Found(hits, heard)
  PROVE  v.hits = hits /\ v.heard = heard /\ v.names = NamesOf(hits)
  <1>1. v = [hits |-> hits, heard |-> heard, names |-> NamesOf(hits)]
    BY Zenon DEF Found, NamesOf
  <1> QED
    BY <1>1

\* What is exact in terms of what was gathered is what AggregateIsExact says.
LEMMA ExactIsExact == QueryInv => AggregateIsExact
  <1> SUFFICES ASSUME QueryInv, last.op = "query" PROVE AggregateIsExact
    BY DEF AggregateIsExact
  <1>1. PICK hits, heard : last.value = Found(hits, heard) /\ Exact(hits, heard)
    BY DEF QueryInv, LastIsExact
  <1> PICK v : v = last.value
    OBVIOUS
  <1>2. v.hits = hits /\ v.heard = heard /\ v.names = Found(hits, heard).names
    BY <1>1, FoundFields
  <1>3. hits \in Seq(Hits) /\ DOMAIN hits = 1..Len(hits) /\ Len(hits) <= Quota /\ heard \subseteq Hosts
    BY <1>1 DEF Exact
  <1>4. Len(v.names) = Len(hits) /\ IsInjective(v.names)
    BY <1>2, <1>3, NamesDiffer
  <1>5. \A h \in Hosts : Matches[h] \in Seq(Files)
    BY VolumeAssumption
  <1>6. \A h \in Hosts : \A f : f \in Range(Matches[h]) => Contains(Matches[h], f)
    BY <1>5, ContainsIsRange
  <1>7. \A e : e \in Range(hits) => Contains(hits, e)
    BY <1>3, ContainsIsRange
  <1>8. \A i \in DOMAIN hits : \E h \in heard : NameOf[h] = hits[i].peer /\ Contains(Matches[h], hits[i].file)
    <2>1. \A i \in DOMAIN hits : hits[i] \in Range(hits)
      BY DEF Range
    <2> QED
      BY <1>1, <1>3, <1>6, <2>1 DEF Exact
  <1>9. Len(hits) < Quota => \A h \in heard : \A f \in Range(Matches[h]) :
          Contains(hits, [peer |-> NameOf[h], file |-> f])
    BY <1>1, <1>7 DEF Exact
  <1>10. IsInjective(hits)
    BY <1>1 DEF Exact
  <1> QED
    BY <1>2, <1>3, <1>4, <1>8, <1>9, <1>10 DEF AggregateIsExact

\* AggregateQuery and QueryLeafName, for any machines, files, quota and order of events: the
\* folder of a query lists each hit of the machines that were heard once, under a name of its own,
\* all of them below the quota and nothing that no machine found.
THEOREM QueryAnswersAreExact == Spec => []AggregateIsExact
  BY VolumeInit, VolumeStep, QueryStarts, QueryStep, ExactIsExact, PTL DEF Spec
=============================================================================
