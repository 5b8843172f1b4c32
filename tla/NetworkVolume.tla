--------------------------- MODULE NetworkVolume ---------------------------
(***************************************************************************)
(* fondamenta/discovery: the volume that shows every machine found on the  *)
(* network as a folder.  PathRouter turns a path into a peer and a path on *)
(* that peer, ConnectionManager connects to the peer on first use and      *)
(* keeps the connection, CnpBackend makes one request per call, and the    *)
(* folder /.query/<predicate> asks them all.                               *)
(*                                                                         *)
(* The front end holds one mutex around every call, so there is one call   *)
(* at a time; between its steps machines appear, vanish, crash, come back  *)
(* and hang.  Paths are sequences of names, names sequences of characters. *)
(***************************************************************************)
EXTENDS Naturals, Sequences, FiniteSets, SequencesExt

CONSTANTS
  Hosts,       \* machines; the key of a machine is the machine
  Chars,       \* what names are written with
  Instance,    \* the name each of them announces
  Files,       \* the files of every machine
  Matches,     \* machine |-> the files that match a predicate, in its order
  Quota,       \* results of a query, at most (500)
  Decimal,     \* std::to_string: the numbers that tell results apart, each as one character
  MaxCrashes,  \* bound: crashes and hangs
  MaxHandles,  \* bound: opens
  MaxMoves     \* bound: changes of what discovery lists

ASSUME VolumeAssumption ==
  /\ IsFiniteSet(Hosts)
  /\ {" ", "-", "(", ")"} \subseteq Chars
  /\ Instance \in [Hosts -> Seq(Chars)]
  /\ Files \subseteq Seq(Chars)
  /\ Matches \in [Hosts -> Seq(Files)]
  /\ Quota \in Nat
  /\ Decimal \in [1..Quota -> Chars] /\ IsInjective(Decimal)

VARIABLES
  peers,    \* Bricola's snapshot: the machines, in its order
  host,     \* machine |-> [state, life]: "up", "down" or "hung"; life counts its crashes
  trust,    \* fTrust: key |-> name
  saved,    \* the trust store's file
  conns,    \* fConns: name |-> [host, life, table]; table: the files opened through it
  fOpen,    \* handle |-> [name, at]: a connection and the handle there
  opened,   \* history: handle |-> the machine and the file it was opened on
  call,     \* the call that holds the mutex
  last,     \* what the last call returned, if it was a read or a query
  crashes, moves

vars == <<peers, host, trust, saved, conns, fOpen, opened, call, last, crashes, moves>>
env == <<peers, host, crashes, moves>>

(* SanitizeName: what cannot be in a name becomes "-", leading dots and     *)
(* trailing spaces go.                                                      *)
SanitizeName(s) ==
  LET t == [i \in DOMAIN s |-> IF s[i] = "/" THEN "-" ELSE s[i]]
      from == {i \in DOMAIN t : t[i] # "."}
      to == {i \in DOMAIN t : t[i] # " "}
  IN IF from = {} \/ to = {} THEN <<>>
     ELSE SubSeq(t, CHOOSE i \in from : \A j \in from : i <= j,
                    CHOOSE i \in to : \A j \in to : j <= i)
NameOf == [h \in Hosts |-> SanitizeName(Instance[h])]
Names == {NameOf[h] : h \in Hosts} \ {<<>>}

T == INSTANCE TrustStore WITH Fingerprint <- Hosts, Name <- Names, OneLine <- [n \in Names |-> n]

Endpoints == SelectSeq(peers, LAMBDA h : NameOf[h] # <<>>)
PeerNames == [i \in DOMAIN Endpoints |-> NameOf[Endpoints[i]]]
PeerExists(n) == \E i \in DOMAIN PeerNames : PeerNames[i] = n
FindEndpoint(n) ==               \* where it is: the first of them counts, if any
  {i \in DOMAIN peers : NameOf[peers[i]] # <<>> /\ NameOf[peers[i]] = n}
First(ends) == peers[CHOOSE i \in ends : \A j \in ends : i <= j]

(***************************************************************************)
(* Paths.                                                                  *)
(***************************************************************************)
QueryDir == <<".", "q">>         \* ".query": no machine can have a name that begins with a dot
Predicate == <<"p">>
Leaf == <<"l">>
Paths ==
  {<<>>, <<QueryDir>>, <<QueryDir, Predicate>>, <<QueryDir, Predicate, Leaf>>}
  \cup {<<n>> : n \in Names} \cup {<<n, f>> : n \in Names, f \in Files}

ClassifyQuery(path) ==
  IF path = <<>> \/ path[1] # QueryDir \/ Len(path) > 3 THEN "none"
  ELSE <<"root", "predicate", "result">>[Len(path)]
SplitPeer(path) == [peer |-> path[1], rest |-> Tail(path)]

(* The results of a query: the list, the machines that were heard, and the  *)
(* names the entries get.  A slash in a path becomes a dash, and a name     *)
(* that is taken gets a number.                                             *)
Numbered(base, n) == IF n = 1 THEN base ELSE base \o <<" ", "(", Decimal[n], ")">>
QueryLeafName(hit, used) ==
  LET flat == [i \in DOMAIN hit.file |-> IF hit.file[i] = "/" THEN "-" ELSE hit.file[i]]
      base == hit.peer \o <<" ", "-", " ">> \o flat
  IN Numbered(base, CHOOSE n \in 1..Len(used) + 1 :
       /\ ~Contains(used, Numbered(base, n))
       /\ \A m \in 1..n - 1 : Contains(used, Numbered(base, m)))
Found(hits, heard) ==
  [hits |-> hits, heard |-> heard,
   names |-> FoldLeft(LAMBDA used, hit : Append(used, QueryLeafName(hit, used)), <<>>, hits)]

Idle == [op |-> "none"]
NoResult == [op |-> "none", status |-> "none", value |-> <<>>]
Return(op, status, value) ==
  /\ call' = Idle
  /\ last' = IF op \in {"read", "query"} THEN [op |-> op, status |-> status, value |-> value]
             ELSE NoResult
Answered(op, status, value) ==
  Return(op, status, value) /\ UNCHANGED <<env, trust, saved, conns, fOpen, opened>>
Goes(op, path, h, todo) ==       \* the call goes on to the connection of its peer
  /\ call' = [op |-> op, path |-> path, handle |-> h, stage |-> "backend", todo |-> todo,
              hits |-> <<>>, heard |-> {}, host |-> "none", life |-> 0]
  /\ last' = NoResult
  /\ UNCHANGED <<env, trust, saved, conns, fOpen, opened>>

(* Stat, ReadDir and Open on what is no file of a peer is answered here. *)
Stat(path) ==
  IF path = <<>> \/ ClassifyQuery(path) # "none" THEN Answered("stat", "kOk", path)
  ELSE IF ~PeerExists(SplitPeer(path).peer) THEN Answered("stat", "kNotFound", path)
  ELSE IF Len(path) = 1 THEN Answered("stat", "kOk", path)
  ELSE Goes("stat", path, 0, <<>>)
ReadDir(path) ==
  CASE path = <<>> -> Answered("readdir", "kOk", Append(PeerNames, QueryDir))
    [] ClassifyQuery(path) = "root" -> Answered("readdir", "kOk", <<>>)
    [] ClassifyQuery(path) = "predicate" ->
         IF PeerNames = <<>> THEN Answered("query", "kOk", Found(<<>>, {}))
         ELSE Goes("query", <<Head(PeerNames)>>, 0, Tail(PeerNames))
    [] ClassifyQuery(path) = "result" -> Answered("readdir", "kNotADirectory", <<>>)
    [] OTHER -> IF PeerExists(SplitPeer(path).peer) THEN Goes("readdir", path, 0, <<>>)
                ELSE Answered("readdir", "kNotFound", <<>>)
Open(path) ==
  CASE ClassifyQuery(path) \in {"root", "predicate"} \/ Len(path) <= 1 -> Answered("open", "kIsADirectory", path)
    [] ClassifyQuery(path) = "result" -> Answered("open", "kUnsupported", path)
    [] OTHER -> IF PeerExists(SplitPeer(path).peer) THEN Goes("open", path, 0, <<>>)
                ELSE Answered("open", "kNotFound", path)

(* Read and Close use the connection the handle was opened on. *)
OnHandle(op, h) ==
  IF h \notin DOMAIN fOpen THEN Answered(op, "kBadHandle", <<>>)
  ELSE /\ call' = [op |-> op, path |-> <<fOpen[h].name>>, handle |-> h, stage |-> "request",
                   todo |-> <<>>, hits |-> <<>>, heard |-> {}, host |-> "none", life |-> 0]
       /\ last' = NoResult
       /\ UNCHANGED <<env, trust, saved, conns, fOpen, opened>>

Begin ==
  /\ call = Idle
  /\ \/ \E path \in Paths : Stat(path) \/ ReadDir(path) \/ Open(path)
     \/ \E h \in 1..MaxHandles : OnHandle("read", h) \/ OnHandle("close", h)

-----------------------------------------------------------------------------
(***************************************************************************)
(* BackendFor: the connection that is there, or a new one.  A call that    *)
(* gets none returns an error; a query goes on to the next peer.           *)
(***************************************************************************)
Peer == call.path[1]
Unreachable ==
  IF call.op # "query" THEN Return(call.op, "kTransportError", call.path)
  ELSE IF call.todo = <<>> THEN Return("query", "kOk", Found(call.hits, call.heard))
  ELSE /\ call' = [call EXCEPT !.path = <<Head(call.todo)>>, !.todo = Tail(@), !.stage = "backend"]
       /\ UNCHANGED last

With(f, x, v) == [y \in DOMAIN f \cup {x} |-> IF y = x THEN v ELSE f[y]]
Broken(h, life) == host[h].state = "down" \/ host[h].life # life
Up(h, life) == host[h].state = "up" /\ host[h].life = life

(* Establish: TLS, the decision about the key, then HELLO.  A new key is    *)
(* pinned, and the store saved when the disk lets it.  The connection is    *)
(* attempted in the step that finds the endpoint: a machine that goes       *)
(* between the two might as well have gone before.                          *)
\* Mutant of Trusted: the verdict on the key is not looked at.
TrustedAnyway(h) == TRUE
Trusted(h) == T!Evaluate(trust, h, Peer) # "kKeyChanged"
Connect(h) ==
  IF host[h].state # "up" \/ ~Trusted(h) THEN Unreachable /\ UNCHANGED <<trust, saved>>
  ELSE /\ call' = [call EXCEPT !.stage = "hello", !.host = h, !.life = host[h].life]
       /\ IF T!Find(trust, h) THEN UNCHANGED <<trust, saved>>
          ELSE trust' = T!Pin(trust, h, Peer) /\ saved' \in {saved, trust'}
       /\ UNCHANGED last

\* Mutant of BackendFor: a broken connection is replaced, the handles that were
\* opened on it stay.
BackendForFresh ==
  /\ call # Idle /\ call.stage = "backend"
  /\ LET ends == FindEndpoint(Peer)
         alive == Peer \in DOMAIN conns /\ ~Broken(conns[Peer].host, conns[Peer].life)
     IN CASE alive -> call' = [call EXCEPT !.stage = "request"] /\ UNCHANGED <<last, trust, saved>>
          [] ~alive /\ ends = {} -> Unreachable /\ UNCHANGED <<trust, saved>>
          [] OTHER -> Connect(First(ends))
  /\ UNCHANGED <<env, conns, fOpen, opened>>
BackendFor ==
  /\ call # Idle /\ call.stage = "backend"
  /\ LET ends == FindEndpoint(Peer)
     IN IF Peer \in DOMAIN conns
        THEN call' = [call EXCEPT !.stage = "request"] /\ UNCHANGED <<last, trust, saved>>
        ELSE IF ends = {} THEN Unreachable /\ UNCHANGED <<trust, saved>>
        ELSE Connect(First(ends))
  /\ UNCHANGED <<env, conns, fOpen, opened>>

Hello ==
  /\ call # Idle /\ call.stage = "hello"
  /\ \/ /\ Up(call.host, call.life)
        /\ conns' = With(conns, Peer, [host |-> call.host, life |-> call.life, table |-> <<>>])
        /\ call' = [call EXCEPT !.stage = "request"]
        /\ UNCHANGED last
     \/ /\ Broken(call.host, call.life) \/ Up(call.host, call.life)    \* gone, or refused
        /\ Unreachable
        /\ UNCHANGED conns
  /\ UNCHANGED <<env, trust, saved, fOpen, opened>>

(***************************************************************************)
(* One request and its reply.  A machine that hangs does not answer, and   *)
(* nothing ends the wait.                                                  *)
(***************************************************************************)
Conn == conns[Peer]
Asked(op) == call # Idle /\ call.stage = "request" /\ call.op = op
Served(op) == Asked(op) /\ Up(Conn.host, Conn.life)
Answer(status, value) == Return(call.op, status, value)

RequestFails ==
  /\ \E op \in {"stat", "readdir", "open", "read", "close", "query"} : Asked(op)
  /\ Broken(Conn.host, Conn.life)
  /\ Unreachable
  /\ fOpen' = IF call.op # "close" THEN fOpen
              ELSE [h \in DOMAIN fOpen \ {call.handle} |-> fOpen[h]]
  /\ UNCHANGED <<env, trust, saved, conns, opened>>

ServeStat ==
  /\ Served("stat") \/ Served("readdir")
  /\ \E status \in {"kOk", "kNotFound"} : Answer(status, call.path)    \* or another error
  /\ UNCHANGED <<env, trust, saved, conns, fOpen, opened>>

ServeOpen ==
  /\ Served("open")
  /\ LET h == Cardinality(DOMAIN opened) + 1       \* fNextHandle
         f == call.path[2]
     IN \/ /\ h <= MaxHandles
           /\ conns' = [conns EXCEPT ![Peer].table = Append(@, f)]
           /\ fOpen' = With(fOpen, h, [name |-> Peer, at |-> Len(Conn.table) + 1])
           /\ opened' = With(opened, h, [host |-> Conn.host, file |-> f])
           /\ Answer("kOk", h)
        \/ /\ Answer("kNotFound", 0)
           /\ UNCHANGED <<conns, fOpen, opened>>
  /\ UNCHANGED <<env, trust, saved>>

ServeRead ==
  /\ Served("read")
  /\ LET at == fOpen[call.handle].at
     IN IF at \in DOMAIN Conn.table
        THEN Answer("kOk", [handle |-> call.handle, host |-> Conn.host, file |-> Conn.table[at]])
        ELSE Answer("kBadHandle", <<>>)
  /\ UNCHANGED <<env, trust, saved, conns, fOpen, opened>>

ServeClose ==
  /\ Served("close")
  /\ fOpen' = [h \in DOMAIN fOpen \ {call.handle} |-> fOpen[h]]
  /\ Answer("kOk", <<>>)
  /\ UNCHANGED <<env, trust, saved, conns, opened>>

(* AggregateQuery takes what one peer found, as far as the quota goes and   *)
(* each (peer, path) once, and goes on to the next.                         *)
\* Mutant of Aggregate: a machine that is listed twice is counted twice.
AggregateTwice(hits, n, found) ==
  FoldLeft(LAMBDA out, f : IF Len(out) >= Quota THEN out ELSE Append(out, [peer |-> n, file |-> f]),
           hits, found)
Aggregate(hits, n, found) ==
  FoldLeft(LAMBDA out, f :
             IF Len(out) >= Quota \/ Contains(out, [peer |-> n, file |-> f]) THEN out
             ELSE Append(out, [peer |-> n, file |-> f]), hits, found)
ServeQuery ==
  /\ Served("query")
  /\ \E ok \in BOOLEAN :                           \* a peer may refuse the query
       LET hits == IF ok THEN Aggregate(call.hits, Peer, Matches[Conn.host]) ELSE call.hits
           heard == IF ok THEN call.heard \cup {Conn.host} ELSE call.heard
       IN IF call.todo = <<>> \/ Len(hits) >= Quota
          THEN Return("query", "kOk", Found(hits, heard))
          ELSE /\ call' = [call EXCEPT !.hits = hits, !.heard = heard, !.stage = "backend",
                                       !.path = <<Head(call.todo)>>, !.todo = Tail(@)]
               /\ UNCHANGED last
  /\ UNCHANGED <<env, trust, saved, conns, fOpen, opened>>

-----------------------------------------------------------------------------
(* The network: what discovery lists, and what the machines do. *)
Move ==
  /\ moves < MaxMoves
  /\ moves' = moves + 1
  /\ \/ \E h \in Hosts \ Range(peers) : peers' = Append(peers, h)
     \/ \E i \in DOMAIN peers : peers' = RemoveAt(peers, i)
  /\ UNCHANGED <<host, trust, saved, conns, fOpen, opened, call, last, crashes>>
Crash(h) ==
  /\ crashes < MaxCrashes
  /\ crashes' = crashes + 1
  /\ \/ host[h].state = "up" /\ host' = [host EXCEPT ![h].state = "hung"]
     \/ host' = [host EXCEPT ![h] = [state |-> "down", life |-> @.life + 1]]
  /\ UNCHANGED <<peers, trust, saved, conns, fOpen, opened, call, last, moves>>
ComesBack(h) ==                    \* the machine is back, or the network is
  /\ host[h].state # "up"
  /\ host' = [host EXCEPT ![h].state = "up"]
  /\ UNCHANGED <<peers, trust, saved, conns, fOpen, opened, call, last, crashes, moves>>

(* The volume is unmounted (CloseAll) and mounted again (Init). *)
Remount ==
  /\ call = Idle /\ moves < MaxMoves
  /\ moves' = moves + 1
  /\ conns' = <<>> /\ fOpen' = <<>> /\ opened' = <<>>
  /\ trust' = saved
  /\ last' = NoResult
  /\ UNCHANGED <<peers, host, saved, call, crashes>>

Init ==                          \* whatever discovery has found before the first call
  /\ \E found \in SUBSET Hosts : peers = SetToSeq(found)
  /\ host = [h \in Hosts |-> [state |-> "up", life |-> 0]]
  /\ trust = <<>> /\ saved = <<>> /\ conns = <<>> /\ fOpen = <<>> /\ opened = <<>>
  /\ call = Idle /\ last = NoResult
  /\ crashes = 0 /\ moves = 0

Serve == ServeStat \/ ServeOpen \/ ServeRead \/ ServeClose \/ ServeQuery
Next ==
  \/ Begin \/ BackendFor \/ Hello \/ RequestFails \/ Serve
  \/ Move \/ Remount \/ \E h \in Hosts : Crash(h) \/ ComesBack(h)

(* The thread of a call goes on, and a machine that is up answers.  Nothing *)
(* is assumed of a machine that hangs or is down.                           *)
Spec ==
  /\ Init /\ [][Next]_vars
  /\ WF_vars(BackendFor \/ Hello \/ RequestFails \/ Serve)

-----------------------------------------------------------------------------
(* A read through an open file returns bytes of the file that was opened,   *)
(* on the machine it was opened on, whatever has crashed, come back or      *)
(* changed its place in the list since: every connection numbers its        *)
(* handles from the beginning, and PathRouter keeps the number together     *)
(* with the connection it belongs to.                                       *)
ReadsTheOpenedFile ==
  last.op = "read" /\ last.status = "kOk" =>
    [host |-> last.value.host, file |-> last.value.file] = opened[last.value.handle]

(* The answer of a query folder: entries with different names, no more than *)
(* the quota, each found by a machine that was asked under the name it      *)
(* carries, none twice, and, below the quota, everything that the machines  *)
(* heard have found: a machine that is gone or refuses takes nothing from   *)
(* the others.                                                              *)
AggregateIsExact ==
  last.op = "query" =>
    LET v == last.value
    IN /\ IsInjective(v.hits) /\ IsInjective(v.names)
       /\ Len(v.hits) <= Quota /\ Len(v.names) = Len(v.hits)
       /\ \A i \in DOMAIN v.hits :
            \E h \in v.heard : NameOf[h] = v.hits[i].peer /\ Contains(Matches[h], v.hits[i].file)
       /\ Len(v.hits) < Quota =>
            \A h \in v.heard : \A f \in Range(Matches[h]) :
              Contains(v.hits, [peer |-> NameOf[h], file |-> f])

(* A machine that is back and listed can be used again through the mounted  *)
(* volume (docs/PROPOSAL.md, "the volume reconnects using the pinned key,   *)
(* silently").                                                              *)
Back(h) == host[h].state = "up" /\ Contains(peers, h) /\ NameOf[h] \in DOMAIN conns
StatOf(n) == call # Idle /\ call.op = "stat" /\ call.path[1] = n
Reached(n) == StatOf(n) /\ Served("stat")
VolumeReconnects ==
  \A h \in Hosts :
    (<>[]Back(h) /\ []<>StatOf(NameOf[h])) => []<>Reached(NameOf[h])

(* A name is pinned with one key (trust on first use): when another machine *)
(* turns up under the name of one that was connected before, it is refused, *)
(* and so it stays over a remount as far as the store was saved.            *)
OneKeyPerName == IsInjective(trust) /\ \A n \in DOMAIN conns : T!Find(trust, conns[n].host)
=============================================================================
