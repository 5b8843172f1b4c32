-------------------------- MODULE DiscoveryProofs --------------------------
(***************************************************************************)
(* What the peer table promises, for any peers, addresses, ports and TTLs  *)
(* and any number of datagrams: a peer that is gone for the longest TTL is *)
(* off the list.                                                           *)
(***************************************************************************)
EXTENDS Discovery, TLAPS

\* The peers: one that runs has not been gone.
NodesInv ==
    /\ node \in [Inst -> Node]
    /\ goneFor \in [Inst -> 0 .. LongTtl]
    /\ \A i \in Inst : node[i].up => goneFor[i] = 0

\* A datagram on the wire is from a peer that ran within the unit, and says something.
WireInv == \A d \in net : d.from \in Inst /\ goneFor[d.from] = 0 /\ d.records # {}

\* An entry of the table has a unit left, and no more than its peer can have coming.
Entry(i) ==
    /\ fPeers[i] = [port |-> fPeers[i].port, addresses |-> fPeers[i].addresses,
                    hostname |-> fPeers[i].hostname, left |-> fPeers[i].left,
                    announced |-> fPeers[i].announced]
    /\ fPeers[i].left \in Nat
    /\ 1 <= fPeers[i].left
    /\ fPeers[i].left + goneFor[i] <= LongTtl
TableInv == running => DOMAIN fPeers \subseteq Inst /\ \A i \in DOMAIN fPeers : Entry(i)

\* Whoever is listed is in the table, as announced: when the entry goes, the observer is
\* told.
ListedInv ==
    running => \A i \in DOMAIN fSnapshot : i \in DOMAIN fPeers /\ fPeers[i].announced

DiscoveryInv == NodesInv /\ WireInv /\ TableInv /\ ListedInv

-----------------------------------------------------------------------------
\* The peers and the wire.

LEMMA StartNodeStep ==
    ASSUME DiscoveryInv, NEW i \in Inst, NEW n \in Node, StartNode(i, n)
    PROVE  DiscoveryInv'
<1> USE DiscoveryAssumption DEF DiscoveryAssumption
<1>1. /\ node' = [node EXCEPT ![i] = n] /\ goneFor' = [goneFor EXCEPT ![i] = 0]
      /\ net' = net \cup {AnnouncePacket(i, n)}
      /\ UNCHANGED <<running, fPeers, fSnapshot>>
  BY DEF StartNode, Send, tableVars
<1>2. NodesInv'
  BY <1>1 DEF DiscoveryInv, NodesInv
<1>3. \A j \in Inst : goneFor'[j] \in Nat /\ goneFor'[j] <= goneFor[j]
  BY <1>1 DEF DiscoveryInv, NodesInv
<1>4. WireInv'
  <2>1. AnnouncePacket(i, n).from = i /\ AnnouncePacket(i, n).records # {}
    BY DEF AnnouncePacket
  <2>2. goneFor'[i] = 0 /\ \A j \in Inst : goneFor[j] = 0 => goneFor'[j] = 0
    BY <1>1 DEF DiscoveryInv, NodesInv
  <2> QED
    BY <1>1, <2>1, <2>2 DEF DiscoveryInv, WireInv
<1>5. TableInv'
  <2> SUFFICES ASSUME running', NEW j \in DOMAIN fPeers'
               PROVE  j \in Inst /\ Entry(j)'
    BY DEF TableInv
  <2>1. j \in Inst /\ Entry(j)
    BY <1>1 DEF DiscoveryInv, TableInv
  <2>2. goneFor[j] \in Nat
    BY <2>1 DEF DiscoveryInv, NodesInv
  <2> QED
    BY <1>1, <1>3, <2>1, <2>2 DEF Entry
<1> QED
  BY <1>1, <1>2, <1>4, <1>5 DEF DiscoveryInv, ListedInv

\* Steps of the peers that leave goneFor alone: StopNode, Crash and SendRecord.
LEMMA NodeStep ==
    ASSUME DiscoveryInv, NEW i \in Inst, node[i].up,
           node' = node \/ node' = [node EXCEPT ![i].up = FALSE],
           \A d \in net' \ net : d.from = i /\ d.records # {},
           UNCHANGED <<goneFor, running, fPeers, fSnapshot>>
    PROVE  DiscoveryInv'
<1>1. NodesInv'
  <2> DEFINE off == [node[i] EXCEPT !.up = FALSE]
  <2>1. off \in Node
    BY DEF DiscoveryInv, NodesInv, Node
  <2>2. node' = node \/ node' = [node EXCEPT ![i] = off]
    OBVIOUS
  <2>3. goneFor[i] = 0
    BY DEF DiscoveryInv, NodesInv
  <2> HIDE DEF off
  <2> QED
    BY <2>1, <2>2, <2>3 DEF DiscoveryInv, NodesInv
<1>2. WireInv'
  BY DEF DiscoveryInv, NodesInv, WireInv
<1>3. TableInv' /\ ListedInv'
  BY DEF DiscoveryInv, TableInv, Entry, ListedInv
<1> QED
  BY <1>1, <1>2, <1>3 DEF DiscoveryInv

LEMMA StopNodeStep ==
    ASSUME DiscoveryInv, NEW i \in Inst, StopNode(i)
    PROVE  DiscoveryInv'
<1>1. GoodbyePacket(i).from = i /\ GoodbyePacket(i).records # {}
  BY DEF GoodbyePacket
<1> QED
  BY <1>1, NodeStep DEF StopNode, Send, tableVars

LEMMA CrashStep ==
    ASSUME DiscoveryInv, NEW i \in Inst, Crash(i)
    PROVE  DiscoveryInv'
BY NodeStep DEF Crash, tableVars

LEMMA SendRecordStep ==
    ASSUME DiscoveryInv, NEW i \in Inst, NEW r \in Record, SendRecord(i, r)
    PROVE  DiscoveryInv'
<1> DEFINE d == [AnnouncePacket(i, node[i]) EXCEPT !.records = {r}]
<1>1. d.from = i /\ d.records # {}
  BY DEF AnnouncePacket
<1>2. net' = net \cup {d} /\ node[i].up /\ UNCHANGED <<node, goneFor, running, fPeers, fSnapshot>>
  BY DEF SendRecord, Send, tableVars, nodeVars
<1> HIDE DEF d
<1> QED
  BY <1>1, <1>2, NodeStep

-----------------------------------------------------------------------------
\* The browser.

LEMMA StartBrowsingStep ==
    ASSUME DiscoveryInv, StartBrowsing
    PROVE  DiscoveryInv'
<1>1. fPeers' = << >> /\ fSnapshot' = << >> /\ UNCHANGED <<node, goneFor>>
  BY DEF StartBrowsing, nodeVars
<1>2. DOMAIN << >> = {}
  OBVIOUS
<1>3. TableInv' /\ ListedInv'
  BY <1>1, <1>2 DEF TableInv, ListedInv
<1>4. NodesInv'
  BY <1>1 DEF DiscoveryInv, NodesInv
<1>5. WireInv'
  <2>1. PICK heard \in SUBSET {i \in Inst : node[i].up} :
          net' = net \cup {AnnouncePacket(i, node[i]) : i \in heard}
    BY DEF StartBrowsing
  <2>2. \A i \in heard : LET d == AnnouncePacket(i, node[i])
                         IN d.from \in Inst /\ goneFor[d.from] = 0 /\ d.records # {}
    BY DEF AnnouncePacket, DiscoveryInv, NodesInv
  <2> QED
    BY <1>1, <2>1, <2>2 DEF DiscoveryInv, WireInv
<1> QED
  BY <1>3, <1>4, <1>5 DEF DiscoveryInv

LEMMA StopBrowsingStep ==
    ASSUME DiscoveryInv, StopBrowsing
    PROVE  DiscoveryInv'
<1>1. ~running' /\ UNCHANGED <<node, goneFor, net>>
  BY DEF StopBrowsing, nodeVars
<1> QED
  BY <1>1 DEF DiscoveryInv, NodesInv, WireInv, TableInv, ListedInv

\* The time left after a datagram: that of the longest record heard, or more, and never
\* more than LongTtl.
LEMMA TimeLeft ==
    ASSUME NEW left \in 0 .. LongTtl, NEW touching, touching # {}
    PROVE  LET m == Max({left} \cup {Ttl(r) : r \in touching})
           IN m \in Nat /\ 1 <= m /\ m <= LongTtl
<1> USE DiscoveryAssumption DEF DiscoveryAssumption
<1> DEFINE S == {left} \cup {Ttl(r) : r \in touching}
<1>1. /\ S \subseteq {left, ShortTtl, LongTtl} /\ left \in S
      /\ ShortTtl \in S \/ LongTtl \in S
  BY DEF Ttl
<1> HIDE DEF S
<1>2. \E x \in S : \A y \in S : x >= y
  <2>1. CASE LongTtl \in S
    BY <1>1, <2>1
  <2>2. CASE LongTtl \notin S /\ ShortTtl \in S /\ left <= ShortTtl
    BY <1>1, <2>2
  <2>3. CASE LongTtl \notin S /\ ShortTtl \in S /\ ~ (left <= ShortTtl)
    BY <1>1, <2>3
  <2> QED
    BY <1>1, <2>1, <2>2, <2>3
<1>3. Max(S) \in S /\ \A y \in S : Max(S) >= y
  BY <1>2 DEF Max
<1>4. Max(S) \in Nat /\ 1 <= Max(S) /\ Max(S) <= LongTtl
  <2> DEFINE m == Max(S)
  <2>1. m \in {left, ShortTtl, LongTtl} /\ (m >= ShortTtl \/ m >= LongTtl)
    BY <1>1, <1>3
  <2> HIDE DEF m
  <2>2. m \in Nat /\ 1 <= m /\ m <= LongTtl
    BY <2>1
  <2> QED
    BY <2>2 DEF m
<1> QED
  BY <1>4 DEF S

\* PeersLost: entries go from the table, and those of them that are listed from the list.
LEMMA GoodbyeStep ==
    ASSUME DiscoveryInv, running, NEW d \in net, IngestGoodbye(d), UNCHANGED <<nodeVars, net, running>>
    PROVE  DiscoveryInv'
<1>1. NodesInv' /\ WireInv'
  BY DEF DiscoveryInv, NodesInv, WireInv, nodeVars
<1> DEFINE told == {i \in {d.from} \cap DOMAIN fPeers : fPeers[i].announced}
<1>2. /\ DOMAIN fPeers' = DOMAIN fPeers \ {d.from}
      /\ \A i \in DOMAIN fPeers' : fPeers'[i] = fPeers[i]
      /\ DOMAIN fSnapshot' = DOMAIN fSnapshot \ told
  BY DEF IngestGoodbye, PeersLost, Without
<1>3. TableInv'
  BY <1>2 DEF DiscoveryInv, TableInv, Entry, nodeVars
<1>4. ListedInv'
  BY <1>2 DEF DiscoveryInv, ListedInv
<1> QED
  BY <1>1, <1>3, <1>4 DEF DiscoveryInv

LEMMA AddressStep ==
    ASSUME DiscoveryInv, running, NEW d \in net, IngestAddress(d), UNCHANGED <<nodeVars, net, running>>
    PROVE  DiscoveryInv'
BY DEF DiscoveryInv, NodesInv, WireInv, TableInv, Entry, ListedInv, nodeVars, IngestAddress

\* An entry has the fields of struct Entry.
EntryShape(e) ==
    e = [port |-> e.port, addresses |-> e.addresses, hostname |-> e.hostname, left |-> e.left,
         announced |-> e.announced]

\* Resolving an entry's addresses leaves its time, and whether it was announced.
LEMMA Resolving ==
    ASSUME NEW e, EntryShape(e), NEW addrs, NEW src
    PROVE  LET r == WithFallback(AttachAddresses(e, addrs), src)
           IN EntryShape(r) /\ r.left = e.left /\ r.announced = e.announced
<1> DEFINE a == AttachAddresses(e, addrs)
<1>1. EntryShape(a) /\ a.left = e.left /\ a.announced = e.announced
  <2> DEFINE list == e.addresses \o SetToSortSeq(addrs \ ToSet(e.addresses), LAMBDA x, y : x < y)
  <2>1. a = e \/ a = [e EXCEPT !.addresses = list]
    BY DEF AttachAddresses
  <2> HIDE DEF list, a
  <2> QED
    BY <2>1 DEF EntryShape
<1> HIDE DEF a
<1>2. LET r == WithFallback(a, src)
      IN EntryShape(r) /\ r.left = e.left /\ r.announced = e.announced
  <2> DEFINE r == WithFallback(a, src)
  <2>1. r = a \/ r = [a EXCEPT !.addresses = <<src>>]
    BY DEF WithFallback
  <2> HIDE DEF r
  <2>2. EntryShape(r) /\ r.left = e.left /\ r.announced = e.announced
    BY <1>1, <2>1 DEF EntryShape
  <2> QED
    BY <2>2 DEF r
<1> QED
  BY <1>2 DEF a

\* Pass 2 of Ingest and Publish: the entry has its time renewed, and is announced when it
\* is listed.
LEMMA RecordsStep ==
    ASSUME DiscoveryInv, running, NEW d \in net, IngestRecords(d), UNCHANGED <<nodeVars, net, running>>
    PROVE  DiscoveryInv'
<1> DEFINE before == IF d.from \in DOMAIN fPeers THEN fPeers[d.from] ELSE NewEntry
           t == Touched(d, before)
           e == WithFallback(AttachAddresses(t, HarvestedAddrs(d)[d.from]), d.src)
           new == [e EXCEPT !.announced = @ \/ Publishes(before, e)]
<1>1. NodesInv' /\ WireInv'
  BY DEF DiscoveryInv, NodesInv, WireInv, nodeVars
<1>2. d.from \in Inst /\ goneFor[d.from] = 0 /\ d.records # {} /\ d.records # {"A"}
  BY DEF DiscoveryInv, WireInv, IngestRecords
<1>3. EntryShape(before) /\ before.left \in 0 .. LongTtl
  <2>1. CASE d.from \in DOMAIN fPeers
    BY <1>2, <2>1, DiscoveryAssumption DEF DiscoveryInv, TableInv, Entry, EntryShape, DiscoveryAssumption
  <2>2. CASE d.from \notin DOMAIN fPeers
    BY <2>2, DiscoveryAssumption DEF NewEntry, EntryShape, DiscoveryAssumption
  <2> QED
    BY <2>1, <2>2
<1> HIDE DEF before
<1>4. EntryShape(t) /\ t.left \in Nat /\ 1 <= t.left /\ t.left <= LongTtl /\ t.announced = before.announced
  <2> DEFINE touching == d.records \ {"A"}
             m == Max({before.left} \cup {Ttl(r) : r \in touching})
             p == IF "SRV" \in touching \/ ("TXT" \in touching /\ before.port = 0)
                  THEN d.port ELSE before.port
             h == before.hostname \/ "SRV" \in touching
  <2>1. touching # {}
    BY <1>2
  <2>2. m \in Nat /\ 1 <= m /\ m <= LongTtl
    BY <1>3, <2>1, TimeLeft
  <2>3. t = [before EXCEPT !.port = p, !.hostname = h, !.left = m]
    BY DEF Touched
  <2> HIDE DEF m, p, h, touching, t
  <2> QED
    BY <1>3, <2>2, <2>3 DEF EntryShape
<1> HIDE DEF t
<1>5. EntryShape(e) /\ e.left = t.left /\ e.announced = t.announced
  BY <1>4, Resolving
<1> HIDE DEF e
<1>6. /\ EntryShape(new) /\ new.left = t.left
      /\ new.announced = (before.announced \/ Publishes(before, e))
  <2> DEFINE b == e.announced \/ Publishes(before, e)
  <2>1. new = [e EXCEPT !.announced = b]
    OBVIOUS
  <2>2. b = (before.announced \/ Publishes(before, e))
    BY <1>4, <1>5
  <2> HIDE DEF b, new
  <2> QED
    BY <1>5, <2>1, <2>2 DEF EntryShape
<1>7. /\ fPeers' = With(fPeers, d.from, new)
      /\ fSnapshot' = IF Publishes(before, e) THEN With(fSnapshot, d.from, Content(e)) ELSE fSnapshot
  BY DEF IngestRecords, before, t, e
<1> HIDE DEF new
<1>8. /\ DOMAIN fPeers' = DOMAIN fPeers \cup {d.from}
      /\ fPeers'[d.from] = new
      /\ \A i \in DOMAIN fPeers \ {d.from} : fPeers'[i] = fPeers[i]
  BY <1>7 DEF With
<1>9. TableInv'
  <2> SUFFICES ASSUME NEW i \in DOMAIN fPeers' PROVE i \in Inst /\ Entry(i)'
    BY DEF TableInv
  <2>1. CASE i = d.from
    BY <1>2, <1>4, <1>6, <1>8, <2>1 DEF Entry, EntryShape, nodeVars
  <2>2. CASE i # d.from
    BY <1>8, <2>2 DEF DiscoveryInv, TableInv, Entry, nodeVars
  <2> QED
    BY <2>1, <2>2
<1>10. ListedInv'
  <2> SUFFICES ASSUME NEW i \in DOMAIN fSnapshot' PROVE i \in DOMAIN fPeers' /\ fPeers'[i].announced
    BY DEF ListedInv
  <2>1. \/ i \in DOMAIN fSnapshot
        \/ i = d.from /\ Publishes(before, e)
    BY <1>7 DEF With
  <2>2. CASE i = d.from /\ Publishes(before, e)
    BY <1>6, <1>8, <2>2
  <2>3. CASE i \in DOMAIN fSnapshot
    <3>1. i \in DOMAIN fPeers /\ fPeers[i].announced
      BY <2>3 DEF DiscoveryInv, ListedInv
    <3>2. CASE i = d.from
      <4>1. before.announced
        BY <3>1, <3>2 DEF before
      <4> QED
        BY <1>6, <1>8, <3>2, <4>1
    <3>3. CASE i # d.from
      BY <1>8, <3>1, <3>3
    <3> QED
      BY <3>2, <3>3
  <2> QED
    BY <2>1, <2>2, <2>3
<1> QED
  BY <1>1, <1>9, <1>10 DEF DiscoveryInv

-----------------------------------------------------------------------------
\* A unit goes by: an entry that stays has one less left, and its peer is gone for at
\* most one more.
LEMMA TickStep ==
    ASSUME DiscoveryInv, Tick
    PROVE  DiscoveryInv'
<1> USE DiscoveryAssumption DEF DiscoveryAssumption
<1>1. UNCHANGED <<node, running>>
  BY DEF Tick
<1>2. NodesInv'
  BY <1>1 DEF Tick, DiscoveryInv, NodesInv
<1>3. WireInv'
  <2>1. \A i \in Inst : node[i].up => goneFor'[i] = 0
    BY DEF Tick
  <2>2. \A i \in {j \in Inst : node[j].up} :
            LET d == AnnouncePacket(i, node[i])
            IN d.from \in Inst /\ goneFor'[d.from] = 0 /\ d.records # {}
    BY <2>1 DEF AnnouncePacket
  <2>3. net' = {AnnouncePacket(i, node[i]) : i \in {j \in Inst : node[j].up}}
    BY DEF Tick
  <2> QED
    BY <2>2, <2>3 DEF WireInv
<1>4. ASSUME running
      PROVE  TableInv' /\ ListedInv'
  <2> DEFINE told == {i \in Expired : fPeers[i].announced}
  <2>1. /\ DOMAIN fPeers' = DOMAIN fPeers \ Expired
        /\ \A i \in DOMAIN fPeers' : fPeers'[i] = [fPeers[i] EXCEPT !.left = fPeers[i].left - 1]
        /\ DOMAIN fSnapshot' = DOMAIN fSnapshot \ told
    BY <1>4 DEF Tick, Expire, Without
  <2>2. ASSUME NEW i \in DOMAIN fPeers'
        PROVE  i \in Inst /\ Entry(i)' /\ fPeers'[i].announced = fPeers[i].announced
    <3>1. i \in Inst /\ Entry(i) /\ ~ (fPeers[i].left <= 1)
      BY <1>4, <2>1 DEF DiscoveryInv, TableInv, Expired
    <3>2. fPeers[i].left \in Nat /\ fPeers[i].left + goneFor[i] <= LongTtl
          /\ goneFor[i] \in Nat /\ goneFor'[i] \in Nat /\ goneFor'[i] <= goneFor[i] + 1
      <4>1. goneFor[i] \in Nat /\ goneFor'[i] \in Nat /\ goneFor'[i] <= goneFor[i] + 1
        BY <3>1 DEF DiscoveryInv, NodesInv, Tick
      <4> QED
        BY <3>1, <4>1 DEF Entry
    <3> DEFINE l == fPeers[i].left - 1
    <3>3. l \in Nat /\ 1 <= l /\ l + goneFor'[i] <= LongTtl
      BY <3>1, <3>2
    <3>4. fPeers'[i] = [fPeers[i] EXCEPT !.left = l]
      BY <2>1
    <3> HIDE DEF l
    <3>5. EntryShape(fPeers[i])
      BY <3>1 DEF Entry, EntryShape
    <3>6. EntryShape(fPeers'[i]) /\ fPeers'[i].left = l /\ fPeers'[i].announced = fPeers[i].announced
      BY <3>4, <3>5 DEF EntryShape
    <3> QED
      BY <3>1, <3>3, <3>6 DEF Entry, EntryShape
  <2>3. TableInv'
    BY <2>2 DEF TableInv
  <2>4. ListedInv'
    BY <1>4, <2>1, <2>2 DEF DiscoveryInv, ListedInv
  <2> QED
    BY <2>3, <2>4
<1>5. ASSUME ~running
      PROVE  TableInv' /\ ListedInv'
  BY <1>1, <1>5 DEF TableInv, ListedInv
<1> QED
  BY <1>2, <1>3, <1>4, <1>5 DEF DiscoveryInv

-----------------------------------------------------------------------------
\* The theorem.

LEMMA DiscoveryInit == Init => DiscoveryInv
BY DiscoveryAssumption DEF DiscoveryAssumption, Init, DiscoveryInv, NodesInv, WireInv, TableInv, ListedInv

LEMMA DiscoveryStep == DiscoveryInv /\ [Next]_vars => DiscoveryInv'
<1> SUFFICES ASSUME DiscoveryInv, [Next]_vars PROVE DiscoveryInv'
  OBVIOUS
<1>1. ASSUME NEW d \in net, Receive(d)
      PROVE  DiscoveryInv'
  BY <1>1, GoodbyeStep, AddressStep, RecordsStep DEF Receive
<1>2. CASE UNCHANGED vars
  BY <1>2 DEF vars, DiscoveryInv, NodesInv, WireInv, TableInv, Entry, ListedInv
<1> QED
  BY <1>1, <1>2, StartNodeStep, StopNodeStep, CrashStep, SendRecordStep, StartBrowsingStep,
     StopBrowsingStep, TickStep DEF Next

\* However datagrams are lost, repeated or reordered and whatever is restarted, a peer
\* gone for the longest TTL is not listed (PeerTable::Expire, PeerTable::Ingest).
THEOREM DeadPeersAreDropped == Spec => []DeadPeersGo
<1>1. DiscoveryInv => DeadPeersGo
  <2> SUFFICES ASSUME DiscoveryInv, running, NEW i \in Inst, goneFor[i] = LongTtl, i \in DOMAIN fSnapshot
               PROVE  FALSE
    BY DEF DeadPeersGo
  <2>1. Entry(i)
    BY DEF DiscoveryInv, TableInv, ListedInv
  <2> QED
    BY <2>1, DiscoveryAssumption DEF Entry, DiscoveryAssumption
<1> QED
  BY <1>1, DiscoveryInit, DiscoveryStep, PTL DEF Spec
=============================================================================
