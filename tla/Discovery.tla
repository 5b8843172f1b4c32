----------------------------- MODULE Discovery -----------------------------
(***************************************************************************)
(* bricola/mdns: the peers of the LAN advertise themselves with multicast  *)
(* datagrams (Responder, Bricola::Run) and a browse-only Bricola keeps a   *)
(* table of them (PeerTable) and the snapshot that the Deskbar replicant   *)
(* and the network volume read.                                            *)
(*                                                                         *)
(* Time goes by in units of the advertising interval.  A datagram is heard *)
(* any number of times, in any order, within the unit it was sent in, or   *)
(* it is lost.  The port a peer listens on and the address it sends from   *)
(* stand for all a peer says of itself.                                    *)
(***************************************************************************)
EXTENDS Integers, FiniteSets, SequencesExt

CONSTANTS
    Inst,      \* instances (service names) of the peers
    Addr,      \* IPv4 addresses: numbers, for std::set orders them
    Port,      \* ports, not 0
    ShortTtl,  \* kSrvTtl, in units
    LongTtl,   \* kPtrTtl and kTxtTtl, in units
    MaxNet     \* bound: different datagrams heard in one unit

ASSUME DiscoveryAssumption ==
    /\ Addr \subseteq Nat
    /\ 0 \notin Port /\ Port \subseteq Nat
    /\ MaxNet \in Nat /\ ShortTtl \in Nat /\ LongTtl \in Nat /\ 0 < ShortTtl /\ ShortTtl <= LongTtl

VARIABLES
    node,       \* each peer: running or not, where it is and what port it serves
    goneFor,    \* history: units since each peer last ran, up to LongTtl
    net,        \* datagrams on the wire
    running,    \* the browser's worker thread runs
    fPeers,     \* its PeerTable; expiry is kept as the time left
    fHostAddrs, \* per host, the addresses of A records
    fSnapshot   \* Bricola's copy for the other threads

vars == <<node, goneFor, net, running, fPeers, fHostAddrs, fSnapshot>>
nodeVars == <<node, goneFor>>
tableVars == <<fPeers, fHostAddrs, fSnapshot>>

Node == [up : BOOLEAN, addr : Addr, port : Port]
Peer == [port : Port \cup {0}, addresses : Seq(Addr)]
Record == {"PTR", "SRV", "TXT", "A"}
Datagram == [from : Inst, src : Addr, port : Port, records : SUBSET Record, bye : BOOLEAN]

TypeOK ==
    /\ node \in [Inst -> Node]
    /\ goneFor \in [Inst -> 0 .. LongTtl]
    /\ net \subseteq Datagram
    /\ running \in BOOLEAN
    /\ \A i \in DOMAIN fPeers :
        /\ i \in Inst
        /\ fPeers[i].port \in Port \cup {0}
        /\ \A k \in DOMAIN fPeers[i].addresses : fPeers[i].addresses[k] \in Addr
        /\ fPeers[i].hostname \in BOOLEAN /\ fPeers[i].announced \in BOOLEAN
        /\ fPeers[i].left \in 0 .. LongTtl
    /\ fHostAddrs \in [Inst -> SUBSET Addr]
    /\ DOMAIN fSnapshot \subseteq Inst

Init ==
    /\ node \in [Inst -> {n \in Node : ~n.up}]
    /\ goneFor = [i \in Inst |-> LongTtl]
    /\ net = {}
    /\ running = FALSE
    /\ fPeers = << >>
    /\ fHostAddrs = [i \in Inst |-> {}]
    /\ fSnapshot = << >>

-----------------------------------------------------------------------------
\* The peers: Bricola started with a ServiceInfo.

\* AnnouncePacket.  The daemon leaves the address empty: there is no A record.
AnnouncePacket(i, n) ==
    [from |-> i, src |-> n.addr, port |-> n.port, records |-> {"PTR", "SRV", "TXT"},
     bye |-> FALSE]

GoodbyePacket(i) ==
    [from |-> i, src |-> node[i].addr, port |-> node[i].port, records |-> {"PTR"},
     bye |-> TRUE]

\* SendMulticast.
Send(d) ==
    /\ net' = net \cup {d}
    /\ Cardinality(net') <= MaxNet

\* Bricola::Start on a host that may have got another address and port; Run begins
\* with Advertise.
StartNode(i, n) ==
    /\ ~node[i].up /\ n.up
    /\ node' = [node EXCEPT ![i] = n]
    /\ goneFor' = [goneFor EXCEPT ![i] = 0]
    /\ Send(AnnouncePacket(i, n))
    /\ UNCHANGED <<running, tableVars>>

\* Bricola::Stop: the worker ends with a goodbye.
StopNode(i) ==
    /\ node[i].up
    /\ node' = [node EXCEPT ![i].up = FALSE]
    /\ Send(GoodbyePacket(i))
    /\ UNCHANGED <<goneFor, running, tableVars>>

Crash(i) ==
    /\ node[i].up
    /\ node' = [node EXCEPT ![i].up = FALSE]
    /\ UNCHANGED <<goneFor, net, running, tableVars>>

\* Another implementation of the service sends its records one by one, an A record too.
SendRecord(i, r) ==
    /\ node[i].up
    /\ Send([AnnouncePacket(i, node[i]) EXCEPT !.records = {r}])
    /\ UNCHANGED <<nodeVars, running, tableVars>>

-----------------------------------------------------------------------------
\* PeerTable::Ingest, for one datagram d.

NewEntry == [port |-> 0, addresses |-> << >>, hostname |-> FALSE, left |-> 0,
             announced |-> FALSE]

Ttl(r) == IF r = "SRV" THEN ShortTtl ELSE LongTtl

\* Pass 1.
HarvestedAddrs(d) ==
    IF "A" \in d.records THEN [fHostAddrs EXCEPT ![d.from] = @ \cup {d.src}]
    ELSE fHostAddrs

\* Mutant of Touched: the first port a peer was heard with stays.
TouchedKeepsPort(d, e) ==
    [e EXCEPT !.port = IF @ = 0 /\ d.records \cap {"SRV", "TXT"} # {} THEN d.port ELSE @,
              !.hostname = @ \/ "SRV" \in d.records,
              !.left = LongTtl]

\* Pass 2: the PTR, the SRV and the TXT of a live peer, in the order of the packet.  The
\* port of a TXT counts only where no SRV gave one.
Touched(d, e) ==
    LET touching == d.records \ {"A"} IN
        [e EXCEPT !.port = IF "SRV" \in touching \/ ("TXT" \in touching /\ @ = 0)
                           THEN d.port ELSE @,
                  !.hostname = @ \/ "SRV" \in touching,
                  !.left = Max({@} \cup {Ttl(r) : r \in touching})]

\* AttachAddresses appends what the entry lacks, in the order of std::set.
AttachAddresses(e, addrs) ==
    IF ~e.hostname THEN e
    ELSE [e EXCEPT !.addresses =
            @ \o SetToSortSeq(addrs \ ToSet(@), LAMBDA a, b : a < b)]

\* A peer that can be reached but is not resolved is at the sender's address.
WithFallback(e, src) ==
    IF e.addresses = << >> /\ e.port # 0 THEN [e EXCEPT !.addresses = <<src>>] ELSE e

Content(e) == [port |-> e.port, addresses |-> e.addresses]

ContentEqual(a, b) == Content(a) = Content(b)

Connectable(e) == e.port # 0 /\ e.addresses # << >>

\* Publish: whether the observer hears of the entry, found or updated.
Publishes(before, e) ==
    IF before.announced THEN ~ContentEqual(before, e) ELSE Connectable(e)

With(f, i, v) == [j \in DOMAIN f \cup {i} |-> IF j = i THEN v ELSE f[j]]
Without(f, is) == [j \in DOMAIN f \ is |-> f[j]]

\* Entries are erased, and those announced are lost to the observer.
PeersLost(is) ==
    /\ fPeers' = Without(fPeers, is)
    /\ fSnapshot' = Without(fSnapshot, {i \in is \cap DOMAIN fPeers : fPeers[i].announced})

IngestGoodbye(d) ==
    /\ d.bye
    /\ PeersLost({d.from})
    /\ UNCHANGED fHostAddrs

IngestAddress(d) ==
    /\ ~d.bye /\ d.records = {"A"}
    /\ fHostAddrs' = HarvestedAddrs(d)
    /\ UNCHANGED <<fPeers, fSnapshot>>

IngestRecords(d) ==
    LET before == IF d.from \in DOMAIN fPeers THEN fPeers[d.from] ELSE NewEntry
        e == WithFallback(AttachAddresses(Touched(d, before), HarvestedAddrs(d)[d.from]),
                          d.src)
    IN
    /\ ~d.bye /\ d.records # {"A"}
    /\ fHostAddrs' = HarvestedAddrs(d)
    /\ fPeers' = With(fPeers, d.from,
                      [e EXCEPT !.announced = @ \/ Publishes(before, e)])
    /\ fSnapshot' = IF Publishes(before, e) THEN With(fSnapshot, d.from, Content(e))
                    ELSE fSnapshot

-----------------------------------------------------------------------------
\* The browser: Bricola started with StartBrowsing.

\* StartInternal makes a new table and clears the snapshot; Run begins with a query,
\* which every peer that hears it answers (ResponseTo).
StartBrowsing ==
    /\ ~running
    /\ running' = TRUE
    /\ fPeers' = << >>
    /\ fHostAddrs' = [i \in Inst |-> {}]
    /\ fSnapshot' = << >>
    /\ \E heard \in SUBSET {i \in Inst : node[i].up} :
        net' = net \cup {AnnouncePacket(i, node[i]) : i \in heard}
    /\ UNCHANGED nodeVars

\* Stop joins the worker and closes the socket; the snapshot stays.
StopBrowsing ==
    /\ running
    /\ running' = FALSE
    /\ UNCHANGED <<nodeVars, net, tableVars>>

\* The worker receives a datagram and goes round its loop.  It stays on the wire, for it
\* may be heard again.
Receive(d) ==
    /\ running
    /\ d \in net
    /\ IngestGoodbye(d) \/ IngestAddress(d) \/ IngestRecords(d)
    /\ UNCHANGED <<nodeVars, net, running>>

\* Expire: entries with no time left go, the others have one unit less.
Expired == {i \in DOMAIN fPeers : fPeers[i].left <= 1}

\* Mutant of Expire: an entry outlives its last unit.
ExpireLate ==
    LET old == {i \in DOMAIN fPeers : fPeers[i].left = 0} IN
    /\ fPeers' = [i \in DOMAIN fPeers \ old |-> [fPeers[i] EXCEPT !.left = @ - 1]]
    /\ fSnapshot' = Without(fSnapshot, {i \in old : fPeers[i].announced})

Expire ==
    /\ fPeers' = [i \in DOMAIN fPeers \ Expired |-> [fPeers[i] EXCEPT !.left = @ - 1]]
    /\ fSnapshot' = Without(fSnapshot, {i \in Expired : fPeers[i].announced})

\* A unit goes by: what was on the wire is lost, every peer advertises again, the browser
\* expires its table (and asks again, which the peers' own announcements answer).
Tick ==
    /\ net' = {AnnouncePacket(i, node[i]) : i \in {j \in Inst : node[j].up}}
    /\ goneFor' = [i \in Inst |-> IF node[i].up THEN 0
                                  ELSE IF goneFor[i] = LongTtl THEN goneFor[i]
                                  ELSE goneFor[i] + 1]
    /\ IF running THEN Expire ELSE UNCHANGED <<fPeers, fSnapshot>>
    /\ UNCHANGED <<node, running, fHostAddrs>>

Next ==
    \/ \E i \in Inst :
        \/ \E n \in Node : StartNode(i, n)
        \/ StopNode(i) \/ Crash(i)
        \/ \E r \in Record : SendRecord(i, r)
    \/ \E d \in net : Receive(d)
    \/ StartBrowsing \/ StopBrowsing \/ Tick

\* Clocks do not stop, and the network does not lose every announcement of a peer.
Fairness ==
    /\ WF_vars(Tick)
    /\ \A i \in Inst : SF_vars(Receive(AnnouncePacket(i, node[i])))

Spec == Init /\ [][Next]_vars /\ Fairness

-----------------------------------------------------------------------------

\* A peer that stopped or died is off the list when the longest TTL has gone by, whether
\* its goodbye was heard or not and whatever came after it (PeerTable::Expire).
DeadPeersGo ==
    running => \A i \in Inst : goneFor[i] = LongTtl => i \notin DOMAIN fSnapshot

\* A peer that stays up is listed with the port it serves, again and again, however often
\* it, or the browser, restarted before (Bricola::Run).
LivePeersAreListed ==
    \A i \in Inst : \A p \in Port :
        <>[](running /\ node[i].up /\ node[i].port = p)
            => []<>(i \in DOMAIN fSnapshot /\ fSnapshot[i].port = p)
=============================================================================
