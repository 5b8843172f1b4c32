--------------------------- MODULE Neighbourhood ---------------------------
(***************************************************************************)
(* The neighbourhood browser ("won"): the radar and the SMB finder, whose  *)
(* threads collect what the network says; the window that merges it with   *)
(* devices added by hand and with what a slower pass finds out, checks     *)
(* which of them answer, and opens them; and the folder ~/WON, which it    *)
(* keeps filled with one shortcut for each device and in which the user    *)
(* and the SMB mounts put files and directories of their own.              *)
(*                                                                         *)
(* An address is a number, 0 for none; the order of addresses as texts is  *)
(* that of the numbers.  A label is a number too: below 10 a name, from 10 *)
(* on a text in which the address occurs.  Labels 1 and 2 differ in a      *)
(* slash where the other has a dash.                                       *)
(*                                                                         *)
(* dev is the outside: `radar' and `found' are what the two threads have   *)
(* collected, `folder' is ~/WON, `manual', `macs' and `boot' are settings, *)
(* and two histories: `mine', the files and directories that are not the   *)
(* browser's, less those a shortcut was written over, and `gone', what has *)
(* been removed since the shortcuts were last written.                     *)
(***************************************************************************)
EXTENDS DeviceApp, SequencesExt

CONSTANTS
  Addrs,          \* addresses of the network
  Answering,      \* sets of addresses: those that answer a question, in some pass
  Datagrams,      \* announcements: [name, type, host, addr, txt, has]
  Manifests,      \* of the installed handlers: [sig, types, kinds, txt]
  FolderNames,    \* names the user or a mount may use in the folder
  MaxEvents,      \* bound: announcements, scans, changes of the folder, further launches,
                  \* clicks, and passes of the window's threads (dev.passes)
  MaxWaiting      \* bound: messages in the queue when a timer fires

ASSUME WonAssumption == Addrs \subseteq Nat \ {0} /\ {MaxEvents, MaxWaiting} \subseteq Nat

-----------------------------------------------------------------------------
(* The radar folds the records of a packet into an instance and into the    *)
(* addresses of a host.  It keeps what it has heard; nothing expires.       *)
NoInstance == [type |-> "", host |-> "", txt |-> 0, src |-> 0]
Silent == [instances |-> <<>>, addrs |-> <<>>]

At(f, x, default) == IF x \in DOMAIN f THEN f[x] ELSE default
Ingest(r, d) ==
  LET old == At(r.instances, d.name, NoInstance)
      new == [type |-> IF "PTR" \in d.has THEN d.type ELSE old.type,
              host |-> IF "SRV" \in d.has THEN d.host ELSE old.host,
              txt  |-> IF "TXT" \in d.has THEN d.txt ELSE old.txt,
              src  |-> IF old.src = 0 /\ d.has \cap {"PTR", "SRV"} # {} THEN d.addr ELSE old.src]
  IN [instances |-> IF d.has = {"A"} THEN r.instances ELSE (d.name :> new) @@ r.instances,
      addrs |-> IF "A" \in d.has
                THEN (d.host :> (At(r.addrs, d.host, {}) \cup {d.addr})) @@ r.addrs
                ELSE r.addrs]

RadarSnapshot(r) ==                  \* the addresses of each instance, or that of the sender
  [n \in DOMAIN r.instances |->
     LET i == r.instances[n]
     IN [type |-> i.type, txt |-> i.txt,
         addrs |-> At(r.addrs, i.host, {i.src} \ {0})]]

-----------------------------------------------------------------------------
(* NetworkDirectory: an instance is a service, a machine that offers        *)
(* something else is not listed as a computer too, and the list is sorted.  *)
Kinds == <<"Campiello", "Smb", "Sftp", "Computer", "Home", "Web", "Printer", "Media", "Other">>
KindOf == [campiello |-> "Campiello", smb |-> "Smb", ssh |-> "Sftp", workstation |-> "Computer",
           hue |-> "Home", http |-> "Web", ipp |-> "Printer", cast |-> "Media"]
ClassifyServiceType(t) == At(KindOf, t, "Other")
Backend(s) == At([Campiello |-> "Cnp", Smb |-> "Smb", Sftp |-> "Sftp"], s.kind, "None")
Rank(s) == CHOOSE i \in DOMAIN Kinds : Kinds[i] = s.kind

AddressLabel(kind, host) == 10 * (1 + Rank([kind |-> kind])) + host
Service(id, kind, label, host, txt) ==
  [id |-> id, kind |-> kind, label |-> label, host |-> host, txt |-> txt, mac |-> FALSE]
ServiceOf(n, i) ==
  LET host == IF i.addrs = {} THEN 0 ELSE Min(i.addrs)
      kind == ClassifyServiceType(i.type)
  IN Service(<<i.type, n>>, kind, IF i.txt # 0 THEN i.txt ELSE AddressLabel(kind, host), host, i.txt)

Key(s) == <<Rank(s), s.label, IF s.id[1] = "" THEN 0 ELSE 1, s.id[2]>>
Before(s, t) ==
  \E i \in 1..4 : Key(s)[i] < Key(t)[i] /\ \A j \in 1..i - 1 : Key(s)[j] = Key(t)[j]
BuildNeighborhood(snap) ==
  LET all == {ServiceOf(n, snap[n]) : n \in {m \in DOMAIN snap : snap[m].type # "arpa"}}
      covered(s) == /\ s.kind = "Computer" /\ s.host # 0
                    /\ \E t \in all : t.kind # "Computer" /\ t.host = s.host
  IN SetToSortSeq({s \in all : ~covered(s)}, Before)

(* A source that comes later adds only addresses that nobody has yet. *)
Merge(base, more) ==
  FoldLeft(LAMBDA b, s : IF \E i \in DOMAIN b : b[i].host = s.host THEN b ELSE Append(b, s),
           base, more)
Ascending(S) == SetToSortSeq(S, LAMBDA a, b : a < b)
SmbHostsToServices(hosts) ==
  [i \in DOMAIN hosts |-> Service(<<"smbhost", hosts[i]>>, "Smb", AddressLabel("Smb", hosts[i]), hosts[i], 0)]
MergeSmbHosts(base, hosts) == Merge(base, SmbHostsToServices(hosts))
MakeManual(host, name) ==
  Service(<<"manual", host>>, "Other", IF name = 0 THEN 100 + host ELSE name, host, 0)
UpnpDevice(host) == Service(<<"ssdp", host>>, "Media", 3, host, 0)

MadeOfAddress(label) == label >= 10
NetBiosName(host) == 4 + host
ApplyEnrichment(w, hood) ==
  [i \in DOMAIN hood |->
     [hood[i] EXCEPT !.mac = hood[i].host \in w.macs,
                     !.label = IF hood[i].host \in w.names /\ MadeOfAddress(@)
                               THEN NetBiosName(hood[i].host) ELSE @]]

-----------------------------------------------------------------------------
(* HandlerRegistry and ShareFolder. *)
LoadHandlers == SelectSeq(Manifests, LAMBDA m : m.sig # "")
Match(s) ==
  SelectSeq(LoadHandlers, LAMBDA m : s.id[1] \in m.types \/ s.kind \in m.kinds \/ s.txt \in m.txt)
DefaultHandler(s) == IF Match(s) = <<>> THEN "" ELSE Head(Match(s)).sig

SanitizeFileName(label) == IF label = 2 THEN 1 ELSE label
(* Opening a file to erase it keeps its attributes: one that had a handler  *)
(* as its preferred application keeps it whatever is written later.         *)
NoShortcut == [by |-> "none", host |-> 0, type |-> "", app |-> ""]
WriteServiceFile(old, s) ==
  [by |-> "won", host |-> s.host,
   type |-> CASE Backend(s) = "Smb" -> "share"
              [] Backend(s) # "Smb" /\ DefaultHandler(s) # "" -> old.type
              [] Backend(s) # "Smb" /\ DefaultHandler(s) = "" ->
                   IF s.kind = "Web" THEN "bookmark" ELSE "text",
   app |-> IF Backend(s) # "Smb" /\ DefaultHandler(s) # "" THEN DefaultHandler(s) ELSE old.app]

FirstNamed(services, n) ==      \* of several with one name the first is kept
  services[Min({i \in DOMAIN services : SanitizeFileName(services[i].label) = n})]
Desired(services) == {SanitizeFileName(services[i].label) : i \in DOMAIN services}
\* Mutant of SyncShareFolder: everything that is no device is pruned.
SyncPrunesAll(folder, services) ==
  [n \in Desired(services) |->
     IF n \in DOMAIN folder /\ folder[n].by = "mount" THEN folder[n]
     ELSE WriteServiceFile(At(folder, n, NoShortcut), FirstNamed(services, n))]
SyncShareFolder(folder, services) ==
  LET names == Desired(services)
      kept == {n \in DOMAIN folder : n \in names \/ folder[n].by # "won"}
      held == {n \in DOMAIN folder : folder[n].by = "mount"}   \* a directory cannot be opened so
  IN [n \in kept \cup names |->
        IF n \in names \ held THEN WriteServiceFile(At(folder, n, NoShortcut), FirstNamed(services, n))
        ELSE folder[n]]

-----------------------------------------------------------------------------
(* The window.  A row of the list holds the index of its service.  Without *)
(* a radar the constructor reads none of the settings and starts no timer.  *)
WonWindow(radar) ==
  [status |-> "none", radar |-> radar, services |-> <<>>, signature |-> <<>>,
   rows |-> <<>>, sel |-> 0, statusMap |-> <<>>, online |-> 0, detail |-> <<>>,
   box |-> FALSE, onlyOnline |-> FALSE, filter |-> 0, pinging |-> FALSE, intelBusy |-> FALSE,
   manual |-> IF radar THEN dev.manual ELSE <<>>, macs |-> IF radar THEN dev.macs ELSE {},
   names |-> {}, ssdp |-> {}, last |-> <<>>]

Selected(w) ==
  IF w.sel = 0 \/ w.rows[w.sel] > Len(w.services) THEN <<>> ELSE <<w.services[w.rows[w.sel]]>>
UpdateDetails(w) ==
  [w EXCEPT !.detail = IF Selected(w) = <<>> THEN <<>>
                       ELSE <<Selected(w)[1], At(w.statusMap, Selected(w)[1].id, "unknown")>>]

Order == <<"Campiello", "Computer", "Home", "Media", "Smb", "Sftp", "Printer", "Web", "Other">>
ListRows(w) ==
  LET passes(s) == /\ w.filter \in {0, s.label}
                   /\ w.onlyOnline => At(w.statusMap, s.id, "unknown") = "online"
      members(k) == SelectSeq([i \in DOMAIN w.services |-> i],
                              LAMBDA i : w.services[i].kind = Order[k] /\ passes(w.services[i]))
  IN FlattenSeq([k \in DOMAIN Order |-> members(k)])
(* The selection to keep is looked up in the rows that are about to go.     *)
(* Select also posts kMsgSelect, whose handler repeats UpdateDetails.       *)
RebuildList(w) ==
  LET rows == ListRows(w)
      same == {i \in DOMAIN rows : Selected(w) # <<>> /\ w.services[rows[i]].id = Selected(w)[1].id}
  IN UpdateDetails([w EXCEPT !.rows = rows,
                             !.sel = IF same # {} THEN Max(same) ELSE IF rows # <<>> THEN 1 ELSE 0])

(* Jobs: the reachability check is number 1, the slow pass number 2; each   *)
(* has a flag that keeps a second one from being started.                   *)
CanCheck(w) == ~w.pinging /\ w.services # <<>>
CanProbe(w) == ~w.intelBusy /\ w.services # <<>>
StatusJob(w) ==
  [what |-> "statusReady", arg |-> {<<s.id, s.host>> : s \in Range(w.services)}, ans |-> NoAnswer]
IntelJob(w) ==
  [what |-> "intelReady",
   arg |-> [hosts |-> {s.host : s \in Range(w.services)} \ {0},
            smb |-> {s.host : s \in {t \in Range(w.services) : Backend(t) = "Smb"}} \ {0}],
   ans |-> NoAnswer]
Jobs(w, made) ==                \* with those that are running
  [j \in made \cup DOMAIN jobs |->
     IF j \notin made THEN jobs[j] ELSE IF j = 1 THEN StatusJob(w) ELSE IntelJob(w)]
Becomes(w, want, d) ==          \* the handler's end: its jobs are started, or one is not
  \E made \in {want} \cup (IF lost THEN {} ELSE {want \ {j} : j \in want}) :
    /\ jobs' = Jobs(w, made)
    /\ lost' = (lost \/ made # want)
    /\ win' = [w EXCEPT !.pinging = @ \/ 1 \in made, !.intelBusy = @ \/ 2 \in made]
    /\ dev' = d

Signature(hood) == [i \in DOMAIN hood |-> <<hood[i].id, hood[i].label, hood[i].mac>>]
Hood(w, d) ==
  LET heard == MergeSmbHosts(BuildNeighborhood(RadarSnapshot(d.radar)), Ascending(d.found))
  IN ApplyEnrichment(w, Merge(Merge(heard, w.manual), [i \in DOMAIN Ascending(w.ssdp) |->
                                                         UpnpDevice(Ascending(w.ssdp)[i])]))
Synced(w, d, services) ==
  IF ~w.radar THEN d            \* the folder is not known
  ELSE [d EXCEPT !.folder = SyncShareFolder(@, services),
                 !.mine = {n \in @ : n \notin Desired(services) \/ d.folder[n].by = "mount"},
                 !.gone = {}]
Wanted(w, asked) == {j \in asked : IF j = 1 THEN CanCheck(w) ELSE CanProbe(w)}
WonRefresh(w, also, d) ==          \* also: the jobs the handler asks for besides
  LET hood == Hood(w, d)
      w1 == RebuildList([w EXCEPT !.signature = Signature(hood), !.services = hood])
  IN IF Signature(hood) = w.signature /\ w.rows # <<>>
     THEN Becomes(w, Wanted(w, also), d)
     ELSE Becomes(w1, Wanted(w1, also \cup {1}), Synced(w, d, hood))

-----------------------------------------------------------------------------
Events == changes + dev.passes + clicks
(* The constructor, in the first run of the application and in later ones;  *)
(* then what the two threads and the user's Tracker do meanwhile.           *)
WonLaunch ==
  /\ app = "won"
  /\ phase = "start" \/ (phase = "quit" /\ Events < MaxEvents)
  /\ phase' = "open"
  /\ changes' = IF phase = "quit" THEN changes + 1 ELSE changes
  /\ LET fresh == [dev EXCEPT !.radar = Silent, !.found = {}]
     IN \/ WonRefresh(WonWindow(TRUE), {2}, fresh)
        \/ Becomes(WonWindow(FALSE), {}, fresh)
  /\ UNCHANGED <<app, inbox, clicks, served>>

WonOpen == app = "won" /\ phase = "open"
WonEvent(d) ==
  /\ WonOpen
  /\ Events < MaxEvents
  /\ changes' = changes + 1
  /\ dev' = d
  /\ UNCHANGED <<app, phase, win, jobs, inbox, lost, clicks, served>>
RadarHears == WonOpen /\ win.radar /\ \E g \in Datagrams : WonEvent([dev EXCEPT !.radar = Ingest(@, g)])
ScanSubnetPort == SUBSET Addrs  \* those that take a connection to port 445 and answer as SMB does
SmbScan == WonOpen /\ win.radar /\ \E hosts \in ScanSubnetPort : WonEvent([dev EXCEPT !.found = hosts])
FolderGains ==                  \* the user saves a file, or a share is mounted
  \E n \in FolderNames \ DOMAIN dev.folder, by \in {"user", "mount"} :
    WonEvent([dev EXCEPT !.folder = With(@, n, [NoShortcut EXCEPT !.by = by]), !.mine = @ \cup {n}])
FolderLoses ==
  \E n \in DOMAIN dev.folder :
    WonEvent([dev EXCEPT !.folder = Restrict(@, DOMAIN @ \ {n}), !.mine = @ \ {n},
                         !.gone = @ \cup {n}])

-----------------------------------------------------------------------------
(* What the user does: `win' holds the text of the filter, the check box    *)
(* and the list's selection, which change before their message is handled.  *)
WonPlain == {"refreshNow", "open", "removeDevice", "wake", "autostart", "other"}
WonClick ==
  WonOpen /\ Events < MaxEvents /\
  \/ \E what \in WonPlain : Click("won", what)
  \/ \E f \in {0, 1} \ {win.filter} : Send("won", Msg("filter", "none"), [win EXCEPT !.filter = f])
  \/ Send("won", Msg("onlyOnline", "none"), [win EXCEPT !.box = ~@])
  \/ \E i \in 0..Len(win.rows) : Send("won", Msg("select", "none"), [win EXCEPT !.sel = i])
  \/ \E host \in Addrs, name \in {0, 1} : Send("won", Msg("addDeviceOk", <<host, name>>), win)
WonTimer ==
  /\ WonOpen
  /\ win.radar
  /\ Len(inbox) < MaxWaiting
  /\ \E what \in {"tick", "statusTick", "intelTick"} : Timer("won", what)

(* The two threads: a connection to each device, one after the other; and   *)
(* the ARP table, a name for each SMB host, one UPnP search.                *)
TcpPing(host, S) == host \in S  \* S: the addresses that answer in this pass
ReadArpCache(hosts, S) == hosts \cap S
QueryNetBiosName(hosts, S) == hosts \cap S
DiscoverSsdp(S) == S
OnePassMore(x, r) == [dev EXCEPT !.passes = @ + 1]
StatusThread ==
  /\ WonOpen
  /\ Events < MaxEvents
  /\ Works("won", "statusReady",
           LAMBDA targets : {[ids |-> {t[1] : t \in targets},
                              up |-> {t[1] : t \in {u \in targets : TcpPing(u[2], S)}}] : S \in Answering},
           OnePassMore)
IntelThread ==
  /\ WonOpen
  /\ Events < MaxEvents
  /\ Works("won", "intelReady",
           LAMBDA t : {[macs |-> ReadArpCache(t.hosts, S), names |-> QueryNetBiosName(t.smb, S),
                        ssdp |-> DiscoverSsdp(S)] : S \in Answering},
           OnePassMore)

-----------------------------------------------------------------------------
(* MessageReceived. *)
WonHandles(what) == Got("won", what) /\ inbox' = Tail(inbox)
Rest == UNCHANGED <<app, phase, clicks, changes, served>>

WonTick == WonHandles("tick") /\ WonRefresh(win, {}, dev) /\ Rest
StartStatusCheck == WonHandles("statusTick") /\ Becomes(win, Wanted(win, {1}), dev) /\ Rest
StartIntel == WonHandles("intelTick") /\ Becomes(win, Wanted(win, {2}), dev) /\ Rest

HostOf(w, id) ==                \* of the service as it is listed now
  LET same == {i \in DOMAIN w.services : w.services[i].id = id}
  IN IF same = {} THEN 0 ELSE w.services[Min(same)].host
ApplyStatus ==
  LET online == {id \in arg.ids : id \in arg.up \/ HostOf(win, id) \in win.macs}
      new == [id \in arg.ids |-> IF id \in online THEN "online" ELSE "offline"]
  IN /\ WonHandles("statusReady")
     /\ Becomes(UpdateDetails([win EXCEPT !.pinging = FALSE, !.statusMap = new @@ @,
                                          !.online = Cardinality(online)]), {}, dev)
     /\ Rest
ApplyIntel ==
  LET w == [win EXCEPT !.intelBusy = FALSE, !.macs = @ \cup arg.macs, !.names = @ \cup arg.names,
                       !.ssdp = arg.ssdp]
  IN /\ WonHandles("intelReady")
     /\ \E saved \in {dev.macs} \cup (IF w.macs = win.macs THEN {} ELSE {w.macs}) :
          WonRefresh(w, {}, [dev EXCEPT !.macs = saved])
     /\ Rest

WonFilter == WonHandles("filter") /\ Becomes(RebuildList(win), {}, dev) /\ Rest
WonOnlyOnline ==
  /\ WonHandles("onlyOnline")
  /\ Becomes(RebuildList([win EXCEPT !.onlyOnline = win.box]), {}, dev)
  /\ Rest
WonRefreshNow ==
  WonHandles("refreshNow") /\ Becomes(RebuildList(win), Wanted(win, {1, 2}), dev) /\ Rest
WonSelect == WonHandles("select") /\ Becomes(UpdateDetails(win), {}, dev) /\ Rest

(* A shortcut is opened by its name alone; what cannot be opened so goes to *)
(* a mount helper or into an alert.                                         *)
OpensTo(s) ==
  LET n == SanitizeFileName(s.label)
      file == IF win.radar /\ n \in DOMAIN dev.folder THEN {<<"file", n>>} ELSE {}
      helper == IF Backend(s) \in {"Smb", "Sftp"} THEN {<<Backend(s), s.host>>} ELSE {}
  IN IF s.kind = "Computer" THEN {IF s.host = 0 THEN win.last ELSE <<"ssh", s.host>>}
     ELSE file \cup helper \cup {<<"alert", s.host>>}
OpenService ==
  /\ WonHandles("open")
  /\ \E what \in IF Selected(win) = <<>> THEN {win.last} ELSE OpensTo(Selected(win)[1]) :
       Becomes([win EXCEPT !.last = what], {}, dev)
  /\ Rest
WakeSelected ==                 \* the packet goes to the address learned for the device, if any
  /\ WonHandles("wake")
  /\ Becomes([win EXCEPT !.last = IF Selected(win) # <<>> /\ Selected(win)[1].host \in win.macs
                                  THEN <<"wake", Selected(win)[1].host>> ELSE @], {}, dev)
  /\ Rest
SetAutostart ==                 \* the link may fail to be made or removed
  WonHandles("autostart") /\ (\E b \in BOOLEAN : Becomes(win, {}, [dev EXCEPT !.boot = b])) /\ Rest
WonShows == WonHandles("other") /\ Becomes(win, {}, dev) /\ Rest

(* The list of devices added by hand is written whole, when it can be.      *)
SaveManual(w, also) ==
  \E saved \in {dev.manual, w.manual} : WonRefresh(w, also, [dev EXCEPT !.manual = saved])
AddManual ==
  LET s == MakeManual(arg[1], arg[2])
      same == {i \in DOMAIN win.manual : win.manual[i].id = s.id}
      list == IF same # {} THEN [win.manual EXCEPT ![Min(same)] = s] ELSE Append(win.manual, s)
  IN /\ WonHandles("addDeviceOk")
     /\ SaveManual([win EXCEPT !.manual = list, !.signature = <<>>], IF same # {} THEN {} ELSE {1})
     /\ Rest
RemoveSelectedManual ==
  /\ WonHandles("removeDevice")
  /\ IF Selected(win) # <<>> /\ Selected(win)[1].id[1] = "manual"
     THEN SaveManual([win EXCEPT !.manual = SelectSeq(@, LAMBDA m : m.id # Selected(win)[1].id),
                                 !.signature = <<>>], {})
     ELSE Becomes(win, {}, dev)
  /\ Rest

WonInit ==
  \E manual \in {<<>>, <<MakeManual(Max(Addrs), 0)>>} :
    AppInit("won", [radar |-> Silent, found |-> {}, folder |-> <<>>, manual |-> manual,
                    macs |-> {}, boot |-> FALSE, mine |-> {}, gone |-> {},
                    passes |-> 0])
WonLooper ==
  \/ WonTick \/ StartStatusCheck \/ StartIntel \/ ApplyStatus \/ ApplyIntel
  \/ WonFilter \/ WonOnlyOnline \/ WonRefreshNow \/ WonSelect \/ OpenService \/ WakeSelected
  \/ SetAutostart \/ WonShows \/ AddManual \/ RemoveSelectedManual
WonNext ==
  \/ WonLaunch \/ RadarHears \/ SmbScan \/ FolderGains \/ FolderLoses
  \/ WonClick \/ WonTimer \/ StatusThread \/ IntelThread \/ WonLooper

-----------------------------------------------------------------------------
(* While the browser runs, the marked shortcuts of ~/WON are those of the   *)
(* devices it lists, each with the address of the first device of its name, *)
(* and whatever else was put there (by the user, by a mount) is still       *)
(* there; however devices come, go, change their names, are renamed by the  *)
(* slow pass or share a name, and whatever an earlier run left behind.      *)
(* (A file of the user's that has the name of a device is written over.)    *)
Ours == {n \in DOMAIN dev.folder : dev.folder[n].by = "won"}
FolderMirrors ==
  WonOpen =>
    /\ dev.mine \subseteq DOMAIN dev.folder \ Ours
    /\ win.radar => /\ Ours \subseteq Desired(win.services)
                    /\ \A n \in Ours : dev.folder[n].host = FirstNamed(win.services, n).host
                    /\ Desired(win.services) \ dev.gone \subseteq DOMAIN dev.folder

(* Checks of one sort that are running or whose answer is in the queue.    *)
Awaited(job, what) ==
  Cardinality({i \in DOMAIN inbox : inbox[i].what = what}) + (IF job \in DOMAIN jobs THEN 1 ELSE 0)
=============================================================================
