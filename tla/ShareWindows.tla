---------------------------- MODULE ShareWindows ----------------------------
(***************************************************************************)
(* The applications that browse what a server offers: FTP and WebDAV (a    *)
(* list of a directory, downloads), NFS (the exports), AFP (the server's   *)
(* description) and DAAP (the tracks of a music library).                  *)
(***************************************************************************)
EXTENDS DeviceApp, SequencesExt

(* The directories of the server: a path is the sequence of its names. *)
Entry(n, d) == [name |-> n, isDir |-> d]
Tree == [p \in {<<>>, <<"d">>} |->
           IF p = <<>> THEN <<Entry("f", FALSE), Entry("d", TRUE)>> ELSE <<Entry("g", FALSE)>>]
Lists == {<<>>, <<"a">>, <<"a", "b">>}      \* exports, tracks
NoFile == <<"?">>
ParentOf(p) == IF p = <<>> THEN <<>> ELSE Front(p)

BrowserWindow == [status |-> "loading", path |-> <<>>, entries |-> <<>>,
                  sel |-> 0, pending |-> NoFile, panel |-> "none"]

(* A double-click selects the row and posts kMsgOpen; the save panel posts  *)
(* the name it shows.  A list that is emptied loses its selection.          *)
PickRow(a) ==
  /\ app = a /\ phase = "open"
  /\ \E i \in 1..Len(win.entries) : Send(a, Msg("open", "none"), [win EXCEPT !.sel = i])
SavePanel(a) ==
  /\ app = a /\ phase = "open"
  /\ win.panel # "none"
  /\ Send(a, Msg("save", win.panel), [win EXCEPT !.panel = "none"])

(* Directories first, then files, under a row for the parent. *)
OfKind(rows, isDir) ==
  FoldLeft(LAMBDA list, e : IF e.isDir = isDir THEN Append(list, e) ELSE list, <<>>, rows)
Rows(p, up, rows) ==
  (IF p = <<>> THEN <<>> ELSE <<up>>) \o OfKind(rows, TRUE) \o OfKind(rows, FALSE)

Cleared(w) == [w EXCEPT !.entries = <<>>, !.sel = 0]
Downloaded(w, r) == [w EXCEPT !.status = IF r.ok THEN "saved" ELSE "error"]

-----------------------------------------------------------------------------
(* FTP.  The replies of the server, 0 for a control connection that ended,  *)
(* and the rows that arrive before the data connection ends.  The end of    *)
(* the data is taken for the end of the listing and the closing reply is    *)
(* not looked at, so a listing or a file that was cut off counts as whole.  *)
FtpReplies == [greeting : {0, 220}, user : {230, 331, 530}, pass : {230, 530},
               cwd : {250, 550}, pasv : {0, 227}, xfer : {125, 150, 550}, data : 0..2]
FtpConnect(r) ==
  r.greeting = 220 /\ (IF r.user = 331 THEN r.pass ELSE r.user) = 230
FtpOpenPasv(r) == r.pasv = 227
FtpParseListing(s, n) == FirstOf(s, n)
FtpList(p) ==
  {IF FtpConnect(r) /\ r.cwd \div 100 = 2 /\ FtpOpenPasv(r) /\ r.xfer \in {125, 150}
   THEN [ok |-> TRUE, path |-> p, rows |-> FtpParseListing(Tree[p], r.data)]
   ELSE Failed : r \in FtpReplies}
FtpRetrieve(x) ==
  {IF FtpConnect(r) /\ FtpOpenPasv(r) /\ r.xfer \in {125, 150}
   THEN [ok |-> TRUE, local |-> x.local]
   ELSE Failed : r \in FtpReplies}

FtpListThread == Works("ftp", "list", FtpList, Reads)
FtpRetrThread == Works("ftp", "retr", FtpRetrieve, Reads)

FtpStartList(p) == <<"list", p>>
FtpApp == Launch("ftp", BrowserWindow, FtpStartList(<<>>))

FtpConnectButton == Got("ftp", "connect") /\ Handle(Loading(win), FtpStartList(<<>>))

\* Mutant of FtpListReady: a failure empties the list and leaves the text.
FtpListReadySilent ==
  /\ Got("ftp", "list")
  /\ Handle(IF ~arg.ok THEN Cleared(win)
            ELSE [Cleared(win) EXCEPT
                    !.path = arg.path,
                    !.entries = Rows(arg.path, Entry("..", TRUE), arg.rows),
                    !.status = "listed"],
            <<>>)
FtpListReady ==
  /\ Got("ftp", "list")
  /\ Handle(IF ~arg.ok THEN [Cleared(win) EXCEPT !.status = "error"]
            ELSE [Cleared(win) EXCEPT
                    !.path = arg.path,
                    !.entries = Rows(arg.path, Entry("..", TRUE), arg.rows),
                    !.status = "listed"],
            <<>>)

\* Mutant of FtpOpen: the window enters the directory before its listing is there.
FtpOpenAtOnce ==
  /\ Got("ftp", "open")
  /\ IF win.sel = 0 THEN Handle(win, <<>>)
     ELSE LET e == win.entries[win.sel]
              p == IF e.name = ".." THEN ParentOf(win.path) ELSE Append(win.path, e.name)
          IN IF e.isDir THEN Handle([Loading(win) EXCEPT !.path = p], FtpStartList(p))
             ELSE Handle([win EXCEPT !.pending = p, !.panel = e.name], <<>>)
FtpOpen ==
  /\ Got("ftp", "open")
  /\ IF win.sel = 0 THEN Handle(win, <<>>)
     ELSE LET e == win.entries[win.sel]
              p == Append(win.path, e.name)
          IN IF e.isDir
             THEN Handle(Loading(win),
                         FtpStartList(IF e.name = ".." THEN ParentOf(win.path) ELSE p))
             ELSE Handle([win EXCEPT !.pending = p, !.panel = e.name], <<>>)

FtpSaveFile ==
  /\ Got("ftp", "save")
  /\ Handle(Loading(win), <<"retr", [remote |-> win.pending, local |-> arg]>>)

FtpDownDone == Got("ftp", "retr") /\ Handle(Downloaded(win, arg), <<>>)

FtpNext ==
  \/ FtpApp \/ FtpListThread \/ FtpRetrThread
  \/ Click("ftp", "connect") \/ PickRow("ftp") \/ SavePanel("ftp")
  \/ FtpConnectButton \/ FtpListReady \/ FtpOpen \/ FtpSaveFile \/ FtpDownDone

-----------------------------------------------------------------------------
(* WebDAV.  The rows carry the href the server gave them, and the reply is  *)
(* read until the connection ends: a cut body loses its last resources.     *)
DavReplies == [connected : BOOLEAN, status : {207, 200, 401}, blocks : 0..2]
DavHttpRequest(r) == IF r.connected THEN r.status ELSE 0
DavParseMultistatus(p, n) ==
  LET s == FirstOf(Tree[p], n)
  IN [i \in DOMAIN s |->
        [name |-> s[i].name, isDir |-> s[i].isDir, href |-> Append(p, s[i].name)]]
DavList(p) ==
  {IF DavHttpRequest(r) = 207
   THEN [ok |-> TRUE, path |-> p, rows |-> DavParseMultistatus(p, r.blocks)]
   ELSE Failed : r \in DavReplies}
DavDownload(x) ==
  {IF DavHttpRequest(r) = 200 THEN [ok |-> TRUE, local |-> x.local] ELSE Failed : r \in DavReplies}

DavListThread == Works("webdav", "list", DavList, Reads)
DavDownThread == Works("webdav", "down", DavDownload, Reads)

DavStartList(p) == <<"list", p>>
DavWindow == BrowserWindow
DavApp == Launch("webdav", DavWindow, DavStartList(<<>>))

DavConnectButton == Got("webdav", "connect") /\ Handle(Loading(win), DavStartList(<<>>))

DavListReady ==
  /\ Got("webdav", "list")
  /\ Handle(IF ~arg.ok THEN [Cleared(win) EXCEPT !.status = "error"]
            ELSE [Cleared(win) EXCEPT
                    !.path = arg.path,
                    !.entries = Rows(arg.path, [name |-> "..", isDir |-> TRUE,
                                                href |-> ParentOf(arg.path)], arg.rows),
                    !.status = "listed"],
            <<>>)

DavOpen ==
  /\ Got("webdav", "open")
  /\ IF win.sel = 0 THEN Handle(win, <<>>)
     ELSE LET r == win.entries[win.sel]
          IN IF r.isDir THEN Handle(Loading(win), DavStartList(r.href))
             ELSE Handle([win EXCEPT !.pending = r.href, !.panel = r.name], <<>>)

DavSaveFile ==
  /\ Got("webdav", "save")
  /\ Handle(Loading(win), <<"down", [remote |-> win.pending, local |-> arg]>>)

DavDownDone == Got("webdav", "down") /\ Handle(Downloaded(win, arg), <<>>)

DavNext ==
  \/ DavApp \/ DavListThread \/ DavDownThread
  \/ Click("webdav", "connect")
  \/ PickRow("webdav") \/ SavePanel("webdav")
  \/ DavConnectButton \/ DavListReady \/ DavOpen \/ DavSaveFile \/ DavDownDone

-----------------------------------------------------------------------------
(* NFS.  Two datagrams, to the portmapper and to mountd, each with a time   *)
(* limit; the reply is one datagram of at most 8 KiB, whose list of exports *)
(* ends where the bytes end.                                                *)
NfsReplies == [arrives : BOOLEAN, accepted : BOOLEAN, port : {0, 635}, fits : 0..2]
NfsUdpRpc(r) == r.arrives
NfsParseReplyHeader(r) == r.accepted
NfsMountPort(r) == IF NfsUdpRpc(r) /\ NfsParseReplyHeader(r) THEN r.port ELSE 0
NfsParseExportList(s, n) == FirstOf(s, n)
NfsListExports(x) ==
  {IF NfsMountPort(q) > 0 /\ NfsUdpRpc(r) /\ NfsParseReplyHeader(r)
   THEN [ok |-> TRUE, rows |-> NfsParseExportList(dev, r.fits)]
   ELSE Failed : q, r \in NfsReplies}

NfsProbeThread == Works("nfs", "exports", NfsListExports, Reads)

NfsStartProbe == <<"exports", "none">>
NfsWindow == [status |-> "loading", entries |-> <<>>, sel |-> 0, clip |-> "nothing"]
NfsApp == Launch("nfs", NfsWindow, NfsStartProbe)

NfsProbe == Got("nfs", "probe") /\ Handle(Loading(win), NfsStartProbe)

NfsExportsReady ==
  /\ Got("nfs", "exports")
  /\ Handle([Cleared(win) EXCEPT
               !.entries = IF arg.ok THEN arg.rows ELSE <<>>,
               !.status = IF arg.ok THEN "listed" ELSE "error"], <<>>)

NfsSelectedAddress == IF win.sel = 0 THEN "host" ELSE win.entries[win.sel]
NfsCopy ==
  /\ Got("nfs", "copy")
  /\ Handle([win EXCEPT !.clip = NfsSelectedAddress, !.status = "copied"], <<>>)

NfsPickRow ==                    \* a row is selected, or none, and "Copia indirizzo" is pressed
  /\ app = "nfs" /\ phase = "open"
  /\ \E i \in 0..Len(win.entries) : Send("nfs", Msg("copy", "none"), [win EXCEPT !.sel = i])

NfsNext ==
  \/ NfsApp \/ NfsProbeThread \/ DeviceChanges("nfs", Lists)
  \/ Click("nfs", "probe")
  \/ NfsPickRow
  \/ NfsProbe \/ NfsExportsReady \/ NfsCopy

-----------------------------------------------------------------------------
(* AFP.  The length is read first and then exactly that many bytes: an      *)
(* answer is whole or the probe fails; a block too short to hold the header *)
(* describes a server without a name.                                       *)
AfpReplies == [header : BOOLEAN, length : {0, 8, 64, 65536}, block : BOOLEAN]
AfpParseGetSrvrInfo(d, n) == IF n < 12 THEN <<>> ELSE d
AfpGetStatus(x) ==
  {IF r.header /\ r.length # 0 /\ r.length <= 65535 /\ r.block
   THEN [ok |-> TRUE, rows |-> AfpParseGetSrvrInfo(dev, r.length)]
   ELSE Failed : r \in AfpReplies}

AfpStatusThread == Works("afp", "status", AfpGetStatus, Reads)

AfpStartProbe == <<"status", "none">>
AfpWindow == [status |-> "loading", entries |-> <<>>, sel |-> 0]
AfpApp == Launch("afp", AfpWindow, AfpStartProbe)

AfpProbe == Got("afp", "probe") /\ Handle(Loading(win), AfpStartProbe)

AfpStatusReady ==
  /\ Got("afp", "status")
  /\ Handle(IF arg.ok THEN [win EXCEPT !.entries = arg.rows, !.status = "listed"]
            ELSE [win EXCEPT !.entries = <<>>, !.status = "error"], <<>>)

AfpNext ==
  \/ AfpApp \/ AfpStatusThread \/ DeviceChanges("afp", Lists)
  \/ Click("afp", "probe") \/ AfpProbe \/ AfpStatusReady

-----------------------------------------------------------------------------
(* DAAP.  Login, the first database and its items are three requests; the   *)
(* body is read until the connection ends, and a body that was cut has an   *)
(* outer element longer than itself, which the walk skips: the library      *)
(* then counts as empty.                                                    *)
DaapReplies == [connected : BOOLEAN, status : {200, 403}, whole : BOOLEAN]
DaapHttpGet(r) == IF r.connected THEN r.status ELSE 0
DaapLogin(r) == DaapHttpGet(r) = 200 /\ r.whole            \* an id was found
DaapFirstDatabaseId(r) == DaapHttpGet(r) = 200 /\ r.whole
DaapParseTracks(d, whole) == IF whole THEN d ELSE <<>>
DaapListTracks(x) ==
  {IF DaapLogin(l) /\ DaapFirstDatabaseId(f) /\ DaapHttpGet(r) = 200
   THEN [ok |-> TRUE, rows |-> DaapParseTracks(dev, r.whole)]
   ELSE Failed : l, f, r \in DaapReplies}

DaapLoadThread == Works("daap", "tracks", DaapListTracks, Reads)

DaapStartLoad == <<"tracks", "none">>
DaapWindow == [status |-> "loading", entries |-> <<>>, sel |-> 0]
DaapApp == Launch("daap", DaapWindow, DaapStartLoad)

DaapLoad == Got("daap", "load") /\ Handle(Loading(win), DaapStartLoad)

DaapTracksReady ==
  /\ Got("daap", "tracks")
  /\ Handle(IF arg.ok THEN [Cleared(win) EXCEPT !.entries = arg.rows, !.status = "listed"]
            ELSE [Cleared(win) EXCEPT !.status = "error"], <<>>)

DaapNext ==
  \/ DaapApp \/ DaapLoadThread \/ DeviceChanges("daap", Lists)
  \/ Click("daap", "load") \/ DaapLoad \/ DaapTracksReady

-----------------------------------------------------------------------------
ShareInit ==
  \/ \E a \in Apps \cap {"ftp", "webdav"} : AppInit(a, "tree")
  \/ \E a \in Apps \cap {"nfs", "afp", "daap"} : AppInit(a, <<"a">>)

ShareNext == FtpNext \/ DavNext \/ NfsNext \/ AfpNext \/ DaapNext
=============================================================================
