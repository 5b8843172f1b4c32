----------------------------- MODULE SmbWindows -----------------------------
(***************************************************************************)
(* optional/smb: the window that asks for a login, checks it and mounts a  *)
(* share or a whole server ("smb"), with what it keeps about hosts and     *)
(* passwords and mounts again at login, and the file system add-on that    *)
(* the mount runs ("smbfs").                                               *)
(*                                                                         *)
(* A text is a sequence of characters.  There is one account on every      *)
(* server; its password is `dev.pw'.                                       *)
(***************************************************************************)
EXTENDS DeviceApp, SequencesExt

CONSTANTS Servers, Shares       \* names, as texts

ASSUME SmbAssumption == \A s \in Servers \cup Shares : s \in Seq(Range(s))

Passwords == {"p", "q"}
Empty == <<>>

(* SanitizeDiskName, for names of which only some characters are letters.   *)
Letters == {"a", "b", "s", "t", "2", "0", ".", "-"}
SanitizeDiskName(s) ==
  LET t == [i \in DOMAIN s |-> IF s[i] \in Letters THEN s[i] ELSE "-"]
      from == {i \in DOMAIN t : t[i] # "."}
  IN IF from = {} THEN <<>> ELSE SubSeq(t, CHOOSE i \in from : \A j \in from : i <= j, Len(t))

(* The mount parameters are one line that is cut at white space: what is    *)
(* white or a percent sign travels as a percent sign and two digits.        *)
White == " "
Percent == "%"
Hex == [c \in {White, Percent} |-> IF c = White THEN <<"2", "0">> ELSE <<"2", "5">>]
Code(c) == IF c \in DOMAIN Hex THEN <<Percent>> \o Hex[c] ELSE <<c>>
EncodeMountValue(v) == FoldLeft(LAMBDA out, c : out \o Code(c), <<>>, v)
Decoded(v, i) == {c \in DOMAIN Hex : v[i] = Percent /\ i + 2 <= Len(v) /\ SubSeq(v, i + 1, i + 2) = Hex[c]}
Skipped(v, i) == \E j \in {i - 1, i - 2} \cap DOMAIN v : Decoded(v, j) # {}
Take(v, out, i) ==              \* one turn of the loop over v
  IF Skipped(v, i) THEN out
  ELSE Append(out, IF Decoded(v, i) = {} THEN v[i] ELSE CHOOSE c \in Decoded(v, i) : TRUE)
PercentDecode(v) == FoldLeft(LAMBDA out, i : Take(v, out, i), <<>>, [i \in DOMAIN v |-> i])
Tokens(v) ==                    \* what is left of a value after the cut
  LET white == {i \in DOMAIN v : v[i] = White}
  IN IF white = {} THEN v ELSE SubSeq(v, 1, (CHOOSE i \in white : \A j \in white : i <= j) - 1)
BuildSmbMountParameters(c) ==
  [server |-> EncodeMountValue(c.server), share |-> EncodeMountValue(c.share)]
ParseSmbMount(p) ==
  [server |-> PercentDecode(Tokens(p.server)), share |-> PercentDecode(Tokens(p.share))]

(***************************************************************************)
(* What is kept: the settings files smb_hosts, smb_secrets, smb_recent and *)
(* the login hook, and the mounted volumes.                                *)
(***************************************************************************)
SmbWorld ==
  [pw |-> "p",                  \* the password of the account, on every server
   hosts |-> <<>>,              \* smb_hosts: [server, prefs], in the order of the file
   secrets |-> <<>>,            \* smb_secrets: server |-> password
   accepted |-> {},             \* history: <<server, password>> that a server let in
   hook |-> FALSE,              \* the login hook is installed
   mounts |-> <<>>]             \* mount point |-> [asked, config, readOnly]

LoadHost(server) ==             \* the first entry of the server, if any
  LET same == {i \in DOMAIN dev.hosts : dev.hosts[i].server = server}
  IN IF same = {} THEN <<>> ELSE <<dev.hosts[CHOOSE i \in same : \A j \in same : i <= j]>>
SaveHost(hosts, server, prefs) ==
  IF \E i \in DOMAIN hosts : hosts[i].server = server
  THEN [i \in DOMAIN hosts |-> IF hosts[i].server = server THEN [server |-> server, prefs |-> prefs]
                               ELSE hosts[i]]
  ELSE Append(hosts, [server |-> server, prefs |-> prefs])
WriteSecret(secrets, server, pw) ==             \* pw is <<>> to forget it
  LET kept == Restrict(secrets, DOMAIN secrets \ {server})
  IN IF pw = <<>> THEN kept ELSE With(kept, server, pw[1])
LoadPassword(server) == IF server \in DOMAIN dev.secrets THEN <<dev.secrets[server]>> ELSE <<>>

MountPoint(server, share, asDisk) ==
  LET name == SanitizeDiskName(IF share = Empty THEN server ELSE share)
  IN [disk |-> asDisk, name |-> IF name = <<>> THEN <<"smb">> ELSE name]
IsMountedPath(p) == p \in DOMAIN dev.mounts

(* fs_mount_volume: a point that is taken refuses, and anything may fail.   *)
Mounted(mounts, p, c, ro) ==
  {mounts} \cup (IF p \in DOMAIN mounts THEN {}
                 ELSE {With(mounts, p, [asked |-> [server |-> c.server, share |-> c.share],
                                         config |-> ParseSmbMount(BuildSmbMountParameters(c)),
                                         readOnly |-> ro])})

-----------------------------------------------------------------------------
(***************************************************************************)
(* ConnectWindow.  A host that is mounted gets a small panel, any other    *)
(* the form; with a remembered password the form connects by itself.       *)
(***************************************************************************)
ConnectForm(server, share0, host) ==
  LET p == IF host = <<>> THEN [share |-> Empty, asDisk |-> FALSE, readOnly |-> FALSE] ELSE host[1].prefs
      share == IF share0 # Empty THEN share0 ELSE p.share
      pw == LoadPassword(server)
  IN [status |-> "none", mode |-> IF server # Empty /\ IsMountedPath(MountPoint(server, share, p.asDisk))
                                  THEN "mounted" ELSE "form",
      busy |-> FALSE, server |-> server, share |-> share, pw |-> pw, asDisk |-> p.asDisk,
      readOnly |-> p.readOnly, remember |-> pw # <<>>, auto |-> dev.hook]
AutoConnect(w) == w.mode = "form" /\ w.pw # <<>> /\ w.server # Empty

SmbMountApp ==                  \* ReadyToRun from the arguments, RefsReceived from a shortcut
  /\ app = "smb" /\ phase = "start"
  /\ \E server \in Servers \cup {Empty}, share \in Shares :
       LET w == ConnectForm(server, share, LoadHost(server))
       IN /\ win' = w
          /\ inbox' = IF AutoConnect(w) THEN <<Msg("connect", "none")>> ELSE <<>>
  /\ phase' = "open"
  /\ UNCHANGED <<app, jobs, dev, lost, clicks, changes, served>>

ComputeMountPoint == MountPoint(win.server, win.share, win.asDisk)

Config == [server |-> win.server, share |-> win.share, pw |-> win.pw]
SmbDoConnect ==
  /\ Got("smb", "connect")
  /\ IF win.server = Empty THEN Handle([win EXCEPT !.status = "no server"], <<>>)
     ELSE /\ Spawn(<<"done", [step |-> "validate", config |-> Config, at |-> ComputeMountPoint,
                              readOnly |-> win.readOnly, asDisk |-> win.asDisk,
                              remember |-> win.remember \/ win.auto]>>)
          /\ win' = IF Started THEN [win EXCEPT !.status = "loading", !.busy = TRUE]
                    ELSE [win EXCEPT !.status = "error"]
          /\ inbox' = Tail(inbox)
          /\ UNCHANGED <<app, phase, dev, clicks, changes, served>>

SmbDoEnumShares ==              \* needs a login as well as a server
  /\ Got("smb", "enum")
  /\ IF win.server = Empty \/ win.pw = <<>> THEN Handle([win EXCEPT !.status = "no login"], <<>>)
     ELSE /\ Spawn(<<"shares", [config |-> Config]>>)
          /\ win' = IF Started THEN [win EXCEPT !.status = "loading", !.busy = TRUE]
                    ELSE [win EXCEPT !.status = "error"]
          /\ inbox' = Tail(inbox)
          /\ UNCHANGED <<app, phase, dev, clicks, changes, served>>

(* The shares of a server: only disks, and none of the hidden ones. *)
ShareEnumCb(s) == {x.name : x \in {y \in s : y.disk /\ ~y.hidden}}
Exported == {[name |-> n, disk |-> n # Empty, hidden |-> FALSE] : n \in Shares}
EnumShares(c) ==
  {Failed} \cup (IF c.pw = <<dev.pw>> THEN {[ok |-> TRUE, shares |-> ShareEnumCb(Exported)],
                                            [ok |-> TRUE, shares |-> {}]} ELSE {})
EnumThread == Works("smb", "shares", LAMBDA x : EnumShares(x.config), Reads)

ShowSharePicker(shares) ==      \* one share is taken, of several one is picked from a menu, or none
  IF shares = {} THEN {win.share}
  ELSE shares \cup (IF Cardinality(shares) = 1 THEN {} ELSE {win.share})
SmbSharesReady ==
  /\ Got("smb", "shares")
  /\ IF ~arg.ok THEN Handle([win EXCEPT !.busy = FALSE, !.status = "error"], <<>>)
     ELSE \E s \in ShowSharePicker(arg.shares) :
            Handle([win EXCEPT !.busy = FALSE, !.share = s, !.status = "chosen"], <<>>)

(***************************************************************************)
(* ConnectThread: the login is tried, then remembered, then the volume is  *)
(* mounted; the application may end between the steps.                     *)
(***************************************************************************)
Step(j, s) == /\ app = "smb" /\ phase = "open"
              /\ jobs[j].what = "done" /\ jobs[j].ans = NoAnswer /\ jobs[j].arg.step = s
ThreadEnds(j, r) == jobs' = [jobs EXCEPT ![j].ans = r]
Goes(j, s) == jobs' = [jobs EXCEPT ![j].arg.step = s]
ThreadStep == UNCHANGED <<app, phase, win, inbox, lost, clicks, changes, served>>

ConnectValidate ==
  /\ \E j \in DOMAIN jobs :
       /\ Step(j, "validate")
       /\ \/ ThreadEnds(j, Failed) /\ UNCHANGED dev       \* refused, no such share, or no shares at all
          \/ LET c == jobs[j].arg.config
             IN /\ c.pw = <<dev.pw>>
                /\ dev' = [dev EXCEPT !.accepted = @ \cup {<<c.server, c.pw[1]>>}]
                /\ Goes(j, "remember")
  /\ ThreadStep

ConnectRemember ==
  /\ \E j \in DOMAIN jobs :
       /\ Step(j, "remember")
       /\ LET x == jobs[j].arg
          IN dev' = [dev EXCEPT
                       !.secrets = WriteSecret(@, x.config.server,
                                               IF x.remember THEN x.config.pw ELSE <<>>),
                       !.hosts = SaveHost(@, x.config.server,
                                          [share |-> x.config.share, asDisk |-> x.asDisk,
                                           readOnly |-> x.readOnly])]
       /\ Goes(j, "mount")
  /\ ThreadStep

ConnectMount ==
  /\ \E j \in DOMAIN jobs :
       /\ Step(j, "mount")
       /\ LET x == jobs[j].arg
          IN \E m \in Mounted(dev.mounts, x.at, x.config, x.readOnly) :
               /\ dev' = [dev EXCEPT !.mounts = m]
               /\ ThreadEnds(j, [ok |-> m # dev.mounts])
  /\ ThreadStep

SmbConnectDone ==               \* with the volume mounted, the login box closes
  /\ Got("smb", "done")
  /\ IF ~arg.ok THEN Handle([win EXCEPT !.busy = FALSE, !.status = "error"], <<>>)
     ELSE /\ dev' = [dev EXCEPT !.hook = win.auto]
          /\ phase' = "quit"
          /\ win' = NoWindow /\ jobs' = <<>> /\ inbox' = <<>>
          /\ UNCHANGED <<app, lost, clicks, changes, served>>

SmbDoUnmount ==                 \* the alert may be cancelled, and the volume be in use
  /\ Got("smb", "unmount")
  /\ LET p == ComputeMountPoint
     IN \/ Handle(win, <<>>)
        \/ Handle([win EXCEPT !.status = "error"], <<>>)
        \/ /\ IsMountedPath(p)
           /\ HandleAnd([win EXCEPT !.status = "unmounted"], <<>>,
                        [dev EXCEPT !.mounts = Restrict(@, DOMAIN @ \ {p})])
SmbOpenVolume == Got("smb", "open") /\ Handle(win, <<>>)

(* The controls: Connect and Elenca are disabled while a thread works.      *)
SmbPress ==
  /\ app = "smb" /\ phase = "open"
  /\ \/ win.mode = "form" /\ ~win.busy /\ (Click("smb", "connect") \/ Click("smb", "enum"))
     \/ Click("smb", "unmount")
     \/ win.mode = "mounted" /\ Click("smb", "open")
Type(w) ==
  /\ clicks < MaxClicks[app]
  /\ clicks' = clicks + 1
  /\ win' = w
  /\ UNCHANGED <<app, phase, jobs, inbox, dev, lost, changes, served>>
SmbEdit ==
  /\ app = "smb" /\ phase = "open" /\ win.mode = "form"
  /\ \/ \E s \in Shares : Type([win EXCEPT !.share = s])
     \/ \E p \in Passwords : Type([win EXCEPT !.pw = <<p>>])
     \/ Type([win EXCEPT !.remember = ~@])
     \/ Type([win EXCEPT !.auto = ~@])
     \/ Type([win EXCEPT !.readOnly = ~@])
     \/ Type([win EXCEPT !.asDisk = ~@])

(* The next login: nothing is mounted, and the hook, if it is there, mounts *)
(* every host whose password is known, in the order of the file.            *)
AutoMountAll(mounts) ==
  FoldLeft(LAMBDA all, h :
             IF h.server \notin DOMAIN dev.secrets THEN all
             ELSE UNION {Mounted(m, MountPoint(h.server, h.prefs.share, h.prefs.asDisk),
                                 [server |-> h.server, share |-> h.prefs.share], h.prefs.readOnly)
                           : m \in all},
           {mounts}, dev.hosts)
SmbLogin ==
  /\ app = "smb" /\ phase = "quit"
  /\ changes < MaxChanges
  /\ changes' = changes + 1
  /\ phase' = "start"
  /\ \E m \in IF dev.hook THEN AutoMountAll(<<>>) ELSE {<<>>} : dev' = [dev EXCEPT !.mounts = m]
  /\ UNCHANGED <<app, win, jobs, inbox, lost, clicks, served>>
SmbRelaunch ==                  \* or just the window again
  /\ app = "smb" /\ phase = "quit"
  /\ changes < MaxChanges
  /\ changes' = changes + 1
  /\ phase' = "start"
  /\ \E p \in Passwords : dev' = [dev EXCEPT !.pw = p]
  /\ UNCHANGED <<app, win, jobs, inbox, lost, clicks, served>>

SmbNext ==
  \/ SmbMountApp \/ SmbPress \/ SmbEdit
  \/ SmbDoConnect \/ SmbDoEnumShares \/ SmbSharesReady \/ SmbConnectDone
  \/ SmbDoUnmount \/ SmbOpenVolume
  \/ EnumThread \/ ConnectValidate \/ ConnectRemember \/ ConnectMount
  \/ SmbLogin \/ SmbRelaunch

-----------------------------------------------------------------------------
(***************************************************************************)
(* "smbfs": the add-on of one mount.  SmbBackend is one share; without a   *)
(* share SmbServerBackend shows the server, connects to each share on its  *)
(* first use and keeps the connection.  Every call of the kernel is one    *)
(* step (CampielloFuse holds its mutex around it); a request may fail, and *)
(* after 15 seconds it does.  `dev' is the server: the open files of every *)
(* connection and the names that exist.                                    *)
(***************************************************************************)
Leaves == {"f", ".."}
Down == Shares \ {Empty}
FsWorld == [files |-> {<<s, "f">> : s \in Down}, open |-> [s \in Down |-> <<>>]]

Fs(one) == [status |-> "none", one |-> one, shares |-> IF one = Empty THEN ShareEnumCb(Exported) ELSE {},
            conns |-> IF one = Empty THEN {} ELSE {one},
            fHandles |-> <<>>, opened |-> <<>>, last |-> <<>>]

SmbfsMain ==                    \* the share or the list of shares is there, or the mount fails
  /\ app = "smbfs" /\ phase = "start"
  /\ \/ \E one \in Shares : win' = Fs(one) /\ phase' = "open"
     \/ UNCHANGED win /\ phase' = "quit"
  /\ UNCHANGED <<app, jobs, inbox, dev, lost, clicks, changes, served>>

Called ==
  /\ app = "smbfs" /\ phase = "open"
  /\ clicks < MaxClicks[app]
  /\ clicks' = clicks + 1
  /\ UNCHANGED <<app, phase, jobs, inbox, lost, changes, served>>
Says(w, status, value) == win' = [w EXCEPT !.status = status, !.last = value]
SaysOnly(w, status) == Says(w, status, <<>>) /\ UNCHANGED dev

(* A path is <<>>, <<share>> or <<share, leaf>> on a server-level mount,    *)
(* and <<>> or <<leaf>> on a mount of one share.                            *)
SplitServerPath(path) ==
  IF win.one # Empty THEN [share |-> win.one, rest |-> path]
  ELSE IF path = <<>> THEN [share |-> Empty, rest |-> <<>>]
  ELSE [share |-> path[1], rest |-> Tail(path)]
FsPaths ==
  IF win.one # Empty THEN {<<>>} \cup {<<l>> : l \in Leaves}
  ELSE {<<>>} \cup {<<s>> : s \in Down} \cup {<<s, l>> : s \in Down, l \in Leaves}
TopLevel(p) == win.one = Empty /\ p.rest = <<>>     \* the root or a share: answered here

(* ShareBackend: the connection to a share, kept or made now; when it       *)
(* cannot be made, whatever the reason, the answer is "access denied".      *)
SmbConnect(share) ==            \* the window with the connection, or <<>> without
  {<<[win EXCEPT !.conns = @ \cup {share}]>>, <<>>}
ShareBackend(share) == IF share \in win.conns THEN {<<win>>} ELSE SmbConnect(share)
OnShare(share, Use(_)) ==
  \E w \in ShareBackend(share) : IF w = <<>> THEN SaysOnly(win, "kAccessDenied") ELSE Use(w[1])

PathEscapes(rest) == \E i \in DOMAIN rest : rest[i] = ".."
FileOf(p) == <<p.share, IF p.rest = <<>> THEN "/" ELSE p.rest[1]>>

SmbStat(w, p) == \E s \in {"kOk", "kNotFound", "kIoError"} :
                   (s = "kOk" => FileOf(p) \in dev.files) /\ SaysOnly(w, s)
FsStat ==                       \* the root of a share is a directory without asking
  /\ Called
  /\ \E path \in FsPaths : LET p == SplitServerPath(path)
     IN IF p.rest = <<>> THEN SaysOnly(win, "kOk")
        ELSE OnShare(p.share, LAMBDA w : SmbStat(w, p))

SmbReadDir(w) == \E s \in {"kOk", "kNotFound"} : SaysOnly(w, s)
FsReadDir ==
  /\ Called
  /\ \E path \in FsPaths : LET p == SplitServerPath(path)
     IN IF p.share = Empty THEN Says(win, "kOk", <<win.shares>>) /\ UNCHANGED dev
        ELSE OnShare(p.share, SmbReadDir)

(* Open and OpenWrite: the file gets a number on its connection, and on a   *)
(* server-level mount another one that stands for connection and number.    *)
\* Mutant of NewHandle: the handle of the connection is given out as it is.
NewHandleLocal(w, p, names) ==
  LET h == Len(dev.open[p.share]) + 1
  IN /\ Says([w EXCEPT !.fHandles = With(@, h, [share |-> p.share, local |-> h]),
                       !.opened = Append(@, FileOf(p))], "kOk", <<>>)
     /\ dev' = [dev EXCEPT !.open[p.share] = Append(@, <<FileOf(p)>>), !.files = names]
NewHandle(w, p, names) ==
  LET h == Len(w.opened) + 1
      local == Len(dev.open[p.share]) + 1
  IN /\ Says([w EXCEPT !.fHandles = With(@, h, [share |-> p.share, local |-> local]),
                       !.opened = Append(@, FileOf(p))], "kOk", <<>>)
     /\ dev' = [dev EXCEPT !.open[p.share] = Append(@, <<FileOf(p)>>), !.files = names]
SmbOpen(w, p) == \/ FileOf(p) \in dev.files /\ NewHandle(w, p, dev.files)
                 \/ SaysOnly(w, "kNotFound")
SmbOpenWrite(w, p) ==           \* creates, never truncates
  IF PathEscapes(p.rest) THEN SaysOnly(w, "kInvalidRequest")
  ELSE \/ p.rest # <<>> /\ NewHandle(w, p, dev.files \cup {FileOf(p)})
       \/ SaysOnly(w, "kAccessDenied")
FsOpen ==
  /\ Called
  /\ \E path \in FsPaths : LET p == SplitServerPath(path)
     IN IF TopLevel(p) THEN SaysOnly(win, "kIsADirectory")
        ELSE OnShare(p.share, LAMBDA w : SmbOpen(w, p))
FsOpenWrite ==
  /\ Called
  /\ \E path \in FsPaths : LET p == SplitServerPath(path)
     IN IF TopLevel(p) THEN SaysOnly(win, "kIsADirectory")
        ELSE OnShare(p.share, LAMBDA w : SmbOpenWrite(w, p))

(* Read and Write go on until all is done, the file ends or one part fails; *)
(* `last' says which file it was.                                           *)
SmbTransfer(h) ==
  LET at == win.fHandles[h]
  IN \/ Says(win, "kOk", <<h, dev.open[at.share][at.local]>>) /\ UNCHANGED dev
     \/ SaysOnly(win, "kIoError")
SmbRead(h) == SmbTransfer(h)
SmbWrite(h) == SmbTransfer(h)
SmbClose(h) ==
  LET at == win.fHandles[h]
  IN /\ Says([win EXCEPT !.fHandles = Restrict(@, DOMAIN @ \ {h})], "kOk", <<>>)
     /\ dev' = [dev EXCEPT !.open[at.share][at.local] = <<>>]
FsOnHandle(Use(_)) ==
  /\ Called
  /\ \E h \in 1..MaxClicks["smbfs"] :
       IF h \in DOMAIN win.fHandles THEN Use(h) ELSE SaysOnly(win, "kBadHandle")
FsRead == FsOnHandle(SmbRead)
FsWrite == FsOnHandle(SmbWrite)
FsClose == FsOnHandle(SmbClose)

(* Mkdir, Unlink, Truncate and Rename. *)
SmbChange(w, escapes, names) ==
  IF escapes THEN SaysOnly(w, "kInvalidRequest")
  ELSE \/ SaysOnly(w, "kIoError")
       \/ Says(w, "kOk", <<>>) /\ dev' = [dev EXCEPT !.files = names]
SmbMkdir(w, p) == SmbChange(w, PathEscapes(p.rest), dev.files \cup {FileOf(p)})
SmbUnlink(w, p) == SmbChange(w, PathEscapes(p.rest), dev.files \ {FileOf(p)})
SmbTruncate(w, p) == SmbChange(w, PathEscapes(p.rest), dev.files)
SmbRename(w, p, q) == SmbChange(w, PathEscapes(p.rest) \/ PathEscapes(q.rest),
                                (dev.files \ {FileOf(p)}) \cup {FileOf(q)})
FsChange(refusal, Change(_, _)) ==
  /\ Called
  /\ \E path \in FsPaths : LET p == SplitServerPath(path)
     IN IF TopLevel(p) THEN SaysOnly(win, refusal)
        ELSE OnShare(p.share, LAMBDA w : Change(w, p))
FsMkdir == FsChange("kAccessDenied", SmbMkdir)
FsUnlink == FsChange("kAccessDenied", SmbUnlink)
FsTruncate == FsChange("kIsADirectory", SmbTruncate)
FsRename ==
  /\ Called
  /\ \E from, to \in FsPaths : LET p == SplitServerPath(from) q == SplitServerPath(to)
     IN IF TopLevel(p) \/ TopLevel(q) THEN SaysOnly(win, "kAccessDenied")
        ELSE IF p.share # q.share THEN SaysOnly(win, "kUnsupported")
        ELSE OnShare(p.share, LAMBDA w : SmbRename(w, p, q))

(* Disconnect, when the volume is unmounted, closes what is open on every   *)
(* connection.                                                              *)
FsDisconnect ==
  /\ app = "smbfs" /\ phase = "open"
  /\ phase' = "quit"
  /\ win' = NoWindow
  /\ dev' = [dev EXCEPT !.open = [s \in Down |-> IF s \in win.conns THEN <<>> ELSE @[s]]]
  /\ UNCHANGED <<app, jobs, inbox, lost, clicks, changes, served>>

SmbfsNext ==
  \/ SmbfsMain \/ FsStat \/ FsReadDir \/ FsOpen \/ FsOpenWrite \/ FsRead \/ FsWrite \/ FsClose
  \/ FsMkdir \/ FsUnlink \/ FsTruncate \/ FsRename \/ FsDisconnect

-----------------------------------------------------------------------------
SmbInit ==
  \/ "smb" \in Apps /\ AppInit("smb", SmbWorld)
  \/ "smbfs" \in Apps /\ AppInit("smbfs", FsWorld)
SmbWindowsNext == SmbNext \/ SmbfsNext
=============================================================================
