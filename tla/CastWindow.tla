----------------------------- MODULE CastWindow -----------------------------
(***************************************************************************)
(* Google Cast: a window that launches and stops applications of a TV,     *)
(* casts a URL, a local file served by a small HTTP server, a screenshot a *)
(* second (the "screen" thread, through the same server) or the screen as  *)
(* a stream (the "mirror" thread).                                         *)
(*                                                                         *)
(* The looper waits, in the middle of a handler, for the screen or the     *)
(* mirror thread and for the thread of the HTTP server; it is then at a    *)
(* handler whose message stays at the head of the queue.  A job keeps the  *)
(* thread's number: fScreenThread and fMirrorThread are win.thread[s], 0   *)
(* for -1.  Volumes are in tenths.                                         *)
(***************************************************************************)
EXTENDS DeviceApp

CONSTANT MaxPending   \* bound: threads and messages there are when the user clicks

ASSUME CastAssumption == MaxPending \in Nat

Sources == {"screen", "mirror"}
EndOf == [screen |-> "screenEnd", mirror |-> "mirrorEnd"]
Receiver == [screen |-> "media", mirror |-> "mirror"]
Toggle == [screen |-> "screenTgl", mirror |-> "mirrorTgl"]

(* The TV: the application that runs, the number of its session, the        *)
(* volume, and whether it speaks CASTv2 or only DIAL.                       *)
CastDevices ==
  {[running |-> a, session |-> 1, volume |-> v, v2 |-> c]
     : a \in {"none"}, v \in {0}, c \in BOOLEAN}
Runs(a) == [dev EXCEPT !.running = a, !.session = 3 - @]

(* InfoThread: the CASTv2 status when there is one, and always DIAL's word  *)
(* on which of its applications runs (none when it does not answer).        *)
GetStatus == IF dev.v2 THEN {[ok |-> TRUE, session |-> IF dev.running = "none" THEN <<>> ELSE <<dev.session>>,
                              volume |-> <<dev.volume>>]}
             ELSE {}
AppState == {"none"} \cup ({dev.running} \cap {"YouTube"})
CastInfo(x) == {[v2 |-> st, running |-> d] : st \in GetStatus \cup {Failed}, d \in AppState}

(* ActionThread, CastThread and VolumeThread: one command each, over CASTv2 *)
(* or DIAL.  A session that has ended cannot be stopped.                    *)
StopApp(x) == IF dev.v2 /\ dev.running # "none" /\ x.session = <<dev.session>> THEN BOOLEAN ELSE {FALSE}
SetVolume == IF dev.v2 THEN BOOLEAN ELSE {FALSE}
CastUrl == IF dev.v2 THEN {Failed, [ok |-> FALSE, launched |-> TRUE], [ok |-> TRUE]} ELSE {Failed}
CastCommand(x) ==
  CASE x.do = "url" -> CastUrl
    [] x.do = "stop-v2" -> {[ok |-> ok] : ok \in StopApp(x)}
    [] x.do = "volume" -> {[ok |-> ok] : ok \in SetVolume}
    [] x.do \in {"launch", "stop"} -> {[ok |-> ok] : ok \in BOOLEAN}
CastCommandEffect(x, r) ==
  CASE "launched" \in DOMAIN r -> Runs("media")       \* the receiver ran, the LOAD was refused
    [] ~r.ok -> dev
    [] x.do = "launch" -> Runs(x.app)
    [] x.do = "url" -> Runs("media")
    [] x.do = "stop-v2" \/ (x.do = "stop" /\ dev.running = x.app) -> [dev EXCEPT !.running = "none"]
    [] x.do = "volume" -> [dev EXCEPT !.volume = x.level]
    [] OTHER -> dev

CastInfoThread == Works("cast", "info", CastInfo, Reads)
CastCommandThread == Works("cast", "done", CastCommand, CastCommandEffect)

-----------------------------------------------------------------------------
(* MediaServer: the listener and its thread.  `busy' says that the thread   *)
(* is in HandleClient and not in accept.                                    *)
NoServer == [mode |-> "off", port |-> 0, busy |-> FALSE]
Served(w, mode) == [w EXCEPT !.server = [mode |-> mode, port |-> @.port + 1, busy |-> FALSE]]
Unserved(w) == [w EXCEPT !.server.mode = "off"]       \* Stop, up to its join
ServerGone == win.server.mode = "off" /\ ~win.server.busy

AcceptLoop ==
  /\ app = "cast"
  /\ phase = "open"
  /\ win.server.mode # "off"
  /\ ~win.server.busy
  /\ win' = [win EXCEPT !.server.busy = TRUE]
  /\ UNCHANGED <<app, phase, jobs, inbox, dev, lost, clicks, changes, served>>
HandleClient ==
  /\ app = "cast"
  /\ phase = "open"
  /\ win.server.busy
  /\ win' = [win EXCEPT !.server.busy = FALSE]
  /\ UNCHANGED <<app, phase, jobs, inbox, dev, lost, clicks, changes, served>>

(* ParseRange and what HandleClient does with it.  A request asks for no    *)
(* range, for <<"from", s>>, <<"span", s, e>> or the last n bytes; an       *)
(* answer is its status, what it promises and what it sends.                *)
Requests(max) ==
  {<<"all">>} \cup {<<k, n>> : k \in {"from", "last"}, n \in 0..max}
  \cup {<<"span", s, e>> : s \in 0..max, e \in 0..max}
RangeStart(q, size) ==
  CASE q[1] \in {"from", "span"} -> q[2]
    [] q[1] = "last" -> IF q[2] >= size \/ q[2] = 0 THEN 0 ELSE size - q[2]
    [] OTHER -> 0
\* Mutant of RangeEnd: an end past the end of the file is taken as it is.
RangeEndUncut(q, size) == IF q[1] = "span" THEN q[3] ELSE size - 1
RangeEnd(q, size) == IF q[1] = "span" /\ q[3] < size THEN q[3] ELSE size - 1
ParseRange(q, size) ==
  q # <<"all">> /\ q # <<"last", 0>> /\ RangeStart(q, size) <= RangeEnd(q, size)
Respond(q, size) ==              \* bytes are numbered from 1
  IF size = 0 THEN [status |-> 200, promised |-> 0, body |-> <<>>]
  ELSE LET s == RangeStart(q, size)
           e == RangeEnd(q, size)
       IN [status   |-> IF ParseRange(q, size) THEN 206 ELSE 200,
           promised |-> IF ParseRange(q, size) THEN e - s + 1 ELSE size,
           body     |-> [i \in 1..(e + 1 - s) |-> s + i]]

-----------------------------------------------------------------------------
(* The screen and the mirror thread: a session with the TV, then pictures   *)
(* until the window says stop, then the message that ends it.               *)
CastThreadStep(s, from, step(_)) ==
  /\ app = "cast"
  /\ phase = "open"
  /\ \E j \in DOMAIN jobs :
       /\ jobs[j].what = EndOf[s]
       /\ jobs[j].ans = NoAnswer
       /\ jobs[j].arg.stage = from
       /\ step(j)
  /\ UNCHANGED <<app, phase, win, lost, clicks, changes, served>>

SessionFails(s) ==
  LET step(j) == /\ jobs' = [jobs EXCEPT ![j].ans = Failed]
                 /\ dev' \in {dev} \cup (IF dev.v2 THEN {Runs(Receiver[s])} ELSE {})
                 /\ UNCHANGED inbox
  IN CastThreadStep(s, "connect", step)
MediaReceiverLaunched ==
  LET step(j) == /\ dev.v2
                 /\ jobs' = [jobs EXCEPT ![j].arg.stage = "loop"]
                 /\ dev' = Runs(Receiver["screen"])
                 /\ UNCHANGED inbox
  IN CastThreadStep("screen", "connect", step)
MirrorSessionStart ==            \* and the audio, when the TV takes it
  LET step(j) == /\ dev.v2
                 /\ jobs' = [jobs EXCEPT ![j].arg.stage = "loop"]
                 /\ dev' = Runs(Receiver["mirror"])
                 /\ \E sound \in BOOLEAN : inbox' = Append(inbox, Msg("mirrorStat", sound))
  IN CastThreadStep("mirror", "connect", step)
(* The pictures change nothing that is modelled here. *)
LoopEnds(s) ==
  LET step(j) == /\ win.stop[s]
                 /\ jobs' = [jobs EXCEPT ![j].ans = [ok |-> TRUE]]
                 /\ UNCHANGED <<inbox, dev>>
  IN CastThreadStep(s, "loop", step)

-----------------------------------------------------------------------------
CastWindowOf ==
  [status |-> "loading", running |-> "none", session |-> <<>>, volume |-> <<>>,
   on |-> [s \in Sources |-> FALSE], stop |-> [s \in Sources |-> FALSE],
   thread |-> [s \in Sources |-> 0], server |-> NoServer]
CastApp == Launch("cast", CastWindowOf, <<"info", "none">>)

CastButton ==
  \/ \E m \in {"refresh", "stop", "pick", "screenTgl", "mirrorTgl", "volUp", "volDown"} : Click("cast", m)
  \/ Click("cast", "quit")
  \/ Send("cast", Msg("launch", "YouTube"), win)
  \/ \E text \in {"url", "none"} : Send("cast", Msg("castUrl", text), win)
  \/ \E f \in {"file", "none"} : Send("cast", Msg("filePicked", f), win)
CastButtons == Cardinality(DOMAIN jobs) + Len(inbox) <= MaxPending /\ CastButton

StartInfo == Got("cast", "refresh") /\ Handle(Loading(win), <<"info", "none">>)
CastInfoReady ==
  /\ Got("cast", "info")
  /\ LET w == [win EXCEPT !.running = arg.running, !.status = "ready"]
     IN Handle(IF arg.v2.ok THEN [w EXCEPT !.session = arg.v2.session, !.volume = arg.v2.volume]
               ELSE [w EXCEPT !.session = <<>>],
               <<>>)

RunAction(a, do) ==
  <<"done", [do |-> do, app |-> a, session |-> win.session, level |-> 0]>>
CastLaunch ==
  Got("cast", "launch") /\ Handle([Sending(win) EXCEPT !.running = arg], RunAction(arg, "launch"))
CastStop ==
  /\ Got("cast", "stop")
  /\ Handle(Sending(win),
            IF win.session # <<>> THEN RunAction("none", "stop-v2")
            ELSE RunAction(IF win.running = "none" THEN "YouTube" ELSE win.running, "stop"))
CastPickFile == Got("cast", "pick") /\ Handle(win, <<>>)

Level == LET v == win.volume[1] + 1 IN IF v > 10 THEN 10 ELSE v
LevelDown == LET v == win.volume[1] IN IF v = 0 THEN 0 ELSE v - 1
CastVolume ==
  \E up \in BOOLEAN :
    /\ Got("cast", IF up THEN "volUp" ELSE "volDown")
    /\ IF win.volume = <<>> THEN Handle([win EXCEPT !.status = "novolume"], <<>>)
       ELSE LET v == IF up THEN Level ELSE LevelDown
            IN Handle([Sending(win) EXCEPT !.volume = <<v>>],
                      <<"done", [RunAction("none", "volume")[2] EXCEPT !.level = v]>>)
CastActionDone ==
  /\ Got("cast", "done")
  /\ IF arg.ok THEN Handle(Loading(win), <<"info", "none">>)
     ELSE Handle([win EXCEPT !.status = "error"], <<>>)

-----------------------------------------------------------------------------
(* The message at the head stops source s before anything else it does.     *)
(* The mirror is stopped first.                                             *)
StopFirst(s, Casts) ==
  /\ app = "cast"
  /\ phase = "open"
  /\ inbox # <<>>
  /\ win.on[s]
  /\ LET what == Head(inbox).what
         other == CHOOSE o \in Sources : o # s
     IN \/ what = Toggle[s]
        \/ what = Toggle[other] /\ ~win.on[other]
        \/ what \in Casts /\ arg # "none" /\ (s = "screen" => ~win.on["mirror"])
\* Mutant of Stops: a picked file is served while the screen is.
StopsNotForFiles(s) == StopFirst(s, {"castUrl"})
Stops(s) == StopFirst(s, {"castUrl", "filePicked"})

In(w) ==                         \* a step inside a handler
  /\ win' = w
  /\ UNCHANGED <<app, phase, jobs, inbox, dev, lost, clicks, changes, served>>
Ended(s) == ~\E j \in DOMAIN jobs : j = win.thread[s] /\ jobs[j].what = EndOf[s]

AskStop(s) == Stops(s) /\ ~win.stop[s] /\ In([win EXCEPT !.stop[s] = TRUE])
Joined(s) ==                     \* wait_for_thread returns
  /\ Stops(s)
  /\ win.stop[s]
  /\ win.thread[s] # 0
  /\ Ended(s)
  /\ LET w == [win EXCEPT !.thread[s] = 0] IN In(IF s = "screen" THEN Unserved(w) ELSE w)
(* StopScreen and StopMirror return; a toggle is done with that. *)
SourceOff(s) ==
  /\ Stops(s)
  /\ win.stop[s]
  /\ win.thread[s] = 0
  /\ s = "screen" => ServerGone
  /\ win' = [win EXCEPT !.on[s] = FALSE, !.status = "stopped"]
  /\ inbox' = IF Head(inbox).what = Toggle[s] THEN Tail(inbox) ELSE inbox
  /\ UNCHANGED <<app, phase, jobs, dev, lost, clicks, changes, served>>

AllOff == \A s \in Sources : ~Stops(s)

(* Serve and ServeBuffer begin with Stop. *)
ServeStops ==
  /\ Got("cast", "screenTgl") \/ (Got("cast", "filePicked") /\ arg # "none")
  /\ AllOff
  /\ win.server.mode # "off"
  /\ In(Unserved(win))

(* The thread that a Start function asks for, or the failure to make it. *)
Running(w, s) == [w EXCEPT !.on[s] = TRUE, !.thread[s] = FreeNumber, !.status = "running"]
NotStarted(w) == [w EXCEPT !.status = "error"]
StartThread(s, up, down, port) ==
  /\ Spawn(<<EndOf[s], [stage |-> "connect", port |-> port]>>)
  /\ win' = IF Started THEN Running(up, s) ELSE NotStarted(down)
  /\ inbox' = Tail(inbox)
  /\ UNCHANGED <<app, phase, dev, clicks, changes, served>>

StartScreen ==
  /\ Got("cast", "screenTgl")
  /\ AllOff
  /\ ServerGone
  /\ \/ Handle(NotStarted(win), <<>>)                 \* no listener
     \/ LET w == [Served(win, "buffer") EXCEPT !.stop["screen"] = FALSE]
        IN StartThread("screen", w, Unserved(w), w.server.port)
StartMirror ==
  /\ Got("cast", "mirrorTgl")
  /\ AllOff
  /\ LET w == [win EXCEPT !.stop["mirror"] = FALSE] IN StartThread("mirror", w, w, 0)

CastCastUrl ==
  /\ Got("cast", "castUrl")
  /\ IF arg = "none" THEN Handle([win EXCEPT !.status = "nourl"], <<>>)
     ELSE AllOff /\ Handle(Sending(win), RunAction("none", "url"))
CastFilePicked ==
  /\ Got("cast", "filePicked")
  /\ \/ arg = "none" /\ Handle([win EXCEPT !.status = "nofile"], <<>>)
     \/ /\ arg # "none"
        /\ AllOff
        /\ ServerGone
        /\ \/ Handle(NotStarted(win), <<>>)           \* no file, no listener, no address
           \/ /\ Spawn(RunAction("none", "url"))
              /\ LET w == Served(Sending(win), "file") IN win' = IF Started THEN w ELSE Unserved(w)
              /\ inbox' = Tail(inbox)
              /\ UNCHANGED <<app, phase, dev, clicks, changes, served>>

MirrorStat ==
  /\ Got("cast", "mirrorStat")
  /\ Handle(IF win.on["mirror"] THEN [win EXCEPT !.status = "running"] ELSE win, <<>>)

(* The end message: wait for the thread the window knows of now, put the    *)
(* buttons back.                                                            *)
EndJoined(s) ==
  /\ Got("cast", EndOf[s])
  /\ win.thread[s] # 0
  /\ Ended(s)
  /\ LET w == [win EXCEPT !.thread[s] = 0] IN In(IF s = "screen" /\ win.on[s] THEN Unserved(w) ELSE w)
SourceEnd(s) ==
  /\ Got("cast", EndOf[s])
  /\ win.thread[s] = 0
  /\ s = "screen" /\ win.on[s] => ServerGone
  /\ Handle(IF win.on[s] THEN [win EXCEPT !.on[s] = FALSE, !.status = IF arg.ok THEN "stopped" ELSE "error"]
            ELSE win,
            <<>>)

(* QuitRequested and ~CastWindow: stop and wait for the screen, then for    *)
(* the mirror, then for the server; the other threads die with the program. *)
QuitStops(s) ==
  /\ Got("cast", "quit")
  /\ ~win.stop[s]
  /\ s = "mirror" => win.stop["screen"] /\ Ended("screen")
  /\ In([win EXCEPT !.stop[s] = TRUE])
ThreadsEnded == \A s \in Sources : win.stop[s] /\ Ended(s)
QuitUnserves ==
  Got("cast", "quit") /\ ThreadsEnded /\ win.server.mode # "off" /\ In(Unserved(win))
CastDestroyed ==
  Got("cast", "quit") /\ ThreadsEnded /\ ServerGone /\ CloseWindow

(* The application of the TV ends, by itself or at its remote control. *)
TvChanges == app = "cast" /\ dev.running # "none" /\ DeviceChanges("cast", {[dev EXCEPT !.running = "none"]})

CastInit == "cast" \in Apps /\ \E d \in CastDevices : AppInit("cast", d)
CastLooper ==
  \/ StartInfo \/ CastInfoReady \/ CastLaunch \/ CastStop \/ CastPickFile \/ CastVolume
  \/ CastActionDone \/ CastCastUrl \/ CastFilePicked \/ MirrorStat
  \/ \E s \in Sources : AskStop(s) \/ Joined(s) \/ SourceOff(s) \/ EndJoined(s) \/ SourceEnd(s)
  \/ ServeStops \/ StartScreen \/ StartMirror
  \/ (\E s \in Sources : QuitStops(s)) \/ QuitUnserves \/ CastDestroyed
CastNext ==
  \/ CastApp \/ CastButtons \/ CastLooper \/ CastInfoThread \/ CastCommandThread
  \/ AcceptLoop \/ HandleClient
  \/ \E s \in Sources : SessionFails(s) \/ LoopEnds(s)
  \/ MediaReceiverLaunched \/ MirrorSessionStart \/ TvChanges
=============================================================================
