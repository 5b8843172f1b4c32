--------------------------- MODULE CameraWindows ---------------------------
(***************************************************************************)
(* The ESPHome add-on: the page of a node ("esphome"), the window that     *)
(* shows an ESP32 camera ("camera") and the view of it that lives on the   *)
(* Desktop ("camwidget").  A live picture comes from a reader thread that  *)
(* posts frame after frame; the looper stops it by closing its socket and  *)
(* then waits for the thread, and handles nothing meanwhile.  A snapshot   *)
(* is a job of its own.                                                    *)
(*                                                                         *)
(* dev is what the camera does with a stream: "serves", "refuses" (it has  *)
(* another viewer), or is "silent".                                        *)
(***************************************************************************)
EXTENDS DeviceApp

CONSTANT MaxShots                \* bound: snapshots at work when a timer asks for one more

ASSUME CameraAssumption == MaxShots \in Nat

Viewers == {"camera", "camwidget"}

LooksLikeCamera(txt) == "cam" \in txt        \* of the board, the name or the project
DecodeJpeg == {TRUE, FALSE}                  \* the Translation Kit can read it, or not

(* MjpegStream::Snapshot: whatever came before the connection ended is a    *)
(* picture if it begins with a good status and is not empty.                *)
Snapshot(x) ==
  {[ok |-> st = 200 /\ body > 0 /\ decoded]
     : st \in {0, 200, 404}, body \in 0..1, decoded \in DecodeJpeg}
CameraSnapReader == Works("camera", "snap", Snapshot, Reads)
WidgetSnapReader == Works("camwidget", "snap", Snapshot, Reads)
TakeSnapshot == <<"snap", "none">>

-----------------------------------------------------------------------------
(***************************************************************************)
(* The reader: TcpConnect, then the header of the answer, then one frame   *)
(* after another.  fd is the descriptor of the stream: the looper's Close  *)
(* finds it only once the connection stands.                               *)
(***************************************************************************)
Reading(a, where) == app = a /\ phase = "open" /\ win.reader = where
ReaderStep(w, ms) ==
  /\ win' = w
  /\ inbox' = inbox \o ms
  /\ UNCHANGED <<app, phase, jobs, dev, lost, clicks, changes, served>>
Ends ==                          \* an error is told only while the stream is wanted
  ReaderStep([win EXCEPT !.reader = "ended"], IF win.running THEN <<Msg("camerr", "none")>> ELSE <<>>)

TcpConnect(a) ==
  /\ Reading(a, "connecting")
  /\ Ends \/ ReaderStep([win EXCEPT !.reader = "opening", !.fd = TRUE], <<>>)

Open(a) ==
  /\ Reading(a, "opening")
  /\ \/ /\ ~win.fd \/ dev # "silent"              \* closed, refused, or no MJPEG stream
        /\ Ends
     \/ /\ win.fd /\ dev = "serves"
        /\ ReaderStep([win EXCEPT !.reader = IF win.running THEN "reading" ELSE "ended"], <<>>)

FrameWaits == \E i \in DOMAIN inbox : inbox[i].what = "frame"   \* a queue of frames is cut to one
NextFrame(a) ==
  /\ Reading(a, "reading")
  /\ \/ /\ ~win.fd \/ dev # "silent"              \* closed by either side, or not a frame
        /\ Ends
     \/ /\ win.fd /\ dev = "serves"
        /\ \E decoded \in DecodeJpeg :
             ReaderStep([win EXCEPT !.reader = IF win.running THEN @ ELSE "ended"],
                        IF decoded /\ ~FrameWaits THEN <<Msg("frame", "live")>> ELSE <<>>)

(***************************************************************************)
(* Start and Stop.  Stop clears the flag, closes the descriptor and waits  *)
(* for the thread; `then' is what the handler does after it.  A buffer     *)
(* that is cleared while the reader appends to it may end the program.     *)
(***************************************************************************)
Stream(w) == [w EXCEPT !.running = Started, !.reader = IF Started THEN "connecting" ELSE "none",
                       !.fd = FALSE]
Idle == win.then = "none"
CamGot(a, what) == Got(a, what) /\ Idle

Stop(w, what) ==
  /\ inbox' = Tail(inbox)
  /\ UNCHANGED <<app, dev, lost, clicks, changes, served>>
  /\ \/ /\ win' = [w EXCEPT !.running = FALSE, !.fd = FALSE, !.then = what]
        /\ UNCHANGED <<phase, jobs>>
     \/ /\ win.fd /\ win.reader \in {"opening", "reading"}
        /\ phase' = "quit" /\ win' = NoWindow /\ jobs' = <<>>
\* Mutant of Stopped: Stop does not wait for the reader.
StoppedAtOnce(a, what) == app = a /\ phase = "open" /\ win.then = what
Stopped(a, what) ==              \* the thread has ended, if there was one
  /\ app = a /\ phase = "open" /\ win.then = what
  /\ win.reader \in {"none", "ended"}
After(w, js, lives) ==
  /\ IF js = <<"stream">>
     THEN /\ jobs' = jobs
          /\ \/ UNCHANGED lost
             \/ ~lost /\ lost' = TRUE
     ELSE Spawn(js)
  /\ win' = w
  /\ phase' = IF lives THEN phase ELSE "quit"
  /\ inbox' = IF lives THEN inbox ELSE <<>>
  /\ UNCHANGED <<app, dev, clicks, changes, served>>
Halted == [win EXCEPT !.then = "none", !.fd = FALSE]
StopAuto(w) == [w EXCEPT !.runners = @ - w.owned, !.owned = 0, !.auto = FALSE]

-----------------------------------------------------------------------------
CameraWindow ==
  [status |-> "loading", reader |-> IF Started THEN "connecting" ELSE "none", fd |-> FALSE,
   running |-> Started, then |-> "none", snap |-> FALSE, auto |-> FALSE, runners |-> 0,
   owned |-> 0, shown |-> "none", jpeg |-> FALSE]
Opened(a, w, starts) ==          \* jobs is empty: the reader is no job
  /\ app = a /\ phase = "start"
  /\ phase' = "open"
  /\ IF starts THEN \/ UNCHANGED lost
                    \/ lost' = TRUE
     ELSE UNCHANGED lost
  /\ win' = w
  /\ UNCHANGED <<app, jobs, inbox, dev, clicks, changes, served>>
CameraApp == Opened("camera", CameraWindow, TRUE)

CameraFrame ==
  /\ CamGot("camera", "frame")
  /\ Handle([win EXCEPT !.shown = arg, !.status = "ready"], <<>>)
CameraSnap ==
  /\ CamGot("camera", "snap")
  /\ Handle(IF arg.ok THEN [win EXCEPT !.shown = "snap", !.jpeg = TRUE, !.status = "ready"]
            ELSE [win EXCEPT !.status = "error"], <<>>)
CameraCamError == CamGot("camera", "camerr") /\ Handle([win EXCEPT !.status = "error"], <<>>)

CameraReconnect == CamGot("camera", "reconnect") /\ Stop(StopAuto(win), "reconnect")
CameraReconnected ==
  /\ Stopped("camera", "reconnect")
  /\ After(Stream([Halted EXCEPT !.snap = FALSE, !.status = "loading"]), <<"stream">>, TRUE)

CameraSnapshot == CamGot("camera", "snapshot") /\ Stop(win, "snapshot")
CameraSnapshotTaken ==           \* the single connection is free now
  Stopped("camera", "snapshot") /\ After([Halted EXCEPT !.snap = TRUE], TakeSnapshot, TRUE)

(* The box is read when the message is handled.  A timer that is already    *)
(* there is not deleted.                                                    *)
CameraToggleAuto ==
  /\ CamGot("camera", "toggle")
  /\ IF win.auto THEN Stop(win, "auto") ELSE Handle(StopAuto(win), <<>>)
CameraAutoStarted ==
  /\ Stopped("camera", "auto")
  /\ After([Halted EXCEPT !.snap = TRUE, !.runners = @ + 1, !.owned = 1, !.status = "loading"],
           TakeSnapshot, TRUE)

(* Only a snapshot carries the bytes that can be saved. *)
CameraSaveFrame ==
  /\ CamGot("camera", "save")
  /\ \E written \in BOOLEAN :
       Handle([win EXCEPT !.status = IF win.jpeg /\ written THEN "saved" ELSE "failed"], <<>>)
CameraDesktopWidget == CamGot("camera", "widget") /\ Handle(win, <<>>)    \* a window of its own
CameraOpenWeb == CamGot("camera", "web") /\ Handle(win, <<>>)

CameraQuit == CamGot("camera", "quit") /\ Stop(StopAuto(win), "quit")
CameraClosed == Stopped("camera", "quit") /\ After(NoWindow, <<>>, FALSE)

CameraButtons ==
  /\ app = "camera" /\ phase = "open"
  /\ \/ \E b \in {"reconnect", "snapshot", "save", "widget", "web", "quit"} : Click("camera", b)
     \/ Send("camera", Msg("toggle", "none"), [win EXCEPT !.auto = ~@])
CameraTimer ==
  /\ app = "camera" /\ phase = "open" /\ win.runners > 0
  /\ Cardinality(DOMAIN jobs) < MaxShots
  /\ Timer("camera", "snapshot")

-----------------------------------------------------------------------------
(* The widget begins with snapshots; a click changes the mode. *)
StartMode(w) ==
  IF w.snap THEN After([w EXCEPT !.runners = 1], TakeSnapshot, TRUE)
  ELSE After(Stream(w), <<"stream">>, TRUE)
WidgetAttached ==
  /\ app = "camwidget" /\ phase = "start"
  /\ SpawnAll(<<TakeSnapshot>>)
  /\ win' = [CameraWindow EXCEPT !.snap = TRUE, !.runners = 1, !.reader = "none", !.running = FALSE]
  /\ phase' = "open"
  /\ UNCHANGED <<app, inbox, dev, clicks, changes, served>>
WidgetMouseDown ==
  /\ app = "camwidget"
  /\ \E snap \in BOOLEAN : Send("camwidget", Msg("mode", snap), win)
WidgetMode ==
  /\ CamGot("camwidget", "mode")
  /\ IF win.snap = arg THEN Handle(win, <<>>)
     ELSE Stop([win EXCEPT !.snap = arg, !.runners = 0], "mode")
WidgetStopAll == Stopped("camwidget", "mode") /\ StartMode(Halted)
WidgetTick == CamGot("camwidget", "tick") /\ Handle(win, TakeSnapshot)
WidgetTimer ==
  /\ app = "camwidget" /\ phase = "open" /\ win.runners > 0
  /\ Cardinality(DOMAIN jobs) < MaxShots
  /\ Timer("camwidget", "tick")
WidgetFrame ==                   \* an error leaves the last picture
  \/ CamGot("camwidget", "frame") /\ Handle([win EXCEPT !.shown = arg], <<>>)
  \/ CamGot("camwidget", "camerr") /\ Handle(win, <<>>)
  \/ /\ CamGot("camwidget", "snap")
     /\ Handle([win EXCEPT !.shown = IF arg.ok THEN "snap" ELSE @], <<>>)

(* The page of a node, which offers the video of one that looks like a      *)
(* camera; with the attributes of a ref a camera is opened as such at once. *)
EsphomeWindow ==
  [status |-> "shown", button |-> {"web"} \cup (IF LooksLikeCamera(dev) THEN {"video"} ELSE {})]
EsphomeApp == Launch("esphome", EsphomeWindow, <<>>)
EsphomeButtons == app = "esphome" /\ phase = "open" /\ \E b \in win.button : Click("esphome", b)
EsphomeOpen ==                   \* the browser, or a camera window
  \E b \in {"web", "video"} : Got("esphome", b) /\ Handle(win, <<>>)

CameraInit ==
  \/ \E a \in Apps \cap Viewers : AppInit(a, "serves")
  \/ "esphome" \in Apps /\ \E txt \in {{}, {"cam"}} : AppInit("esphome", txt)

CameraNext ==
  \/ CameraApp \/ CameraButtons \/ CameraTimer \/ CameraSnapReader
  \/ CameraFrame \/ CameraSnap \/ CameraCamError \/ CameraReconnect \/ CameraReconnected
  \/ CameraSnapshot \/ CameraSnapshotTaken \/ CameraToggleAuto \/ CameraAutoStarted
  \/ CameraSaveFrame \/ CameraDesktopWidget \/ CameraOpenWeb \/ CameraQuit \/ CameraClosed
  \/ WidgetAttached \/ WidgetMouseDown \/ WidgetTimer \/ WidgetSnapReader
  \/ WidgetMode \/ WidgetStopAll \/ WidgetTick \/ WidgetFrame
  \/ \E a \in Viewers : TcpConnect(a) \/ Open(a) \/ NextFrame(a)
                        \/ DeviceChanges(a, {"serves", "refuses", "silent"})
  \/ EsphomeApp \/ EsphomeButtons \/ EsphomeOpen

-----------------------------------------------------------------------------
(* While the window is in snapshot mode its own reader does not hold the    *)
(* camera ("free the single connection for a snapshot", Stop before         *)
(* TakeSnapshot): the thread has been waited for, however slow its          *)
(* connection was.                                                          *)
SnapshotFindsCameraFree ==
  (app \in Viewers /\ phase = "open" /\ win.snap /\ Idle)
    => win.reader \in {"none", "ended"} /\ ~win.fd
=============================================================================
