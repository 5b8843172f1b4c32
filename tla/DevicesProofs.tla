--------------------------- MODULE DevicesProofs ---------------------------
(***************************************************************************)
(* Proofs for the device applications: for any set of applications, any    *)
(* number of clicks and any device.                                        *)
(***************************************************************************)
EXTENDS Devices, FiniteSetTheorems, SequenceTheorems, WellFoundedInduction, TLAPS

-----------------------------------------------------------------------------
\* No window is open when an application begins.
LEMMA InitStarts == Init => phase = "start"
  BY DEF Init, ShareInit, OfficeInit, HomeInit, ShellyInit, SpotifyInit, InfoInit, FireTvInit,
         CameraInit, SmbInit, CastInit, WonInit, AppInit

\* No step of any window changes the application or forgets an answer.
LEMMA AppStays == [Next]_vars => app' = app /\ served \subseteq served'
  <1>1. FtpNext => app' = app /\ served \subseteq served'
    BY DEF FtpNext, FtpApp, Launch, LaunchAnd, FtpListThread, Works, FtpRetrThread, Click, Send, PickRow,
           SavePanel, FtpConnectButton, Handle, HandleAnd, FtpListReady, FtpOpen, FtpSaveFile,
           FtpDownDone
  <1>2. DavNext => app' = app /\ served \subseteq served'
    BY DEF DavNext, DavApp, Launch, LaunchAnd, DavListThread, Works, DavDownThread, Click, Send, PickRow,
           SavePanel, DavConnectButton, Handle, HandleAnd, DavListReady, DavOpen, DavSaveFile,
           DavDownDone
  <1>3. NfsNext => app' = app /\ served \subseteq served'
    BY DEF NfsNext, NfsApp, Launch, LaunchAnd, NfsProbeThread, Works, DeviceChanges, Click, Send,
           NfsPickRow, NfsProbe, Handle, HandleAnd, NfsExportsReady, NfsCopy
  <1>4. AfpNext => app' = app /\ served \subseteq served'
    BY DEF AfpNext, AfpApp, Launch, LaunchAnd, AfpStatusThread, Works, DeviceChanges, Click, Send,
           AfpProbe, Handle, HandleAnd, AfpStatusReady
  <1>5. DaapNext => app' = app /\ served \subseteq served'
    BY DEF DaapNext, DaapApp, Launch, LaunchAnd, DaapLoadThread, Works, DeviceChanges, Click, Send,
           DaapLoad, Handle, HandleAnd, DaapTracksReady
  <1>6. IppNext => app' = app /\ served \subseteq served'
    BY DEF IppNext, IppApp, Launch, LaunchAnd, IppQueryThread, Works, IppPrintThread, DeviceChanges,
           Click, Send, IppChooseFile, IppQuery, Handle, HandleAnd, IppAttrsReady, IppPick,
           IppFileChosen, IppPrintDone
  <1>7. EsclNext => app' = app /\ served \subseteq served'
    BY DEF EsclNext, EsclApp, Launch, LaunchAnd, EsclQueryThread, Works, EsclScanThread, DeviceChanges,
           Click, Send, EsclMakeMenu, EsclSavePanel, EsclQuery, Handle, HandleAnd,
           EsclCapsReady, EsclPick, EsclSave, EsclScanDone
  <1>8. NutNext => app' = app /\ served \subseteq served'
    BY DEF NutNext, NutApp, Launch, LaunchAnd, NutInfoThread, Works, DeviceChanges, Click, Send,
           NutRefresh, Handle, HandleAnd, NutInfoReady
  <1>9. HueNext => app' = app /\ served \subseteq served'
    BY DEF HueNext, HueApp, Launch, LaunchAnd, HuePairThread, Works, HueListThread, HueSetThread,
           HueButtons, Click, Send, HuePairButton, Handle, HandleAnd, HuePairDone, HueRefresh,
           HueLightsReady, HueToggle, HueBright, HueCmdDone
  <1>10. DaikinNext => app' = app /\ served \subseteq served'
    BY DEF DaikinNext, DaikinApp, Launch, LaunchAnd, DaikinInfoThread, Works, DaikinSetThread,
           DaikinButtons, Click, Send, DaikinRefresh, Handle, HandleAnd, DaikinInfoReady,
           DaikinPower, DaikinApplySet, DaikinMode, DaikinFan, DaikinTemp, DaikinSetDone
  <1>11. ShellyNext => app' = app /\ served \subseteq served'
    BY DEF ShellyNext, ShellyApp, LaunchAnd, ShellyRefreshThread, Works, ShellySetThread, Timer,
           ShellyButtons, Click, Send, ShellyTick, StartRefresh, HandleAnd, UpdateFromReady,
           Handle, ShellyToggle, ShellyCmdDone, ShellyOpenWeb, ShellyHistory, DeviceChanges,
           OtherWindowReads, OtherWindowWrites, RecordOne, Trim, Instantiate, Launch,
           GraphRefreshThread, GraphPoll, GraphReady, GraphMouseDown
  <1>12. SpotifyNext => app' = app /\ served \subseteq served'
    BY DEF SpotifyNext, SpotifyApp, LaunchAnd, SpotifyControlThread, Works, SpotifyProbeThread,
           SpotifyButtons, Send, Click, SpotifyInfoReady, Handle, HandleAnd, SpotifyConnect,
           SpotifyDisconnect, SpotifyTransfer, SpotifyPlayPause, SpotifySkip,
           SpotifyControlDone
  <1>13. InfoNext => app' = app /\ served \subseteq served'
    BY DEF InfoNext, HomeKitApp, OpenInfo, Launch, LaunchAnd, MatterApp, AirplayApp, LutronApp, EeroApp,
           AlexaApp, VncApp, InfoButtons, Click, Send, Install, DeviceChanges, HomeKitOpenHue,
           Handle, HandleAnd, VncOpen, VncCopy
  <1>14. FireTvNext => app' = app /\ served \subseteq served'
    BY DEF FireTvNext, FireTvApp, Launch, LaunchAnd, FireTvSendThread, Works, FireTvButtons, Click, Send,
           FireTvPairShow, HandleAnd, FireTvPairOk, Handle, Dangling, FireTvMouseDown,
           FireTvKeyDown, FireTvCmdDone, FireTvOpenKeymap, FireTvKeymapChanged,
           FireTvKeymapClosed, KeymapReset, Edited, KeymapArm, KeymapKeyDown, KeymapClose
  <1>15. CameraNext => app' = app /\ served \subseteq served'
    BY DEF CameraNext, CameraApp, Opened, CameraButtons, Click, Send, CameraTimer, Timer,
           CameraSnapReader, Works, CameraFrame, Handle, HandleAnd, CameraSnap, CameraCamError,
           CameraReconnect, Stop, CameraReconnected, After, CameraSnapshot,
           CameraSnapshotTaken, CameraToggleAuto, CameraAutoStarted, CameraSaveFrame,
           CameraDesktopWidget, CameraOpenWeb, CameraQuit, CameraClosed, WidgetAttached,
           WidgetMouseDown, WidgetTimer, WidgetSnapReader, WidgetMode, WidgetStopAll,
           StartMode, WidgetTick, WidgetFrame, TcpConnect, Ends, ReaderStep, Open, NextFrame,
           DeviceChanges, EsphomeApp, Launch, LaunchAnd, EsphomeButtons, EsphomeOpen
  <1>16. SmbNext => app' = app /\ served \subseteq served'
    BY DEF SmbNext, SmbMountApp, SmbPress, Click, Send, SmbEdit, Type, SmbDoConnect, Handle, HandleAnd,
           SmbDoEnumShares, SmbSharesReady, SmbConnectDone, SmbDoUnmount, SmbOpenVolume,
           EnumThread, Works, ConnectValidate, ThreadStep, ConnectRemember, ConnectMount,
           SmbLogin, SmbRelaunch
  <1>17. SmbfsNext => app' = app /\ served \subseteq served'
    BY DEF SmbfsNext, SmbfsMain, FsStat, Called, FsReadDir, FsOpen, FsOpenWrite, FsRead, FsOnHandle,
           FsWrite, FsClose, FsMkdir, FsChange, FsUnlink, FsTruncate, FsRename, FsDisconnect
  <1>18. CastNext => app' = app /\ served \subseteq served'
    BY DEF CastNext, CastApp, Launch, LaunchAnd, CastButtons, CastButton, Click, Send, CastLooper,
           StartInfo, Handle, HandleAnd, CastInfoReady, CastLaunch, CastStop, CastPickFile,
           CastVolume, CastActionDone, CastCastUrl, CastFilePicked, MirrorStat, AskStop, In,
           Joined, SourceOff, EndJoined, SourceEnd, ServeStops, StartScreen, StartThread,
           StartMirror, QuitStops, QuitUnserves, CastDestroyed, CloseWindow, CastInfoThread,
           Works, CastCommandThread, AcceptLoop, HandleClient, SessionFails, CastThreadStep,
           LoopEnds, MediaReceiverLaunched, MirrorSessionStart, TvChanges, DeviceChanges
  <1>19. WonNext => app' = app /\ served \subseteq served'
    BY DEF WonNext, WonLaunch, RadarHears, WonEvent, SmbScan, FolderGains, FolderLoses, WonClick, Click,
           Send, WonTimer, Timer, StatusThread, Works, IntelThread, WonLooper, WonTick, Rest,
           StartStatusCheck, StartIntel, ApplyStatus, ApplyIntel, WonFilter, WonOnlyOnline,
           WonRefreshNow, WonSelect, OpenService, WakeSelected, SetAutostart, WonShows,
           AddManual, RemoveSelectedManual
  <1> QED
    BY <1>1, <1>2, <1>3, <1>4, <1>5, <1>6, <1>7, <1>8, <1>9, <1>10, <1>11, <1>12, <1>13, <1>14, <1>15,
       <1>16, <1>17, <1>18, <1>19
       DEF Next, PostAnswer, CloseWindow, vars, ShareNext, OfficeNext, HomeNext, SmbWindowsNext

-----------------------------------------------------------------------------
(***************************************************************************)
(* The camera.  The invariant says of the window of a camera that it is    *)
(* either waiting in Stop (then # "none"), or not in snapshot mode, or     *)
(* without a reader.                                                       *)
(***************************************************************************)
CamFields ==
  {"status", "reader", "fd", "running", "then", "snap", "auto", "runners", "owned", "shown", "jpeg"}
CameraInv ==
  (app \in Viewers /\ phase = "open") =>
    /\ DOMAIN win = CamFields
    /\ (win.snap /\ Idle) => win.reader \in {"none", "ended"} /\ win.fd = FALSE

\* Only the actions of the camera windows move a camera window.
LEMMA CameraSteps == ASSUME app \in Viewers, Next PROVE PostAnswer \/ CameraNext
  BY DEF Next, Viewers, InfoApps, Browsers

\* Every step of the two camera windows, their reader and their camera keeps it.
LEMMA CameraInvStep == CameraInv /\ [Next]_vars => CameraInv'
  <1> SUFFICES ASSUME CameraInv, [Next]_vars, app \in Viewers, phase' = "open"
               PROVE  /\ DOMAIN win' = CamFields
                      /\ (win.snap /\ Idle)' => win'.reader \in {"none", "ended"} /\ win'.fd = FALSE
    BY AppStays DEF CameraInv
  <1> USE DEF CameraInv, CamFields, Viewers, Idle
  <1>a. CASE UNCHANGED vars
    BY <1>a DEF vars
  <1>b. CASE PostAnswer
    BY <1>b DEF PostAnswer
  <1>1. CASE CameraApp
    BY <1>1 DEF CameraApp, Opened, CameraWindow
  <1>2. CASE CameraButtons
    BY <1>2 DEF CameraButtons, Click, Send
  <1>3. CASE CameraTimer
    BY <1>3 DEF CameraTimer, Timer
  <1>4. CASE CameraSnapReader
    BY <1>4 DEF CameraSnapReader, Works
  <1>5. CASE CameraFrame
    BY <1>5 DEF CameraFrame, CamGot, Handle, HandleAnd
  <1>6. CASE CameraSnap
    BY <1>6 DEF CameraSnap, CamGot, Handle, HandleAnd
  <1>7. CASE CameraCamError
    BY <1>7 DEF CameraCamError, CamGot, Handle, HandleAnd
  <1>8. CASE CameraReconnect
    BY <1>8 DEF CameraReconnect, CamGot, Stop, StopAuto
  <1>9. CASE CameraReconnected
    BY <1>9 DEF CameraReconnected, Stopped, After, Stream, Halted
  <1>10. CASE CameraSnapshot
    BY <1>10 DEF CameraSnapshot, CamGot, Stop
  <1>11. CASE CameraSnapshotTaken
    BY <1>11 DEF CameraSnapshotTaken, Stopped, After, Halted
  <1>12. CASE CameraToggleAuto
    BY <1>12 DEF CameraToggleAuto, CamGot, Stop, StopAuto, Handle, HandleAnd
  <1>13. CASE CameraAutoStarted
    BY <1>13 DEF CameraAutoStarted, Stopped, After, Halted
  <1>14. CASE CameraSaveFrame
    BY <1>14 DEF CameraSaveFrame, CamGot, Handle, HandleAnd
  <1>15. CASE CameraDesktopWidget
    BY <1>15 DEF CameraDesktopWidget, CamGot, Handle, HandleAnd
  <1>16. CASE CameraOpenWeb
    BY <1>16 DEF CameraOpenWeb, CamGot, Handle, HandleAnd
  <1>17. CASE CameraQuit
    BY <1>17 DEF CameraQuit, CamGot, Stop, StopAuto
  <1>18. CASE CameraClosed
    BY <1>18 DEF CameraClosed, Stopped, After
  <1>19. CASE WidgetAttached
    BY <1>19 DEF WidgetAttached, CameraWindow
  <1>20. CASE WidgetMouseDown
    BY <1>20 DEF WidgetMouseDown, Send
  <1>21. CASE WidgetTimer
    BY <1>21 DEF WidgetTimer, Timer
  <1>22. CASE WidgetSnapReader
    BY <1>22 DEF WidgetSnapReader, Works
  <1>23. CASE WidgetMode
    BY <1>23 DEF WidgetMode, CamGot, Handle, HandleAnd, Stop
  <1>24. CASE WidgetStopAll
    BY <1>24 DEF WidgetStopAll, Stopped, StartMode, After, Stream, Halted
  <1>25. CASE WidgetTick
    BY <1>25 DEF WidgetTick, CamGot, Handle, HandleAnd
  <1>26. CASE WidgetFrame
    BY <1>26 DEF WidgetFrame, CamGot, Handle, HandleAnd
  <1>27. ASSUME NEW a \in Viewers, TcpConnect(a)
        PROVE  /\ DOMAIN win' = CamFields
               /\ (win.snap /\ Idle)' => win'.reader \in {"none", "ended"} /\ win'.fd = FALSE
    BY <1>27 DEF TcpConnect, Reading, Ends, ReaderStep
  <1>28. ASSUME NEW a \in Viewers, Open(a)
        PROVE  /\ DOMAIN win' = CamFields
               /\ (win.snap /\ Idle)' => win'.reader \in {"none", "ended"} /\ win'.fd = FALSE
    BY <1>28 DEF Open, Reading, Ends, ReaderStep
  <1>29. ASSUME NEW a \in Viewers, NextFrame(a)
        PROVE  /\ DOMAIN win' = CamFields
               /\ (win.snap /\ Idle)' => win'.reader \in {"none", "ended"} /\ win'.fd = FALSE
    BY <1>29 DEF NextFrame, Reading, Ends, ReaderStep
  <1>30. ASSUME NEW a \in Viewers, DeviceChanges(a, {"serves", "refuses", "silent"})
        PROVE  /\ DOMAIN win' = CamFields
               /\ (win.snap /\ Idle)' => win'.reader \in {"none", "ended"} /\ win'.fd = FALSE
    BY <1>30 DEF DeviceChanges
  <1>31. CASE EsphomeApp \/ EsphomeButtons \/ EsphomeOpen
    BY <1>31 DEF EsphomeApp, Launch, LaunchAnd, EsphomeButtons, EsphomeOpen, Got
  <1> QED
    BY CameraSteps, <1>a, <1>b, <1>1, <1>2, <1>3, <1>4, <1>5, <1>6, <1>7, <1>8, <1>9, <1>10, <1>11, <1>12,
       <1>13, <1>14, <1>15, <1>16, <1>17, <1>18, <1>19, <1>20, <1>21, <1>22, <1>23, <1>24, <1>25, <1>26,
       <1>27, <1>28, <1>29, <1>30, <1>31
       DEF CameraNext

\* "free the single connection for a snapshot": whenever a camera window is in
\* snapshot mode and not inside Stop, its reader thread has ended and its
\* descriptor is closed, however slow the connection was.
THEOREM CameraIsFree == Spec => []SnapshotFindsCameraFree
  <1>1. Init => CameraInv
    BY InitStarts DEF CameraInv
  <1>2. CameraInv => SnapshotFindsCameraFree
    BY DEF CameraInv, SnapshotFindsCameraFree
  <1> QED
    BY <1>1, <1>2, CameraInvStep, PTL DEF Spec

-----------------------------------------------------------------------------
(***************************************************************************)
(* The cast window.  A screen or mirror thread runs only under the number  *)
(* the window keeps for it, the window keeps one only while that source is *)
(* on, and the sources are never on together; the buffer server with the   *)
(* port of the screen thread stays up while that thread lives.             *)
(***************************************************************************)
CastFields == {"status", "running", "session", "volume", "on", "stop", "thread", "server"}
JobsNumbered ==
  /\ IsFiniteSet(DOMAIN jobs)
  /\ DOMAIN jobs \subseteq Nat \ {0}
  /\ \A j \in DOMAIN jobs : DOMAIN jobs[j] = {"what", "arg", "ans"}
CastShape ==
  /\ DOMAIN win = CastFields
  /\ win.on \in [Sources -> BOOLEAN]
  /\ DOMAIN win.stop = Sources
  /\ DOMAIN win.thread = Sources
  /\ DOMAIN win.server = {"mode", "port", "busy"}
ThreadIsKnown ==
  \A j \in DOMAIN jobs, s \in Sources :
    jobs[j].what = EndOf[s] =>
      /\ j = win.thread[s]
      /\ win.on[s]
      /\ DOMAIN jobs[j].arg = {"stage", "port"}
OneSource ==
  /\ ~(win.on["screen"] /\ win.on["mirror"])
  /\ \A s \in Sources : win.thread[s] # 0 => win.on[s]
ScreenIsServed ==
  \A j \in DOMAIN jobs :
    jobs[j].what = "screenEnd" => win.server.mode = "buffer" /\ win.server.port = jobs[j].arg.port
CastInv ==
  (app = "cast" /\ phase = "open") =>
    JobsNumbered /\ CastShape /\ ThreadIsKnown /\ OneSource /\ ScreenIsServed

\* A number that is free: there are more numbers than jobs.
LEMMA FreeNumberIsFree ==
  ASSUME IsFiniteSet(DOMAIN jobs) PROVE FreeNumber \in Nat \ {0} /\ FreeNumber \notin DOMAIN jobs
  <1> DEFINE c == Cardinality(DOMAIN jobs)
  <1>1. c \in Nat
    BY FS_CardinalityType
  <1>2. ~(1..(c + 1) \subseteq DOMAIN jobs)
    <2>1. SUFFICES ASSUME 1..(c + 1) \subseteq DOMAIN jobs PROVE FALSE
      OBVIOUS
    <2>2. Cardinality(1..(c + 1)) <= c
      BY <2>1, FS_Subset
    <2>3. Cardinality(1..(c + 1)) = c + 1
      BY <1>1, FS_Interval
    <2> QED
      BY <1>1, <2>2, <2>3
  <1> QED
    BY <1>1, <1>2 DEF FreeNumber

\* A cast window is moved by the actions of the cast window only.
LEMMA CastSteps == ASSUME app = "cast", Next PROVE PostAnswer \/ CastNext
  BY DEF Next, Viewers, InfoApps, Browsers

\* Steps that leave the sources alone: their threads are the ones there were,
\* with the same port, and the window knows the same of them.
KeepsSenders ==
  /\ IsFiniteSet(DOMAIN jobs')
  /\ DOMAIN jobs' \subseteq Nat \ {0}
  /\ \A j \in DOMAIN jobs' : DOMAIN jobs'[j] = {"what", "arg", "ans"}
  /\ \A j \in DOMAIN jobs', s \in Sources :
       jobs'[j].what = EndOf[s] =>
         /\ j \in DOMAIN jobs
         /\ jobs[j].what = EndOf[s]
         /\ DOMAIN jobs'[j].arg = DOMAIN jobs[j].arg
         /\ jobs'[j].arg.port = jobs[j].arg.port
KeepsWindow ==
  /\ DOMAIN win' = CastFields
  /\ win'.on = win.on
  /\ DOMAIN win'.stop = Sources
  /\ win'.thread = win.thread
  /\ DOMAIN win'.server = {"mode", "port", "busy"}
  /\ win'.server.mode = win.server.mode
  /\ win'.server.port = win.server.port
CastOpen == JobsNumbered /\ CastShape /\ ThreadIsKnown /\ OneSource /\ ScreenIsServed

LEMMA KeptIsKept == ASSUME CastOpen, KeepsSenders, KeepsWindow PROVE CastOpen'
  BY DEF CastOpen, JobsNumbered, CastShape, ThreadIsKnown, OneSource, ScreenIsServed,
         KeepsSenders, KeepsWindow, Sources, EndOf

LEMMA SameJobs == ASSUME JobsNumbered, UNCHANGED jobs PROVE KeepsSenders
  BY DEF JobsNumbered, KeepsSenders

\* Any other thread is started, or its start fails.
LEMMA OtherThread ==
  ASSUME JobsNumbered, NEW what, NEW x, Spawn(<<what, x>>), what \notin {"screenEnd", "mirrorEnd"}
  PROVE  KeepsSenders
  <1>1. CASE UNCHANGED jobs
    BY <1>1, SameJobs
  <1>2. CASE jobs' = With(jobs, FreeNumber, NewJob(<<what, x>>))
    <2>1. DOMAIN jobs' = DOMAIN jobs \cup {FreeNumber}
      BY <1>2 DEF With
    <2>2. IsFiniteSet(DOMAIN jobs')
      BY <2>1, FS_AddElement DEF JobsNumbered
    <2>3. FreeNumber \in Nat \ {0} /\ FreeNumber \notin DOMAIN jobs
      BY FreeNumberIsFree DEF JobsNumbered
    <2>4. jobs'[FreeNumber] = [what |-> what, arg |-> x, ans |-> NoAnswer]
      BY <1>2, <2>1 DEF With, NewJob
    <2>5. \A j \in DOMAIN jobs : jobs'[j] = jobs[j]
      BY <1>2, <2>1, <2>3 DEF With
    <2> QED
      BY <2>1, <2>2, <2>3, <2>4, <2>5 DEF KeepsSenders, JobsNumbered, Sources, EndOf
  <1>3. <<what, x>> # <<>>
    OBVIOUS
  <1> QED
    BY <1>1, <1>2, <1>3 DEF Spawn

\* A thread takes a step, or ends.
LEMMA ThreadAnswers ==
  ASSUME JobsNumbered, NEW j \in DOMAIN jobs, NEW r, jobs' = [jobs EXCEPT ![j].ans = r]
  PROVE  KeepsSenders
  BY DEF JobsNumbered, KeepsSenders
LEMMA ThreadGoesOn ==
  ASSUME JobsNumbered, ThreadIsKnown, NEW j \in DOMAIN jobs, NEW s \in Sources, jobs[j].what = EndOf[s],
         jobs' = [jobs EXCEPT ![j].arg.stage = "loop"]
  PROVE  KeepsSenders
  BY DEF JobsNumbered, KeepsSenders, ThreadIsKnown
LEMMA ThreadIsGone ==
  ASSUME JobsNumbered, NEW j \in DOMAIN jobs, jobs' = Restrict(jobs, DOMAIN jobs \ {j})
  PROVE  KeepsSenders
  <1>1. DOMAIN jobs' = DOMAIN jobs \ {j}
    BY DEF Restrict
  <1>2. IsFiniteSet(DOMAIN jobs')
    BY <1>1, FS_RemoveElement DEF JobsNumbered
  <1> QED
    BY <1>1, <1>2 DEF Restrict, JobsNumbered, KeepsSenders

\* A handler that starts no source: Spawn of nothing, or of another thread.
LEMMA NoThread == ASSUME Spawn(<<>>) PROVE UNCHANGED jobs
  BY DEF Spawn

\* Handlers, threads and clicks that leave the sources alone.
LEMMA CastPlainSteps ==
  ASSUME app = "cast", phase = "open", CastOpen,
         \/ PostAnswer \/ CastButtons \/ CastInfoThread \/ CastCommandThread \/ AcceptLoop
         \/ HandleClient \/ MediaReceiverLaunched \/ MirrorSessionStart \/ TvChanges
         \/ (\E s \in Sources : SessionFails(s) \/ LoopEnds(s) \/ AskStop(s) \/ QuitStops(s))
         \/ StartInfo \/ CastInfoReady \/ CastLaunch \/ CastStop \/ CastPickFile \/ CastVolume
         \/ CastActionDone \/ CastCastUrl \/ MirrorStat
  PROVE  KeepsSenders /\ KeepsWindow
  <1> USE DEF CastOpen
  <1>w. ASSUME UNCHANGED win PROVE KeepsWindow
    BY <1>w DEF CastShape, KeepsWindow
  <1>1. CASE PostAnswer
    BY <1>1, <1>w, ThreadIsGone DEF PostAnswer
  <1>2. CASE CastButtons
    BY <1>2, <1>w, SameJobs DEF CastButtons, CastButton, Click, Send
  <1>3. CASE CastInfoThread
    BY <1>3, <1>w, ThreadAnswers DEF CastInfoThread, Works
  <1>4. CASE CastCommandThread
    BY <1>4, <1>w, ThreadAnswers DEF CastCommandThread, Works
  <1>5. CASE AcceptLoop
    BY <1>5, SameJobs DEF AcceptLoop, CastShape, CastFields, KeepsWindow
  <1>6. CASE HandleClient
    BY <1>6, SameJobs DEF HandleClient, CastShape, CastFields, KeepsWindow
  <1>7. CASE MediaReceiverLaunched
    BY <1>7, <1>w, ThreadGoesOn DEF MediaReceiverLaunched, CastThreadStep, Sources
  <1>8. CASE MirrorSessionStart
    BY <1>8, <1>w, ThreadGoesOn DEF MirrorSessionStart, CastThreadStep, Sources
  <1>9. CASE TvChanges
    BY <1>9, <1>w, SameJobs DEF TvChanges, DeviceChanges
  <1>10. ASSUME NEW s \in Sources, SessionFails(s) PROVE KeepsSenders /\ KeepsWindow
    BY <1>10, <1>w, ThreadAnswers DEF SessionFails, CastThreadStep
  <1>11. ASSUME NEW s \in Sources, LoopEnds(s) PROVE KeepsSenders /\ KeepsWindow
    BY <1>11, <1>w, ThreadAnswers DEF LoopEnds, CastThreadStep
  <1>12. ASSUME NEW s \in Sources, AskStop(s) \/ QuitStops(s) PROVE KeepsSenders /\ KeepsWindow
    BY <1>12, SameJobs DEF AskStop, QuitStops, In, CastShape, CastFields, KeepsWindow
  <1>13. CASE StartInfo
    <2>1. KeepsWindow
      BY <1>13 DEF StartInfo, Got, Handle, HandleAnd, Loading, CastShape, CastFields, KeepsWindow
    <2>2. KeepsSenders
      BY <1>13, SameJobs, NoThread, OtherThread DEF StartInfo, Got, Handle, HandleAnd, Loading
    <2> QED
      BY <2>1, <2>2
  <1>14. CASE CastInfoReady
    <2>1. KeepsWindow
      BY <1>14 DEF CastInfoReady, Got, Handle, HandleAnd, CastShape, CastFields, KeepsWindow
    <2>2. KeepsSenders
      BY <1>14, SameJobs, NoThread, OtherThread DEF CastInfoReady, Got, Handle, HandleAnd
    <2> QED
      BY <2>1, <2>2
  <1>15. CASE CastLaunch
    <2>1. KeepsWindow
      BY <1>15 DEF CastLaunch, Got, Handle, HandleAnd, Sending, RunAction, CastShape, CastFields, KeepsWindow
    <2>2. KeepsSenders
      BY <1>15, SameJobs, NoThread, OtherThread DEF CastLaunch, Got, Handle, HandleAnd, RunAction
    <2> QED
      BY <2>1, <2>2
  <1>16. CASE CastStop
    <2>1. KeepsWindow
      BY <1>16 DEF CastStop, Got, Handle, HandleAnd, Sending, RunAction, CastShape, CastFields, KeepsWindow
    <2>2. KeepsSenders
      BY <1>16, SameJobs, NoThread, OtherThread DEF CastStop, Got, Handle, HandleAnd, RunAction
    <2> QED
      BY <2>1, <2>2
  <1>17. CASE CastPickFile
    <2>1. KeepsWindow
      BY <1>17 DEF CastPickFile, Got, Handle, HandleAnd, CastShape, CastFields, KeepsWindow
    <2>2. KeepsSenders
      BY <1>17, SameJobs, NoThread, OtherThread DEF CastPickFile, Got, Handle, HandleAnd
    <2> QED
      BY <2>1, <2>2
  <1>18. CASE CastVolume
    <2>1. KeepsWindow
      BY <1>18 DEF CastVolume, Got, Handle, HandleAnd, Sending, RunAction, CastShape, CastFields, KeepsWindow
    <2>2. KeepsSenders
      BY <1>18, SameJobs, NoThread, OtherThread DEF CastVolume, Got, Handle, HandleAnd, RunAction
    <2> QED
      BY <2>1, <2>2
  <1>19. CASE CastActionDone
    <2>1. KeepsWindow
      BY <1>19 DEF CastActionDone, Got, Handle, HandleAnd, Loading, CastShape, CastFields, KeepsWindow
    <2>2. KeepsSenders
      BY <1>19, SameJobs, NoThread, OtherThread DEF CastActionDone, Got, Handle, HandleAnd, Loading
    <2> QED
      BY <2>1, <2>2
  <1>20. CASE CastCastUrl
    <2>1. KeepsWindow
      BY <1>20 DEF CastCastUrl, Got, Handle, HandleAnd, Sending, RunAction, CastShape, CastFields, KeepsWindow
    <2>2. KeepsSenders
      BY <1>20, SameJobs, NoThread, OtherThread DEF CastCastUrl, Got, Handle, HandleAnd, RunAction
    <2> QED
      BY <2>1, <2>2
  <1>21. CASE MirrorStat
    <2>1. KeepsWindow
      BY <1>21 DEF MirrorStat, Got, Handle, HandleAnd, CastShape, CastFields, KeepsWindow
    <2>2. KeepsSenders
      BY <1>21, SameJobs, NoThread, OtherThread DEF MirrorStat, Got, Handle, HandleAnd
    <2> QED
      BY <2>1, <2>2
  <1> QED
    BY <1>1, <1>2, <1>3, <1>4, <1>5, <1>6, <1>7, <1>8, <1>9, <1>10, <1>11, <1>12,
       <1>13, <1>14, <1>15, <1>16, <1>17, <1>18, <1>19, <1>20, <1>21

\* A source whose thread has ended has no thread at all: the window's number is
\* the only one its threads run under.
LEMMA EndedIsGone ==
  ASSUME CastOpen, NEW s \in Sources, Ended(s)
  PROVE  \A j \in DOMAIN jobs : jobs[j].what # EndOf[s]
  BY DEF CastOpen, ThreadIsKnown, Ended

\* A source that is off has no thread.
LEMMA OffIsGone ==
  ASSUME CastOpen, NEW s \in Sources, ~win.on[s]
  PROVE  win.thread[s] = 0 /\ \A j \in DOMAIN jobs : jobs[j].what # EndOf[s]
  BY DEF CastOpen, ThreadIsKnown, OneSource

\* A handler that goes on past its stops finds both sources off.
LEMMA AllOffIsOff ==
  ASSUME CastOpen, AllOff, app = "cast", phase = "open", inbox # <<>>,
         \/ Head(inbox).what \in {"screenTgl", "mirrorTgl"}
         \/ Head(inbox).what \in {"castUrl", "filePicked"} /\ arg # "none"
  PROVE  \A s \in Sources : win.on[s] = FALSE
  <1>1. (CHOOSE o \in Sources : o # "screen") = "mirror" /\ (CHOOSE o \in Sources : o # "mirror") = "screen"
    BY DEF Sources
  <1> QED
    BY <1>1 DEF AllOff, Stops, StopFirst, Sources, Toggle, CastOpen, CastShape

SourcesAsBefore(w) ==
  /\ DOMAIN w = CastFields
  /\ w.on = win.on
  /\ w.thread = win.thread
  /\ DOMAIN w.stop = Sources
  /\ DOMAIN w.server = {"mode", "port", "busy"}

\* A source starts, or its thread cannot be made.
LEMMA SourceStarts ==
  ASSUME CastOpen, \A s \in Sources : win.on[s] = FALSE,
         NEW s \in Sources, NEW port, NEW up, NEW down,
         StartThread(s, up, down, port),
         SourcesAsBefore(up), SourcesAsBefore(down),
         s = "screen" => up.server.mode = "buffer" /\ up.server.port = port
  PROVE  CastOpen'
  <1> USE DEF SourcesAsBefore
  <1>1. \A j \in DOMAIN jobs, t \in Sources : jobs[j].what # EndOf[t]
    BY OffIsGone
  <1>2. \A t \in Sources : win.thread[t] = 0
    BY OffIsGone
  <1>3. CASE UNCHANGED jobs /\ lost' # lost
    <2>1. win' = [down EXCEPT !.status = "error"]
      BY <1>3 DEF StartThread, Started, NotStarted
    <2> QED
      BY <1>1, <1>2, <1>3, <2>1
         DEF CastOpen, JobsNumbered, CastShape, ThreadIsKnown, OneSource, ScreenIsServed, CastFields, Sources, EndOf
  <1>4. CASE /\ jobs' = With(jobs, FreeNumber, NewJob(<<EndOf[s], [stage |-> "connect", port |-> port]>>))
             /\ UNCHANGED lost
    <2> DEFINE new == [what |-> EndOf[s], arg |-> [stage |-> "connect", port |-> port], ans |-> NoAnswer]
    <2>1. DOMAIN jobs' = DOMAIN jobs \cup {FreeNumber}
      BY <1>4 DEF With
    <2>2. IsFiniteSet(DOMAIN jobs')
      BY <2>1, FS_AddElement DEF CastOpen, JobsNumbered
    <2>3. FreeNumber \in Nat \ {0} /\ FreeNumber \notin DOMAIN jobs
      BY FreeNumberIsFree DEF CastOpen, JobsNumbered
    <2>4. jobs'[FreeNumber] = new
      BY <1>4, <2>1 DEF With, NewJob
    <2>5. \A j \in DOMAIN jobs : jobs'[j] = jobs[j]
      BY <1>4, <2>1, <2>3 DEF With
    <2>6. win' = [up EXCEPT !.on[s] = TRUE, !.thread[s] = FreeNumber, !.status = "running"]
      BY <1>4 DEF StartThread, Started, Running
    <2>7. /\ DOMAIN win' = CastFields
          /\ win'.on = [win.on EXCEPT ![s] = TRUE]
          /\ win'.thread = [win.thread EXCEPT ![s] = FreeNumber]
          /\ win'.stop = up.stop
          /\ win'.server = up.server
      BY <2>6 DEF CastFields
    <2>8. \A t \in Sources : t # s => EndOf[t] # EndOf[s]
      BY DEF Sources, EndOf
    <2>9. JobsNumbered'
      BY <2>1, <2>2, <2>3, <2>4, <2>5 DEF JobsNumbered, CastOpen
    <2>10. CastShape'
      BY <2>7 DEF CastShape, CastOpen
    <2>11. ThreadIsKnown'
      BY <1>1, <2>1, <2>4, <2>5, <2>7, <2>8 DEF ThreadIsKnown, CastShape, CastOpen
    <2>12. OneSource'
      BY <1>2, <2>7 DEF OneSource, CastShape, CastOpen, Sources
    <2>13. ScreenIsServed'
      BY <1>1, <2>1, <2>4, <2>5, <2>7 DEF ScreenIsServed, Sources, EndOf
    <2> QED
      BY <2>9, <2>10, <2>11, <2>12, <2>13 DEF CastOpen
  <1>5. <<EndOf[s], [stage |-> "connect", port |-> port]>> # <<>>
    OBVIOUS
  <1> QED
    BY <1>3, <1>4, <1>5 DEF StartThread, Spawn

\* The cast window opens with one thread, or none, which is no source.
LEMMA CastOpens == ASSUME CastApp, phase' = "open" PROVE CastOpen'
  <1> DEFINE js == <<"info", "none">>
  <1>1. win' = CastWindowOf /\ SpawnAll(<<js>>)
    BY DEF CastApp, Launch, LaunchAnd
  <1>2. \/ jobs' = [i \in {1} |-> NewJob(js)]
        \/ jobs' = [i \in {} |-> NewJob(js)]
    <2>1. DOMAIN <<js>> = {1} /\ <<js>>[1] = js
      OBVIOUS
    <2>2. {1} \ {1} = {}
      OBVIOUS
    <2> QED
      BY <1>1, <2>1, <2>2 DEF SpawnAll
  <1>3. NewJob(js) = [what |-> "info", arg |-> "none", ans |-> NoAnswer]
    BY DEF NewJob
  <1>4. DOMAIN jobs' \subseteq {1} /\ \A j \in DOMAIN jobs' : jobs'[j] = [what |-> "info", arg |-> "none", ans |-> NoAnswer]
    BY <1>2, <1>3
  <1>5. IsFiniteSet(DOMAIN jobs')
    BY <1>4, FS_Singleton, FS_Subset
  <1> QED
    BY <1>1, <1>4, <1>5
       DEF CastOpen, JobsNumbered, CastShape, ThreadIsKnown, OneSource, ScreenIsServed, CastFields,
           Sources, EndOf, CastWindowOf, NoServer

\* Every step of the cast window, its threads and its server keeps the invariant.
LEMMA CastInvStep == CastInv /\ [Next]_vars => CastInv'
  <1> SUFFICES ASSUME CastInv, [Next]_vars, app = "cast", phase' = "open" PROVE CastOpen'
    BY AppStays DEF CastInv, CastOpen
  <1>0. phase = "open" => CastOpen
    BY DEF CastInv, CastOpen
  <1>a. CASE UNCHANGED vars
    BY <1>0, <1>a, SameJobs, KeptIsKept
       DEF vars, CastOpen, CastShape, KeepsWindow
  <1>b. CASE CastApp
    BY <1>b, CastOpens
  <1>c. CASE \/ PostAnswer \/ CastButtons \/ CastInfoThread \/ CastCommandThread \/ AcceptLoop
             \/ HandleClient \/ MediaReceiverLaunched \/ MirrorSessionStart \/ TvChanges
             \/ (\E s \in Sources : SessionFails(s) \/ LoopEnds(s) \/ AskStop(s) \/ QuitStops(s))
             \/ StartInfo \/ CastInfoReady \/ CastLaunch \/ CastStop \/ CastPickFile \/ CastVolume
             \/ CastActionDone \/ CastCastUrl \/ MirrorStat
    <2>1. phase = "open"
      BY <1>c DEF PostAnswer, CastButtons, CastButton, Click, Send, CastInfoThread, CastCommandThread, Works,
           AcceptLoop, HandleClient, MediaReceiverLaunched, MirrorSessionStart, CastThreadStep, TvChanges,
           DeviceChanges, SessionFails, LoopEnds, AskStop, Stops, StopFirst, QuitStops, Got, StartInfo,
           CastInfoReady, CastLaunch, CastStop, CastPickFile, CastVolume, CastActionDone, CastCastUrl, MirrorStat
    <2> QED
      BY <1>0, <1>c, <2>1, CastPlainSteps, KeptIsKept
  <1> USE DEF Sources
  <1>1. ASSUME NEW s \in Sources, Joined(s) PROVE CastOpen'
    <2>1. CastOpen /\ \A j \in DOMAIN jobs : jobs[j].what # EndOf[s]
      BY <1>0, <1>1, EndedIsGone DEF Joined, Stops, StopFirst
    <2> QED
      BY <1>1, <2>1
         DEF Joined, In, Unserved, CastOpen, JobsNumbered, CastShape, ThreadIsKnown, OneSource, ScreenIsServed,
             CastFields, EndOf
  <1>2. ASSUME NEW s \in Sources, SourceOff(s) PROVE CastOpen'
    <2>1. CastOpen
      BY <1>0, <1>2 DEF SourceOff, Stops, StopFirst
    <2>2. \A j \in DOMAIN jobs : jobs[j].what # EndOf[s]
      BY <1>2, <2>1 DEF SourceOff, CastOpen, ThreadIsKnown, JobsNumbered
    <2> QED
      BY <1>2, <2>1, <2>2
         DEF SourceOff, CastOpen, JobsNumbered, CastShape, ThreadIsKnown, OneSource, ScreenIsServed,
             CastFields, EndOf
  <1>3. ASSUME NEW s \in Sources, EndJoined(s) PROVE CastOpen'
    <2>1. CastOpen /\ \A j \in DOMAIN jobs : jobs[j].what # EndOf[s]
      BY <1>0, <1>3, EndedIsGone DEF EndJoined, Got
    <2> QED
      BY <1>3, <2>1
         DEF EndJoined, In, Unserved, CastOpen, JobsNumbered, CastShape, ThreadIsKnown, OneSource, ScreenIsServed,
             CastFields, EndOf
  <1>4. ASSUME NEW s \in Sources, SourceEnd(s) PROVE CastOpen'
    <2>1. CastOpen /\ UNCHANGED jobs
      BY <1>0, <1>4, NoThread DEF SourceEnd, Got, Handle, HandleAnd
    <2>2. \A j \in DOMAIN jobs : jobs[j].what # EndOf[s]
      BY <1>4, <2>1 DEF SourceEnd, CastOpen, ThreadIsKnown, JobsNumbered
    <2> QED
      BY <1>4, <2>1, <2>2
         DEF SourceEnd, Handle, HandleAnd, CastOpen, JobsNumbered, CastShape, ThreadIsKnown, OneSource,
             ScreenIsServed, CastFields, EndOf
  <1>5. CASE ServeStops
    <2>1. CastOpen /\ \A s \in Sources : win.on[s] = FALSE
      BY <1>0, <1>5, AllOffIsOff DEF ServeStops, Got
    <2>2. \A j \in DOMAIN jobs, s \in Sources : jobs[j].what # EndOf[s]
      BY <2>1, OffIsGone
    <2> QED
      BY <1>5, <2>1, <2>2
         DEF ServeStops, In, Unserved, CastOpen, JobsNumbered, CastShape, ThreadIsKnown, OneSource,
             ScreenIsServed, CastFields, EndOf
  <1>6. CASE StartScreen
    <2>1. CastOpen /\ \A s \in Sources : win.on[s] = FALSE
      BY <1>0, <1>6, AllOffIsOff DEF StartScreen, Got
    <2>2. CASE Handle(NotStarted(win), <<>>)
      BY <2>1, <2>2, NoThread, SameJobs, KeptIsKept
         DEF Handle, HandleAnd, NotStarted, CastOpen, CastShape, CastFields, KeepsWindow
    <2>3. CASE ~Handle(NotStarted(win), <<>>)
      <3> DEFINE w == [Served(win, "buffer") EXCEPT !.stop["screen"] = FALSE]
      <3>1. StartThread("screen", w, Unserved(w), w.server.port)
        BY <1>6, <2>3 DEF StartScreen
      <3>2. SourcesAsBefore(w) /\ w.server.mode = "buffer"
        BY <2>1 DEF SourcesAsBefore, Served, CastOpen, CastShape, CastFields
      <3>3. SourcesAsBefore(Unserved(w))
        BY <3>2 DEF SourcesAsBefore, Unserved, CastFields
      <3> HIDE DEF w
      <3> QED
        BY <2>1, <3>1, <3>2, <3>3, SourceStarts
    <2> QED
      BY <2>2, <2>3
  <1>7. CASE StartMirror
    <2>1. CastOpen /\ \A s \in Sources : win.on[s] = FALSE
      BY <1>0, <1>7, AllOffIsOff DEF StartMirror, Got
    <2> DEFINE w == [win EXCEPT !.stop["mirror"] = FALSE]
    <2>2. StartThread("mirror", w, w, 0)
      BY <1>7 DEF StartMirror
    <2>3. SourcesAsBefore(w)
      BY <2>1 DEF SourcesAsBefore, CastOpen, CastShape, CastFields
    <2> HIDE DEF w
    <2> QED
      BY <2>1, <2>2, <2>3, SourceStarts
  <1>8. CASE CastFilePicked
    <2>1. CastOpen
      BY <1>0, <1>8 DEF CastFilePicked, Got
    <2>2. CASE \/ Handle([win EXCEPT !.status = "nofile"], <<>>)
               \/ Handle(NotStarted(win), <<>>)
      BY <2>1, <2>2, NoThread, SameJobs, KeptIsKept
         DEF Handle, HandleAnd, NotStarted, CastOpen, CastShape, CastFields, KeepsWindow
    <2>3. CASE /\ arg # "none" /\ AllOff /\ Spawn(RunAction("none", "url"))
               /\ LET w == Served(Sending(win), "file") IN win' = IF Started THEN w ELSE Unserved(w)
      <3>1. \A s \in Sources : win.on[s] = FALSE
        BY <1>8, <2>1, <2>3, AllOffIsOff DEF CastFilePicked, Got
      <3>2. \A j \in DOMAIN jobs, s \in Sources : jobs[j].what # EndOf[s]
        BY <2>1, <3>1, OffIsGone
      <3>3. KeepsSenders
        BY <2>1, <2>3, OtherThread DEF RunAction, CastOpen
      <3>4. /\ DOMAIN win' = CastFields /\ win'.on = win.on /\ win'.thread = win.thread
            /\ DOMAIN win'.stop = Sources
            /\ DOMAIN win'.server = {"mode", "port", "busy"}
        BY <2>1, <2>3 DEF Served, Unserved, Sending, CastOpen, CastShape, CastFields
      <3> QED
        BY <2>1, <3>1, <3>2, <3>3, <3>4
           DEF CastOpen, JobsNumbered, CastShape, ThreadIsKnown, OneSource, ScreenIsServed, KeepsSenders, EndOf
    <2> QED
      BY <1>8, <2>2, <2>3 DEF CastFilePicked
  <1>9. CASE QuitUnserves
    <2>1. CastOpen
      BY <1>0, <1>9 DEF QuitUnserves, Got
    <2>2. \A j \in DOMAIN jobs, s \in Sources : jobs[j].what # EndOf[s]
      BY <1>9, <2>1, EndedIsGone DEF QuitUnserves, ThreadsEnded
    <2> QED
      BY <1>9, <2>1, <2>2
         DEF QuitUnserves, In, Unserved, CastOpen, JobsNumbered, CastShape, ThreadIsKnown, OneSource,
             ScreenIsServed, CastFields, EndOf
  <1>10. CASE CastDestroyed
    BY <1>10 DEF CastDestroyed, CloseWindow
  <1> QED
    BY CastSteps, <1>a, <1>b, <1>c, <1>1, <1>2, <1>3, <1>4, <1>5, <1>6, <1>7, <1>8, <1>9, <1>10
       DEF CastNext, CastLooper

LEMMA AtMostOne == ASSUME NEW S, \A j, k \in S : j = k PROVE Cardinality(S) <= 1
  <1>1. CASE S = {}
    <2>1. Cardinality(S) = 0
      BY <1>1, FS_EmptySet
    <2> QED
      BY <2>1
  <1>2. CASE S # {}
    <2>1. PICK j : j \in S
      BY <1>2
    <2>2. S = {j}
      BY <2>1
    <2>3. Cardinality(S) = 1
      BY <2>2, FS_Singleton
    <2> QED
      BY <2>3
  <1> QED
    BY <1>1, <1>2

\* At most one of the screen and the mirror thread sends to the TV, and the
\* screen thread's server stays open under its port, whatever is toggled, cast or
\* picked while it runs and in whatever order the end messages come.
THEOREM OneSender == Spec => []OneSourceOnTheTv
  <1>1. Init => CastInv
    BY InitStarts DEF CastInv
  <1>2. CastInv => OneSourceOnTheTv
    <2> SUFFICES ASSUME CastInv, app = "cast", phase = "open"
                 PROVE  /\ Cardinality(UNION {Senders(s) : s \in Sources}) <= 1
                        /\ \A j \in Senders("screen") :
                             win.server.mode = "buffer" /\ win.server.port = jobs[j].arg.port
      BY DEF OneSourceOnTheTv
    <2> USE DEF CastInv, ThreadIsKnown, OneSource, ScreenIsServed
    <2> DEFINE all == UNION {Senders(s) : s \in Sources}
    <2>1. \A j, k \in all : j = k
      BY DEF Senders, Sources
    <2> HIDE DEF all
    <2>2. Cardinality(all) <= 1
      BY <2>1, AtMostOne
    <2>3. \A j \in Senders("screen") :
            win.server.mode = "buffer" /\ win.server.port = jobs[j].arg.port
      BY DEF Senders, EndOf
    <2> QED
      BY <2>2, <2>3 DEF all
  <1> QED
    BY <1>1, <1>2, CastInvStep, PTL DEF Spec

-----------------------------------------------------------------------------
(***************************************************************************)
(* The ranges of the cast window's HTTP server, for every length of the    *)
(* file and every request.                                                 *)
(***************************************************************************)
\* The bytes s + 1 to e + 1, in order.
IsSlice(b, s, e) ==
  /\ Len(b) = e - s + 1
  /\ {b[i] : i \in DOMAIN b} = (s + 1)..(e + 1)
  /\ \A i \in 2..Len(b) : b[i] = b[i - 1] + 1
LEMMA Bytes ==
  ASSUME NEW s \in Nat, NEW e \in Nat, s <= e, NEW b, b = [i \in 1..(e + 1 - s) |-> s + i]
  PROVE  IsSlice(b, s, e)
  <1> DEFINE n == e + 1 - s
  <1>1. n \in Nat /\ n = e - s + 1
    OBVIOUS
  <1>2. Len(b) = n
    BY <1>1
  <1>3. {b[i] : i \in DOMAIN b} = (s + 1)..(e + 1)
    <2>1. ASSUME NEW x \in (s + 1)..(e + 1) PROVE x \in {b[i] : i \in DOMAIN b}
      <3>1. x - s \in 1..n /\ s + (x - s) = x
        OBVIOUS
      <3>2. x - s \in DOMAIN b /\ b[x - s] = x
        BY <3>1
      <3> QED
        BY <3>2
    <2>2. ASSUME NEW i \in DOMAIN b PROVE b[i] \in (s + 1)..(e + 1)
      <3>1. i \in 1..n /\ b[i] = s + i
        OBVIOUS
      <3> QED
        BY <3>1
    <2> QED
      BY <2>1, <2>2
  <1>4. ASSUME NEW i \in 2..n PROVE b[i] = b[i - 1] + 1
    <2>1. i \in 1..n /\ i - 1 \in 1..n
      BY <1>1
    <2> QED
      BY <2>1
  <1> QED
    BY <1>1, <1>2, <1>3, <1>4 DEF IsSlice

\* What Respond sends when the range it computes has a beginning and an end.
LEMMA RangeSent ==
  ASSUME NEW size \in Nat \ {0}, NEW q, NEW s \in Nat, NEW e \in Nat, s <= e,
         RangeStart(q, size) = s, RangeEnd(q, size) = e,
         ParseRange(q, size) \/ (s = 0 /\ e = size - 1),
         Asked(q, size) = (s + 1)..(e + 1)
  PROVE  RangeIsServed(q, size)
  <1> DEFINE r == Respond(q, size)
  <1>0. PICK b : b = [i \in 1..(e + 1 - s) |-> s + i]
    OBVIOUS
  <1>1. r.body = b
    BY <1>0 DEF Respond
  <1>2. r.promised = e - s + 1
    BY DEF Respond
  <1>3. IsSlice(b, s, e)
    BY <1>0, Bytes
  <1> HIDE DEF r
  <1>4. /\ r.promised = Len(r.body)
        /\ {r.body[i] : i \in DOMAIN r.body} = Asked(q, size)
        /\ \A i \in 2..Len(r.body) : r.body[i] = r.body[i - 1] + 1
    BY <1>1, <1>2, <1>3 DEF IsSlice
  <1> QED
    BY <1>4 DEF RangeIsServed, r

\* A range that holds a byte of the file is answered with exactly its bytes, in
\* order, and announced with their number: for every file and every request that
\* ParseRange can read, however its ends lie around the end of the file.
THEOREM EveryRangeIsServed ==
  ASSUME NEW size \in Nat, NEW max \in Nat, NEW q \in Requests(max)
  PROVE  RangeIsServed(q, size)
  <1> SUFFICES ASSUME Asked(q, size) # {} PROVE RangeIsServed(q, size)
    BY DEF RangeIsServed
  <1>0. size \in Nat \ {0} /\ size - 1 \in Nat /\ (size - 1) + 1 = size
    <2>1. CASE size = 0
      <3>1. 1..0 = {}
        OBVIOUS
      <3> QED
        BY <2>1, <3>1 DEF Asked
    <2> QED
      BY <2>1
  <1>1. CASE q = <<"all">>
    <2>1. Asked(q, size) = (0 + 1)..((size - 1) + 1)
      BY <1>0, <1>1 DEF Asked
    <2>2. RangeStart(q, size) = 0 /\ RangeEnd(q, size) = size - 1
      BY <1>1 DEF RangeStart, RangeEnd
    <2> QED
      BY <1>0, <2>1, <2>2, RangeSent
  <1>2. ASSUME NEW n \in 0..max, q = <<"from", n>> PROVE RangeIsServed(q, size)
    <2>1. Asked(q, size) = {b \in 1..size : b > n}
      BY <1>2 DEF Asked
    <2>2. n <= size - 1
      BY <1>0, <2>1
    <2>3. Asked(q, size) = (n + 1)..((size - 1) + 1)
      BY <1>0, <2>1
    <2>4. RangeStart(q, size) = n /\ RangeEnd(q, size) = size - 1
      BY <1>2 DEF RangeStart, RangeEnd
    <2>5. ParseRange(q, size)
      BY <1>2, <2>2, <2>4 DEF ParseRange
    <2> QED
      BY <1>0, <2>2, <2>3, <2>4, <2>5, RangeSent
  <1>3. ASSUME NEW n \in 0..max, q = <<"last", n>> PROVE RangeIsServed(q, size)
    <2> DEFINE s == IF n >= size THEN 0 ELSE size - n
    <2>1. Asked(q, size) = {b \in 1..size : b > size - n}
      BY <1>3 DEF Asked
    <2>2. n # 0
      BY <1>0, <2>1
    <2>3. s \in Nat /\ s <= size - 1
      BY <1>0, <2>2
    <2>4. Asked(q, size) = (s + 1)..((size - 1) + 1)
      <3>1. CASE n >= size
        BY <1>0, <2>1, <3>1
      <3>2. CASE ~(n >= size)
        BY <1>0, <2>1, <3>2
      <3> QED
        BY <3>1, <3>2
    <2>5. RangeStart(q, size) = s /\ RangeEnd(q, size) = size - 1
      BY <1>3, <2>2 DEF RangeStart, RangeEnd
    <2> HIDE DEF s
    <2>6. ParseRange(q, size)
      BY <1>3, <2>2, <2>3, <2>5 DEF ParseRange
    <2> QED
      BY <1>0, <2>3, <2>4, <2>5, <2>6, RangeSent
  <1>4. ASSUME NEW f \in 0..max, NEW t \in 0..max, q = <<"span", f, t>> PROVE RangeIsServed(q, size)
    <2> DEFINE e == IF t < size THEN t ELSE size - 1
    <2>1. Asked(q, size) = {b \in 1..size : b > f /\ b <= t + 1}
      BY <1>4 DEF Asked
    <2>2. e \in Nat /\ f <= e
      BY <1>0, <2>1
    <2>3. Asked(q, size) = (f + 1)..(e + 1)
      <3>1. CASE t < size
        BY <1>0, <2>1, <3>1
      <3>2. CASE ~(t < size)
        BY <1>0, <2>1, <3>2
      <3> QED
        BY <3>1, <3>2
    <2>4. RangeStart(q, size) = f /\ RangeEnd(q, size) = e
      BY <1>4 DEF RangeStart, RangeEnd
    <2> HIDE DEF e
    <2>5. ParseRange(q, size)
      BY <1>4, <2>2, <2>4 DEF ParseRange
    <2> QED
      BY <1>0, <2>2, <2>3, <2>4, <2>5, RangeSent
  <1> QED
    BY <1>1, <1>2, <1>3, <1>4 DEF Requests

\* In particular the ranges that the run evaluates.
THEOREM RangesServed == Spec => []RangesAreServed
  <1>1. RangesAreServed
    BY EveryRangeIsServed DEF RangesAreServed
  <1> QED
    BY <1>1, PTL

-----------------------------------------------------------------------------
(***************************************************************************)
(* The folder of the neighbourhood browser.  Between two runs only the     *)
(* files that are not the browser's are known to be in order; a window     *)
(* with a radar puts the shortcuts in order before it takes a message.     *)
(***************************************************************************)
WonFields ==
  {"status", "radar", "services", "signature", "rows", "sel", "statusMap", "online", "detail",
   "box", "onlyOnline", "filter", "pinging", "intelBusy", "manual", "macs", "names", "ssdp", "last"}
WonWorld == {"radar", "found", "folder", "manual", "macs", "boot", "mine", "gone", "passes"}
OursIn(d) == {n \in DOMAIN d.folder : d.folder[n].by = "won"}
OthersKept(d) == DOMAIN d = WonWorld /\ d.mine \subseteq DOMAIN d.folder \ OursIn(d)
Mirrors(w, d) ==
  w.radar =>
    /\ OursIn(d) \subseteq Desired(w.services)
    /\ \A n \in OursIn(d) : d.folder[n].host = FirstNamed(w.services, n).host
    /\ Desired(w.services) \ d.gone \subseteq DOMAIN d.folder
FolderIsSound ==
  /\ OthersKept(dev)
  /\ phase = "open" => DOMAIN win = WonFields /\ Mirrors(win, dev)
FolderInv == app = "won" => FolderIsSound

\* What a handler's end leaves alone.
LEMMA BecomesKeeps ==
  ASSUME NEW w, DOMAIN w = WonFields, NEW want, NEW d, Becomes(w, want, d)
  PROVE  DOMAIN win' = WonFields /\ win'.services = w.services /\ win'.radar = w.radar /\ dev' = d
  BY DEF Becomes, WonFields

\* The rows are built from the services and change nothing else of weight.
LEMMA RebuildKeeps ==
  ASSUME NEW w, DOMAIN w = WonFields
  PROVE  /\ DOMAIN RebuildList(w) = WonFields /\ RebuildList(w).services = w.services
         /\ RebuildList(w).radar = w.radar
         /\ DOMAIN UpdateDetails(w) = WonFields /\ UpdateDetails(w).services = w.services
         /\ UpdateDetails(w).radar = w.radar
  BY DEF RebuildList, UpdateDetails, WonFields

\* A synchronised folder mirrors the services it was synchronised with, whatever
\* it held before, and loses nothing that is not the browser's.
LEMMA SyncMirrors ==
  ASSUME NEW w, NEW d, NEW services, OthersKept(d), w.radar
  PROVE  LET e == Synced(w, d, services)
         IN /\ OthersKept(e)
            /\ OursIn(e) \subseteq Desired(services)
            /\ \A n \in OursIn(e) : e.folder[n].host = FirstNamed(services, n).host
            /\ Desired(services) \subseteq DOMAIN e.folder
  <1> DEFINE e == Synced(w, d, services)
             f == SyncShareFolder(d.folder, services)
             held == {n \in DOMAIN d.folder : d.folder[n].by = "mount"}
  <1>1. e = [d EXCEPT !.folder = f,
                      !.mine = {n \in d.mine : n \notin Desired(services) \/ d.folder[n].by = "mount"},
                      !.gone = {}]
    BY DEF Synced, OthersKept, WonWorld
  <1>2. /\ DOMAIN e = WonWorld /\ e.folder = f
        /\ e.mine = {n \in d.mine : n \notin Desired(services) \/ d.folder[n].by = "mount"}
    BY <1>1 DEF OthersKept, WonWorld
  <1>3. DOMAIN f = {n \in DOMAIN d.folder : n \in Desired(services) \/ d.folder[n].by # "won"}
                     \cup Desired(services)
    BY DEF SyncShareFolder
  <1>4. \A n \in Desired(services) \ held :
          f[n].by = "won" /\ f[n].host = FirstNamed(services, n).host
    BY DEF SyncShareFolder, WriteServiceFile
  <1>5. \A n \in DOMAIN f \ (Desired(services) \ held) : f[n] = d.folder[n]
    BY DEF SyncShareFolder
  <1> HIDE DEF e, f
  <1>6. OursIn(e) = Desired(services) \ held
    BY <1>2, <1>3, <1>4, <1>5 DEF OursIn
  <1>7. OthersKept(e)
    BY <1>2, <1>3, <1>6 DEF OthersKept, OursIn
  <1> QED
    BY <1>2, <1>3, <1>4, <1>6, <1>7 DEF e

LEMMA RefreshMirrors ==
  ASSUME NEW w, NEW d, NEW also, DOMAIN w = WonFields, OthersKept(d),
         w.rows # <<>> => Mirrors(w, d), WonRefresh(w, also, d)
  PROVE  OthersKept(dev') /\ DOMAIN win' = WonFields /\ Mirrors(win', dev')
  <1> PICK hood : hood = Hood(w, d)
    OBVIOUS
  <1> PICK w0 : w0 = [w EXCEPT !.signature = Signature(hood), !.services = hood]
    OBVIOUS
  <1>0. DOMAIN w0 = WonFields /\ w0.services = hood /\ w0.radar = w.radar
    BY DEF WonFields
  <1>1. CASE w.rows # <<>> /\ Becomes(w, Wanted(w, also), d)
    BY <1>1, BecomesKeeps DEF Mirrors
  <1>2. CASE Becomes(RebuildList(w0), Wanted(RebuildList(w0), also \cup {1}), Synced(w, d, hood))
    <2>1. /\ DOMAIN RebuildList(w0) = WonFields /\ RebuildList(w0).services = hood
          /\ RebuildList(w0).radar = w.radar
      BY <1>0, RebuildKeeps
    <2>2. /\ DOMAIN win' = WonFields /\ win'.services = hood /\ win'.radar = w.radar
          /\ dev' = Synced(w, d, hood)
      BY <1>2, <2>1, BecomesKeeps
    <2>3. CASE w.radar
      BY <2>2, <2>3, SyncMirrors DEF Mirrors
    <2>4. CASE ~w.radar
      BY <2>2, <2>4 DEF Synced, Mirrors
    <2> QED
      BY <2>3, <2>4
  <1> QED
    BY <1>1, <1>2 DEF WonRefresh

LEMMA WonSteps == ASSUME app = "won", Next PROVE PostAnswer \/ CloseWindow \/ WonNext
  BY DEF Next, Viewers, InfoApps, Browsers

\* A step that moves neither the folder nor the list of services.
LEMMA SameFolder ==
  ASSUME OthersKept(dev), DOMAIN dev' = WonWorld, dev'.folder = dev.folder, dev'.mine = dev.mine,
         dev'.gone = dev.gone
  PROVE  /\ OthersKept(dev')
         /\ (/\ DOMAIN win = WonFields /\ Mirrors(win, dev)
             /\ DOMAIN win' = WonFields /\ win'.services = win.services /\ win'.radar = win.radar)
              => Mirrors(win', dev')
  BY DEF OthersKept, OursIn, Mirrors

\* The two ends of a handler: the folder is left alone, or it is synchronised.
LEMMA HandlerKeeps ==
  ASSUME FolderIsSound, phase = "open",
         NEW w, NEW want, NEW d, Becomes(w, want, d),
         DOMAIN w = WonFields, w.services = win.services, w.radar = win.radar,
         DOMAIN d = WonWorld, d.folder = dev.folder, d.mine = dev.mine, d.gone = dev.gone
  PROVE  FolderIsSound'
  <1>1. DOMAIN win' = WonFields /\ win'.services = w.services /\ win'.radar = w.radar /\ dev' = d
    BY BecomesKeeps
  <1> QED
    BY <1>1, SameFolder DEF FolderIsSound
LEMMA HandlerRefreshes ==
  ASSUME FolderIsSound, phase = "open",
         NEW w, NEW also, NEW d, WonRefresh(w, also, d),
         DOMAIN w = WonFields, w.services = win.services, w.radar = win.radar,
         DOMAIN d = WonWorld, d.folder = dev.folder, d.mine = dev.mine, d.gone = dev.gone
  PROVE  FolderIsSound'
  <1>1. OthersKept(d) /\ Mirrors(w, d)
    BY DEF FolderIsSound, OthersKept, OursIn, Mirrors
  <1> QED
    BY <1>1, RefreshMirrors DEF FolderIsSound

LEMMA FolderInvStep == FolderInv /\ [Next]_vars => FolderInv'
  <1> SUFFICES ASSUME FolderInv, [Next]_vars, app = "won"
               PROVE  FolderIsSound'
    BY AppStays DEF FolderInv, FolderIsSound
  <1>0. OthersKept(dev) /\ (phase = "open" => DOMAIN win = WonFields /\ Mirrors(win, dev))
    BY DEF FolderInv, FolderIsSound
  <1> USE DEF FolderIsSound
  <1>a. CASE UNCHANGED vars
    BY <1>0, <1>a, SameFolder DEF vars, OthersKept
  <1>b. CASE PostAnswer \/ CloseWindow
    BY <1>0, <1>b, SameFolder DEF PostAnswer, CloseWindow, OthersKept
  <1>1. CASE WonLaunch
    <2> PICK fresh : fresh = [dev EXCEPT !.radar = Silent, !.found = {}]
      OBVIOUS
    <2>1. OthersKept(fresh)
      BY <1>0 DEF OthersKept, OursIn, WonWorld
    <2>2. \A r \in BOOLEAN : /\ DOMAIN WonWindow(r) = WonFields /\ WonWindow(r).rows = <<>>
                             /\ WonWindow(r).radar = r
      BY DEF WonWindow, WonFields
    <2>3. CASE WonRefresh(WonWindow(TRUE), {2}, fresh)
      BY <2>1, <2>2, <2>3, RefreshMirrors
    <2>4. CASE Becomes(WonWindow(FALSE), {}, fresh)
      BY <2>1, <2>2, <2>4, BecomesKeeps DEF Mirrors
    <2> QED
      BY <1>1, <2>3, <2>4 DEF WonLaunch
  <1>2. CASE RadarHears \/ SmbScan
    <2>1. /\ DOMAIN dev' = WonWorld /\ dev'.folder = dev.folder /\ dev'.mine = dev.mine
          /\ dev'.gone = dev.gone
      BY <1>0, <1>2 DEF RadarHears, SmbScan, WonEvent, OthersKept, WonWorld
    <2> QED
      BY <1>0, <1>2, <2>1, SameFolder DEF RadarHears, SmbScan, WonEvent
  <1>3. CASE FolderGains
    <2> PICK n \in FolderNames \ DOMAIN dev.folder, by \in {"user", "mount"} :
          WonEvent([dev EXCEPT !.folder = With(dev.folder, n, [NoShortcut EXCEPT !.by = by]),
                               !.mine = dev.mine \cup {n}])
      BY <1>0, <1>3 DEF FolderGains
    <2> PICK x : x = [NoShortcut EXCEPT !.by = by]
      OBVIOUS
    <2>1. x.by = by
      BY DEF NoShortcut
    <2>2. /\ DOMAIN dev' = WonWorld /\ dev'.folder = With(dev.folder, n, x)
          /\ dev'.mine = dev.mine \cup {n} /\ dev'.gone = dev.gone
      BY <1>0 DEF WonEvent, OthersKept, WonWorld
    <2>3. DOMAIN dev'.folder = DOMAIN dev.folder \cup {n}
      BY <2>2 DEF With
    <2>4. dev'.folder[n] = x /\ \A m \in DOMAIN dev.folder : dev'.folder[m] = dev.folder[m]
      BY <2>2 DEF With
    <2>5. OursIn(dev') = OursIn(dev)
      BY <2>1, <2>3, <2>4 DEF OursIn
    <2> QED
      BY <1>0, <2>2, <2>3, <2>4, <2>5 DEF WonEvent, WonOpen, OthersKept, Mirrors, OursIn
  <1>4. CASE FolderLoses
    <2> PICK n \in DOMAIN dev.folder :
          WonEvent([dev EXCEPT !.folder = Restrict(dev.folder, DOMAIN dev.folder \ {n}),
                               !.mine = dev.mine \ {n}, !.gone = dev.gone \cup {n}])
      BY <1>0, <1>4 DEF FolderLoses
    <2>2. /\ DOMAIN dev' = WonWorld /\ dev'.folder = Restrict(dev.folder, DOMAIN dev.folder \ {n})
          /\ dev'.mine = dev.mine \ {n} /\ dev'.gone = dev.gone \cup {n}
      BY <1>0 DEF WonEvent, OthersKept, WonWorld
    <2>3. DOMAIN dev'.folder = DOMAIN dev.folder \ {n}
      BY <2>2 DEF Restrict
    <2>4. \A m \in DOMAIN dev'.folder : dev'.folder[m] = dev.folder[m]
      BY <2>2 DEF Restrict
    <2>5. OursIn(dev') = OursIn(dev) \ {n}
      BY <2>3, <2>4 DEF OursIn
    <2>6. UNCHANGED <<phase, win>> /\ phase = "open" /\ OursIn(dev) \subseteq DOMAIN dev.folder
      BY DEF WonEvent, WonOpen, OursIn
    <2>7. OthersKept(dev')
      BY <1>0, <2>2, <2>3, <2>5 DEF OthersKept
    <2>8. Mirrors(win, dev')
      BY <1>0, <2>2, <2>3, <2>4, <2>5, <2>6 DEF Mirrors
    <2> QED
      BY <1>0, <2>6, <2>7, <2>8
  <1>5. CASE WonClick \/ WonTimer
    <2>1. /\ UNCHANGED <<dev, phase>> /\ phase = "open"
          /\ DOMAIN win' = WonFields /\ win'.services = win.services /\ win'.radar = win.radar
      BY <1>0, <1>5 DEF WonClick, WonTimer, WonOpen, Click, Send, Timer, WonFields
    <2> QED
      BY <1>0, <2>1, SameFolder DEF OthersKept
  <1>6. CASE StatusThread \/ IntelThread
    <2>1. /\ UNCHANGED <<win, phase>> /\ phase = "open" /\ DOMAIN dev' = WonWorld
          /\ dev'.folder = dev.folder /\ dev'.mine = dev.mine /\ dev'.gone = dev.gone
      BY <1>0, <1>6 DEF StatusThread, IntelThread, Works, OnePassMore, OthersKept, WonWorld
    <2> QED
      BY <1>0, <2>1, SameFolder
  <1> HIDE DEF FolderIsSound
  <1>9. CASE WonLooper
    <2>0. phase = "open" /\ DOMAIN win = WonFields /\ DOMAIN dev = WonWorld
      BY <1>0, <1>9 DEF WonLooper, WonTick, StartStatusCheck, StartIntel, ApplyStatus, ApplyIntel,
         WonFilter, WonOnlyOnline, WonRefreshNow, WonSelect, OpenService, WakeSelected,
         SetAutostart, WonShows, AddManual, RemoveSelectedManual, WonHandles, Got, OthersKept
    <2>x. FolderIsSound
      BY <1>0 DEF FolderIsSound
    <2>1. CASE WonTick
      BY <2>0, <2>1, <2>x, HandlerRefreshes DEF WonTick
    <2>2. CASE StartStatusCheck
      BY <2>0, <2>2, <2>x, HandlerKeeps DEF StartStatusCheck
    <2>3. CASE StartIntel
      BY <2>0, <2>3, <2>x, HandlerKeeps DEF StartIntel
    <2>4. CASE ApplyStatus
      <3> PICK new, online : Becomes(UpdateDetails([win EXCEPT !.pinging = FALSE, !.statusMap = new,
                                                     !.online = online]), {}, dev)
        BY <2>4 DEF ApplyStatus
      <3> PICK w : w = [win EXCEPT !.pinging = FALSE, !.statusMap = new, !.online = online]
        OBVIOUS
      <3>1. DOMAIN w = WonFields /\ w.services = win.services /\ w.radar = win.radar
        BY <2>0 DEF WonFields
      <3>2. Becomes(UpdateDetails(w), {}, dev)
        OBVIOUS
      <3> QED
        BY <2>0, <3>1, <3>2, <2>x, HandlerKeeps, RebuildKeeps
    <2>5. CASE ApplyIntel
      <3> PICK w : w = [win EXCEPT !.intelBusy = FALSE, !.macs = @ \cup arg.macs,
                                   !.names = @ \cup arg.names, !.ssdp = arg.ssdp]
        OBVIOUS
      <3>1. DOMAIN w = WonFields /\ w.services = win.services /\ w.radar = win.radar
        BY <2>0 DEF WonFields
      <3> PICK saved : WonRefresh(w, {}, [dev EXCEPT !.macs = saved])
        BY <2>5 DEF ApplyIntel
      <3> PICK d : d = [dev EXCEPT !.macs = saved]
        OBVIOUS
      <3>2. DOMAIN d = WonWorld /\ d.folder = dev.folder /\ d.mine = dev.mine /\ d.gone = dev.gone
        BY <2>0 DEF WonWorld
      <3> QED
        BY <2>0, <3>1, <3>2, <2>x, HandlerRefreshes
    <2>6. CASE WonFilter
      BY <2>0, <2>6, <2>x, HandlerKeeps, RebuildKeeps DEF WonFilter
    <2>7. CASE WonOnlyOnline
      <3> PICK w : w = [win EXCEPT !.onlyOnline = win.box]
        OBVIOUS
      <3>1. DOMAIN w = WonFields /\ w.services = win.services /\ w.radar = win.radar
        BY <2>0 DEF WonFields
      <3>2. Becomes(RebuildList(w), {}, dev)
        BY <2>7 DEF WonOnlyOnline
      <3> QED
        BY <2>0, <3>1, <3>2, <2>x, HandlerKeeps, RebuildKeeps
    <2>8. CASE WonRefreshNow
      BY <2>0, <2>8, <2>x, HandlerKeeps, RebuildKeeps DEF WonRefreshNow
    <2>9. CASE WonSelect
      BY <2>0, <2>9, <2>x, HandlerKeeps, RebuildKeeps DEF WonSelect
    <2>10. CASE OpenService \/ WakeSelected
      <3> PICK what : Becomes([win EXCEPT !.last = what], {}, dev)
        BY <2>10 DEF OpenService, WakeSelected
      <3> PICK w : w = [win EXCEPT !.last = what]
        OBVIOUS
      <3>1. DOMAIN w = WonFields /\ w.services = win.services /\ w.radar = win.radar
        BY <2>0 DEF WonFields
      <3> QED
        BY <2>0, <3>1, <2>x, HandlerKeeps
    <2>11. CASE SetAutostart
      <3> PICK b : Becomes(win, {}, [dev EXCEPT !.boot = b])
        BY <2>11 DEF SetAutostart
      <3> PICK d : d = [dev EXCEPT !.boot = b]
        OBVIOUS
      <3>2. DOMAIN d = WonWorld /\ d.folder = dev.folder /\ d.mine = dev.mine /\ d.gone = dev.gone
        BY <2>0 DEF WonWorld
      <3> QED
        BY <2>0, <3>2, <2>x, HandlerKeeps
    <2>12. CASE WonShows
      BY <2>0, <2>12, <2>x, HandlerKeeps DEF WonShows
    <2>13. ASSUME NEW list, NEW also, SaveManual([win EXCEPT !.manual = list, !.signature = <<>>], also)
           PROVE  FolderIsSound'
      <3> PICK w : w = [win EXCEPT !.manual = list, !.signature = <<>>]
        OBVIOUS
      <3>1. DOMAIN w = WonFields /\ w.services = win.services /\ w.radar = win.radar
        BY <2>0 DEF WonFields
      <3> PICK saved : WonRefresh(w, also, [dev EXCEPT !.manual = saved])
        BY <2>13 DEF SaveManual
      <3> PICK d : d = [dev EXCEPT !.manual = saved]
        OBVIOUS
      <3>2. DOMAIN d = WonWorld /\ d.folder = dev.folder /\ d.mine = dev.mine /\ d.gone = dev.gone
        BY <2>0 DEF WonWorld
      <3> QED
        BY <2>0, <3>1, <3>2, <2>x, HandlerRefreshes
    <2>14. CASE AddManual
      BY <2>13, <2>14 DEF AddManual
    <2>15. CASE RemoveSelectedManual
      BY <2>0, <2>13, <2>15, <2>x, HandlerKeeps DEF RemoveSelectedManual
    <2> QED
      BY <1>9, <2>1, <2>2, <2>3, <2>4, <2>5, <2>6, <2>7, <2>8, <2>9, <2>10, <2>11, <2>12, <2>14, <2>15
         DEF WonLooper
  <1> QED
    BY WonSteps, <1>a, <1>b, <1>1, <1>2, <1>3, <1>4, <1>5, <1>6, <1>9 DEF WonNext

\* While the browser runs, its shortcuts are those of the devices it lists, and
\* what the user and the mounts keep in ~/WON is still there (ShareFolder.cpp,
\* SyncShareFolder), however often it was stopped and started.
THEOREM ShortcutsFollowDevices == Spec => []FolderMirrors
  <1>1. Init => FolderInv
    BY DEF Init, ShareInit, OfficeInit, HomeInit, ShellyInit, SpotifyInit, InfoInit, FireTvInit,
         CameraInit, SmbInit, CastInit, WonInit, AppInit, FolderInv, FolderIsSound, OthersKept, OursIn, WonWorld, InfoApps, Viewers
  <1>2. FolderInv => FolderMirrors
    BY DEF FolderInv, FolderIsSound, FolderMirrors, WonOpen, OthersKept, Mirrors, OursIn, Ours
  <1> QED
    BY <1>1, <1>2, FolderInvStep, PTL DEF Spec

-----------------------------------------------------------------------------
\* Induction over the natural numbers, for a set instead of a predicate.
LEMMA SetInduction ==
  ASSUME NEW S, 0 \in S, \A n \in Nat : n \in S => n + 1 \in S
  PROVE  Nat \subseteq S
  <1> DEFINE T == Nat \ S
  <1>1. SUFFICES ASSUME T # {} PROVE FALSE
    OBVIOUS
  <1>2. PICK x \in T : \A y \in T : ~(<<y, x>> \in OpToRel(<, Nat))
    <2>1. T \subseteq Nat
      OBVIOUS
    <2> HIDE DEF T
    <2> QED
      BY <1>1, <2>1, NatLessThanWellFounded, WFMin
  <1>3. x \in Nat /\ x \notin S /\ \A y \in T : ~(y < x)
    BY <1>2 DEF OpToRel
  <1> HIDE <1>2
  <1>4. x - 1 \in Nat /\ x - 1 < x /\ x = (x - 1) + 1
    BY <1>3
  <1> QED
    BY <1>3, <1>4

LEMMA MaxIsTop ==
  ASSUME NEW k \in Nat, NEW s \in SUBSET (1..k), k \in s PROVE Max(s) = k
  <1>1. \A y \in s : k >= y
    OBVIOUS
  <1>2. \A x \in s : (\A y \in s : x >= y) => x = k
    OBVIOUS
  <1> QED
    BY <1>1, <1>2, Zenon DEF Max

\* The fold of OfKind, step by step.
LEMMA OfKindFolds ==
  ASSUME NEW X, NEW rows \in Seq(X), NEW d
  PROVE  \E g :
           /\ g[0] = <<>>
           /\ \A k \in 1..Len(rows) :
                g[k] = IF rows[k].isDir = d THEN Append(g[k - 1], rows[k]) ELSE g[k - 1]
           /\ OfKind(rows, d) = g[Len(rows)]
  <1> DEFINE n == Len(rows)
             Taken(list, x) == IF rows[x].isDir = d THEN Append(list, rows[x]) ELSE list
             Fold(f, k) == f = [s \in SUBSET (1..k) |->
                                  IF s = {} THEN <<>> ELSE Taken(f[s \ {Max(s)}], Max(s))]
             P == {k \in Nat : \E f : Fold(f, k)}
  <1>0. n \in Nat /\ DOMAIN rows = 1..n
    OBVIOUS
  <1>1. 0 \in P
    <2>1. Fold([s \in SUBSET (1..0) |-> <<>>], 0)
      OBVIOUS
    <2> QED
      BY <2>1
  <1>2. ASSUME NEW k \in Nat, k \in P PROVE k + 1 \in P
    <2> HIDE DEF Taken
    <2> PICK f : Fold(f, k)
      BY <1>2
    <2>1. \A s \in SUBSET (1..k) : f[s] = IF s = {} THEN <<>> ELSE Taken(f[s \ {Max(s)}], Max(s))
      OBVIOUS
    <2> DEFINE e == [s \in SUBSET (1..(k + 1)) |->
                       IF k + 1 \in s THEN Taken(f[s \ {k + 1}], k + 1) ELSE f[s]]
    <2>2. ASSUME NEW s \in SUBSET (1..(k + 1))
          PROVE  e[s] = IF s = {} THEN <<>> ELSE Taken(e[s \ {Max(s)}], Max(s))
      <3>1. CASE k + 1 \in s
        <4>1. Max(s) = k + 1
          BY <3>1, MaxIsTop
        <4>2. s \ {k + 1} \in SUBSET (1..(k + 1)) /\ k + 1 \notin s \ {k + 1}
          OBVIOUS
        <4> QED
          BY <3>1, <4>1, <4>2
      <3>2. CASE k + 1 \notin s
        <4>1. s \in SUBSET (1..k)
          BY <3>2
        <4>3. s \ {Max(s)} \in SUBSET (1..(k + 1)) /\ k + 1 \notin s \ {Max(s)}
          BY <3>2
        <4> QED
          BY <2>1, <3>2, <4>1, <4>3
      <3> QED
        BY <3>1, <3>2
    <2>3. Fold(e, k + 1)
      BY <2>2
    <2> HIDE DEF e, Fold
    <2> QED
      BY <2>3
  <1>3. n \in P
    <2> HIDE DEF P
    <2> QED
      BY <1>0, <1>1, <1>2, SetInduction
  <1> DEFINE f == CHOOSE f : Fold(f, n)
  <1>4. Fold(f, n)
    BY <1>3
  <1>5. OfKind(rows, d) = f[1..n]
    BY <1>0 DEF OfKind, FoldLeft, MapThenFoldSet
  <1> DEFINE g == [k \in 0..n |-> f[1..k]]
  <1>6. ASSUME NEW k \in 1..n PROVE g[k] = Taken(g[k - 1], k)
    <2> HIDE DEF f, Taken
    <2>1. Max(1..k) = k /\ 1..k # {} /\ (1..k) \ {k} = 1..(k - 1) /\ 1..k \in SUBSET (1..n)
      BY <1>0, MaxIsTop
    <2>2. f[1..k] = Taken(f[(1..k) \ {Max(1..k)}], Max(1..k))
      BY <1>4, <2>1
    <2>3. g[k] = f[1..k] /\ g[k - 1] = f[1..(k - 1)]
      BY <1>0
    <2> HIDE DEF g
    <2> QED
      BY <2>1, <2>2, <2>3
  <1>7. g[0] = <<>> /\ g[n] = f[1..n]
    <2> HIDE DEF f
    <2> QED
      BY <1>0, <1>4
  <1> HIDE DEF g
  <1> QED
    BY <1>0, <1>5, <1>6, <1>7


\* An element at the end of a sequence.
LEMMA RangeAppend ==
  ASSUME NEW X, NEW s \in Seq(X), NEW x
  PROVE  Append(s, x) \in Seq(X \cup {x}) /\ Range(Append(s, x)) = Range(s) \cup {x}
  <1>1. /\ Append(s, x) \in Seq(X \cup {x}) /\ DOMAIN Append(s, x) = 1..(Len(s) + 1)
        /\ DOMAIN s = 1..Len(s) /\ Len(s) \in Nat
        /\ Append(s, x)[Len(s) + 1] = x /\ \A i \in 1..Len(s) : Append(s, x)[i] = s[i]
    OBVIOUS
  <1> PICK t : t = Append(s, x)
    OBVIOUS
  <1>2. Range(t) = Range(s) \cup {x}
    BY <1>1 DEF Range
  <1> QED
    BY <1>1, <1>2

LEMMA RangeConcat ==
  ASSUME NEW X, NEW s \in Seq(X), NEW t \in Seq(X)
  PROVE  Range(s \o t) = Range(s) \cup Range(t)
  <1>1. /\ DOMAIN (s \o t) = 1..(Len(s) + Len(t)) /\ DOMAIN s = 1..Len(s) /\ DOMAIN t = 1..Len(t)
        /\ Len(s) \in Nat /\ Len(t) \in Nat
        /\ \A i \in 1..(Len(s) + Len(t)) : (s \o t)[i] = IF i <= Len(s) THEN s[i] ELSE t[i - Len(s)]
    OBVIOUS
  <1> PICK u : u = s \o t
    OBVIOUS
  <1>2. \A i \in DOMAIN u : u[i] \in Range(s) \cup Range(t)
    BY <1>1 DEF Range
  <1>3. \A i \in DOMAIN s : i \in DOMAIN u /\ u[i] = s[i]
    BY <1>1
  <1>4. \A i \in DOMAIN t : i + Len(s) \in DOMAIN u /\ u[i + Len(s)] = t[i]
    BY <1>1
  <1>5. Range(u) \subseteq Range(s) \cup Range(t)
    BY <1>2 DEF Range
  <1>6. Range(s) \subseteq Range(u) /\ Range(t) \subseteq Range(u)
    <2>1. ASSUME NEW i \in DOMAIN s PROVE s[i] \in Range(u)
      BY <1>3, <2>1 DEF Range
    <2>2. ASSUME NEW i \in DOMAIN t PROVE t[i] \in Range(u)
      BY <1>4, <2>2 DEF Range
    <2> QED
      BY <2>1, <2>2 DEF Range
  <1> QED
    BY <1>5, <1>6

\* OfKind keeps the rows of its kind, all of them and nothing else.
LEMMA OfKindKeeps ==
  ASSUME NEW X, NEW rows \in Seq(X), NEW d
  PROVE  OfKind(rows, d) \in Seq(X) /\ Range(OfKind(rows, d)) = {x \in Range(rows) : x.isDir = d}
  <1> DEFINE n == Len(rows)
  <1>0. n \in Nat /\ DOMAIN rows = 1..n /\ \A k \in 1..n : rows[k] \in X
    OBVIOUS
  <1>1. PICK g : /\ g[0] = <<>>
                 /\ \A k \in 1..n :
                      g[k] = IF rows[k].isDir = d THEN Append(g[k - 1], rows[k]) ELSE g[k - 1]
                 /\ OfKind(rows, d) = g[n]
    BY OfKindFolds
  <1> DEFINE Seen(m) == {x \in {rows[k] : k \in 1..m} : x.isDir = d}
             P == {m \in Nat : m <= n => g[m] \in Seq(X) /\ Range(g[m]) = Seen(m)}
  <1>2. 0 \in P
    <2>1. <<>> \in Seq(X) /\ Range(<<>>) = {} /\ Seen(0) = {}
      BY DEF Range
    <2> QED
      BY <1>1, <2>1
  <1>3. ASSUME NEW m \in Nat, m \in P PROVE m + 1 \in P
    <2>1. SUFFICES ASSUME m + 1 <= n PROVE g[m + 1] \in Seq(X) /\ Range(g[m + 1]) = Seen(m + 1)
      OBVIOUS
    <2>2. g[m] \in Seq(X) /\ Range(g[m]) = Seen(m)
      BY <1>0, <1>3, <2>1
    <2>3. m + 1 \in 1..n /\ (m + 1) - 1 = m
      BY <1>0, <2>1
    <2>4. 1..(m + 1) = (1..m) \cup {m + 1}
      OBVIOUS
    <2>5. CASE rows[m + 1].isDir # d
      <3>1. g[m + 1] = g[m]
        BY <1>1, <2>3, <2>5
      <3>2. Seen(m + 1) = Seen(m)
        BY <2>4, <2>5
      <3> QED
        BY <2>2, <3>1, <3>2
    <2>6. CASE rows[m + 1].isDir = d
      <3>1. g[m + 1] = Append(g[m], rows[m + 1])
        BY <1>1, <2>3, <2>6
      <3>2. Seen(m + 1) = Seen(m) \cup {rows[m + 1]}
        BY <2>4, <2>6
      <3> PICK s, x : s = g[m] /\ x = rows[m + 1]
        OBVIOUS
      <3>3. x \in X /\ s \in Seq(X)
        BY <1>0, <2>2, <2>3
      <3>4. Append(s, x) \in Seq(X)
        BY <3>3
      <3>5. Range(Append(s, x)) = Range(s) \cup {x}
        BY <3>3, RangeAppend
      <3> HIDE DEF Seen
      <3> QED
        BY <2>2, <3>1, <3>2, <3>4, <3>5
    <2> QED
      BY <2>5, <2>6
  <1>4. n \in P
    <2> HIDE DEF P
    <2> QED
      BY <1>0, <1>2, <1>3, SetInduction
  <1>5. Range(rows) = {rows[k] : k \in 1..n}
    BY <1>0 DEF Range
  <1>6. g[n] \in Seq(X) /\ Range(g[n]) = Seen(n)
    BY <1>0, <1>4
  <1> QED
    BY <1>1, <1>5, <1>6

\* The rows of a browser window: those of the listing and perhaps one for the parent.
LEMMA RowsAre ==
  ASSUME NEW X, NEW rows \in Seq(X), \A x \in Range(rows) : x.isDir \in BOOLEAN, NEW p, NEW up
  PROVE  /\ Rows(p, up, rows) \in Seq(X \cup {up})
         /\ Range(rows) \subseteq Range(Rows(p, up, rows))
         /\ Range(Rows(p, up, rows)) \subseteq Range(rows) \cup {up}
  <1> PICK a : a = IF p = <<>> THEN <<>> ELSE <<up>>
    OBVIOUS
  <1> PICK b : b = OfKind(rows, TRUE)
    OBVIOUS
  <1> PICK c : c = OfKind(rows, FALSE)
    OBVIOUS
  <1> PICK Y : Y = X \cup {up}
    OBVIOUS
  <1>1. a \in Seq(Y) /\ Range(a) \subseteq {up}
    <2>1. <<>> \in Seq(Y) /\ Range(<<>>) = {}
      BY DEF Range
    <2>2. <<up>> \in Seq(Y) /\ Range(<<up>>) = {up}
      BY DEF Range
    <2> QED
      BY <2>1, <2>2
  <1>2. /\ b \in Seq(X) /\ Range(b) = {x \in Range(rows) : x.isDir = TRUE}
        /\ c \in Seq(X) /\ Range(c) = {x \in Range(rows) : x.isDir = FALSE}
    <2>1. \A d : /\ OfKind(rows, d) \in Seq(X)
                 /\ Range(OfKind(rows, d)) = {x \in Range(rows) : x.isDir = d}
      BY OfKindKeeps
    <2> QED
      BY <2>1, Zenon
  <1>3. Seq(X) \subseteq Seq(Y)
    OBVIOUS
  <1>r. \A s, t \in Seq(Y) : Range(s \o t) = Range(s) \cup Range(t)
    BY RangeConcat
  <1>4. a \o b \in Seq(Y) /\ Range(a \o b) = Range(a) \cup Range(b)
    <2>1. b \in Seq(Y)
      BY <1>2, <1>3
    <2>2. a \o b \in Seq(Y)
      BY <1>1, <2>1, ConcatProperties
    <2>3. Range(a \o b) = Range(a) \cup Range(b)
      BY <1>1, <1>r, <2>1, Zenon
    <2> QED
      BY <2>2, <2>3
  <1>5. (a \o b) \o c \in Seq(Y) /\ Range((a \o b) \o c) = Range(a \o b) \cup Range(c)
    <2>1. c \in Seq(Y)
      BY <1>2, <1>3
    <2>2. (a \o b) \o c \in Seq(Y)
      BY <1>4, <2>1, ConcatProperties
    <2>3. Range((a \o b) \o c) = Range(a \o b) \cup Range(c)
      BY <1>4, <1>r, <2>1, Zenon
    <2> QED
      BY <2>2, <2>3
  <1>6. (a \o b) \o c = Rows(p, up, rows)
    BY DEF Rows
  <1> QED
    BY <1>1, <1>2, <1>4, <1>5, <1>6

\* The window shows the names of the listing.
LEMMA RowsNames ==
  ASSUME NEW X, NEW rows \in Seq(X), \A x \in Range(rows) : x.isDir \in BOOLEAN,
         NEW p, NEW up, up.name = ".."
  PROVE  NamesOf(Rows(p, up, rows)) = NamesOf(rows)
  <1> PICK r : r = Rows(p, up, rows)
    OBVIOUS
  <1>1. Range(rows) \subseteq Range(r) /\ Range(r) \subseteq Range(rows) \cup {up}
    BY RowsAre
  <1>2. \A s : NamesOf(s) = {x.name : x \in Range(s)} \ {".."}
    BY DEF NamesOf, Range
  <1> QED
    BY <1>1, <1>2

-----------------------------------------------------------------------------
(***************************************************************************)
(* The list windows.  An answer on its way to the window, in a thread or   *)
(* in the queue, is one the device has given, and what the window holds is *)
(* blank or made of one of them.  A browser also stays inside the tree:    *)
(* every directory it can be asked to open has a listing.                  *)
(***************************************************************************)
ListKind(a) ==
  CASE a = "nfs" -> "exports" [] a = "afp" -> "status" [] a = "daap" -> "tracks"
    [] a = "ipp" -> "attrs" [] a = "escl" -> "caps" [] a = "nut" -> "info" [] OTHER -> "list"

Leads(p, x) ==                   \* where the row x of a listing of p leads
  x.isDir =>
    /\ app = "ftp" => x.name = ".." \/ Append(p, x.name) \in DOMAIN Tree
    /\ app = "webdav" => x.href \in DOMAIN Tree
Listing(p, rows) ==
  /\ rows \in Seq(Range(rows))
  /\ \A x \in Range(rows) : x.isDir \in BOOLEAN /\ Leads(p, x)
Genuine(r) ==
  /\ r \in served
  /\ (app = "ipp" \/ r.ok) => "rows" \in DOMAIN r
  /\ (app \in Browsers /\ r.ok) => r.path \in DOMAIN Tree /\ Listing(r.path, r.rows)

ListMail ==
  /\ \A j \in DOMAIN jobs :
       /\ DOMAIN jobs[j] = {"what", "arg", "ans"}
       /\ jobs[j].what = ListKind(app) =>
            /\ jobs[j].ans = NoAnswer \/ Genuine(jobs[j].ans)
            /\ app \in Browsers => jobs[j].arg \in DOMAIN Tree
  /\ inbox \in Seq(Range(inbox))
  /\ \A m \in Range(inbox) : m.what = ListKind(app) => Genuine(m.arg)
ListScreen ==
  /\ {"status", "entries"} \subseteq DOMAIN win
  /\ app \in Listers =>
       win.entries = <<>> \/ \E r \in served : "rows" \in DOMAIN r /\ win.entries = r.rows
  /\ app \in Browsers =>
       /\ DOMAIN win = {"status", "path", "entries", "sel", "pending", "panel"}
       /\ win.path \in DOMAIN Tree
       /\ Listing(win.path, win.entries)
       /\ win.sel \in 0..Len(win.entries)
       /\ \/ win.entries = <<>>
          \/ \E r \in served : /\ "rows" \in DOMAIN r
                               /\ win.path = r.path
                               /\ NamesOf(win.entries) = NamesOf(r.rows)
ListInv ==
  app \in Recorded \cap (Listers \cup Browsers) =>
    /\ phase = "start" => inbox = <<>>
    /\ phase = "open" => ListMail /\ ListScreen

-----------------------------------------------------------------------------
\* The queue: a message is added at the end, or the first one taken.
LEMMA RangeTail ==
  ASSUME NEW X, NEW s \in Seq(X), s # <<>>
  PROVE  Tail(s) \in Seq(X) /\ Range(Tail(s)) \subseteq Range(s) /\ Head(s) \in Range(s)
  <1>1. /\ Tail(s) \in Seq(X) /\ DOMAIN Tail(s) = 1..(Len(s) - 1) /\ DOMAIN s = 1..Len(s)
        /\ Len(s) \in Nat \ {0} /\ Head(s) = s[1]
        /\ \A i \in 1..(Len(s) - 1) : Tail(s)[i] = s[i + 1]
    OBVIOUS
  <1> PICK t : t = Tail(s)
    OBVIOUS
  <1>2. \A i \in DOMAIN t : i + 1 \in DOMAIN s /\ t[i] = s[i + 1]
    BY <1>1
  <1>3. Range(t) \subseteq Range(s)
    BY <1>2 DEF Range
  <1>4. Head(s) \in Range(s)
    BY <1>1 DEF Range
  <1> QED
    BY <1>1, <1>3, <1>4

LEMMA OwnRange ==
  ASSUME NEW X, NEW s \in Seq(X) PROVE s \in Seq(Range(s))
  BY DEF Range

LEMMA InboxGrows ==
  ASSUME inbox \in Seq(Range(inbox)), NEW m, inbox' = Append(inbox, m)
  PROVE  inbox' \in Seq(Range(inbox')) /\ Range(inbox') = Range(inbox) \cup {m}
  <1>1. inbox' \in Seq(Range(inbox) \cup {m}) /\ Range(inbox') = Range(inbox) \cup {m}
    BY RangeAppend
  <1> QED
    BY <1>1

LEMMA InboxShrinks ==
  ASSUME inbox \in Seq(Range(inbox)), inbox # <<>>, inbox' = Tail(inbox)
  PROVE  inbox' \in Seq(Range(inbox')) /\ Range(inbox') \subseteq Range(inbox)
  <1>1. inbox' \in Seq(Range(inbox)) /\ Range(inbox') \subseteq Range(inbox)
    BY RangeTail
  <1> QED
    BY <1>1, OwnRange

\* What is genuine stays so.
LEMMA StaysGenuine ==
  ASSUME app' = app, served \subseteq served', NEW r, Genuine(r) PROVE Genuine(r)'
  BY DEF Genuine, Listing, Leads, Browsers

LEMMA MailClick ==
  ASSUME ListMail, NEW what, NEW x, what # ListKind(app), inbox' = Append(inbox, Msg(what, x)),
         UNCHANGED <<app, jobs, served>>
  PROVE  ListMail'
  <1>1. inbox' \in Seq(Range(inbox')) /\ Range(inbox') = Range(inbox) \cup {Msg(what, x)}
    BY InboxGrows DEF ListMail
  <1>2. Msg(what, x).what = what
    BY DEF Msg
  <1> QED
    BY <1>1, <1>2, StaysGenuine DEF ListMail

LEMMA MailHandle ==
  ASSUME ListMail, inbox # <<>>, inbox' = Tail(inbox), UNCHANGED <<app, served>>,
         NEW js, Spawn(js),
         js = <<>> \/ \E what, x : js = <<what, x>> /\ (app \in Browsers /\ what = "list" => x \in DOMAIN Tree)
  PROVE  ListMail'
  <1>1. inbox' \in Seq(Range(inbox')) /\ Range(inbox') \subseteq Range(inbox)
    BY InboxShrinks DEF ListMail
  <1>2. \A r : Genuine(r) => Genuine(r)'
    BY StaysGenuine
  <1>3. CASE UNCHANGED jobs
    BY <1>1, <1>2, <1>3 DEF ListMail
  <1>4. CASE jobs' = With(jobs, FreeNumber, NewJob(js)) /\ js # <<>>
    <2> PICK what, x : js = <<what, x>> /\ (app \in Browsers /\ what = "list" => x \in DOMAIN Tree)
      BY <1>4
    <2> PICK k : k = FreeNumber
      OBVIOUS
    <2>1. DOMAIN jobs' = DOMAIN jobs \cup {k}
      BY <1>4 DEF With
    <2>2. jobs'[k] = [what |-> what, arg |-> x, ans |-> NoAnswer]
      BY <1>4 DEF With, NewJob
    <2>3. \A j \in DOMAIN jobs \ {k} : jobs'[j] = jobs[j]
      BY <1>4 DEF With
    <2>4. app \in Browsers => ListKind(app) = "list"
      BY DEF Browsers, ListKind
    <2> QED
      BY <1>1, <1>2, <2>1, <2>2, <2>3, <2>4 DEF ListMail
  <1> QED
    BY <1>3, <1>4 DEF Spawn

LEMMA MailWorks ==
  ASSUME ListMail, NEW j \in DOMAIN jobs, NEW r, jobs' = [jobs EXCEPT ![j].ans = r],
         UNCHANGED <<app, inbox>>, served \subseteq served',
         jobs[j].what = ListKind(app) => Genuine(r)'
  PROVE  ListMail'
  <1>1. \A q : Genuine(q) => Genuine(q)'
    BY StaysGenuine
  <1>2. DOMAIN jobs' = DOMAIN jobs /\ \A k \in DOMAIN jobs \ {j} : jobs'[k] = jobs[k]
    OBVIOUS
  <1>3. /\ DOMAIN jobs'[j] = {"what", "arg", "ans"} /\ jobs'[j].what = jobs[j].what
        /\ jobs'[j].arg = jobs[j].arg /\ jobs'[j].ans = r
    BY DEF ListMail
  <1> QED
    BY <1>1, <1>2, <1>3 DEF ListMail

LEMMA MailPost ==
  ASSUME ListMail, PostAnswer PROVE ListMail'
  <1> PICK j \in DOMAIN jobs : /\ jobs[j].ans # NoAnswer
                               /\ inbox' = Append(inbox, Msg(jobs[j].what, jobs[j].ans))
                               /\ jobs' = Restrict(jobs, DOMAIN jobs \ {j})
    BY DEF PostAnswer
  <1> PICK m : m = Msg(jobs[j].what, jobs[j].ans)
    OBVIOUS
  <1>1. inbox' \in Seq(Range(inbox')) /\ Range(inbox') = Range(inbox) \cup {m}
    BY InboxGrows DEF ListMail
  <1>2. m.what = ListKind(app) => Genuine(m.arg)
    BY DEF Msg, ListMail
  <1>3. DOMAIN jobs' = DOMAIN jobs \ {j} /\ \A k \in DOMAIN jobs' : jobs'[k] = jobs[k]
    BY DEF Restrict
  <1>4. UNCHANGED <<app, served>>
    BY DEF PostAnswer
  <1>5. \A q : Genuine(q) => Genuine(q)'
    BY <1>4, StaysGenuine
  <1> QED
    BY <1>1, <1>2, <1>3, <1>4, <1>5 DEF ListMail

\* A window opens with an empty queue and with its first job, or without.
LEMMA MailLaunch ==
  ASSUME NEW what, NEW x, app \in Browsers => x \in DOMAIN Tree, UNCHANGED app,
         inbox' = <<>>, SpawnAll(<<<<what, x>>>>)
  PROVE  ListMail'
  <1> PICK s : s = <<<<what, x>>>>
    OBVIOUS
  <1>0. DOMAIN s = {1} /\ s[1][1] = what /\ s[1][2] = x
    OBVIOUS
  <1>1. \A j \in DOMAIN jobs' : jobs'[j] = [what |-> what, arg |-> x, ans |-> NoAnswer]
    <2>1. SpawnAll(s)
      OBVIOUS
    <2>2. DOMAIN jobs' \subseteq {1} /\ \A j \in DOMAIN jobs' : jobs'[j] = NewJob(s[j])
      BY <1>0, <2>1 DEF SpawnAll
    <2> QED
      BY <1>0, <2>2 DEF NewJob
  <1>2. inbox' \in Seq(Range(inbox')) /\ Range(inbox') = {}
    BY DEF Range
  <1> QED
    BY <1>1, <1>2 DEF ListMail

LEMMA ScreenStays ==
  ASSUME ListScreen, UNCHANGED app, served \subseteq served', DOMAIN win' = DOMAIN win,
         win'.entries = win.entries,
         app \in Browsers => win'.path = win.path /\ win'.sel \in 0..Len(win.entries)
  PROVE  ListScreen'
  BY DEF ListScreen, Listing, Leads, Browsers

\* The answer that a list window takes from its queue.
LEMMA ArrivedIsGenuine ==
  ASSUME ListMail, inbox # <<>>, Head(inbox).what = ListKind(app) PROVE Genuine(arg)
  BY RangeTail DEF ListMail, arg

-----------------------------------------------------------------------------
\* The steps of a list window while it is open: what one may do.
ListStep == ListMail' /\ ListScreen' /\ UNCHANGED phase /\ (UNCHANGED win \/ UNCHANGED served)

LEMMA ClickStep ==
  ASSUME ListMail, ListScreen, NEW a, NEW what, NEW x, NEW w, Send(a, Msg(what, x), w),
         what # ListKind(app), DOMAIN w = DOMAIN win, w.entries = win.entries,
         app \in Browsers => w.path = win.path /\ w.sel \in 0..Len(win.entries)
  PROVE  ListStep
  BY MailClick, ScreenStays DEF Send, ListStep

\* A handler that leaves the list as it is, and may start a thread.
LEMMA HandleStep ==
  ASSUME ListMail, ListScreen, inbox # <<>>, NEW w, NEW js, NEW d, HandleAnd(w, js, d),
         js = <<>> \/ \E what, x : js = <<what, x>> /\ (app \in Browsers /\ what = "list" => x \in DOMAIN Tree),
         DOMAIN w = DOMAIN win, w.entries = win.entries,
         app \in Browsers => w.path = win.path /\ w.sel = win.sel
  PROVE  ListStep
  <1>1. ListMail'
    BY MailHandle DEF HandleAnd
  <1>2. ListScreen'
    BY ScreenStays DEF HandleAnd, ListScreen
  <1> QED
    BY <1>1, <1>2 DEF HandleAnd, ListStep

\* A handler that shows another list, or none.
LEMMA ShowStep ==
  ASSUME ListMail, inbox # <<>>, NEW w, NEW d, HandleAnd(w, <<>>, d), (win' = w) => ListScreen'
  PROVE  ListStep
  <1>1. Spawn(<<>>) /\ UNCHANGED <<app, phase, served>> /\ inbox' = Tail(inbox) /\ win' = w
    BY DEF HandleAnd
  <1>2. ListMail'
    BY <1>1, MailHandle
  <1> QED
    BY <1>1, <1>2 DEF ListStep

LEMMA WorksStep ==
  ASSUME ListMail, ListScreen, NEW j \in DOMAIN jobs, NEW r, jobs' = [jobs EXCEPT ![j].ans = r],
         UNCHANGED <<app, phase, win, inbox>>, served \subseteq served',
         jobs[j].what = ListKind(app) => Genuine(r)'
  PROVE  ListStep
  BY MailWorks, ScreenStays DEF ListStep, ListScreen

LEMMA DeviceStep ==
  ASSUME ListMail, ListScreen, NEW a, NEW S, DeviceChanges(a, S) PROVE ListStep
  <1>1. UNCHANGED <<app, phase, win, jobs, inbox, served>>
    BY DEF DeviceChanges
  <1> QED
    BY <1>1 DEF ListStep, ListMail, ListScreen, Genuine, Listing, Leads, NoAnswer, Browsers, Listers

-----------------------------------------------------------------------------
\* A list window whose thread has answered: the answer is recorded.
LEMMA ListerAnswers ==
  ASSUME app \in Listers, NEW r, r \in served', UNCHANGED app, (app = "ipp" \/ r.ok) => "rows" \in DOMAIN r
  PROVE  Genuine(r)'
  BY DEF Genuine, Listers, Browsers

\* The list of a genuine answer is shown, or none.
LEMMA ListerShows ==
  ASSUME app \in Listers, ListScreen, UNCHANGED <<app, served>>, NEW r, Genuine(r),
         {"status", "entries"} \subseteq DOMAIN win',
         \/ win'.entries \in {<<>>, win.entries}
         \/ ((app = "ipp" \/ r.ok) /\ win'.entries = r.rows)
  PROVE  ListScreen'
  BY DEF ListScreen, Genuine, Listers, Browsers

LEMMA NfsStep ==
  ASSUME app = "nfs", app \in Recorded, phase = "open", ListMail, ListScreen, NfsNext
  PROVE  ListStep
  <1>0. /\ ListKind(app) = "exports" /\ app \in Listers /\ app \notin Browsers
        /\ {"status", "entries"} \subseteq DOMAIN win
    BY DEF ListKind, Listers, Browsers, ListScreen
  <1>1. CASE NfsApp
    BY <1>1 DEF NfsApp, Launch, LaunchAnd
  <1>2. CASE NfsProbeThread
    <2> PICK j \in DOMAIN jobs : \E r \in NfsListExports(jobs[j].arg) :
          jobs' = [jobs EXCEPT ![j].ans = r] /\ served' = served \cup {r}
      BY <1>2 DEF NfsProbeThread, Works
    <2> PICK r \in NfsListExports(jobs[j].arg) :
          jobs' = [jobs EXCEPT ![j].ans = r] /\ served' = served \cup {r}
      OBVIOUS
    <2>1. r.ok => "rows" \in DOMAIN r
      BY DEF NfsListExports, Failed
    <2>2. UNCHANGED <<app, phase, win, inbox>>
      BY <1>2 DEF NfsProbeThread, Works
    <2>3. Genuine(r)'
      BY <1>0, <2>1, <2>2, ListerAnswers
    <2> QED
      BY <2>2, <2>3, WorksStep
  <1>3. CASE DeviceChanges("nfs", Lists)
    BY <1>3, DeviceStep
  <1>4. CASE Click("nfs", "probe")
    BY <1>0, <1>4, ClickStep DEF Click
  <1>5. CASE NfsPickRow
    <2> PICK i : Send("nfs", Msg("copy", "none"), [win EXCEPT !.sel = i])
      BY <1>5 DEF NfsPickRow
    <2> PICK w : w = [win EXCEPT !.sel = i]
      OBVIOUS
    <2>1. DOMAIN w = DOMAIN win /\ w.entries = win.entries
      BY <1>0
    <2> QED
      BY <1>0, <2>1, ClickStep
  <1>6. CASE NfsProbe
    <2>1. DOMAIN Loading(win) = DOMAIN win /\ Loading(win).entries = win.entries
      BY <1>0 DEF Loading
    <2> QED
      BY <1>0, <1>6, <2>1, HandleStep DEF NfsProbe, Got, Handle, NfsStartProbe
  <1>7. CASE NfsExportsReady
    <2>1. Genuine(arg)
      BY <1>0, <1>7, ArrivedIsGenuine DEF NfsExportsReady, Got
    <2> PICK w : /\ w = [Cleared(win) EXCEPT !.entries = IF arg.ok THEN arg.rows ELSE <<>>,
                                             !.status = IF arg.ok THEN "listed" ELSE "error"]
                 /\ HandleAnd(w, <<>>, dev)
      BY <1>7 DEF NfsExportsReady, Handle
    <2>2. {"status", "entries"} \subseteq DOMAIN w /\ (w.entries = <<>> \/ (arg.ok /\ w.entries = arg.rows))
      BY <1>0 DEF Cleared
    <2>3. UNCHANGED <<app, served>> /\ win' = w
      BY DEF HandleAnd
    <2>4. ListScreen'
      BY <1>0, <2>1, <2>2, <2>3, ListerShows
    <2> QED
      BY <1>7, <2>4, ShowStep DEF NfsExportsReady, Got
  <1>8. CASE NfsCopy
    <2> PICK w : /\ w = [win EXCEPT !.clip = NfsSelectedAddress, !.status = "copied"]
                 /\ HandleAnd(w, <<>>, dev)
      BY <1>8 DEF NfsCopy, Handle
    <2>1. DOMAIN w = DOMAIN win /\ w.entries = win.entries
      BY <1>0
    <2> QED
      BY <1>0, <1>8, <2>1, HandleStep DEF NfsCopy, Got
  <1> QED
    BY <1>1, <1>2, <1>3, <1>4, <1>5, <1>6, <1>7, <1>8 DEF NfsNext

LEMMA AfpStep ==
  ASSUME app = "afp", app \in Recorded, phase = "open", ListMail, ListScreen, AfpNext
  PROVE  ListStep
  <1>0. /\ ListKind(app) = "status" /\ app \in Listers /\ app \notin Browsers
        /\ {"status", "entries"} \subseteq DOMAIN win
    BY DEF ListKind, Listers, Browsers, ListScreen
  <1>1. CASE AfpApp
    BY <1>1 DEF AfpApp, Launch, LaunchAnd
  <1>2. CASE AfpStatusThread
    <2> PICK j \in DOMAIN jobs : jobs[j].what = "status" /\ \E r \in AfpGetStatus(jobs[j].arg) :
          jobs' = [jobs EXCEPT ![j].ans = r] /\ served' = served \cup {r}
      BY <1>2 DEF AfpStatusThread, Works
    <2> PICK r \in AfpGetStatus(jobs[j].arg) : jobs' = [jobs EXCEPT ![j].ans = r] /\ served' = served \cup {r}
      OBVIOUS
    <2>1. UNCHANGED <<app, phase, win, inbox>>
      BY <1>2 DEF AfpStatusThread, Works
    <2>2. (app = "ipp" \/ r.ok) => "rows" \in DOMAIN r
      BY DEF AfpGetStatus, Failed
    <2>3. Genuine(r)'
      BY <1>0, <2>1, <2>2, ListerAnswers
    <2> QED
      BY <2>1, <2>3, WorksStep
  <1>3. CASE DeviceChanges("afp", Lists)
    BY <1>3, DeviceStep
  <1>4. CASE Click("afp", "probe")
    BY <1>0, <1>4, ClickStep DEF Click
  <1>5. CASE AfpProbe
    <2>1. DOMAIN Loading(win) = DOMAIN win /\ Loading(win).entries = win.entries
      BY <1>0 DEF Loading
    <2> QED
      BY <1>0, <1>5, <2>1, HandleStep DEF AfpProbe, Got, Handle, AfpStartProbe
  <1>6. CASE AfpStatusReady
    <2>1. Genuine(arg)
      BY <1>0, <1>6, ArrivedIsGenuine DEF AfpStatusReady, Got
    <2> PICK w : /\ w = IF arg.ok THEN [win EXCEPT !.entries = arg.rows, !.status = "listed"]
                     ELSE [win EXCEPT !.entries = <<>>, !.status = "error"]
                 /\ HandleAnd(w, <<>>, dev)
      BY <1>6 DEF AfpStatusReady, Handle
    <2>2. {"status", "entries"} \subseteq DOMAIN w /\ (w.entries \in {<<>>, win.entries} \/ (arg.ok /\ w.entries = arg.rows))
      BY <1>0
    <2>3. UNCHANGED <<app, served>> /\ win' = w
      BY DEF HandleAnd
    <2>4. ListScreen'
      BY <1>0, <2>1, <2>2, <2>3, ListerShows
    <2> QED
      BY <1>6, <2>4, ShowStep DEF AfpStatusReady, Got
  <1> QED
    BY <1>1, <1>2, <1>3, <1>4, <1>5, <1>6 DEF AfpNext

LEMMA DaapStep ==
  ASSUME app = "daap", app \in Recorded, phase = "open", ListMail, ListScreen, DaapNext
  PROVE  ListStep
  <1>0. /\ ListKind(app) = "tracks" /\ app \in Listers /\ app \notin Browsers
        /\ {"status", "entries"} \subseteq DOMAIN win
    BY DEF ListKind, Listers, Browsers, ListScreen
  <1>1. CASE DaapApp
    BY <1>1 DEF DaapApp, Launch, LaunchAnd
  <1>2. CASE DaapLoadThread
    <2> PICK j \in DOMAIN jobs : jobs[j].what = "tracks" /\ \E r \in DaapListTracks(jobs[j].arg) :
          jobs' = [jobs EXCEPT ![j].ans = r] /\ served' = served \cup {r}
      BY <1>2 DEF DaapLoadThread, Works
    <2> PICK r \in DaapListTracks(jobs[j].arg) : jobs' = [jobs EXCEPT ![j].ans = r] /\ served' = served \cup {r}
      OBVIOUS
    <2>1. UNCHANGED <<app, phase, win, inbox>>
      BY <1>2 DEF DaapLoadThread, Works
    <2>2. (app = "ipp" \/ r.ok) => "rows" \in DOMAIN r
      BY DEF DaapListTracks, Failed
    <2>3. Genuine(r)'
      BY <1>0, <2>1, <2>2, ListerAnswers
    <2> QED
      BY <2>1, <2>3, WorksStep
  <1>3. CASE DeviceChanges("daap", Lists)
    BY <1>3, DeviceStep
  <1>4. CASE Click("daap", "load")
    BY <1>0, <1>4, ClickStep DEF Click
  <1>5. CASE DaapLoad
    <2>1. DOMAIN Loading(win) = DOMAIN win /\ Loading(win).entries = win.entries
      BY <1>0 DEF Loading
    <2> QED
      BY <1>0, <1>5, <2>1, HandleStep DEF DaapLoad, Got, Handle, DaapStartLoad
  <1>6. CASE DaapTracksReady
    <2>1. Genuine(arg)
      BY <1>0, <1>6, ArrivedIsGenuine DEF DaapTracksReady, Got
    <2> PICK w : /\ w = IF arg.ok THEN [Cleared(win) EXCEPT !.entries = arg.rows, !.status = "listed"]
                     ELSE [Cleared(win) EXCEPT !.status = "error"]
                 /\ HandleAnd(w, <<>>, dev)
      BY <1>6 DEF DaapTracksReady, Handle
    <2>2. {"status", "entries"} \subseteq DOMAIN w /\ (w.entries \in {<<>>, win.entries} \/ (arg.ok /\ w.entries = arg.rows))
      BY <1>0 DEF Cleared
    <2>3. UNCHANGED <<app, served>> /\ win' = w
      BY DEF HandleAnd
    <2>4. ListScreen'
      BY <1>0, <2>1, <2>2, <2>3, ListerShows
    <2> QED
      BY <1>6, <2>4, ShowStep DEF DaapTracksReady, Got
  <1> QED
    BY <1>1, <1>2, <1>3, <1>4, <1>5, <1>6 DEF DaapNext

LEMMA IppStep ==
  ASSUME app = "ipp", app \in Recorded, phase = "open", ListMail, ListScreen, IppNext
  PROVE  ListStep
  <1>0. /\ ListKind(app) = "attrs" /\ app \in Listers /\ app \notin Browsers
        /\ {"status", "entries"} \subseteq DOMAIN win
    BY DEF ListKind, Listers, Browsers, ListScreen
  <1>1. CASE IppApp
    BY <1>1 DEF IppApp, Launch, LaunchAnd
  <1>2. CASE IppQueryThread
    <2> PICK j \in DOMAIN jobs : jobs[j].what = "attrs" /\ \E r \in IppGetPrinterAttributes(jobs[j].arg) :
          jobs' = [jobs EXCEPT ![j].ans = r] /\ served' = served \cup {r}
      BY <1>2 DEF IppQueryThread, Works
    <2> PICK r \in IppGetPrinterAttributes(jobs[j].arg) : jobs' = [jobs EXCEPT ![j].ans = r] /\ served' = served \cup {r}
      OBVIOUS
    <2>1. UNCHANGED <<app, phase, win, inbox>>
      BY <1>2 DEF IppQueryThread, Works
    <2>2. (app = "ipp" \/ r.ok) => "rows" \in DOMAIN r
      BY DEF IppGetPrinterAttributes
    <2>3. Genuine(r)'
      BY <1>0, <2>1, <2>2, ListerAnswers
    <2> QED
      BY <2>1, <2>3, WorksStep
  <1>3. CASE IppPrintThread
    <2> PICK j \in DOMAIN jobs : jobs[j].what = "print" /\ \E r \in IppPrintFile(jobs[j].arg) :
          jobs' = [jobs EXCEPT ![j].ans = r] /\ served' = served \cup {r}
      BY <1>3 DEF IppPrintThread, Works
    <2> PICK r \in IppPrintFile(jobs[j].arg) : jobs' = [jobs EXCEPT ![j].ans = r] /\ served' = served \cup {r}
      OBVIOUS
    <2>1. UNCHANGED <<app, phase, win, inbox>>
      BY <1>3 DEF IppPrintThread, Works
    <2> QED
      BY <1>0, <2>1, WorksStep
  <1>4. CASE DeviceChanges("ipp", Sheets)
    BY <1>4, DeviceStep
  <1>5. CASE Click("ipp", "query") \/ Click("ipp", "pick")
    BY <1>0, <1>5, ClickStep DEF Click
  <1>6. CASE IppChooseFile
    <2> PICK f : Send("ipp", Msg("file", f), [win EXCEPT !.panel = FALSE])
      BY <1>6 DEF IppChooseFile
    <2> PICK w : w = [win EXCEPT !.panel = FALSE]
      OBVIOUS
    <2>1. DOMAIN w = DOMAIN win /\ w.entries = win.entries
      BY <1>0
    <2> QED
      BY <1>0, <2>1, ClickStep
  <1>7. CASE IppQuery
    <2>1. DOMAIN Loading(win) = DOMAIN win /\ Loading(win).entries = win.entries
      BY <1>0 DEF Loading
    <2> QED
      BY <1>0, <1>7, <2>1, HandleStep DEF IppQuery, Got, Handle, IppStartQuery
  <1>8. CASE IppAttrsReady
    <2>1. Genuine(arg)
      BY <1>0, <1>8, ArrivedIsGenuine DEF IppAttrsReady, Got
    <2> PICK w : /\ w = IF ~arg.ok /\ arg.rows = <<>> THEN [win EXCEPT !.status = "error"]
                     ELSE [win EXCEPT !.entries = arg.rows, !.status = "listed"]
                 /\ HandleAnd(w, <<>>, dev)
      BY <1>8 DEF IppAttrsReady, Handle
    <2>2. {"status", "entries"} \subseteq DOMAIN w /\ w.entries \in {<<>>, win.entries, arg.rows}
      BY <1>0
    <2>3. UNCHANGED <<app, served>> /\ win' = w
      BY DEF HandleAnd
    <2>4. ListScreen'
      BY <1>0, <2>1, <2>2, <2>3, ListerShows
    <2> QED
      BY <1>8, <2>4, ShowStep DEF IppAttrsReady, Got
  <1>9. CASE IppPick
    <2> PICK w : w = [win EXCEPT !.panel = TRUE] /\ HandleAnd(w, <<>>, dev)
      BY <1>9 DEF IppPick, Handle
    <2>1. DOMAIN w = DOMAIN win /\ w.entries = win.entries
      BY <1>0
    <2> QED
      BY <1>0, <1>9, <2>1, HandleStep DEF IppPick, Got
  <1>10. CASE IppFileChosen
    <2> PICK w : w = Sending(win) /\ HandleAnd(w, <<"print", [file |-> arg, format |-> IppDocFormatFor(arg)]>>, dev)
      BY <1>10 DEF IppFileChosen, Handle
    <2>1. DOMAIN w = DOMAIN win /\ w.entries = win.entries
      BY <1>0 DEF Sending
    <2> QED
      BY <1>0, <1>10, <2>1, HandleStep DEF IppFileChosen, Got
  <1>11. CASE IppPrintDone
    <2> PICK w : w = [win EXCEPT !.status = IF arg.ok THEN "printed" ELSE "error"] /\ HandleAnd(w, <<>>, dev)
      BY <1>11 DEF IppPrintDone, Handle
    <2>1. DOMAIN w = DOMAIN win /\ w.entries = win.entries
      BY <1>0
    <2> QED
      BY <1>0, <1>11, <2>1, HandleStep DEF IppPrintDone, Got
  <1> QED
    BY <1>1, <1>2, <1>3, <1>4, <1>5, <1>6, <1>7, <1>8, <1>9, <1>10, <1>11 DEF IppNext

LEMMA EsclStep ==
  ASSUME app = "escl", app \in Recorded, phase = "open", ListMail, ListScreen, EsclNext
  PROVE  ListStep
  <1>0. /\ ListKind(app) = "caps" /\ app \in Listers /\ app \notin Browsers
        /\ {"status", "entries"} \subseteq DOMAIN win
    BY DEF ListKind, Listers, Browsers, ListScreen
  <1>1. CASE EsclApp
    BY <1>1 DEF EsclApp, Launch, LaunchAnd
  <1>2. CASE EsclQueryThread
    <2> PICK j \in DOMAIN jobs : jobs[j].what = "caps" /\ \E r \in EsclGetCapabilities(jobs[j].arg) :
          jobs' = [jobs EXCEPT ![j].ans = r] /\ served' = served \cup {r}
      BY <1>2 DEF EsclQueryThread, Works
    <2> PICK r \in EsclGetCapabilities(jobs[j].arg) : jobs' = [jobs EXCEPT ![j].ans = r] /\ served' = served \cup {r}
      OBVIOUS
    <2>1. UNCHANGED <<app, phase, win, inbox>>
      BY <1>2 DEF EsclQueryThread, Works
    <2>2. (app = "ipp" \/ r.ok) => "rows" \in DOMAIN r
      BY DEF EsclGetCapabilities, Failed
    <2>3. Genuine(r)'
      BY <1>0, <2>1, <2>2, ListerAnswers
    <2> QED
      BY <2>1, <2>3, WorksStep
  <1>3. CASE EsclScanThread
    <2> PICK j \in DOMAIN jobs : jobs[j].what = "scan" /\ \E r \in EsclScan(jobs[j].arg) :
          jobs' = [jobs EXCEPT ![j].ans = r] /\ served' = served \cup {r}
      BY <1>3 DEF EsclScanThread, Works
    <2> PICK r \in EsclScan(jobs[j].arg) : jobs' = [jobs EXCEPT ![j].ans = r] /\ served' = served \cup {r}
      OBVIOUS
    <2>1. UNCHANGED <<app, phase, win, inbox>>
      BY <1>3 DEF EsclScanThread, Works
    <2> QED
      BY <1>0, <2>1, WorksStep
  <1>4. CASE DeviceChanges("escl", Sheets)
    BY <1>4, DeviceStep
  <1>5. CASE Click("escl", "query") \/ Click("escl", "pick")
    BY <1>0, <1>5, ClickStep DEF Click
  <1>6. CASE EsclMakeMenu
    <2>1. DOMAIN win' = DOMAIN win /\ win'.entries = win.entries
      BY <1>0, <1>6 DEF EsclMakeMenu
    <2>2. UNCHANGED <<app, phase, jobs, inbox, served>>
      BY <1>6 DEF EsclMakeMenu
    <2>3. ListScreen'
      BY <1>0, <2>1, <2>2, ScreenStays
    <2>4. ListMail'
      BY <2>2 DEF ListMail, Genuine, Listing, Leads, NoAnswer, Browsers
    <2> QED
      BY <2>2, <2>3, <2>4 DEF ListStep
  <1>7. CASE EsclSavePanel
    <2> PICK p : Send("escl", Msg("save", p), [win EXCEPT !.panel = "none"])
      BY <1>7 DEF EsclSavePanel
    <2> PICK w : w = [win EXCEPT !.panel = "none"]
      OBVIOUS
    <2>1. DOMAIN w = DOMAIN win /\ w.entries = win.entries
      BY <1>0
    <2> QED
      BY <1>0, <2>1, ClickStep
  <1>8. CASE EsclQuery
    <2>1. DOMAIN Loading(win) = DOMAIN win /\ Loading(win).entries = win.entries
      BY <1>0 DEF Loading
    <2> QED
      BY <1>0, <1>8, <2>1, HandleStep DEF EsclQuery, Got, Handle, EsclStartQuery
  <1>9. CASE EsclCapsReady
    <2>1. Genuine(arg)
      BY <1>0, <1>9, ArrivedIsGenuine DEF EsclCapsReady, Got
    <2> PICK w : /\ w = IF arg.ok THEN [win EXCEPT !.entries = arg.rows, !.status = "listed"]
                     ELSE [win EXCEPT !.entries = <<>>, !.status = "error"]
                 /\ HandleAnd(w, <<>>, dev)
      BY <1>9 DEF EsclCapsReady, Handle
    <2>2. {"status", "entries"} \subseteq DOMAIN w /\ (w.entries \in {<<>>, win.entries} \/ (arg.ok /\ w.entries = arg.rows))
      BY <1>0
    <2>3. UNCHANGED <<app, served>> /\ win' = w
      BY DEF HandleAnd
    <2>4. ListScreen'
      BY <1>0, <2>1, <2>2, <2>3, ListerShows
    <2> QED
      BY <1>9, <2>4, ShowStep DEF EsclCapsReady, Got
  <1>10. CASE EsclPick
    <2> PICK w : w = [win EXCEPT !.panel = win.format] /\ HandleAnd(w, <<>>, dev)
      BY <1>10 DEF EsclPick, Handle
    <2>1. DOMAIN w = DOMAIN win /\ w.entries = win.entries
      BY <1>0
    <2> QED
      BY <1>0, <1>10, <2>1, HandleStep DEF EsclPick, Got
  <1>11. CASE EsclSave
    <2> PICK w : w = Sending(win) /\ HandleAnd(w, <<"scan", [dest |-> arg, format |-> EsclCurrentOptions]>>, dev)
      BY <1>11 DEF EsclSave, Handle
    <2>1. DOMAIN w = DOMAIN win /\ w.entries = win.entries
      BY <1>0 DEF Sending
    <2> QED
      BY <1>0, <1>11, <2>1, HandleStep DEF EsclSave, Got
  <1>12. CASE EsclScanDone
    <2> PICK w : w = [win EXCEPT !.status = IF arg.ok THEN "saved" ELSE "error"] /\ HandleAnd(w, <<>>, dev)
      BY <1>12 DEF EsclScanDone, Handle
    <2>1. DOMAIN w = DOMAIN win /\ w.entries = win.entries
      BY <1>0
    <2> QED
      BY <1>0, <1>12, <2>1, HandleStep DEF EsclScanDone, Got
  <1> QED
    BY <1>1, <1>2, <1>3, <1>4, <1>5, <1>6, <1>7, <1>8, <1>9, <1>10, <1>11, <1>12 DEF EsclNext

LEMMA NutStep ==
  ASSUME app = "nut", app \in Recorded, phase = "open", ListMail, ListScreen, NutNext
  PROVE  ListStep
  <1>0. /\ ListKind(app) = "info" /\ app \in Listers /\ app \notin Browsers
        /\ {"status", "entries"} \subseteq DOMAIN win
    BY DEF ListKind, Listers, Browsers, ListScreen
  <1>1. CASE NutApp
    BY <1>1 DEF NutApp, Launch, LaunchAnd
  <1>2. CASE NutInfoThread
    <2> PICK j \in DOMAIN jobs : jobs[j].what = "info" /\ \E r \in NutInfo(jobs[j].arg) :
          jobs' = [jobs EXCEPT ![j].ans = r] /\ served' = served \cup {r}
      BY <1>2 DEF NutInfoThread, Works
    <2> PICK r \in NutInfo(jobs[j].arg) : jobs' = [jobs EXCEPT ![j].ans = r] /\ served' = served \cup {r}
      OBVIOUS
    <2>1. UNCHANGED <<app, phase, win, inbox>>
      BY <1>2 DEF NutInfoThread, Works
    <2>2. (app = "ipp" \/ r.ok) => "rows" \in DOMAIN r
      BY DEF NutInfo, Failed
    <2>3. Genuine(r)'
      BY <1>0, <2>1, <2>2, ListerAnswers
    <2> QED
      BY <2>1, <2>3, WorksStep
  <1>3. CASE DeviceChanges("nut", Sheets)
    BY <1>3, DeviceStep
  <1>4. CASE Click("nut", "refresh")
    BY <1>0, <1>4, ClickStep DEF Click
  <1>5. CASE NutRefresh
    <2>1. DOMAIN Loading(win) = DOMAIN win /\ Loading(win).entries = win.entries
      BY <1>0 DEF Loading
    <2> QED
      BY <1>0, <1>5, <2>1, HandleStep DEF NutRefresh, Got, Handle, NutStartInfo
  <1>6. CASE NutInfoReady
    <2>1. Genuine(arg)
      BY <1>0, <1>6, ArrivedIsGenuine DEF NutInfoReady, Got
    <2> PICK w : /\ w = IF arg.ok THEN [win EXCEPT !.entries = arg.rows, !.status = "listed"]
                     ELSE [win EXCEPT !.status = "error"]
                 /\ HandleAnd(w, <<>>, dev)
      BY <1>6 DEF NutInfoReady, Handle
    <2>2. {"status", "entries"} \subseteq DOMAIN w /\ (w.entries \in {<<>>, win.entries} \/ (arg.ok /\ w.entries = arg.rows))
      BY <1>0
    <2>3. UNCHANGED <<app, served>> /\ win' = w
      BY DEF HandleAnd
    <2>4. ListScreen'
      BY <1>0, <2>1, <2>2, <2>3, ListerShows
    <2> QED
      BY <1>6, <2>4, ShowStep DEF NutInfoReady, Got
  <1> QED
    BY <1>1, <1>2, <1>3, <1>4, <1>5, <1>6 DEF NutNext

-----------------------------------------------------------------------------
\* The directories of the tree, and the way up.
LEMMA TreeIs ==
  /\ DOMAIN Tree = {<<>>, <<"d">>}
  /\ Tree[<<>>] = <<Entry("f", FALSE), Entry("d", TRUE)>>
  /\ Tree[<<"d">>] = <<Entry("g", FALSE)>>
  /\ \A p \in DOMAIN Tree : ParentOf(p) \in DOMAIN Tree
  <1>1. DOMAIN Tree = {<<>>, <<"d">>}
    BY DEF Tree
  <1>2. <<"d">> # <<>>
    OBVIOUS
  <1>3. Tree[<<>>] = <<Entry("f", FALSE), Entry("d", TRUE)>> /\ Tree[<<"d">>] = <<Entry("g", FALSE)>>
    BY <1>2 DEF Tree
  <1>4. Front(<<"d">>) = <<>>
    BY DEF Front
  <1> QED
    BY <1>1, <1>2, <1>3, <1>4 DEF ParentOf

LEMMA ShortSeqs ==
  ASSUME NEW a, NEW b
  PROVE  /\ <<a>> \in Seq({a}) /\ Range(<<a>>) = {a}
         /\ <<a, b>> \in Seq({a, b}) /\ Range(<<a, b>>) = {a, b}
  <1> PICK s, t : s = <<a>> /\ t = <<a, b>>
    OBVIOUS
  <1>1. /\ s \in Seq({a}) /\ t \in Seq({a, b}) /\ DOMAIN s = {1} /\ DOMAIN t = {1, 2}
        /\ s[1] = a /\ t[1] = a /\ t[2] = b
    OBVIOUS
  <1>2. Range(s) = {a} /\ Range(t) = {a, b}
    BY <1>1 DEF Range
  <1> QED
    BY <1>1, <1>2

LEMMA FunIsSeq ==
  ASSUME NEW n \in Nat, NEW Y, NEW t \in [1..n -> Y] PROVE t \in Seq(Y)
  OBVIOUS

LEMMA FirstIsSeq ==
  ASSUME NEW X, NEW s \in Seq(X), NEW k \in Nat PROVE FirstOf(s, k) \in Seq(X)
  <1>1. Len(s) \in Nat
    OBVIOUS
  <1>2. PICK n \in Nat : n = (IF k < Len(s) THEN k ELSE Len(s)) /\ n <= Len(s)
    BY <1>1
  <1>3. SubSeq(s, 1, n) \in Seq(X)
    BY <1>2
  <1> QED
    BY <1>2, <1>3 DEF FirstOf

\* The first rows of a directory.
LEMMA FirstRows ==
  ASSUME NEW p \in DOMAIN Tree, NEW k \in Nat
  PROVE  /\ FirstOf(Tree[p], k) \in Seq(Range(Tree[p]))
         /\ \A x \in Range(Tree[p]) : /\ x.isDir \in BOOLEAN
                                      /\ x.isDir => Append(p, x.name) \in DOMAIN Tree
  <1>1. CASE p = <<>>
    <2> PICK a, b : a = Entry("f", FALSE) /\ b = Entry("d", TRUE)
      OBVIOUS
    <2>1. Tree[p] = <<a, b>>
      BY <1>1, TreeIs
    <2>2. Tree[p] \in Seq({a, b}) /\ Range(Tree[p]) = {a, b}
      <3>1. <<a, b>> \in Seq({a, b}) /\ Range(<<a, b>>) = {a, b}
        BY ShortSeqs, Zenon
      <3> QED
        BY <2>1, <3>1, Zenon
    <2>3. FirstOf(Tree[p], k) \in Seq({a, b})
      BY <2>2, FirstIsSeq
    <2>4. a.isDir = FALSE /\ b.isDir = TRUE /\ b.name = "d"
      BY DEF Entry
    <2>5. Append(p, "d") \in DOMAIN Tree
      <3>1. Append(<<>>, "d") = <<"d">>
        OBVIOUS
      <3> QED
        BY <1>1, <3>1, TreeIs
    <2> QED
      BY <2>2, <2>3, <2>4, <2>5
  <1>2. CASE p = <<"d">>
    <2> PICK a : a = Entry("g", FALSE)
      OBVIOUS
    <2>1. Tree[p] = <<a>>
      BY <1>2, TreeIs
    <2>2. Tree[p] \in Seq({a}) /\ Range(Tree[p]) = {a}
      BY <2>1, ShortSeqs
    <2>3. FirstOf(Tree[p], k) \in Seq({a})
      BY <2>2, FirstIsSeq
    <2>4. a.isDir = FALSE
      BY DEF Entry
    <2> QED
      BY <2>2, <2>3, <2>4
  <1> QED
    BY <1>1, <1>2, TreeIs

\* What the two browsers are told of a directory is a listing of it.
LEMMA FtpTells ==
  ASSUME app = "ftp", NEW p \in DOMAIN Tree, NEW r \in FtpList(p), r.ok
  PROVE  "rows" \in DOMAIN r /\ r.path = p /\ Listing(p, r.rows)
  <1>1. PICK k \in 0..2 : r = [ok |-> TRUE, path |-> p, rows |-> FirstOf(Tree[p], k)]
    BY DEF FtpList, FtpReplies, FtpParseListing, Failed
  <1>2. r.rows \in Seq(Range(Tree[p]))
    BY <1>1, FirstRows
  <1>3. r.rows \in Seq(Range(r.rows)) /\ Range(r.rows) \subseteq Range(Tree[p])
    <2> PICK s, X : s = r.rows /\ X = Range(Tree[p])
      OBVIOUS
    <2>1. s \in Seq(X)
      BY <1>2
    <2>2. s \in Seq(Range(s)) /\ Range(s) \subseteq X
      BY <2>1, OwnRange DEF Range
    <2> QED
      BY <2>2
  <1> QED
    BY <1>1, <1>3, FirstRows DEF Listing, Leads

LEMMA DavTells ==
  ASSUME app = "webdav", NEW p \in DOMAIN Tree, NEW r \in DavList(p), r.ok
  PROVE  "rows" \in DOMAIN r /\ r.path = p /\ Listing(p, r.rows)
  <1>1. PICK k \in 0..2 : r = [ok |-> TRUE, path |-> p, rows |-> DavParseMultistatus(p, k)]
    BY DEF DavList, DavReplies, Failed
  <1> PICK s : s = FirstOf(Tree[p], k)
    OBVIOUS
  <1>2. s \in Seq(Range(Tree[p]))
    BY FirstRows
  <1> PICK t : t = [i \in DOMAIN s |->
                     [name |-> s[i].name, isDir |-> s[i].isDir, href |-> Append(p, s[i].name)]]
    OBVIOUS
  <1>3. r.rows = t
    BY <1>1 DEF DavParseMultistatus
  <1>4. DOMAIN t = 1..Len(s) /\ Len(s) \in Nat /\ \A i \in 1..Len(s) : s[i] \in Range(Tree[p])
    BY <1>2
  <1>5. t \in Seq(Range(t))
    <2> PICK Y, n : Y = Range(t) /\ n = Len(s)
      OBVIOUS
    <2>1. \A i \in 1..n : t[i] \in Y
      BY <1>4 DEF Range
    <2>2. t = [i \in 1..n |-> t[i]]
      BY <1>4
    <2>3. n \in Nat /\ t \in [1..n -> Y]
      BY <1>4, <2>1, <2>2
    <2>4. t \in Seq(Y)
      BY <2>3, FunIsSeq
    <2> QED
      BY <2>4
  <1>6. \A i \in DOMAIN t : t[i].isDir = s[i].isDir /\ t[i].href = Append(p, s[i].name)
    OBVIOUS
  <1>7. ASSUME NEW x \in Range(t) PROVE x.isDir \in BOOLEAN /\ (x.isDir => x.href \in DOMAIN Tree)
    <2> PICK i \in DOMAIN t : x = t[i]
      BY DEF Range
    <2>1. x.isDir = s[i].isDir /\ x.href = Append(p, s[i].name) /\ s[i] \in Range(Tree[p])
      BY <1>4, <1>6
    <2> QED
      BY <2>1, FirstRows
  <1> QED
    BY <1>1, <1>3, <1>5, <1>7 DEF Listing, Leads

-----------------------------------------------------------------------------
BrowserFields == {"status", "path", "entries", "sel", "pending", "panel"}

\* A browser window is cleared, or shows the rows of a genuine answer.
LEMMA BrowserCleared ==
  ASSUME app \in Browsers, UNCHANGED <<app, served>>, DOMAIN win' = BrowserFields,
         win'.path \in DOMAIN Tree, win'.entries = <<>>, win'.sel = 0
  PROVE  ListScreen'
  <1>1. <<>> \in Seq(Range(<<>>)) /\ Range(<<>>) = {} /\ Len(<<>>) = 0
    BY DEF Range
  <1>2. app' \in Browsers /\ app' \notin Listers
    BY DEF Browsers, Listers
  <1>3. Listing(win.path, win.entries)'
    BY <1>1 DEF Listing
  <1> QED
    BY <1>1, <1>2, <1>3 DEF ListScreen, BrowserFields

LEMMA BrowserShows ==
  ASSUME app \in Browsers, UNCHANGED <<app, served>>, NEW r, Genuine(r), r.ok,
         NEW up, up.name = "..", up.isDir = TRUE, Leads(r.path, up),
         DOMAIN win' = BrowserFields, win'.path = r.path, win'.sel = 0,
         win'.entries = Rows(r.path, up, r.rows)
  PROVE  ListScreen'
  <1> PICK rows, X : rows = r.rows /\ X = Range(rows)
    OBVIOUS
  <1>1. /\ rows \in Seq(X) /\ \A x \in X : x.isDir \in BOOLEAN /\ Leads(r.path, x)
        /\ r \in served /\ "rows" \in DOMAIN r /\ r.path \in DOMAIN Tree
    BY DEF Genuine, Listing
  <1> PICK s : s = Rows(r.path, up, rows)
    OBVIOUS
  <1>2. s \in Seq(X \cup {up}) /\ Range(s) \subseteq X \cup {up}
    BY <1>1, RowsAre
  <1>3. NamesOf(s) = NamesOf(rows)
    BY <1>1, RowsNames
  <1>4. s \in Seq(Range(s)) /\ Len(s) \in Nat
    BY <1>2, OwnRange
  <1>5. \A x \in Range(s) : x.isDir \in BOOLEAN /\ Leads(r.path, x)
    BY <1>1, <1>2
  <1>6. Listing(win.path, win.entries)'
    BY <1>4, <1>5 DEF Listing, Leads
  <1>7. app' \in Browsers /\ app' \notin Listers
    BY DEF Browsers, Listers
  <1>8. win'.sel \in 0..Len(win'.entries)
    BY <1>4
  <1> QED
    BY <1>1, <1>3, <1>6, <1>7, <1>8 DEF ListScreen, BrowserFields

\* A double-click, the save panel, and the start of a thread.
LEMMA PickRowStep ==
  ASSUME app \in Browsers, ListMail, ListScreen, ListKind(app) = "list", PickRow(app) PROVE ListStep
  <1> PICK i \in 1..Len(win.entries) : Send(app, Msg("open", "none"), [win EXCEPT !.sel = i])
    BY DEF PickRow
  <1> PICK w : w = [win EXCEPT !.sel = i]
    OBVIOUS
  <1>1. /\ DOMAIN w = DOMAIN win /\ w.entries = win.entries /\ w.path = win.path
        /\ w.sel \in 0..Len(win.entries)
    BY DEF ListScreen
  <1> QED
    BY <1>1, ClickStep
LEMMA SavePanelStep ==
  ASSUME app \in Browsers, ListMail, ListScreen, ListKind(app) = "list", SavePanel(app) PROVE ListStep
  <1> PICK w : w = [win EXCEPT !.panel = "none"] /\ Send(app, Msg("save", win.panel), w)
    BY DEF SavePanel
  <1>1. /\ DOMAIN w = DOMAIN win /\ w.entries = win.entries /\ w.path = win.path
        /\ w.sel \in 0..Len(win.entries)
    BY DEF ListScreen
  <1> QED
    BY <1>1, ClickStep
LEMMA BrowserLoads ==
  ASSUME app \in Browsers, ListMail, ListScreen, inbox # <<>>, NEW what, NEW x, NEW d,
         HandleAnd(Loading(win), <<what, x>>, d), what = "list" => x \in DOMAIN Tree
  PROVE  ListStep
  <1> PICK w : w = Loading(win)
    OBVIOUS
  <1>1. DOMAIN w = DOMAIN win /\ w.entries = win.entries /\ w.path = win.path /\ w.sel = win.sel
    BY DEF ListScreen, Loading
  <1> QED
    BY <1>1, HandleStep
LEMMA BrowserAsks ==
  ASSUME app \in Browsers, ListMail, ListScreen, inbox # <<>>, NEW p, NEW name, NEW d,
         HandleAnd([win EXCEPT !.pending = p, !.panel = name], <<>>, d)
  PROVE  ListStep
  <1> PICK w : w = [win EXCEPT !.pending = p, !.panel = name]
    OBVIOUS
  <1>1. DOMAIN w = DOMAIN win /\ w.entries = win.entries /\ w.path = win.path /\ w.sel = win.sel
    BY DEF ListScreen
  <1> QED
    BY <1>1, HandleStep

LEMMA FtpStep ==
  ASSUME app = "ftp", app \in Recorded, phase = "open", ListMail, ListScreen, FtpNext
  PROVE  ListStep
  <1>0. /\ ListKind(app) = "list" /\ app \notin Listers /\ app \in Browsers
        /\ DOMAIN win = BrowserFields /\ win.path \in DOMAIN Tree /\ Listing(win.path, win.entries)
        /\ win.sel \in 0..Len(win.entries)
    BY DEF ListKind, Listers, Browsers, ListScreen, BrowserFields
  <1>1. CASE FtpApp
    BY <1>1 DEF FtpApp, Launch, LaunchAnd
  <1>2. CASE FtpListThread
    <2> PICK j \in DOMAIN jobs : jobs[j].what = "list" /\ \E r \in FtpList(jobs[j].arg) :
          jobs' = [jobs EXCEPT ![j].ans = r] /\ served' = served \cup {r}
      BY <1>2 DEF FtpListThread, Works
    <2> PICK r \in FtpList(jobs[j].arg) : jobs' = [jobs EXCEPT ![j].ans = r] /\ served' = served \cup {r}
      OBVIOUS
    <2>1. UNCHANGED <<app, phase, win, inbox>>
      BY <1>2 DEF FtpListThread, Works
    <2>2. jobs[j].arg \in DOMAIN Tree
      BY <1>0 DEF ListMail
    <2>3. r.ok => "rows" \in DOMAIN r /\ r.path = jobs[j].arg /\ Listing(jobs[j].arg, r.rows)
      BY <2>2, FtpTells
    <2>4. Genuine(r)'
      BY <1>0, <2>1, <2>2, <2>3 DEF Genuine, Listing, Leads
    <2> QED
      BY <2>1, <2>4, WorksStep
  <1>3. CASE FtpRetrThread
    <2> PICK j \in DOMAIN jobs : jobs[j].what = "retr" /\ \E r \in FtpRetrieve(jobs[j].arg) :
          jobs' = [jobs EXCEPT ![j].ans = r] /\ served' = served \cup {r}
      BY <1>3 DEF FtpRetrThread, Works
    <2> PICK r \in FtpRetrieve(jobs[j].arg) : jobs' = [jobs EXCEPT ![j].ans = r] /\ served' = served \cup {r}
      OBVIOUS
    <2>1. UNCHANGED <<app, phase, win, inbox>>
      BY <1>3 DEF FtpRetrThread, Works
    <2> QED
      BY <1>0, <2>1, WorksStep
  <1>4. CASE Click("ftp", "connect")
    BY <1>0, <1>4, ClickStep DEF Click
  <1>5. CASE PickRow("ftp")
    BY <1>0, <1>5, PickRowStep
  <1>6. CASE SavePanel("ftp")
    BY <1>0, <1>6, SavePanelStep
  <1>7. CASE FtpConnectButton
    <2>1. FtpStartList(<<>>) = <<"list", <<>>>> /\ <<>> \in DOMAIN Tree
      BY TreeIs DEF FtpStartList
    <2> QED
      BY <1>0, <1>7, <2>1, BrowserLoads DEF FtpConnectButton, Got, Handle
  <1>8. CASE FtpListReady
    <2>1. Genuine(arg)
      BY <1>0, <1>8, ArrivedIsGenuine DEF FtpListReady, Got
    <2>2. CASE ~arg.ok
      <3> PICK w : w = [Cleared(win) EXCEPT !.status = "error"]
        OBVIOUS
      <3>1. HandleAnd(w, <<>>, dev)
        BY <1>8, <2>2 DEF FtpListReady, Handle
      <3>2. DOMAIN w = BrowserFields /\ w.entries = <<>> /\ w.sel = 0 /\ w.path = win.path
        BY <1>0 DEF Cleared, BrowserFields
      <3>3. win' = w => ListScreen'
        BY <1>0, <3>1, <3>2, BrowserCleared DEF HandleAnd
      <3> QED
        BY <1>8, <3>1, <3>3, ShowStep DEF FtpListReady, Got
    <2>3. CASE arg.ok
      <3> PICK up : up = Entry("..", TRUE)
        OBVIOUS
      <3>1. up.name = ".." /\ up.isDir = TRUE /\ Leads(arg.path, up)
        BY <1>0, <2>1, <2>3, TreeIs DEF Entry, Leads, Genuine
      <3> PICK w : w = [Cleared(win) EXCEPT !.path = arg.path, !.entries = Rows(arg.path, up, arg.rows),
                                            !.status = "listed"]
        OBVIOUS
      <3>2. HandleAnd(w, <<>>, dev)
        BY <1>8, <2>3 DEF FtpListReady, Handle
      <3>3. /\ DOMAIN w = BrowserFields /\ w.sel = 0 /\ w.path = arg.path
            /\ w.entries = Rows(arg.path, up, arg.rows)
        BY <1>0 DEF Cleared, BrowserFields
      <3>4. win' = w => ListScreen'
        BY <1>0, <2>1, <2>3, <3>1, <3>2, <3>3, BrowserShows DEF HandleAnd
      <3> QED
        BY <1>8, <3>2, <3>4, ShowStep DEF FtpListReady, Got
    <2> QED
      BY <2>2, <2>3
  <1>9. CASE FtpOpen
    <2>0. inbox # <<>>
      BY <1>9 DEF FtpOpen, Got
    <2>1. CASE win.sel = 0
      BY <1>9, <2>0, <2>1, HandleStep DEF FtpOpen, Handle
    <2>2. CASE win.sel # 0
      <3> PICK e : e = win.entries[win.sel]
        OBVIOUS
      <3>1. win.sel \in DOMAIN win.entries /\ Leads(win.path, e)
        BY <1>0, <2>2 DEF Listing, Range
      <3>2. CASE e.isDir
        <4> PICK p : p = IF e.name = ".." THEN ParentOf(win.path) ELSE Append(win.path, e.name)
          OBVIOUS
        <4>1. HandleAnd(Loading(win), <<"list", p>>, dev)
          BY <1>9, <2>2, <3>2 DEF FtpOpen, Handle, FtpStartList
        <4>2. p \in DOMAIN Tree
          BY <1>0, <3>1, <3>2, TreeIs DEF Leads
        <4> QED
          BY <1>0, <2>0, <4>1, <4>2, BrowserLoads
      <3>3. CASE ~e.isDir
        <4>1. HandleAnd([win EXCEPT !.pending = Append(win.path, e.name), !.panel = e.name], <<>>, dev)
          BY <1>9, <2>2, <3>3 DEF FtpOpen, Handle
        <4> QED
          BY <1>0, <2>0, <4>1, BrowserAsks
      <3> QED
        BY <3>2, <3>3
    <2> QED
      BY <2>1, <2>2
  <1>10. CASE FtpSaveFile
    <2> PICK x : HandleAnd(Loading(win), <<"retr", x>>, dev)
      BY <1>10 DEF FtpSaveFile, Handle
    <2> QED
      BY <1>0, <1>10, BrowserLoads DEF FtpSaveFile, Got
  <1>11. CASE FtpDownDone
    <2> PICK w : w = Downloaded(win, arg)
      OBVIOUS
    <2>1. DOMAIN w = DOMAIN win /\ w.entries = win.entries /\ w.path = win.path /\ w.sel = win.sel
      BY <1>0 DEF Downloaded, BrowserFields
    <2> QED
      BY <1>11, <2>1, HandleStep DEF FtpDownDone, Got, Handle
  <1> QED
    BY <1>1, <1>2, <1>3, <1>4, <1>5, <1>6, <1>7, <1>8, <1>9, <1>10, <1>11 DEF FtpNext

LEMMA DavStep ==
  ASSUME app = "webdav", app \in Recorded, phase = "open", ListMail, ListScreen, DavNext
  PROVE  ListStep
  <1>0. /\ ListKind(app) = "list" /\ app \notin Listers /\ app \in Browsers
        /\ DOMAIN win = BrowserFields /\ win.path \in DOMAIN Tree /\ Listing(win.path, win.entries)
        /\ win.sel \in 0..Len(win.entries)
    BY DEF ListKind, Listers, Browsers, ListScreen, BrowserFields
  <1>1. CASE DavApp
    BY <1>1 DEF DavApp, Launch, LaunchAnd
  <1>2. CASE DavListThread
    <2> PICK j \in DOMAIN jobs : jobs[j].what = "list" /\ \E r \in DavList(jobs[j].arg) :
          jobs' = [jobs EXCEPT ![j].ans = r] /\ served' = served \cup {r}
      BY <1>2 DEF DavListThread, Works
    <2> PICK r \in DavList(jobs[j].arg) : jobs' = [jobs EXCEPT ![j].ans = r] /\ served' = served \cup {r}
      OBVIOUS
    <2>1. UNCHANGED <<app, phase, win, inbox>>
      BY <1>2 DEF DavListThread, Works
    <2>2. jobs[j].arg \in DOMAIN Tree
      BY <1>0 DEF ListMail
    <2>3. r.ok => "rows" \in DOMAIN r /\ r.path = jobs[j].arg /\ Listing(jobs[j].arg, r.rows)
      BY <2>2, DavTells
    <2>4. Genuine(r)'
      BY <1>0, <2>1, <2>2, <2>3 DEF Genuine, Listing, Leads
    <2> QED
      BY <2>1, <2>4, WorksStep
  <1>3. CASE DavDownThread
    <2> PICK j \in DOMAIN jobs : jobs[j].what = "down" /\ \E r \in DavDownload(jobs[j].arg) :
          jobs' = [jobs EXCEPT ![j].ans = r] /\ served' = served \cup {r}
      BY <1>3 DEF DavDownThread, Works
    <2> PICK r \in DavDownload(jobs[j].arg) : jobs' = [jobs EXCEPT ![j].ans = r] /\ served' = served \cup {r}
      OBVIOUS
    <2>1. UNCHANGED <<app, phase, win, inbox>>
      BY <1>3 DEF DavDownThread, Works
    <2> QED
      BY <1>0, <2>1, WorksStep
  <1>4. CASE Click("webdav", "connect")
    BY <1>0, <1>4, ClickStep DEF Click
  <1>5. CASE PickRow("webdav")
    BY <1>0, <1>5, PickRowStep
  <1>6. CASE SavePanel("webdav")
    BY <1>0, <1>6, SavePanelStep
  <1>7. CASE DavConnectButton
    <2>1. DavStartList(<<>>) = <<"list", <<>>>> /\ <<>> \in DOMAIN Tree
      BY TreeIs DEF DavStartList
    <2> QED
      BY <1>0, <1>7, <2>1, BrowserLoads DEF DavConnectButton, Got, Handle
  <1>8. CASE DavListReady
    <2>1. Genuine(arg)
      BY <1>0, <1>8, ArrivedIsGenuine DEF DavListReady, Got
    <2>2. CASE ~arg.ok
      <3> PICK w : w = [Cleared(win) EXCEPT !.status = "error"]
        OBVIOUS
      <3>1. HandleAnd(w, <<>>, dev)
        BY <1>8, <2>2 DEF DavListReady, Handle
      <3>2. DOMAIN w = BrowserFields /\ w.entries = <<>> /\ w.sel = 0 /\ w.path = win.path
        BY <1>0 DEF Cleared, BrowserFields
      <3>3. win' = w => ListScreen'
        BY <1>0, <3>1, <3>2, BrowserCleared DEF HandleAnd
      <3> QED
        BY <1>8, <3>1, <3>3, ShowStep DEF DavListReady, Got
    <2>3. CASE arg.ok
      <3> PICK up : up = [name |-> "..", isDir |-> TRUE, href |-> ParentOf(arg.path)]
        OBVIOUS
      <3>1. up.name = ".." /\ up.isDir = TRUE /\ Leads(arg.path, up)
        BY <1>0, <2>1, <2>3, TreeIs DEF Leads, Genuine
      <3> PICK w : w = [Cleared(win) EXCEPT !.path = arg.path, !.entries = Rows(arg.path, up, arg.rows),
                                            !.status = "listed"]
        OBVIOUS
      <3>2. HandleAnd(w, <<>>, dev)
        BY <1>8, <2>3 DEF DavListReady, Handle
      <3>3. /\ DOMAIN w = BrowserFields /\ w.sel = 0 /\ w.path = arg.path
            /\ w.entries = Rows(arg.path, up, arg.rows)
        BY <1>0 DEF Cleared, BrowserFields
      <3>4. win' = w => ListScreen'
        BY <1>0, <2>1, <2>3, <3>1, <3>2, <3>3, BrowserShows DEF HandleAnd
      <3> QED
        BY <1>8, <3>2, <3>4, ShowStep DEF DavListReady, Got
    <2> QED
      BY <2>2, <2>3
  <1>9. CASE DavOpen
    <2>0. inbox # <<>>
      BY <1>9 DEF DavOpen, Got
    <2>1. CASE win.sel = 0
      BY <1>9, <2>0, <2>1, HandleStep DEF DavOpen, Handle
    <2>2. CASE win.sel # 0
      <3> PICK e : e = win.entries[win.sel]
        OBVIOUS
      <3>1. win.sel \in DOMAIN win.entries /\ Leads(win.path, e)
        BY <1>0, <2>2 DEF Listing, Range
      <3>2. CASE e.isDir
        <4>1. HandleAnd(Loading(win), <<"list", e.href>>, dev)
          BY <1>9, <2>2, <3>2 DEF DavOpen, Handle, DavStartList
        <4>2. e.href \in DOMAIN Tree
          BY <1>0, <3>1, <3>2 DEF Leads
        <4> QED
          BY <1>0, <2>0, <4>1, <4>2, BrowserLoads
      <3>3. CASE ~e.isDir
        <4>1. HandleAnd([win EXCEPT !.pending = e.href, !.panel = e.name], <<>>, dev)
          BY <1>9, <2>2, <3>3 DEF DavOpen, Handle
        <4> QED
          BY <1>0, <2>0, <4>1, BrowserAsks
      <3> QED
        BY <3>2, <3>3
    <2> QED
      BY <2>1, <2>2
  <1>10. CASE DavSaveFile
    <2> PICK x : HandleAnd(Loading(win), <<"down", x>>, dev)
      BY <1>10 DEF DavSaveFile, Handle
    <2> QED
      BY <1>0, <1>10, BrowserLoads DEF DavSaveFile, Got
  <1>11. CASE DavDownDone
    <2> PICK w : w = Downloaded(win, arg)
      OBVIOUS
    <2>1. DOMAIN w = DOMAIN win /\ w.entries = win.entries /\ w.path = win.path /\ w.sel = win.sel
      BY <1>0 DEF Downloaded, BrowserFields
    <2> QED
      BY <1>11, <2>1, HandleStep DEF DavDownDone, Got, Handle
  <1> QED
    BY <1>1, <1>2, <1>3, <1>4, <1>5, <1>6, <1>7, <1>8, <1>9, <1>10, <1>11 DEF DavNext

-----------------------------------------------------------------------------
\* A step of a window belongs to its application, which is opening the window or has it open.
LEMMA SharesOwn ==
  /\ FtpNext => app = "ftp" /\ (FtpApp \/ phase = "open")
  /\ DavNext => app = "webdav" /\ (DavApp \/ phase = "open")
  /\ NfsNext => app = "nfs" /\ (NfsApp \/ phase = "open")
  /\ AfpNext => app = "afp" /\ (AfpApp \/ phase = "open")
  /\ DaapNext => app = "daap" /\ (DaapApp \/ phase = "open")
  <1>1. FtpNext => app = "ftp" /\ (FtpApp \/ phase = "open")
    BY DEF FtpNext, FtpApp, Launch, LaunchAnd, FtpListThread, Works, FtpRetrThread, Click, Send, PickRow,
           SavePanel, FtpConnectButton, Got, FtpListReady, FtpOpen, FtpSaveFile, FtpDownDone
  <1>2. DavNext => app = "webdav" /\ (DavApp \/ phase = "open")
    BY DEF DavNext, DavApp, Launch, LaunchAnd, DavListThread, Works, DavDownThread, Click, Send, PickRow,
           SavePanel, DavConnectButton, Got, DavListReady, DavOpen, DavSaveFile, DavDownDone
  <1>3. NfsNext => app = "nfs" /\ (NfsApp \/ phase = "open")
    BY DEF NfsNext, NfsApp, Launch, LaunchAnd, NfsProbeThread, Works, DeviceChanges, Click, Send,
           NfsPickRow, NfsProbe, Got, NfsExportsReady, NfsCopy
  <1>4. AfpNext => app = "afp" /\ (AfpApp \/ phase = "open")
    BY DEF AfpNext, AfpApp, Launch, LaunchAnd, AfpStatusThread, Works, DeviceChanges, Click, Send,
           AfpProbe, Got, AfpStatusReady
  <1>5. DaapNext => app = "daap" /\ (DaapApp \/ phase = "open")
    BY DEF DaapNext, DaapApp, Launch, LaunchAnd, DaapLoadThread, Works, DeviceChanges, Click, Send,
           DaapLoad, Got, DaapTracksReady
  <1> QED
    BY <1>1, <1>2, <1>3, <1>4, <1>5

LEMMA OfficesOwn ==
  /\ IppNext => app = "ipp" /\ (IppApp \/ phase = "open")
  /\ EsclNext => app = "escl" /\ (EsclApp \/ phase = "open")
  /\ NutNext => app = "nut" /\ (NutApp \/ phase = "open")
  <1>1. IppNext => app = "ipp" /\ (IppApp \/ phase = "open")
    BY DEF IppNext, IppApp, Launch, LaunchAnd, IppQueryThread, Works, IppPrintThread, DeviceChanges,
           Click, Send, IppChooseFile, IppQuery, Got, IppAttrsReady, IppPick, IppFileChosen,
           IppPrintDone
  <1>2. EsclNext => app = "escl" /\ (EsclApp \/ phase = "open")
    BY DEF EsclNext, EsclApp, Launch, LaunchAnd, EsclQueryThread, Works, EsclScanThread, DeviceChanges,
           Click, Send, EsclMakeMenu, EsclSavePanel, EsclQuery, Got, EsclCapsReady, EsclPick,
           EsclSave, EsclScanDone
  <1>3. NutNext => app = "nut" /\ (NutApp \/ phase = "open")
    BY DEF NutNext, NutApp, Launch, LaunchAnd, NutInfoThread, Works, DeviceChanges, Click, Send,
           NutRefresh, Got, NutInfoReady
  <1> QED
    BY <1>1, <1>2, <1>3

\* The window opens, empty, or the application quits.
ListOpens ==
  /\ phase' = "quit" \/ (phase' = "open" /\ ListMail' /\ ListScreen')
  /\ UNCHANGED served
LEMMA LaunchStep ==
  ASSUME inbox = <<>>, app \in Listers \cup Browsers, NEW a, NEW w, NEW what, NEW x,
         Launch(a, w, <<what, x>>), {"status", "entries"} \subseteq DOMAIN w, w.entries = <<>>,
         app \in Browsers => w = BrowserWindow /\ x \in DOMAIN Tree
  PROVE  ListOpens
  <1>1. LaunchAnd(a, w, <<<<what, x>>>>, dev)
    BY DEF Launch
  <1>2. UNCHANGED <<app, served>> /\ inbox' = <<>>
    BY <1>1 DEF LaunchAnd
  <1>3. CASE phase' = "quit"
    BY <1>2, <1>3 DEF ListOpens
  <1>4. CASE phase' = "open" /\ SpawnAll(<<<<what, x>>>>) /\ win' = w
    <2>1. ListMail'
      BY <1>2, <1>4, MailLaunch
    <2>2. CASE app \in Browsers
      <3>1. DOMAIN win' = BrowserFields /\ win'.path = <<>> /\ win'.entries = <<>> /\ win'.sel = 0
        BY <1>4, <2>2 DEF BrowserWindow, BrowserFields
      <3>2. <<>> \in DOMAIN Tree
        BY DEF Tree
      <3>3. ListScreen'
        BY <1>2, <2>2, <3>1, <3>2, BrowserCleared
      <3> QED
        BY <1>2, <1>4, <2>1, <3>3 DEF ListOpens
    <2>3. CASE app \notin Browsers
      <3>1. ListScreen'
        BY <1>2, <1>4, <2>3 DEF ListScreen, Browsers, Listers
      <3> QED
        BY <1>2, <1>4, <2>1, <3>1 DEF ListOpens
    <2> QED
      BY <2>2, <2>3
  <1> QED
    BY <1>1, <1>3, <1>4 DEF LaunchAnd

ListApp == FtpApp \/ DavApp \/ NfsApp \/ AfpApp \/ DaapApp \/ IppApp \/ EsclApp \/ NutApp

LEMMA ListLaunch ==
  ASSUME ListInv, app \in Recorded, ListApp PROVE ListOpens
  <1>1. inbox = <<>> /\ app \in Listers \cup Browsers
    BY DEF ListApp, FtpApp, DavApp, NfsApp, AfpApp, DaapApp, IppApp, EsclApp, NutApp, Launch, LaunchAnd,
           ListInv, Listers, Browsers
  <1>2. CASE FtpApp
    <2>1. Launch("ftp", BrowserWindow, <<"list", <<>>>>) /\ <<>> \in DOMAIN Tree
      BY <1>2 DEF FtpApp, FtpStartList, Tree
    <2>2. {"status", "entries"} \subseteq DOMAIN BrowserWindow /\ BrowserWindow.entries = <<>>
      BY DEF BrowserWindow
    <2> QED
      BY <1>1, <2>1, <2>2, LaunchStep
  <1>3. CASE DavApp
    <2>1. Launch("webdav", BrowserWindow, <<"list", <<>>>>) /\ <<>> \in DOMAIN Tree
      BY <1>3 DEF DavApp, DavStartList, DavWindow, Tree
    <2>2. {"status", "entries"} \subseteq DOMAIN BrowserWindow /\ BrowserWindow.entries = <<>>
      BY DEF BrowserWindow
    <2> QED
      BY <1>1, <2>1, <2>2, LaunchStep
  <1>4. CASE NfsApp
    <2>1. Launch("nfs", NfsWindow, <<"exports", "none">>) /\ app \notin Browsers
      BY <1>4 DEF NfsApp, NfsStartProbe, Launch, LaunchAnd, Browsers
    <2>2. {"status", "entries"} \subseteq DOMAIN NfsWindow /\ NfsWindow.entries = <<>>
      BY DEF NfsWindow
    <2> QED
      BY <1>1, <2>1, <2>2, LaunchStep
  <1>5. CASE AfpApp
    <2>1. Launch("afp", AfpWindow, <<"status", "none">>) /\ app \notin Browsers
      BY <1>5 DEF AfpApp, AfpStartProbe, Launch, LaunchAnd, Browsers
    <2>2. {"status", "entries"} \subseteq DOMAIN AfpWindow /\ AfpWindow.entries = <<>>
      BY DEF AfpWindow
    <2> QED
      BY <1>1, <2>1, <2>2, LaunchStep
  <1>6. CASE DaapApp
    <2>1. Launch("daap", DaapWindow, <<"tracks", "none">>) /\ app \notin Browsers
      BY <1>6 DEF DaapApp, DaapStartLoad, Launch, LaunchAnd, Browsers
    <2>2. {"status", "entries"} \subseteq DOMAIN DaapWindow /\ DaapWindow.entries = <<>>
      BY DEF DaapWindow
    <2> QED
      BY <1>1, <2>1, <2>2, LaunchStep
  <1>7. CASE IppApp
    <2>1. Launch("ipp", IppWindow, <<"attrs", [file |-> "none"]>>) /\ app \notin Browsers
      BY <1>7 DEF IppApp, IppStartQuery, Launch, LaunchAnd, Browsers
    <2>2. {"status", "entries"} \subseteq DOMAIN IppWindow /\ IppWindow.entries = <<>>
      BY DEF IppWindow
    <2> QED
      BY <1>1, <2>1, <2>2, LaunchStep
  <1>8. CASE EsclApp
    <2>1. Launch("escl", EsclWindow, <<"caps", [dest |-> "none"]>>) /\ app \notin Browsers
      BY <1>8 DEF EsclApp, EsclStartQuery, Launch, LaunchAnd, Browsers
    <2>2. {"status", "entries"} \subseteq DOMAIN EsclWindow /\ EsclWindow.entries = <<>>
      BY DEF EsclWindow
    <2> QED
      BY <1>1, <2>1, <2>2, LaunchStep
  <1>9. CASE NutApp
    <2>1. Launch("nut", NutWindow, <<"info", "none">>) /\ app \notin Browsers
      BY <1>9 DEF NutApp, NutStartInfo, Launch, LaunchAnd, Browsers
    <2>2. {"status", "entries"} \subseteq DOMAIN NutWindow /\ NutWindow.entries = <<>>
      BY DEF NutWindow
    <2> QED
      BY <1>1, <2>1, <2>2, LaunchStep
  <1> QED
    BY <1>2, <1>3, <1>4, <1>5, <1>6, <1>7, <1>8, <1>9 DEF ListApp

\* Every step of a list window.
ListMoves ==
  \/ (phase' = "quit" /\ UNCHANGED served)
  \/ ListOpens
  \/ (phase = "open" /\ ListStep)

LEMMA ListNext ==
  ASSUME ListInv, app \in Recorded \cap (Listers \cup Browsers), Next PROVE ListMoves
  <1>1. phase = "open" => ListMail /\ ListScreen
    BY DEF ListInv
  <1>2. CASE PostAnswer
    <2>1. phase = "open" /\ UNCHANGED <<app, phase, win, served>>
      BY <1>2 DEF PostAnswer
    <2>2. ListMail'
      BY <1>1, <1>2, <2>1, MailPost
    <2>3. ListScreen'
      BY <1>1, <2>1, ScreenStays DEF ListScreen
    <2> QED
      BY <2>1, <2>2, <2>3 DEF ListMoves, ListStep
  <1>3. CASE CloseWindow
    BY <1>3 DEF CloseWindow, ListMoves
  <1>4. CASE ListApp
    BY <1>4, ListLaunch DEF ListMoves
  <1>5. CASE ShareNext
    BY <1>1, <1>4, <1>5, SharesOwn, FtpStep, DavStep, NfsStep, AfpStep, DaapStep
       DEF ShareNext, ListApp, ListMoves
  <1>6. CASE OfficeNext
    BY <1>1, <1>4, <1>6, OfficesOwn, IppStep, EsclStep, NutStep DEF OfficeNext, ListApp, ListMoves
  <1> QED
    BY <1>2, <1>3, <1>5, <1>6 DEF Next, Listers, Browsers, Viewers, InfoApps

LEMMA ListStarts == Init => ListInv
  BY DEF Init, ShareInit, OfficeInit, HomeInit, ShellyInit, SpotifyInit, InfoInit, FireTvInit,
         CameraInit, SmbInit, CastInit, WonInit, AppInit, ListInv

LEMMA ListInvStep == ListInv /\ [Next]_vars => ListInv'
  <1> SUFFICES ASSUME ListInv, [Next]_vars PROVE ListInv'
    OBVIOUS
  <1>1. app' = app
    BY AppStays
  <1>2. CASE UNCHANGED vars
    BY <1>2 DEF vars, ListInv, ListMail, ListScreen, Genuine, Listing, Leads, NoAnswer, Browsers,
                Listers
  <1>3. CASE Next /\ app \in Recorded \cap (Listers \cup Browsers)
    <2>1. CASE ListOpens \/ phase' = "quit"
      BY <2>1 DEF ListOpens, ListInv
    <2>2. CASE phase = "open" /\ ListStep
      BY <2>2 DEF ListStep, ListInv
    <2> QED
      BY <1>3, <2>1, <2>2, ListNext DEF ListMoves
  <1>4. CASE Next /\ app \notin Recorded \cap (Listers \cup Browsers)
    BY <1>1, <1>4 DEF ListInv, Listers, Browsers
  <1> QED
    BY <1>2, <1>3, <1>4

-----------------------------------------------------------------------------
\* What an open list window shows is blank or an answer.
ShowsOne == Shown \in Answered \cup {BlankScreen}
LEMMA ScreenIsAnswer == ListInv => ShowsOne
  <1> SUFFICES ASSUME ListInv, Shown # BlankScreen PROVE Shown \in Answered
    BY DEF ShowsOne
  <1>1. CASE phase = "open" /\ app \in Recorded \cap Listers /\ win.entries # <<>>
    <2>1. Shown = [rows |-> win.entries]
      BY <1>1 DEF Shown, Listers, Browsers
    <2>2. PICK r \in served : "rows" \in DOMAIN r /\ win.entries = r.rows
      BY <1>1 DEF ListInv, ListScreen
    <2>3. app \notin Browsers
      BY <1>1 DEF Listers, Browsers
    <2> QED
      BY <2>1, <2>2, <2>3 DEF Answered
  <1>2. CASE phase = "open" /\ app \in Recorded \cap Browsers /\ win.entries # <<>>
    <2>1. Shown = [path |-> win.path, names |-> NamesOf(win.entries)]
      BY <1>2 DEF Shown, Listers, Browsers
    <2>2. PICK r \in served : "rows" \in DOMAIN r /\ win.path = r.path /\ NamesOf(win.entries) = NamesOf(r.rows)
      BY <1>2 DEF ListInv, ListScreen
    <2> QED
      BY <1>2, <2>1, <2>2 DEF Answered
  <1> QED
    BY <1>1, <1>2 DEF Shown

\* No step forgets an answer, and one that changes the screen is not one that hears the device.
LEMMA ShownOrServed ==
  ASSUME ListInv, [Next]_vars
  PROVE  Answered \subseteq Answered' /\ (UNCHANGED Shown \/ UNCHANGED Answered)
  <1>1. app' = app /\ served \subseteq served'
    BY AppStays
  <1>2. Answered \subseteq Answered'
    BY <1>1 DEF Answered, NamesOf, Browsers
  <1>3. UNCHANGED served => UNCHANGED Answered
    BY <1>1 DEF Answered, NamesOf, Browsers
  <1>4. UNCHANGED <<win, phase>> => UNCHANGED Shown
    BY <1>1 DEF Shown, NamesOf, BlankScreen, Browsers, Listers
  <1>5. app \notin Recorded \cap (Listers \cup Browsers) => UNCHANGED Shown
    BY <1>1 DEF Shown, BlankScreen, Browsers, Listers
  <1>6. CASE Next /\ app \in Recorded \cap (Listers \cup Browsers)
    BY <1>2, <1>3, <1>4, <1>6, ListNext DEF ListMoves, ListOpens, ListStep
  <1>7. CASE UNCHANGED vars
    BY <1>2, <1>4, <1>7 DEF vars
  <1> QED
    BY <1>2, <1>5, <1>6, <1>7

(* The windows implement Display: in every behaviour of the applications    *)
(* what a list window shows is blank or one answer of the device, the path  *)
(* and the rows of the same one, however listings overlap and in whatever   *)
(* order their answers are posted.                                          *)
THEOREM WindowsImplementDisplay == Spec => ShowsAnAnswer
  <1>1. Init => D!Init
    <2> SUFFICES ASSUME Init PROVE D!Init
      OBVIOUS
    <2>1. phase = "start"
      BY InitStarts
    <2>2. served = {}
      BY DEF Init, ShareInit, OfficeInit, HomeInit, ShellyInit, SpotifyInit, InfoInit, FireTvInit,
             CameraInit, SmbInit, CastInit, WonInit, AppInit
    <2>3. Shown = BlankScreen
      BY <2>1 DEF Shown
    <2>4. Answered = {}
      BY <2>2 DEF Answered
    <2> QED
      BY <2>3, <2>4 DEF D!Init, D!Blank, BlankScreen
  <1>2. ListInv' => ShowsOne'
    BY ScreenIsAnswer, PTL
  <1>3. ListInv /\ ListInv' /\ [Next]_vars => [D!Next]_<<Shown, Answered>>
    <2> SUFFICES ASSUME ListInv, ListInv', [Next]_vars PROVE [D!Next]_<<Shown, Answered>>
      OBVIOUS
    <2>1. Answered \subseteq Answered' /\ (UNCHANGED Shown \/ UNCHANGED Answered)
      BY ShownOrServed
    <2>2. Shown' \in Answered' \cup {D!Blank}
      BY <1>2 DEF ShowsOne, BlankScreen, D!Blank
    <2> QED
      BY <2>1, <2>2 DEF D!Next, D!Serve, D!Show
  <1> QED
    BY <1>1, <1>3, ListStarts, ListInvStep, PTL DEF Spec, ShowsAnAnswer, D!Spec

-----------------------------------------------------------------------------
(***************************************************************************)
(* No window waits for nothing.  A window that says it is busy is owed an  *)
(* answer that will change what it says, by a thread or by a message of    *)
(* its queue, unless a thread could not be made.  (In the Spotify window   *)
(* the answer to "what is playing" changes no text when it is good.)       *)
(***************************************************************************)
AnswerKinds ==
  {"list", "retr", "down", "exports", "status", "tracks", "attrs", "print", "caps", "scan", "info",
   "pair", "lights", "set", "ready", "probe", "control", "cmd", "done", "shares"}
Hopes(p, what, x) ==             \* p: an answer of one kind, or "any" that changes the text
  IF p = "any" THEN what \in AnswerKinds /\ (what = "control" => x.op # "now") ELSE what = p
Owes(p, j) == Hopes(p, j.what, IF j.ans = NoAnswer THEN j.arg ELSE j.ans)
Tells(p, m) == Hopes(p, m.what, m.arg)
Due(p) == (\E j \in DOMAIN jobs : Owes(p, jobs[j])) \/ (\E m \in Range(inbox) : Tells(p, m))
Mail == inbox \in Seq(Range(inbox)) /\ JobsNumbered
Keeps == \A p : Due(p) => Due(p)'

\* The queue, split into its first message and the rest.
LEMMA InboxSplits ==
  ASSUME inbox \in Seq(Range(inbox)), inbox # <<>>, inbox' = Tail(inbox)
  PROVE  inbox' \in Seq(Range(inbox')) /\ Range(inbox) \subseteq Range(inbox') \cup {Head(inbox)}
  <1>1. inbox' \in Seq(Range(inbox'))
    BY InboxShrinks
  <1> PICK s : s = inbox
    OBVIOUS
  <1> PICK t : t = inbox'
    OBVIOUS
  <1>2. /\ DOMAIN s = 1..Len(s) /\ Len(s) \in Nat \ {0} /\ Head(s) = s[1]
        /\ DOMAIN t = 1..(Len(s) - 1) /\ \A i \in 1..(Len(s) - 1) : t[i] = s[i + 1]
    OBVIOUS
  <1>3. \A i \in 1..Len(s) : i = 1 \/ (i - 1 \in DOMAIN t /\ t[i - 1] = s[i])
    <2> TAKE i \in 1..Len(s)
    <2>1. i # 1 => i - 1 \in 1..(Len(s) - 1) /\ (i - 1) + 1 = i
      BY <1>2
    <2> QED
      BY <1>2, <2>1
  <1> PICK h : h = Head(s)
    OBVIOUS
  <1>4. ASSUME NEW x \in Range(s) PROVE x \in Range(t) \cup {h}
    <2>1. PICK i \in DOMAIN s : s[i] = x
      BY <1>4 DEF Range
    <2>2. CASE i = 1
      BY <1>2, <2>1, <2>2
    <2>3. CASE i - 1 \in DOMAIN t /\ t[i - 1] = s[i]
      <3> PICK k \in DOMAIN t : t[k] = x
        BY <2>1, <2>3
      <3> QED
        BY DEF Range
    <2> QED
      BY <1>2, <1>3, <2>1, <2>2, <2>3
  <1> QED
    BY <1>1, <1>4

LEMMA SendMail ==
  ASSUME Mail, NEW m, inbox' = Append(inbox, m), UNCHANGED jobs PROVE Mail' /\ Keeps
  <1>1. inbox' \in Seq(Range(inbox')) /\ Range(inbox') = Range(inbox) \cup {m}
    BY InboxGrows DEF Mail
  <1> QED
    BY <1>1 DEF Mail, JobsNumbered, Keeps, Due

LEMMA SameMail == ASSUME Mail, UNCHANGED <<inbox, jobs>> PROVE Mail' /\ Keeps
  BY DEF Mail, JobsNumbered, Keeps, Due

\* A thread is made for a job, or could not be made.
LEMMA SpawnKeeps ==
  ASSUME JobsNumbered, NEW js, Spawn(js), js # <<>>
  PROVE  /\ JobsNumbered'
         /\ \A j \in DOMAIN jobs : j \in DOMAIN jobs' /\ jobs'[j] = jobs[j]
         /\ lost' = lost => \E j \in DOMAIN jobs' : jobs'[j] = [what |-> js[1], arg |-> js[2], ans |-> NoAnswer]
         /\ lost' = lost \/ lost'
  <1>1. CASE ~lost /\ lost' /\ UNCHANGED jobs
    BY <1>1 DEF JobsNumbered
  <1>2. CASE jobs' = With(jobs, FreeNumber, NewJob(js)) /\ UNCHANGED lost
    <2> PICK k : k = FreeNumber
      OBVIOUS
    <2>1. DOMAIN jobs' = DOMAIN jobs \cup {k}
      BY <1>2 DEF With
    <2>2. k \in Nat \ {0} /\ k \notin DOMAIN jobs
      BY FreeNumberIsFree DEF JobsNumbered
    <2>3. jobs'[k] = [what |-> js[1], arg |-> js[2], ans |-> NoAnswer]
      BY <1>2, <2>1 DEF With, NewJob
    <2>4. \A j \in DOMAIN jobs : jobs'[j] = jobs[j]
      BY <1>2, <2>1, <2>2 DEF With
    <2>5. IsFiniteSet(DOMAIN jobs')
      BY <2>1, FS_AddElement DEF JobsNumbered
    <2> QED
      BY <1>2, <2>1, <2>2, <2>3, <2>4, <2>5 DEF JobsNumbered
  <1> QED
    BY <1>1, <1>2 DEF Spawn

\* A handler takes a message and may start a job.
LEMMA HandleMail ==
  ASSUME Mail, inbox # <<>>, inbox' = Tail(inbox), NEW js, Spawn(js)
  PROVE  /\ Mail'
         /\ \A p : Due(p) /\ ~Tells(p, Head(inbox)) => Due(p)'
         /\ \A p : js # <<>> /\ Hopes(p, js[1], js[2]) /\ lost' = lost => Due(p)'
         /\ lost' = lost \/ lost'
  <1> PICK h : h = Head(inbox)
    OBVIOUS
  <1>1. inbox' \in Seq(Range(inbox')) /\ Range(inbox) \subseteq Range(inbox') \cup {h}
    BY InboxSplits DEF Mail
  <1>2. CASE js = <<>>
    <2>1. UNCHANGED <<jobs, lost>>
      BY <1>2 DEF Spawn
    <2> QED
      BY <1>1, <1>2, <2>1 DEF Mail, JobsNumbered, Due
  <1>3. CASE js # <<>>
    <2>1. JobsNumbered
      BY DEF Mail
    <2>2. /\ JobsNumbered'
          /\ \A j \in DOMAIN jobs : j \in DOMAIN jobs' /\ jobs'[j] = jobs[j]
          /\ lost' = lost => \E j \in DOMAIN jobs' : jobs'[j] = [what |-> js[1], arg |-> js[2], ans |-> NoAnswer]
          /\ lost' = lost \/ lost'
      BY <1>3, <2>1, SpawnKeeps
    <2>3. Mail'
      BY <1>1, <2>2 DEF Mail
    <2>4. ASSUME NEW p, Due(p), ~Tells(p, h) PROVE Due(p)'
      <3>1. CASE \E j \in DOMAIN jobs : Owes(p, jobs[j])
        BY <2>2, <3>1 DEF Due
      <3>2. CASE \E m \in Range(inbox) : Tells(p, m)
        BY <1>1, <2>4, <3>2 DEF Due
      <3> QED
        BY <2>4, <3>1, <3>2 DEF Due
    <2>5. ASSUME NEW p, Hopes(p, js[1], js[2]), lost' = lost PROVE Due(p)'
      <3> PICK j \in DOMAIN jobs' : jobs'[j] = [what |-> js[1], arg |-> js[2], ans |-> NoAnswer]
        BY <2>2, <2>5
      <3>1. jobs'[j].what = js[1] /\ jobs'[j].arg = js[2] /\ jobs'[j].ans = NoAnswer
        OBVIOUS
      <3>2. Owes(p, jobs'[j])
        BY <2>5, <3>1 DEF Owes
      <3> QED
        BY <3>2 DEF Due
    <2> QED
      BY <2>2, <2>3, <2>4, <2>5
  <1> QED
    BY <1>2, <1>3

\* A thread gets its answer, or goes on.
LEMMA JobMail ==
  ASSUME Mail, NEW j \in DOMAIN jobs, NEW x, jobs' = [jobs EXCEPT ![j] = x], DOMAIN x = {"what", "arg", "ans"},
         \A p : Owes(p, jobs[j]) => Owes(p, x), inbox' \in Seq(Range(inbox')), Range(inbox) \subseteq Range(inbox')
  PROVE  Mail' /\ Keeps
  <1>1. DOMAIN jobs' = DOMAIN jobs /\ jobs'[j] = x /\ \A k \in DOMAIN jobs \ {j} : jobs'[k] = jobs[k]
    OBVIOUS
  <1>2. JobsNumbered'
    BY <1>1 DEF Mail, JobsNumbered
  <1>3. ASSUME NEW p, NEW k \in DOMAIN jobs, Owes(p, jobs[k]) PROVE Owes(p, jobs'[k])
    BY <1>1, <1>3
  <1>4. Keeps
    BY <1>1, <1>3 DEF Keeps, Due
  <1> QED
    BY <1>2, <1>4 DEF Mail
LEMMA AnswerMail ==
  ASSUME Mail, NEW j \in DOMAIN jobs, NEW r, jobs' = [jobs EXCEPT ![j].ans = r], jobs[j].ans = NoAnswer,
         jobs[j].what = "control" => r.op = jobs[j].arg.op, UNCHANGED inbox
  PROVE  Mail' /\ Keeps
  <1> PICK o : o = jobs[j]
    OBVIOUS
  <1> PICK x : x = [o EXCEPT !.ans = r]
    OBVIOUS
  <1>0. DOMAIN o = {"what", "arg", "ans"}
    BY DEF Mail, JobsNumbered
  <1>1. DOMAIN x = {"what", "arg", "ans"} /\ x.what = o.what /\ x.arg = o.arg /\ x.ans = r
    BY <1>0
  <1>2. jobs' = [jobs EXCEPT ![j] = x]
    OBVIOUS
  <1>3. ASSUME NEW p, Owes(p, o) PROVE Owes(p, x)
    BY <1>1, <1>3 DEF Owes, Hopes
  <1>4. inbox' \in Seq(Range(inbox')) /\ Range(inbox) \subseteq Range(inbox')
    BY DEF Mail
  <1> QED
    BY <1>1, <1>2, <1>3, <1>4, JobMail
LEMMA StageMail ==
  ASSUME Mail, NEW j \in DOMAIN jobs, NEW y, jobs' = [jobs EXCEPT ![j].arg = y], jobs[j].what # "control",
         inbox' \in Seq(Range(inbox')), Range(inbox) \subseteq Range(inbox')
  PROVE  Mail' /\ Keeps
  <1> PICK o : o = jobs[j]
    OBVIOUS
  <1> PICK x : x = [o EXCEPT !.arg = y]
    OBVIOUS
  <1>0. DOMAIN o = {"what", "arg", "ans"}
    BY DEF Mail, JobsNumbered
  <1>1. DOMAIN x = {"what", "arg", "ans"} /\ x.what = o.what /\ x.ans = o.ans
    BY <1>0
  <1>2. jobs' = [jobs EXCEPT ![j] = x]
    OBVIOUS
  <1>3. ASSUME NEW p, Owes(p, o) PROVE Owes(p, x)
    BY <1>1, <1>3 DEF Owes, Hopes
  <1> QED
    BY <1>1, <1>2, <1>3, JobMail

LEMMA PostMail == ASSUME Mail, PostAnswer PROVE Mail' /\ Keeps
  <1> PICK j \in DOMAIN jobs : /\ jobs[j].ans # NoAnswer
                               /\ inbox' = Append(inbox, Msg(jobs[j].what, jobs[j].ans))
                               /\ jobs' = Restrict(jobs, DOMAIN jobs \ {j})
    BY DEF PostAnswer
  <1> PICK m : m = Msg(jobs[j].what, jobs[j].ans)
    OBVIOUS
  <1>1. inbox' \in Seq(Range(inbox')) /\ Range(inbox') = Range(inbox) \cup {m}
    BY InboxGrows DEF Mail
  <1>2. DOMAIN jobs' = DOMAIN jobs \ {j} /\ \A k \in DOMAIN jobs' : jobs'[k] = jobs[k]
    BY DEF Restrict
  <1>3. IsFiniteSet(DOMAIN jobs')
    BY <1>2, FS_RemoveElement DEF Mail, JobsNumbered
  <1>4. m.what = jobs[j].what /\ m.arg = jobs[j].ans
    BY DEF Msg
  <1>5. ASSUME NEW p, Owes(p, jobs[j]) PROVE Tells(p, m)
    BY <1>4, <1>5 DEF Owes, Tells
  <1>6. Mail'
    BY <1>1, <1>2, <1>3 DEF Mail, JobsNumbered
  <1>7. Keeps
    BY <1>1, <1>2, <1>5 DEF Keeps, Due
  <1> QED
    BY <1>6, <1>7

-----------------------------------------------------------------------------
BusyTexts == {"loading", "sending"}
Waiting(w) == w.status \in BusyTexts
Starts(js) == js # <<>> /\ Hopes("any", js[1], js[2])
Quiet == ~Tells("any", Head(inbox))
Sound == Mail /\ "status" \in DOMAIN win /\ (Waiting(win) => lost \/ Due("any"))

LEMMA StartsIs ==
  \A what, x : what \in AnswerKinds \ {"control"} => Starts(<<what, x>>)
  BY DEF Starts, Hopes, AnswerKinds
LEMMA QuietIs ==
  ASSUME NEW a, NEW what, Got(a, what), what \notin AnswerKinds PROVE Quiet
  BY DEF Got, Quiet, Tells, Hopes

LEMMA HandleSound ==
  ASSUME Sound, inbox # <<>>, NEW w, NEW js, NEW d, HandleAnd(w, js, d), "status" \in DOMAIN w,
         Waiting(w) => Starts(js) \/ (Waiting(win) /\ Quiet) \/ Due("any")'
  PROVE  Sound'
  <1>1. Spawn(js) /\ inbox' = Tail(inbox) /\ win' = w
    BY DEF HandleAnd
  <1>2. /\ Mail'
        /\ Due("any") /\ Quiet => Due("any")'
        /\ Starts(js) /\ lost' = lost => Due("any")'
        /\ lost' = lost \/ lost'
    BY <1>1, HandleMail DEF Sound, Quiet, Starts
  <1> QED
    BY <1>1, <1>2 DEF Sound, Waiting

LEMMA SendSound ==
  ASSUME Sound, NEW a, NEW m, NEW w, Send(a, m, w), "status" \in DOMAIN w, w.status = win.status
  PROVE  Sound'
  <1>1. inbox' = Append(inbox, m) /\ win' = w /\ UNCHANGED <<jobs, lost>>
    BY DEF Send
  <1>2. Mail' /\ Keeps
    BY <1>1, SendMail DEF Sound
  <1> QED
    BY <1>1, <1>2 DEF Sound, Waiting, Keeps
LEMMA ClickSound == ASSUME Sound, NEW a, NEW what, Click(a, what) PROVE Sound'
  BY SendSound DEF Click, Sound

LEMMA AnswerSound ==
  ASSUME Sound, UNCHANGED <<win, inbox, lost>>,
         \E j \in DOMAIN jobs : \E r :
            /\ jobs[j].ans = NoAnswer
            /\ jobs' = [jobs EXCEPT ![j].ans = r]
            /\ jobs[j].what = "control" => r.op = jobs[j].arg.op
  PROVE  Sound'
  <1> PICK j \in DOMAIN jobs : \E r : /\ jobs[j].ans = NoAnswer
                                      /\ jobs' = [jobs EXCEPT ![j].ans = r]
                                      /\ jobs[j].what = "control" => r.op = jobs[j].arg.op
    OBVIOUS
  <1> PICK r : /\ jobs[j].ans = NoAnswer
               /\ jobs' = [jobs EXCEPT ![j].ans = r]
               /\ jobs[j].what = "control" => r.op = jobs[j].arg.op
    OBVIOUS
  <1>1. Mail' /\ Keeps
    BY AnswerMail DEF Sound
  <1> QED
    BY <1>1 DEF Sound, Waiting, Keeps

LEMMA SameSound == ASSUME Sound, UNCHANGED <<inbox, jobs, lost>>, "status" \in DOMAIN win', win'.status = win.status
  PROVE Sound'
  BY SameMail DEF Sound, Waiting, Keeps

\* Opening a window.
LEMMA LaunchMail ==
  ASSUME inbox = <<>>, UNCHANGED inbox, NEW s, SpawnAll(s), IsFiniteSet(DOMAIN s), DOMAIN s \subseteq Nat \ {0}
  PROVE  /\ Mail'
         /\ \A p, i : i \in DOMAIN s /\ Hopes(p, s[i][1], s[i][2]) /\ lost' = lost => Due(p)'
         /\ lost' = lost \/ lost'
  <1>1. inbox' \in Seq(Range(inbox'))
    BY DEF Range
  <1>2. /\ DOMAIN jobs' \subseteq DOMAIN s
        /\ \A j \in DOMAIN jobs' : jobs'[j] = NewJob(s[j])
        /\ lost' = lost => DOMAIN jobs' = DOMAIN s
        /\ lost' = lost \/ lost'
    BY DEF SpawnAll
  <1>3. IsFiniteSet(DOMAIN jobs')
    BY <1>2, FS_Subset
  <1>4. \A j \in DOMAIN jobs' : /\ DOMAIN jobs'[j] = {"what", "arg", "ans"}
                                /\ jobs'[j].what = s[j][1] /\ jobs'[j].arg = s[j][2] /\ jobs'[j].ans = NoAnswer
    BY <1>2 DEF NewJob
  <1>5. Mail'
    BY <1>1, <1>2, <1>3, <1>4 DEF Mail, JobsNumbered
  <1>6. ASSUME NEW p, NEW i \in DOMAIN s, Hopes(p, s[i][1], s[i][2]), lost' = lost PROVE Due(p)'
    <2>1. i \in DOMAIN jobs' /\ jobs'[i].what = s[i][1] /\ jobs'[i].arg = s[i][2] /\ jobs'[i].ans = NoAnswer
      BY <1>2, <1>4, <1>6
    <2>2. Owes(p, jobs'[i])
      BY <1>6, <2>1 DEF Owes
    <2> QED
      BY <2>1, <2>2 DEF Due
  <1> QED
    BY <1>2, <1>5, <1>6

LEMMA LaunchSound ==
  ASSUME phase = "start" => inbox = <<>>, phase' = "open",
         NEW a, NEW w, NEW js, Launch(a, w, js), "status" \in DOMAIN w, Waiting(w) => Starts(js)
  PROVE  Sound'
  <1> PICK s : s = IF js = <<>> THEN <<>> ELSE <<js>>
    OBVIOUS
  <1>1. DOMAIN s \subseteq {1} /\ (js # <<>> => 1 \in DOMAIN s /\ s[1] = js)
    OBVIOUS
  <1>2. IsFiniteSet(DOMAIN s) /\ DOMAIN s \subseteq Nat \ {0}
    <2>1. IsFiniteSet({1})
      BY FS_Singleton
    <2>2. {1} \subseteq Nat \ {0}
      OBVIOUS
    <2> QED
      BY <1>1, <2>1, <2>2, FS_Subset
  <1>3. SpawnAll(s) /\ win' = w /\ inbox = <<>> /\ UNCHANGED inbox
    BY DEF Launch, LaunchAnd
  <1>4. Mail' /\ (Starts(js) => lost' \/ Due("any")')
    BY <1>1, <1>2, <1>3, LaunchMail DEF Starts
  <1> QED
    BY <1>3, <1>4 DEF Sound, Waiting

-----------------------------------------------------------------------------
LEMMA FtpSound ==
  ASSUME FtpNext, phase = "open" => Sound, phase = "start" => inbox = <<>>, phase' = "open"
  PROVE  Sound'
  <1> USE StartsIs, QuietIs DEF Waiting, BusyTexts
  <1>1. CASE FtpApp
    BY <1>1, LaunchSound DEF FtpApp, FtpStartList, BrowserWindow, AnswerKinds
  <1>2. CASE FtpListThread \/ FtpRetrThread
    BY <1>2, AnswerSound DEF FtpListThread, FtpRetrThread, Works
  <1>3. CASE Click("ftp", "connect")
    BY <1>3, ClickSound DEF Click, Send
  <1>4. CASE PickRow("ftp")
    BY <1>4, SendSound DEF PickRow, Sound
  <1>5. CASE SavePanel("ftp")
    BY <1>5, SendSound DEF SavePanel, Sound
  <1>6. CASE FtpConnectButton
    BY <1>6, HandleSound DEF FtpConnectButton, FtpStartList, Loading, Got, Handle, AnswerKinds, Sound
  <1>7. CASE FtpListReady
    BY <1>7, HandleSound DEF FtpListReady, Cleared, Got, Handle, AnswerKinds, Sound
  <1>8. CASE FtpOpen
    BY <1>8, HandleSound DEF FtpOpen, FtpStartList, Loading, Got, Handle, AnswerKinds, Sound
  <1>9. CASE FtpSaveFile
    BY <1>9, HandleSound DEF FtpSaveFile, Loading, Got, Handle, AnswerKinds, Sound
  <1>10. CASE FtpDownDone
    BY <1>10, HandleSound DEF FtpDownDone, Downloaded, Got, Handle, AnswerKinds, Sound
  <1> QED
    BY <1>1, <1>2, <1>3, <1>4, <1>5, <1>6, <1>7, <1>8, <1>9, <1>10 DEF FtpNext

LEMMA DavSound ==
  ASSUME DavNext, phase = "open" => Sound, phase = "start" => inbox = <<>>, phase' = "open"
  PROVE  Sound'
  <1> USE StartsIs, QuietIs DEF Waiting, BusyTexts
  <1>1. CASE DavApp
    BY <1>1, LaunchSound DEF DavApp, DavStartList, DavWindow, BrowserWindow, AnswerKinds
  <1>2. CASE DavListThread \/ DavDownThread
    BY <1>2, AnswerSound DEF DavListThread, DavDownThread, Works
  <1>3. CASE Click("webdav", "connect")
    BY <1>3, ClickSound DEF Click, Send
  <1>4. CASE PickRow("webdav")
    BY <1>4, SendSound DEF PickRow, Sound
  <1>5. CASE SavePanel("webdav")
    BY <1>5, SendSound DEF SavePanel, Sound
  <1>6. CASE DavConnectButton
    BY <1>6, HandleSound DEF DavConnectButton, DavStartList, Loading, Got, Handle, AnswerKinds, Sound
  <1>7. CASE DavListReady
    BY <1>7, HandleSound DEF DavListReady, Cleared, Got, Handle, AnswerKinds, Sound
  <1>8. CASE DavOpen
    BY <1>8, HandleSound DEF DavOpen, DavStartList, Loading, Got, Handle, AnswerKinds, Sound
  <1>9. CASE DavSaveFile
    BY <1>9, HandleSound DEF DavSaveFile, Loading, Got, Handle, AnswerKinds, Sound
  <1>10. CASE DavDownDone
    BY <1>10, HandleSound DEF DavDownDone, Downloaded, Got, Handle, AnswerKinds, Sound
  <1> QED
    BY <1>1, <1>2, <1>3, <1>4, <1>5, <1>6, <1>7, <1>8, <1>9, <1>10 DEF DavNext

LEMMA NfsSound ==
  ASSUME NfsNext, phase = "open" => Sound, phase = "start" => inbox = <<>>, phase' = "open"
  PROVE  Sound'
  <1> USE StartsIs, QuietIs DEF Waiting, BusyTexts
  <1>1. CASE NfsApp
    BY <1>1, LaunchSound DEF NfsApp, NfsStartProbe, NfsWindow, AnswerKinds
  <1>2. CASE NfsProbeThread
    BY <1>2, AnswerSound DEF NfsProbeThread, Works
  <1>3. CASE DeviceChanges("nfs", Lists)
    BY <1>3, SameSound DEF DeviceChanges, Sound
  <1>4. CASE Click("nfs", "probe")
    BY <1>4, ClickSound DEF Click, Send
  <1>5. CASE NfsPickRow
    BY <1>5, SendSound DEF NfsPickRow, Sound
  <1>6. CASE NfsProbe
    BY <1>6, HandleSound DEF NfsProbe, NfsStartProbe, Loading, Got, Handle, AnswerKinds, Sound
  <1>7. CASE NfsExportsReady
    BY <1>7, HandleSound DEF NfsExportsReady, Cleared, Got, Handle, AnswerKinds, Sound
  <1>8. CASE NfsCopy
    BY <1>8, HandleSound DEF NfsCopy, Got, Handle, AnswerKinds, Sound
  <1> QED
    BY <1>1, <1>2, <1>3, <1>4, <1>5, <1>6, <1>7, <1>8 DEF NfsNext

LEMMA AfpSound ==
  ASSUME AfpNext, phase = "open" => Sound, phase = "start" => inbox = <<>>, phase' = "open"
  PROVE  Sound'
  <1> USE StartsIs, QuietIs DEF Waiting, BusyTexts
  <1>1. CASE AfpApp
    BY <1>1, LaunchSound DEF AfpApp, AfpStartProbe, AfpWindow, AnswerKinds
  <1>2. CASE AfpStatusThread
    BY <1>2, AnswerSound DEF AfpStatusThread, Works
  <1>3. CASE DeviceChanges("afp", Lists)
    BY <1>3, SameSound DEF DeviceChanges, Sound
  <1>4. CASE Click("afp", "probe")
    BY <1>4, ClickSound DEF Click, Send
  <1>5. CASE AfpProbe
    BY <1>5, HandleSound DEF AfpProbe, AfpStartProbe, Loading, Got, Handle, AnswerKinds, Sound
  <1>6. CASE AfpStatusReady
    BY <1>6, HandleSound DEF AfpStatusReady, Got, Handle, AnswerKinds, Sound
  <1> QED
    BY <1>1, <1>2, <1>3, <1>4, <1>5, <1>6 DEF AfpNext

LEMMA DaapSound ==
  ASSUME DaapNext, phase = "open" => Sound, phase = "start" => inbox = <<>>, phase' = "open"
  PROVE  Sound'
  <1> USE StartsIs, QuietIs DEF Waiting, BusyTexts
  <1>1. CASE DaapApp
    BY <1>1, LaunchSound DEF DaapApp, DaapStartLoad, DaapWindow, AnswerKinds
  <1>2. CASE DaapLoadThread
    BY <1>2, AnswerSound DEF DaapLoadThread, Works
  <1>3. CASE DeviceChanges("daap", Lists)
    BY <1>3, SameSound DEF DeviceChanges, Sound
  <1>4. CASE Click("daap", "load")
    BY <1>4, ClickSound DEF Click, Send
  <1>5. CASE DaapLoad
    BY <1>5, HandleSound DEF DaapLoad, DaapStartLoad, Loading, Got, Handle, AnswerKinds, Sound
  <1>6. CASE DaapTracksReady
    BY <1>6, HandleSound DEF DaapTracksReady, Cleared, Got, Handle, AnswerKinds, Sound
  <1> QED
    BY <1>1, <1>2, <1>3, <1>4, <1>5, <1>6 DEF DaapNext

LEMMA IppSound ==
  ASSUME IppNext, phase = "open" => Sound, phase = "start" => inbox = <<>>, phase' = "open"
  PROVE  Sound'
  <1> USE StartsIs, QuietIs DEF Waiting, BusyTexts
  <1>1. CASE IppApp
    BY <1>1, LaunchSound DEF IppApp, IppStartQuery, IppWindow, AnswerKinds
  <1>2. CASE IppQueryThread \/ IppPrintThread
    BY <1>2, AnswerSound DEF IppQueryThread, IppPrintThread, Works
  <1>3. CASE DeviceChanges("ipp", Sheets)
    BY <1>3, SameSound DEF DeviceChanges, Sound
  <1>4. CASE Click("ipp", "query") \/ Click("ipp", "pick")
    BY <1>4, ClickSound DEF Click, Send
  <1>5. CASE IppChooseFile
    BY <1>5, SendSound DEF IppChooseFile, Sound
  <1>6. CASE IppQuery
    BY <1>6, HandleSound DEF IppQuery, IppStartQuery, Loading, Got, Handle, AnswerKinds, Sound
  <1>7. CASE IppAttrsReady
    BY <1>7, HandleSound DEF IppAttrsReady, Got, Handle, AnswerKinds, Sound
  <1>8. CASE IppPick
    BY <1>8, HandleSound DEF IppPick, Got, Handle, AnswerKinds, Sound
  <1>9. CASE IppFileChosen
    BY <1>9, HandleSound DEF IppFileChosen, Sending, Got, Handle, AnswerKinds, Sound
  <1>10. CASE IppPrintDone
    BY <1>10, HandleSound DEF IppPrintDone, Got, Handle, AnswerKinds, Sound
  <1> QED
    BY <1>1, <1>2, <1>3, <1>4, <1>5, <1>6, <1>7, <1>8, <1>9, <1>10 DEF IppNext

LEMMA EsclSound ==
  ASSUME EsclNext, phase = "open" => Sound, phase = "start" => inbox = <<>>, phase' = "open"
  PROVE  Sound'
  <1> USE StartsIs, QuietIs DEF Waiting, BusyTexts
  <1>1. CASE EsclApp
    BY <1>1, LaunchSound DEF EsclApp, EsclStartQuery, EsclWindow, AnswerKinds
  <1>2. CASE EsclQueryThread \/ EsclScanThread
    BY <1>2, AnswerSound DEF EsclQueryThread, EsclScanThread, Works
  <1>3. CASE DeviceChanges("escl", Sheets)
    BY <1>3, SameSound DEF DeviceChanges, Sound
  <1>4. CASE Click("escl", "query") \/ Click("escl", "pick")
    BY <1>4, ClickSound DEF Click, Send
  <1>5. CASE EsclMakeMenu
    BY <1>5, SameSound DEF EsclMakeMenu, Sound
  <1>6. CASE EsclSavePanel
    BY <1>6, SendSound DEF EsclSavePanel, Sound
  <1>7. CASE EsclQuery
    BY <1>7, HandleSound DEF EsclQuery, EsclStartQuery, Loading, Got, Handle, AnswerKinds, Sound
  <1>8. CASE EsclCapsReady
    BY <1>8, HandleSound DEF EsclCapsReady, Got, Handle, AnswerKinds, Sound
  <1>9. CASE EsclPick
    BY <1>9, HandleSound DEF EsclPick, Got, Handle, AnswerKinds, Sound
  <1>10. CASE EsclSave
    BY <1>10, HandleSound DEF EsclSave, Sending, Got, Handle, AnswerKinds, Sound
  <1>11. CASE EsclScanDone
    BY <1>11, HandleSound DEF EsclScanDone, Got, Handle, AnswerKinds, Sound
  <1> QED
    BY <1>1, <1>2, <1>3, <1>4, <1>5, <1>6, <1>7, <1>8, <1>9, <1>10, <1>11 DEF EsclNext

LEMMA NutSound ==
  ASSUME NutNext, phase = "open" => Sound, phase = "start" => inbox = <<>>, phase' = "open"
  PROVE  Sound'
  <1> USE StartsIs, QuietIs DEF Waiting, BusyTexts
  <1>1. CASE NutApp
    BY <1>1, LaunchSound DEF NutApp, NutStartInfo, NutWindow, AnswerKinds
  <1>2. CASE NutInfoThread
    BY <1>2, AnswerSound DEF NutInfoThread, Works
  <1>3. CASE DeviceChanges("nut", Sheets)
    BY <1>3, SameSound DEF DeviceChanges, Sound
  <1>4. CASE Click("nut", "refresh")
    BY <1>4, ClickSound DEF Click, Send
  <1>5. CASE NutRefresh
    BY <1>5, HandleSound DEF NutRefresh, NutStartInfo, Loading, Got, Handle, AnswerKinds, Sound
  <1>6. CASE NutInfoReady
    BY <1>6, HandleSound DEF NutInfoReady, Got, Handle, AnswerKinds, Sound
  <1> QED
    BY <1>1, <1>2, <1>3, <1>4, <1>5, <1>6 DEF NutNext

LEMMA HueSound ==
  ASSUME HueNext, phase = "open" => Sound, phase = "start" => inbox = <<>>, phase' = "open"
  PROVE  Sound'
  <1> USE StartsIs, QuietIs DEF Waiting, BusyTexts
  <1>1. CASE HueApp
    <2> PICK k : k = HueLoadKey
      OBVIOUS
    <2>1. CASE k = ""
      <3> PICK w : w = HueBuildPairing
        OBVIOUS
      <3>1. Launch("hue", w, <<>>)
        BY <1>1, <2>1 DEF HueApp, HueWindow
      <3>2. "status" \in DOMAIN w /\ w.status = "host"
        BY DEF HueBuildPairing
      <3> QED
        BY <3>1, <3>2, LaunchSound
    <2>2. CASE k # ""
      <3> PICK w : w = HueBuildLights(k, <<>>, "loading")
        OBVIOUS
      <3> PICK js : js = HueStartListing(k)
        OBVIOUS
      <3>1. Launch("hue", w, js)
        BY <1>1, <2>2 DEF HueApp, HueWindow
      <3>2. "status" \in DOMAIN w /\ Starts(js)
        BY DEF HueBuildLights, HueStartListing, AnswerKinds
      <3> QED
        BY <3>1, <3>2, LaunchSound
    <2> QED
      BY <2>1, <2>2
  <1>2. CASE HuePairThread \/ HueListThread \/ HueSetThread
    BY <1>2, AnswerSound DEF HuePairThread, HueListThread, HueSetThread, Works
  <1>3. CASE HueButtons
    BY <1>3, SendSound, ClickSound DEF HueButtons, Sound
  <1>4. CASE HuePairButton
    BY <1>4, HandleSound DEF HuePairButton, Loading, Got, Handle, AnswerKinds, Sound
  <1>5. CASE HuePairDone
    <2> PICK k : k = arg.key
      OBVIOUS
    <2> PICK w : w = HueBuildLights(k, <<>>, "loading")
      OBVIOUS
    <2> PICK js : js = HueStartListing(k)
      OBVIOUS
    <2>1. "status" \in DOMAIN w /\ Starts(js)
      BY DEF HueBuildLights, HueStartListing, AnswerKinds
    <2>2. CASE k = ""
      BY <1>5, <2>2, HandleSound DEF HuePairDone, Got, Handle, Sound
    <2>3. CASE k # ""
      BY <1>5, <2>1, <2>3, HandleSound DEF HuePairDone, Got, Sound
    <2> QED
      BY <2>2, <2>3
  <1>6. CASE HueRefresh
    BY <1>6, HandleSound DEF HueRefresh, HueStartListing, Loading, Got, Handle, AnswerKinds, Sound
  <1>7. CASE HueLightsReady
    BY <1>7, HandleSound DEF HueLightsReady, HueBuildLights, Got, Handle, AnswerKinds, Sound
  <1>8. CASE HueToggle
    BY <1>8, HandleSound DEF HueToggle, Got, Handle, AnswerKinds, Sound
  <1>9. CASE HueBright
    BY <1>9, HandleSound DEF HueBright, Got, Handle, AnswerKinds, Sound
  <1>10. CASE HueCmdDone
    BY <1>10, HandleSound DEF HueCmdDone, HueStartListing, Got, Handle, AnswerKinds, Sound
  <1> QED
    BY <1>1, <1>2, <1>3, <1>4, <1>5, <1>6, <1>7, <1>8, <1>9, <1>10 DEF HueNext

LEMMA DaikinSound ==
  ASSUME DaikinNext, phase = "open" => Sound, phase = "start" => inbox = <<>>, phase' = "open"
  PROVE  Sound'
  <1> USE StartsIs, QuietIs DEF Waiting, BusyTexts
  <1>1. CASE DaikinApp
    BY <1>1, LaunchSound DEF DaikinApp, DaikinStartInfo, DaikinWindow, AnswerKinds
  <1>2. CASE DaikinInfoThread \/ DaikinSetThread
    BY <1>2, AnswerSound DEF DaikinInfoThread, DaikinSetThread, Works
  <1>3. CASE DaikinButtons
    BY <1>3, SendSound, ClickSound DEF DaikinButtons, Sound
  <1>4. CASE DaikinRefresh
    BY <1>4, HandleSound DEF DaikinRefresh, DaikinStartInfo, Loading, Got, Handle, AnswerKinds, Sound
  <1>5. CASE DaikinInfoReady
    BY <1>5, HandleSound DEF DaikinInfoReady, DaikinUpdateViews, Got, Handle, AnswerKinds, Sound
  <1>6. CASE DaikinPower
    BY <1>6, HandleSound DEF DaikinPower, DaikinApplySet, Sending, Got, Handle, AnswerKinds, Sound
  <1>7. CASE DaikinMode
    BY <1>7, HandleSound DEF DaikinMode, DaikinApplySet, Sending, Got, Handle, AnswerKinds, Sound
  <1>8. CASE DaikinFan
    BY <1>8, HandleSound DEF DaikinFan, DaikinApplySet, Sending, Got, Handle, AnswerKinds, Sound
  <1>9. CASE DaikinTemp
    BY <1>9, HandleSound DEF DaikinTemp, DaikinApplySet, Sending, Got, Handle, AnswerKinds, Sound
  <1>10. CASE DaikinSetDone
    BY <1>10, HandleSound DEF DaikinSetDone, DaikinStartInfo, Got, Handle, AnswerKinds, Sound
  <1> QED
    BY <1>1, <1>2, <1>3, <1>4, <1>5, <1>6, <1>7, <1>8, <1>9, <1>10 DEF DaikinNext

LEMMA InfoSound ==
  ASSUME InfoNext, phase = "open" => Sound, phase = "start" => inbox = <<>>, phase' = "open"
  PROVE  Sound'
  <1> USE StartsIs, QuietIs DEF Waiting, BusyTexts
  <1>1. CASE HomeKitApp
    BY <1>1, LaunchSound DEF OpenInfo, HomeKitApp, HomeKitWindow
  <1>2. CASE MatterApp
    BY <1>2, LaunchSound DEF OpenInfo, MatterApp, MatterWindow
  <1>3. CASE AirplayApp
    BY <1>3, LaunchSound DEF OpenInfo, AirplayApp, AirplayWindow
  <1>4. CASE LutronApp
    BY <1>4, LaunchSound DEF OpenInfo, LutronApp, LutronWindow
  <1>5. CASE EeroApp
    BY <1>5, LaunchSound DEF OpenInfo, EeroApp, EeroWindow, LutronWindow
  <1>6. CASE AlexaApp
    BY <1>6, LaunchSound DEF OpenInfo, AlexaApp, AlexaWindow, LutronWindow
  <1>7. CASE VncApp
    BY <1>7, LaunchSound DEF OpenInfo, VncApp, VncWindow, VncStatus
  <1>8. CASE \E a \in Apps \cap InfoApps : InfoButtons(a)
    BY <1>8, ClickSound DEF InfoButtons
  <1>9. CASE \E a \in Apps \cap InfoApps : Install(a)
    BY <1>9, SameSound DEF Install, DeviceChanges, Sound
  <1>10. CASE HomeKitOpenHue
    BY <1>10, HandleSound DEF HomeKitOpenHue, Got, Handle, AnswerKinds, Sound
  <1>11. CASE VncOpen
    BY <1>11, HandleSound DEF VncOpen, VncStatus, Got, Handle, AnswerKinds, Sound
  <1>12. CASE VncCopy
    BY <1>12, HandleSound DEF VncCopy, Got, Handle, AnswerKinds, Sound
  <1> QED
    BY <1>1, <1>2, <1>3, <1>4, <1>5, <1>6, <1>7, <1>8, <1>9, <1>10, <1>11, <1>12 DEF InfoNext

-----------------------------------------------------------------------------
\* The Shelly windows: a poll that is in flight has a thread, or its answer is in the queue.
InFlight == "inFlight" \in DOMAIN win /\ (win.inFlight => Due("ready"))
LEMMA ReadyIsAny == (Due("ready") => Due("any")) /\ (Due("ready")' => Due("any")')
  BY DEF Due, Owes, Tells, Hopes, AnswerKinds
LEMMA HandleFlight ==
  ASSUME Sound, InFlight, inbox # <<>>, NEW w, NEW js, NEW d, HandleAnd(w, js, d), "inFlight" \in DOMAIN w,
         w.inFlight => \/ (js # <<>> /\ js[1] = "ready" /\ lost' = lost)
                       \/ (win.inFlight /\ Head(inbox).what # "ready")
  PROVE  InFlight'
  <1>1. Spawn(js) /\ inbox' = Tail(inbox) /\ win' = w
    BY DEF HandleAnd
  <1>2. /\ Due("ready") /\ ~Tells("ready", Head(inbox)) => Due("ready")'
        /\ js # <<>> /\ Hopes("ready", js[1], js[2]) /\ lost' = lost => Due("ready")'
    BY <1>1, HandleMail DEF Sound
  <1> QED
    BY <1>1, <1>2 DEF InFlight, Tells, Hopes
LEMMA RefreshSound ==
  ASSUME Sound, InFlight, inbox # <<>>, Head(inbox).what # "ready", NEW d, StartRefresh(win, d)
  PROVE  Sound' /\ InFlight'
  <1>1. CASE win.inFlight
    <2>1. HandleAnd(win, <<>>, d)
      BY <1>1 DEF StartRefresh
    <2>2. InFlight'
      BY <1>1, <2>1, HandleFlight DEF InFlight
    <2>3. win' = win
      BY <2>1 DEF HandleAnd
    <2>4. Due("any")'
      BY <1>1, <2>2, <2>3, ReadyIsAny DEF InFlight
    <2> QED
      BY <2>1, <2>2, <2>4, HandleSound DEF Sound
  <1>2. CASE ~win.inFlight
    <2> PICK w : w = [win EXCEPT !.inFlight = Started]
      OBVIOUS
    <2> PICK js : js = RefreshJob(win)
      OBVIOUS
    <2>1. HandleAnd(w, js, d)
      BY <1>2 DEF StartRefresh
    <2>2. Starts(js) /\ js # <<>> /\ js[1] = "ready"
      BY StartsIs DEF RefreshJob, AnswerKinds
    <2>3. "status" \in DOMAIN w /\ "inFlight" \in DOMAIN w /\ w.inFlight = (lost' = lost)
      BY DEF Sound, InFlight, Started
    <2>4. Sound'
      BY <2>1, <2>2, <2>3, HandleSound
    <2>5. InFlight'
      BY <2>1, <2>2, <2>3, HandleFlight
    <2> QED
      BY <2>4, <2>5
  <1> QED
    BY <1>1, <1>2

\* A step that leaves the queue's messages and the threads where they are.
LEMMA FlightStays ==
  ASSUME InFlight, Keeps, "inFlight" \in DOMAIN win', win'.inFlight = win.inFlight PROVE InFlight'
  BY DEF InFlight, Keeps
LEMMA SendFlight ==
  ASSUME Sound, InFlight, NEW a, NEW m, Send(a, m, win) PROVE Sound' /\ InFlight'
  <1>1. Keeps
    BY SendMail DEF Send, Sound
  <1>2. UNCHANGED win
    BY DEF Send
  <1> QED
    BY <1>1, <1>2, SendSound, FlightStays DEF Sound, InFlight
LEMMA TimerFlight ==
  ASSUME Sound, InFlight, NEW a, NEW what, Timer(a, what) PROVE Sound' /\ InFlight'
  <1>1. Mail' /\ Keeps /\ UNCHANGED <<win, lost>>
    BY SendMail DEF Timer, Sound
  <1> QED
    BY <1>1, FlightStays DEF Sound, Keeps, Waiting, InFlight
LEMMA AnswerFlight ==
  ASSUME Sound, InFlight, UNCHANGED <<win, inbox, lost>>,
         \E j \in DOMAIN jobs : \E r :
            /\ jobs[j].ans = NoAnswer
            /\ jobs' = [jobs EXCEPT ![j].ans = r]
            /\ jobs[j].what # "control"
  PROVE  Sound' /\ InFlight'
  <1> PICK j \in DOMAIN jobs : \E r : /\ jobs[j].ans = NoAnswer
                                      /\ jobs' = [jobs EXCEPT ![j].ans = r]
                                      /\ jobs[j].what # "control"
    OBVIOUS
  <1> PICK r : /\ jobs[j].ans = NoAnswer
               /\ jobs' = [jobs EXCEPT ![j].ans = r]
               /\ jobs[j].what # "control"
    OBVIOUS
  <1>1. Mail' /\ Keeps
    BY AnswerMail DEF Sound
  <1> QED
    BY <1>1, FlightStays DEF Sound, Waiting, Keeps, InFlight
LEMMA WorldFlight ==
  ASSUME Sound, InFlight, UNCHANGED <<win, jobs, inbox, lost>> PROVE Sound' /\ InFlight'
  BY SameSound, SameMail, FlightStays DEF Sound, InFlight

LEMMA PollStarts ==
  ASSUME inbox = <<>>, UNCHANGED inbox, SpawnAll(<<<<"ready", [gen |-> 0]>>>>), win' = ShellyWindow
  PROVE  Sound' /\ InFlight'
  <1> PICK x : x = [gen |-> 0]
    OBVIOUS
  <1> PICK s : s = <<<<"ready", x>>>>
    OBVIOUS
  <1>1. DOMAIN s = {1} /\ s[1][1] = "ready"
    OBVIOUS
  <1>2. IsFiniteSet(DOMAIN s)
    BY <1>1, FS_Singleton
  <1>3. DOMAIN s \subseteq Nat \ {0}
    BY <1>1
  <1>4. SpawnAll(s)
    OBVIOUS
  <1>5. Hopes("any", s[1][1], s[1][2]) /\ Hopes("ready", s[1][1], s[1][2])
    BY <1>1 DEF Hopes, AnswerKinds
  <1>6. Mail' /\ (lost' = lost => Due("any")' /\ Due("ready")') /\ (lost' = lost \/ lost')
    BY <1>1, <1>2, <1>3, <1>4, <1>5, LaunchMail
  <1>7. {"status", "inFlight"} \subseteq DOMAIN win' /\ win'.inFlight = (lost' = lost)
    BY DEF ShellyWindow, Started
  <1> QED
    BY <1>6, <1>7 DEF Sound, InFlight

LEMMA ShellySound ==
  ASSUME ShellyNext, phase = "open" => Sound /\ InFlight, phase = "start" => inbox = <<>>, phase' = "open"
  PROVE  Sound' /\ InFlight'
  <1> USE StartsIs, QuietIs DEF Waiting, BusyTexts
  <1>1. CASE ShellyApp
    BY <1>1, PollStarts DEF ShellyApp, LaunchAnd
  <1>2. CASE Instantiate
    <2>1. <<"ready", [gen |-> 0]>> # <<>>
      OBVIOUS
    <2> QED
      BY <1>2, <2>1, PollStarts DEF Instantiate, Launch, LaunchAnd
  <1>3. CASE ShellyRefreshThread \/ ShellySetThread \/ GraphRefreshThread
    BY <1>3, AnswerFlight DEF ShellyRefreshThread, ShellySetThread, GraphRefreshThread, Works
  <1>4. CASE Timer("shelly", "refresh") \/ Timer("shellygraph", "tick")
    <2>1. phase = "open"
      BY <1>4 DEF Timer
    <2> QED
      BY <1>4, <2>1, TimerFlight
  <1>5. CASE ShellyButtons \/ Click("shellygraph", "click")
    <2>1. phase = "open"
      BY <1>5 DEF ShellyButtons, Click, Send
    <2> QED
      BY <1>5, <2>1, SendFlight DEF ShellyButtons, Click
  <1>6. CASE ShellyTick \/ GraphPoll
    BY <1>6, RefreshSound DEF ShellyTick, GraphPoll, Got
  <1>7. CASE UpdateFromReady
    <2> PICK g : g = Push(win.graph, arg.on)
      OBVIOUS
    <2> PICK gap : gap = Push(win.graph, "gap")
      OBVIOUS
    <2> PICK v : v = [win EXCEPT !.inFlight = FALSE, !.status = "ready",
                                 !.gen = arg.gen, !.rows = <<arg.on>>, !.graph = g]
      OBVIOUS
    <2> PICK w : w = ReloadHistory(v)
      OBVIOUS
    <2> PICK u : u = [win EXCEPT !.inFlight = FALSE, !.status = "unreachable", !.graph = gap]
      OBVIOUS
    <2>0. phase = "open" /\ inbox # <<>>
      BY <1>7 DEF UpdateFromReady, Got
    <2>1. /\ {"status", "inFlight"} \subseteq DOMAIN v /\ v.status = "ready" /\ ~v.inFlight
          /\ {"status", "inFlight"} \subseteq DOMAIN u /\ u.status = "unreachable" /\ ~u.inFlight
      BY <2>0 DEF Sound, InFlight
    <2>2. {"status", "inFlight"} \subseteq DOMAIN w /\ w.status = "ready" /\ ~w.inFlight
      BY <2>1 DEF ReloadHistory
    <2>3. (\E d : HandleAnd(w, <<>>, d)) \/ HandleAnd(u, <<>>, dev)
      BY <1>7 DEF UpdateFromReady, Handle
    <2> QED
      BY <2>0, <2>1, <2>2, <2>3, HandleSound, HandleFlight
  <1>8. CASE GraphReady
    <2> PICK v : v = [win EXCEPT !.inFlight = FALSE,
                             !.gen = IF arg.ok THEN arg.gen ELSE @,
                             !.status = IF arg.ok THEN "ready" ELSE "unreachable",
                             !.graph = Push(win.graph, IF arg.ok THEN arg.on ELSE "gap")]
      OBVIOUS
    <2> PICK w : w = ReloadHistory(v)
      OBVIOUS
    <2>0. phase = "open" /\ inbox # <<>>
      BY <1>8 DEF GraphReady, Got
    <2>1. {"status", "inFlight"} \subseteq DOMAIN v /\ v.status \in {"ready", "unreachable"} /\ ~v.inFlight
      BY <2>0 DEF Sound, InFlight
    <2>2. {"status", "inFlight"} \subseteq DOMAIN w /\ w.status \in {"ready", "unreachable"} /\ ~w.inFlight
      BY <2>1 DEF ReloadHistory
    <2>3. HandleAnd(w, <<>>, dev)
      BY <1>8 DEF GraphReady, Handle
    <2> QED
      BY <2>0, <2>2, <2>3, HandleSound, HandleFlight
  <1>9. CASE ShellyToggle
    <2> PICK w : w = Sending(win)
      OBVIOUS
    <2> PICK js : js = <<"set", [gen |-> win.gen, on |-> arg]>>
      OBVIOUS
    <2>0. phase = "open" /\ inbox # <<>> /\ Head(inbox).what = "toggle"
      BY <1>9 DEF ShellyToggle, Got
    <2>1. {"status", "inFlight"} \subseteq DOMAIN w /\ w.inFlight = win.inFlight
      BY <2>0 DEF Sound, InFlight, Sending
    <2>2. HandleAnd(w, js, dev) /\ Starts(js)
      BY <1>9 DEF ShellyToggle, Handle, AnswerKinds
    <2> QED
      BY <2>0, <2>1, <2>2, HandleSound, HandleFlight
  <1>10. CASE ShellyCmdDone
    <2> PICK w : w = [win EXCEPT !.status = "failed"]
      OBVIOUS
    <2>0. phase = "open" /\ inbox # <<>> /\ Head(inbox).what = "set"
      BY <1>10 DEF ShellyCmdDone, Got
    <2>1. {"status", "inFlight"} \subseteq DOMAIN w /\ w.inFlight = win.inFlight /\ w.status = "failed"
      BY <2>0 DEF Sound, InFlight
    <2>2. StartRefresh(win, dev) \/ HandleAnd(w, <<>>, dev)
      BY <1>10 DEF ShellyCmdDone, Handle
    <2>3. CASE StartRefresh(win, dev)
      BY <2>0, <2>3, RefreshSound
    <2>4. CASE HandleAnd(w, <<>>, dev)
      BY <2>0, <2>1, <2>4, HandleSound, HandleFlight
    <2> QED
      BY <2>2, <2>3, <2>4
  <1>11. CASE ShellyOpenWeb \/ ShellyHistory \/ GraphMouseDown
    <2> PICK w : w = SetHistoryMode(win)
      OBVIOUS
    <2>0. phase = "open" /\ inbox # <<>> /\ Head(inbox).what # "ready" /\ Quiet
      BY <1>11 DEF ShellyOpenWeb, ShellyHistory, GraphMouseDown, Got, AnswerKinds, Quiet, Tells, Hopes
    <2>1. {"status", "inFlight"} \subseteq DOMAIN w /\ w.inFlight = win.inFlight /\ w.status = win.status
      BY <2>0 DEF Sound, InFlight, SetHistoryMode
    <2>2. HandleAnd(win, <<>>, dev) \/ HandleAnd(w, <<>>, dev)
      BY <1>11 DEF ShellyOpenWeb, ShellyHistory, GraphMouseDown, Handle
    <2> QED
      BY <2>0, <2>1, <2>2, HandleSound, HandleFlight DEF Sound, InFlight
  <1>12. CASE DeviceChanges("shelly", {[dev EXCEPT !.on = ~@]}) \/ OtherWindowReads
    BY <1>12, WorldFlight DEF OtherWindowReads, DeviceChanges
  <1>13. CASE OtherWindowWrites \/ RecordOne \/ Trim
    BY <1>13, WorldFlight DEF OtherWindowWrites, RecordOne, Trim
  <1> QED
    BY <1>1, <1>2, <1>3, <1>4, <1>5, <1>6, <1>7, <1>8, <1>9, <1>10, <1>11, <1>12, <1>13 DEF ShellyNext
-----------------------------------------------------------------------------
\* The Spotify window: of its answers only the good one about what is playing leaves the text.
LEMMA ControlStarts == \A op, auth, play : Starts(Job(op, auth, play)) <=> op # "now"
  BY DEF Starts, Job, Hopes, AnswerKinds
LEMMA ControlTells == ASSUME Got("spotify", "control"), arg.op = "now" PROVE Quiet
  BY DEF Got, Quiet, Tells, Hopes, arg
LEMMA OneSeq == ASSUME NEW X, NEW x \in X PROVE <<x>> \in Seq(X)
  OBVIOUS
LEMMA SpotifyOpens == ASSUME SpotifyApp, phase = "start" => inbox = <<>>, phase' = "open" PROVE Sound'
  <1> PICK port \in BOOLEAN :
        LaunchAnd("spotify", SpotifyWindow(port),
                  SpotifyStartProbe(port)
                  \o (IF HasRefresh(LoadAuth) THEN <<Job("devices", LoadAuth, TRUE)>> ELSE <<>>), dev)
    BY DEF SpotifyApp
  <1> PICK js : js = Job("devices", LoadAuth, TRUE)
    OBVIOUS
  <1> PICK t : t = IF HasRefresh(LoadAuth) THEN <<js>> ELSE <<>>
    OBVIOUS
  <1> PICK pr : pr = <<"probe", "none">>
    OBVIOUS
  <1> PICK q : q = IF port THEN <<pr>> ELSE <<>>
    OBVIOUS
  <1> PICK s : s = q \o t
    OBVIOUS
  <1> PICK w : w = SpotifyWindow(port)
    OBVIOUS
  <1>1. SpawnAll(s) /\ win' = w /\ inbox = <<>> /\ UNCHANGED inbox
    BY DEF LaunchAnd, SpotifyStartProbe
  <1> PICK X : X = {js, pr}
    OBVIOUS
  <1>2. t \in Seq(X) /\ q \in Seq(X)
    <2>1. \A x \in X : <<x>> \in Seq(X)
      BY OneSeq
    <2>2. <<>> \in Seq(X)
      OBVIOUS
    <2>3. js \in X /\ pr \in X
      OBVIOUS
    <2> QED
      BY <2>1, <2>2, <2>3
  <1>3. s \in Seq(X)
    BY <1>2, ConcatProperties
  <1>4. DOMAIN s = 1..Len(s) /\ Len(s) \in Nat
    BY <1>3
  <1>5. IsFiniteSet(DOMAIN s)
    BY <1>4, FS_Interval
  <1>6. port => 1 \in DOMAIN s /\ s[1] = pr
    BY <1>2
  <1>7. port => Hopes("any", s[1][1], s[1][2])
    <2>1. pr[1] = "probe"
      OBVIOUS
    <2> QED
      BY <1>6, <2>1 DEF Hopes, AnswerKinds
  <1>8. DOMAIN s \subseteq Nat \ {0}
    BY <1>4
  <1>9. Mail' /\ (port => lost' \/ Due("any")')
    BY <1>1, <1>5, <1>6, <1>7, <1>8, LaunchMail
  <1>10. "status" \in DOMAIN w /\ w.status = IF port THEN "loading" ELSE "noport"
    BY DEF SpotifyWindow, UpdateAuthUi
  <1> QED
    BY <1>1, <1>9, <1>10 DEF Sound, Waiting, BusyTexts

LEMMA SpotifyAnswers ==
  ASSUME Sound, SpotifyControlDone PROVE Sound'
  <1> USE DEF Waiting, BusyTexts
  <1>0. Got("spotify", "control") /\ inbox # <<>>
    BY DEF SpotifyControlDone, Got
  <1> PICK w : w = [win EXCEPT !.auth = WarmAuth(@, arg.auth)]
    OBVIOUS
  <1>1. "status" \in DOMAIN w /\ w.status = win.status
    BY DEF Sound
  <1> PICK v : v = UpdateAuthUi([w EXCEPT !.auth.client = TRUE, !.canConnect = TRUE, !.status = "linked"])
    OBVIOUS
  <1>2. "status" \in DOMAIN v /\ v.status = "linked"
    BY <1>1 DEF UpdateAuthUi
  <1> PICK e : e = [w EXCEPT !.canConnect = TRUE, !.status = "error"]
    OBVIOUS
  <1>3. "status" \in DOMAIN e /\ e.status = "error"
    BY <1>1
  <1> PICK f : f = [w EXCEPT !.status = "error"]
    OBVIOUS
  <1>4. "status" \in DOMAIN f /\ f.status = "error"
    BY <1>1
  <1> PICK m : m = [w EXCEPT !.matched = arg.matched, !.canTransfer = arg.matched,
                             !.status = IF arg.matched THEN "ready" ELSE "error"]
    OBVIOUS
  <1>5. "status" \in DOMAIN m /\ m.status \in {"ready", "error"}
    BY <1>1
  <1> PICK n : n = [w EXCEPT !.playing = arg.playing]
    OBVIOUS
  <1>6. "status" \in DOMAIN n /\ n.status = win.status
    BY <1>1
  <1> PICK d : d = [w EXCEPT !.status = "done"]
    OBVIOUS
  <1>7. "status" \in DOMAIN d /\ d.status = "done"
    BY <1>1
  <1>8. \/ \E js : Handle(v, js)
        \/ Handle(e, <<>>)
        \/ Handle(f, <<>>)
        \/ \E js : Handle(m, js)
        \/ arg.op = "now" /\ Handle(n, <<>>)
        \/ \E js : Handle(d, js)
    BY DEF SpotifyControlDone
  <1>9. CASE arg.op = "now" /\ Handle(n, <<>>)
    BY <1>0, <1>6, <1>9, ControlTells, HandleSound DEF Handle
  <1> QED
    BY <1>0, <1>2, <1>3, <1>4, <1>5, <1>7, <1>8, <1>9, HandleSound DEF Handle

LEMMA SpotifySound ==
  ASSUME SpotifyNext, phase = "open" => Sound, phase = "start" => inbox = <<>>, phase' = "open"
  PROVE  Sound'
  <1> USE ControlStarts, QuietIs DEF Waiting, BusyTexts
  <1>1. CASE SpotifyApp
    BY <1>1, SpotifyOpens
  <1>2. CASE SpotifyControlThread
    <2> PICK j \in DOMAIN jobs : \E r \in Control(jobs[j].arg) :
          jobs[j].ans = NoAnswer /\ jobs' = [jobs EXCEPT ![j].ans = r]
      BY <1>2 DEF SpotifyControlThread, Works
    <2> PICK r \in Control(jobs[j].arg) : jobs[j].ans = NoAnswer /\ jobs' = [jobs EXCEPT ![j].ans = r]
      OBVIOUS
    <2>1. r.op = jobs[j].arg.op
      BY DEF Control, Answer
    <2>2. phase = "open" /\ UNCHANGED <<win, inbox, lost>>
      BY <1>2 DEF SpotifyControlThread, Works
    <2> QED
      BY <2>1, <2>2, AnswerSound
  <1>3. CASE SpotifyProbeThread
    BY <1>3, AnswerSound DEF SpotifyProbeThread, Works
  <1>4. CASE SpotifyButtons
    BY <1>4, SendSound, ClickSound DEF SpotifyButtons, Sound
  <1>5. CASE SpotifyInfoReady
    <2> PICK w : w = [win EXCEPT !.status = IF arg.ok THEN "ready" ELSE "error", !.named = @ \/ arg.name]
      OBVIOUS
    <2>1. phase = "open" /\ inbox # <<>> /\ \E js : Handle(w, js)
      BY <1>5 DEF SpotifyInfoReady, Got
    <2>2. "status" \in DOMAIN w /\ w.status \in {"ready", "error"}
      BY <2>1 DEF Sound
    <2> QED
      BY <2>1, <2>2, HandleSound DEF Handle
  <1>6. CASE SpotifyConnect
    BY <1>6, HandleSound DEF SpotifyConnect, Got, Handle, Loading, Sound
  <1>7. CASE SpotifyDisconnect
    <2> PICK w : w = UpdateAuthUi([win EXCEPT !.auth = NoAuth, !.matched = FALSE, !.canTransfer = FALSE,
                                              !.status = "unlinked"])
      OBVIOUS
    <2>1. phase = "open" /\ inbox # <<>> /\ \E d : HandleAnd(w, <<>>, d)
      BY <1>7 DEF SpotifyDisconnect, Got
    <2>2. "status" \in DOMAIN w /\ w.status = "unlinked"
      BY <2>1 DEF UpdateAuthUi, Sound
    <2> QED
      BY <2>1, <2>2, HandleSound
  <1>8. CASE SpotifyTransfer
    BY <1>8, HandleSound DEF SpotifyTransfer, Got, Handle, Sending, Sound
  <1>9. CASE SpotifyPlayPause \/ SpotifySkip
    BY <1>9, HandleSound DEF SpotifyPlayPause, SpotifySkip, Got, Handle, Sending, Sound
  <1>10. CASE SpotifyControlDone
    BY <1>10, SpotifyAnswers DEF SpotifyControlDone, Got
  <1> QED
    BY <1>1, <1>2, <1>3, <1>4, <1>5, <1>6, <1>7, <1>8, <1>9, <1>10 DEF SpotifyNext

-----------------------------------------------------------------------------
\* The Fire TV window: only the remote is ever busy, has threads and is sent keys.
RemoteOnly ==
  /\ "page" \in DOMAIN win
  /\ win.page # "remote" => /\ ~Waiting(win)
                            /\ DOMAIN jobs = {}
                            /\ \A m \in Range(inbox) : m.what \notin {"press", "key"}
LEMMA MsgIs == \A what, x : Msg(what, x).what = what /\ Msg(what, x).arg = x
  BY DEF Msg
LEMMA FireTvSound ==
  ASSUME FireTvNext, phase = "open" => Sound /\ RemoteOnly, phase = "start" => inbox = <<>>, phase' = "open"
  PROVE  Sound' /\ RemoteOnly'
  <1> USE StartsIs, QuietIs DEF Waiting, BusyTexts
  <1>0. \A w, kind : Starts(SendCmd(w, kind))
    BY DEF SendCmd, AnswerKinds
  <1>a. ASSUME NEW w, NEW js, NEW d, HandleAnd(w, js, d), phase = "open", inbox # <<>>,
               {"status", "page"} \subseteq DOMAIN w,
               w.page # "remote" => win.page # "remote" /\ js = <<>> /\ ~Waiting(w),
               Waiting(w) => Starts(js) \/ (Waiting(win) /\ Quiet)
        PROVE  Sound' /\ RemoteOnly'
    <2>1. win' = w /\ inbox' = Tail(inbox) /\ (js = <<>> => UNCHANGED jobs)
      BY <1>a DEF HandleAnd, Spawn
    <2>2. Sound'
      BY <1>a, HandleSound
    <2>3. Range(inbox') \subseteq Range(inbox)
      BY <1>a, <2>1, InboxShrinks DEF Sound, Mail
    <2> QED
      BY <1>a, <2>1, <2>2, <2>3 DEF RemoteOnly
  <1>b. ASSUME phase = "open", UNCHANGED <<jobs, lost>>,
               UNCHANGED inbox \/ \E m : inbox' = Append(inbox, m) /\ (win.page # "remote" => m.what \notin {"press", "key"}),
               {"status", "page"} \subseteq DOMAIN win', win'.status = win.status, win'.page = win.page
        PROVE  Sound' /\ RemoteOnly'
    <2>1. Mail' /\ Keeps
      BY <1>b, SendMail, SameMail DEF Sound
    <2>2. win.page # "remote" => \A m \in Range(inbox') : m.what \notin {"press", "key"}
      BY <1>b, InboxGrows DEF RemoteOnly, Sound, Mail
    <2> QED
      BY <1>b, <2>1, <2>2 DEF Sound, RemoteOnly, Keeps
  <1>1. CASE FireTvApp
    <2> PICK w : w = BuildRemote(BuildPairing, TRUE)
      OBVIOUS
    <2>1. Launch("firetv", w, SendCmd([token |-> TRUE], "wake")) \/ Launch("firetv", BuildPairing, <<>>)
      BY <1>1 DEF FireTvApp
    <2>2. /\ {"status", "page"} \subseteq DOMAIN w /\ w.page = "remote"
          /\ {"status", "page"} \subseteq DOMAIN BuildPairing /\ BuildPairing.status = "host"
      BY DEF BuildRemote, BuildPairing
    <2>3. Sound'
      BY <1>0, <2>1, <2>2, LaunchSound
    <2>4. Range(inbox') = {}
      <3>1. inbox' = <<>>
        BY <2>1 DEF Launch, LaunchAnd
      <3> QED
        BY <3>1 DEF Range
    <2>5. CASE Launch("firetv", w, SendCmd([token |-> TRUE], "wake"))
      BY <2>2, <2>3, <2>5 DEF RemoteOnly, Launch, LaunchAnd
    <2>6. CASE Launch("firetv", BuildPairing, <<>>)
      <3>1. SpawnAll(<<>>) /\ win' = BuildPairing
        BY <2>6 DEF Launch, LaunchAnd
      <3>2. DOMAIN jobs' = {}
        BY <3>1 DEF SpawnAll
      <3> QED
        BY <2>2, <2>3, <2>4, <3>1, <3>2 DEF RemoteOnly
    <2> QED
      BY <2>1, <2>5, <2>6
  <1>2. CASE FireTvSendThread
    <2>1. phase = "open" /\ UNCHANGED <<win, inbox>> /\ DOMAIN jobs' = DOMAIN jobs
      BY <1>2 DEF FireTvSendThread, Works
    <2>2. Sound'
      BY <1>2, <2>1, AnswerSound DEF FireTvSendThread, Works
    <2> QED
      BY <2>1, <2>2 DEF RemoteOnly
  <1>3. CASE FireTvButtons
    <2>1. /\ phase = "open" /\ UNCHANGED <<win, jobs, lost>>
          /\ \E m : inbox' = Append(inbox, m) /\ (win.page # "remote" => m.what \notin {"press", "key"})
      BY <1>3, MsgIs DEF FireTvButtons, Click, Send
    <2> QED
      BY <1>b, <2>1 DEF Sound, RemoteOnly
  <1>4. CASE FireTvPairShow
    BY <1>4, <1>a DEF FireTvPairShow, Got, Sound, RemoteOnly
  <1>5. CASE FireTvPairOk
    <2> PICK w : w = BuildRemote(win, TRUE)
      OBVIOUS
    <2> PICK u : u = [win EXCEPT !.status = "badpin"]
      OBVIOUS
    <2>0. phase = "open" /\ inbox # <<>>
      BY <1>5 DEF FireTvPairOk, Got
    <2>1. {"status", "page"} \subseteq DOMAIN w /\ w.page = "remote"
      BY <2>0 DEF Sound, RemoteOnly, BuildRemote
    <2>2. {"status", "page"} \subseteq DOMAIN u /\ u.status = "badpin"
      BY <2>0 DEF Sound, RemoteOnly
    <2>3. (\E d : HandleAnd(w, SendCmd([token |-> TRUE], "wake"), d)) \/ HandleAnd(u, <<>>, dev)
      BY <1>5 DEF FireTvPairOk, Handle
    <2> QED
      BY <1>0, <1>a, <2>0, <2>1, <2>2, <2>3
  <1>6. CASE Dangling("pairshow") \/ Dangling("pairok")
    <2>1. phase = "open" /\ inbox # <<>> /\ Quiet /\ HandleAnd(win, <<>>, dev)
      BY <1>6 DEF Dangling, Got, Handle, Quiet, Tells, Hopes, AnswerKinds
    <2> QED
      BY <1>a, <2>1 DEF Sound, RemoteOnly
  <1>7. CASE FireTvMouseDown \/ FireTvKeyDown
    <2> PICK w : w = [win EXCEPT !.status = SendStatus]
      OBVIOUS
    <2>0. phase = "open" /\ inbox # <<>> /\ Quiet
      BY <1>7 DEF FireTvMouseDown, FireTvKeyDown, Got, Quiet, Tells, Hopes, AnswerKinds
    <2>1. {"status", "page"} \subseteq DOMAIN w /\ w.page = win.page /\ w.status \in {"sending", "error"}
      BY <2>0 DEF Sound, RemoteOnly, SendStatus
    <2>2. (\E kind : HandleAnd(w, SendCmd(win, kind), dev)) \/ HandleAnd(win, <<>>, dev)
      BY <1>7 DEF FireTvMouseDown, FireTvKeyDown, Handle
    <2>3. Head(inbox) \in Range(inbox) /\ Head(inbox).what \in {"press", "key"}
      BY <1>7, <2>0, RangeTail DEF FireTvMouseDown, FireTvKeyDown, Got, Sound, Mail
    <2>4. win.page = "remote"
      BY <2>0, <2>3 DEF RemoteOnly
    <2> QED
      BY <1>0, <1>a, <2>0, <2>1, <2>2, <2>4 DEF Sound, RemoteOnly
  <1>8. CASE FireTvCmdDone
    <2> PICK w : w = [win EXCEPT !.status = IF arg.ok THEN "done" ELSE "failed"]
      OBVIOUS
    <2>0. phase = "open" /\ inbox # <<>>
      BY <1>8 DEF FireTvCmdDone, Got
    <2>1. {"status", "page"} \subseteq DOMAIN w /\ w.status \in {"done", "failed"}
      BY <2>0 DEF Sound, RemoteOnly
    <2>2. HandleAnd(w, <<>>, dev) \/ (win.page # "remote" /\ HandleAnd(win, <<>>, dev))
      BY <1>8 DEF FireTvCmdDone, Handle
    <2> QED
      BY <1>a, <2>0, <2>1, <2>2 DEF Sound, RemoteOnly
  <1>9. CASE FireTvOpenKeymap \/ FireTvKeymapChanged \/ FireTvKeymapClosed
    <2> PICK w : w = [win EXCEPT !.kmPtr = TRUE, !.km = TRUE, !.kmKeys = KeymapLoad, !.armed = {}]
      OBVIOUS
    <2> PICK u : u = [win EXCEPT !.keys = KeymapLoad]
      OBVIOUS
    <2> PICK v : v = [win EXCEPT !.kmPtr = FALSE]
      OBVIOUS
    <2>0. phase = "open" /\ inbox # <<>> /\ Quiet
      BY <1>9
         DEF FireTvOpenKeymap, FireTvKeymapChanged, FireTvKeymapClosed, Got, Quiet, Tells, Hopes, AnswerKinds
    <2>1. \A x \in {w, u, v, win} : {"status", "page"} \subseteq DOMAIN x /\ x.page = win.page /\ x.status = win.status
      BY <2>0 DEF Sound, RemoteOnly
    <2>2. \E x \in {w, u, v, win} : HandleAnd(x, <<>>, dev)
      BY <1>9 DEF FireTvOpenKeymap, FireTvKeymapChanged, FireTvKeymapClosed, Handle
    <2> QED
      BY <1>a, <2>0, <2>1, <2>2 DEF RemoteOnly
  <1>10. CASE KeymapReset \/ KeymapArm \/ KeymapKeyDown \/ KeymapClose
    <2>0. phase = "open"
      BY <1>10 DEF KeymapReset, KeymapArm, KeymapKeyDown, KeymapClose, InKeymap
    <2>1. /\ UNCHANGED <<jobs, lost>>
          /\ UNCHANGED inbox \/ \E m : inbox' = Append(inbox, m) /\ m.what \notin {"press", "key"}
      <3>1. CASE KeymapArm
        BY <3>1 DEF KeymapArm
      <3>2. CASE KeymapClose
        BY <3>2, MsgIs DEF KeymapClose
      <3>3. CASE \E w : Edited(w)
        BY <3>3, MsgIs DEF Edited
      <3> QED
        BY <1>10, <3>1, <3>2, <3>3 DEF KeymapReset, KeymapKeyDown
    <2>2. {"status", "page"} \subseteq DOMAIN win' /\ win'.status = win.status /\ win'.page = win.page
      BY <1>10, <2>0 DEF KeymapReset, KeymapArm, KeymapKeyDown, KeymapClose, Edited, Sound, RemoteOnly
    <2> QED
      BY <1>b, <2>0, <2>1, <2>2
  <1> QED
    BY <1>1, <1>2, <1>3, <1>4, <1>5, <1>6, <1>7, <1>8, <1>9, <1>10 DEF FireTvNext

\* The ESPHome window only opens others.
LEMMA EsphomeSound ==
  ASSUME CameraNext, app = "esphome", phase = "open" => Sound, phase = "start" => inbox = <<>>, phase' = "open"
  PROVE  Sound'
  <1> USE QuietIs DEF Waiting, BusyTexts
  <1>1. EsphomeApp \/ EsphomeButtons \/ EsphomeOpen
    BY DEF CameraNext, CameraApp, Opened, CameraButtons, CameraTimer, CameraSnapReader, Works, CameraFrame,
           CameraSnap, CameraCamError, CameraReconnect, CameraReconnected, CameraSnapshot, CameraSnapshotTaken,
           CameraToggleAuto, CameraAutoStarted, CameraSaveFrame, CameraDesktopWidget, CameraOpenWeb, CameraQuit,
           CameraClosed, WidgetAttached, WidgetMouseDown, WidgetTimer, WidgetSnapReader, WidgetMode,
           WidgetStopAll, WidgetTick, WidgetFrame, CamGot, Got, Stopped, TcpConnect, Open, NextFrame, Reading,
           DeviceChanges, Viewers
  <1>2. CASE EsphomeApp
    BY <1>2, LaunchSound DEF EsphomeApp, EsphomeWindow
  <1>3. CASE EsphomeButtons
    BY <1>3, ClickSound DEF EsphomeButtons
  <1>4. CASE EsphomeOpen
    BY <1>4, HandleSound DEF EsphomeOpen, Got, Handle, AnswerKinds, Sound
  <1> QED
    BY <1>1, <1>2, <1>3, <1>4
-----------------------------------------------------------------------------
\* The SMB window: also the busy flag, which disables its buttons, waits for an answer.
BusyFlag == "busy" \in DOMAIN win /\ (win.busy => lost \/ Due("any"))
LEMMA SmbSound ==
  ASSUME SmbNext, phase = "open" => Sound /\ BusyFlag, phase = "start" => inbox = <<>> /\ jobs = <<>>,
         phase' = "open"
  PROVE  Sound' /\ BusyFlag'
  <1> USE StartsIs, QuietIs DEF Waiting, BusyTexts
  <1>a. ASSUME NEW w, NEW js, NEW d, HandleAnd(w, js, d), phase = "open", inbox # <<>>,
               {"status", "busy"} \subseteq DOMAIN w,
               Waiting(w) => Starts(js) \/ (Waiting(win) /\ Quiet),
               w.busy => Starts(js) \/ (win.busy /\ Quiet)
        PROVE  Sound' /\ BusyFlag'
    <2>1. win' = w /\ inbox' = Tail(inbox) /\ Spawn(js)
      BY <1>a DEF HandleAnd
    <2>2. Sound'
      BY <1>a, HandleSound
    <2>3. /\ Due("any") /\ Quiet => Due("any")'
          /\ Starts(js) /\ lost' = lost => Due("any")'
          /\ lost' = lost \/ lost'
      BY <1>a, <2>1, HandleMail DEF Sound, Quiet, Starts
    <2> QED
      BY <1>a, <2>1, <2>2, <2>3 DEF BusyFlag
  <1>b. ASSUME phase = "open", Mail', Keeps, UNCHANGED lost,
               {"status", "busy"} \subseteq DOMAIN win', win'.status = win.status, win'.busy = win.busy
        PROVE  Sound' /\ BusyFlag'
    BY <1>b DEF Sound, BusyFlag, Keeps
  <1>1. CASE SmbMountApp
    <2> PICK c : c = Msg("connect", "none")
      OBVIOUS
    <2>1. {"status", "busy"} \subseteq DOMAIN win' /\ win'.status = "none" /\ ~win'.busy
      <3>1. \E server, share, host : win' = ConnectForm(server, share, host)
        BY <1>1 DEF SmbMountApp
      <3> QED
        BY <3>1 DEF ConnectForm
    <2>2. jobs' = <<>> /\ inbox' \in {<<c>>, <<>>}
      BY <1>1 DEF SmbMountApp
    <2>3. inbox' \in Seq({c})
      <3>1. <<c>> \in Seq({c})
        BY OneSeq
      <3>2. <<>> \in Seq({c})
        OBVIOUS
      <3> QED
        BY <2>2, <3>1, <3>2
    <2>4. inbox' \in Seq(Range(inbox'))
      BY <2>3, OwnRange
    <2>5. DOMAIN jobs' = {}
      BY <2>2
    <2>6. IsFiniteSet(DOMAIN jobs')
      BY <2>5, FS_EmptySet
    <2> QED
      BY <2>1, <2>4, <2>5, <2>6 DEF Sound, Mail, JobsNumbered, BusyFlag
  <1>2. CASE SmbPress
    <2>1. phase = "open" /\ UNCHANGED <<win, jobs, lost>> /\ \E m : inbox' = Append(inbox, m)
      BY <1>2 DEF SmbPress, Click, Send
    <2>2. Mail' /\ Keeps
      BY <2>1, SendMail DEF Sound
    <2> QED
      BY <1>b, <2>1, <2>2 DEF Sound, BusyFlag
  <1>3. CASE SmbEdit
    <2>1. phase = "open" /\ UNCHANGED <<jobs, inbox, lost>>
      BY <1>3 DEF SmbEdit, Type
    <2>2. {"status", "busy"} \subseteq DOMAIN win' /\ win'.status = win.status /\ win'.busy = win.busy
      BY <1>3, <2>1 DEF SmbEdit, Type, Sound, BusyFlag
    <2>3. Mail' /\ Keeps
      BY <2>1, SameMail DEF Sound
    <2> QED
      BY <1>b, <2>1, <2>2, <2>3
  <1>4. CASE SmbDoConnect \/ SmbDoEnumShares
    <2> PICK w : w = IF lost' = lost THEN [win EXCEPT !.status = "loading", !.busy = TRUE]
                     ELSE [win EXCEPT !.status = "error"]
      OBVIOUS
    <2> PICK u : u = [win EXCEPT !.status = "no server"]
      OBVIOUS
    <2> PICK v : v = [win EXCEPT !.status = "no login"]
      OBVIOUS
    <2>0. phase = "open" /\ inbox # <<>> /\ Quiet
      BY <1>4 DEF SmbDoConnect, SmbDoEnumShares, Got, AnswerKinds, Quiet, Tells, Hopes
    <2>1. \A x \in {w, u, v} : {"status", "busy"} \subseteq DOMAIN x
      BY <2>0 DEF Sound, BusyFlag
    <2>2. \A x \in {u, v} : x.status \in {"no server", "no login"} /\ x.busy = win.busy
      BY <2>0 DEF Sound, BusyFlag
    <2>3. CASE SmbDoConnect
      <3>1. CASE win.server = Empty
        BY <1>a, <2>0, <2>1, <2>2, <2>3, <3>1 DEF SmbDoConnect, Handle
      <3>2. CASE win.server # Empty
        <4> PICK x : x = [step |-> "validate", config |-> Config, at |-> ComputeMountPoint,
                          readOnly |-> win.readOnly, asDisk |-> win.asDisk,
                          remember |-> win.remember \/ win.auto]
          OBVIOUS
        <4> PICK js : js = <<"done", x>>
          OBVIOUS
        <4>1. HandleAnd(w, js, dev)
          BY <2>3, <3>2 DEF SmbDoConnect, HandleAnd, Started
        <4>2. Starts(js)
          BY DEF AnswerKinds
        <4> QED
          BY <1>a, <2>0, <2>1, <4>1, <4>2
      <3> QED
        BY <3>1, <3>2
    <2>4. CASE SmbDoEnumShares
      <3>1. CASE win.server = Empty \/ win.pw = <<>>
        BY <1>a, <2>0, <2>1, <2>2, <2>4, <3>1 DEF SmbDoEnumShares, Handle
      <3>2. CASE ~(win.server = Empty \/ win.pw = <<>>)
        <4> PICK x : x = [config |-> Config]
          OBVIOUS
        <4> PICK js : js = <<"shares", x>>
          OBVIOUS
        <4>1. HandleAnd(w, js, dev)
          BY <2>4, <3>2 DEF SmbDoEnumShares, HandleAnd, Started
        <4>2. Starts(js)
          BY DEF AnswerKinds
        <4> QED
          BY <1>a, <2>0, <2>1, <4>1, <4>2
      <3> QED
        BY <3>1, <3>2
    <2> QED
      BY <1>4, <2>3, <2>4
  <1>5. CASE SmbSharesReady \/ SmbConnectDone
    <2>0. phase = "open" /\ inbox # <<>>
      BY <1>5 DEF SmbSharesReady, SmbConnectDone, Got
    <2> PICK w : w = [win EXCEPT !.busy = FALSE, !.status = "error"]
      OBVIOUS
    <2>1. {"status", "busy"} \subseteq DOMAIN w /\ w.status = "error" /\ ~w.busy
      BY <2>0 DEF Sound, BusyFlag
    <2>2. HandleAnd(w, <<>>, dev)
          \/ \E sh : HandleAnd([win EXCEPT !.busy = FALSE, !.share = sh, !.status = "chosen"], <<>>, dev)
      BY <1>5 DEF SmbSharesReady, SmbConnectDone, Handle
    <2>3. CASE HandleAnd(w, <<>>, dev)
      BY <1>a, <2>0, <2>1, <2>3
    <2>4. ASSUME NEW sh, HandleAnd([win EXCEPT !.busy = FALSE, !.share = sh, !.status = "chosen"], <<>>, dev)
          PROVE  Sound' /\ BusyFlag'
      <3> PICK v : v = [win EXCEPT !.busy = FALSE, !.share = sh, !.status = "chosen"]
        OBVIOUS
      <3>1. {"status", "busy"} \subseteq DOMAIN v /\ v.status = "chosen" /\ ~v.busy
        BY <2>0 DEF Sound, BusyFlag
      <3> QED
        BY <1>a, <2>0, <2>4, <3>1
    <2> QED
      BY <2>2, <2>3, <2>4
  <1>6. CASE SmbDoUnmount \/ SmbOpenVolume
    <2>0. phase = "open" /\ inbox # <<>> /\ Quiet
      BY <1>6 DEF SmbDoUnmount, SmbOpenVolume, Got, AnswerKinds, Quiet, Tells, Hopes
    <2> PICK w : w = [win EXCEPT !.status = "error"]
      OBVIOUS
    <2> PICK u : u = [win EXCEPT !.status = "unmounted"]
      OBVIOUS
    <2>1. \A x \in {w, u} : {"status", "busy"} \subseteq DOMAIN x /\ x.status \in {"error", "unmounted"} /\ x.busy = win.busy
      BY <2>0 DEF Sound, BusyFlag
    <2>2. \E x \in {win, w, u} : \E d : HandleAnd(x, <<>>, d)
      BY <1>6 DEF SmbDoUnmount, SmbOpenVolume, Handle
    <2> QED
      BY <1>a, <2>0, <2>1, <2>2 DEF Sound, BusyFlag
  <1>7. CASE EnumThread \/ ConnectValidate \/ ConnectRemember \/ ConnectMount
    <2>0. phase = "open" /\ UNCHANGED <<win, inbox, lost>>
      BY <1>7 DEF EnumThread, Works, ConnectValidate, ConnectRemember, ConnectMount, ThreadStep, Step
    <2>1. \E j \in DOMAIN jobs :
            /\ jobs[j].what # "control" /\ jobs[j].ans = NoAnswer
            /\ (\E r : jobs' = [jobs EXCEPT ![j].ans = r]) \/ (\E y : jobs' = [jobs EXCEPT ![j].arg = y])
      <3>1. CASE EnumThread
        BY <3>1 DEF EnumThread, Works
      <3>2. CASE ConnectValidate
        BY <3>2 DEF ConnectValidate, Step, ThreadEnds, Goes
      <3>3. CASE ConnectRemember
        BY <3>3 DEF ConnectRemember, Step, Goes
      <3>4. CASE ConnectMount
        BY <3>4 DEF ConnectMount, Step, ThreadEnds
      <3> QED
        BY <1>7, <3>1, <3>2, <3>3, <3>4
    <2>2. inbox' \in Seq(Range(inbox')) /\ Range(inbox) \subseteq Range(inbox')
      BY <2>0 DEF Sound, Mail
    <2>3. Mail' /\ Keeps
      BY <2>0, <2>1, <2>2, AnswerMail, StageMail DEF Sound
    <2> QED
      BY <1>b, <2>0, <2>3 DEF Sound, BusyFlag
  <1>8. CASE SmbLogin \/ SmbRelaunch
    BY <1>8 DEF SmbLogin, SmbRelaunch
  <1> QED
    BY <1>1, <1>2, <1>3, <1>4, <1>5, <1>6, <1>7, <1>8 DEF SmbNext

\* The mounted volume has no messages and is never busy.
LEMMA SmbfsSound ==
  ASSUME SmbfsNext, phase = "open" => Sound, phase = "start" => inbox = <<>> /\ jobs = <<>>, phase' = "open"
  PROVE  Sound'
  <1> USE DEF Waiting, BusyTexts
  <1>a. ASSUME phase = "open", UNCHANGED <<jobs, inbox, lost>>,
               \E w, st, x : "status" \in DOMAIN w /\ Says(w, st, x) /\ st \notin BusyTexts
        PROVE  Sound'
    <2>1. "status" \in DOMAIN win' /\ ~Waiting(win')
      BY <1>a DEF Says
    <2>2. Mail'
      BY <1>a, SameMail DEF Sound
    <2> QED
      BY <2>1, <2>2 DEF Sound
  <1>b. ASSUME phase = "open", UNCHANGED <<jobs, inbox, lost>>,
               NEW w, NEW p, NEW names, "status" \in DOMAIN w, NewHandle(w, p, names)
        PROVE  Sound'
    <2> PICK h, local : h = Len(w.opened) + 1 /\ local = Len(dev.open[p.share]) + 1
      OBVIOUS
    <2> PICK v : v = [w EXCEPT !.fHandles = With(@, h, [share |-> p.share, local |-> local]),
                               !.opened = Append(@, FileOf(p))]
      OBVIOUS
    <2>1. Says(v, "kOk", <<>>)
      BY <1>b DEF NewHandle
    <2>2. "status" \in DOMAIN v
      BY <1>b
    <2> HIDE DEF BusyTexts
    <2>3. "kOk" \notin BusyTexts
      BY DEF BusyTexts
    <2>4. \E x, st, y : "status" \in DOMAIN x /\ Says(x, st, y) /\ st \notin BusyTexts
      BY <2>1, <2>2, <2>3
    <2> QED
      BY <1>a, <1>b, <2>4
  <1>1. CASE SmbfsMain
    <2>1. inbox' = <<>> /\ jobs' = <<>> /\ \E one : win' = Fs(one)
      BY <1>1 DEF SmbfsMain
    <2>2. "status" \in DOMAIN win' /\ win'.status = "none"
      BY <2>1 DEF Fs
    <2>3. inbox' \in Seq(Range(inbox')) /\ DOMAIN jobs' = {}
      BY <2>1 DEF Range
    <2>4. IsFiniteSet(DOMAIN jobs')
      BY <2>3, FS_EmptySet
    <2> QED
      BY <2>2, <2>3, <2>4 DEF Sound, Mail, JobsNumbered
  <1>2. CASE Called /\ ~SmbfsMain
    <2>0. phase = "open" /\ UNCHANGED <<jobs, inbox, lost>> /\ "status" \in DOMAIN win
      BY <1>2 DEF Called, Sound
    <2>1. ASSUME NEW sh, NEW w, w \in ShareBackend(sh), w # <<>> PROVE "status" \in DOMAIN w[1]
      BY <2>0, <2>1 DEF ShareBackend, SmbConnect
    <2>2. CASE FsStat
      BY <1>a, <2>0, <2>1, <2>2 DEF FsStat, OnShare, SmbStat, SaysOnly
    <2>3. CASE FsReadDir
      BY <1>a, <2>0, <2>1, <2>3 DEF FsReadDir, OnShare, SmbReadDir, SaysOnly
    <2>4. CASE FsOpen
      BY <1>a, <1>b, <2>0, <2>1, <2>4 DEF FsOpen, OnShare, SmbOpen, SaysOnly
    <2>5. CASE FsOpenWrite
      BY <1>a, <1>b, <2>0, <2>1, <2>5 DEF FsOpenWrite, OnShare, SmbOpenWrite, SaysOnly
    <2>6. CASE FsRead \/ FsWrite \/ FsClose
      <3>1. ASSUME NEW h, SmbTransfer(h) PROVE Sound'
        BY <1>a, <2>0, <3>1 DEF SmbTransfer, SaysOnly
      <3>2. ASSUME NEW h, SmbClose(h) PROVE Sound'
        <4> PICK v : v = [win EXCEPT !.fHandles = Restrict(@, DOMAIN @ \ {h})]
          OBVIOUS
        <4>1. Says(v, "kOk", <<>>)
          BY <3>2 DEF SmbClose
        <4>2. "status" \in DOMAIN v
          BY <2>0
        <4> QED
          BY <1>a, <2>0, <4>1, <4>2
      <3>3. ASSUME SaysOnly(win, "kBadHandle") PROVE Sound'
        BY <1>a, <2>0, <3>3 DEF SaysOnly
      <3> QED
        BY <2>6, <3>1, <3>2, <3>3 DEF FsRead, FsWrite, FsClose, FsOnHandle, SmbRead, SmbWrite
    <2>7. CASE FsMkdir
      BY <1>a, <2>0, <2>1, <2>7 DEF FsMkdir, FsChange, OnShare, SmbMkdir, SmbChange, SaysOnly
    <2>8. CASE FsUnlink
      BY <1>a, <2>0, <2>1, <2>8 DEF FsUnlink, FsChange, OnShare, SmbUnlink, SmbChange, SaysOnly
    <2>9. CASE FsTruncate
      BY <1>a, <2>0, <2>1, <2>9 DEF FsTruncate, FsChange, OnShare, SmbTruncate, SmbChange, SaysOnly
    <2>10. CASE FsRename
      BY <1>a, <2>0, <2>1, <2>10 DEF FsRename, OnShare, SmbRename, SmbChange, SaysOnly
    <2>11. CASE FsDisconnect
      BY <2>11 DEF FsDisconnect
    <2> QED
      BY <1>2, <2>2, <2>3, <2>4, <2>5, <2>6, <2>7, <2>8, <2>9, <2>10, <2>11 DEF SmbfsNext
  <1>3. CASE ~Called /\ ~SmbfsMain
    <2>1. FsDisconnect
      BY <1>3
         DEF SmbfsNext, FsStat, FsReadDir, FsOpen, FsOpenWrite, FsRead, FsWrite, FsClose, FsOnHandle, FsMkdir,
                  FsUnlink, FsTruncate, FsChange, FsRename
    <2> QED
      BY <2>1 DEF FsDisconnect
  <1> QED
    BY <1>1, <1>2, <1>3

-----------------------------------------------------------------------------
LEMMA CastKinds ==
  \A what \in {"screenTgl", "mirrorTgl", "castUrl", "filePicked", "mirrorStat", "screenEnd", "mirrorEnd",
               "refresh", "launch", "stop", "pick", "volUp", "volDown", "quit"} : what \notin AnswerKinds
  BY DEF AnswerKinds

\* The looper of the cast window answers a message and goes back to its queue.
LEMMA CastHandles ==
  ASSUME Sound, inbox # <<>>,
         \/ StartInfo \/ CastInfoReady \/ CastLaunch \/ CastStop \/ CastPickFile \/ CastVolume
         \/ CastActionDone \/ CastCastUrl \/ MirrorStat \/ \E s \in Sources : SourceEnd(s)
  PROVE  Sound'
  <1> USE DEF Waiting, BusyTexts
  <1>0. "status" \in DOMAIN win
    BY DEF Sound
  <1>a. ASSUME NEW w, NEW js, Handle(w, js), DOMAIN w = DOMAIN win, js # <<>>, js[1] \in {"info", "done"} PROVE Sound'
    <2>1. Starts(js)
      BY <1>a DEF Starts, Hopes, AnswerKinds
    <2> QED
      BY <1>0, <1>a, <2>1, HandleSound DEF Handle
  <1>b. ASSUME NEW w, NEW js, Handle(w, js), DOMAIN w = DOMAIN win, ~Waiting(w) PROVE Sound'
    BY <1>0, <1>b, HandleSound DEF Handle
  <1>c. ASSUME Handle(win, <<>>), Quiet PROVE Sound'
    BY <1>0, <1>c, HandleSound DEF Handle
  <1>d. ASSUME NEW x, NEW do PROVE RunAction(x, do) # <<>> /\ RunAction(x, do)[1] = "done"
    BY DEF RunAction
  <1>e. DOMAIN Sending(win) = DOMAIN win /\ DOMAIN Loading(win) = DOMAIN win
    BY DEF Sending, Loading
  <1>1. CASE StartInfo \/ (CastActionDone /\ arg.ok)
    <2>1. Handle(Loading(win), <<"info", "none">>)
      BY <1>1 DEF StartInfo, CastActionDone
    <2> QED
      BY <1>a, <1>e, <2>1
  <1>2. CASE CastActionDone /\ ~arg.ok
    <2> PICK w : w = [win EXCEPT !.status = "error"]
      OBVIOUS
    <2>1. DOMAIN w = DOMAIN win /\ w.status = "error" /\ Handle(w, <<>>)
      BY <1>0, <1>2 DEF CastActionDone
    <2> QED
      BY <1>b, <2>1
  <1>3. CASE CastInfoReady
    <2> PICK v : v = [win EXCEPT !.running = arg.running, !.status = "ready"]
      OBVIOUS
    <2> PICK w : w = IF arg.v2.ok THEN [v EXCEPT !.session = arg.v2.session, !.volume = arg.v2.volume]
                     ELSE [v EXCEPT !.session = <<>>]
      OBVIOUS
    <2>1. DOMAIN v = DOMAIN win /\ v.status = "ready"
      BY <1>0
    <2>2. DOMAIN w = DOMAIN win /\ w.status = "ready"
      BY <1>0, <2>1
    <2>3. Handle(w, <<>>)
      BY <1>3 DEF CastInfoReady
    <2> QED
      BY <1>b, <2>2, <2>3
  <1>4. CASE CastLaunch
    <2> PICK w : w = [Sending(win) EXCEPT !.running = arg]
      OBVIOUS
    <2>1. DOMAIN w = DOMAIN win /\ Handle(w, RunAction(arg, "launch"))
      BY <1>4, <1>e DEF CastLaunch
    <2> QED
      BY <1>a, <1>d, <2>1
  <1>5. CASE CastStop
    <2> PICK js : js = IF win.session # <<>> THEN RunAction("none", "stop-v2")
                       ELSE RunAction(IF win.running = "none" THEN "YouTube" ELSE win.running, "stop")
      OBVIOUS
    <2>1. js # <<>> /\ js[1] = "done"
      BY <1>d
    <2>2. Handle(Sending(win), js)
      BY <1>5 DEF CastStop
    <2> QED
      BY <1>a, <1>e, <2>1, <2>2
  <1>6. CASE CastPickFile
    BY <1>6, <1>c, QuietIs, CastKinds DEF CastPickFile
  <1>7. CASE CastVolume
    <2>1. CASE Handle([win EXCEPT !.status = "novolume"], <<>>)
      <3> PICK w : w = [win EXCEPT !.status = "novolume"]
        OBVIOUS
      <3>1. DOMAIN w = DOMAIN win /\ w.status = "novolume" /\ Handle(w, <<>>)
        BY <1>0, <2>1
      <3> QED
        BY <1>b, <3>1
    <2>2. ASSUME NEW v, Handle([Sending(win) EXCEPT !.volume = <<v>>],
                               <<"done", [RunAction("none", "volume")[2] EXCEPT !.level = v]>>)
          PROVE  Sound'
      <3> PICK w : w = [Sending(win) EXCEPT !.volume = <<v>>]
        OBVIOUS
      <3> PICK js : js = <<"done", [RunAction("none", "volume")[2] EXCEPT !.level = v]>>
        OBVIOUS
      <3>1. DOMAIN w = DOMAIN win
        BY <1>e
      <3>2. js # <<>> /\ js[1] = "done"
        OBVIOUS
      <3> QED
        BY <1>a, <2>2, <3>1, <3>2
    <2> QED
      BY <1>7, <2>1, <2>2 DEF CastVolume
  <1>8. CASE CastCastUrl
    <2>1. CASE arg = "none"
      <3> PICK w : w = [win EXCEPT !.status = "nourl"]
        OBVIOUS
      <3>1. DOMAIN w = DOMAIN win /\ w.status = "nourl" /\ Handle(w, <<>>)
        BY <1>0, <1>8, <2>1 DEF CastCastUrl
      <3> QED
        BY <1>b, <3>1
    <2>2. CASE arg # "none"
      <3>1. Handle(Sending(win), RunAction("none", "url"))
        BY <1>8, <2>2 DEF CastCastUrl
      <3> QED
        BY <1>a, <1>d, <1>e, <3>1
    <2> QED
      BY <2>1, <2>2
  <1>9. CASE MirrorStat
    <2>0. Quiet
      BY <1>9, QuietIs, CastKinds DEF MirrorStat
    <2> PICK w : w = [win EXCEPT !.status = "running"]
      OBVIOUS
    <2>1. DOMAIN w = DOMAIN win /\ w.status = "running" /\ (Handle(w, <<>>) \/ Handle(win, <<>>))
      BY <1>0, <1>9 DEF MirrorStat
    <2> QED
      BY <1>b, <1>c, <2>0, <2>1
  <1>10. ASSUME NEW s \in Sources, SourceEnd(s) PROVE Sound'
    <2>0. Quiet
      BY <1>10, QuietIs, CastKinds DEF SourceEnd, Sources, EndOf
    <2> PICK w : w = [win EXCEPT !.on[s] = FALSE, !.status = IF arg.ok THEN "stopped" ELSE "error"]
      OBVIOUS
    <2>1. DOMAIN w = DOMAIN win /\ w.status \in {"stopped", "error"}
      BY <1>0
    <2>2. Handle(w, <<>>) \/ Handle(win, <<>>)
      BY <1>10 DEF SourceEnd
    <2> QED
      BY <1>b, <1>c, <2>0, <2>1, <2>2
  <1> QED
    BY <1>1, <1>2, <1>3, <1>4, <1>5, <1>6, <1>7, <1>8, <1>9, <1>10

\* Starting the screen, the mirror and the file, which change the text only when there is a thread.
LEMMA CastStarts ==
  ASSUME Sound, inbox # <<>>, CastFilePicked \/ StartScreen \/ StartMirror
  PROVE  Sound'
  <1> USE DEF Waiting, BusyTexts
  <1>0. "status" \in DOMAIN win
    BY DEF Sound
  <1>b. ASSUME NEW w, NEW js, NEW d, HandleAnd(w, js, d), DOMAIN w = DOMAIN win, ~Waiting(w) PROVE Sound'
    BY <1>0, <1>b, HandleSound
  <1>c. ASSUME NEW st \in {"error", "nofile"}, Handle([win EXCEPT !.status = st], <<>>) PROVE Sound'
    <2> PICK w : w = [win EXCEPT !.status = st]
      OBVIOUS
    <2>1. DOMAIN w = DOMAIN win /\ w.status = st /\ Handle(w, <<>>)
      BY <1>0, <1>c
    <2> QED
      BY <1>b, <2>1 DEF Handle
  <1>d. ASSUME NEW s, NEW up, NEW down, NEW port, StartThread(s, up, down, port),
               DOMAIN up = DOMAIN win, DOMAIN down = DOMAIN win
        PROVE  Sound'
    <2> PICK w : w = IF Started THEN Running(up, s) ELSE NotStarted(down)
      OBVIOUS
    <2> PICK js : js = <<EndOf[s], [stage |-> "connect", port |-> port]>>
      OBVIOUS
    <2>1. DOMAIN w = DOMAIN win /\ w.status \in {"running", "error"}
      BY <1>0, <1>d DEF Running, NotStarted
    <2>2. HandleAnd(w, js, dev)
      BY <1>d DEF StartThread, HandleAnd
    <2> QED
      BY <1>b, <2>1, <2>2
  <1>1. CASE CastFilePicked
    <2>1. CASE Handle([win EXCEPT !.status = "nofile"], <<>>)
      BY <1>c, <2>1
    <2>2. CASE Handle(NotStarted(win), <<>>)
      BY <1>c, <2>2 DEF NotStarted
    <2>3. CASE /\ Spawn(RunAction("none", "url"))
               /\ win' = IF Started THEN Served(Sending(win), "file") ELSE Unserved(Served(Sending(win), "file"))
               /\ inbox' = Tail(inbox)
               /\ UNCHANGED <<app, phase, dev, clicks, changes, served>>
      <3> PICK js : js = RunAction("none", "url")
        OBVIOUS
      <3> PICK w : w = IF Started THEN Served(Sending(win), "file") ELSE Unserved(Served(Sending(win), "file"))
        OBVIOUS
      <3>1. DOMAIN w = DOMAIN win
        BY <1>0 DEF Served, Sending, Unserved
      <3>2. js # <<>> /\ js[1] = "done"
        BY DEF RunAction
      <3>3. Starts(js)
        BY <3>2 DEF Starts, Hopes, AnswerKinds
      <3>4. HandleAnd(w, js, dev)
        BY <2>3 DEF HandleAnd
      <3> QED
        BY <1>0, <3>1, <3>3, <3>4, HandleSound
    <2> QED
      BY <1>1, <2>1, <2>2, <2>3 DEF CastFilePicked
  <1>2. CASE StartScreen
    <2>1. CASE Handle(NotStarted(win), <<>>)
      BY <1>c, <2>1 DEF NotStarted
    <2> PICK w : w = [Served(win, "buffer") EXCEPT !.stop["screen"] = FALSE]
      OBVIOUS
    <2>2. CASE StartThread("screen", w, Unserved(w), w.server.port)
      <3>1. DOMAIN w = DOMAIN win /\ DOMAIN Unserved(w) = DOMAIN win
        BY DEF Served, Unserved
      <3> QED
        BY <1>d, <2>2, <3>1
    <2> QED
      BY <1>2, <2>1, <2>2 DEF StartScreen
  <1>3. CASE StartMirror
    <2> PICK w : w = [win EXCEPT !.stop["mirror"] = FALSE]
      OBVIOUS
    <2>1. DOMAIN w = DOMAIN win /\ StartThread("mirror", w, w, 0)
      BY <1>3 DEF StartMirror
    <2> QED
      BY <1>d, <2>1
  <1> QED
    BY <1>1, <1>2, <1>3

LEMMA CastSound ==
  ASSUME CastNext, phase = "open" => Sound, phase = "start" => inbox = <<>>, phase' = "open"
  PROVE  Sound'
  <1> USE DEF Waiting, BusyTexts
  <1>1. CASE CastApp
    BY <1>1, StartsIs, LaunchSound DEF CastApp, CastWindowOf, AnswerKinds
  <1>2. CASE CastButtons
    <2>0. phase = "open"
      BY <1>2 DEF CastButtons, CastButton, Click, Send
    <2> QED
      BY <1>2, <2>0, ClickSound, SendSound DEF CastButtons, CastButton, Sound
  <1>3. CASE \/ StartInfo \/ CastInfoReady \/ CastLaunch \/ CastStop \/ CastPickFile \/ CastVolume
             \/ CastActionDone \/ CastCastUrl \/ MirrorStat \/ \E s \in Sources : SourceEnd(s)
    <2>0. phase = "open" /\ inbox # <<>>
      BY <1>3
         DEF StartInfo, CastInfoReady, CastLaunch, CastStop, CastPickFile, CastVolume, CastActionDone,
             CastCastUrl,
                  MirrorStat, SourceEnd, Got
    <2> QED
      BY <1>3, <2>0, CastHandles
  <1>4. CASE CastFilePicked \/ StartScreen \/ StartMirror
    <2>0. phase = "open" /\ inbox # <<>>
      BY <1>4 DEF CastFilePicked, StartScreen, StartMirror, Got
    <2> QED
      BY <1>4, <2>0, CastStarts
  <1>5. ASSUME phase = "open", NEW w, In(w), DOMAIN w = DOMAIN win, "status" \in DOMAIN win => w.status = win.status
        PROVE Sound'
    BY <1>5, SameSound DEF In, Sound
  <1>6. CASE ServeStops \/ QuitUnserves \/ \E s \in Sources : AskStop(s) \/ Joined(s) \/ EndJoined(s) \/ QuitStops(s)
    <2>0. phase = "open"
      BY <1>6 DEF ServeStops, QuitUnserves, AskStop, Joined, EndJoined, QuitStops, Got, Stops, StopFirst
    <2>1. CASE ServeStops \/ QuitUnserves
      BY <1>5, <2>0, <2>1 DEF ServeStops, QuitUnserves, Unserved
    <2>2. ASSUME NEW s \in Sources, AskStop(s) \/ QuitStops(s) PROVE Sound'
      BY <1>5, <2>0, <2>2 DEF AskStop, QuitStops
    <2>3. ASSUME NEW s \in Sources, Joined(s) \/ EndJoined(s) PROVE Sound'
      <3> PICK w : w = [win EXCEPT !.thread[s] = 0]
        OBVIOUS
      <3>1. In(w) \/ In(Unserved(w))
        BY <2>3 DEF Joined, EndJoined
      <3>2. /\ DOMAIN w = DOMAIN win /\ ("status" \in DOMAIN win => w.status = win.status)
            /\ DOMAIN Unserved(w) = DOMAIN win /\ ("status" \in DOMAIN win => Unserved(w).status = win.status)
        BY DEF Unserved
      <3> QED
        BY <1>5, <2>0, <3>1, <3>2
    <2> QED
      BY <1>6, <2>1, <2>2, <2>3
  <1>7. ASSUME NEW s \in Sources, SourceOff(s) PROVE Sound'
    <2>0. phase = "open" /\ inbox # <<>> /\ Sound /\ "status" \in DOMAIN win
      BY <1>7 DEF SourceOff, Stops, StopFirst, Sound
    <2> PICK w : w = [win EXCEPT !.on[s] = FALSE, !.status = "stopped"]
      OBVIOUS
    <2>1. "status" \in DOMAIN w /\ w.status = "stopped" /\ win' = w /\ UNCHANGED <<jobs, lost>>
      BY <1>7, <2>0 DEF SourceOff
    <2>2. CASE inbox' = Tail(inbox)
      <3>1. HandleAnd(w, <<>>, dev)
        BY <1>7, <2>1, <2>2 DEF SourceOff, HandleAnd, Spawn
      <3> QED
        BY <2>0, <2>1, <3>1, HandleSound
    <2>3. CASE inbox' = inbox
      BY <2>0, <2>1, <2>3, SameMail DEF Sound
    <2> QED
      BY <1>7, <2>2, <2>3 DEF SourceOff
  <1>8. CASE CastDestroyed
    BY <1>8 DEF CastDestroyed, CloseWindow
  <1>9. CASE CastInfoThread \/ CastCommandThread
    BY <1>9, AnswerSound DEF CastInfoThread, CastCommandThread, Works
  <1>10. CASE AcceptLoop \/ HandleClient
    BY <1>10, SameSound DEF AcceptLoop, HandleClient, Sound
  <1>11. CASE TvChanges
    BY <1>11, SameSound DEF TvChanges, DeviceChanges, Sound
  <1>12. ASSUME NEW s \in Sources, SessionFails(s) \/ LoopEnds(s) PROVE Sound'
    <2>1. \E j \in DOMAIN jobs : \E r : /\ jobs[j].what = EndOf[s] /\ jobs[j].ans = NoAnswer
                                         /\ jobs' = [jobs EXCEPT ![j].ans = r]
      BY <1>12 DEF SessionFails, LoopEnds, CastThreadStep
    <2>2. phase = "open" /\ UNCHANGED <<win, inbox, lost>>
      BY <1>12 DEF SessionFails, LoopEnds, CastThreadStep
    <2>3. EndOf[s] # "control"
      BY DEF Sources, EndOf
    <2> QED
      BY <2>1, <2>2, <2>3, AnswerSound
  <1>13. CASE MediaReceiverLaunched \/ MirrorSessionStart
    <2>0. phase = "open" /\ UNCHANGED <<win, lost>> /\ Sound
      BY <1>13 DEF MediaReceiverLaunched, MirrorSessionStart, CastThreadStep
    <2> PICK j \in DOMAIN jobs : /\ jobs[j].what \in {"screenEnd", "mirrorEnd"}
                                 /\ jobs' = [jobs EXCEPT ![j].arg.stage = "loop"]
      BY <1>13 DEF MediaReceiverLaunched, MirrorSessionStart, CastThreadStep, EndOf
    <2> PICK y : y = [jobs[j].arg EXCEPT !.stage = "loop"]
      OBVIOUS
    <2>1. jobs' = [jobs EXCEPT ![j].arg = y] /\ jobs[j].what # "control"
      OBVIOUS
    <2>2. UNCHANGED inbox \/ \E sound \in BOOLEAN : inbox' = Append(inbox, Msg("mirrorStat", sound))
      BY <1>13 DEF MediaReceiverLaunched, MirrorSessionStart, CastThreadStep
    <2>3. inbox' \in Seq(Range(inbox')) /\ Range(inbox) \subseteq Range(inbox')
      <3>1. CASE UNCHANGED inbox
        BY <2>0, <3>1 DEF Sound, Mail
      <3>2. ASSUME NEW m, inbox' = Append(inbox, m) PROVE inbox' \in Seq(Range(inbox')) /\ Range(inbox) \subseteq Range(inbox')
        BY <2>0, <3>2, InboxGrows DEF Sound, Mail
      <3> QED
        BY <2>2, <3>1, <3>2
    <2>4. Mail' /\ Keeps
      BY <2>0, <2>1, <2>3, StageMail DEF Sound
    <2> QED
      BY <2>0, <2>4 DEF Sound, Keeps
  <1> QED
    BY <1>1, <1>2, <1>3, <1>4, <1>6, <1>7, <1>8, <1>9, <1>10, <1>11, <1>12, <1>13 DEF CastNext, CastLooper

-----------------------------------------------------------------------------
(***************************************************************************)
(* The flags of the neighbourhood browser.  Each of its two checks is at   *)
(* most once under way, as a thread or as an answer in the queue, and its  *)
(* flag says so.                                                           *)
(***************************************************************************)
Marks(q, what) == {i \in DOMAIN q : q[i].what = what}
Tracks(q, J, job, what, flag) ==
  /\ \A i, k \in Marks(q, what) : i = k
  /\ job \in J => Marks(q, what) = {}
  /\ flag \in BOOLEAN
  /\ flag <=> (job \in J \/ Marks(q, what) # {})
WonFits(q, js, w) ==
  /\ q \in Seq(Range(q))
  /\ DOMAIN js \subseteq {1, 2}
  /\ 1 \in DOMAIN js => js[1].what = "statusReady"
  /\ 2 \in DOMAIN js => js[2].what = "intelReady"
  /\ \A j \in DOMAIN js : DOMAIN js[j] = {"what", "arg", "ans"}
  /\ DOMAIN w = WonFields /\ w.status = "none"
  /\ Tracks(q, DOMAIN js, 1, "statusReady", w.pinging)
  /\ Tracks(q, DOMAIN js, 2, "intelReady", w.intelBusy)
WonInv ==
  app = "won" => IF phase = "open" THEN WonFits(inbox, jobs, win) ELSE inbox = <<>> /\ jobs = <<>>

LEMMA TailTracks ==
  ASSUME NEW q, NEW S, q \in Seq(S), q # <<>>, NEW J, NEW job, NEW what, NEW flag,
         Tracks(q, J, job, what, flag)
  PROVE  /\ Head(q).what # what => Tracks(Tail(q), J, job, what, flag)
         /\ Head(q).what = what => Tracks(Tail(q), J, job, what, FALSE)
  <1> PICK t : t = Tail(q)
    OBVIOUS
  <1>1. /\ DOMAIN q = 1..Len(q) /\ Len(q) \in Nat \ {0} /\ Head(q) = q[1]
        /\ DOMAIN t = 1..(Len(q) - 1) /\ \A i \in 1..(Len(q) - 1) : t[i] = q[i + 1]
    OBVIOUS
  <1>2. \A i \in DOMAIN t : i \in Nat /\ i + 1 \in DOMAIN q /\ i + 1 # 1 /\ t[i] = q[i + 1]
    BY <1>1
  <1>3. \A i \in DOMAIN q : i \in Nat /\ (i # 1 => i - 1 \in DOMAIN t /\ (i - 1) + 1 = i)
    BY <1>1
  <1>4. 1 \in DOMAIN q
    BY <1>1
  <1>5. \A i \in Marks(t, what) : i \in Nat /\ i + 1 \in Marks(q, what) /\ i + 1 # 1
    BY <1>2 DEF Marks
  <1>6. \A i \in Marks(q, what) : i # 1 => i - 1 \in Marks(t, what)
    BY <1>2, <1>3 DEF Marks
  <1>7. 1 \in Marks(q, what) <=> Head(q).what = what
    BY <1>1, <1>4 DEF Marks
  <1>8. \A i, k \in Marks(t, what) : i = k
    <2> TAKE i, k \in Marks(t, what)
    <2>1. i + 1 = k + 1 /\ i \in Nat /\ k \in Nat
      BY <1>5 DEF Tracks
    <2> QED
      BY <2>1
  <1>9. CASE Head(q).what = what
    <2>1. Marks(t, what) = {}
      BY <1>5, <1>7, <1>9 DEF Tracks
    <2>2. job \notin J
      BY <1>7, <1>9 DEF Tracks
    <2> QED
      BY <1>9, <2>1, <2>2 DEF Tracks
  <1>10. CASE Head(q).what # what
    <2>1. Marks(t, what) = {} <=> Marks(q, what) = {}
      BY <1>5, <1>6, <1>7, <1>10
    <2> QED
      BY <1>8, <1>10, <2>1 DEF Tracks
  <1> QED
    BY <1>9, <1>10

LEMMA AppendTracks ==
  ASSUME NEW q, NEW S, q \in Seq(S), NEW m, NEW J, NEW job, NEW what, NEW flag,
         Tracks(q, J, job, what, flag)
  PROVE  /\ m.what # what => Tracks(Append(q, m), J, job, what, flag)
         /\ m.what = what /\ job \in J => Tracks(Append(q, m), J \ {job}, job, what, flag)
  <1> PICK t : t = Append(q, m)
    OBVIOUS
  <1>1. DOMAIN q = 1..Len(q) /\ Len(q) \in Nat
    OBVIOUS
  <1>2. DOMAIN t = 1..(Len(q) + 1) /\ t[Len(q) + 1] = m /\ \A i \in 1..Len(q) : t[i] = q[i]
    OBVIOUS
  <1>3. DOMAIN t = DOMAIN q \cup {Len(q) + 1} /\ Len(q) + 1 \notin DOMAIN q
    BY <1>1, <1>2
  <1>4. m.what # what => Marks(t, what) = Marks(q, what)
    BY <1>1, <1>2, <1>3 DEF Marks
  <1>5. m.what = what => Marks(t, what) = Marks(q, what) \cup {Len(q) + 1}
    BY <1>1, <1>2, <1>3 DEF Marks
  <1> QED
    BY <1>4, <1>5 DEF Tracks

LEMMA OtherJobs ==
  ASSUME NEW q, NEW J, NEW K, NEW job, NEW what, NEW flag, Tracks(q, J, job, what, flag), job \in J <=> job \in K
  PROVE  Tracks(q, K, job, what, flag)
  BY DEF Tracks

LEMMA JobTracks ==
  ASSUME NEW q, NEW J, NEW job, NEW what, NEW flag, NEW made, Tracks(q, J, job, what, flag), job \in made => ~flag
  PROVE  Tracks(q, J \cup made, job, what, flag \/ job \in made)
  BY DEF Tracks

LEMMA BecomesFits ==
  ASSUME NEW w, NEW want, NEW d, Becomes(w, want, d), WonFits(inbox', jobs, w), want \subseteq {1, 2},
         1 \in want => ~w.pinging, 2 \in want => ~w.intelBusy
  PROVE  WonFits(inbox', jobs', win')
  <1> PICK made \in {want} \cup (IF lost THEN {} ELSE {want \ {j} : j \in want}) :
        /\ jobs' = Jobs(w, made)
        /\ win' = [w EXCEPT !.pinging = @ \/ 1 \in made, !.intelBusy = @ \/ 2 \in made]
    BY DEF Becomes
  <1>0. made \subseteq want
    OBVIOUS
  <1>1. /\ DOMAIN jobs' = DOMAIN jobs \cup made
        /\ \A j \in DOMAIN jobs' : j \notin made => jobs'[j] = jobs[j]
        /\ 1 \in made => jobs'[1] = StatusJob(w)
        /\ 2 \in made => jobs'[2] = IntelJob(w)
    BY DEF Jobs
  <1>2. /\ StatusJob(w).what = "statusReady" /\ DOMAIN StatusJob(w) = {"what", "arg", "ans"}
        /\ IntelJob(w).what = "intelReady" /\ DOMAIN IntelJob(w) = {"what", "arg", "ans"}
    BY DEF StatusJob, IntelJob
  <1>3. /\ DOMAIN win' = WonFields /\ win'.status = "none"
        /\ win'.pinging = (w.pinging \/ 1 \in made) /\ win'.intelBusy = (w.intelBusy \/ 2 \in made)
    BY DEF WonFits, WonFields
  <1>4. Tracks(inbox', DOMAIN jobs', 1, "statusReady", win'.pinging)
    <2>1. Tracks(inbox', DOMAIN jobs, 1, "statusReady", w.pinging) /\ (1 \in made => ~w.pinging)
      BY <1>0 DEF WonFits
    <2>2. Tracks(inbox', DOMAIN jobs \cup made, 1, "statusReady", w.pinging \/ 1 \in made)
      BY <2>1, JobTracks
    <2> QED
      BY <1>1, <1>3, <2>2, Zenon
  <1>5. Tracks(inbox', DOMAIN jobs', 2, "intelReady", win'.intelBusy)
    <2>1. Tracks(inbox', DOMAIN jobs, 2, "intelReady", w.intelBusy) /\ (2 \in made => ~w.intelBusy)
      BY <1>0 DEF WonFits
    <2>2. Tracks(inbox', DOMAIN jobs \cup made, 2, "intelReady", w.intelBusy \/ 2 \in made)
      BY <2>1, JobTracks
    <2> QED
      BY <1>1, <1>3, <2>2, Zenon
  <1>6. /\ DOMAIN jobs' \subseteq {1, 2}
        /\ 1 \in DOMAIN jobs' => jobs'[1].what = "statusReady"
        /\ 2 \in DOMAIN jobs' => jobs'[2].what = "intelReady"
        /\ \A j \in DOMAIN jobs' : DOMAIN jobs'[j] = {"what", "arg", "ans"}
    BY <1>0, <1>1, <1>2 DEF WonFits
  <1> QED
    BY <1>3, <1>4, <1>5, <1>6 DEF WonFits

LEMMA WantedIs ==
  ASSUME NEW w, NEW asked
  PROVE  /\ Wanted(w, asked) \subseteq asked
         /\ 1 \in Wanted(w, asked) => ~w.pinging
         /\ 2 \in Wanted(w, asked) => ~w.intelBusy
  BY DEF Wanted, CanCheck, CanProbe

LEMMA RebuildFits ==
  ASSUME NEW w, DOMAIN w = WonFields
  PROVE  /\ DOMAIN RebuildList(w) = WonFields /\ RebuildList(w).status = w.status
         /\ RebuildList(w).pinging = w.pinging /\ RebuildList(w).intelBusy = w.intelBusy
         /\ DOMAIN UpdateDetails(w) = WonFields /\ UpdateDetails(w).status = w.status
         /\ UpdateDetails(w).pinging = w.pinging /\ UpdateDetails(w).intelBusy = w.intelBusy
  BY DEF RebuildList, UpdateDetails, WonFields

LEMMA RefreshFits ==
  ASSUME NEW w, NEW also, NEW d, WonRefresh(w, also, d), WonFits(inbox', jobs, w), also \subseteq {1, 2}
  PROVE  WonFits(inbox', jobs', win')
  <1> PICK hood : hood = Hood(w, d)
    OBVIOUS
  <1> PICK w0 : w0 = [w EXCEPT !.signature = Signature(hood), !.services = hood]
    OBVIOUS
  <1> PICK w1 : w1 = RebuildList(w0)
    OBVIOUS
  <1>0. DOMAIN w0 = WonFields /\ w0.status = w.status /\ w0.pinging = w.pinging /\ w0.intelBusy = w.intelBusy
    BY DEF WonFits, WonFields
  <1>1. CASE Becomes(w, Wanted(w, also), d)
    <2>1. Wanted(w, also) \subseteq {1, 2}
      BY WantedIs
    <2> QED
      BY <1>1, <2>1, WantedIs, BecomesFits
  <1>2. CASE Becomes(w1, Wanted(w1, also \cup {1}), Synced(w, d, hood))
    <2>0. DOMAIN w1 = WonFields /\ w1.status = w.status /\ w1.pinging = w.pinging /\ w1.intelBusy = w.intelBusy
      BY <1>0, RebuildFits
    <2>1. WonFits(inbox', jobs, w1)
      BY <2>0 DEF WonFits
    <2>2. Wanted(w1, also \cup {1}) \subseteq {1, 2}
      BY WantedIs
    <2> QED
      BY <1>2, <2>1, <2>2, WantedIs, BecomesFits
  <1> QED
    BY <1>1, <1>2 DEF WonRefresh

\* The window a handler works on, its flag cleared when it takes the answer.
LEMMA TakesFits ==
  ASSUME WonFits(inbox, jobs, win), inbox # <<>>, inbox' = Tail(inbox), NEW w, DOMAIN w = WonFields, w.status = "none",
         w.pinging = IF Head(inbox).what = "statusReady" THEN FALSE ELSE win.pinging,
         w.intelBusy = IF Head(inbox).what = "intelReady" THEN FALSE ELSE win.intelBusy
  PROVE  WonFits(inbox', jobs, w)
  <1>1. inbox' \in Seq(Range(inbox'))
    BY InboxShrinks DEF WonFits
  <1>2. inbox \in Seq(Range(inbox))
    BY DEF WonFits
  <1>3. Tracks(inbox', DOMAIN jobs, 1, "statusReady", w.pinging)
    BY <1>2, TailTracks DEF WonFits
  <1>4. Tracks(inbox', DOMAIN jobs, 2, "intelReady", w.intelBusy)
    BY <1>2, TailTracks DEF WonFits
  <1> QED
    BY <1>1, <1>3, <1>4 DEF WonFits

LEMMA SendFits ==
  ASSUME WonFits(inbox, jobs, win), NEW m, inbox' = Append(inbox, m), m.what \notin {"statusReady", "intelReady"},
         NEW w, DOMAIN w = WonFields, w.status = "none", w.pinging = win.pinging, w.intelBusy = win.intelBusy
  PROVE  WonFits(inbox', jobs, w)
  <1>1. inbox' \in Seq(Range(inbox'))
    BY InboxGrows DEF WonFits
  <1>2. inbox \in Seq(Range(inbox))
    BY DEF WonFits
  <1>3. Tracks(inbox', DOMAIN jobs, 1, "statusReady", w.pinging)
    BY <1>2, AppendTracks DEF WonFits
  <1>4. Tracks(inbox', DOMAIN jobs, 2, "intelReady", w.intelBusy)
    BY <1>2, AppendTracks DEF WonFits
  <1> QED
    BY <1>1, <1>3, <1>4 DEF WonFits

LEMMA PostFits == ASSUME WonFits(inbox, jobs, win), PostAnswer PROVE WonFits(inbox', jobs', win')
  <1> PICK j \in DOMAIN jobs : /\ inbox' = Append(inbox, Msg(jobs[j].what, jobs[j].ans))
                               /\ jobs' = Restrict(jobs, DOMAIN jobs \ {j})
                               /\ win' = win
    BY DEF PostAnswer
  <1> PICK m : m = Msg(jobs[j].what, jobs[j].ans)
    OBVIOUS
  <1>0. m.what = jobs[j].what
    BY DEF Msg
  <1>1. inbox' \in Seq(Range(inbox')) /\ inbox \in Seq(Range(inbox))
    BY InboxGrows DEF WonFits
  <1>2. DOMAIN jobs' = DOMAIN jobs \ {j} /\ \A k \in DOMAIN jobs' : jobs'[k] = jobs[k]
    BY DEF Restrict
  <1>3. j \in {1, 2} /\ (j = 1 => m.what = "statusReady") /\ (j = 2 => m.what = "intelReady")
    BY <1>0 DEF WonFits
  <1>4. Tracks(inbox', DOMAIN jobs', 1, "statusReady", win'.pinging)
    <2>0. Tracks(inbox, DOMAIN jobs, 1, "statusReady", win.pinging)
      BY DEF WonFits
    <2>1. CASE j = 1
      <3>1. m.what = "statusReady" /\ 1 \in DOMAIN jobs
        BY <1>3, <2>1
      <3>2. Tracks(Append(inbox, m), DOMAIN jobs \ {1}, 1, "statusReady", win.pinging)
        BY <1>1, <2>0, <3>1, AppendTracks
      <3> QED
        BY <1>2, <2>1, <3>2
    <2>2. CASE j = 2
      <3>1. Tracks(inbox', DOMAIN jobs, 1, "statusReady", win.pinging)
        BY <1>1, <1>3, <2>0, <2>2, AppendTracks
      <3>2. 1 \in DOMAIN jobs <=> 1 \in DOMAIN jobs'
        BY <1>2, <2>2
      <3> QED
        BY <3>1, <3>2, OtherJobs
    <2> QED
      BY <1>3, <2>1, <2>2
  <1>5. Tracks(inbox', DOMAIN jobs', 2, "intelReady", win'.intelBusy)
    <2>0. Tracks(inbox, DOMAIN jobs, 2, "intelReady", win.intelBusy)
      BY DEF WonFits
    <2>1. CASE j = 2
      <3>1. m.what = "intelReady" /\ 2 \in DOMAIN jobs
        BY <1>3, <2>1
      <3>2. Tracks(Append(inbox, m), DOMAIN jobs \ {2}, 2, "intelReady", win.intelBusy)
        BY <1>1, <2>0, <3>1, AppendTracks
      <3> QED
        BY <1>2, <2>1, <3>2
    <2>2. CASE j = 1
      <3>1. Tracks(inbox', DOMAIN jobs, 2, "intelReady", win.intelBusy)
        BY <1>1, <1>3, <2>0, <2>2, AppendTracks
      <3>2. 2 \in DOMAIN jobs <=> 2 \in DOMAIN jobs'
        BY <1>2, <2>2
      <3> QED
        BY <3>1, <3>2, OtherJobs
    <2> QED
      BY <1>3, <2>1, <2>2
  <1> QED
    BY <1>1, <1>2, <1>4, <1>5 DEF WonFits

LEMMA WonInvStep == WonInv /\ [Next]_vars => WonInv'
  <1> SUFFICES ASSUME WonInv, [Next]_vars, app = "won"
               PROVE  IF phase' = "open" THEN WonFits(inbox', jobs', win') ELSE inbox' = <<>> /\ jobs' = <<>>
    BY AppStays DEF WonInv
  <1>0. phase = "open" => WonFits(inbox, jobs, win)
    BY DEF WonInv
  <1>x. phase # "open" => inbox = <<>> /\ jobs = <<>>
    BY DEF WonInv
  <1>a. CASE UNCHANGED vars
    BY <1>0, <1>x, <1>a DEF vars
  <1>b. CASE CloseWindow
    BY <1>b DEF CloseWindow
  <1>c. CASE PostAnswer
    BY <1>0, <1>c, PostFits DEF PostAnswer
  <1>1. CASE WonLaunch
    <2>1. ASSUME NEW r \in BOOLEAN PROVE WonFits(inbox', jobs, WonWindow(r))
      <3>1. inbox' = <<>> /\ jobs = <<>> /\ DOMAIN jobs = {} /\ DOMAIN inbox' = {}
        BY <1>1, <1>x DEF WonLaunch
      <3>2. inbox' \in Seq(Range(inbox'))
        BY <3>1 DEF Range
      <3>3. /\ DOMAIN WonWindow(r) = WonFields /\ WonWindow(r).status = "none"
            /\ WonWindow(r).pinging = FALSE /\ WonWindow(r).intelBusy = FALSE
        BY DEF WonWindow, WonFields
      <3>4. \A what : Marks(inbox', what) = {}
        BY <3>1 DEF Marks
      <3>5. /\ Tracks(inbox', DOMAIN jobs, 1, "statusReady", WonWindow(r).pinging)
            /\ Tracks(inbox', DOMAIN jobs, 2, "intelReady", WonWindow(r).intelBusy)
        BY <3>1, <3>3, <3>4 DEF Tracks
      <3> QED
        BY <3>1, <3>2, <3>3, <3>5 DEF WonFits
    <2>2. phase' = "open"
      BY <1>1 DEF WonLaunch
    <2> PICK fresh : fresh = [dev EXCEPT !.radar = Silent, !.found = {}]
      OBVIOUS
    <2>3. CASE WonRefresh(WonWindow(TRUE), {2}, fresh)
      BY <2>1, <2>2, <2>3, RefreshFits
    <2>4. CASE Becomes(WonWindow(FALSE), {}, fresh)
      BY <2>1, <2>2, <2>4, BecomesFits
    <2> QED
      BY <1>1, <2>3, <2>4 DEF WonLaunch
  <1>2. CASE RadarHears \/ SmbScan \/ FolderGains \/ FolderLoses
    BY <1>0, <1>2 DEF RadarHears, SmbScan, FolderGains, FolderLoses, WonEvent, WonOpen
  <1>3. CASE WonClick
    <2>0. phase = "open" /\ WonFits(inbox, jobs, win) /\ DOMAIN win = WonFields /\ win.status = "none"
      BY <1>0, <1>3 DEF WonClick, WonOpen, WonFits
    <2>1. ASSUME NEW m, NEW w, Send("won", m, w), m.what \notin {"statusReady", "intelReady"},
                 DOMAIN w = WonFields, w.status = "none", w.pinging = win.pinging, w.intelBusy = win.intelBusy
          PROVE  phase' = "open" /\ WonFits(inbox', jobs', win')
      BY <2>0, <2>1, SendFits DEF Send
    <2>2. \A what, x : Msg(what, x).what = what
      BY DEF Msg
    <2>3. ASSUME NEW what \in WonPlain, Click("won", what) PROVE phase' = "open" /\ WonFits(inbox', jobs', win')
      <3>1. what \notin {"statusReady", "intelReady"}
        BY DEF WonPlain
      <3> QED
        BY <2>0, <2>1, <2>2, <2>3, <3>1 DEF Click
    <2>4. ASSUME NEW f, Send("won", Msg("filter", "none"), [win EXCEPT !.filter = f])
          PROVE  phase' = "open" /\ WonFits(inbox', jobs', win')
      <3> PICK w : w = [win EXCEPT !.filter = f]
        OBVIOUS
      <3>1. DOMAIN w = WonFields /\ w.status = "none" /\ w.pinging = win.pinging /\ w.intelBusy = win.intelBusy
        BY <2>0 DEF WonFields
      <3> PICK m : m = Msg("filter", "none")
        OBVIOUS
      <3>2. Send("won", m, w) /\ m.what = "filter"
        BY <2>2, <2>4
      <3>3. m.what \notin {"statusReady", "intelReady"}
        BY <3>2
      <3> QED
        BY <2>1, <3>1, <3>2, <3>3
    <2>5. CASE Send("won", Msg("onlyOnline", "none"), [win EXCEPT !.box = ~@])
      <3> PICK w : w = [win EXCEPT !.box = ~@]
        OBVIOUS
      <3>1. DOMAIN w = WonFields /\ w.status = "none" /\ w.pinging = win.pinging /\ w.intelBusy = win.intelBusy
        BY <2>0 DEF WonFields
      <3> QED
        BY <2>1, <2>2, <2>5, <3>1
    <2>6. ASSUME NEW i, Send("won", Msg("select", "none"), [win EXCEPT !.sel = i])
          PROVE  phase' = "open" /\ WonFits(inbox', jobs', win')
      <3> PICK w : w = [win EXCEPT !.sel = i]
        OBVIOUS
      <3>1. DOMAIN w = WonFields /\ w.status = "none" /\ w.pinging = win.pinging /\ w.intelBusy = win.intelBusy
        BY <2>0 DEF WonFields
      <3> PICK m : m = Msg("select", "none")
        OBVIOUS
      <3>2. Send("won", m, w) /\ m.what = "select"
        BY <2>2, <2>6
      <3>3. m.what \notin {"statusReady", "intelReady"}
        BY <3>2
      <3> QED
        BY <2>1, <3>1, <3>2, <3>3
    <2>7. ASSUME NEW x, Send("won", Msg("addDeviceOk", x), win) PROVE phase' = "open" /\ WonFits(inbox', jobs', win')
      BY <2>0, <2>1, <2>2, <2>7
    <2> QED
      BY <1>3, <2>3, <2>4, <2>5, <2>6, <2>7 DEF WonClick
  <1>4. CASE WonTimer
    <2>0. phase = "open" /\ phase' = "open" /\ WonFits(inbox, jobs, win) /\ UNCHANGED <<jobs, win>>
      BY <1>0, <1>4 DEF WonTimer, WonOpen, Timer
    <2> PICK m : inbox' = Append(inbox, m) /\ m.what \notin {"statusReady", "intelReady"}
      BY <1>4 DEF WonTimer, Timer, Msg
    <2>1. DOMAIN win = WonFields /\ win.status = "none"
      BY <2>0 DEF WonFits
    <2> QED
      BY <2>0, <2>1, SendFits
  <1>5. CASE StatusThread \/ IntelThread
    <2>0. phase = "open" /\ UNCHANGED <<phase, inbox, win>> /\ WonFits(inbox, jobs, win)
      BY <1>0, <1>5 DEF StatusThread, IntelThread, Works
    <2>1. \E j \in DOMAIN jobs : \E r : jobs' = [jobs EXCEPT ![j].ans = r]
      BY <1>5 DEF StatusThread, IntelThread, Works
    <2>2. /\ DOMAIN jobs' = DOMAIN jobs
          /\ \A k \in DOMAIN jobs : DOMAIN jobs'[k] = {"what", "arg", "ans"} /\ jobs'[k].what = jobs[k].what
      BY <2>0, <2>1 DEF WonFits
    <2> QED
      BY <2>0, <2>2 DEF WonFits
  <1>9. CASE WonLooper
    <2>0. phase = "open" /\ phase' = "open" /\ inbox # <<>> /\ inbox' = Tail(inbox)
      BY <1>9 DEF WonLooper, WonTick, StartStatusCheck, StartIntel, ApplyStatus, ApplyIntel,
         WonFilter, WonOnlyOnline, WonRefreshNow, WonSelect, OpenService, WakeSelected,
         SetAutostart, WonShows, AddManual, RemoveSelectedManual, WonHandles, Got, Rest
    <2> SUFFICES WonFits(inbox', jobs', win')
      BY <2>0
    <2>x. WonFits(inbox, jobs, win) /\ DOMAIN win = WonFields /\ win.status = "none"
      BY <1>0, <2>0 DEF WonFits
    <2>a. ASSUME NEW w, NEW want, NEW d, Becomes(w, want, d), want \subseteq {1, 2},
                 1 \in want => ~w.pinging, 2 \in want => ~w.intelBusy,
                 DOMAIN w = WonFields, w.status = "none", w.pinging = win.pinging, w.intelBusy = win.intelBusy,
                 Head(inbox).what \notin {"statusReady", "intelReady"}
          PROVE  WonFits(inbox', jobs', win')
      <3>1. WonFits(inbox', jobs, w)
        BY <2>0, <2>x, <2>a, TakesFits
      <3> QED
        BY <2>a, <3>1, BecomesFits
    <2>b. ASSUME NEW w, NEW also, NEW d, WonRefresh(w, also, d), also \subseteq {1, 2},
                 DOMAIN w = WonFields, w.status = "none", w.pinging = win.pinging, w.intelBusy = win.intelBusy,
                 Head(inbox).what \notin {"statusReady", "intelReady"}
          PROVE  WonFits(inbox', jobs', win')
      <3>1. WonFits(inbox', jobs, w)
        BY <2>0, <2>x, <2>b, TakesFits
      <3> QED
        BY <2>b, <3>1, RefreshFits
    <2>1. CASE WonTick
      BY <2>1, <2>b, <2>x DEF WonTick, WonHandles, Got
    <2>2. CASE StartStatusCheck \/ StartIntel
      <3>1. PICK asked \in {{1}, {2}} : Becomes(win, Wanted(win, asked), dev)
        BY <2>2 DEF StartStatusCheck, StartIntel
      <3>2. Wanted(win, asked) \subseteq {1, 2}
        BY WantedIs
      <3>3. Head(inbox).what \notin {"statusReady", "intelReady"}
        BY <2>2 DEF StartStatusCheck, StartIntel, WonHandles, Got
      <3> QED
        BY <2>a, <2>x, <3>1, <3>2, <3>3, WantedIs
    <2>4. CASE ApplyStatus
      <3> PICK new, online : Becomes(UpdateDetails([win EXCEPT !.pinging = FALSE, !.statusMap = new,
                                                     !.online = online]), {}, dev)
        BY <2>4 DEF ApplyStatus
      <3> PICK v : v = [win EXCEPT !.pinging = FALSE, !.statusMap = new, !.online = online]
        OBVIOUS
      <3>1. DOMAIN v = WonFields /\ v.status = "none" /\ v.pinging = FALSE /\ v.intelBusy = win.intelBusy
        BY <2>x DEF WonFields
      <3> PICK w : w = UpdateDetails(v)
        OBVIOUS
      <3>2. DOMAIN w = WonFields /\ w.status = "none" /\ w.pinging = FALSE /\ w.intelBusy = win.intelBusy
        BY <3>1, RebuildFits
      <3>3. Head(inbox).what = "statusReady"
        BY <2>4 DEF ApplyStatus, WonHandles, Got
      <3>4. WonFits(inbox', jobs, w)
        BY <2>0, <2>x, <3>2, <3>3, TakesFits
      <3>5. Becomes(w, {}, dev)
        OBVIOUS
      <3> QED
        BY <3>4, <3>5, BecomesFits
    <2>5. CASE ApplyIntel
      <3> PICK w : w = [win EXCEPT !.intelBusy = FALSE, !.macs = @ \cup arg.macs,
                                   !.names = @ \cup arg.names, !.ssdp = arg.ssdp]
        OBVIOUS
      <3>1. DOMAIN w = WonFields /\ w.status = "none" /\ w.pinging = win.pinging /\ w.intelBusy = FALSE
        BY <2>x DEF WonFields
      <3>2. Head(inbox).what = "intelReady"
        BY <2>5 DEF ApplyIntel, WonHandles, Got
      <3>3. WonFits(inbox', jobs, w)
        BY <2>0, <2>x, <3>1, <3>2, TakesFits
      <3> PICK saved : WonRefresh(w, {}, [dev EXCEPT !.macs = saved])
        BY <2>5 DEF ApplyIntel
      <3> QED
        BY <3>3, RefreshFits
    <2> PICK rw : rw = RebuildList(win)
      OBVIOUS
    <2>6. DOMAIN rw = WonFields /\ rw.status = "none" /\ rw.pinging = win.pinging /\ rw.intelBusy = win.intelBusy
      BY <2>x, RebuildFits
    <2>7. CASE WonFilter
      BY <2>6, <2>7, <2>a DEF WonFilter, WonHandles, Got
    <2>8. CASE WonOnlyOnline
      <3> PICK v : v = [win EXCEPT !.onlyOnline = win.box]
        OBVIOUS
      <3>1. DOMAIN v = WonFields /\ v.status = "none" /\ v.pinging = win.pinging /\ v.intelBusy = win.intelBusy
        BY <2>x DEF WonFields
      <3> PICK w : w = RebuildList(v)
        OBVIOUS
      <3>2. DOMAIN w = WonFields /\ w.status = "none" /\ w.pinging = win.pinging /\ w.intelBusy = win.intelBusy
        BY <3>1, RebuildFits
      <3> QED
        BY <2>8, <2>a, <3>2 DEF WonOnlyOnline, WonHandles, Got
    <2>9. CASE WonRefreshNow
      <3>1. Wanted(win, {1, 2}) \subseteq {1, 2}
        BY WantedIs
      <3>2. Becomes(rw, Wanted(win, {1, 2}), dev) /\ Head(inbox).what = "refreshNow"
        BY <2>9 DEF WonRefreshNow, WonHandles, Got
      <3>3. (1 \in Wanted(win, {1, 2}) => ~rw.pinging) /\ (2 \in Wanted(win, {1, 2}) => ~rw.intelBusy)
        BY <2>6, WantedIs
      <3> QED
        BY <2>6, <2>a, <3>1, <3>2, <3>3
    <2>10. CASE WonSelect
      <3> PICK w : w = UpdateDetails(win)
        OBVIOUS
      <3>1. DOMAIN w = WonFields /\ w.status = "none" /\ w.pinging = win.pinging /\ w.intelBusy = win.intelBusy
        BY <2>x, RebuildFits
      <3> QED
        BY <2>10, <2>a, <3>1 DEF WonSelect, WonHandles, Got
    <2>11. CASE OpenService \/ WakeSelected
      <3> PICK what : Becomes([win EXCEPT !.last = what], {}, dev)
        BY <2>11 DEF OpenService, WakeSelected
      <3> PICK w : w = [win EXCEPT !.last = what]
        OBVIOUS
      <3>1. DOMAIN w = WonFields /\ w.status = "none" /\ w.pinging = win.pinging /\ w.intelBusy = win.intelBusy
        BY <2>x DEF WonFields
      <3>2. Head(inbox).what \notin {"statusReady", "intelReady"}
        BY <2>11 DEF OpenService, WakeSelected, WonHandles, Got
      <3> QED
        BY <2>a, <3>1, <3>2
    <2>12. CASE SetAutostart \/ WonShows
      <3>1. Head(inbox).what \notin {"statusReady", "intelReady"}
        BY <2>12 DEF SetAutostart, WonShows, WonHandles, Got
      <3>2. \E d : Becomes(win, {}, d)
        BY <2>12 DEF SetAutostart, WonShows
      <3> QED
        BY <2>a, <2>x, <3>1, <3>2
    <2>13. ASSUME NEW list, NEW also \in {{}, {1}}, SaveManual([win EXCEPT !.manual = list, !.signature = <<>>], also),
                  Head(inbox).what \notin {"statusReady", "intelReady"}
           PROVE  WonFits(inbox', jobs', win')
      <3> PICK w : w = [win EXCEPT !.manual = list, !.signature = <<>>]
        OBVIOUS
      <3>1. DOMAIN w = WonFields /\ w.status = "none" /\ w.pinging = win.pinging /\ w.intelBusy = win.intelBusy
        BY <2>x DEF WonFields
      <3>2. \E d : WonRefresh(w, also, d)
        BY <2>13 DEF SaveManual
      <3> QED
        BY <2>13, <2>b, <3>1, <3>2
    <2>14. CASE AddManual
      BY <2>13, <2>14 DEF AddManual, WonHandles, Got
    <2>15. CASE RemoveSelectedManual
      <3>1. Head(inbox).what \notin {"statusReady", "intelReady"}
        BY <2>15 DEF RemoveSelectedManual, WonHandles, Got
      <3>2. \/ Becomes(win, {}, dev)
            \/ \E list : SaveManual([win EXCEPT !.manual = list, !.signature = <<>>], {})
        BY <2>15 DEF RemoveSelectedManual
      <3> QED
        BY <2>13, <2>a, <2>x, <3>1, <3>2
    <2> QED
      BY <1>9, <2>0, <2>1, <2>2, <2>4, <2>5, <2>7, <2>8, <2>9, <2>10, <2>11, <2>12, <2>14, <2>15
         DEF WonLooper
  <1> QED
    BY WonSteps, <1>a, <1>b, <1>c, <1>1, <1>2, <1>3, <1>4, <1>5, <1>9 DEF WonNext

LEMMA WonAwaits ==
  ASSUME NEW q, NEW J, NEW job, NEW what, NEW flag, Tracks(q, J, job, what, flag)
  PROVE  Cardinality(Marks(q, what)) + (IF job \in J THEN 1 ELSE 0) = IF flag THEN 1 ELSE 0
  <1>1. CASE Marks(q, what) = {}
    <2>1. Cardinality(Marks(q, what)) = 0
      BY <1>1, FS_EmptySet
    <2> QED
      BY <1>1, <2>1 DEF Tracks
  <1>2. CASE Marks(q, what) # {}
    <2> PICK i : Marks(q, what) = {i}
      BY <1>2 DEF Tracks
    <2>1. Cardinality(Marks(q, what)) = 1
      BY FS_Singleton
    <2>2. job \notin J /\ flag = TRUE
      BY <1>2 DEF Tracks
    <2> QED
      BY <2>1, <2>2
  <1> QED
    BY <1>1, <1>2
LEMMA WonFlags ==
  ASSUME WonInv, WonOpen
  PROVE  /\ win.status = "none"
         /\ Awaited(1, "statusReady") = IF win.pinging THEN 1 ELSE 0
         /\ Awaited(2, "intelReady") = IF win.intelBusy THEN 1 ELSE 0
  <1>1. WonFits(inbox, jobs, win)
    BY DEF WonInv, WonOpen
  <1>2. \A job, what : Awaited(job, what) = Cardinality(Marks(inbox, what)) + (IF job \in DOMAIN jobs THEN 1 ELSE 0)
    BY DEF Awaited, Marks
  <1>3. Tracks(inbox, DOMAIN jobs, 1, "statusReady", win.pinging) /\ Tracks(inbox, DOMAIN jobs, 2, "intelReady", win.intelBusy)
    BY <1>1 DEF WonFits
  <1>4. Awaited(1, "statusReady") = IF win.pinging THEN 1 ELSE 0
    BY <1>2, <1>3, WonAwaits
  <1>5. Awaited(2, "intelReady") = IF win.intelBusy THEN 1 ELSE 0
    BY <1>2, <1>3, WonAwaits
  <1> QED
    BY <1>1, <1>4, <1>5 DEF WonFits

-----------------------------------------------------------------------------
\* No step goes back to the start but a login or a new start of the SMB window.
LEMMA NeverRestarts ==
  ASSUME [Next]_vars, app \notin Viewers \cup {"won"}, phase' = "start"
  PROVE  /\ UNCHANGED <<jobs, inbox>>
         /\ phase = "start" \/ (app = "smb" /\ phase = "quit")
  <1>1. FtpNext => phase' # "start"
    BY DEF FtpNext, FtpApp, Launch, LaunchAnd, FtpListThread, Works, FtpRetrThread, Click, Send,
           PickRow, SavePanel, FtpConnectButton, Handle, HandleAnd, FtpListReady, FtpOpen, FtpSaveFile,
           FtpDownDone, Got
  <1>2. DavNext => phase' # "start"
    BY DEF DavNext, DavApp, Launch, LaunchAnd, DavListThread, Works, DavDownThread, Click, Send,
           PickRow, SavePanel, DavConnectButton, Handle, HandleAnd, DavListReady, DavOpen, DavSaveFile,
           DavDownDone, Got
  <1>3. NfsNext => phase' # "start"
    BY DEF NfsNext, NfsApp, Launch, LaunchAnd, NfsProbeThread, Works, DeviceChanges, Click, Send,
           NfsPickRow, NfsProbe, Handle, HandleAnd, NfsExportsReady, NfsCopy, Got
  <1>4. AfpNext => phase' # "start"
    BY DEF AfpNext, AfpApp, Launch, LaunchAnd, AfpStatusThread, Works, DeviceChanges, Click, Send,
           AfpProbe, Handle, HandleAnd, AfpStatusReady, Got
  <1>5. DaapNext => phase' # "start"
    BY DEF DaapNext, DaapApp, Launch, LaunchAnd, DaapLoadThread, Works, DeviceChanges, Click, Send,
           DaapLoad, Handle, HandleAnd, DaapTracksReady, Got
  <1>6. IppNext => phase' # "start"
    BY DEF IppNext, IppApp, Launch, LaunchAnd, IppQueryThread, Works, IppPrintThread, DeviceChanges,
           Click, Send, IppChooseFile, IppQuery, Handle, HandleAnd, IppAttrsReady, IppPick, IppFileChosen,
           IppPrintDone, Got
  <1>7. EsclNext => phase' # "start"
    BY DEF EsclNext, EsclApp, Launch, LaunchAnd, EsclQueryThread, Works, EsclScanThread, DeviceChanges,
           Click, Send, EsclMakeMenu, EsclSavePanel, EsclQuery, Handle, HandleAnd, EsclCapsReady, EsclPick,
           EsclSave, EsclScanDone, Got
  <1>8. NutNext => phase' # "start"
    BY DEF NutNext, NutApp, Launch, LaunchAnd, NutInfoThread, Works, DeviceChanges, Click, Send,
           NutRefresh, Handle, HandleAnd, NutInfoReady, Got
  <1>9. HueNext => phase' # "start"
    BY DEF HueNext, HueApp, Launch, LaunchAnd, HuePairThread, Works, HueListThread, HueSetThread,
           HueButtons, Click, Send, HuePairButton, Handle, HandleAnd, HuePairDone, HueRefresh, HueLightsReady,
           HueToggle, HueBright, HueCmdDone, Got
  <1>10. DaikinNext => phase' # "start"
    BY DEF DaikinNext, DaikinApp, Launch, LaunchAnd, DaikinInfoThread, Works, DaikinSetThread,
           DaikinButtons, Click, Send, DaikinRefresh, Handle, HandleAnd, DaikinInfoReady, DaikinPower,
           DaikinApplySet, DaikinMode, DaikinFan, DaikinTemp, DaikinSetDone, Got
  <1>11. ShellyNext => phase' # "start" \/ UNCHANGED <<phase, jobs, inbox>>
    BY DEF ShellyNext, ShellyApp, LaunchAnd, ShellyRefreshThread, Works, ShellySetThread, Timer,
           ShellyButtons, Click, Send, ShellyTick, StartRefresh, HandleAnd, UpdateFromReady, Handle,
           ShellyToggle, ShellyCmdDone, ShellyOpenWeb, ShellyHistory, DeviceChanges, OtherWindowReads,
           OtherWindowWrites, RecordOne, Trim, Instantiate, Launch, GraphRefreshThread, GraphPoll, GraphReady,
           GraphMouseDown, Got
  <1>12. SpotifyNext => phase' # "start"
    BY DEF SpotifyNext, SpotifyApp, LaunchAnd, SpotifyControlThread, Works, SpotifyProbeThread,
           SpotifyButtons, Send, Click, SpotifyInfoReady, Handle, HandleAnd, SpotifyConnect, SpotifyDisconnect,
           SpotifyTransfer, SpotifyPlayPause, SpotifySkip, SpotifyControlDone, Got
  <1>13. InfoNext => phase' # "start"
    BY DEF InfoNext, HomeKitApp, OpenInfo, Launch, LaunchAnd, MatterApp, AirplayApp, LutronApp, EeroApp,
           AlexaApp, VncApp, InfoButtons, Click, Send, Install, DeviceChanges, HomeKitOpenHue, Handle,
           HandleAnd, VncOpen, VncCopy, Got
  <1>14. FireTvNext => phase' # "start"
    BY DEF FireTvNext, FireTvApp, Launch, LaunchAnd, FireTvSendThread, Works, FireTvButtons, Click,
           Send, FireTvPairShow, HandleAnd, FireTvPairOk, Handle, Dangling, FireTvMouseDown, FireTvKeyDown,
           FireTvCmdDone, FireTvOpenKeymap, FireTvKeymapChanged, FireTvKeymapClosed, KeymapReset, Edited,
           KeymapArm, KeymapKeyDown, KeymapClose, InKeymap, Got
  <1>15. CameraNext /\ app = "esphome" => phase' # "start"
    BY
       DEF CameraNext, CameraApp, Opened, CameraButtons, CameraTimer, CameraSnapReader, Works, CameraFrame,
           CameraSnap,
           CameraCamError, CameraReconnect, CameraReconnected, CameraSnapshot, CameraSnapshotTaken, CameraToggleAuto,
           CameraAutoStarted, CameraSaveFrame, CameraDesktopWidget, CameraOpenWeb, CameraQuit, CameraClosed,
           WidgetAttached, WidgetMouseDown, WidgetTimer, WidgetSnapReader, WidgetMode, WidgetStopAll, WidgetTick,
           WidgetFrame, TcpConnect, Open, NextFrame, Reading, Stopped, CamGot, Got, DeviceChanges, Viewers,
           EsphomeApp, Launch, LaunchAnd, EsphomeButtons, Click, Send, EsphomeOpen, Handle, HandleAnd
  <1>16. SmbNext => phase' # "start" \/ SmbLogin \/ SmbRelaunch
    BY DEF SmbNext, SmbMountApp, SmbPress, Click, Send, SmbEdit, Type, SmbDoConnect, Handle, HandleAnd,
           SmbDoEnumShares, SmbSharesReady, SmbConnectDone, SmbDoUnmount, SmbOpenVolume, EnumThread, Works,
           ConnectValidate, ThreadStep, ConnectRemember, ConnectMount, Got, Step
  <1>17. SmbfsNext => phase' # "start"
    BY DEF SmbfsNext, SmbfsMain, FsStat, Called, FsReadDir, FsOpen, FsOpenWrite, FsRead, FsOnHandle,
           FsWrite, FsClose, FsMkdir, FsChange, FsUnlink, FsTruncate, FsRename, FsDisconnect, Got
  <1>18. CastNext => phase' # "start"
    BY DEF CastNext, CastApp, Launch, LaunchAnd, CastButtons, CastButton, Click, Send, CastLooper,
           StartInfo, Handle, HandleAnd, CastInfoReady, CastLaunch, CastStop, CastPickFile, CastVolume,
           CastActionDone, CastCastUrl, CastFilePicked, MirrorStat, AskStop, In, Joined, SourceOff, EndJoined,
           SourceEnd, ServeStops, StartScreen, StartThread, StartMirror, QuitStops, QuitUnserves,
           CastDestroyed, CloseWindow, CastInfoThread, Works, CastCommandThread, AcceptLoop, HandleClient,
           SessionFails, CastThreadStep, LoopEnds, MediaReceiverLaunched, MirrorSessionStart, TvChanges,
           DeviceChanges, Got, Stops, StopFirst
  <1> QED
    BY <1>1, <1>2, <1>3, <1>4, <1>5, <1>6, <1>7, <1>8, <1>9, <1>10, <1>11, <1>12, <1>13, <1>14, <1>15,
       <1>16, <1>17, <1>18
       DEF Next, PostAnswer, CloseWindow, vars, ShareNext, OfficeNext, HomeNext, SmbWindowsNext, SmbLogin, SmbRelaunch,
           Viewers

LEMMA SmbQuits ==
  ASSUME [Next]_vars, app = "smb", phase' = "quit"
  PROVE  (inbox' = <<>> /\ jobs' = <<>>) \/ (UNCHANGED <<jobs, inbox>> /\ phase = "quit")
  <1>1. SmbNext => phase' # "quit" \/ (inbox' = <<>> /\ jobs' = <<>>)
    BY DEF SmbNext, SmbMountApp, SmbPress, Click, Send, SmbEdit, Type, SmbDoConnect, Handle, HandleAnd,
           SmbDoEnumShares, SmbSharesReady, SmbConnectDone, SmbDoUnmount, SmbOpenVolume, EnumThread,
           Works, ConnectValidate, ThreadStep, ConnectRemember, ConnectMount, Step, Got, SmbLogin, SmbRelaunch
  <1>2. SmbfsNext => app = "smbfs"
    BY DEF SmbfsNext, SmbfsMain, FsStat, Called, FsReadDir, FsOpen, FsOpenWrite, FsRead, FsOnHandle,
           FsWrite, FsClose, FsMkdir, FsChange, FsUnlink, FsTruncate, FsRename, FsDisconnect
  <1>3. PostAnswer => phase' # "quit"
    BY DEF PostAnswer
  <1> QED
    BY <1>1, <1>2, <1>3 DEF Next, CloseWindow, vars, SmbWindowsNext, Viewers, InfoApps, Browsers

-----------------------------------------------------------------------------
\* Whose steps are whose.
LEMMA WindowsOwn ==
  /\ SmbNext => app = "smb"
  /\ SmbfsNext => app = "smbfs"
  /\ HueNext => app = "hue"
  /\ DaikinNext => app = "daikin"
  <1>1. SmbNext => app = "smb"
    BY
       DEF SmbNext, SmbMountApp, SmbPress, SmbEdit, SmbDoConnect, SmbDoEnumShares, SmbSharesReady,
           SmbConnectDone,
           SmbDoUnmount, SmbOpenVolume, EnumThread, Works, ConnectValidate, ConnectRemember, ConnectMount, Step, Got,
           SmbLogin, SmbRelaunch
  <1>2. SmbfsNext => app = "smbfs"
    BY DEF SmbfsNext, SmbfsMain, FsStat, Called, FsReadDir, FsOpen, FsOpenWrite, FsRead, FsOnHandle,
           FsWrite, FsClose, FsMkdir, FsChange, FsUnlink, FsTruncate, FsRename, FsDisconnect
  <1>3. HueNext => app = "hue"
    BY
       DEF HueNext, HueApp, Launch, LaunchAnd, HuePairThread, Works, HueListThread, HueSetThread, HueButtons,
           Click,
           Send, HuePairButton, HuePairDone, HueRefresh, HueLightsReady, HueToggle, HueBright, HueCmdDone, Got
  <1>4. DaikinNext => app = "daikin"
    BY
       DEF DaikinNext, DaikinApp, Launch, LaunchAnd, DaikinInfoThread, Works, DaikinSetThread, DaikinButtons,
           Click,
           Send, DaikinRefresh, DaikinInfoReady, DaikinPower, DaikinMode, DaikinFan, DaikinTemp, DaikinSetDone, Got
  <1> QED
    BY <1>1, <1>2, <1>3, <1>4

(***************************************************************************)
(* The invariant of all windows but the cameras and the browser: what the  *)
(* window is owed while it is open, and an empty queue before.             *)
(***************************************************************************)
Extras ==
  /\ app \in {"shelly", "shellygraph"} => InFlight
  /\ app = "firetv" => RemoteOnly
  /\ app = "smb" => BusyFlag
NoWork == jobs = <<>> /\ inbox = <<>>
BusyInv ==
  app \notin Viewers \cup {"won"} =>
    /\ (phase = "start" \/ (app = "smb" /\ phase = "quit")) => NoWork
    /\ phase = "open" => Sound /\ Extras

LEMMA BusyInvStep == BusyInv /\ [Next]_vars => BusyInv'
  <1> SUFFICES ASSUME BusyInv, [Next]_vars, app \notin Viewers \cup {"won"}
               PROVE  /\ (phase' = "start" \/ (app = "smb" /\ phase' = "quit")) => NoWork'
                      /\ phase' = "open" => Sound' /\ Extras'
    BY AppStays DEF BusyInv
  <1>0. /\ (phase = "start" \/ (app = "smb" /\ phase = "quit")) => NoWork
        /\ phase = "open" => Sound /\ Extras
        /\ app' = app
    BY AppStays DEF BusyInv
  <1>1. phase' = "start" => NoWork'
    BY <1>0, NeverRestarts DEF NoWork
  <1>2. app = "smb" /\ phase' = "quit" => NoWork'
    BY <1>0, SmbQuits DEF NoWork
  <1>3. SUFFICES ASSUME phase' = "open" PROVE Sound' /\ Extras'
    BY <1>1, <1>2
  <1>4. /\ phase = "open" => Sound
        /\ phase = "start" => inbox = <<>>
        /\ phase = "start" => inbox = <<>> /\ jobs = <<>>
    BY <1>0 DEF NoWork
  <1>a. CASE UNCHANGED vars
    <2>1. phase = "open" /\ Sound /\ Extras /\ UNCHANGED <<app, win, jobs, inbox, lost>>
      BY <1>0, <1>3, <1>a DEF vars
    <2>2. Sound'
      BY <2>1, SameSound DEF Sound
    <2>3. Keeps
      BY <2>1, SameMail DEF Sound
    <2> QED
      BY <2>1, <2>2, <2>3 DEF Extras, InFlight, RemoteOnly, BusyFlag, Keeps, Waiting
  <1>b. CASE PostAnswer
    <2>1. phase = "open" /\ Sound /\ Extras /\ UNCHANGED <<app, win, lost>> /\ DOMAIN jobs # {}
      BY <1>0, <1>b DEF PostAnswer
    <2>2. Mail' /\ Keeps
      BY <1>b, <2>1, PostMail DEF Sound
    <2>3. Sound'
      BY <2>1, <2>2 DEF Sound, Keeps, Waiting
    <2>4. app = "firetv" => win.page = "remote" /\ "page" \in DOMAIN win
      BY <2>1 DEF Extras, RemoteOnly
    <2> QED
      BY <2>1, <2>2, <2>3, <2>4 DEF Extras, InFlight, RemoteOnly, BusyFlag, Keeps
  <1>c. CASE CloseWindow
    BY <1>3, <1>c DEF CloseWindow
  <1>d. ASSUME app \notin {"shelly", "shellygraph", "firetv", "smb"}, Sound' PROVE Sound' /\ Extras'
    BY <1>0, <1>d DEF Extras
  <1>5. CASE app \in Browsers \cup {"nfs", "afp", "daap"} /\ ShareNext
    <2>1. Sound'
      BY <1>3, <1>4, <1>5, FtpSound, DavSound, NfsSound, AfpSound, DaapSound DEF ShareNext
    <2> QED
      BY <1>5, <1>d, <2>1 DEF Browsers
  <1>6. CASE app \in {"ipp", "escl", "nut"} /\ OfficeNext
    <2>1. Sound'
      BY <1>3, <1>4, <1>6, IppSound, EsclSound, NutSound DEF OfficeNext
    <2> QED
      BY <1>6, <1>d, <2>1
  <1>7. CASE app \in {"hue", "daikin"} /\ HomeNext
    <2>1. Sound'
      BY <1>3, <1>4, <1>7, HueSound, DaikinSound DEF HomeNext
    <2> QED
      BY <1>7, <1>d, <2>1
  <1>8. CASE app \in {"shelly", "shellygraph"} /\ ShellyNext
    <2>1. phase = "open" => Sound /\ InFlight
      BY <1>0, <1>8 DEF Extras
    <2>2. Sound' /\ InFlight'
      BY <1>3, <1>4, <1>8, <2>1, ShellySound
    <2> QED
      BY <1>0, <1>8, <2>2 DEF Extras
  <1>9. CASE app = "spotify" /\ SpotifyNext
    BY <1>3, <1>4, <1>9, <1>d, SpotifySound
  <1>10. CASE app \in InfoApps /\ InfoNext
    <2>1. Sound'
      BY <1>3, <1>4, <1>10, InfoSound
    <2> QED
      BY <1>10, <1>d, <2>1 DEF InfoApps
  <1>11. CASE app = "firetv" /\ FireTvNext
    <2>1. phase = "open" => Sound /\ RemoteOnly
      BY <1>0, <1>11 DEF Extras
    <2>2. Sound' /\ RemoteOnly'
      BY <1>3, <1>4, <1>11, <2>1, FireTvSound
    <2> QED
      BY <1>0, <1>11, <2>2 DEF Extras
  <1>12. CASE app \in Viewers \cup {"esphome"} /\ CameraNext
    <2>1. app = "esphome"
      BY <1>12
    <2>2. Sound'
      BY <1>3, <1>4, <1>12, <2>1, EsphomeSound
    <2> QED
      BY <1>d, <2>1, <2>2
  <1>13. CASE app \in {"smb", "smbfs"} /\ SmbWindowsNext
    <2>1. CASE SmbNext
      <3>0. app = "smb"
        BY <2>1, WindowsOwn
      <3>1. phase = "open" => Sound /\ BusyFlag
        BY <1>0, <3>0 DEF Extras
      <3>2. Sound' /\ BusyFlag'
        BY <1>3, <1>4, <2>1, <3>1, SmbSound
      <3> QED
        BY <1>0, <3>0, <3>2 DEF Extras
    <2>2. CASE SmbfsNext
      <3>0. app = "smbfs"
        BY <2>2, WindowsOwn
      <3>1. Sound'
        BY <1>3, <1>4, <2>2, SmbfsSound
      <3> QED
        BY <1>d, <3>0, <3>1
    <2> QED
      BY <1>13, <2>1, <2>2 DEF SmbWindowsNext
  <1>14. CASE app = "cast" /\ CastNext
    BY <1>3, <1>4, <1>14, <1>d, CastSound
  <1> QED
    BY <1>a, <1>b, <1>c, <1>5, <1>6, <1>7, <1>8, <1>9, <1>10, <1>11, <1>12, <1>13, <1>14 DEF Next

\* A window that says it is loading or sending, or an SMB form that has put its
\* buttons out of reach, has a thread at work or a message on its way, or a
\* spawn_thread has failed; and the flags of the browser (fPinging, fIntelBusy)
\* are set exactly while one check is running or its answer is in the queue.
THEOREM NoWaitIsInVain == Spec => []BusyMeansWork
  <1>1. Init => BusyInv /\ WonInv
    <2>1. Init => phase = "start" /\ jobs = <<>> /\ inbox = <<>>
      BY DEF Init, ShareInit, OfficeInit, HomeInit, ShellyInit, SpotifyInit, InfoInit, FireTvInit,
             CameraInit, SmbInit, CastInit, WonInit, AppInit
    <2> QED
      BY <2>1 DEF BusyInv, WonInv, NoWork
  <1>2. BusyInv /\ WonInv => BusyMeansWork
    <2> SUFFICES ASSUME BusyInv, WonInv PROVE BusyMeansWork
      OBVIOUS
    <2>1. Due("any") => Outstanding
      BY DEF Due, Outstanding, Range
    <2>2. WonOpen => /\ win.status = "none"
                     /\ Awaited(1, "statusReady") = IF win.pinging THEN 1 ELSE 0
                     /\ Awaited(2, "intelReady") = IF win.intelBusy THEN 1 ELSE 0
      BY WonFlags
    <2>3. ASSUME phase = "open", app \notin Viewers,
                 win.status \in {"loading", "sending"} \/ (app = "smb" /\ win.busy)
          PROVE  Outstanding \/ lost
      <3>1. app # "won"
        BY <2>2, <2>3 DEF WonOpen
      <3>2. Sound /\ Extras
        BY <2>3, <3>1 DEF BusyInv
      <3> QED
        BY <2>1, <2>3, <3>2 DEF Sound, Extras, BusyFlag, Waiting, BusyTexts
    <2> QED
      BY <2>2, <2>3 DEF BusyMeansWork
  <1> QED
    BY <1>1, <1>2, BusyInvStep, WonInvStep, PTL DEF Spec

-----------------------------------------------------------------------------
(***************************************************************************)
(* The mount parameters.  Encode and decode are loops: the fold of each is *)
(* taken apart into its turns, and after the turns for k characters the    *)
(* decoder has put together the first k characters of the value.           *)
(***************************************************************************)
LEMMA EncodeFolds ==
  ASSUME NEW X, NEW v \in Seq(X)
  PROVE  \E g : /\ g[0] = <<>>
                /\ \A k \in 1..Len(v) : g[k] = g[k - 1] \o Code(v[k])
                /\ EncodeMountValue(v) = g[Len(v)]
  <1> DEFINE l == Len(v)
             Turn(out, x) == out \o Code(v[x])
             Fold(f, k) == f = [s \in SUBSET (1..k) |->
                                  IF s = {} THEN <<>> ELSE Turn(f[s \ {Max(s)}], Max(s))]
             P == {k \in Nat : \E f : Fold(f, k)}
  <1>0. l \in Nat /\ DOMAIN v = 1..l
    OBVIOUS
  <1>1. 0 \in P
    <2> HIDE DEF Turn
    <2>1. Fold([s \in SUBSET (1..0) |-> <<>>], 0)
      OBVIOUS
    <2> QED
      BY <2>1
  <1>2. ASSUME NEW k \in Nat, k \in P PROVE k + 1 \in P
    <2> HIDE DEF Turn
    <2> PICK f : Fold(f, k)
      BY <1>2
    <2>1. \A s \in SUBSET (1..k) : f[s] = IF s = {} THEN <<>> ELSE Turn(f[s \ {Max(s)}], Max(s))
      OBVIOUS
    <2> DEFINE e == [s \in SUBSET (1..(k + 1)) |->
                       IF k + 1 \in s THEN Turn(f[s \ {k + 1}], k + 1) ELSE f[s]]
    <2>2. ASSUME NEW s \in SUBSET (1..(k + 1))
          PROVE  e[s] = IF s = {} THEN <<>> ELSE Turn(e[s \ {Max(s)}], Max(s))
      <3>1. CASE k + 1 \in s
        <4>1. Max(s) = k + 1
          BY <3>1, MaxIsTop
        <4>2. s \ {k + 1} \in SUBSET (1..(k + 1)) /\ k + 1 \notin s \ {k + 1}
          OBVIOUS
        <4> QED
          BY <3>1, <4>1, <4>2
      <3>2. CASE k + 1 \notin s
        <4>1. s \in SUBSET (1..k)
          BY <3>2
        <4>3. s \ {Max(s)} \in SUBSET (1..(k + 1)) /\ k + 1 \notin s \ {Max(s)}
          BY <3>2
        <4> QED
          BY <2>1, <3>2, <4>1, <4>3
      <3> QED
        BY <3>1, <3>2
    <2>3. Fold(e, k + 1)
      BY <2>2
    <2> HIDE DEF e, Fold
    <2> QED
      BY <2>3
  <1>3. l \in P
    <2> HIDE DEF P
    <2> QED
      BY <1>0, <1>1, <1>2, SetInduction
  <1> DEFINE f == CHOOSE f : Fold(f, l)
  <1>4. Fold(f, l)
    BY <1>3
  <1>5. EncodeMountValue(v) = f[1..l]
    BY <1>0 DEF EncodeMountValue, FoldLeft, MapThenFoldSet
  <1> DEFINE g == [k \in 0..l |-> f[1..k]]
  <1>6. ASSUME NEW k \in 1..l PROVE g[k] = Turn(g[k - 1], k)
    <2> HIDE DEF f, Turn
    <2>1. Max(1..k) = k /\ 1..k # {} /\ (1..k) \ {k} = 1..(k - 1) /\ 1..k \in SUBSET (1..l)
      BY <1>0, MaxIsTop
    <2>2. f[1..k] = Turn(f[(1..k) \ {Max(1..k)}], Max(1..k))
      BY <1>4, <2>1
    <2>3. g[k] = f[1..k] /\ g[k - 1] = f[1..(k - 1)]
      BY <1>0
    <2> HIDE DEF g
    <2> QED
      BY <2>1, <2>2, <2>3
  <1>7. g[0] = <<>> /\ g[l] = f[1..l]
    <2> HIDE DEF f
    <2> QED
      BY <1>0, <1>4
  <1> HIDE DEF g
  <1> QED
    BY <1>0, <1>5, <1>6, <1>7

LEMMA DecodeFolds ==
  ASSUME NEW X, NEW v \in Seq(X)
  PROVE  \E g : /\ g[0] = <<>>
                /\ \A k \in 1..Len(v) : g[k] = Take(v, g[k - 1], k)
                /\ PercentDecode(v) = g[Len(v)]
  <1> PICK n : n = [i \in DOMAIN v |-> i]
    OBVIOUS
  <1> DEFINE l == Len(v)
             Turn(out, x) == Take(v, out, n[x])
             Fold(f, k) == f = [s \in SUBSET (1..k) |->
                                  IF s = {} THEN <<>> ELSE Turn(f[s \ {Max(s)}], Max(s))]
             P == {k \in Nat : \E f : Fold(f, k)}
  <1>0. l \in Nat /\ DOMAIN v = 1..l /\ DOMAIN n = 1..l /\ \A i \in 1..l : n[i] = i
    OBVIOUS
  <1>1. 0 \in P
    <2> HIDE DEF Turn
    <2>1. Fold([s \in SUBSET (1..0) |-> <<>>], 0)
      OBVIOUS
    <2> QED
      BY <2>1
  <1>2. ASSUME NEW k \in Nat, k \in P PROVE k + 1 \in P
    <2> HIDE DEF Turn
    <2> PICK f : Fold(f, k)
      BY <1>2
    <2>1. \A s \in SUBSET (1..k) : f[s] = IF s = {} THEN <<>> ELSE Turn(f[s \ {Max(s)}], Max(s))
      OBVIOUS
    <2> DEFINE e == [s \in SUBSET (1..(k + 1)) |->
                       IF k + 1 \in s THEN Turn(f[s \ {k + 1}], k + 1) ELSE f[s]]
    <2>2. ASSUME NEW s \in SUBSET (1..(k + 1))
          PROVE  e[s] = IF s = {} THEN <<>> ELSE Turn(e[s \ {Max(s)}], Max(s))
      <3>1. CASE k + 1 \in s
        <4>1. Max(s) = k + 1
          BY <3>1, MaxIsTop
        <4>2. s \ {k + 1} \in SUBSET (1..(k + 1)) /\ k + 1 \notin s \ {k + 1}
          OBVIOUS
        <4> QED
          BY <3>1, <4>1, <4>2
      <3>2. CASE k + 1 \notin s
        <4>1. s \in SUBSET (1..k)
          BY <3>2
        <4>3. s \ {Max(s)} \in SUBSET (1..(k + 1)) /\ k + 1 \notin s \ {Max(s)}
          BY <3>2
        <4> QED
          BY <2>1, <3>2, <4>1, <4>3
      <3> QED
        BY <3>1, <3>2
    <2>3. Fold(e, k + 1)
      BY <2>2
    <2> HIDE DEF e, Fold
    <2> QED
      BY <2>3
  <1>3. l \in P
    <2> HIDE DEF P
    <2> QED
      BY <1>0, <1>1, <1>2, SetInduction
  <1> DEFINE f == CHOOSE f : Fold(f, l)
  <1>4. Fold(f, l)
    BY <1>3
  <1>5. PercentDecode(v) = f[1..l]
    BY <1>0 DEF PercentDecode, FoldLeft, MapThenFoldSet
  <1> DEFINE g == [k \in 0..l |-> f[1..k]]
  <1>6. ASSUME NEW k \in 1..l PROVE g[k] = Turn(g[k - 1], k)
    <2> HIDE DEF f, Turn
    <2>1. Max(1..k) = k /\ 1..k # {} /\ (1..k) \ {k} = 1..(k - 1) /\ 1..k \in SUBSET (1..l)
      BY <1>0, MaxIsTop
    <2>2. f[1..k] = Turn(f[(1..k) \ {Max(1..k)}], Max(1..k))
      BY <1>4, <2>1
    <2>3. g[k] = f[1..k] /\ g[k - 1] = f[1..(k - 1)]
      BY <1>0
    <2> HIDE DEF g
    <2> QED
      BY <2>1, <2>2, <2>3
  <1>7. g[0] = <<>> /\ g[l] = f[1..l]
    <2> HIDE DEF f
    <2> QED
      BY <1>0, <1>4
  <1> HIDE DEF g
  <1> QED
    BY <1>0, <1>5, <1>6, <1>7

\* What one turn of the encoder adds.
Signs == {Percent, "2", "0", "5"}
LEMMA Distinct ==
  /\ White # Percent /\ White # "2" /\ White # "0" /\ White # "5"
  /\ Percent # "2" /\ Percent # "0" /\ Percent # "5"
  BY Zenon DEF White, Percent
LEMMA CodeIs ==
  ASSUME NEW c
  PROVE  /\ c \in {White, Percent} => Code(c) = <<Percent, "2", IF c = White THEN "0" ELSE "5">>
         /\ c \notin {White, Percent} => Code(c) = <<c>>
  <1>1. ASSUME NEW x, NEW y, NEW z PROVE <<x>> \o <<y, z>> = <<x, y, z>>
    <2> PICK a, b, d : a = <<x>> /\ b = <<y, z>> /\ d = <<x, y, z>>
      OBVIOUS
    <2>1. a \in Seq({x, y, z}) /\ b \in Seq({x, y, z}) /\ d \in Seq({x, y, z})
      OBVIOUS
    <2>2. a \o b \in Seq({x, y, z}) /\ Len(a \o b) = 3
      BY <2>1
    <2>3. (a \o b)[1] = x /\ (a \o b)[2] = y /\ (a \o b)[3] = z
      BY <2>1
    <2>4. \A i \in 1..3 : i = 1 \/ i = 2 \/ i = 3
      OBVIOUS
    <2>5. Len(d) = 3 /\ d[1] = x /\ d[2] = y /\ d[3] = z
      OBVIOUS
    <2>6. \A i \in 1..3 : (a \o b)[i] = d[i]
      BY <2>3, <2>4, <2>5
    <2>7. a \o b = d
      BY <2>1, <2>2, <2>5, <2>6, SeqEqual, Zenon
    <2> QED
      BY <2>7
  <1>2. DOMAIN Hex = {White, Percent} /\ Hex[White] = <<"2", "0">> /\ Hex[Percent] = <<"2", "5">>
    BY Distinct DEF Hex
  <1>3. CASE c = White
    BY <1>1, <1>2, <1>3, Distinct DEF Code
  <1>4. CASE c = Percent
    BY <1>1, <1>2, <1>4, Distinct DEF Code
  <1> QED
    BY <1>2, <1>3, <1>4 DEF Code

Adds(X, s, c, t) ==
  /\ t \in Seq(X) /\ \A i \in 1..Len(s) : t[i] = s[i]
  /\ c \notin {White, Percent} => Len(t) = Len(s) + 1 /\ t[Len(s) + 1] = c
  /\ c \in {White, Percent} => /\ Len(t) = Len(s) + 3 /\ t[Len(s) + 1] = Percent /\ t[Len(s) + 2] = "2"
                               /\ t[Len(s) + 3] = IF c = White THEN "0" ELSE "5"
LEMMA TurnAdds ==
  ASSUME NEW X, Signs \subseteq X, NEW s \in Seq(X), NEW c \in X, NEW t, t = s \o Code(c)
  PROVE  Adds(X, s, c, t)
  <1> USE DEF Adds
  <1>1. CASE c \in {White, Percent}
    <2>1. PICK d \in X : d = IF c = White THEN "0" ELSE "5"
      BY DEF Signs
    <2>2. t = s \o <<Percent, "2", d>> /\ Percent \in X /\ "2" \in X
      BY <1>1, <2>1, CodeIs DEF Signs
    <2>3. \A x, y, z \in X : <<x, y, z>> \in Seq(X) /\ Len(<<x, y, z>>) = 3
      OBVIOUS
    <2>4. \A x, y, z \in X : LET u == s \o <<x, y, z>>
                             IN /\ u \in Seq(X) /\ Len(u) = Len(s) + 3 /\ \A i \in 1..Len(s) : u[i] = s[i]
                                /\ u[Len(s) + 1] = x /\ u[Len(s) + 2] = y /\ u[Len(s) + 3] = z
      BY <2>3
    <2> QED
      BY <1>1, <2>1, <2>2, <2>4
  <1>2. CASE c \notin {White, Percent}
    <2>1. t = s \o <<c>>
      BY <1>2, CodeIs
    <2> QED
      BY <1>2, <2>1
  <1> QED
    BY <1>1, <1>2

\* The encoded value: no white space, no sign near the end that could be taken for a code.
Encoded(s) == \A j \in 1..Len(s) : s[j] # White /\ (s[j] = Percent => j + 2 <= Len(s))
Begins(s, t) == Len(s) <= Len(t) /\ \A j \in 1..Len(s) : t[j] = s[j]
Turns(v, g) == g[0] = <<>> /\ \A k \in 1..Len(v) : g[k] = g[k - 1] \o Code(v[k])

LEMMA EncodedTurn ==
  ASSUME NEW X, Signs \subseteq X, NEW s \in Seq(X), NEW c \in X, NEW t, t = s \o Code(c), Encoded(s)
  PROVE  t \in Seq(X) /\ Encoded(t) /\ Begins(s, t)
  <1>. Adds(X, s, c, t)
    BY TurnAdds
  <1> USE DEF Adds
  <1>0. t \in Seq(X) /\ Len(s) \in Nat /\ Len(t) \in Nat
    OBVIOUS
  <1>1. CASE c \in {White, Percent}
    <2>1. /\ \A i \in 1..Len(s) : t[i] = s[i]
          /\ Len(t) = Len(s) + 3 /\ t[Len(s) + 1] = Percent /\ t[Len(s) + 2] = "2" /\ t[Len(s) + 3] \in {"0", "5"}
      BY <1>1
    <2>2. \A j \in 1..Len(t) : j \in 1..Len(s) \/ j = Len(s) + 1 \/ j = Len(s) + 2 \/ j = Len(s) + 3
      BY <1>0, <2>1
    <2> QED
      BY <1>0, <2>1, <2>2, Distinct DEF Encoded, Begins
  <1>2. CASE c \notin {White, Percent}
    <2>1. (\A i \in 1..Len(s) : t[i] = s[i]) /\ Len(t) = Len(s) + 1 /\ t[Len(s) + 1] = c
      BY <1>2
    <2>2. \A j \in 1..Len(t) : j \in 1..Len(s) \/ j = Len(s) + 1
      BY <1>0, <2>1
    <2> QED
      BY <1>0, <1>2, <2>1, <2>2 DEF Encoded, Begins
  <1> QED
    BY <1>1, <1>2

LEMMA EncodedTurns ==
  ASSUME NEW X, Signs \subseteq X, NEW v \in Seq(X), NEW g, Turns(v, g)
  PROVE  \A k \in 0..Len(v) : /\ g[k] \in Seq(X) /\ Encoded(g[k])
                              /\ \A m \in 0..k : g[m] \in Seq(X) /\ Begins(g[m], g[k])
  <1> DEFINE n == Len(v)
             Good(k) == /\ g[k] \in Seq(X) /\ Encoded(g[k])
                        /\ \A m \in 0..k : g[m] \in Seq(X) /\ Begins(g[m], g[k])
             P == {k \in Nat : k <= n => Good(k)}
  <1>0. n \in Nat /\ \A k \in 1..n : v[k] \in X
    OBVIOUS
  <1>1. 0 \in P
    <2>1. g[0] = <<>> /\ Len(<<>>) = 0 /\ <<>> \in Seq(X)
      BY DEF Turns
    <2>2. Encoded(<<>>) /\ Begins(<<>>, <<>>)
      BY DEF Encoded, Begins
    <2>3. \A m \in 0..0 : m = 0
      OBVIOUS
    <2> QED
      BY <2>1, <2>2, <2>3
  <1>2. ASSUME NEW k \in Nat, k \in P PROVE k + 1 \in P
    <2> SUFFICES ASSUME k + 1 <= n PROVE Good(k + 1)
      OBVIOUS
    <2>1. Good(k)
      BY <1>0, <1>2
    <2>2. k + 1 \in 1..n /\ (k + 1) - 1 = k
      BY <1>0
    <2>3. g[k + 1] = g[k] \o Code(v[k + 1])
      BY <2>2 DEF Turns
    <2>4. g[k + 1] \in Seq(X) /\ Encoded(g[k + 1]) /\ Begins(g[k], g[k + 1])
      BY <1>0, <2>1, <2>2, <2>3, EncodedTurn
    <2>5. ASSUME NEW m \in 0..(k + 1) PROVE g[m] \in Seq(X) /\ Begins(g[m], g[k + 1])
      <3>1. CASE m = k + 1
        BY <2>4, <3>1 DEF Begins
      <3>2. CASE m # k + 1
        <4>1. m \in 0..k
          BY <3>2
        <4>2. g[m] \in Seq(X) /\ Begins(g[m], g[k])
          BY <2>1, <4>1
        <4>3. Len(g[m]) \in Nat /\ Len(g[k]) \in Nat /\ Len(g[k + 1]) \in Nat
          BY <2>1, <2>4, <4>2
        <4> QED
          BY <2>4, <4>2, <4>3 DEF Begins
      <3> QED
        BY <3>1, <3>2
    <2> HIDE DEF n
    <2> QED
      BY <2>4, <2>5
  <1>3. Nat \subseteq P
    <2> HIDE DEF P
    <2> QED
      BY <1>1, <1>2, SetInduction
  <1> QED
    BY <1>0, <1>3

LEMMA TwoLong == ASSUME NEW X, NEW u \in Seq(X), Len(u) = 2 PROVE u = <<u[1], u[2]>>
  OBVIOUS

\* The turns of the decoder over one code put its character at the end.
Decodes(e, h) == \A i \in 1..Len(e) : h[i] = Take(e, h[i - 1], i)
LEMMA CodeIsRead ==
  ASSUME NEW X, NEW e \in Seq(X), NEW s \in Seq(X), NEW c, NEW t,
         Encoded(s), Begins(s, e), Adds(X, s, c, t), Begins(t, e),
         NEW h, Decodes(e, h)
  PROVE  h[Len(t)] = Append(h[Len(s)], c)
  <1> DEFINE l == Len(s)
  <1>0. l \in Nat /\ Len(t) \in Nat /\ Len(e) \in Nat /\ DOMAIN e = 1..Len(e) /\ t \in Seq(X)
    BY DEF Adds
  <1>h. DOMAIN Hex = {White, Percent} /\ Hex[White] = <<"2", "0">> /\ Hex[Percent] = <<"2", "5">>
    BY Distinct DEF Hex
  <1>1. l < Len(t) /\ Len(t) <= Len(e) /\ \A j \in 1..Len(t) : e[j] = t[j]
    BY <1>0 DEF Adds, Begins
  <1>2. ASSUME NEW j \in 1..l, Decoded(e, j) # {} PROVE j + 2 <= l
    <2>1. e[j] = Percent
      BY <1>2 DEF Decoded
    <2> QED
      BY <2>1 DEF Encoded, Begins
  <1>3. ~Skipped(e, l + 1)
    BY <1>0, <1>2 DEF Skipped
  <1>4. l + 1 \in 1..Len(e) /\ (l + 1) - 1 = l
    BY <1>0, <1>1
  <1>5. h[l + 1] = Append(h[l], IF Decoded(e, l + 1) = {} THEN e[l + 1] ELSE CHOOSE x \in Decoded(e, l + 1) : TRUE)
    BY <1>3, <1>4 DEF Take, Decodes
  <1>6. CASE c \notin {White, Percent}
    <2>1. Len(t) = l + 1 /\ e[l + 1] = c
      BY <1>0, <1>1, <1>6 DEF Adds
    <2>2. Decoded(e, l + 1) = {}
      BY <1>6, <2>1 DEF Decoded
    <2> QED
      BY <1>5, <2>1, <2>2
  <1>7. CASE c \in {White, Percent}
    <2>1. /\ Len(t) = l + 3 /\ t[l + 1] = Percent /\ t[l + 2] = "2" /\ t[l + 3] = IF c = White THEN "0" ELSE "5"
      BY <1>7 DEF Adds
    <2>2. /\ e[l + 1] = Percent /\ e[l + 2] = "2" /\ e[l + 3] = IF c = White THEN "0" ELSE "5"
      BY <1>0, <1>1, <2>1
    <2>3. SubSeq(e, (l + 1) + 1, (l + 1) + 2) = <<"2", IF c = White THEN "0" ELSE "5">>
      <3> PICK u : u = SubSeq(e, (l + 1) + 1, (l + 1) + 2)
        OBVIOUS
      <3>1. (l + 1) + 1 \in 1..Len(e) /\ (l + 1) + 2 \in 1..Len(e) /\ l + 2 \in 1..Len(e) /\ l + 3 \in 1..Len(e)
        BY <1>0, <1>1, <2>1
      <3>2. u \in Seq(X) /\ Len(u) = 2 /\ u[1] = e[l + 2] /\ u[2] = e[l + 3]
        BY <1>0, <3>1
      <3>3. u = <<u[1], u[2]>>
        BY <3>2, TwoLong
      <3> QED
        BY <2>2, <3>2, <3>3
    <2>4. (l + 1) + 2 <= Len(e)
      BY <1>0, <1>1, <2>1
    <2>5. <<"2", "0">> # <<"2", "5">>
      <3>1. <<"2", "0">>[2] = "0" /\ <<"2", "5">>[2] = "5"
        OBVIOUS
      <3> QED
        BY <3>1
    <2>6. SubSeq(e, (l + 1) + 1, (l + 1) + 2) = Hex[c]
      BY <1>7, <1>h, <2>3, Distinct
    <2>7. \A x \in {White, Percent} : Hex[x] = Hex[c] => x = c
      BY <1>7, <1>h, <2>5
    <2>8. Decoded(e, l + 1) = {c}
      BY <1>7, <1>h, <2>2, <2>4, <2>6, <2>7, Zenon DEF Decoded
    <2>9. h[l + 1] = Append(h[l], c)
      BY <1>5, <2>8
    <2>10. Skipped(e, l + 2) /\ Skipped(e, l + 3)
      <3>1. l + 1 \in {(l + 2) - 1, (l + 2) - 2} \cap DOMAIN e
        BY <1>0, <1>4
      <3>2. l + 1 \in {(l + 3) - 1, (l + 3) - 2} \cap DOMAIN e
        BY <1>0, <1>4
      <3> QED
        BY <2>8, <3>1, <3>2, Zenon DEF Skipped
    <2>11. h[l + 2] = h[l + 1]
      <3>1. l + 2 \in 1..Len(e) /\ (l + 2) - 1 = l + 1
        BY <1>0, <1>1, <2>1
      <3> QED
        BY <2>10, <3>1 DEF Take, Decodes
    <2>12. h[l + 3] = h[l + 2]
      <3>1. l + 3 \in 1..Len(e) /\ (l + 3) - 1 = l + 2
        BY <1>0, <1>1, <2>1
      <3> QED
        BY <2>10, <3>1 DEF Take, Decodes
    <2> QED
      BY <2>1, <2>9, <2>11, <2>12
  <1> QED
    BY <1>6, <1>7

\* A value of any length and any characters that EncodeMountValue wrote, cut at white
\* space as userlandfs does, is what PercentDecode gives back.
THEOREM MountValueArrives ==
  ASSUME NEW X, NEW v \in Seq(X)
  PROVE  PercentDecode(Tokens(EncodeMountValue(v))) = v
  <1> PICK Y : Y = X \cup Signs
    OBVIOUS
  <1>0. Signs \subseteq Y /\ v \in Seq(Y) /\ Len(v) \in Nat /\ \A k \in 1..Len(v) : v[k] \in Y
    OBVIOUS
  <1>1. PICK g : Turns(v, g) /\ EncodeMountValue(v) = g[Len(v)]
    BY EncodeFolds DEF Turns
  <1>e. PICK e : e = g[Len(v)]
    OBVIOUS
  <1>2. \A k \in 0..Len(v) : g[k] \in Seq(Y) /\ Encoded(g[k]) /\ \A m \in 0..k : g[m] \in Seq(Y) /\ Begins(g[m], g[k])
    BY <1>0, <1>1, EncodedTurns
  <1>3. Len(v) \in 0..Len(v)
    BY <1>0
  <1>4. e \in Seq(Y) /\ Encoded(e) /\ \A k \in 0..Len(v) : Begins(g[k], e)
    BY <1>2, <1>3, <1>e
  <1>5. Tokens(e) = e
    <2>1. DOMAIN e = 1..Len(e)
      BY <1>4
    <2> QED
      BY <1>4, <2>1 DEF Tokens, Encoded
  <1>6. PICK h : h[0] = <<>> /\ Decodes(e, h) /\ PercentDecode(e) = h[Len(e)]
    BY <1>4, DecodeFolds DEF Decodes
  <1> DEFINE Got1(k) == [i \in 1..k |-> v[i]]
             P == {k \in Nat : k <= Len(v) => h[Len(g[k])] = Got1(k)}
  <1>7. 0 \in P
    <2>1. g[0] = <<>> /\ Len(<<>>) = 0
      BY <1>1 DEF Turns
    <2>2. Got1(0) = <<>>
      OBVIOUS
    <2> QED
      BY <1>6, <2>1, <2>2
  <1>8. ASSUME NEW k \in Nat, k \in P PROVE k + 1 \in P
    <2> SUFFICES ASSUME k + 1 <= Len(v) PROVE h[Len(g[k + 1])] = Got1(k + 1)
      OBVIOUS
    <2>1. k \in 0..Len(v) /\ k + 1 \in 0..Len(v) /\ k + 1 \in 1..Len(v) /\ (k + 1) - 1 = k
      BY <1>0
    <2>2. h[Len(g[k])] = Got1(k)
      BY <1>8, <2>1
    <2>3. Adds(Y, g[k], v[k + 1], g[k + 1])
      <3>1. g[k + 1] = g[k] \o Code(v[k + 1])
        BY <1>1, <2>1 DEF Turns
      <3> QED
        BY <1>0, <1>2, <2>1, <3>1, TurnAdds
    <2>4. h[Len(g[k + 1])] = Append(h[Len(g[k])], v[k + 1])
      <3>0. PICK s, c, t : s = g[k] /\ c = v[k + 1] /\ t = g[k + 1]
        OBVIOUS
      <3>1. e \in Seq(Y) /\ s \in Seq(Y) /\ Encoded(s) /\ Begins(s, e) /\ Begins(t, e) /\ Adds(Y, s, c, t)
        BY <1>2, <1>4, <2>1, <2>3, <3>0
      <3>2. Decodes(e, h)
        BY <1>6
      <3>3. h[Len(t)] = Append(h[Len(s)], c)
        BY <3>1, <3>2, CodeIsRead
      <3> QED
        BY <3>0, <3>3
    <2>5. Append(Got1(k), v[k + 1]) = Got1(k + 1)
      <3> PICK a, b : a = Got1(k) /\ b = Got1(k + 1)
        OBVIOUS
      <3>1. a \in Seq(Y) /\ Len(a) = k /\ b \in Seq(Y) /\ Len(b) = k + 1 /\ v[k + 1] \in Y
        BY <1>0, <2>1
      <3>2. \A i \in 1..(k + 1) : Append(a, v[k + 1])[i] = b[i]
        BY <1>0, <2>1, <3>1
      <3>3. Append(a, v[k + 1]) \in Seq(Y) /\ Len(Append(a, v[k + 1])) = k + 1
        BY <3>1
      <3>4. Append(a, v[k + 1]) = b
        BY <3>1, <3>2, <3>3, SeqEqual
      <3> QED
        BY <3>4
    <2> QED
      BY <2>2, <2>4, <2>5
  <1>9. Len(v) \in P
    <2> HIDE DEF P
    <2> QED
      BY <1>0, <1>7, <1>8, SetInduction
  <1>10. Got1(Len(v)) = v
    BY <1>0
  <1> QED
    BY <1>1, <1>e, <1>5, <1>6, <1>9, <1>10

-----------------------------------------------------------------------------
\* The mounts of a login, host by host.
HostMounts(all, h) ==
  IF h.server \notin DOMAIN dev.secrets THEN all
  ELSE UNION {Mounted(m, MountPoint(h.server, h.prefs.share, h.prefs.asDisk),
                      [server |-> h.server, share |-> h.prefs.share], h.prefs.readOnly)
                : m \in all}
LEMMA AutoMountFolds ==
  ASSUME NEW X, dev.hosts \in Seq(X), NEW mounts
  PROVE  \E g : /\ g[0] = {mounts}
                /\ \A k \in 1..Len(dev.hosts) : g[k] = HostMounts(g[k - 1], dev.hosts[k])
                /\ AutoMountAll(mounts) = g[Len(dev.hosts)]
  <1> DEFINE l == Len(dev.hosts)
             Turn(all, x) == HostMounts(all, dev.hosts[x])
             Fold(f, k) == f = [s \in SUBSET (1..k) |->
                                  IF s = {} THEN {mounts} ELSE Turn(f[s \ {Max(s)}], Max(s))]
             P == {k \in Nat : \E f : Fold(f, k)}
  <1>0. l \in Nat /\ DOMAIN dev.hosts = 1..l
    OBVIOUS
  <1>1. 0 \in P
    <2> HIDE DEF Turn
    <2>1. Fold([s \in SUBSET (1..0) |-> {mounts}], 0)
      OBVIOUS
    <2> QED
      BY <2>1
  <1>2. ASSUME NEW k \in Nat, k \in P PROVE k + 1 \in P
    <2> HIDE DEF Turn
    <2> PICK f : Fold(f, k)
      BY <1>2
    <2>1. \A s \in SUBSET (1..k) : f[s] = IF s = {} THEN {mounts} ELSE Turn(f[s \ {Max(s)}], Max(s))
      OBVIOUS
    <2> DEFINE e == [s \in SUBSET (1..(k + 1)) |->
                       IF k + 1 \in s THEN Turn(f[s \ {k + 1}], k + 1) ELSE f[s]]
    <2>2. ASSUME NEW s \in SUBSET (1..(k + 1))
          PROVE  e[s] = IF s = {} THEN {mounts} ELSE Turn(e[s \ {Max(s)}], Max(s))
      <3>1. CASE k + 1 \in s
        <4>1. Max(s) = k + 1
          BY <3>1, MaxIsTop
        <4>2. s \ {k + 1} \in SUBSET (1..(k + 1)) /\ k + 1 \notin s \ {k + 1}
          OBVIOUS
        <4> QED
          BY <3>1, <4>1, <4>2
      <3>2. CASE k + 1 \notin s
        <4>1. s \in SUBSET (1..k)
          BY <3>2
        <4>3. s \ {Max(s)} \in SUBSET (1..(k + 1)) /\ k + 1 \notin s \ {Max(s)}
          BY <3>2
        <4> QED
          BY <2>1, <3>2, <4>1, <4>3
      <3> QED
        BY <3>1, <3>2
    <2>3. Fold(e, k + 1)
      BY <2>2
    <2> HIDE DEF e, Fold
    <2> QED
      BY <2>3
  <1>3. l \in P
    <2> HIDE DEF P
    <2> QED
      BY <1>0, <1>1, <1>2, SetInduction
  <1> DEFINE f == CHOOSE f : Fold(f, l)
  <1>4. Fold(f, l)
    BY <1>3
  <1>5. AutoMountAll(mounts) = f[1..l]
    BY <1>0 DEF AutoMountAll, HostMounts, FoldLeft, MapThenFoldSet
  <1> DEFINE g == [k \in 0..l |-> f[1..k]]
  <1>6. ASSUME NEW k \in 1..l PROVE g[k] = Turn(g[k - 1], k)
    <2> HIDE DEF f, Turn
    <2>1. Max(1..k) = k /\ 1..k # {} /\ (1..k) \ {k} = 1..(k - 1) /\ 1..k \in SUBSET (1..l)
      BY <1>0, MaxIsTop
    <2>2. f[1..k] = Turn(f[(1..k) \ {Max(1..k)}], Max(1..k))
      BY <1>4, <2>1
    <2>3. g[k] = f[1..k] /\ g[k - 1] = f[1..(k - 1)]
      BY <1>0
    <2> HIDE DEF g
    <2> QED
      BY <2>1, <2>2, <2>3
  <1>7. g[0] = {mounts} /\ g[l] = f[1..l]
    <2> HIDE DEF f
    <2> QED
      BY <1>0, <1>4
  <1> HIDE DEF g
  <1> QED
    BY <1>0, <1>5, <1>6, <1>7


-----------------------------------------------------------------------------
(***************************************************************************)
(* The mount window.  What is mounted came from texts, by way of the form, *)
(* a thread's copy of it, or the file of hosts; a login that a thread is   *)
(* about to keep has been accepted.                                        *)
(***************************************************************************)
Texts == Servers \cup Shares \cup {Empty}
AsAsked(m) == \A p \in DOMAIN m : m[p].config = m[p].asked
HostsAreTexts(hosts) ==
  /\ hosts \in Seq(Range(hosts))
  /\ \A h \in Range(hosts) : h.server \in Texts /\ h.prefs.share \in Texts
SecretsKnown(secrets, accepted) == \A s \in DOMAIN secrets : <<s, secrets[s]>> \in accepted
SmbKept(d) ==
  /\ DOMAIN d = {"pw", "hosts", "secrets", "accepted", "hook", "mounts"}
  /\ AsAsked(d.mounts)
  /\ HostsAreTexts(d.hosts)
  /\ SecretsKnown(d.secrets, d.accepted)
SharesAreTexts(r) == r.ok => r.shares \subseteq Texts
Trusted(c, accepted) == <<c.server, c.pw[1]>> \in accepted
SmbJob(j, accepted) ==
  /\ j.what = "shares" => SharesAreTexts(j.ans)
  /\ j.what = "done" =>
       /\ {"config", "step"} \subseteq DOMAIN j.arg
       /\ j.arg.config.server \in Texts /\ j.arg.config.share \in Texts
       /\ (j.ans = NoAnswer /\ j.arg.step \in {"remember", "mount"}) => Trusted(j.arg.config, accepted)
SmbMsg(m) == m.what = "shares" => SharesAreTexts(m.arg)
SmbWork == /\ \A m \in Range(inbox) : SmbMsg(m)
           /\ \A j \in DOMAIN jobs : SmbJob(jobs[j], dev.accepted)
SmbForm(w) == {"server", "share"} \subseteq DOMAIN w /\ w.server \in Texts /\ w.share \in Texts
SmbInv == app = "smb" => /\ SmbKept(dev)
                         /\ phase = "open" => SmbForm(win) /\ SmbWork

LEMMA TextArrives == ASSUME NEW v \in Texts PROVE PercentDecode(Tokens(EncodeMountValue(v))) = v
  <1>1. v \in Seq(Range(v))
    <2>1. v = <<>> \/ v \in Servers \cup Shares
      BY DEF Texts, Empty
    <2>2. \A X : <<>> \in Seq(X)
      OBVIOUS
    <2> QED
      BY <2>1, <2>2, SmbAssumption, Zenon
  <1> QED
    BY <1>1, MountValueArrives

LEMMA MountedAsAsked ==
  ASSUME NEW mounts, AsAsked(mounts), NEW p, NEW c, c.server \in Texts, c.share \in Texts, NEW ro,
         NEW m \in Mounted(mounts, p, c, ro)
  PROVE  AsAsked(m)
  <1> PICK a : a = [server |-> c.server, share |-> c.share]
    OBVIOUS
  <1> PICK b : b = ParseSmbMount(BuildSmbMountParameters(c))
    OBVIOUS
  <1>1. a = b
    BY TextArrives DEF ParseSmbMount, BuildSmbMountParameters
  <1> PICK x : x = [asked |-> a, config |-> b, readOnly |-> ro]
    OBVIOUS
  <1>2. x.config = x.asked
    BY <1>1
  <1>3. m = mounts \/ m = With(mounts, p, x)
    BY DEF Mounted
  <1> QED
    BY <1>2, <1>3 DEF AsAsked, With

LEMMA LoginMountsAsAsked ==
  ASSUME HostsAreTexts(dev.hosts), NEW m \in AutoMountAll(<<>>) PROVE AsAsked(m)
  <1>0. dev.hosts \in Seq(Range(dev.hosts)) /\ Len(dev.hosts) \in Nat
    BY DEF HostsAreTexts
  <1>1. PICK g : /\ g[0] = {<<>>}
                 /\ \A k \in 1..Len(dev.hosts) : g[k] = HostMounts(g[k - 1], dev.hosts[k])
                 /\ AutoMountAll(<<>>) = g[Len(dev.hosts)]
    BY <1>0, AutoMountFolds
  <1> DEFINE P == {k \in Nat : k <= Len(dev.hosts) => \A x \in g[k] : AsAsked(x)}
  <1>2. 0 \in P
    BY <1>1 DEF AsAsked
  <1>3. ASSUME NEW k \in Nat, k \in P PROVE k + 1 \in P
    <2> SUFFICES ASSUME k + 1 <= Len(dev.hosts), NEW x \in g[k + 1] PROVE AsAsked(x)
      OBVIOUS
    <2>1. \A y \in g[k] : AsAsked(y)
      BY <1>0, <1>3
    <2>2. k + 1 \in 1..Len(dev.hosts) /\ (k + 1) - 1 = k
      BY <1>0
    <2> PICK h : h = dev.hosts[k + 1]
      OBVIOUS
    <2>3. g[k + 1] = HostMounts(g[k], h)
      BY <1>1, <2>2
    <2>4. h \in Range(dev.hosts)
      BY <1>0, <2>2 DEF Range
    <2>5. h.server \in Texts /\ h.prefs.share \in Texts
      BY <2>4 DEF HostsAreTexts
    <2> PICK p : p = MountPoint(h.server, h.prefs.share, h.prefs.asDisk)
      OBVIOUS
    <2> PICK c : c = [server |-> h.server, share |-> h.prefs.share]
      OBVIOUS
    <2>6. c.server \in Texts /\ c.share \in Texts
      BY <2>5
    <2>7. x \in g[k] \/ \E y \in g[k] : x \in Mounted(y, p, c, h.prefs.readOnly)
      <3> HIDE DEF P
      <3>1. x \in HostMounts(g[k], h)
        BY <2>3, Zenon
      <3> QED
        BY <3>1 DEF HostMounts
    <2> QED
      BY <2>1, <2>6, <2>7, MountedAsAsked
  <1>4. Len(dev.hosts) \in P
    <2> HIDE DEF P
    <2> QED
      BY <1>0, <1>2, <1>3, SetInduction
  <1> QED
    BY <1>0, <1>1, <1>4

LEMMA HostSaved ==
  ASSUME NEW hosts, HostsAreTexts(hosts), NEW server \in Texts, NEW prefs, prefs.share \in Texts
  PROVE  HostsAreTexts(SaveHost(hosts, server, prefs))
  <1> PICK h : h = [server |-> server, prefs |-> prefs]
    OBVIOUS
  <1>0. h.server \in Texts /\ h.prefs.share \in Texts
    OBVIOUS
  <1> PICK t : t = SaveHost(hosts, server, prefs)
    OBVIOUS
  <1>1. CASE \E i \in DOMAIN hosts : hosts[i].server = server
    <2>1. t = [i \in DOMAIN hosts |-> IF hosts[i].server = server THEN h ELSE hosts[i]]
      BY <1>1 DEF SaveHost
    <2>2. hosts \in Seq(Range(hosts)) /\ DOMAIN hosts = 1..Len(hosts) /\ Len(hosts) \in Nat
      BY DEF HostsAreTexts
    <2>3. t \in [1..Len(hosts) -> Range(t)]
      BY <2>1, <2>2 DEF Range
    <2>4. t \in Seq(Range(t))
      BY <2>2, <2>3
    <2>5. \A x \in Range(t) : x = h \/ x \in Range(hosts)
      BY <2>1 DEF Range
    <2> QED
      BY <1>0, <2>4, <2>5 DEF HostsAreTexts
  <1>2. CASE ~\E i \in DOMAIN hosts : hosts[i].server = server
    <2>1. t = Append(hosts, h)
      BY <1>2 DEF SaveHost
    <2>2. t \in Seq(Range(hosts) \cup {h}) /\ Range(t) = Range(hosts) \cup {h}
      <3>1. hosts \in Seq(Range(hosts))
        BY DEF HostsAreTexts
      <3>2. /\ Append(hosts, h) \in Seq(Range(hosts) \cup {h})
            /\ Range(Append(hosts, h)) = Range(hosts) \cup {h}
        BY <3>1, RangeAppend, Zenon
      <3> QED
        BY <2>1, <3>2, Zenon
    <2> QED
      BY <1>0, <2>2 DEF HostsAreTexts
  <1> QED
    BY <1>1, <1>2

LEMMA SecretWritten ==
  ASSUME NEW secrets, NEW accepted, SecretsKnown(secrets, accepted),
         NEW server, NEW pw, pw # <<>> => <<server, pw[1]>> \in accepted,
         NEW t, t = WriteSecret(secrets, server, pw)
  PROVE  SecretsKnown(t, accepted)
  BY DEF WriteSecret, Restrict, With, SecretsKnown

\* The messages and threads of a step that takes a message and may start one job.
LEMMA SmbTakes ==
  ASSUME Mail, SmbWork, inbox # <<>>, inbox' = Tail(inbox), NEW js, Spawn(js), dev'.accepted = dev.accepted,
         js # <<>> => SmbJob([what |-> js[1], arg |-> js[2], ans |-> NoAnswer], dev.accepted)
  PROVE  SmbWork'
  <1>1. Range(inbox') \subseteq Range(inbox)
    BY InboxShrinks DEF Mail
  <1>2. \A j \in DOMAIN jobs' : SmbJob(jobs'[j], dev.accepted)
    <2>1. CASE UNCHANGED jobs
      BY <2>1 DEF SmbWork
    <2>2. CASE js # <<>> /\ jobs' = With(jobs, FreeNumber, NewJob(js))
      <3> PICK n, k : n = NewJob(js) /\ k = FreeNumber
        OBVIOUS
      <3>1. SmbJob(n, dev.accepted)
        BY <2>2 DEF NewJob
      <3> QED
        BY <2>2, <3>1 DEF With, SmbWork
    <2> QED
      BY <2>1, <2>2 DEF Spawn
  <1> QED
    BY <1>1, <1>2 DEF SmbWork

LEMMA SmbHandles ==
  ASSUME Mail, SmbWork, inbox # <<>>, NEW w, NEW d, HandleAnd(w, <<>>, d), d.accepted = dev.accepted
  PROVE  SmbWork' /\ win' = w /\ dev' = d
  <1>1. inbox' = Tail(inbox) /\ Spawn(<<>>) /\ win' = w /\ dev' = d
    BY DEF HandleAnd
  <1> QED
    BY <1>1, SmbTakes

LEMMA SmbSends ==
  ASSUME Mail, SmbWork, NEW m, inbox' = Append(inbox, m), SmbMsg(m), UNCHANGED <<jobs, dev>>
  PROVE  SmbWork'
  <1>1. Range(inbox') = Range(inbox) \cup {m}
    BY InboxGrows DEF Mail
  <1> QED
    BY <1>1 DEF SmbWork

LEMMA SmbPosts == ASSUME Mail, SmbWork, PostAnswer PROVE SmbWork'
  <1> PICK j \in DOMAIN jobs : /\ jobs[j].ans # NoAnswer
                               /\ inbox' = Append(inbox, Msg(jobs[j].what, jobs[j].ans))
                               /\ jobs' = Restrict(jobs, DOMAIN jobs \ {j})
    BY DEF PostAnswer
  <1> PICK m : m = Msg(jobs[j].what, jobs[j].ans)
    OBVIOUS
  <1>1. Range(inbox') = Range(inbox) \cup {m}
    BY InboxGrows DEF Mail
  <1>2. DOMAIN jobs' = DOMAIN jobs \ {j} /\ \A k \in DOMAIN jobs' : jobs'[k] = jobs[k]
    BY DEF Restrict
  <1>3. m.what = jobs[j].what /\ m.arg = jobs[j].ans
    BY DEF Msg
  <1>4. SmbMsg(m)
    BY <1>3 DEF SmbMsg, SmbWork, SmbJob
  <1>5. dev' = dev
    BY DEF PostAnswer
  <1> QED
    BY <1>1, <1>2, <1>4, <1>5 DEF SmbWork

\* A thread goes on or ends.
LEMMA SmbGoesOn ==
  ASSUME SmbWork, NEW j \in DOMAIN jobs, NEW x, jobs' = [jobs EXCEPT ![j] = x], UNCHANGED inbox,
         dev.accepted \subseteq dev'.accepted, SmbJob(x, dev'.accepted)
  PROVE  SmbWork'
  <1>1. DOMAIN jobs' = DOMAIN jobs /\ jobs'[j] = x /\ \A k \in DOMAIN jobs \ {j} : jobs'[k] = jobs[k]
    OBVIOUS
  <1>2. \A k \in DOMAIN jobs : SmbJob(jobs[k], dev'.accepted)
    BY DEF SmbWork, SmbJob, Trusted
  <1> QED
    BY <1>1, <1>2 DEF SmbWork

LEMMA FirstHost ==
  ASSUME HostsAreTexts(dev.hosts), NEW server
  PROVE  LoadHost(server) = <<>> \/ \E h \in Range(dev.hosts) : LoadHost(server) = <<h>>
  <1> DEFINE same == {i \in DOMAIN dev.hosts : dev.hosts[i].server = server}
  <1>1. same \subseteq Nat
    BY DEF HostsAreTexts
  <1>2. CASE same # {}
    <2> PICK i : i = CHOOSE n \in same : \A k \in same : n <= k
      OBVIOUS
    <2>1. \E k \in same : \A l \in same : k <= l
      <3>0. PICK k \in same : \A l \in same : ~(<<l, k>> \in OpToRel(<, Nat))
        <4> HIDE DEF same
        <4> QED
          BY <1>1, <1>2, NatLessThanWellFounded, WFMin
      <3>1. \A l \in same : ~(l < k)
        BY <1>1, <3>0 DEF OpToRel
      <3> QED
        BY <1>1, <3>1
    <2>2. i \in same
      BY <2>1
    <2>3. LoadHost(server) = <<dev.hosts[i]>>
      BY <1>2 DEF LoadHost
    <2> QED
      BY <2>2, <2>3 DEF Range
  <1> QED
    BY <1>2 DEF LoadHost

LEMMA SmbSteps == ASSUME app = "smb", Next PROVE PostAnswer \/ CloseWindow \/ SmbNext
  BY WindowsOwn DEF Next, Viewers, InfoApps, Browsers, SmbWindowsNext

\* The form of a host holds texts: those given and those kept of it.
LEMMA FormHasTexts ==
  ASSUME HostsAreTexts(dev.hosts), NEW server \in Texts, NEW share \in Texts
  PROVE  SmbForm(ConnectForm(server, share, LoadHost(server)))
  <1> PICK host : host = LoadHost(server)
    OBVIOUS
  <1> PICK pr : pr = IF host = <<>> THEN [share |-> Empty, asDisk |-> FALSE, readOnly |-> FALSE] ELSE host[1].prefs
    OBVIOUS
  <1>1. pr.share \in Texts
    <2>1. CASE host = <<>>
      BY <2>1 DEF Texts
    <2>2. CASE host # <<>>
      <3> PICK h \in Range(dev.hosts) : host = <<h>>
        BY <2>2, FirstHost
      <3>1. h.prefs.share \in Texts
        BY DEF HostsAreTexts
      <3> QED
        BY <2>2, <3>1
    <2> QED
      BY <2>1, <2>2
  <1> PICK w : w = ConnectForm(server, share, host)
    OBVIOUS
  <1>2. {"server", "share"} \subseteq DOMAIN w /\ w.server = server /\ w.share = IF share # Empty THEN share ELSE pr.share
    BY DEF ConnectForm
  <1> QED
    BY <1>1, <1>2 DEF SmbForm

\* Mounting and unmounting keep what the volumes were asked for.
LEMMA SmbThreads ==
  ASSUME SmbKept(dev), SmbWork, Mail, app = "smb", phase = "open",
         EnumThread \/ ConnectValidate \/ ConnectRemember \/ ConnectMount
  PROVE  SmbKept(dev') /\ SmbWork' /\ UNCHANGED win
  <1>s. \A j \in DOMAIN jobs : DOMAIN jobs[j] = {"what", "arg", "ans"} /\ SmbJob(jobs[j], dev.accepted)
    BY DEF Mail, JobsNumbered, SmbWork
  <1>n. NoAnswer.ok = FALSE
    BY DEF NoAnswer
  <1>1. CASE EnumThread
    <2>1. PICK j \in DOMAIN jobs : /\ jobs[j].what = "shares" /\ jobs[j].ans = NoAnswer
                                   /\ \E r \in EnumShares(jobs[j].arg.config) :
                                        jobs' = [jobs EXCEPT ![j].ans = r] /\ dev' = Reads(jobs[j].arg, r)
      BY <1>1 DEF EnumThread, Works
    <2>2. PICK r \in EnumShares(jobs[j].arg.config) : jobs' = [jobs EXCEPT ![j].ans = r] /\ dev' = dev
      BY <2>1 DEF Reads
    <2>3. SharesAreTexts(r)
      <3>1. r = Failed \/ r = [ok |-> TRUE, shares |-> ShareEnumCb(Exported)] \/ r = [ok |-> TRUE, shares |-> {}]
        BY DEF EnumShares
      <3>2. ShareEnumCb(Exported) \subseteq Texts
        BY DEF ShareEnumCb, Exported, Texts
      <3> QED
        BY <3>1, <3>2 DEF SharesAreTexts, Failed
    <2> PICK x : x = [jobs[j] EXCEPT !.ans = r]
      OBVIOUS
    <2>4. x.what = "shares" /\ x.ans = r
      BY <1>s, <2>1
    <2>5. SmbJob(x, dev'.accepted)
      BY <2>3, <2>4 DEF SmbJob
    <2>6. jobs' = [jobs EXCEPT ![j] = x] /\ UNCHANGED <<inbox, win>>
      BY <1>1, <2>2 DEF EnumThread, Works
    <2> QED
      BY <2>2, <2>5, <2>6, SmbGoesOn
  <1>2. CASE ConnectValidate
    <2>0. UNCHANGED <<inbox, win>>
      BY <1>2 DEF ConnectValidate, ThreadStep
    <2>1. PICK j \in DOMAIN jobs :
             /\ Step(j, "validate")
             /\ \/ ThreadEnds(j, Failed) /\ UNCHANGED dev
                \/ LET c == jobs[j].arg.config
                   IN /\ dev' = [dev EXCEPT !.accepted = @ \cup {<<c.server, c.pw[1]>>}]
                      /\ Goes(j, "remember")
      BY <1>2 DEF ConnectValidate
    <2>2. CASE ThreadEnds(j, Failed) /\ UNCHANGED dev
      <3> PICK x : x = [jobs[j] EXCEPT !.ans = Failed]
        OBVIOUS
      <3>1. x.what = "done" /\ x.ans = Failed /\ x.arg = jobs[j].arg
        BY <1>s, <2>1 DEF Step
      <3>2. Failed # NoAnswer
        BY DEF Failed, NoAnswer
      <3>3. SmbJob(x, dev'.accepted)
        BY <1>s, <2>1, <3>1, <3>2 DEF SmbJob, Step
      <3>4. jobs' = [jobs EXCEPT ![j] = x]
        BY <2>2 DEF ThreadEnds
      <3> QED
        BY <2>0, <2>2, <3>3, <3>4, SmbGoesOn
    <2>3. CASE LET c == jobs[j].arg.config
               IN /\ dev' = [dev EXCEPT !.accepted = @ \cup {<<c.server, c.pw[1]>>}]
                  /\ Goes(j, "remember")
      <3> PICK o, a, c : o = jobs[j] /\ a = o.arg /\ c = a.config
        OBVIOUS
      <3> PICK b, x : b = [a EXCEPT !.step = "remember"] /\ x = [o EXCEPT !.arg = b]
        OBVIOUS
      <3>0. dev' = [dev EXCEPT !.accepted = @ \cup {<<c.server, c.pw[1]>>}]
        BY <2>3
      <3>1. /\ DOMAIN dev' = DOMAIN dev /\ dev'.accepted = dev.accepted \cup {<<c.server, c.pw[1]>>}
            /\ dev'.hosts = dev.hosts /\ dev'.secrets = dev.secrets /\ dev'.mounts = dev.mounts
        BY <3>0 DEF SmbKept, SecretsKnown
      <3>2. SmbKept(dev')
        BY <3>1 DEF SmbKept, SecretsKnown
      <3>3. o.what = "done" /\ SmbJob(o, dev.accepted) /\ DOMAIN o = {"what", "arg", "ans"}
        BY <1>s, <2>1 DEF Step
      <3>4. {"config", "step"} \subseteq DOMAIN a /\ c.server \in Texts /\ c.share \in Texts
        BY <3>3 DEF SmbJob
      <3>5. {"config", "step"} \subseteq DOMAIN b /\ b.config = c
        BY <3>4
      <3>6. x.what = "done" /\ x.arg = b
        BY <3>3
      <3>7. Trusted(b.config, dev'.accepted)
        BY <3>1, <3>5 DEF Trusted
      <3>8. SmbJob(x, dev'.accepted)
        BY <3>4, <3>5, <3>6, <3>7 DEF SmbJob
      <3>9. jobs' = [jobs EXCEPT ![j] = x]
        BY <2>3 DEF Goes
      <3> QED
        BY <2>0, <3>1, <3>2, <3>8, <3>9, SmbGoesOn
    <2> QED
      BY <2>1, <2>2, <2>3
  <1>3. CASE ConnectRemember
    <2>0. UNCHANGED <<inbox, win>>
      BY <1>3 DEF ConnectRemember, ThreadStep
    <2>1. PICK j \in DOMAIN jobs :
            /\ Step(j, "remember")
            /\ LET x == jobs[j].arg
               IN dev' = [dev EXCEPT
                            !.secrets = WriteSecret(@, x.config.server, IF x.remember THEN x.config.pw ELSE <<>>),
                            !.hosts = SaveHost(@, x.config.server, [share |-> x.config.share, asDisk |-> x.asDisk,
                                                                    readOnly |-> x.readOnly])]
            /\ Goes(j, "mount")
      BY <1>3 DEF ConnectRemember
    <2> PICK o, a, c : o = jobs[j] /\ a = o.arg /\ c = a.config
      OBVIOUS
    <2> PICK b, x : b = [a EXCEPT !.step = "mount"] /\ x = [o EXCEPT !.arg = b]
      OBVIOUS
    <2> PICK pw, prefs : /\ pw = IF a.remember THEN c.pw ELSE <<>>
                         /\ prefs = [share |-> c.share, asDisk |-> a.asDisk, readOnly |-> a.readOnly]
      OBVIOUS
    <2>2. dev' = [dev EXCEPT !.secrets = WriteSecret(@, c.server, pw), !.hosts = SaveHost(@, c.server, prefs)]
      BY <2>1
    <2>3. o.what = "done" /\ SmbJob(o, dev.accepted) /\ DOMAIN o = {"what", "arg", "ans"}
          /\ o.ans = NoAnswer /\ a.step = "remember"
      BY <1>s, <2>1 DEF Step
    <2>4. {"config", "step"} \subseteq DOMAIN a /\ c.server \in Texts /\ c.share \in Texts /\ Trusted(c, dev.accepted)
      BY <2>3 DEF SmbJob
    <2>5. {"config", "step"} \subseteq DOMAIN b /\ b.config = c
      BY <2>4
    <2>6. x.what = "done" /\ x.arg = b
      BY <2>3
    <2>7. /\ DOMAIN dev' = DOMAIN dev /\ dev'.accepted = dev.accepted /\ dev'.mounts = dev.mounts
          /\ dev'.hosts = SaveHost(dev.hosts, c.server, prefs)
          /\ dev'.secrets = WriteSecret(dev.secrets, c.server, pw)
      BY <2>2 DEF SmbKept, SecretsKnown
    <2>8. HostsAreTexts(dev'.hosts)
      <3>1. prefs.share \in Texts
        BY <2>4
      <3>2. HostsAreTexts(dev.hosts)
        BY DEF SmbKept
      <3> QED
        BY <2>4, <2>7, <3>1, <3>2, HostSaved
    <2>9. SecretsKnown(dev'.secrets, dev.accepted)
      <3>1. pw # <<>> => <<c.server, pw[1]>> \in dev.accepted
        BY <2>4 DEF Trusted
      <3>2. SecretsKnown(dev.secrets, dev.accepted)
        BY DEF SmbKept
      <3>3. dev'.secrets = WriteSecret(dev.secrets, c.server, pw)
        BY <2>7
      <3> QED
        BY <3>1, <3>2, <3>3, SecretWritten, Zenon
    <2>10. SmbKept(dev')
      BY <2>7, <2>8, <2>9 DEF SmbKept
    <2>11. SmbJob(x, dev'.accepted)
      BY <2>4, <2>5, <2>6, <2>7 DEF SmbJob
    <2>12. jobs' = [jobs EXCEPT ![j] = x]
      BY <2>1 DEF Goes
    <2> QED
      BY <2>0, <2>7, <2>10, <2>11, <2>12, SmbGoesOn
  <1>4. CASE ConnectMount
    <2>0. UNCHANGED <<inbox, win>>
      BY <1>4 DEF ConnectMount, ThreadStep
    <2>1. PICK j \in DOMAIN jobs :
            /\ Step(j, "mount")
            /\ LET x == jobs[j].arg
               IN \E m \in Mounted(dev.mounts, x.at, x.config, x.readOnly) :
                    dev' = [dev EXCEPT !.mounts = m] /\ ThreadEnds(j, [ok |-> m # dev.mounts])
      BY <1>4 DEF ConnectMount
    <2> PICK o, a, c : o = jobs[j] /\ a = o.arg /\ c = a.config
      OBVIOUS
    <2>2. PICK m \in Mounted(dev.mounts, a.at, c, a.readOnly) :
             dev' = [dev EXCEPT !.mounts = m] /\ ThreadEnds(j, [ok |-> m # dev.mounts])
      BY <2>1
    <2> PICK r : r = [ok |-> m # dev.mounts]
      OBVIOUS
    <2> PICK x : x = [o EXCEPT !.ans = r]
      OBVIOUS
    <2>3. o.what = "done" /\ SmbJob(o, dev.accepted) /\ DOMAIN o = {"what", "arg", "ans"}
      BY <1>s, <2>1 DEF Step
    <2>4. {"config", "step"} \subseteq DOMAIN a /\ c.server \in Texts /\ c.share \in Texts
      BY <2>3 DEF SmbJob
    <2>5. x.what = "done" /\ x.arg = a /\ x.ans = r
      BY <2>3
    <2>6. r # NoAnswer
      <3>1. DOMAIN r = {"ok"} /\ DOMAIN NoAnswer = {"ok", "none"}
        BY DEF NoAnswer
      <3> QED
        BY <3>1
    <2>7. /\ DOMAIN dev' = DOMAIN dev /\ dev'.accepted = dev.accepted /\ dev'.mounts = m
          /\ dev'.hosts = dev.hosts /\ dev'.secrets = dev.secrets
      BY <2>2 DEF SmbKept, SecretsKnown
    <2>8. AsAsked(m)
      BY <2>4, MountedAsAsked DEF SmbKept, SecretsKnown
    <2>9. SmbKept(dev')
      BY <2>7, <2>8 DEF SmbKept, SecretsKnown
    <2>10. SmbJob(x, dev'.accepted)
      BY <2>4, <2>5, <2>6 DEF SmbJob
    <2>11. jobs' = [jobs EXCEPT ![j] = x]
      BY <2>2 DEF ThreadEnds
    <2> QED
      BY <2>0, <2>7, <2>9, <2>10, <2>11, SmbGoesOn
  <1> QED
    BY <1>1, <1>2, <1>3, <1>4

\* Every step of the mount window keeps its invariant.
LEMMA SmbInvStep == SmbInv /\ BusyInv /\ [Next]_vars => SmbInv'
  <1> SUFFICES ASSUME SmbInv, BusyInv, [Next]_vars, app = "smb"
               PROVE  SmbKept(dev') /\ (phase' = "open" => SmbForm(win') /\ SmbWork')
    BY AppStays DEF SmbInv, SmbKept, SecretsKnown, SmbForm
  <1>0. SmbKept(dev) /\ (phase = "open" => SmbForm(win) /\ SmbWork /\ Mail)
    BY DEF SmbInv, BusyInv, Sound, Viewers
  <1>h. HostsAreTexts(dev.hosts)
    BY <1>0 DEF SmbKept, SecretsKnown
  <1>a. CASE UNCHANGED vars
    BY <1>a, <1>0 DEF vars, SmbWork
  <1>b. CASE PostAnswer
    <2>1. phase = "open" /\ UNCHANGED <<dev, win>>
      BY <1>b DEF PostAnswer
    <2> QED
      BY <1>b, <1>0, <2>1, SmbPosts
  <1>c. CASE CloseWindow
    BY <1>c, <1>0 DEF CloseWindow
  <1>1. CASE SmbMountApp
    <2>0. phase = "start" /\ UNCHANGED <<dev, jobs>>
      BY <1>1 DEF SmbMountApp
    <2>1. jobs = <<>> /\ inbox = <<>>
      BY <2>0 DEF BusyInv, NoWork, Viewers
    <2> PICK m : m = Msg("connect", "none")
      OBVIOUS
    <2>2. PICK server \in Servers \cup {Empty}, share \in Shares :
             /\ win' = ConnectForm(server, share, LoadHost(server))
             /\ inbox' \in {<<m>>, <<>>}
      BY <1>1 DEF SmbMountApp
    <2>3. SmbForm(win')
      <3>1. server \in Texts /\ share \in Texts
        BY DEF Texts
      <3> QED
        BY <1>h, <2>2, <3>1, FormHasTexts
    <2>4. \A x \in Range(inbox') : x = m
      BY <2>2 DEF Range
    <2>5. SmbMsg(m)
      BY DEF SmbMsg, Msg
    <2>6. DOMAIN jobs' = {}
      BY <2>0, <2>1
    <2> QED
      BY <1>0, <2>0, <2>3, <2>4, <2>5, <2>6 DEF SmbWork
  <1>2. CASE SmbPress
    <2> PICK a, b, c, d : /\ a = Msg("connect", "none") /\ b = Msg("enum", "none")
                          /\ c = Msg("unmount", "none") /\ d = Msg("open", "none")
      OBVIOUS
    <2>1. phase = "open" /\ UNCHANGED <<win, jobs, dev>> /\ \E m \in {a, b, c, d} : inbox' = Append(inbox, m)
      BY <1>2 DEF SmbPress, Click, Send
    <2>2. \A m \in {a, b, c, d} : SmbMsg(m)
      BY DEF SmbMsg, Msg
    <2> QED
      BY <1>0, <2>1, <2>2, SmbSends
  <1>3. CASE SmbEdit
    <2>1. phase = "open" /\ UNCHANGED <<jobs, inbox, dev>>
      BY <1>3 DEF SmbEdit, Type
    <2>2. SmbForm(win')
      <3>1. \A s \in Shares : s \in Texts
        BY DEF Texts
      <3> QED
        BY <1>0, <1>3, <2>1, <3>1 DEF SmbEdit, Type, SmbForm
    <2> QED
      BY <1>0, <2>1, <2>2 DEF SmbWork
  <1>4. CASE SmbDoConnect \/ SmbDoEnumShares
    <2>0. phase = "open" /\ inbox # <<>>
      BY <1>4 DEF SmbDoConnect, SmbDoEnumShares, Got
    <2> PICK x, y : /\ x = [step |-> "validate", config |-> Config, at |-> ComputeMountPoint,
                            readOnly |-> win.readOnly, asDisk |-> win.asDisk, remember |-> win.remember \/ win.auto]
                    /\ y = [config |-> Config]
      OBVIOUS
    <2> PICK n, o : n = [what |-> "done", arg |-> x, ans |-> NoAnswer] /\ o = [what |-> "shares", arg |-> y, ans |-> NoAnswer]
      OBVIOUS
    <2>1. SmbJob(n, dev.accepted)
      <3>1. n.what = "done" /\ n.arg = x /\ n.ans = NoAnswer
        OBVIOUS
      <3>2. {"config", "step"} \subseteq DOMAIN x /\ x.config = Config /\ x.step = "validate"
        OBVIOUS
      <3>3. Config.server = win.server /\ Config.share = win.share
        BY DEF Config
      <3> QED
        BY <1>0, <2>0, <3>1, <3>2, <3>3 DEF SmbJob, SmbForm
    <2>2. SmbJob(o, dev.accepted)
      BY DEF SmbJob, SharesAreTexts, NoAnswer
    <2>3. ASSUME NEW w, Handle(w, <<>>), SmbForm(w)
          PROVE  SmbKept(dev') /\ SmbForm(win') /\ SmbWork'
      BY <1>0, <2>0, <2>3, SmbHandles DEF Handle
    <2>4. SmbForm([win EXCEPT !.status = "no server"]) /\ SmbForm([win EXCEPT !.status = "no login"])
          /\ SmbForm([win EXCEPT !.status = "loading", !.busy = TRUE]) /\ SmbForm([win EXCEPT !.status = "error"])
      BY <1>0, <2>0 DEF SmbForm
    <2>5. CASE SmbDoConnect
      <3>1. CASE win.server = Empty
        BY <2>3, <2>4, <2>5, <3>1 DEF SmbDoConnect
      <3>2. CASE win.server # Empty
        <4>1. Spawn(<<"done", x>>) /\ inbox' = Tail(inbox) /\ UNCHANGED dev /\ SmbForm(win')
          BY <2>4, <2>5, <3>2 DEF SmbDoConnect
        <4> PICK js : js = <<"done", x>>
          OBVIOUS
        <4>2. js # <<>> /\ js[1] = "done" /\ js[2] = x
          OBVIOUS
        <4>3. SmbJob([what |-> js[1], arg |-> js[2], ans |-> NoAnswer], dev.accepted)
          BY <2>1, <4>2
        <4> QED
          BY <1>0, <2>0, <4>1, <4>3, SmbTakes
      <3> QED
        BY <3>1, <3>2
    <2>6. CASE SmbDoEnumShares
      <3>1. CASE win.server = Empty \/ win.pw = <<>>
        BY <2>3, <2>4, <2>6, <3>1 DEF SmbDoEnumShares
      <3>2. CASE ~(win.server = Empty \/ win.pw = <<>>)
        <4>1. Spawn(<<"shares", y>>) /\ inbox' = Tail(inbox) /\ UNCHANGED dev /\ SmbForm(win')
          BY <2>4, <2>6, <3>2 DEF SmbDoEnumShares
        <4> PICK js : js = <<"shares", y>>
          OBVIOUS
        <4>2. js # <<>> /\ js[1] = "shares" /\ js[2] = y
          OBVIOUS
        <4>3. SmbJob([what |-> js[1], arg |-> js[2], ans |-> NoAnswer], dev.accepted)
          BY <2>2, <4>2
        <4> QED
          BY <1>0, <2>0, <4>1, <4>3, SmbTakes
      <3> QED
        BY <3>1, <3>2
    <2> QED
      BY <1>4, <2>5, <2>6
  <1>5. CASE SmbSharesReady
    <2>0. phase = "open" /\ inbox # <<>> /\ Head(inbox).what = "shares"
      BY <1>5 DEF SmbSharesReady, Got
    <2>1. SharesAreTexts(arg)
      <3>1. Head(inbox) \in Range(inbox)
        BY <1>0, <2>0, RangeTail DEF Mail
      <3> QED
        BY <1>0, <2>0, <3>1 DEF SmbWork, SmbMsg, arg
    <2>2. \E w : Handle(w, <<>>) /\ SmbForm(w)
      <3>1. CASE ~arg.ok
        <4> PICK w : w = [win EXCEPT !.busy = FALSE, !.status = "error"]
          OBVIOUS
        <4>1. Handle(w, <<>>)
          BY <1>5, <3>1 DEF SmbSharesReady
        <4>2. SmbForm(w)
          BY <1>0, <2>0 DEF SmbForm
        <4> QED
          BY <4>1, <4>2
      <3>2. CASE arg.ok
        <4>1. PICK s \in ShowSharePicker(arg.shares) :
                 Handle([win EXCEPT !.busy = FALSE, !.share = s, !.status = "chosen"], <<>>)
          BY <1>5, <3>2 DEF SmbSharesReady
        <4>2. s \in Texts
          BY <1>0, <2>0, <2>1, <3>2, <4>1 DEF ShowSharePicker, SharesAreTexts, SmbForm
        <4> PICK w : w = [win EXCEPT !.busy = FALSE, !.share = s, !.status = "chosen"]
          OBVIOUS
        <4>3. SmbForm(w)
          BY <1>0, <2>0, <4>2 DEF SmbForm
        <4> QED
          BY <4>1, <4>3
      <3> QED
        BY <3>1, <3>2
    <2> QED
      BY <1>0, <2>0, <2>2, SmbHandles DEF Handle
  <1>6. CASE SmbConnectDone
    <2>0. phase = "open" /\ inbox # <<>>
      BY <1>6 DEF SmbConnectDone, Got
    <2>1. CASE ~arg.ok
      <3> PICK w : w = [win EXCEPT !.busy = FALSE, !.status = "error"]
        OBVIOUS
      <3>1. Handle(w, <<>>)
        BY <1>6, <2>1 DEF SmbConnectDone
      <3>2. SmbForm(w)
        BY <1>0, <2>0 DEF SmbForm
      <3> QED
        BY <1>0, <2>0, <3>1, <3>2, SmbHandles DEF Handle
    <2>2. CASE arg.ok
      <3>1. dev' = [dev EXCEPT !.hook = win.auto] /\ phase' = "quit"
        BY <1>6, <2>2 DEF SmbConnectDone
      <3> QED
        BY <1>0, <3>1 DEF SmbKept, SecretsKnown
    <2> QED
      BY <2>1, <2>2
  <1>7. CASE SmbDoUnmount
    <2>0. phase = "open" /\ inbox # <<>>
      BY <1>7 DEF SmbDoUnmount, Got
    <2> PICK u, v : u = [win EXCEPT !.status = "error"] /\ v = [win EXCEPT !.status = "unmounted"]
      OBVIOUS
    <2> PICK p : p = ComputeMountPoint
      OBVIOUS
    <2> PICK d : d = [dev EXCEPT !.mounts = Restrict(@, DOMAIN @ \ {p})]
      OBVIOUS
    <2>1. SmbForm(u) /\ SmbForm(v)
      BY <1>0, <2>0 DEF SmbForm
    <2>2. d.accepted = dev.accepted /\ SmbKept(d)
      <3>1. /\ DOMAIN d = DOMAIN dev /\ d.accepted = dev.accepted /\ d.hosts = dev.hosts /\ d.secrets = dev.secrets
            /\ d.mounts = Restrict(dev.mounts, DOMAIN dev.mounts \ {p})
        BY <1>0 DEF SmbKept, SecretsKnown
      <3>2. AsAsked(d.mounts)
        BY <1>0, <3>1 DEF SmbKept, SecretsKnown, AsAsked, Restrict
      <3> QED
        BY <1>0, <3>1, <3>2 DEF SmbKept, SecretsKnown
    <2>3. HandleAnd(win, <<>>, dev) \/ HandleAnd(u, <<>>, dev) \/ HandleAnd(v, <<>>, d)
      BY <1>7 DEF SmbDoUnmount, Handle
    <2>4. ASSUME NEW w, SmbForm(w), NEW e, SmbKept(e), e.accepted = dev.accepted, HandleAnd(w, <<>>, e)
          PROVE  SmbKept(dev') /\ SmbForm(win') /\ SmbWork'
      BY <1>0, <2>0, <2>4, SmbHandles
    <2> QED
      BY <1>0, <2>0, <2>1, <2>2, <2>3, <2>4
  <1>8. CASE SmbOpenVolume
    <2>0. phase = "open" /\ inbox # <<>> /\ HandleAnd(win, <<>>, dev)
      BY <1>8 DEF SmbOpenVolume, Got, Handle
    <2> QED
      BY <1>0, <2>0, SmbHandles
  <1>9. CASE EnumThread \/ ConnectValidate \/ ConnectRemember \/ ConnectMount
    <2>1. phase = "open"
      BY <1>9 DEF EnumThread, Works, ConnectValidate, ConnectRemember, ConnectMount, Step
    <2> QED
      BY <1>0, <1>9, <2>1, SmbThreads
  <1>10. CASE SmbLogin
    <2>1. phase' = "start" /\ \E m \in IF dev.hook THEN AutoMountAll(<<>>) ELSE {<<>>} : dev' = [dev EXCEPT !.mounts = m]
      BY <1>10 DEF SmbLogin
    <2>2. PICK m : AsAsked(m) /\ dev' = [dev EXCEPT !.mounts = m]
      <3>1. AsAsked(<<>>)
        BY DEF AsAsked
      <3> QED
        BY <1>h, <2>1, <3>1, LoginMountsAsAsked
    <2> QED
      BY <1>0, <2>1, <2>2 DEF SmbKept, SecretsKnown
  <1>11. CASE SmbRelaunch
    <2>1. phase' = "start" /\ \E q \in Passwords : dev' = [dev EXCEPT !.pw = q]
      BY <1>11 DEF SmbRelaunch
    <2> QED
      BY <1>0, <2>1 DEF SmbKept, SecretsKnown
  <1> QED
    BY <1>a, <1>b, <1>c, <1>1, <1>2, <1>3, <1>4, <1>5, <1>6, <1>7, <1>8, <1>9, <1>10, <1>11, SmbSteps
       DEF SmbNext

-----------------------------------------------------------------------------
(***************************************************************************)
(* The mounted volume.  A handle stands for one open file of one           *)
(* connection, the one it was given out for, and no two for the same.      *)
(***************************************************************************)
FsFields == {"status", "one", "shares", "conns", "fHandles", "opened", "last"}
FsOpenFiles(open) == DOMAIN open = Down /\ \A s \in Down : open[s] \in Seq(Range(open[s]))
FsServer(d) == DOMAIN d = {"files", "open"} /\ FsOpenFiles(d.open)
PointsAt(at, file, open) ==
  /\ at.share \in Down /\ at.local \in 1..Len(open[at.share])
  /\ open[at.share][at.local] = <<file>>
HandlesAreApart(handles) ==
  \A h, k \in DOMAIN handles : h # k => <<handles[h].share, handles[h].local>> # <<handles[k].share, handles[k].local>>
LastIsRight(last, opened) == Len(last) = 2 => last[2] = <<opened[last[1]]>>
FsHandles(handles, opened, open) ==
  /\ opened \in Seq(Range(opened))
  /\ \A h \in DOMAIN handles : h \in 1..Len(opened) /\ PointsAt(handles[h], opened[h], open)
  /\ HandlesAreApart(handles)
FsWindow(w, d) ==
  /\ DOMAIN w = FsFields /\ w.one \in Shares
  /\ FsHandles(w.fHandles, w.opened, d.open)
  /\ LastIsRight(w.last, w.opened)
FsInv == app = "smbfs" => FsServer(dev) /\ (phase = "open" => FsWindow(win, dev))

\* The window as the connection to a share leaves it.
SameFiles(w) == DOMAIN w = FsFields /\ w.one = win.one /\ w.opened = win.opened /\ w.fHandles = win.fHandles
LEMMA Connected ==
  ASSUME FsWindow(win, dev), NEW share, NEW w \in ShareBackend(share), w # <<>> PROVE SameFiles(w[1])
  <1>1. w = <<win>> \/ w = <<[win EXCEPT !.conns = @ \cup {share}]>>
    BY DEF ShareBackend, SmbConnect
  <1> QED
    BY <1>1 DEF SameFiles, FsWindow, FsFields

LEMMA FsSays ==
  ASSUME FsServer(dev), FsWindow(win, dev), NEW w, SameFiles(w), NEW st, NEW x, Says(w, st, x),
         LastIsRight(x, win.opened), DOMAIN dev' = DOMAIN dev, dev'.open = dev.open
  PROVE  FsServer(dev') /\ FsWindow(win', dev')
  <1>1. /\ DOMAIN win' = FsFields /\ win'.one = win.one /\ win'.opened = win.opened
        /\ win'.fHandles = win.fHandles /\ win'.last = x
    BY DEF Says, SameFiles, FsFields
  <1> QED
    BY <1>1 DEF FsServer, FsWindow

FsKeeps == FsServer(dev') /\ FsWindow(win', dev')
LEMMA FsSaysOnly ==
  ASSUME FsServer(dev), FsWindow(win, dev), NEW w, SameFiles(w), NEW st, SaysOnly(w, st)
  PROVE  FsKeeps
  <1>1. LastIsRight(<<>>, win.opened)
    BY DEF LastIsRight
  <1>2. Says(w, st, <<>>) /\ UNCHANGED dev
    BY DEF SaysOnly
  <1> QED
    BY <1>1, <1>2, FsSays DEF FsKeeps
LEMMA FsOnlyNames ==
  ASSUME FsServer(dev), FsWindow(win, dev), NEW w, SameFiles(w), NEW st, Says(w, st, <<>>),
         NEW names, dev' = [dev EXCEPT !.files = names]
  PROVE  FsKeeps
  <1>1. LastIsRight(<<>>, win.opened)
    BY DEF LastIsRight
  <1>2. DOMAIN dev' = DOMAIN dev /\ dev'.open = dev.open
    BY DEF FsServer
  <1> QED
    BY <1>1, <1>2, FsSays DEF FsKeeps

\* A new handle is a number of its own for a file of its own.
OneMore(handles, opened, open, share, file, hs, os, on) ==
  /\ hs = With(handles, Len(opened) + 1, [share |-> share, local |-> Len(open[share]) + 1])
  /\ os = Append(opened, file)
  /\ on = [open EXCEPT ![share] = Append(@, <<file>>)]
LEMMA HandleIsNew ==
  ASSUME NEW handles, NEW opened, NEW open, FsHandles(handles, opened, open), FsOpenFiles(open),
         NEW share \in Down, NEW file, NEW hs, NEW os, NEW on, OneMore(handles, opened, open, share, file, hs, os, on)
  PROVE  FsHandles(hs, os, on) /\ FsOpenFiles(on)
  <1> USE DEF OneMore, FsOpenFiles
  <1> PICK n, k : n = Len(opened) + 1 /\ k = Len(open[share]) + 1
    OBVIOUS
  <1> PICK q : q = open[share]
    OBVIOUS
  <1>f. PICK f : f = <<file>>
    OBVIOUS
  <1> PICK at : at = [share |-> share, local |-> k]
    OBVIOUS
  <1>1. opened \in Seq(Range(opened)) /\ q \in Seq(Range(q))
    BY DEF FsHandles
  <1>2. Len(opened) \in Nat /\ Len(q) \in Nat
    BY <1>1
  <1>3. os \in Seq(Range(opened) \cup {file}) /\ Range(os) = Range(opened) \cup {file}
    BY <1>1, RangeAppend
  <1>4. Append(q, f) \in Seq(Range(q) \cup {f}) /\ Range(Append(q, f)) = Range(q) \cup {f}
    <2> HIDE DEF OneMore, FsOpenFiles
    <2>1. q \in Seq(Range(q))
      BY <1>1
    <2> QED
      BY <2>1, RangeAppend
  <1>5. Len(os) = n /\ os[n] = file /\ \A i \in 1..Len(opened) : os[i] = opened[i]
    BY <1>1, <1>2
  <1>6. Len(Append(q, f)) = k /\ Append(q, f)[k] = f /\ \A i \in 1..Len(q) : Append(q, f)[i] = q[i]
    BY <1>1, <1>2
  <1>7. DOMAIN on = Down /\ on[share] = Append(q, f) /\ \A s \in Down \ {share} : on[s] = open[s]
    BY <1>f
  <1>8. \A s \in Down : on[s] \in Seq(Range(on[s]))
    BY <1>4, <1>7
  <1>9. DOMAIN hs = DOMAIN handles \cup {n} /\ hs[n] = at /\ \A h \in DOMAIN handles \ {n} : hs[h] = handles[h]
    BY DEF With
  <1>10. n \notin DOMAIN handles
    BY <1>2 DEF FsHandles
  <1>11. PointsAt(hs[n], os[n], on) /\ n \in 1..Len(os)
    <2>1. at.share = share /\ at.local = k /\ k \in 1..k /\ n \in 1..n
      BY <1>2
    <2> HIDE DEF OneMore, FsOpenFiles
    <2>2. hs[n].share = share /\ hs[n].local = k
      BY <1>9, <2>1
    <2>3. on[share] = Append(q, f) /\ Len(Append(q, f)) = k /\ Append(q, f)[k] = <<os[n]>>
      BY <1>f, <1>5, <1>6, <1>7
    <2>4. Len(on[share]) = k /\ on[share][k] = <<os[n]>> /\ Len(os) = n
      BY <1>5, <2>3
    <2> QED
      BY <2>1, <2>2, <2>4 DEF PointsAt
  <1>12. ASSUME NEW h \in DOMAIN handles
         PROVE  h \in 1..Len(os) /\ hs[h] = handles[h] /\ PointsAt(hs[h], os[h], on)
    <2>1. h \in 1..Len(opened) /\ PointsAt(handles[h], opened[h], open) /\ hs[h] = handles[h]
      BY <1>9, <1>10 DEF FsHandles
    <2>2. h \in 1..Len(os) /\ os[h] = opened[h]
      BY <1>2, <1>5, <2>1
    <2> PICK s, l : s = handles[h].share /\ l = handles[h].local
      OBVIOUS
    <2>3. s \in Down /\ l \in 1..Len(open[s]) /\ open[s][l] = <<opened[h]>>
      BY <2>1 DEF PointsAt
    <2>4. l \in 1..Len(on[s]) /\ on[s][l] = open[s][l]
      <3>1. CASE s # share
        BY <1>7, <2>3, <3>1
      <3>2. CASE s = share
        <4>1. l \in 1..Len(q) /\ on[s] = Append(q, f)
          BY <1>7, <2>3, <3>2
        <4>2. l \in 1..k
          BY <1>2, <4>1
        <4> QED
          BY <1>6, <3>2, <4>1, <4>2
      <3> QED
        BY <3>1, <3>2
    <2> QED
      BY <2>1, <2>2, <2>3, <2>4 DEF PointsAt
  <1>13. ASSUME NEW h \in DOMAIN handles
         PROVE  <<hs[h].share, hs[h].local>> # <<hs[n].share, hs[n].local>>
    <2>1. at.share = share /\ at.local = k
      OBVIOUS
    <2>2. handles[h].local \in 1..Len(open[handles[h].share])
      BY DEF FsHandles, PointsAt
    <2>3. handles[h].share = share => handles[h].local # k
      BY <1>2, <2>2
    <2> QED
      BY <1>9, <1>12, <2>1, <2>3
  <1>14. HandlesAreApart(hs)
    <2> SUFFICES ASSUME NEW h \in DOMAIN hs, NEW g \in DOMAIN hs, h # g
                 PROVE  <<hs[h].share, hs[h].local>> # <<hs[g].share, hs[g].local>>
      BY DEF HandlesAreApart
    <2>1. CASE h \in DOMAIN handles /\ g \in DOMAIN handles
      BY <1>12, <2>1 DEF FsHandles, HandlesAreApart
    <2>2. CASE h = n /\ g \in DOMAIN handles
      BY <1>13, <2>2
    <2>3. CASE g = n /\ h \in DOMAIN handles
      BY <1>13, <2>3
    <2> QED
      BY <1>9, <2>1, <2>2, <2>3
  <1>15. os \in Seq(Range(os))
    BY <1>3
  <1> QED
    BY <1>8, <1>9, <1>11, <1>12, <1>14, <1>15 DEF FsHandles

LEMMA SeqLen == ASSUME NEW X, NEW s \in Seq(X), NEW n \in Nat, DOMAIN s = 1..n PROVE Len(s) = n
  OBVIOUS
LEMMA SeqByDomain ==
  ASSUME NEW n \in Nat, NEW r, r = [i \in 1..n |-> r[i]]
  PROVE  r \in Seq(Range(r)) /\ Len(r) = n
  <1>1. DOMAIN r = 1..n
    BY Zenon
  <1>2. \A i \in 1..n : r[i] \in Range(r)
    BY <1>1, Zenon DEF Range
  <1>3. r \in [1..n -> Range(r)]
    BY <1>2, Zenon
  <1>4. r \in Seq(Range(r))
    BY <1>3, FunIsSeq, Zenon
  <1> QED
    BY <1>1, <1>4, SeqLen, Zenon
OneLess(handles, open, h, hs, on) ==
  /\ hs = Restrict(handles, DOMAIN handles \ {h})
  /\ on = [open EXCEPT ![handles[h].share][handles[h].local] = <<>>]
LEMMA HandleGone ==
  ASSUME NEW handles, NEW opened, NEW open, FsHandles(handles, opened, open), FsOpenFiles(open),
         NEW h \in DOMAIN handles, NEW hs, NEW on, OneLess(handles, open, h, hs, on)
  PROVE  FsHandles(hs, opened, on) /\ FsOpenFiles(on)
  <1> PICK s, l : s = handles[h].share /\ l = handles[h].local
    OBVIOUS
  <1>6. PICK q, r : q = open[s] /\ r = [q EXCEPT ![l] = <<>>]
    OBVIOUS
  <1>1. s \in Down /\ l \in 1..Len(q) /\ q \in Seq(Range(q))
    BY <1>6 DEF FsHandles, PointsAt, FsOpenFiles
  <1>2. DOMAIN q = 1..Len(q) /\ Len(q) \in Nat
    BY <1>1
  <1>3. on = [open EXCEPT ![s] = r]
    BY <1>6 DEF OneLess
  <1>4. DOMAIN on = Down /\ on[s] = r /\ \A x \in Down \ {s} : on[x] = open[x]
    BY <1>1, <1>3 DEF FsOpenFiles
  <1>5. /\ DOMAIN r = 1..Len(q) /\ r = [i \in 1..Len(q) |-> r[i]]
        /\ \A i \in 1..Len(q) : i # l => r[i] = q[i]
    BY <1>2, <1>6
  <1>7. r \in Seq(Range(r)) /\ Len(r) = Len(q)
    BY <1>2, <1>5, SeqByDomain, Zenon
  <1>8. \A x \in Down : on[x] \in Seq(Range(on[x]))
    BY <1>4, <1>7 DEF FsOpenFiles
  <1>9. DOMAIN hs = DOMAIN handles \ {h} /\ \A g \in DOMAIN hs : hs[g] = handles[g]
    BY DEF OneLess, Restrict
  <1>10. ASSUME NEW g \in DOMAIN hs PROVE g \in 1..Len(opened) /\ PointsAt(hs[g], opened[g], on)
    <2>1. g \in DOMAIN handles /\ g # h /\ hs[g] = handles[g]
      BY <1>9
    <2>2. g \in 1..Len(opened) /\ PointsAt(handles[g], opened[g], open)
      BY <2>1 DEF FsHandles
    <2> PICK x, y : x = handles[g].share /\ y = handles[g].local
      OBVIOUS
    <2>3. x # s \/ y # l
      BY <2>1 DEF FsHandles, HandlesAreApart
    <2>4. x \in Down /\ y \in 1..Len(open[x]) /\ open[x][y] = <<opened[g]>>
      BY <2>2 DEF PointsAt
    <2>5. y \in 1..Len(on[x]) /\ on[x][y] = open[x][y]
      <3>1. CASE x # s
        BY <1>4, <2>4, <3>1
      <3>2. CASE x = s
        BY <1>4, <1>5, <1>6, <1>7, <2>3, <2>4, <3>2
      <3> QED
        BY <3>1, <3>2
    <2> QED
      BY <2>1, <2>2, <2>4, <2>5 DEF PointsAt
  <1>11. HandlesAreApart(hs)
    <2>1. HandlesAreApart(handles)
      BY DEF FsHandles
    <2> SUFFICES ASSUME NEW g \in DOMAIN hs, NEW k \in DOMAIN hs, g # k
                 PROVE  <<hs[g].share, hs[g].local>> # <<hs[k].share, hs[k].local>>
      BY DEF HandlesAreApart
    <2>2. hs[g] = handles[g] /\ hs[k] = handles[k] /\ g \in DOMAIN handles /\ k \in DOMAIN handles
      BY <1>9
    <2> QED
      BY <2>1, <2>2 DEF HandlesAreApart
  <1> QED
    BY <1>4, <1>8, <1>10, <1>11 DEF FsHandles, FsOpenFiles

LEMMA FsSteps == ASSUME app = "smbfs", Next PROVE PostAnswer \/ SmbfsNext
  BY WindowsOwn DEF Next, Viewers, InfoApps, Browsers, SmbWindowsNext

\* Opening, using and closing a handle.
LEMMA FsOpens ==
  ASSUME FsServer(dev), FsWindow(win, dev), NEW w, SameFiles(w), NEW p, p.share \in Down, NEW names,
         NewHandle(w, p, names)
  PROVE  FsKeeps
  <1> PICK n, k, file : n = Len(w.opened) + 1 /\ k = Len(dev.open[p.share]) + 1 /\ file = FileOf(p)
    OBVIOUS
  <1> PICK at : at = [share |-> p.share, local |-> k]
    OBVIOUS
  <1> PICK v : v = [w EXCEPT !.fHandles = With(@, n, at), !.opened = Append(@, file)]
    OBVIOUS
  <1>1. Says(v, "kOk", <<>>) /\ dev' = [dev EXCEPT !.open[p.share] = Append(@, <<file>>), !.files = names]
    BY DEF NewHandle
  <1>2. DOMAIN w = FsFields /\ w.one = win.one /\ w.opened = win.opened /\ w.fHandles = win.fHandles
    BY DEF SameFiles
  <1>3. /\ DOMAIN v = FsFields /\ v.one = win.one /\ v.opened = Append(win.opened, file)
        /\ v.fHandles = With(win.fHandles, n, at)
    BY <1>2 DEF FsFields
  <1>4. /\ DOMAIN win' = FsFields /\ win'.one = win.one /\ win'.opened = Append(win.opened, file)
        /\ win'.fHandles = With(win.fHandles, n, at) /\ win'.last = <<>>
    BY <1>1, <1>3 DEF Says, FsFields
  <1>5. /\ DOMAIN dev' = {"files", "open"}
        /\ dev'.open = [dev.open EXCEPT ![p.share] = Append(@, <<file>>)]
    BY <1>1 DEF FsServer
  <1>7. FsHandles(win'.fHandles, win'.opened, dev'.open) /\ FsOpenFiles(dev'.open)
    <2>1. OneMore(win.fHandles, win.opened, dev.open, p.share, file, win'.fHandles, win'.opened, dev'.open)
      BY <1>2, <1>4, <1>5 DEF OneMore
    <2>2. FsHandles(win.fHandles, win.opened, dev.open) /\ FsOpenFiles(dev.open)
      BY DEF FsWindow, FsServer
    <2> QED
      BY <2>1, <2>2, HandleIsNew
  <1>8. LastIsRight(win'.last, win'.opened)
    BY <1>4 DEF LastIsRight
  <1> QED
    BY <1>4, <1>5, <1>7, <1>8 DEF FsKeeps, FsServer, FsWindow

LEMMA FsTransfers ==
  ASSUME FsServer(dev), FsWindow(win, dev), NEW h \in DOMAIN win.fHandles, SmbTransfer(h)
  PROVE  FsKeeps
  <1>0. SameFiles(win)
    BY DEF SameFiles, FsWindow
  <1>1. CASE SaysOnly(win, "kIoError")
    BY <1>0, <1>1, FsSaysOnly
  <1>2. CASE ~SaysOnly(win, "kIoError")
    <2> PICK f, x : f = dev.open[win.fHandles[h].share][win.fHandles[h].local] /\ x = <<h, f>>
      OBVIOUS
    <2>1. Says(win, "kOk", x) /\ UNCHANGED dev
      BY <1>2 DEF SmbTransfer
    <2>2. f = <<win.opened[h]>>
      BY DEF FsWindow, FsHandles, PointsAt
    <2>3. LastIsRight(x, win.opened)
      BY <2>2 DEF LastIsRight
    <2> QED
      BY <1>0, <2>1, <2>3, FsSays DEF FsKeeps
  <1> QED
    BY <1>1, <1>2

LEMMA FsCloses ==
  ASSUME FsServer(dev), FsWindow(win, dev), NEW h \in DOMAIN win.fHandles, SmbClose(h)
  PROVE  FsKeeps
  <1> PICK s, l : s = win.fHandles[h].share /\ l = win.fHandles[h].local
    OBVIOUS
  <1> PICK v : v = [win EXCEPT !.fHandles = Restrict(@, DOMAIN @ \ {h})]
    OBVIOUS
  <1>1. Says(v, "kOk", <<>>) /\ dev' = [dev EXCEPT !.open[s][l] = <<>>]
    BY DEF SmbClose
  <1>2. DOMAIN v = FsFields /\ v.one = win.one /\ v.opened = win.opened
        /\ v.fHandles = Restrict(win.fHandles, DOMAIN win.fHandles \ {h})
    BY DEF FsWindow, FsFields
  <1>3. /\ DOMAIN win' = FsFields /\ win'.one = win.one /\ win'.opened = win.opened
        /\ win'.fHandles = Restrict(win.fHandles, DOMAIN win.fHandles \ {h}) /\ win'.last = <<>>
    BY <1>1, <1>2 DEF Says, FsFields
  <1>4. DOMAIN dev' = {"files", "open"} /\ dev'.open = [dev.open EXCEPT ![s][l] = <<>>]
    BY <1>1 DEF FsServer
  <1>5. FsHandles(win'.fHandles, win'.opened, dev'.open) /\ FsOpenFiles(dev'.open)
    <2>1. OneLess(win.fHandles, dev.open, h, win'.fHandles, dev'.open)
      BY <1>3, <1>4 DEF OneLess
    <2>2. FsHandles(win.fHandles, win.opened, dev.open) /\ FsOpenFiles(dev.open)
      BY DEF FsWindow, FsServer
    <2> QED
      BY <1>3, <2>1, <2>2, HandleGone
  <1>6. LastIsRight(win'.last, win'.opened)
    BY <1>3 DEF LastIsRight
  <1> QED
    BY <1>3, <1>4, <1>5, <1>6 DEF FsKeeps, FsServer, FsWindow

\* A path that is not answered at the top level lies on a share.
LEMMA PathOnShare ==
  ASSUME win.one \in Shares, NEW path \in FsPaths, NEW p, p = SplitServerPath(path), ~TopLevel(p)
  PROVE  p.share \in Down
  <1>1. CASE win.one # Empty
    BY <1>1 DEF SplitServerPath, Down
  <1>2. CASE win.one = Empty
    <2>1. p.rest # <<>>
      BY <1>2 DEF TopLevel
    <2>2. path # <<>> /\ p.share = path[1]
      BY <1>2, <2>1 DEF SplitServerPath
    <2> QED
      BY <1>2, <2>2 DEF FsPaths
  <1> QED
    BY <1>1, <1>2

\* Every step of the mounted volume keeps its invariant.
LEMMA FsInvStep == FsInv /\ [Next]_vars => FsInv'
  <1> SUFFICES ASSUME FsInv, [Next]_vars, app = "smbfs"
               PROVE  FsServer(dev') /\ (phase' = "open" => FsWindow(win', dev'))
    BY AppStays DEF FsInv, FsServer, FsWindow
  <1>0. FsServer(dev) /\ (phase = "open" => FsWindow(win, dev))
    BY DEF FsInv
  <1>a. CASE UNCHANGED vars
    BY <1>a, <1>0 DEF vars
  <1>b. CASE PostAnswer
    BY <1>b, <1>0 DEF PostAnswer
  <1>1. CASE SmbfsMain
    <2>0. UNCHANGED dev /\ (phase' = "open" => \E one \in Shares : win' = Fs(one))
      BY <1>1 DEF SmbfsMain
    <2>1. ASSUME NEW one \in Shares, win' = Fs(one) PROVE FsWindow(win', dev')
      <3>1. /\ DOMAIN win' = FsFields /\ win'.one = one /\ win'.fHandles = <<>> /\ win'.opened = <<>>
            /\ win'.last = <<>>
        BY <2>1 DEF Fs, FsFields
      <3>2. FsHandles(<<>>, <<>>, dev'.open)
        <4>1. <<>> \in Seq(Range(<<>>)) /\ DOMAIN <<>> = {}
          OBVIOUS
        <4> QED
          BY <4>1 DEF FsHandles, HandlesAreApart
      <3>3. LastIsRight(<<>>, <<>>)
        BY DEF LastIsRight
      <3> QED
        BY <3>1, <3>2, <3>3 DEF FsWindow
    <2> QED
      BY <1>0, <2>0, <2>1
  <1>2. CASE FsDisconnect
    <2>1. phase = "open" /\ phase' = "quit"
          /\ dev' = [dev EXCEPT !.open = [s \in Down |-> IF s \in win.conns THEN <<>> ELSE @[s]]]
      BY <1>2 DEF FsDisconnect
    <2>2. /\ DOMAIN dev' = {"files", "open"}
          /\ dev'.open = [s \in Down |-> IF s \in win.conns THEN <<>> ELSE dev.open[s]]
      BY <1>0, <2>1 DEF FsServer
    <2>3. <<>> \in Seq(Range(<<>>))
      OBVIOUS
    <2> QED
      BY <1>0, <2>1, <2>2, <2>3 DEF FsServer, FsOpenFiles
  <1>3. ASSUME SmbfsNext, Called, ~FsDisconnect, ~SmbfsMain PROVE FsKeeps
    <2>0. phase = "open" /\ FsWindow(win, dev) /\ SameFiles(win) /\ win.one \in Shares
      BY <1>0, <1>3 DEF Called, FsWindow, SameFiles
    <2>s. \A st : SaysOnly(win, st) => FsKeeps
      BY <1>0, <2>0, FsSaysOnly
    <2>w. ASSUME NEW sh, NEW w \in ShareBackend(sh), w # <<>> PROVE SameFiles(w[1])
      BY <2>0, <2>w, Connected
    <2>o. \A w, st : SameFiles(w) /\ SaysOnly(w, st) => FsKeeps
      BY <1>0, <2>0, FsSaysOnly
    <2>c. ASSUME NEW w, SameFiles(w), NEW escapes, NEW names, SmbChange(w, escapes, names) PROVE FsKeeps
      BY <1>0, <2>0, <2>o, <2>c, FsOnlyNames DEF SmbChange
    <2>1. CASE FsStat
      BY <2>s, <2>w, <2>o, <2>1 DEF FsStat, OnShare, SmbStat
    <2>2. CASE FsReadDir
      <3>1. ASSUME Says(win, "kOk", <<win.shares>>), UNCHANGED dev PROVE FsKeeps
        <4>1. LastIsRight(<<win.shares>>, win.opened)
          BY DEF LastIsRight
        <4> QED
          BY <1>0, <2>0, <3>1, <4>1, FsSays DEF FsKeeps
      <3> QED
        BY <2>s, <2>w, <2>o, <2>2, <3>1 DEF FsReadDir, OnShare, SmbReadDir
    <2>3. ASSUME NEW path \in FsPaths, NEW p, p = SplitServerPath(path), ~TopLevel(p),
                 OnShare(p.share, LAMBDA w : SmbOpen(w, p)) \/ OnShare(p.share, LAMBDA w : SmbOpenWrite(w, p))
          PROVE  FsKeeps
      <3>1. p.share \in Down
        BY <2>0, <2>3, PathOnShare
      <3>2. PICK w \in ShareBackend(p.share) : IF w = <<>> THEN SaysOnly(win, "kAccessDenied")
                                               ELSE SmbOpen(w[1], p) \/ SmbOpenWrite(w[1], p)
        BY <2>3 DEF OnShare
      <3>3. CASE w = <<>>
        BY <2>s, <3>2, <3>3
      <3>4. CASE w # <<>>
        <4> PICK v : v = w[1]
          OBVIOUS
        <4>1. SameFiles(v) /\ (SmbOpen(v, p) \/ SmbOpenWrite(v, p))
          BY <2>w, <3>2, <3>4
        <4>2. (\E st : SaysOnly(v, st)) \/ \E names : NewHandle(v, p, names)
          BY <4>1 DEF SmbOpen, SmbOpenWrite
        <4> QED
          BY <1>0, <2>0, <2>o, <3>1, <4>1, <4>2, FsOpens
      <3> QED
        BY <3>3, <3>4
    <2>4. CASE FsOpen
      <3> PICK path \in FsPaths : LET p == SplitServerPath(path)
                                  IN IF TopLevel(p) THEN SaysOnly(win, "kIsADirectory")
                                     ELSE OnShare(p.share, LAMBDA w : SmbOpen(w, p))
        BY <2>4 DEF FsOpen
      <3> QED
        BY <2>s, <2>3
    <2>5. CASE FsOpenWrite
      <3> PICK path \in FsPaths : LET p == SplitServerPath(path)
                                  IN IF TopLevel(p) THEN SaysOnly(win, "kIsADirectory")
                                     ELSE OnShare(p.share, LAMBDA w : SmbOpenWrite(w, p))
        BY <2>5 DEF FsOpenWrite
      <3> QED
        BY <2>s, <2>3
    <2>6. CASE FsRead \/ FsWrite \/ FsClose
      <3>1. \E h : IF h \in DOMAIN win.fHandles THEN SmbTransfer(h) \/ SmbClose(h) ELSE SaysOnly(win, "kBadHandle")
        BY <2>6 DEF FsRead, FsWrite, FsClose, FsOnHandle, SmbRead, SmbWrite
      <3> QED
        BY <1>0, <2>0, <2>s, <3>1, FsTransfers, FsCloses
    <2>7. CASE FsMkdir
      BY <2>s, <2>w, <2>c, <2>7 DEF FsMkdir, FsChange, OnShare, SmbMkdir
    <2>8. CASE FsUnlink
      BY <2>s, <2>w, <2>c, <2>8 DEF FsUnlink, FsChange, OnShare, SmbUnlink
    <2>9. CASE FsTruncate
      BY <2>s, <2>w, <2>c, <2>9 DEF FsTruncate, FsChange, OnShare, SmbTruncate
    <2>10. CASE FsRename
      BY <2>s, <2>w, <2>c, <2>10 DEF FsRename, OnShare, SmbRename
    <2>11. FsStat \/ FsReadDir \/ FsOpen \/ FsOpenWrite \/ FsRead \/ FsWrite \/ FsClose
           \/ FsMkdir \/ FsUnlink \/ FsTruncate \/ FsRename
      BY <1>3 DEF SmbfsNext
    <2> QED
      BY <2>1, <2>2, <2>4, <2>5, <2>6, <2>7, <2>8, <2>9, <2>10, <2>11
  <1>4. SmbfsNext => Called \/ SmbfsMain \/ FsDisconnect
    BY DEF SmbfsNext, FsStat, FsReadDir, FsOpen, FsOpenWrite, FsRead, FsWrite, FsClose, FsOnHandle, FsMkdir,
           FsUnlink, FsTruncate, FsChange, FsRename
  <1> QED
    BY <1>a, <1>b, <1>1, <1>2, <1>3, <1>4, FsSteps DEF FsKeeps

-----------------------------------------------------------------------------
LEMMA VolumesStart == Init => SmbInv /\ FsInv
  <1> SUFFICES ASSUME Init PROVE SmbInv /\ FsInv
    OBVIOUS
  <1>1. /\ app = "smb" => phase = "start" /\ dev = SmbWorld
        /\ app = "smbfs" => phase = "start" /\ dev = FsWorld
    BY
       DEF Init, ShareInit, OfficeInit, HomeInit, ShellyInit, SpotifyInit, InfoInit, FireTvInit, CameraInit,
           SmbInit,
           CastInit, WonInit, AppInit, InfoApps, Viewers
  <1>2. SmbKept(SmbWorld)
    <2>1. /\ DOMAIN SmbWorld = {"pw", "hosts", "secrets", "accepted", "hook", "mounts"}
          /\ SmbWorld.hosts = <<>> /\ SmbWorld.secrets = <<>> /\ SmbWorld.mounts = <<>>
      BY DEF SmbWorld
    <2>2. <<>> \in Seq(Range(<<>>)) /\ Range(<<>>) = {} /\ DOMAIN <<>> = {}
      BY DEF Range
    <2> QED
      BY <2>1, <2>2 DEF SmbKept, SecretsKnown, AsAsked, HostsAreTexts
  <1>3. FsServer(FsWorld)
    <2>1. DOMAIN FsWorld = {"files", "open"} /\ FsWorld.open = [s \in Down |-> <<>>]
      BY DEF FsWorld
    <2>2. <<>> \in Seq(Range(<<>>))
      OBVIOUS
    <2> QED
      BY <2>1, <2>2 DEF FsServer, FsOpenFiles
  <1> QED
    BY <1>1, <1>2, <1>3 DEF SmbInv, FsInv

\* What ConnectThread and AutoMountAll mount is the share of the server that was asked
\* for, although it went through the mount parameters; a password is kept in smb_secrets
\* only if a server has accepted it; and a handle of the mounted volume reads the file it
\* was opened on.
THEOREM VolumesAreAsAsked == Spec => []VolumeIsAsAsked
  <1>1. SmbInv /\ FsInv => VolumeIsAsAsked
    BY DEF SmbInv, FsInv, SmbKept, SecretsKnown, AsAsked, FsWindow, LastIsRight, VolumeIsAsAsked
  <1>2. Init => BusyInv
    BY DEF Init, ShareInit, OfficeInit, HomeInit, ShellyInit, SpotifyInit, InfoInit, FireTvInit,
           CameraInit, SmbInit, CastInit, WonInit, AppInit, BusyInv, NoWork
  <1> QED
    BY <1>1, <1>2, VolumesStart, SmbInvStep, FsInvStep, BusyInvStep, PTL DEF Spec
=============================================================================
