------------------------------ MODULE Devices ------------------------------
(***************************************************************************)
(* The device applications together.  Each of them is a program of its     *)
(* own: a behaviour is one application, the one Init chooses, and `app'    *)
(* never changes.                                                          *)
(***************************************************************************)
EXTENDS ShareWindows, OfficeWindows, HomeWindows, ShellyWindows, MediaWindows,
        InfoWindows, FireTvWindow, CameraWindows, SmbWindows, CastWindow, Neighbourhood

Listers == {"nfs", "afp", "daap", "ipp", "escl", "nut"}
Browsers == {"ftp", "webdav"}

Init ==
  \/ ShareInit \/ OfficeInit \/ HomeInit \/ ShellyInit \/ SpotifyInit \/ InfoInit
  \/ FireTvInit \/ CameraInit \/ SmbInit \/ CastInit \/ WonInit

(* Windows whose destructor waits for their threads close in their own way. *)
Next ==
  \/ PostAnswer
  \/ (app \notin Viewers \cup {"smbfs", "cast"} /\ CloseWindow)
  \/ (app \in Browsers \cup {"nfs", "afp", "daap"} /\ ShareNext)
  \/ (app \in {"ipp", "escl", "nut"} /\ OfficeNext)
  \/ (app \in {"hue", "daikin"} /\ HomeNext)
  \/ (app \in {"shelly", "shellygraph"} /\ ShellyNext)
  \/ (app = "spotify" /\ SpotifyNext)
  \/ (app \in InfoApps /\ InfoNext)
  \/ (app = "firetv" /\ FireTvNext)
  \/ (app \in Viewers \cup {"esphome"} /\ CameraNext)
  \/ (app \in {"smb", "smbfs"} /\ SmbWindowsNext)
  \/ (app = "cast" /\ CastNext)
  \/ (app = "won" /\ WonNext)

(* A looper goes on taking messages, worker threads of the Shelly window    *)
(* end (its HTTP client has a timeout), and a device that is asked again    *)
(* and again answers some day.                                              *)
ShellyLooper ==
  ShellyTick \/ UpdateFromReady \/ ShellyToggle \/ ShellyCmdDone \/ ShellyOpenWeb \/ ShellyHistory
ShellyAnswers ==
  ShellyRefreshThread /\ \E j \in DOMAIN jobs : jobs[j].ans = NoAnswer /\ jobs'[j].ans.ok
Fairness ==
  /\ WF_vars(PostAnswer)
  /\ WF_vars(ShellyApp)
  /\ WF_vars(ShellyLooper)
  /\ WF_vars(Timer("shelly", "refresh"))
  /\ WF_vars(ShellyRefreshThread)
  /\ WF_vars(ShellySetThread)
  /\ SF_vars(ShellyAnswers)
Spec == Init /\ [][Next]_vars /\ Fairness

-----------------------------------------------------------------------------
(* A window that says it is loading or sending has a thread at work or an   *)
(* answer on its way, in every application but the cameras (their reader    *)
(* has no end), whatever was clicked meanwhile and in whatever order        *)
(* answers came: no path leaves the user waiting for something that is not  *)
(* coming.  (A thread that could not be made does: the spawn_thread calls   *)
(* drop the job and leave the text.)  The flags of the neighbourhood        *)
(* browser, which keep its checks from being started twice, do so even      *)
(* then: they are set exactly while one check is running or its answer is   *)
(* in the queue.                                                            *)
BusyMeansWork ==
  /\ (phase = "open" /\ app \notin Viewers
      /\ (win.status \in {"loading", "sending"} \/ (app = "smb" /\ win.busy)))
        => Outstanding \/ lost
  /\ WonOpen => /\ Awaited(1, "statusReady") = IF win.pinging THEN 1 ELSE 0
                /\ Awaited(2, "intelReady") = IF win.intelBusy THEN 1 ELSE 0

(* What a list window shows is blank or one answer of the device, path and  *)
(* rows of the same one, although listings overlap and come in any order:   *)
(* the windows implement Display.                                           *)
NamesOf(rows) == {rows[i].name : i \in DOMAIN rows} \ {".."}
BlankScreen == [blank |-> TRUE]
Shown ==
  CASE phase = "open" /\ app \in Recorded \cap Listers /\ win.entries # <<>> ->
         [rows |-> win.entries]
    [] phase = "open" /\ app \in Recorded \cap Browsers /\ win.entries # <<>> ->
         [path |-> win.path, names |-> NamesOf(win.entries)]
    [] OTHER -> BlankScreen
Answered ==
  {IF app \in Browsers THEN [path |-> r.path, names |-> NamesOf(r.rows)] ELSE [rows |-> r.rows]
     : r \in {x \in served : "rows" \in DOMAIN x}}
D == INSTANCE Display WITH shown <- Shown, served <- Answered
ShowsAnAnswer == D!Spec

(* The Shelly window never has two polls in flight, and after the last      *)
(* click and the last change of the relay it comes to show the relay as it  *)
(* is, although any number of polls and commands failed or crossed; and the *)
(* row of this device comes back to the watch list that another window      *)
(* rewrote from an old copy.                                                *)
PollingCatchesUp ==
  <>[]((app = "shelly" /\ phase = "open") => /\ win.rows = <<dev.on>>
                                            /\ win.status # "sending"
                                            /\ "me" \in DOMAIN dev.watch)

(* What is mounted is the share of the server, with the password and the    *)
(* options, that the form had when Connect was pressed, although it went    *)
(* through the encoding of the mount parameters and back; a password is     *)
(* kept only if a server has accepted it; and a handle of the mounted       *)
(* volume reads from the share and the file it was opened on, whatever was  *)
(* opened, closed, renamed and reconnected since.                           *)
VolumeIsAsAsked ==
  /\ app = "smb" =>
       /\ \A p \in DOMAIN dev.mounts : dev.mounts[p].config = dev.mounts[p].asked
       /\ \A s \in DOMAIN dev.secrets : <<s, dev.secrets[s]>> \in dev.accepted
  /\ (app = "smbfs" /\ phase = "open" /\ Len(win.last) = 2)
       => win.last[2] = <<win.opened[win.last[1]]>>

(* At most one of the screen and the mirror thread sends to the TV, and     *)
(* the screen thread publishes through the server, and under the port, that *)
(* was opened for it, whatever is toggled, cast or picked while it runs.    *)
Senders(s) == {j \in DOMAIN jobs : jobs[j].what = EndOf[s]}
OneSourceOnTheTv ==
  (app = "cast" /\ phase = "open") =>
    /\ Cardinality(UNION {Senders(s) : s \in Sources}) <= 1
    /\ \A j \in Senders("screen") :
         win.server.mode = "buffer" /\ win.server.port = jobs[j].arg.port

(* A range that is there is answered with exactly its bytes and announced   *)
(* with their number, at both ends of the file and past its end.  Nothing   *)
(* of it depends on the state: it is evaluated in the initial states.       *)
Asked(q, size) ==
  {b \in 1..size : CASE q[1] = "from" -> b > q[2]
                     [] q[1] = "span" -> b > q[2] /\ b <= q[3] + 1
                     [] q[1] = "last" -> b > size - q[2]
                     [] OTHER -> TRUE}
RangeIsServed(q, size) ==
  Asked(q, size) # {} =>
    LET r == Respond(q, size)
    IN /\ r.promised = Len(r.body)
       /\ {r.body[i] : i \in DOMAIN r.body} = Asked(q, size)
       /\ \A i \in 2..Len(r.body) : r.body[i] = r.body[i - 1] + 1
RangesAreServed ==
  (app = "cast" /\ phase = "start") => \A size \in 0..4, q \in Requests(5) : RangeIsServed(q, size)
=============================================================================
