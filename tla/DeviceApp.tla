----------------------------- MODULE DeviceApp -----------------------------
(***************************************************************************)
(* The frame that every device application of optional/ shares: a          *)
(* BApplication that opens a window for the device it is given, a window   *)
(* whose looper takes messages from one queue, and worker threads that     *)
(* talk to the device and post one answer each.  Nothing ties an answer to *)
(* its request, no job is ever cancelled, and the application ends when a  *)
(* window is closed, whatever the threads are doing.                       *)
(*                                                                         *)
(* The modules of the single applications extend this one; `app' says      *)
(* which of them a behaviour is about.  A second window of the same        *)
(* application is the same machine again and shares nothing with the first *)
(* but the end of the application, which CloseWindow allows at any time.   *)
(***************************************************************************)
EXTENDS Naturals, Sequences, FiniteSets, Functions, TLC

CONSTANTS
  Apps,        \* the applications the run looks at
  Recorded,    \* those whose answers are kept in served
  MaxClicks,   \* bound: messages the user sends to each application
  MaxChanges   \* bound: changes of the device that nobody here asked for

ASSUME BoundsAssumption == MaxClicks \in [Apps -> Nat] /\ MaxChanges \in Nat

VARIABLES
  app,      \* the application
  phase,    \* "start" (before ReadyToRun), "open", "quit"
  win,      \* the window's fields
  jobs,     \* worker threads, by number: [what, arg, ans]
  inbox,    \* the looper's queue: [what, arg]
  dev,      \* the state of the device
  lost,     \* a spawn_thread has failed
  clicks,   \* messages sent by the user so far
  changes,  \* changes of the device so far
  served    \* history: the answers the device has given

vars == <<app, phase, win, jobs, inbox, dev, lost, clicks, changes, served>>

NoAnswer == [ok |-> FALSE, none |-> TRUE]
Failed == [ok |-> FALSE]                     \* an answer with ok = false
NoWindow == [status |-> "none"]

(***************************************************************************)
(* spawn_thread and resume_thread: the job starts, or the thread cannot be *)
(* made and the job is dropped without a word (once in a behaviour).       *)
(***************************************************************************)
NewJob(j) == [what |-> j[1], arg |-> j[2], ans |-> NoAnswer]
With(f, x, v) == [y \in DOMAIN f \cup {x} |-> IF y = x THEN v ELSE f[y]]
FreeNumber == CHOOSE n \in 1..Cardinality(DOMAIN jobs) + 1 : n \notin DOMAIN jobs

Spawn(js) ==                     \* js is <<>>, or <<what, arg>>
  IF js = <<>> THEN UNCHANGED <<jobs, lost>>
  ELSE \/ /\ jobs' = With(jobs, FreeNumber, NewJob(js))
          /\ UNCHANGED lost
       \/ /\ ~lost
          /\ lost' = TRUE
          /\ UNCHANGED jobs
SpawnAll(s) ==                   \* the jobs of a constructor
  \/ /\ jobs' = [i \in DOMAIN s |-> NewJob(s[i])]
     /\ UNCHANGED lost
  \/ \E i \in DOMAIN s :
       /\ ~lost
       /\ lost' = TRUE
       /\ jobs' = [n \in DOMAIN s \ {i} |-> NewJob(s[n])]
Started == lost' = lost          \* the thread this step asked for was made

(* RefsReceived and ReadyToRun of every application: a device to show, from *)
(* the attributes of a ref or from the command line, opens the window,      *)
(* whose constructor may start a job; without one an alert is shown and the *)
(* application quits.                                                       *)
LaunchAnd(a, w, s, d) ==         \* d: the device after the constructor
  /\ app = a
  /\ phase = "start"
  /\ \/ /\ phase' = "open"
        /\ SpawnAll(s)
        /\ win' = w
        /\ dev' = d
     \/ /\ phase' = "quit"
        /\ UNCHANGED <<win, jobs, lost, dev>>
  /\ UNCHANGED <<app, inbox, clicks, changes, served>>

Launch(a, w, js) == LaunchAnd(a, w, IF js = <<>> THEN <<>> ELSE <<js>>, dev)

(* The user presses a button, a menu item or a row: the control posts its   *)
(* message to the window.                                                   *)
Msg(w, x) == [what |-> w, arg |-> x]

Send(a, m, w) ==                 \* w: the window after the control's own change
  /\ app = a
  /\ phase = "open"
  /\ clicks < MaxClicks[app]
  /\ inbox' = Append(inbox, m)
  /\ win' = w
  /\ clicks' = clicks + 1
  /\ UNCHANGED <<app, phase, jobs, dev, lost, changes, served>>

Click(a, what) == Send(a, Msg(what, "none"), win)

(* MessageReceived takes the message at the head of the queue; the case for *)
(* `what' sets the window's fields and may start a job.                     *)
Got(a, what) ==
  /\ app = a
  /\ phase = "open"
  /\ inbox # <<>>
  /\ Head(inbox).what = what

arg == Head(inbox).arg

HandleAnd(w, js, d) ==           \* d: the device, when the handler itself changes it
  /\ Spawn(js)
  /\ inbox' = Tail(inbox)
  /\ win' = w
  /\ dev' = d
  /\ UNCHANGED <<app, phase, clicks, changes, served>>

Handle(w, js) == HandleAnd(w, js, dev)

(* What most windows do to their status line, and a read that ends early.  *)
Loading(w) == [w EXCEPT !.status = "loading"]
Sending(w) == [w EXCEPT !.status = "sending"]
FirstOf(s, n) == SubSeq(s, 1, IF n < Len(s) THEN n ELSE Len(s))

(* A BMessageRunner posts its message again and again.  A tick that comes   *)
(* while the one before it is still in the queue is left out.               *)
Timer(a, what) ==
  /\ app = a
  /\ phase = "open"
  /\ \A i \in DOMAIN inbox : inbox[i].what # what
  /\ inbox' = Append(inbox, Msg(what, "none"))
  /\ UNCHANGED <<app, phase, win, jobs, dev, lost, clicks, changes, served>>

(* A worker thread talks to the device: one of the outcomes the client's    *)
(* code can produce, and what it does to the device.                        *)
Works(a, what, Outcomes(_), Effect(_, _)) ==
  /\ app = a
  /\ phase = "open"
  /\ \E j \in DOMAIN jobs :
       /\ jobs[j].what = what
       /\ jobs[j].ans = NoAnswer
       /\ \E r \in Outcomes(jobs[j].arg) :
            /\ jobs' = [jobs EXCEPT ![j].ans = r]
            /\ dev' = Effect(jobs[j].arg, r)
            /\ served' = IF a \in Recorded THEN served \cup {r} ELSE served
  /\ UNCHANGED <<app, phase, win, inbox, lost, clicks, changes>>

(* A job that only reads the device. *)
Reads(x, r) == dev

(* The thread posts its answer and ends.  Two threads may post in an order  *)
(* other than the one in which they asked the device.                       *)
PostAnswer ==
  /\ phase = "open"
  /\ \E j \in DOMAIN jobs :
       /\ jobs[j].ans # NoAnswer
       /\ inbox' = Append(inbox, Msg(jobs[j].what, jobs[j].ans))
       /\ jobs' = Restrict(jobs, DOMAIN jobs \ {j})
  /\ UNCHANGED <<app, phase, win, dev, lost, clicks, changes, served>>

(* QuitRequested of a window ends the application: the threads die with it. *)
CloseWindow ==
  /\ phase = "open"
  /\ phase' = "quit"
  /\ win' = NoWindow
  /\ jobs' = <<>>
  /\ inbox' = <<>>
  /\ UNCHANGED <<app, dev, lost, clicks, changes, served>>

(* The device changes by itself: another client, a hand on the switch. *)
DeviceChanges(a, States) ==
  /\ app = a
  /\ phase = "open"
  /\ changes < MaxChanges
  /\ dev' \in States \ {dev}
  /\ changes' = changes + 1
  /\ UNCHANGED <<app, phase, win, jobs, inbox, lost, clicks, served>>

AppInit(a, d) ==
  /\ app = a
  /\ phase = "start"
  /\ win = NoWindow
  /\ jobs = <<>>
  /\ inbox = <<>>
  /\ dev = d
  /\ lost = FALSE
  /\ clicks = 0
  /\ changes = 0
  /\ served = {}

-----------------------------------------------------------------------------
(* Work that is still to reach the window. *)
Outstanding == jobs # <<>> \/ inbox # <<>>
=============================================================================
