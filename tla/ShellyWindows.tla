--------------------------- MODULE ShellyWindows ---------------------------
(***************************************************************************)
(* The Shelly plug: a window that polls the device every three seconds and *)
(* switches it, the power graph that can be dragged to the Desktop and     *)
(* polls on its own there ("shellygraph"), and the files both share with   *)
(* the background logger: the watch list and the power log.                *)
(*                                                                         *)
(* dev is the plug (on, its generation), the watch list (host |-> the      *)
(* generation noted for it), what another window of the same program has   *)
(* read of that list and is about to write back, the log (the minutes that *)
(* have a sample), what the logger is about to rewrite it with, the clock. *)
(***************************************************************************)
EXTENDS DeviceApp

CONSTANTS
  GraphSamples,    \* points a live graph keeps (120)
  WindowMinutes,   \* minutes of history the log keeps (2880)
  MaxMinutes       \* bound: minutes that pass

ASSUME ShellyAssumption ==
  GraphSamples \in Nat \ {0} /\ WindowMinutes \in Nat \ {0} /\ MaxMinutes \in [Apps -> Nat]

Nothing == <<>>                  \* of other and kept: <<>>, or one value

(***************************************************************************)
(* ShellyClient: two requests, one for the generation and one for the      *)
(* channels, in the dialect of that generation.  A set call with an        *)
(* unknown generation probes first and takes 1 when the probe fails.       *)
(***************************************************************************)
ShellyHttpGet == {200, 0}                          \* 0: no connection, or none in five seconds
EnsureGen(gen, st) == IF gen >= 1 THEN gen ELSE IF st = 200 THEN dev.gen ELSE 1
FetchInfo(st) == IF st = 200 THEN [ok |-> TRUE, gen |-> dev.gen] ELSE [ok |-> FALSE, gen |-> 0]
FetchChannels(gen, st) == st = 200 /\ gen = dev.gen
SetOn(x) ==
  {[ok |-> EnsureGen(x.gen, p) = dev.gen /\ st = 200] : p \in ShellyHttpGet, st \in ShellyHttpGet}
Refresh(x) ==
  {IF FetchInfo(p).ok /\ FetchChannels(FetchInfo(p).gen, st)
   THEN [ok |-> TRUE, gen |-> FetchInfo(p).gen, on |-> dev.on]
   ELSE Failed : p \in ShellyHttpGet, st \in ShellyHttpGet}
SetEffect(x, r) == IF r.ok THEN [dev EXCEPT !.on = x.on] ELSE dev

ShellyRefreshThread == Works("shelly", "ready", Refresh, Reads)
ShellySetThread == Works("shelly", "set", SetOn, SetEffect)
GraphRefreshThread == Works("shellygraph", "ready", Refresh, Reads)

-----------------------------------------------------------------------------
(* ShellyPowerLog.  AddWatch reads the list and writes it back whole when   *)
(* the entry is new or says more than the old one.                          *)
LoadWatch == dev.watch
AddWatch(list, host, gen) ==
  IF host \notin DOMAIN list \/ (gen > 0 /\ list[host] # gen)
  THEN (host :> gen) @@ list ELSE list
Load(since) == SelectSeq(dev.log, LAMBDA m : m >= since)
HistoryStart == IF dev.now > WindowMinutes THEN dev.now - WindowMinutes ELSE 0

(* The logger: once a minute, when the plug is on its list and answers, a   *)
(* sample is appended; if an old one has to go the log is truncated and     *)
(* written again, in two steps that a reader can come between.              *)
RecordOne ==
  /\ app \in {"shelly", "shellygraph"}
  /\ dev.now < MaxMinutes[app] /\ dev.kept = Nothing
  /\ LET now == dev.now + 1
         cutoff == IF now > WindowMinutes THEN now - WindowMinutes ELSE 0
         log == Append(dev.log, now)
         old == \E i \in DOMAIN log : log[i] < cutoff
     IN \/ dev' = [dev EXCEPT !.now = now]                 \* not watched, or no answer
        \/ /\ "me" \in DOMAIN LoadWatch
           /\ dev' = [dev EXCEPT !.now = now,
                                 !.log = IF old THEN <<>> ELSE log,
                                 !.kept = IF old THEN <<SelectSeq(log, LAMBDA m : m >= cutoff)>>
                                          ELSE Nothing]
  /\ UNCHANGED <<app, phase, win, jobs, inbox, lost, clicks, changes, served>>

Trim ==
  /\ app \in {"shelly", "shellygraph"}
  /\ dev.kept # Nothing
  /\ dev' = [dev EXCEPT !.log = dev.kept[1], !.kept = Nothing]
  /\ UNCHANGED <<app, phase, win, jobs, inbox, lost, clicks, changes, served>>

(* A second instance of the program adds its own plug to the list. *)
OtherWindowReads == DeviceChanges("shelly", {[dev EXCEPT !.other = <<LoadWatch>>]})
OtherWindowWrites ==
  /\ app = "shelly" /\ dev.other # Nothing
  /\ dev' = [dev EXCEPT !.watch = AddWatch(dev.other[1], "other", 1), !.other = Nothing]
  /\ UNCHANGED <<app, phase, win, jobs, inbox, lost, clicks, changes, served>>

-----------------------------------------------------------------------------
(* The graph: the last GraphSamples readings, a gap where there was none.   *)
Push(s, x) == LET t == Append(s, x) IN IF Len(t) > GraphSamples THEN Tail(t) ELSE t
SetHistoryMode(w) ==
  [w EXCEPT !.hist = ~@, !.old = IF w.hist THEN w.old ELSE Load(HistoryStart)]
ReloadHistory(w) == IF w.hist THEN [w EXCEPT !.old = Load(HistoryStart)] ELSE w

ShellyWindow ==
  [status |-> "loading", rows |-> <<>>, gen |-> 0, inFlight |-> Started,
   graph |-> <<>>, hist |-> FALSE, old |-> <<>>]
RefreshJob(w) == <<"ready", [gen |-> w.gen]>>

(* StartRefresh of the window, Poll of the graph: only one job at a time.   *)
StartRefresh(w, d) ==
  IF w.inFlight THEN HandleAnd(w, <<>>, d)
  ELSE HandleAnd([w EXCEPT !.inFlight = Started], RefreshJob(w), d)

ShellyApp ==
  LaunchAnd("shelly", ShellyWindow, <<<<"ready", [gen |-> 0]>>>>,
            [dev EXCEPT !.watch = AddWatch(LoadWatch, "me", 0)])

ShellyTick == Got("shelly", "refresh") /\ StartRefresh(win, dev)

\* Mutant of UpdateFromReady: a poll that failed still counts as in flight.
UpdateFromReadyStuck ==
  /\ Got("shelly", "ready")
  /\ IF arg.ok
     THEN HandleAnd(ReloadHistory([win EXCEPT !.inFlight = FALSE, !.status = "ready",
                                     !.gen = arg.gen, !.rows = <<arg.on>>,
                                     !.graph = Push(win.graph, arg.on)]),
                    <<>>, [dev EXCEPT !.watch = AddWatch(LoadWatch, "me", arg.gen)])
     ELSE Handle([win EXCEPT !.status = "unreachable", !.graph = Push(win.graph, "gap")], <<>>)
UpdateFromReady ==
  /\ Got("shelly", "ready")
  /\ IF arg.ok
     THEN HandleAnd(ReloadHistory([win EXCEPT !.inFlight = FALSE, !.status = "ready",
                                     !.gen = arg.gen, !.rows = <<arg.on>>,
                                     !.graph = Push(win.graph, arg.on)]),
                    <<>>, [dev EXCEPT !.watch = AddWatch(LoadWatch, "me", arg.gen)])
     ELSE Handle([win EXCEPT !.inFlight = FALSE, !.status = "unreachable",
                             !.graph = Push(win.graph, "gap")], <<>>)

ShellyToggle ==
  Got("shelly", "toggle") /\ Handle(Sending(win), <<"set", [gen |-> win.gen, on |-> arg]>>)

ShellyCmdDone ==
  /\ Got("shelly", "set")
  /\ IF arg.ok THEN StartRefresh(win, dev) ELSE Handle([win EXCEPT !.status = "failed"], <<>>)

ShellyOpenWeb == Got("shelly", "web") /\ Handle(win, <<>>)     \* the browser is launched
ShellyHistory == Got("shelly", "history") /\ Handle(SetHistoryMode(win), <<>>)

ShellyButtons ==
  /\ app = "shelly" /\ phase = "open"
  /\ \/ Click("shelly", "refresh") \/ Click("shelly", "web") \/ Click("shelly", "history")
     \/ \E on \in Range(win.rows) : Send("shelly", Msg("toggle", ~on), win)

(* On the Desktop: an archived graph that is attached again polls for itself. *)
Instantiate == Launch("shellygraph", ShellyWindow, <<"ready", [gen |-> 0]>>)
GraphPoll == Got("shellygraph", "tick") /\ StartRefresh(win, dev)
GraphReady ==
  /\ Got("shellygraph", "ready")
  /\ Handle(ReloadHistory([win EXCEPT !.inFlight = FALSE,
                             !.gen = IF arg.ok THEN arg.gen ELSE @,
                             !.status = IF arg.ok THEN "ready" ELSE "unreachable",
                             !.graph = Push(win.graph, IF arg.ok THEN arg.on ELSE "gap")]), <<>>)
GraphMouseDown == Got("shellygraph", "click") /\ Handle(SetHistoryMode(win), <<>>)

-----------------------------------------------------------------------------
ShellyInit ==
  \E a \in Apps \cap {"shelly", "shellygraph"}, g \in 1..2 :
    AppInit(a, [on |-> FALSE, gen |-> g, watch |-> <<>>, other |-> Nothing,
                log |-> <<>>, kept |-> Nothing, now |-> 0])

ShellyNext ==
  \/ ShellyApp \/ ShellyRefreshThread \/ ShellySetThread
  \/ Timer("shelly", "refresh") \/ ShellyButtons
  \/ ShellyTick \/ UpdateFromReady \/ ShellyToggle \/ ShellyCmdDone
  \/ ShellyOpenWeb \/ ShellyHistory
  \/ DeviceChanges("shelly", {[dev EXCEPT !.on = ~@]}) \/ OtherWindowReads \/ OtherWindowWrites
  \/ RecordOne \/ Trim
  \/ Instantiate \/ GraphRefreshThread \/ Timer("shellygraph", "tick")
  \/ Click("shellygraph", "click") \/ GraphPoll \/ GraphReady \/ GraphMouseDown
=============================================================================
