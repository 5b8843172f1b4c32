---------------------------- MODULE FireTvWindow ----------------------------
(***************************************************************************)
(* The Fire TV remote control: a page that pairs with a PIN, then the      *)
(* remote, whose buttons and keys each start a job, and a second window in *)
(* which the keys are mapped, with a looper of its own and a copy of the   *)
(* key map.                                                                *)
(*                                                                         *)
(* dev is the television (the PIN it shows, the token it accepts) and the  *)
(* settings: the token file and the key-map file, <<>> when there is none. *)
(***************************************************************************)
EXTENDS DeviceApp

CONSTANTS
  MapActions,   \* the commands that can have a key (12 of them)
  Keys          \* the keys of the keyboard

NoKey == 0
ASSUME FireTvAssumption == NoKey \notin Keys /\ Keys \subseteq Nat

(***************************************************************************)
(* KeyMap.  A saved file is authoritative: what it does not name has no    *)
(* key.                                                                    *)
(***************************************************************************)
Defaults == CHOOSE f \in [MapActions -> Keys \cup {NoKey}] : \A a, b \in MapActions : f[a] = f[b] => a = b
KeymapLoad == IF dev.keymap = <<>> THEN Defaults ELSE dev.keymap[1]
KeymapSave(keys) == [dev EXCEPT !.keymap = <<keys>>]
ActionsForKey(keys, k) == {a \in MapActions : k # NoKey /\ keys[a] = k}
Bind(keys, a, k) ==              \* a key binds to at most one action
  [x \in MapActions |-> IF x = a THEN k ELSE IF keys[x] = k THEN NoKey ELSE keys[x]]

LoadToken == dev.saved
SaveToken(d) == [d EXCEPT !.saved = d.token]

(***************************************************************************)
(* FireTVRemote: a plain request wakes the television, the others are      *)
(* answered to the token it gave out; 500 counts as done for a key.        *)
(***************************************************************************)
PlainHttp == {0, 200, 201, 204, 404}
HttpsPost(token) == {st \in {0, 200, 401, 500} : st \in {200, 500} => token = dev.token}
Wake(st) == st \in {200, 201, 204}
Nav(st) == st \in {200, 500}     \* Media, Launch and Text too
RunCmd(x) ==
  IF x.kind = "wake" THEN {[ok |-> Wake(st)] : st \in PlainHttp}
  ELSE {[ok |-> Nav(st)] : st \in HttpsPost(x.token)}
RequestPin == {TRUE, FALSE}
VerifyPin(pin) == IF pin = dev.pin THEN {TRUE, FALSE} ELSE {FALSE}

FireTvSendThread == Works("firetv", "cmd", RunCmd, Reads)

SendCmd(w, kind) == <<"cmd", [kind |-> kind, token |-> w.token]>>
SendStatus == IF Started THEN "sending" ELSE "error"

-----------------------------------------------------------------------------
BuildPairing == [page |-> "pairing", status |-> "host", token |-> FALSE, keys |-> Defaults,
                 km |-> FALSE, kmPtr |-> FALSE, kmKeys |-> Defaults, armed |-> {}]
BuildRemote(w, token) ==         \* it wakes the television on opening
  [w EXCEPT !.page = "remote", !.token = token, !.keys = KeymapLoad, !.status = SendStatus]

FireTvApp ==
  IF LoadToken THEN Launch("firetv", BuildRemote(BuildPairing, TRUE), SendCmd([token |-> TRUE], "wake"))
  ELSE Launch("firetv", BuildPairing, <<>>)

(***************************************************************************)
(* Pairing.  The looper itself talks to the television.  A message of the  *)
(* pairing page that is handled when the page is gone reads controls that  *)
(* were deleted: the program ends, or goes on with whatever text is there. *)
(***************************************************************************)
Dangling(what) ==
  /\ Got("firetv", what) /\ win.page = "remote"
  /\ \/ Handle(win, <<>>)
     \/ /\ phase' = "quit" /\ win' = NoWindow /\ jobs' = <<>> /\ inbox' = <<>>
        /\ UNCHANGED <<app, dev, lost, clicks, changes, served>>

FireTvPairShow ==
  /\ Got("firetv", "pairshow") /\ win.page = "pairing"
  /\ \E ok \in RequestPin :
       HandleAnd([win EXCEPT !.status = IF ok THEN "shown" ELSE "error"], <<>>,
                 [dev EXCEPT !.pin = IF ok THEN 1 ELSE @])

FireTvPairOk ==
  /\ Got("firetv", "pairok") /\ win.page = "pairing"
  /\ \E ok \in VerifyPin(arg) :
       IF ok THEN HandleAnd(BuildRemote(win, TRUE), SendCmd([token |-> TRUE], "wake"),
                            SaveToken([dev EXCEPT !.token = TRUE]))
       ELSE Handle([win EXCEPT !.status = "badpin"], <<>>)

(***************************************************************************)
(* The remote: a press of a button, or of a key that is bound.             *)
(***************************************************************************)
FireTvMouseDown ==
  /\ Got("firetv", "press")
  /\ Handle([win EXCEPT !.status = SendStatus], SendCmd(win, arg))
FireTvKeyDown ==
  /\ Got("firetv", "key")
  /\ IF ActionsForKey(win.keys, arg) = {} THEN Handle(win, <<>>)
     ELSE Handle([win EXCEPT !.status = SendStatus], SendCmd(win, "nav"))
FireTvCmdDone ==
  /\ Got("firetv", "cmd")
  /\ Handle(IF win.page = "remote" THEN [win EXCEPT !.status = IF arg.ok THEN "done" ELSE "failed"]
            ELSE win, <<>>)

(* The key-mapping window.  km says that it exists, kmPtr that the remote   *)
(* believes so: the two differ from the moment the window closes until its  *)
(* last message is handled, and a request to show it in between reads a     *)
(* window that was deleted.                                                 *)
FireTvOpenKeymap ==
  /\ Got("firetv", "openkm")
  /\ IF win.kmPtr THEN Handle(win, <<>>)
     ELSE Handle([win EXCEPT !.kmPtr = TRUE, !.km = TRUE, !.kmKeys = KeymapLoad, !.armed = {}], <<>>)
FireTvKeymapChanged ==
  Got("firetv", "kmchanged") /\ Handle([win EXCEPT !.keys = KeymapLoad], <<>>)
FireTvKeymapClosed ==
  Got("firetv", "kmclosed") /\ Handle([win EXCEPT !.kmPtr = FALSE], <<>>)

InKeymap == app = "firetv" /\ phase = "open" /\ win.km /\ clicks < MaxClicks[app]
Edited(w) ==                     \* saved, and the remote is told
  /\ win' = w
  /\ dev' = KeymapSave(w.kmKeys)
  /\ inbox' = Append(inbox, Msg("kmchanged", "none"))
  /\ clicks' = clicks + 1
  /\ UNCHANGED <<app, phase, jobs, lost, changes, served>>

KeymapReset == InKeymap /\ Edited([win EXCEPT !.kmKeys = Defaults, !.armed = {}])
KeymapArm ==
  /\ InKeymap
  /\ \E a \in MapActions : win' = [win EXCEPT !.armed = {a}]
  /\ clicks' = clicks + 1
  /\ UNCHANGED <<app, phase, jobs, inbox, dev, lost, changes, served>>
KeymapKeyDown ==
  /\ InKeymap
  /\ \E a \in win.armed, k \in Keys :
       Edited([win EXCEPT !.kmKeys = Bind(@, a, k), !.armed = {}])
KeymapClose ==
  /\ InKeymap
  /\ win' = [win EXCEPT !.km = FALSE]
  /\ inbox' = Append(inbox, Msg("kmclosed", "none"))
  /\ clicks' = clicks + 1
  /\ UNCHANGED <<app, phase, jobs, dev, lost, changes, served>>

FireTvButtons ==
  /\ app = "firetv" /\ phase = "open"
  /\ \/ /\ win.page = "pairing"
        /\ \/ Click("firetv", "pairshow")
           \/ \E pin \in 0..1 : Send("firetv", Msg("pairok", pin), win)
     \/ /\ win.page = "remote"
        /\ \/ \E c \in {"wake", "nav"} : Send("firetv", Msg("press", c), win)
           \/ \E k \in Keys : Send("firetv", Msg("key", k), win)
           \/ Click("firetv", "openkm")

FireTvInit ==
  /\ "firetv" \in Apps
  /\ \E saved \in BOOLEAN :
       AppInit("firetv", [pin |-> 2, token |-> saved, saved |-> saved, keymap |-> <<>>])

FireTvNext ==
  \/ FireTvApp \/ FireTvSendThread \/ FireTvButtons
  \/ FireTvPairShow \/ FireTvPairOk \/ Dangling("pairshow") \/ Dangling("pairok")
  \/ FireTvMouseDown \/ FireTvKeyDown \/ FireTvCmdDone
  \/ FireTvOpenKeymap \/ FireTvKeymapChanged \/ FireTvKeymapClosed
  \/ KeymapReset \/ KeymapArm \/ KeymapKeyDown \/ KeymapClose

=============================================================================
