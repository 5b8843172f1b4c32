---------------------------- MODULE HomeWindows ----------------------------
(***************************************************************************)
(* Lamps behind a Philips Hue bridge and a Daikin air conditioner: windows *)
(* that write to the device, and read it again to show what became of it.  *)
(***************************************************************************)
EXTENDS DeviceApp

(***************************************************************************)
(* Hue.  dev is the bridge (the lamp, the application key it accepts) and  *)
(* the key file of the settings directory.  The bridge hands out the key   *)
(* "good"; "old" is a key from before it was reset.                        *)
(***************************************************************************)
HueReplies == {200, 0, 403}
HueHttpsRequest(key) == {st \in HueReplies : st = 200 => key = "good"}
HuePair(x) ==                    \* the link button was pressed in time, or there is no key
  {[key |-> k] : k \in {"", "good"}}
HueListLights(x) ==
  {[rows |-> IF st = 200 THEN <<dev.lamp>> ELSE <<>>] : st \in HueHttpsRequest(x.key)}
HueSet(x) == {[ok |-> st = 200] : st \in HueHttpsRequest(x.key)}  \* SetOn, SetBrightness
HueEffect(x, r) == IF r.ok THEN [dev EXCEPT !.lamp[x.kind] = x.value] ELSE dev

HuePairThread == Works("hue", "pair", HuePair, Reads)
HueListThread == Works("hue", "lights", HueListLights, Reads)
HueSetThread == Works("hue", "set", HueSet, HueEffect)

HueLoadKey == dev.saved
HueSaveKey(k) == [dev EXCEPT !.saved = k]

HueStartListing(k) == <<"lights", [key |-> k]>>
HueBuildPairing == [page |-> "pairing", status |-> "host", fKey |-> "", rows |-> <<>>]
HueBuildLights(k, rows, st) == [page |-> "lights", status |-> st, fKey |-> k, rows |-> rows]
HueWindow ==
  IF HueLoadKey = "" THEN HueBuildPairing ELSE HueBuildLights(HueLoadKey, <<>>, "loading")
HueApp ==
  Launch("hue", HueWindow, IF HueLoadKey = "" THEN <<>> ELSE HueStartListing(HueLoadKey))

HuePairButton == Got("hue", "abbina") /\ Handle(Loading(win), <<"pair", [key |-> ""]>>)

HuePairDone ==
  /\ Got("hue", "pair")
  /\ IF arg.key = "" THEN Handle([win EXCEPT !.status = "error"], <<>>)
     ELSE HandleAnd(HueBuildLights(arg.key, <<>>, "loading"), HueStartListing(arg.key),
                    HueSaveKey(arg.key))

HueRefresh == Got("hue", "refresh") /\ Handle(Loading(win), HueStartListing(win.fKey))

HueLightsReady ==
  /\ Got("hue", "lights")
  /\ Handle(HueBuildLights(win.fKey, arg.rows, IF arg.rows = <<>> THEN "error" ELSE "ready"), <<>>)

(* The row's button holds the opposite of the state it was built with; the  *)
(* slider sends its value.                                                  *)
HueToggle ==
  /\ Got("hue", "toggle")
  /\ Handle(win, <<"set", [key |-> win.fKey, kind |-> "on", value |-> arg]>>)
HueBright ==
  /\ Got("hue", "bright")
  /\ Handle(win, <<"set", [key |-> win.fKey, kind |-> "bri", value |-> arg]>>)

HueCmdDone ==
  /\ Got("hue", "set")
  /\ IF arg.ok THEN Handle(win, HueStartListing(win.fKey))
     ELSE Handle([win EXCEPT !.status = "error"], <<>>)

HueButtons ==
  /\ app = "hue" /\ phase = "open"
  /\ \/ win.page = "pairing" /\ Click("hue", "abbina")
     \/ win.page = "lights" /\ Click("hue", "refresh")
     \/ \E l \in Range(win.rows) :
          Send("hue", Msg("toggle", ~l.on), win)
     \/ win.rows # <<>> /\ \E b \in {0, 100} :
          Send("hue", Msg("bright", b), win)

HueNext ==
  \/ HueApp \/ HuePairThread \/ HueListThread \/ HueSetThread \/ HueButtons
  \/ HuePairButton \/ HuePairDone \/ HueRefresh \/ HueLightsReady
  \/ HueToggle \/ HueBright \/ HueCmdDone

-----------------------------------------------------------------------------
(***************************************************************************)
(* Daikin.  A temperature is counted in half degrees: 0 is the empty       *)
(* string, 1 the marker "M" of the modes without a target, dehumidify (2)  *)
(* and fan (6).  A command carries the whole control state, taken from     *)
(* fControl, the last one read.                                            *)
(***************************************************************************)
TempMin == 32
TempMax == 60
NumericTemp(t) == t > 1
NoControl == [pow |-> 0, mode |-> 0, stemp |-> 0]     \* ControlInfo as constructed
Controls == {[pow |-> 1, mode |-> 3, stemp |-> 59], [pow |-> 1, mode |-> 6, stemp |-> 1]}

DaikinHttpGet == {200, 0}
DaikinGetBasicInfo == DaikinHttpGet
DaikinGetControlInfo(st) == IF st = 200 THEN dev ELSE NoControl
DaikinGetSensorInfo == DaikinHttpGet
DaikinInfo(x) ==                 \* ok when any of the three requests was answered
  {[ok |-> 200 \in {b, c, s}, control |-> DaikinGetControlInfo(c), known |-> c = 200]
     : b \in DaikinGetBasicInfo, c \in DaikinHttpGet, s \in DaikinGetSensorInfo}
DaikinSetControlInfo(x) == {[ok |-> st = 200] : st \in DaikinHttpGet}
DaikinEffect(x, r) == IF r.ok THEN x ELSE dev

DaikinInfoThread == Works("daikin", "info", DaikinInfo, Reads)
DaikinSetThread == Works("daikin", "set", DaikinSetControlInfo, DaikinEffect)

DaikinStartInfo == <<"info", NoControl>>
DaikinWindow == [status |-> "loading", fHave |-> FALSE, fControl |-> NoControl, tempButtons |-> TRUE]
DaikinApp == Launch("daikin", DaikinWindow, DaikinStartInfo)

DaikinApplySet(c) ==
  Handle(Sending(win),
         <<"set", IF (c.mode \in {2, 6} /\ NumericTemp(c.stemp)) \/ c.stemp = 0
                  THEN [c EXCEPT !.stemp = 1] ELSE c>>)

DaikinUpdateViews(w) == [w EXCEPT !.tempButtons = NumericTemp(w.fControl.stemp)]

DaikinRefresh == Got("daikin", "refresh") /\ Handle(Loading(win), DaikinStartInfo)

DaikinInfoReady ==
  /\ Got("daikin", "info")
  /\ IF arg.ok
     THEN Handle(DaikinUpdateViews([win EXCEPT !.fControl = arg.control, !.fHave = TRUE,
                                               !.status = "ready"]), <<>>)
     ELSE Handle([win EXCEPT !.status = "error"], <<>>)

DaikinPower ==
  /\ Got("daikin", "power")
  /\ IF win.fHave THEN DaikinApplySet([win.fControl EXCEPT !.pow = 1 - @]) ELSE Handle(win, <<>>)
DaikinMode ==                    \* choosing a mode turns the unit on
  /\ Got("daikin", "mode")
  /\ IF win.fHave THEN DaikinApplySet([win.fControl EXCEPT !.pow = 1, !.mode = arg])
     ELSE Handle(win, <<>>)
DaikinFan ==                     \* the fan's rate is left out of the control state
  /\ Got("daikin", "fan")
  /\ IF win.fHave THEN DaikinApplySet(win.fControl) ELSE Handle(win, <<>>)
DaikinTemp ==
  /\ Got("daikin", "temp")
  /\ IF ~win.fHave \/ ~NumericTemp(win.fControl.stemp) THEN Handle(win, <<>>)
     ELSE LET t == win.fControl.stemp + (IF arg = "up" THEN 1 ELSE 0)
                                      - (IF arg = "down" THEN 1 ELSE 0)
          IN DaikinApplySet([win.fControl EXCEPT
               !.stemp = IF t < TempMin THEN TempMin ELSE IF t > TempMax THEN TempMax ELSE t])

DaikinSetDone ==
  /\ Got("daikin", "set")
  /\ Handle([win EXCEPT !.status = IF arg.ok THEN "loading" ELSE "error"],
            IF arg.ok THEN DaikinStartInfo ELSE <<>>)

DaikinButtons ==
  /\ app = "daikin" /\ phase = "open"
  /\ \/ Click("daikin", "refresh") \/ Click("daikin", "power") \/ Click("daikin", "fan")
     \/ \E m \in {2, 3} : Send("daikin", Msg("mode", m), win)
     \/ win.tempButtons /\ \E d \in {"up", "down"} : Send("daikin", Msg("temp", d), win)

DaikinNext ==
  \/ DaikinApp \/ DaikinInfoThread \/ DaikinSetThread \/ DaikinButtons
  \/ DaikinRefresh \/ DaikinInfoReady \/ DaikinPower \/ DaikinMode \/ DaikinFan
  \/ DaikinTemp \/ DaikinSetDone

-----------------------------------------------------------------------------
HomeInit ==
  \/ /\ "hue" \in Apps
     /\ \E k \in {"", "old", "good"} :
          AppInit("hue", [lamp |-> [on |-> FALSE, bri |-> 100], saved |-> k])
  \/ /\ "daikin" \in Apps
     /\ \E c \in Controls : AppInit("daikin", c)
HomeNext == HueNext \/ DaikinNext
=============================================================================
