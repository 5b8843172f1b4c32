---------------------------- MODULE MediaWindows ----------------------------
(***************************************************************************)
(* Spotify Connect: a probe of the speaker on the local network, and       *)
(* control of it through the account of the user at Spotify.               *)
(*                                                                         *)
(* dev is the speaker and the account: the refresh token that Spotify      *)
(* accepts (it may replace it whenever it is used), the credentials in the *)
(* settings file, whether music plays and whether the speaker is one of    *)
(* the account's.  An AuthState is [client, access, refresh]: a client id  *)
(* is known, an access token is held, the number of the refresh token (0   *)
(* for none).                                                              *)
(***************************************************************************)
EXTENDS DeviceApp

CONSTANT MaxTokens               \* bound: refresh tokens that Spotify gives out

ASSUME SpotifyAssumption == MaxTokens \in Nat \ {0}

NoAuth == [client |-> FALSE, access |-> FALSE, refresh |-> 0]
HasRefresh(auth) == auth.client /\ auth.refresh # 0

LoadAuth == [dev.saved EXCEPT !.access = FALSE]
SaveAuth(d, auth) == [d EXCEPT !.saved = auth]
ClearAuth(d) == [d EXCEPT !.saved = NoAuth]

(***************************************************************************)
(* EnsureToken: an access token that has not run out is used as it is; one *)
(* that has, or was refused by a call, is renewed with the refresh token,  *)
(* and the new credentials are saved.  When the renewal fails the job goes *)
(* home with the tokens it was given.                                      *)
(***************************************************************************)
Kept(auth) == [ok |-> TRUE, auth |-> auth, renewed |-> FALSE]
NoToken(auth) == [ok |-> FALSE, auth |-> auth, renewed |-> FALSE]
Renewed(auth) ==
  {[ok |-> TRUE, auth |-> [auth EXCEPT !.access = TRUE, !.refresh = n], renewed |-> TRUE]
     : n \in {auth.refresh, auth.refresh + 1} \cap 1..MaxTokens}
EnsureToken(auth) ==
  (IF auth.access THEN {Kept(auth)} ELSE {})
  \cup {NoToken(auth)}
  \cup (IF HasRefresh(auth) /\ auth.refresh = dev.valid THEN Renewed(auth) ELSE {})

(* Authorize: the browser comes back to the loopback address in time, with  *)
(* the state that was sent, and the code is exchanged for tokens.           *)
Redirects == [arrives : BOOLEAN, denied : BOOLEAN, sameState : BOOLEAN, exchanged : BOOLEAN]
ServeOneRedirect(r) == r.arrives
Authorize ==
  {IF ServeOneRedirect(r) /\ ~r.denied /\ r.sameState /\ r.exchanged
   THEN [ok |-> TRUE, auth |-> [client |-> TRUE, access |-> TRUE, refresh |-> MaxTokens],
         renewed |-> TRUE]
   ELSE NoToken(NoAuth) : r \in Redirects}

(* Api: a call needs a token and an answer that accepts it. *)
Api(auth) ==
  {[t EXCEPT !.ok = t.ok /\ accepted] : t \in EnsureToken(auth), accepted \in BOOLEAN}

Answer(op, t) ==
  [op |-> op, ok |-> t.ok, auth |-> t.auth, renewed |-> t.renewed,
   matched |-> op = "devices" /\ t.ok /\ dev.mine, playing |-> op = "now" /\ t.ok /\ dev.playing]
Control(x) ==
  {Answer(x.op, t) : t \in IF x.op = "authorize" THEN Authorize ELSE Api(x.auth)}
ControlEffect(x, r) ==
  LET d == IF r.renewed THEN SaveAuth([dev EXCEPT !.valid = r.auth.refresh], r.auth) ELSE dev
  IN CASE r.ok /\ x.op = "playpause" -> [d EXCEPT !.playing = x.play]
       [] r.ok /\ x.op = "transfer" -> [d EXCEPT !.playing = TRUE]
       [] OTHER -> d

GetInfo(x) == {[ok |-> st = 200, name |-> st = 200] : st \in {0, 200, 404}}

SpotifyControlThread == Works("spotify", "control", Control, ControlEffect)
SpotifyProbeThread == Works("spotify", "probe", GetInfo, Reads)

-----------------------------------------------------------------------------
Job(op, auth, play) == <<"control", [op |-> op, auth |-> auth, play |-> play]>>

(* The controls are shown when an account is linked. *)
UpdateAuthUi(w) == [w EXCEPT !.page = IF HasRefresh(w.auth) THEN "control" ELSE "setup"]

SpotifyWindow(port) ==
  UpdateAuthUi([status |-> IF port THEN "loading" ELSE "noport", page |-> "setup",
                auth |-> LoadAuth, named |-> FALSE, matched |-> FALSE, canTransfer |-> FALSE,
                playing |-> FALSE, canConnect |-> TRUE, port |-> port])

(* The constructor starts the probe and, with an account, the search for    *)
(* the speaker in it, both at once.                                         *)
SpotifyStartProbe(port) == IF port THEN <<<<"probe", "none">>>> ELSE <<>>
SpotifyApp ==
  \E port \in BOOLEAN :
    LaunchAnd("spotify", SpotifyWindow(port),
              SpotifyStartProbe(port)
              \o (IF HasRefresh(LoadAuth) THEN <<Job("devices", LoadAuth, TRUE)>> ELSE <<>>),
              dev)

SpotifyInfoReady ==
  /\ Got("spotify", "probe")
  /\ LET w == [win EXCEPT !.status = IF arg.ok THEN "ready" ELSE "error",
                          !.named = @ \/ arg.name]
     IN Handle(w, IF arg.ok /\ HasRefresh(win.auth) /\ w.named
                  THEN Job("devices", win.auth, TRUE) ELSE <<>>)

SpotifyConnect ==
  /\ Got("spotify", "connect")
  /\ IF arg = "noid" THEN Handle([win EXCEPT !.status = "noid"], <<>>)
     ELSE Handle([Loading(win) EXCEPT !.canConnect = FALSE], Job("authorize", win.auth, TRUE))

SpotifyDisconnect ==
  /\ Got("spotify", "disconnect")
  /\ HandleAnd(UpdateAuthUi([win EXCEPT !.auth = NoAuth, !.matched = FALSE,
                               !.canTransfer = FALSE, !.status = "unlinked"]),
               <<>>, ClearAuth(dev))

SpotifyTransfer ==
  /\ Got("spotify", "transfer")
  /\ IF win.matched THEN Handle(Sending(win), Job("transfer", win.auth, TRUE))
     ELSE Handle([win EXCEPT !.status = "error"], <<>>)
SpotifyPlayPause ==
  Got("spotify", "playpause") /\ Handle(Sending(win), Job("playpause", win.auth, ~win.playing))
SpotifySkip ==                   \* next, previous and volume
  Got("spotify", "skip") /\ Handle(Sending(win), Job("skip", win.auth, TRUE))

(* Every answer brings tokens, and those that are there replace the         *)
(* window's; the client id comes only with an authorisation.                *)
WarmAuth(old, new) ==
  [old EXCEPT !.access = @ \/ new.access, !.refresh = IF new.refresh # 0 THEN new.refresh ELSE @]

SpotifyControlDone ==
  /\ Got("spotify", "control")
  /\ LET w == [win EXCEPT !.auth = WarmAuth(@, arg.auth)]
     IN CASE arg.op = "authorize" /\ arg.ok ->
               LET v == UpdateAuthUi([w EXCEPT !.auth.client = TRUE, !.canConnect = TRUE,
                                               !.status = "linked"])
               IN Handle(v, IF win.named THEN Job("devices", v.auth, TRUE) ELSE <<>>)
          [] arg.op = "authorize" /\ ~arg.ok ->
               Handle([w EXCEPT !.canConnect = TRUE, !.status = "error"], <<>>)
          [] arg.op # "authorize" /\ ~arg.ok -> Handle([w EXCEPT !.status = "error"], <<>>)
          [] arg.op = "devices" /\ arg.ok ->
               Handle([w EXCEPT !.matched = arg.matched, !.canTransfer = arg.matched,
                                !.status = IF arg.matched THEN "ready" ELSE "error"],
                      IF arg.matched THEN Job("now", w.auth, TRUE) ELSE <<>>)
          [] arg.op = "now" /\ arg.ok -> Handle([w EXCEPT !.playing = arg.playing], <<>>)
          [] OTHER -> Handle([w EXCEPT !.status = "done"], Job("now", w.auth, TRUE))

SpotifyButtons ==
  /\ app = "spotify" /\ phase = "open"
  /\ \/ /\ win.page = "setup" /\ win.canConnect
        /\ \E x \in {"id", "noid"} : Send("spotify", Msg("connect", x), win)
     \/ /\ win.page = "control"
        /\ \/ \E b \in {"disconnect", "playpause", "skip"} : Click("spotify", b)
           \/ win.canTransfer /\ Click("spotify", "transfer")

SpotifyInit ==
  /\ "spotify" \in Apps
  /\ \E n \in 0..1, mine \in BOOLEAN :
       AppInit("spotify",
         [valid |-> n, saved |-> [client |-> n # 0, access |-> FALSE, refresh |-> n],
          playing |-> FALSE, mine |-> mine])

SpotifyNext ==
  \/ SpotifyApp \/ SpotifyControlThread \/ SpotifyProbeThread \/ SpotifyButtons
  \/ SpotifyInfoReady \/ SpotifyConnect \/ SpotifyDisconnect \/ SpotifyTransfer
  \/ SpotifyPlayPause \/ SpotifySkip \/ SpotifyControlDone
=============================================================================
