----------------------------- MODULE InfoWindows -----------------------------
(***************************************************************************)
(* The applications that only show what a device announces of itself:      *)
(* HomeKit, Matter, AirPlay, Lutron, eero and Alexa read the TXT record    *)
(* that the browser stored in the attributes of the device's file; VNC     *)
(* passes the address to a viewer.  Two of them start another program.     *)
(*                                                                         *)
(* dev is the TXT record, a sequence of <<key, value>>, and whether the    *)
(* program that would be started is installed.                             *)
(***************************************************************************)
EXTENDS DeviceApp

(* Keys are compared without case, an unknown key is skipped, and the last  *)
(* of two entries with one key stands.                                      *)
Fields(txt, Keys) ==
  [k \in {txt[i][1] : i \in DOMAIN txt} \cap Keys |->
     txt[CHOOSE i \in DOMAIN txt :
           txt[i][1] = k /\ \A j \in DOMAIN txt : txt[j][1] = k => j <= i][2]]
Known(f, k, default) == IF k \in DOMAIN f THEN f[k] ELSE default

ReadTxt(viaRef) == IF viaRef THEN dev.txt ELSE <<>>   \* the command line carries no TXT

(* HomeKit: bit 0 of sf is set on an accessory that is not paired; a model  *)
(* name of a Hue bridge brings the button that opens the Hue application.   *)
CategoryName(id) == IF id \in 1..23 \cup {26} \cup 28..36 THEN id ELSE 0
ParseHapTxt(txt) ==              \* paired: nothing is said of it without sf
  LET f == Fields(txt, {"md", "sf", "ci", "pv"})
  IN [name |-> Known(f, "md", "none"),
      paired |-> IF "sf" \in DOMAIN f THEN {f["sf"] % 2 = 0} ELSE {},
      category |-> CategoryName(Known(f, "ci", 0)), protocol |-> Known(f, "pv", "1.0")]
IsHueBridge(model) == model = "BSB002"            \* stands for the names that begin with BSB
HomeKitWindow(txt) ==
  [status |-> "shown", info |-> ParseHapTxt(txt),
   button |-> IF IsHueBridge(ParseHapTxt(txt).name) THEN {"hue"} ELSE {}]

(* Matter: the device type and the commissioning mode have names. *)
DeviceTypeName(id) ==
  IF id \in {10, 14, 21, 43, 44, 118, 514, 769, 770, 773} \cup 256..257 \cup 259..263 \cup 266..269
  THEN id ELSE 0
CommissioningText(cm) == IF cm \in 0..2 THEN cm ELSE 9
ParseMatterTxt(txt) ==
  LET f == Fields(txt, {"DT", "CM", "T"})
  IN [type |-> DeviceTypeName(Known(f, "DT", 0)),
      commissioning |-> IF "CM" \in DOMAIN f THEN CommissioningText(f["CM"]) ELSE 9,
      tcp |-> Known(f, "T", 0) = 1]
MatterWindow(txt) == [status |-> "shown", info |-> ParseMatterTxt(txt), button |-> {}]

(* AirPlay: features and flags are sets of bits, written as one number or   *)
(* as two that stand for the low and the high 32 bits; a password is         *)
(* required by pw or by bit 7 of flags, and of the two entries the later    *)
(* one has the last word, except that flags can only require it.            *)
Low32(bits) == bits \cap 0..31
ParseFeatures(s) == IF Len(s) = 1 THEN s[1] ELSE Low32(s[1]) \cup {b + 32 : b \in Low32(s[2])}
DecodeFeatures(bits) == bits \cap {0, 1, 7, 9, 11, 14, 18, 30, 38, 40, 46, 48}
PasswordAfter(txt) ==
  LET P[i \in 0..Len(txt)] ==
        IF i = 0 THEN FALSE
        ELSE CASE txt[i][1] = "pw" -> txt[i][2] = 1
               [] txt[i][1] = "flags" -> P[i - 1] \/ 7 \in ParseFeatures(txt[i][2])
               [] OTHER -> P[i - 1]
  IN P[Len(txt)]
ParseAirplayTxt(txt) ==
  [capabilities |-> DecodeFeatures(ParseFeatures(Known(Fields(txt, {"features"}), "features", <<{}>>))),
   password |-> PasswordAfter(txt)]
AirplayWindow(txt) == [status |-> "shown", info |-> ParseAirplayTxt(txt), button |-> {}]

(* Lutron, eero and Alexa show the record as it is. *)
LutronWindow(txt) == [status |-> "shown", info |-> txt, button |-> {}]
EeroWindow(txt) == LutronWindow(txt)
AlexaWindow(txt) == LutronWindow(txt)

(* VNC: the viewer is tried at once, and again when the button is pressed. *)
LaunchViewer == dev.installed
VncStatus == IF LaunchViewer THEN "opened" ELSE "noviewer"
VncWindow(txt) == [status |-> VncStatus, info |-> txt, button |-> {"open", "copy"}]

-----------------------------------------------------------------------------
InfoApps == {"homekit", "matter", "airplay", "lutron", "eero", "alexa", "vnc"}

OpenInfo(a, W(_)) == \E viaRef \in BOOLEAN : Launch(a, W(ReadTxt(viaRef)), <<>>)
HomeKitApp == OpenInfo("homekit", HomeKitWindow)
MatterApp == OpenInfo("matter", MatterWindow)
AirplayApp == OpenInfo("airplay", AirplayWindow)
LutronApp == OpenInfo("lutron", LutronWindow)
EeroApp == OpenInfo("eero", EeroWindow)
AlexaApp == OpenInfo("alexa", AlexaWindow)
VncApp == OpenInfo("vnc", VncWindow)

InfoButtons(a) ==
  /\ app = a /\ phase = "open"
  /\ \E b \in win.button : Click(a, b)

HomeKitOpenHue ==
  /\ Got("homekit", "hue")
  /\ Handle([win EXCEPT !.status = IF dev.installed THEN "opened" ELSE "alert"], <<>>)
VncOpen == Got("vnc", "open") /\ Handle([win EXCEPT !.status = VncStatus], <<>>)
VncCopy ==                       \* nothing is said when the clipboard is not to be had
  /\ Got("vnc", "copy")
  /\ \E locked \in BOOLEAN : Handle([win EXCEPT !.status = IF locked THEN "copied" ELSE @], <<>>)

(* The user installs the program that was missing. *)
Install(a) == DeviceChanges(a, {[dev EXCEPT !.installed = TRUE]})

InfoTxt(a) ==
  CASE a = "homekit" -> {<<>>, <<<<"md", "BSB002">>, <<"sf", 0>>>>, <<<<"sf", 1>>>>}
    [] a = "matter" -> {<<>>, <<<<"DT", 256>>, <<"CM", 1>>, <<"T", 1>>>>, <<<<"DT", 7>>, <<"CM", 3>>>>}
    [] a = "airplay" ->
         {<<>>, <<<<"flags", <<{7}>>>>, <<"pw", 0>>>>, <<<<"pw", 0>>, <<"flags", <<{7}>>>>, <<"features", <<{0, 3, 40}, {6, 8}>>>>>>}
    [] OTHER -> {<<>>, <<<<"k", "v">>>>}

InfoInit ==
  \E a \in Apps \cap InfoApps, i \in BOOLEAN :
    \E t \in InfoTxt(a) : AppInit(a, [txt |-> t, installed |-> i])

InfoNext ==
  \/ HomeKitApp \/ MatterApp \/ AirplayApp \/ LutronApp \/ EeroApp \/ AlexaApp \/ VncApp
  \/ \E a \in Apps \cap InfoApps : InfoButtons(a) \/ Install(a)
  \/ HomeKitOpenHue \/ VncOpen \/ VncCopy
=============================================================================
