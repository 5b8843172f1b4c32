--------------------------- MODULE OfficeWindows ---------------------------
(***************************************************************************)
(* The printer (IPP), the scanner (eSCL) and the UPS (NUT): windows that   *)
(* ask a device for its description, and two of which send it work.        *)
(***************************************************************************)
EXTENDS DeviceApp

CONSTANT ScanAttempts   \* EsclClient::Scan asks for the document so many times (60)

ASSUME ScanAttemptsAssumption == ScanAttempts \in Nat \ {0}

Sheets == {<<>>, <<"a">>, <<"a", "b">>}     \* attributes, capabilities, variables

-----------------------------------------------------------------------------
(* IPP.  One POST for each operation; the answer is read until the          *)
(* connection ends and its attributes are taken as far as they are whole.   *)
IppReplies == [connected : BOOLEAN, http : {200, 500}, size : {4, 64},
               status : {0, 1024}, whole : 0..2]
IppPostIpp(r) == IF r.connected THEN r.http ELSE 0
IppStatusOk(r) == r.status < 256
IppParseAttributes(s, n) == FirstOf(s, n)
IppGetPrinterAttributes(x) ==
  {IF IppPostIpp(r) = 200 /\ r.size >= 8
   THEN [ok |-> IppStatusOk(r), rows |-> IppParseAttributes(dev, r.whole)]
   ELSE [ok |-> FALSE, rows |-> <<>>] : r \in IppReplies}
IppPrintFile(x) ==                         \* a file that is empty or cannot be read fails
  {[ok |-> x.file # "empty" /\ IppPostIpp(r) = 200 /\ r.size >= 8 /\ IppStatusOk(r)]
     : r \in IppReplies}

IppQueryThread == Works("ipp", "attrs", IppGetPrinterAttributes, Reads)
IppPrintThread == Works("ipp", "print", IppPrintFile, Reads)

IppDocFormatFor(f) == IF f = "pdf" THEN "application/pdf" ELSE "application/octet-stream"
IppStartQuery == <<"attrs", [file |-> "none"]>>
IppWindow == [status |-> "loading", entries |-> <<>>, panel |-> FALSE]
IppApp == Launch("ipp", IppWindow, IppStartQuery)

IppQuery == Got("ipp", "query") /\ Handle(Loading(win), IppStartQuery)

IppAttrsReady ==                 \* on a failure the details of an older answer stay
  /\ Got("ipp", "attrs")
  /\ Handle(IF ~arg.ok /\ arg.rows = <<>> THEN [win EXCEPT !.status = "error"]
            ELSE [win EXCEPT !.entries = arg.rows, !.status = "listed"], <<>>)

IppPick == Got("ipp", "pick") /\ Handle([win EXCEPT !.panel = TRUE], <<>>)
IppFileChosen ==
  /\ Got("ipp", "file")
  /\ Handle(Sending(win), <<"print", [file |-> arg, format |-> IppDocFormatFor(arg)]>>)
IppPrintDone ==
  /\ Got("ipp", "print")
  /\ Handle([win EXCEPT !.status = IF arg.ok THEN "printed" ELSE "error"], <<>>)

IppChooseFile ==
  /\ app = "ipp" /\ phase = "open" /\ win.panel
  /\ \E f \in {"pdf", "empty"} : Send("ipp", Msg("file", f), [win EXCEPT !.panel = FALSE])

IppNext ==
  \/ IppApp \/ IppQueryThread \/ IppPrintThread \/ DeviceChanges("ipp", Sheets)
  \/ Click("ipp", "query") \/ Click("ipp", "pick") \/ IppChooseFile
  \/ IppQuery \/ IppAttrsReady \/ IppPick \/ IppFileChosen \/ IppPrintDone

-----------------------------------------------------------------------------
(* eSCL.  A scan is a POST that returns the job's address and then requests *)
(* for the document, one after the other without a pause, until it comes,   *)
(* the scanner says something other than "not yet", or they are used up.    *)
EsclReplies == [connected : BOOLEAN, status : {200, 503}, body : BOOLEAN]
EsclHttpRequest(r) == IF r.connected THEN r.status ELSE 0
EsclGetCapabilities(x) ==
  {IF EsclHttpRequest(r) = 200 /\ r.body THEN [ok |-> TRUE, rows |-> dev] ELSE Failed
     : r \in EsclReplies}
EsclScan(x) ==
  {LET ok == /\ post
             /\ \E k \in 1..ScanAttempts : docs[k] = 200 /\ \A i \in 1..(k - 1) : docs[i] = 202
   IN [ok |-> ok, dest |-> x.dest] : post \in BOOLEAN, docs \in [1..ScanAttempts -> {200, 202, 410}]}

EsclQueryThread == Works("escl", "caps", EsclGetCapabilities, Reads)
EsclScanThread == Works("escl", "scan", EsclScan, Reads)

EsclStartQuery == <<"caps", [dest |-> "none"]>>
EsclWindow == [status |-> "loading", entries |-> <<>>, format |-> "jpg", panel |-> "none"]
EsclApp == Launch("escl", EsclWindow, EsclStartQuery)

EsclQuery == Got("escl", "query") /\ Handle(Loading(win), EsclStartQuery)

EsclCapsReady ==
  /\ Got("escl", "caps")
  /\ Handle(IF arg.ok THEN [win EXCEPT !.entries = arg.rows, !.status = "listed"]
            ELSE [win EXCEPT !.entries = <<>>, !.status = "error"], <<>>)

EsclPick ==                      \* the name is suggested by the format of now...
  Got("escl", "pick") /\ Handle([win EXCEPT !.panel = win.format], <<>>)

EsclCurrentOptions == win.format
EsclSave ==                      \* ...and the options are read when the panel is confirmed
  /\ Got("escl", "save")
  /\ Handle(Sending(win), <<"scan", [dest |-> arg, format |-> EsclCurrentOptions]>>)

EsclScanDone ==
  /\ Got("escl", "scan")
  /\ Handle([win EXCEPT !.status = IF arg.ok THEN "saved" ELSE "error"], <<>>)

EsclMakeMenu ==                  \* a menu item without a message: only its mark moves
  /\ app = "escl" /\ phase = "open"
  /\ clicks < MaxClicks[app]
  /\ clicks' = clicks + 1
  /\ win' = [win EXCEPT !.format = IF @ = "jpg" THEN "pdf" ELSE "jpg"]
  /\ UNCHANGED <<app, phase, jobs, inbox, dev, lost, changes, served>>

EsclSavePanel ==
  /\ app = "escl" /\ phase = "open" /\ win.panel # "none"
  /\ Send("escl", Msg("save", win.panel), [win EXCEPT !.panel = "none"])

EsclNext ==
  \/ EsclApp \/ EsclQueryThread \/ EsclScanThread \/ DeviceChanges("escl", Sheets)
  \/ Click("escl", "query") \/ Click("escl", "pick") \/ EsclMakeMenu \/ EsclSavePanel
  \/ EsclQuery \/ EsclCapsReady \/ EsclPick \/ EsclSave \/ EsclScanDone

-----------------------------------------------------------------------------
(* NUT.  The names of the UPSes and the variables of the first are asked    *)
(* for on two connections; variables that do not come are shown as "-".     *)
NutReplies == [connected : BOOLEAN, lines : 0..2]
NutExchange(r) == IF r.connected THEN r.lines ELSE 0
NutListUps(r) == NutExchange(r) > 0
NutListVars(s, r) == FirstOf(s, NutExchange(r))
NutInfo(x) ==
  {IF NutListUps(u) THEN [ok |-> TRUE, rows |-> NutListVars(dev, v)] ELSE Failed
     : u, v \in NutReplies}

NutInfoThread == Works("nut", "info", NutInfo, Reads)

NutStartInfo == <<"info", "none">>
NutWindow == [status |-> "loading", entries |-> <<>>]
NutApp == Launch("nut", NutWindow, NutStartInfo)

NutRefresh == Got("nut", "refresh") /\ Handle(Loading(win), NutStartInfo)

NutInfoReady ==                  \* on a failure the values of an older answer stay
  /\ Got("nut", "info")
  /\ Handle(IF arg.ok THEN [win EXCEPT !.entries = arg.rows, !.status = "listed"]
            ELSE [win EXCEPT !.status = "error"], <<>>)

NutNext ==
  \/ NutApp \/ NutInfoThread \/ DeviceChanges("nut", Sheets)
  \/ Click("nut", "refresh") \/ NutRefresh \/ NutInfoReady

-----------------------------------------------------------------------------
OfficeInit == \E a \in Apps \cap {"ipp", "escl", "nut"} : AppInit(a, <<"a">>)
OfficeNext == IppNext \/ EsclNext \/ NutNext
=============================================================================
