----------------------------- MODULE MCDevices -----------------------------
(* The device applications for TLC: the applications, the clicks each of   *)
(* them gets, and the servers, shares and datagrams there are.             *)
EXTENDS Devices

MCApps == Listers \cup Browsers \cup InfoApps \cup Viewers
          \cup {"hue", "daikin", "shelly", "shellygraph", "spotify", "firetv", "esphome",
                "smb", "smbfs", "cast", "won"}
MCMaxClicks ==
  [a \in MCApps |-> CASE a \in {"spotify", "shelly", "shellygraph", "won"} -> 1
                      [] a \in {"firetv", "smb", "smbfs"} -> 3
                      [] OTHER -> 2]
MCRecorded == Listers \cup Browsers
MCMaxMinutes == [a \in MCApps |-> IF a = "shellygraph" THEN 3 ELSE 0]
MCServers == {<<"s">>, <<"t">>}
All == {"PTR", "SRV", "TXT", "A"}
Datagram(n, t, h, a, x, has) == [name |-> n, type |-> t, host |-> h, addr |-> a, txt |-> x, has |-> has]
(* Two printers whose names make one file name, the first of them moved to  *)
(* the address of the second, and a machine that is the second printer's.   *)
MCDatagrams ==
  {Datagram(1, "ipp", "p", 1, 1, All), Datagram(2, "ipp", "q", 2, 2, All),
   Datagram(1, "ipp", "p", 2, 1, All), Datagram(3, "workstation", "q", 2, 0, {"PTR", "A"})}
MCManifests == <<[sig |-> "", types |-> {}, kinds |-> {"Printer"}, txt |-> {}],
                 [sig |-> "printers", types |-> {"ipp"}, kinds |-> {}, txt |-> {}]>>
MCShares == {<<>>, <<"a", " ", "b">>, <<"a", "%", "2", "0">>}
=============================================================================
