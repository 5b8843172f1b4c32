-------------------------- MODULE MCNetworkVolume ---------------------------
(* Instances of NetworkVolume: two machines whose names become the same     *)
(* when they are made fit for a path, and two whose names do not.           *)
EXTENDS NetworkVolume

MCInstance == [h \in Hosts |->
  CASE h = "h1" -> <<".", "a", "/">> [] h = "h2" -> <<"a", "-", " ">> [] h = "h3" -> <<"b">>]
MCFiles == {<<"d", "/", "f">>, <<"d", "-", "f">>}
MCMatches == [h \in Hosts |->
  IF h = "h2" THEN <<<<"d", "/", "f">>>> ELSE <<<<"d", "/", "f">>, <<"d", "-", "f">>>>]
MCChars == {"a", "b", "d", "f", ".", "/", "-", " ", "(", ")", "1", "2", "3"}
MCDecimal == [n \in 1..Quota |-> ToString(n)]
=============================================================================
