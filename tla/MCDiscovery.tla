----------------------------- MODULE MCDiscovery -----------------------------
(***************************************************************************)
(* Instances of Discovery.                                                 *)
(***************************************************************************)
EXTENDS Discovery
=============================================================================
