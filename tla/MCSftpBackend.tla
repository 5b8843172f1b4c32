--------------------------- MODULE MCSftpBackend ---------------------------
(***************************************************************************)
(* Instances of SftpBackend.                                               *)
(***************************************************************************)
EXTENDS SftpBackend
=============================================================================
