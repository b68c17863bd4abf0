--------------------------- MODULE MCFastDownload ---------------------------
(* A small instance of FastDownload for TLC. *)
EXTENDS FastDownload
=============================================================================
