--------------------------- MODULE MCPaperDownload ---------------------------
(* Works and requests for TLC. *)
EXTENDS PaperDownload

INSTANCE MCWorksAndRequests
=============================================================================
