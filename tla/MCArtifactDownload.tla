------------------------- MODULE MCArtifactDownload -------------------------
(* A small instance of ArtifactDownload for TLC; its values are in the .cfg. *)
EXTENDS ArtifactDownload
=============================================================================
