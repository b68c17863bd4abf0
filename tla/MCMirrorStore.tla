--------------------------- MODULE MCMirrorStore ---------------------------
(* Two processes share mirrors.json, which is empty at first. *)
EXTENDS MirrorStore

MCNothing == {Unknown}
=============================================================================
