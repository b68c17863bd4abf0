-------------------------- MODULE MCMirrorSelector --------------------------
(* Small instances of MirrorSelector for TLC. *)
EXTENDS MirrorSelector, TLC

Symmetry == Permutations(Hosts) \cup Permutations(Callers)
=============================================================================
