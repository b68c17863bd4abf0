--------------------------- MODULE MCArtifactLease --------------------------
(* Small instances of ArtifactLease for TLC. *)
EXTENDS ArtifactLease, TLC

Symmetry == Permutations(Calls)

(* Calls poll every 100 milliseconds, so a tick passes for a waiting call  *)
(* only while the lease of another is in its way.                          *)
PromptNext ==
  /\ LeaseNext
  /\ Tick => \A c \in Calls : Waiting(c) => pc[c] = "try" /\ present

PromptSpec == LeaseInit /\ [][PromptNext]_leaseVars
=============================================================================
