----------------------------- MODULE MCKeptFiles -----------------------------
(* A small instance of KeptFiles for TLC. *)
EXTENDS KeptFiles, TLC

Symmetry == Permutations(Calls)

(* The user changes the key for that of another account, and sets a cookie *)
(* from a browser that is signed in to a third one.                        *)
TwoAccounts ==
  LET none == <<"no key", 0>>
      browser == <<"no key", 1>>
  IN  {[key |-> "k1", cookie |-> none], [key |-> "k1", cookie |-> browser], [key |-> "k2", cookie |-> none]}
==============================================================================
