----------------------------- MODULE MCBootstrap -----------------------------
(* Bootstrap with two runs of the session and two credentials. *)
EXTENDS Bootstrap, TLC

Symmetry == Permutations(Runs)
=============================================================================
