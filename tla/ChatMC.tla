------------------------------- MODULE ChatMC -------------------------------
(* Small instances of Chat for TLC.  The clients are alike: the run of the *)
(* invariants takes them up to permutation.                                *)
EXTENDS Chat

Symmetry == Permutations(Clients)
=============================================================================
