------------------------------- MODULE RingsMC -------------------------------
(***************************************************************************)
(* Nothing tells the workers of a ring, or the pizzas, from each other, and*)
(* all that is checked of Rings is safety.                                 *)
(***************************************************************************)
EXTENDS Rings, TLC

MCSymmetry ==
  Permutations(Workers) \cup Permutations(Workers2) \cup Permutations(Pizzas)
=============================================================================
