------------------------------ MODULE MCEngine ------------------------------
(* Instances of Engine for TLC: identities are model values, so they may be  *)
(* permuted.                                                                 *)
EXTENDS Engine, TLC

Symmetry == Permutations(RequestSlots) \cup Permutations(QuoteSlots)
=============================================================================
