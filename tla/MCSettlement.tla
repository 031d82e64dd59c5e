---------------------------- MODULE MCSettlement ----------------------------
(* Instances of Settlement for TLC.                                          *)
EXTENDS Settlement, TLC

Symmetry == Permutations(RequestSlots) \cup Permutations(QuoteSlots)
=============================================================================
