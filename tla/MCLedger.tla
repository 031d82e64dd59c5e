------------------------------ MODULE MCLedger ------------------------------
(***************************************************************************)
(* Two accounts, a request and its quotes: chains of up to as many claims  *)
(* as there are slots, with equal and different expiries, spliced,         *)
(* unlinked and committed in every order.                                  *)
(***************************************************************************)
EXTENDS Ledger, TLC

\* Slots and quotes differ in nothing but their names.
Interchangeable == Permutations(ResSlots) \cup Permutations(QuoteSlots)
=============================================================================
