---------------------------- MODULE MCResolution ----------------------------
(* Instances of Resolution for TLC: an escrow and a second contract that an    *)
(* intent may name by mistake, or two escrows of one contract.                *)
EXTENDS Resolution, TLC

CONSTANTS c1, c2, x1, x2, authority, anyone

OneEscrow == (x1 :> c1)
OnOneContract == (x1 :> c1) @@ (x2 :> c1)
Dates == [c \in Contracts |-> 0]
=============================================================================
