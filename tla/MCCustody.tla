----------------------------- MODULE MCCustody ------------------------------
(* An instance of Custody for TLC: one maker wins both legs of the first     *)
(* bundle, so its debits must be summed; the second bundle stays valid for   *)
(* one instant less and is asked to settle against what the first left.      *)
EXTENDS Custody

CONSTANTS a1, a2, c1, n1, n2

Won(m, mc, rc, until) ==
  [contract |-> c1, side |-> "Yes", maker |-> m, maker_contribution |-> mc,
   requester_contribution |-> rc, quote_expiry |-> until]

Submittable ==
  {[nonce |-> n1, requester |-> a1, legs |-> <<Won(a2, 2, 1, 2), Won(a2, 1, 0, 2)>>],
   [nonce |-> n2, requester |-> a2, legs |-> <<Won(a1, 1, 2, 1)>>]}
=============================================================================
