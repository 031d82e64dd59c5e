----------------------------- MODULE MCGateway ------------------------------
(***************************************************************************)
(* More contracts than the table holds, so calls fail on the first leg and *)
(* on a later one, and more account keys than there are rows.              *)
(***************************************************************************)
EXTENDS Gateway
=============================================================================
