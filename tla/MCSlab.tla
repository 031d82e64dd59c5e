------------------------------- MODULE MCSlab -------------------------------
(***************************************************************************)
(* Three slots, each through three generations: every slot is reused,      *)
(* chained in every order, and retired.                                    *)
(***************************************************************************)
EXTENDS Slab
=============================================================================
