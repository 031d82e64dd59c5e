------------------------------ MODULE MCVenue -------------------------------
(***************************************************************************)
(* Two clients on a channel of one or two commands, a log and an event     *)
(* ring of one: every channel fills, and every thread falls behind.        *)
(***************************************************************************)
EXTENDS Venue, TLC

=============================================================================
