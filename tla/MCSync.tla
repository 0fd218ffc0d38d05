------------------------------- MODULE MCSync --------------------------------
(***************************************************************************)
(* Sync for TLC: two sensors, of which the first can use up all intervals. *)
(***************************************************************************)
EXTENDS Sync

CONSTANTS s1, s2

MCRequested == <<s1, s2>>
==============================================================================
