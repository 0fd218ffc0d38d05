----------------------------- MODULE MCDashboard -----------------------------
(***************************************************************************)
(* Dashboard for TLC: a short range shows each reading, a long one the     *)
(* newest of two.                                                          *)
(***************************************************************************)
EXTENDS Dashboard

MCHours == [r \in Ranges |-> IF r = "short" THEN 1 ELSE 2]
MCMaxPoints == [r \in Ranges |-> 1]
MCZooms == {[min |-> 0, max |-> 1]}
==============================================================================
