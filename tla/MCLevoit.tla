------------------------------- MODULE MCLevoit -------------------------------
(***************************************************************************)
(* Levoit for TLC: the loop and a run by hand, limits of 4 and 7 percent,  *)
(* ideals below the limits, between them (a tie that rounds up) and above. *)
(* Either both processes have the same threshold, 2 or 0, or app.json was  *)
(* edited after the loop was started; the fourth combination is the third  *)
(* with the names exchanged.                                               *)
(***************************************************************************)
EXTENDS Levoit

CONSTANTS loop, once

MCIdeals == {3, 11, 20}

MCSettings ==
    {[c \in Controllers |-> 2], [c \in Controllers |-> 0],
     [c \in Controllers |-> IF c = loop THEN 0 ELSE 2]}
==============================================================================
