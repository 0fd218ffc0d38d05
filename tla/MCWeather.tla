------------------------------ MODULE MCWeather ------------------------------
(***************************************************************************)
(* Weather for TLC: two handlers overlap on day 1, and one at a time goes  *)
(* through midnight and works on day 2.  The dashboard asks for the window *)
(* that the predictions use, and for one that is rejected.                 *)
(***************************************************************************)
EXTENDS Weather

MCAtOnce == [d \in FirstDay .. LastDay |-> IF d = 1 THEN 2 ELSE 1]
MCAsked == {<<-1, 1>>, <<1, -1>>}
==============================================================================
