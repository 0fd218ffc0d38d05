------------------------------- MODULE MCMeters -------------------------------
(***************************************************************************)
(* Meters for TLC: two polls and the ingestion meet at sensor a; the Pi    *)
(* lists b among the meters and among the plants.                          *)
(***************************************************************************)
EXTENDS Meters

CONSTANTS a, b

MCMeterRows == {<<BadRow, a, b>>}
MCFilters == {Everything, {Live}}
MCPlantRows == {<<b>>}
MCDefaultHint == [k \in Kinds |-> IF k = "switchbot" THEN 2 ELSE 4]
==============================================================================
