------------------------------ MODULE MCDisplay -------------------------------
(***************************************************************************)
(* Display for TLC: a day of thirty-two minutes whose phases keep order    *)
(* and the special cases of the real one (Fajr inverted, AsrMakruh longer  *)
(* than FlipMinutes, Isha across midnight), one sensor row, temperatures   *)
(* on both sides of a rounding step, of a truncation step and of zero.     *)
(***************************************************************************)
EXTENDS Display

ASSUME PhaseLengthAssumption == PhasesOutlastTicks

MCDays == 0 .. 2

MCScheduleOf ==
    [d \in MCDays |->
        [fajr |-> 2 + (d % 2), sunrise |-> 6, duha |-> 9, dahwaEKubra |-> 12,
         zuhr |-> 15, asr |-> 18, asrMakruh |-> 21, maghrib |-> 26, isha |-> 29]]

MCMinutes == 0 .. 38

MCReadings ==
    {[temperatureC |-> 204, humidityPct |-> 45], [temperatureC |-> 205, humidityPct |-> 45],
     [temperatureC |-> 205, humidityPct |-> 46], [temperatureC |-> -5, humidityPct |-> 46],
     [temperatureC |-> 204, humidityPct |-> NoValue]}

MCForecasts ==
    {<<[date |-> 1, tempMin |-> low, tempMax |-> 236]>> : low \in {-6, 4, 209, 211}}
        \cup {<<>>, <<[date |-> 1, tempMin |-> 209, tempMax |-> 236],
                      [date |-> 2, tempMin |-> 40, tempMax |-> 144]>>}
==============================================================================
