------------------------------ MODULE MCFirmware ------------------------------
(***************************************************************************)
(* Firmware for TLC: minutes of two units and a day of sixteen minutes.    *)
(* The clock is set in AsrMakruh: the flip before Maghrib, Isha, midnight  *)
(* and the next Fajr all fall inside the horizon.                          *)
(***************************************************************************)
EXTENDS Firmware

MCDays == 0 .. 4

MCScheduleOf ==
    [d \in MCDays |->
        [fajr |-> 1 + (d % 2), sunrise |-> 3, duha |-> 4, dahwaEKubra |-> 5,
         zuhr |-> 6, asr |-> 7, asrMakruh |-> 9, maghrib |-> 14, isha |-> 15]]

MCEpochs == {57}

MCMinutes == 28 .. 40

MCCallTimes == {0, 2}

MCRetryHints == {0, 1, 99}

MCReadings ==
    {[temperatureC |-> 204, humidityPct |-> 45]}

MCForecasts ==
    {<<[date |-> 1, tempMin |-> 209, tempMax |-> 236]>>}
==============================================================================
