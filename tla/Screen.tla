-------------------------------- MODULE Screen --------------------------------
(***************************************************************************)
(* What the display draws and when it decides to draw it again:            *)
(* src/ui/display.cpp, src/ui/state.cpp, src/sensor_readings.cpp.          *)
(* Temperatures are integers in tenths of a degree, the precision of both  *)
(* the sensors and the forecast; a missing optional is NoValue, and        *)
(* hasSalah / hasForecast = false are salah / forecast = NoValue, because  *)
(* the code reads those two fields only under their flags.  Text is        *)
(* represented by the value it shows.  The name of a row comes with its    *)
(* first answer and is drawn only beside a complete reading, so comparing  *)
(* it adds nothing and is left out.                                        *)
(***************************************************************************)
EXTENDS SalahPhases

CONSTANTS
    Sensors,        \* the configured SwitchBot rows, at most four of them
    NoValue,        \* an absent optional, an undrawn region
    FlipMinutes     \* the last minutes of AsrMakruh are drawn inverted (10)

(* displayTemp: std::lround, halves away from zero. *)
displayTemp(t) == IF t >= 0 THEN (t + 5) \div 10 ELSE - ((5 - t) \div 10)

(* static_cast<int>: toward zero. *)
Truncated(t) == IF t >= 0 THEN t \div 10 ELSE - ((- t) \div 10)

EmptyReading == [temperatureC |-> NoValue, humidityPct |-> NoValue]

(* State as it is default-constructed. *)
EmptyState ==
    [salah    |-> NoValue,
     rows     |-> [r \in Sensors |-> EmptyReading],
     forecast |-> NoValue]

hasCompleteReading(row) ==
    row.temperatureC # NoValue /\ row.humidityPct # NoValue

(* Fault: a row that loses its reading counts as unchanged. *)
IgnoresCleared(a, b) ==
    (hasCompleteReading(a) /\ hasCompleteReading(b)) =>
        /\ displayTemp(a.temperatureC) = displayTemp(b.temperatureC)
        /\ a.humidityPct = b.humidityPct

equalsForDisplay(a, b) ==
    /\ hasCompleteReading(a) = hasCompleteReading(b)
    /\ hasCompleteReading(a) =>
          /\ displayTemp(a.temperatureC) = displayTemp(b.temperatureC)
          /\ a.humidityPct = b.humidityPct

------------------------------------------------------------------------------
(* The regions of the 128x64 panel. *)

shouldFlipColoursForSalah(salah) ==
    \/ salah.current = "Fajr"
    \/ salah.current = "AsrMakruh" /\ salah.minutesRemaining <= FlipMinutes

drawSalahNameRegion(state) ==
    IF state.salah = NoValue THEN NoValue
    ELSE [text |-> state.salah.current,
          flip |-> shouldFlipColoursForSalah(state.salah)]

(* Fault: the contrast is lowered for Isha and never raised again. *)
DimmedForGood(state, before) ==
    before \/ (state.salah # NoValue /\ state.salah.current = "Isha")

(* Fault: no contrast is chosen while there is no salah. *)
DimmedUnset(state, before) ==
    IF state.salah = NoValue THEN NoValue ELSE state.salah.current = "Isha"

(* setContrast is part of drawing the name; without a salah it is not called. *)
Dimmed(state, before) ==
    IF state.salah = NoValue THEN before ELSE state.salah.current = "Isha"

drawMinutesRegion(state) ==
    IF state.salah = NoValue THEN NoValue
    ELSE [text |-> state.salah.minutesRemaining,
          flip |-> shouldFlipColoursForSalah(state.salah)]

drawSensorRowRegion(state, r) ==
    IF ~ hasCompleteReading(state.rows[r]) THEN NoValue
    ELSE [temperature |-> displayTemp(state.rows[r].temperatureC),
          humidity    |-> state.rows[r].humidityPct]

drawForecastRegion(state) ==
    IF state.forecast = NoValue THEN NoValue
    ELSE [i \in DOMAIN state.forecast |->
            [low  |-> Truncated(state.forecast[i].tempMin),
             high |-> Truncated(state.forecast[i].tempMax)]]

(* The panel after oled.begin(): cleared, at full contrast. *)
BlankPanel ==
    [name |-> NoValue, dim |-> FALSE, minutes |-> NoValue,
     rows |-> [r \in Sensors |-> NoValue], forecast |-> NoValue]

------------------------------------------------------------------------------
(* computeDirtyRegions.  The date, weather code and rain probability of a  *)
(* forecast day are compared and never drawn: "date" stands for the three. *)

SalahNameDirty(previous, current) ==
    IF previous.salah = NoValue \/ current.salah = NoValue
    THEN (previous.salah = NoValue) # (current.salah = NoValue)
    ELSE \/ previous.salah.current # current.salah.current
         \/ previous.salah.next # current.salah.next

(* Fault: the countdown is drawn again only with the name. *)
MinutesWithName(previous, current) == SalahNameDirty(previous, current)

MinutesDirty(previous, current) ==
    IF previous.salah = NoValue \/ current.salah = NoValue
    THEN (previous.salah = NoValue) # (current.salah = NoValue)
    ELSE previous.salah.minutesRemaining # current.salah.minutesRemaining

(* Fault: the low is not compared. *)
SameHigh(a, b) ==
    /\ a.date = b.date
    /\ displayTemp(a.tempMax) = displayTemp(b.tempMax)

SameRenderedDay(a, b) ==
    /\ a.date = b.date
    /\ displayTemp(a.tempMax) = displayTemp(b.tempMax)
    /\ displayTemp(a.tempMin) = displayTemp(b.tempMin)

ForecastDirty(previous, current) ==
    IF previous.forecast = NoValue \/ current.forecast = NoValue
    THEN (previous.forecast = NoValue) # (current.forecast = NoValue)
    ELSE \/ DOMAIN previous.forecast # DOMAIN current.forecast
         \/ \E i \in DOMAIN current.forecast :
               ~ SameRenderedDay(previous.forecast[i], current.forecast[i])

computeDirtyRegions(previous, current) ==
    [salahName  |-> SalahNameDirty(previous, current),
     minutes    |-> MinutesDirty(previous, current),
     sensorRows |-> {r \in Sensors :
                       ~ equalsForDisplay(previous.rows[r], current.rows[r])},
     forecast   |-> ForecastDirty(previous, current)]

(* updateUiDirtyState before there is a previous state: draw all regions. *)
EverythingDirty ==
    [salahName |-> TRUE, minutes |-> TRUE, sensorRows |-> Sensors,
     forecast |-> TRUE]

(* renderUi: the dirty regions are drawn and sent, the others left alone. *)
renderUi(panel, state, dirty) ==
    [name     |-> IF dirty.salahName THEN drawSalahNameRegion(state) ELSE panel.name,
     dim      |-> IF dirty.salahName THEN Dimmed(state, panel.dim) ELSE panel.dim,
     minutes  |-> IF dirty.minutes THEN drawMinutesRegion(state) ELSE panel.minutes,
     rows     |-> [r \in Sensors |->
                     IF r \in dirty.sensorRows THEN drawSensorRowRegion(state, r)
                     ELSE panel.rows[r]],
     forecast |-> IF dirty.forecast THEN drawForecastRegion(state) ELSE panel.forecast]
==============================================================================
