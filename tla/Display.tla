------------------------------- MODULE Display --------------------------------
(***************************************************************************)
(* The display pipeline of one device: every tick the state of the domain  *)
(* may change in any way the updaters allow, and only the regions found    *)
(* dirty are drawn again (tick, updateUiDirtyState and syncOutputs of      *)
(* src/main.cpp with the operators of Screen).                             *)
(*                                                                         *)
(* The updaters are abstract here: a tick may bring any reading and any    *)
(* forecast, and a salah state at most MaxTickGap minutes after the one    *)
(* shown.  Firmware refines this module with the real updaters.            *)
(***************************************************************************)
EXTENDS Screen, Sequences

CONSTANTS
    Minutes,        \* the minutes, counted from the epoch, at which ticks happen
    MaxTickGap,     \* the most minutes between the salah states of two ticks
    Readings,       \* the readings a row can hold, incomplete ones among them
    Forecasts       \* the forecasts Open-Meteo can answer with

ASSUME DisplayAssumption ==
    /\ Minutes \subseteq Nat
    /\ \A t \in Minutes : {t \div DayMinutes, t \div DayMinutes + 1} \subseteq Days
    /\ MaxTickGap \in Nat
    /\ FlipMinutes \in Nat
    /\ Readings \subseteq [temperatureC : Int \cup {NoValue},
                           humidityPct  : Nat \cup {NoValue}]
    /\ Forecasts \subseteq Seq([date : Nat, tempMin : Int, tempMax : Int])
    /\ NoValue \notin Int
    /\ NoValue \notin Forecasts
    /\ \A t \in Minutes : NoValue # SalahAt(t)

(* A day's phases are longer than the gap between two ticks, Isha included. *)
PhasesOutlastTicks ==
    \A d \in Days :
        /\ \A i \in 1..8 :
              ScheduleOf[d][Edges[i]] + MaxTickGap < ScheduleOf[d][Edges[i + 1]]
        /\ d + 1 \in Days =>
              ScheduleOf[d]["isha"] + MaxTickGap < DayMinutes + ScheduleOf[d + 1]["fajr"]

VARIABLES
    state,              \* what the last tick drew from (currentState)
    hasPreviousState,   \* a first full draw has happened
    panel               \* the pixels of the OLED, by region

displayVars == <<state, hasPreviousState, panel>>

State ==
    [salah    : {SalahAt(t) : t \in Minutes} \cup {NoValue},
     rows     : [Sensors -> Readings \cup {EmptyReading}],
     forecast : Forecasts \cup {NoValue}]

(* What the next tick may bring.  A salah state, once there, follows the   *)
(* clock; neither it nor a forecast ever disappears.                       *)
SalahAfter(old) ==
    IF old = NoValue THEN {SalahAt(t) : t \in Minutes} \cup {NoValue}
    ELSE {SalahAt(u) : u \in Minutes \cap
            UNION {t .. t + MaxTickGap : t \in {t \in Minutes : SalahAt(t) = old}}}

ForecastAfter(old) == IF old = NoValue THEN Forecasts \cup {NoValue} ELSE Forecasts

StateAfter(old) ==
    [salah    : SalahAfter(old.salah),
     rows     : [Sensors -> Readings \cup {EmptyReading}],
     forecast : ForecastAfter(old.forecast)]

Init ==
    /\ state = EmptyState
    /\ hasPreviousState = FALSE
    /\ panel = BlankPanel

(* updateUiDirtyState *)
DirtyNow ==
    IF hasPreviousState THEN computeDirtyRegions(state, state') ELSE EverythingDirty

(* One tick of the main loop, seen from the display. *)
Tick ==
    /\ state' \in StateAfter(state)
    /\ panel' = renderUi(panel, state', DirtyNow)
    /\ hasPreviousState' = TRUE

(* Power is cut and comes back: RAM and panel start afresh. *)
PowerCycle ==
    /\ state' = EmptyState
    /\ hasPreviousState' = FALSE
    /\ panel' = BlankPanel

Next == Tick \/ PowerCycle

Spec == Init /\ [][Next]_displayVars

------------------------------------------------------------------------------
TypeOK ==
    /\ state \in State
    /\ hasPreviousState \in BOOLEAN
    /\ panel.dim \in BOOLEAN
    /\ DOMAIN panel.rows = Sensors

(* Every sensor row on the glass is the row a full draw of the state would *)
(* give: a row cleared, replaced or rounded to another number is redrawn,  *)
(* whatever sequence of unchanged ticks came between (sensorRows of        *)
(* computeDirtyRegions against drawSensorRowRegion).                       *)
RowsFresh ==
    \A r \in Sensors : panel.rows[r] = drawSensorRowRegion(state, r)

(* The countdown on the glass is the countdown of the state and is drawn   *)
(* in its colours.  The flip of this region has no dirty condition of its  *)
(* own: it is right only because every change of the flip comes with a     *)
(* change of the number (drawMinutesRegion, src/ui/display.cpp).           *)
MinutesFresh ==
    panel.minutes = drawMinutesRegion(state)

(* The phase name on the glass is the current phase, the contrast is low   *)
(* exactly in Isha, and the colours of the name are right in every phase   *)
(* but AsrMakruh (see NameFlipFresh for that one).                         *)
NameFresh ==
    IF state.salah = NoValue
    THEN panel.name = NoValue /\ ~ panel.dim
    ELSE /\ panel.name.text = state.salah.current
         /\ panel.dim = (state.salah.current = "Isha")
         /\ state.salah.current # "AsrMakruh" =>
               panel.name = drawSalahNameRegion(state)

(* The dirty check rounds the forecast and the drawing truncates it, so    *)
(* the glass may lag the state; after any number of skipped redraws every  *)
(* temperature shown is still within one degree of a fresh drawing, for    *)
(* the same days.                                                          *)
Near(a, b) == a - b \in -1 .. 1

ForecastWithinADegree ==
    LET fresh == drawForecastRegion(state)
    IN  IF state.forecast = NoValue THEN panel.forecast = NoValue
        ELSE /\ DOMAIN panel.forecast = DOMAIN fresh
             /\ \A i \in DOMAIN fresh :
                   /\ Near(panel.forecast[i].low, fresh[i].low)
                   /\ Near(panel.forecast[i].high, fresh[i].high)

(* What docs/architecture.md promises of the name region, "Changed regions *)
(* are redrawn": the name is drawn in the colours of the current minute.   *)
(* In the last FlipMinutes of AsrMakruh it is not: salahName is dirty only *)
(* when the phase changes (src/ui/state.cpp:27).                           *)
NameFlipFresh ==
    panel.name = drawSalahNameRegion(state)
==============================================================================
