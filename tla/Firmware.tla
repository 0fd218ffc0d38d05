------------------------------- MODULE Firmware -------------------------------
(***************************************************************************)
(* The main loop of the ESP32 device: src/main.cpp with src/timing.cpp,    *)
(* src/update.cpp, initTime of src/platform_arduino.cpp and the display.   *)
(*                                                                         *)
(* The loop is one thread.  A tick is split where wall-clock time passes:  *)
(* in initTime and in the two HTTP requests.  Meanwhile the SNTP client,   *)
(* started by configTime, may set the clock in the background.  The        *)
(* readings come from the plant monitor through the backend, which answers *)
(* the device also when the monitor does not (server/app/plant_proxy.py).  *)
(*                                                                         *)
(* Time is counted in units (seconds in the code).  uptime is physical     *)
(* time since power-on; time(nullptr) is uptime until the clock is set,    *)
(* and local calendar time from then on.                                   *)
(***************************************************************************)
EXTENDS Screen, Sequences, FiniteSets

CONSTANTS
    Minutes, MaxTickGap, Readings, Forecasts,   \* as in Display
    Minute,             \* units per minute (60)
    MonthDays,          \* days per month, all months alike
    Epochs,             \* what setting the clock adds to uptime
    CallTimes,          \* how long initTime or an HTTP request may take
    RetryHints,         \* retry_after_secs of the monitor, 0 when there is none
    BackendDefault,     \* _DEFAULT_METER_RETRY_AFTER_SECS of the backend, 5 * 60
    SensorsMin, SensorsDefault, SensorsMax,     \* 30, 5 * 60, 60 * 60
    ForecastInterval,   \* config.forecast.updateIntervalMinutes, in units
    ForecastRetry,      \* 5 * 60
    Horizon             \* no tick starts later: the bound of the model

LongestCall == CHOOSE d \in CallTimes : \A e \in CallTimes : e <= d

ASSUME FirmwareAssumption ==
    /\ {Minute, MonthDays, SensorsMin, ForecastInterval, ForecastRetry}
          \subseteq Nat \ {0}
    /\ {SensorsDefault, SensorsMax, Horizon} \subseteq Nat
    /\ SensorsMin <= SensorsMax
    /\ BackendDefault \in Nat /\ SensorsMin <= BackendDefault
    /\ Epochs \subseteq Nat /\ CallTimes \subseteq Nat /\ RetryHints \subseteq Int
    /\ \E d \in CallTimes : \A e \in CallTimes : e <= d
    /\ Cardinality(Sensors) <= 4        \* validateConfig

(* The clock is set to a date, and no device has been up for that long; a  *)
(* tick with three calls is over well within a month.                      *)
ASSUME CalendarAssumption ==
    /\ \A e \in Epochs : Horizon < e
    /\ MaxTickGap \in Nat
    /\ Minute + 2 * LongestCall <= MaxTickGap * Minute
    /\ MaxTickGap <= (MonthDays - 1) * DayMinutes

VARIABLES
    uptime, sntp, epoch,        \* the clocks
    pc, now, wakeAt,            \* the loop: next step, tick's now, end of delayMs
    oldDay, scheduleDay,        \* AppContext: tm_mday and date of the schedules
    hasValidTime,
    lastForecast,               \* lastForecastData, NoValue before the first
    nextSalahDue, nextSensorsDue, nextForecastDue,      \* TimingState
    currentState, previousState, hasPreviousState, panel,
    sensorsCall, forecastCall   \* history: the latest request of each kind

clockVars    == <<uptime, sntp, epoch>>
timers       == <<nextSalahDue, nextSensorsDue, nextForecastDue>>
scheduleVars == <<oldDay, scheduleDay, hasValidTime>>
screenVars   == <<previousState, hasPreviousState, panel>>
calls        == <<sensorsCall, forecastCall>>
vars == <<clockVars, pc, now, wakeAt, scheduleVars, lastForecast, timers,
          currentState, screenVars, calls>>

(* std::time(nullptr) *)
time == uptime + epoch

nextMinuteBoundary(t) == (t \div Minute + 1) * Minute

(* tm_mday of the local time t *)
MonthDay(t) == (((t \div Minute) \div DayMinutes) % MonthDays) + 1

Clamp(x, low, high) == IF x < low THEN low ELSE IF x > high THEN high ELSE x

Init ==
    /\ uptime = 0 /\ sntp = "off" /\ epoch = 0
    /\ pc = "boot" /\ now = 0 /\ wakeAt = 0
    /\ oldDay = -1 /\ scheduleDay = 0 /\ hasValidTime = FALSE
    /\ lastForecast = NoValue
    /\ nextSalahDue = 0 /\ nextSensorsDue = 0 /\ nextForecastDue = 0
    /\ currentState = EmptyState /\ previousState = EmptyState
    /\ hasPreviousState = FALSE /\ panel = BlankPanel
    /\ sensorsCall = NoValue /\ forecastCall = NoValue

------------------------------------------------------------------------------
(* platform::initTime: join the WiFi, start SNTP, wait for the time.  It   *)
(* may give up with SNTP already started.                                  *)
InitTime(ok) ==
    /\ \E d \in CallTimes : uptime' = uptime + d
    /\ IF ok
       THEN /\ sntp' = "set"
            /\ IF sntp = "set" THEN epoch' = epoch ELSE epoch' \in Epochs
       ELSE /\ sntp' \in IF sntp = "off" THEN {"off", "requested"} ELSE {sntp}
            /\ epoch' = epoch

(* SNTP answers on its own, after initTime has stopped waiting. *)
SntpAnswers ==
    /\ sntp = "requested"
    /\ sntp' = "set"
    /\ epoch' \in Epochs
    /\ UNCHANGED <<uptime, pc, now, wakeAt, scheduleVars, lastForecast, timers,
                   currentState, screenVars, calls>>

(* run, initApp, initPlatform *)
Boot ==
    /\ pc = "boot"
    /\ \E ok \in BOOLEAN : InitTime(ok) /\ hasValidTime' = ok
    /\ pc' = "start"
    /\ UNCHANGED <<now, wakeAt, oldDay, scheduleDay, lastForecast, timers,
                   currentState, screenVars, calls>>

(* Fault: the swapped-in buffer keeps its readings of two ticks ago. *)
ForgetsRows(current, previous) == [previous EXCEPT !.rows = current.rows]

(* prepareCurrentState *)
prepareCurrentState(current, previous) ==
    [salah |-> previous.salah, rows |-> previous.rows, forecast |-> previous.forecast]

(* tick, up to updateDomainState: read the clock, swap the two states. *)
TickStart ==
    /\ pc = "start"
    /\ uptime <= Horizon
    /\ now' = time
    /\ previousState' = currentState
    /\ currentState' = prepareCurrentState(previousState, currentState)
    /\ pc' = "salah"
    /\ UNCHANGED <<clockVars, wakeAt, scheduleVars, lastForecast, timers,
                   hasPreviousState, panel, calls>>

(* Fault: the schedules are computed once, after the time sync. *)
KeepsSchedule(old, new, day) == IF old = -1 THEN day ELSE scheduleDay

(* The schedules in use after updateSalahState: recomputed on a new tm_mday. *)
ScheduleDayFor(old, new, day) == IF new # old THEN day ELSE scheduleDay

(* updateSalahState and markSalahUpdated at the time t.  computeSchedules  *)
(* fails only on an impossible date, which localtime never returns.        *)
UpdateSalahAt(t, old) ==
    LET minute == t \div Minute
        day    == ScheduleDayFor(old, MonthDay(t), minute \div DayMinutes)
    IN  /\ scheduleDay' = day
        /\ oldDay' = MonthDay(t)
        /\ currentState' = [currentState EXCEPT !.salah =
                              computeState(ScheduleOf[day], ScheduleOf[day + 1],
                                           minute % DayMinutes)]
        /\ nextSalahDue' = nextMinuteBoundary(t)

(* updateSalahIfDue *)
SalahNotDue ==
    /\ now < nextSalahDue
    /\ UNCHANGED <<clockVars, scheduleVars, currentState, nextSalahDue>>

SalahOnValidTime ==
    /\ now >= nextSalahDue
    /\ hasValidTime
    /\ UpdateSalahAt(time, oldDay)
    /\ UNCHANGED <<clockVars, hasValidTime>>

SalahAfterTimeSync ==
    /\ now >= nextSalahDue
    /\ ~ hasValidTime
    /\ InitTime(TRUE)
    /\ hasValidTime' = TRUE
    /\ UpdateSalahAt(uptime' + epoch', -1)

SalahWithoutTime ==
    /\ now >= nextSalahDue
    /\ ~ hasValidTime
    /\ InitTime(FALSE)
    /\ nextSalahDue' = nextMinuteBoundary(now)
    /\ UNCHANGED <<scheduleVars, currentState>>

UpdateSalah ==
    /\ pc = "salah"
    /\ \/ SalahNotDue
       \/ SalahOnValidTime
       \/ SalahAfterTimeSync
       \/ SalahWithoutTime
    /\ pc' = "sensors"
    /\ UNCHANGED <<now, wakeAt, lastForecast, nextSensorsDue, nextForecastDue,
                   screenVars, calls>>

------------------------------------------------------------------------------
RequestTakes == \E d \in CallTimes : uptime' = uptime + d

(* What the plant monitor knows: a reading for the sensors that it lists   *)
(* with a time, EmptyReading for the others; NoValue when it is down.      *)
Monitor == [rows : [Sensors -> Readings \cup {EmptyReading}], hint : RetryHints]
           \cup {NoValue}

(* Fault: an outage is given the pace of the plants, an hour.              *)
OutageAtPlantPace(monitor) ==
    IF monitor = NoValue
    THEN [rows |-> [s \in Sensors |-> EmptyReading], hint |-> SensorsMax]
    ELSE [monitor EXCEPT !.hint = IF @ > 0 THEN @ ELSE BackendDefault]

(* meter_latest_v2: an outage, or an answer of another shape, is passed on *)
(* as 200 with an empty list, and a wait of its own.                       *)
meter_latest_v2(monitor) ==
    IF monitor = NoValue
    THEN [rows |-> [s \in Sensors |-> EmptyReading], hint |-> BackendDefault]
    ELSE [monitor EXCEPT !.hint = IF @ > 0 THEN @ ELSE BackendDefault]

(* applySwitchbotBackendResponse: a row is replaced by what the answer has *)
(* for it, an empty reading if it has nothing; retry_after_secs is taken   *)
(* only when positive.                                                     *)
SensorsAnswered(monitor) ==
    LET answer == meter_latest_v2(monitor) IN
    /\ currentState' = [currentState EXCEPT !.rows = answer.rows]
    /\ sensorsCall' = [at |-> uptime, now |-> now, ok |-> TRUE,
                       outage |-> monitor = NoValue,
                       wait |-> IF answer.hint > 0 THEN answer.hint ELSE SensorsDefault]

(* No connection, no 200, or a body that does not parse. *)
SensorsFailed ==
    /\ currentState' = currentState
    /\ sensorsCall' = [at |-> uptime, now |-> now, ok |-> FALSE, outage |-> FALSE,
                       wait |-> SensorsDefault]

(* Fault: a failed fetch is retried without the wait. *)
RetriesSensorsAtOnce(t, call) ==
    IF call.ok THEN t + Clamp(call.wait, SensorsMin, SensorsMax) ELSE t

(* Fault: the backend's wait is used as it comes. *)
SensorsUnclamped(t, call) == t + call.wait

(* markSensorsUpdated *)
SensorsDueAfter(t, call) == t + Clamp(call.wait, SensorsMin, SensorsMax)

(* updateSwitchbotIfDue, updateSwitchbotFromBackend *)
UpdateSensors ==
    /\ pc = "sensors"
    /\ IF now >= nextSensorsDue
       THEN /\ RequestTakes
            /\ (\E monitor \in Monitor : SensorsAnswered(monitor)) \/ SensorsFailed
            /\ nextSensorsDue' = SensorsDueAfter(now, sensorsCall')
       ELSE UNCHANGED <<uptime, currentState, sensorsCall, nextSensorsDue>>
    /\ pc' = "forecast"
    /\ UNCHANGED <<sntp, epoch, now, wakeAt, scheduleVars, lastForecast,
                   nextSalahDue, nextForecastDue, screenVars, forecastCall>>

(* Fault: the answer is shown and not cached. *)
ForecastNotCached(data) ==
    /\ currentState' = [currentState EXCEPT !.forecast = data]
    /\ nextForecastDue' = now + ForecastInterval
    /\ forecastCall' = [at |-> uptime, now |-> now, ok |-> TRUE]
    /\ UNCHANGED lastForecast

(* updateForecastState *)
ForecastAnswered(data) ==
    /\ currentState' = [currentState EXCEPT !.forecast = data]
    /\ lastForecast' = data
    /\ nextForecastDue' = now + ForecastInterval
    /\ forecastCall' = [at |-> uptime, now |-> now, ok |-> TRUE]

WithLastForecast(s) ==
    IF lastForecast = NoValue THEN s ELSE [s EXCEPT !.forecast = lastForecast]

ForecastFailed ==
    /\ currentState' = WithLastForecast(currentState)
    /\ nextForecastDue' = now + ForecastRetry
    /\ forecastCall' = [at |-> uptime, now |-> now, ok |-> FALSE]
    /\ UNCHANGED lastForecast

(* updateForecastIfDue *)
UpdateForecast ==
    /\ pc = "forecast"
    /\ IF now >= nextForecastDue
       THEN /\ RequestTakes
            /\ \/ \E data \in Forecasts : ForecastAnswered(data)
               \/ ForecastFailed
       ELSE /\ currentState' = WithLastForecast(currentState)
            /\ UNCHANGED <<uptime, lastForecast, nextForecastDue, forecastCall>>
    /\ pc' = "sync"
    /\ UNCHANGED <<sntp, epoch, now, wakeAt, scheduleVars, nextSalahDue,
                   nextSensorsDue, screenVars, sensorsCall>>

------------------------------------------------------------------------------
earliestDue ==
    LET due == {nextSalahDue, nextSensorsDue, nextForecastDue}
    IN  CHOOSE t \in due : \A u \in due : t <= u

(* Fault: a timer in the past gives a negative delay. *)
SleepsBackwards == earliestDue - time

(* computeSleepMs *)
SleepTime == IF earliestDue > time THEN earliestDue - time ELSE 0

(* Fault: the regions are compared after the states are made equal. *)
DirtyAgainstItself ==
    IF hasPreviousState THEN computeDirtyRegions(currentState, currentState)
    ELSE EverythingDirty

(* updateUiDirtyState *)
DirtyNow ==
    IF hasPreviousState THEN computeDirtyRegions(previousState, currentState)
    ELSE EverythingDirty

(* syncOutputs, then sleepUntilNextDue as far as computing the delay. *)
SyncOutputs ==
    /\ pc = "sync"
    /\ panel' = renderUi(panel, currentState, DirtyNow)
    /\ hasPreviousState' = TRUE
    /\ wakeAt' = uptime + SleepTime
    /\ now' = 0
    /\ pc' = "asleep"
    /\ UNCHANGED <<clockVars, scheduleVars, lastForecast, timers,
                   currentState, previousState, calls>>

(* delayMs returns. *)
Wake ==
    /\ pc = "asleep"
    /\ uptime' = wakeAt
    /\ wakeAt' = 0
    /\ pc' = "start"
    /\ UNCHANGED <<sntp, epoch, now, scheduleVars, lastForecast, timers,
                   currentState, screenVars, calls>>

(* The device loses power at any moment: nothing of the above is persisted. *)
PowerCycle ==
    /\ pc # "boot"
    /\ uptime' = 0 /\ sntp' = "off" /\ epoch' = 0
    /\ pc' = "boot" /\ now' = 0 /\ wakeAt' = 0
    /\ oldDay' = -1 /\ scheduleDay' = 0 /\ hasValidTime' = FALSE
    /\ lastForecast' = NoValue
    /\ nextSalahDue' = 0 /\ nextSensorsDue' = 0 /\ nextForecastDue' = 0
    /\ currentState' = EmptyState /\ previousState' = EmptyState
    /\ hasPreviousState' = FALSE /\ panel' = BlankPanel
    /\ sensorsCall' = NoValue /\ forecastCall' = NoValue

Next ==
    \/ SntpAnswers
    \/ Boot
    \/ TickStart
    \/ UpdateSalah
    \/ UpdateSensors
    \/ UpdateForecast
    \/ SyncOutputs
    \/ Wake
    \/ PowerCycle

Spec == Init /\ [][Next]_vars

------------------------------------------------------------------------------
SensorCall == [at : Nat, now : Nat, ok : BOOLEAN, outage : BOOLEAN, wait : Int]
ForecastCall == [at : Nat, now : Nat, ok : BOOLEAN]

(* The period a forecast request is followed by. *)
ForecastWait(call) == IF call.ok THEN ForecastInterval ELSE ForecastRetry

Stages == {"boot", "start", "salah", "sensors", "forecast", "sync", "asleep"}

ClocksOK ==
    /\ uptime \in Nat /\ epoch \in Epochs \cup {0}
    /\ sntp \in {"off", "requested", "set"}
    /\ now \in Nat /\ wakeAt \in Nat
    /\ oldDay \in Int /\ scheduleDay \in Nat
    /\ nextSalahDue \in Nat /\ nextSensorsDue \in Nat /\ nextForecastDue \in Nat

ControlOK ==
    /\ pc \in Stages
    /\ hasValidTime \in BOOLEAN /\ hasPreviousState \in BOOLEAN

CallsOK ==
    /\ sensorsCall \in SensorCall \cup {NoValue}
    /\ forecastCall \in ForecastCall \cup {NoValue}

TypeOK == ClocksOK /\ ControlOK /\ CallsOK

(* A salah state on record is right for the minute its timer was set from: *)
(* the day's schedule is recomputed at midnight and after the first time   *)
(* sync, however long initTime took and whatever the clock jumped          *)
(* (updateSalahIfDue reads the clock again, src/main.cpp:119).             *)
SalahMatchesTimer ==
    currentState.salah # NoValue =>
        currentState.salah = SalahAt(nextSalahDue \div Minute - 1)

LongestForecastWait ==
    IF ForecastRetry > ForecastInterval THEN ForecastRetry ELSE ForecastInterval

(* No timer is ever further away than its period, whatever SNTP did to the *)
(* clock: nothing stops being polled.  The sensors' period is capped even  *)
(* when the backend asks for more (std::clamp, src/timing.cpp:30).         *)
TimersWithinReach ==
    /\ nextSalahDue <= time + Minute
    /\ nextSensorsDue <= time + SensorsMax
    /\ nextForecastDue <= time + LongestForecastWait

(* The loop never sleeps more than a minute, so the phase on the glass is  *)
(* refreshed and delayS * 1000 fits the int that computeSleepMs returns.   *)
SleepBounded ==
    pc = "asleep" => wakeAt - uptime \in 0 .. Minute

(* Both together: the loop comes back within a minute, and asks for        *)
(* everything within its period.                                           *)
NeverStuck == TimersWithinReach /\ SleepBounded

(* The clock on which a request was timed is still the clock in use.       *)
SameClock(call) == call # NoValue /\ call.now >= epoch

(* Two sensor polls are at least the wait the backend asked for apart, as  *)
(* clamped, less the time initTime took in front of the first one; a poll  *)
(* that failed waits like any other ("prevent hammering on error",         *)
(* src/main.cpp:138).  It holds as long as SNTP does not set the clock     *)
(* in between.                                                             *)
SensorPollSpaced ==
    (SameClock(sensorsCall) /\ sensorsCall' # NoValue /\ sensorsCall' # sensorsCall)
    => sensorsCall'.at - sensorsCall.at >=
          Clamp(sensorsCall.wait, SensorsMin, SensorsMax) - LongestCall

(* The same for the forecast, with two calls in front of it.               *)
ForecastPollSpaced ==
    (SameClock(forecastCall) /\ forecastCall' # NoValue /\ forecastCall' # forecastCall)
    => forecastCall'.at - forecastCall.at >= ForecastWait(forecastCall) - 2 * LongestCall

(* Neither backend is asked again too soon, whatever it answered.          *)
PollsSpaced == [][SensorPollSpaced /\ ForecastPollSpaced]_vars

(* An outage of the plant monitor blanks the rows for a while only: the    *)
(* device asks again after the backend's default wait, however long its    *)
(* waits may be otherwise (plant_proxy.py:218), behind at most three calls *)
(* that its loop had to make for something else.                           *)
OutageRepolled ==
    [][ (/\ sensorsCall # NoValue /\ sensorsCall' # NoValue
         /\ sensorsCall' # sensorsCall /\ sensorsCall.outage)
        => sensorsCall'.at - sensorsCall.at <= BackendDefault + 3 * LongestCall ]_vars

(* The forecast of the current state is the cached one at every step of a  *)
(* tick, through every swap of the two state buffers: a failed or skipped  *)
(* fetch leaves the last one that arrived (lastForecastData).              *)
ForecastKept ==
    currentState.forecast = lastForecast

(* The readings of a row change only with an answer of the backend: a      *)
(* failed fetch "leaves the previous reading in state (stale but visible)" *)
(* (src/main.cpp:139), through every swap of the two state buffers.        *)
Shown == IF pc \in {"salah", "sensors", "forecast", "sync"} THEN previousState
         ELSE currentState

RowsKeptOnFailure ==
    [][ (pc' = "asleep" /\ pc = "sync" /\ Shown.rows # Shown'.rows)
        => sensorsCall.ok /\ sensorsCall.now = now ]_vars

(* The loop implements Display: what a tick shows follows from what the    *)
(* tick before it showed, by one Display step, whatever happened between.  *)
Pipeline == INSTANCE Display WITH state <- Shown

ImplementsDisplay == Pipeline!Spec

(* Display's constants are those of the loop.                              *)
ASSUME PipelineAssumption ==
    /\ Pipeline!DisplayAssumption
    /\ \A e \in Epochs, t \in 0 .. Horizon + LongestCall : (e + t) \div Minute \in Minutes

(* README.md promises that forecast fetches are "rate-limited on retry to  *)
(* avoid hammering Open-Meteo after a failure".  A tick that sets the      *)
(* clock itself still times its requests from the clock it started with    *)
(* (src/main.cpp:264), so the fetch that failed is repeated at once.       *)
FailedForecastBacksOff ==
    [][ (/\ forecastCall # NoValue /\ forecastCall' # NoValue
         /\ forecastCall' # forecastCall
         /\ ~ forecastCall.ok)
        => forecastCall'.at - forecastCall.at >= ForecastRetry - 2 * LongestCall ]_vars
==============================================================================
