# Verification of esp32-home-display

TLA+ models of the home display: an ESP32 that shows prayer phases, room
readings and a forecast; the server it and the dashboard talk to; the
controller of a humidifier. TLC checks them on small instances, TLAPS proves
their main invariants for every value of the constants.

1. The system: parts, state, operations, what is hard
2. Modules and the code they model
3. Runs: what each shows, bounds, fairness
4. Proofs
5. Disagreements with the documentation
6. What is not modelled, and the plan

## 1. The system

| Part | State | Operations | Talks to |
|---|---|---|---|
| Prayer phases `src/salah/state.cpp` | none | `computeState` | main loop |
| Prayer schedule `src/salah/service.cpp` | none | `buildSchedule`, calendar and DST | main loop |
| Display `src/ui/`, `src/sensor_readings.cpp` | pixels and contrast of the OLED | `computeDirtyRegions`, `renderUi` | main loop |
| Main loop `src/main.cpp`, `src/timing.cpp`, `src/update.cpp` | `AppContext`: two state buffers, three due times, last forecast, schedules | `tick`, `sleepUntilNextDue` | all of the firmware |
| Clock and network `src/platform_arduino.cpp`, `src/network_arduino.cpp` | SNTP, WiFi, connect budget of a tick | `initTime`, `httpGet` | server, Open-Meteo |
| Configuration, logs `src/config.cpp`, `src/log.cpp`, `src/file_log.cpp` | files on the device | load once, append, rotate | boot, everyone |
| Ingestion `server/app/service.py`, `main.py` | tables `sensors`, `switchbot_readings` | live reading, bulk upload | gateways, PostgreSQL |
| Sync state, reading queries `server/app/service.py` | none of their own | gaps to upload, windows and buckets | gateways, dashboard |
| Rate limiting `server/app/api_limits.py` | a token bucket per key | `consume` | in front of every route |
| Plant monitor proxy `server/app/plant_proxy.py` | registers sensors | live cards, histories, device endpoint | the Pi, PostgreSQL |
| Dashboard `server/static/app.jsx` | React state, zoom cache, poll timer | range, zoom, poll | server |
| Weather and prediction `server/app/openmeteo.py`, `predict.py` | caches with a time to live | fetch, merge | Open-Meteo |
| Humidifier controller `server/app/levoit_*.py`, `server/tools/run_levoit_ah_controller.py` | none; the device keeps mode and target | `run_once` in a loop | server, VeSync |

What makes these parts hard to test, and what has to be true of them:

- **Display.** Only regions found dirty are drawn again. A comparison that is
  coarser than the drawing leaves old pixels, after a sequence of ticks nobody
  writes a test for. To show: the panel is what a full draw of the state
  would give.
- **Main loop.** Three timers on a clock that SNTP sets at an unknown moment,
  in the middle of a tick or between two; requests that take time and fail;
  two state buffers that change places every tick; power that is cut. To show:
  no timer gets out of reach, the device neither hammers a server nor stops
  polling, the phase is right for the minute, and what a failure must keep is
  kept.
- **Ingestion.** Handlers run in a thread pool, each with its transaction.
  Registration of a sensor, reading the old values and the upsert are separate
  statements; rows are locked in the order of the request; clients repeat
  requests they had no answer to. To show: the first write wins, no reading
  without its sensor, answers are true, nothing stays locked.
- **History sync.** A gateway asks for gaps and uploads them while live readings
  come in; answers are cut per sensor and in total. To show: the cuts are kept
  and only put gaps off.
- **Rate limiting.** Refill, cap and ceiling at their edges. To show: what
  `limit` and `period` mean, and that `Retry-After` is neither short nor long.
- **Live cards.** Two polls and the ingestion register the same sensor. To
  show: everybody is told the id that is stored, no sensor is left out, a list
  that is missing is asked for again in time.
- **Device endpoint.** The display polls the plant monitor through the server;
  an outage comes as an empty list with 200. To show: its rows do not stay blank
  for longer than the server asked.
- **Weather and predictions.** An answer is put together from three fetches, each
  of which may fail, over windows that are cut at a midnight that may pass
  meanwhile; it is cached whole or in part, and predictions are cached on top.
  Two handlers overwrite each other. To show: no hour a service answered for is
  missing, the times to live add up to what one would think, and parts do not
  stay.
- **Humidifier.** Mode and target are two commands over a network that loses
  answers, to a device its owner uses too, from runs that may overlap. To
  show: a run leaves the device where it computed, and in a quiet house the
  device comes to rest and is left in peace, unless the threshold is 0.
- **Dashboard.** Histories, zooms and polls overlap and are answered in any
  order while the user changes range and zoom; a cache is filled by answers
  that may be overtaken. To show: the axis and the rows belong together, no
  reading is drawn twice, what the cache serves has no gap, and a page that
  stays open comes to show each reading or a newer one.

## 2. Modules and the code they model

    SalahPhases <- Screen <- Display <- MCDisplay
                         \
                          <- Firmware <- MCFirmware      Firmware implements Display
    Ingest <- MCIngest
    Sync <- MCSync
    RateLimiter
    Meters <- MCMeters
    Weather <- MCWeather
    Levoit <- MCLevoit
    Dashboard <- MCDashboard
    Sync, RateLimiter <- LimitsProofs
    the other *Proofs extend the module they are named after

**SalahPhases** is `computeState` as an operator: the chain of early returns
becomes "the first edge of the schedule still ahead". The schedule of a date is
the constant `ScheduleOf`; the prayer-time library is not in the repository.
`SalahAt(t)` is what should be shown in minute `t` since the epoch.

**Screen** holds the operators of the display: `computeDirtyRegions` with its
comparisons, and `renderUi` with the drawing of each region. A region is
represented by what it shows (an integer, a name, its colours), never by
pixels. Temperatures are tenths of a degree, so both roundings of the code
(`lround` in the comparison and the sensor rows, `static_cast<int>` in the
forecast) are computed. A missing optional is `NoValue`.

**Display** is the abstract pipeline: a tick brings any state the updaters
could bring (the salah state moves with the clock by at most `MaxTickGap`
minutes, neither it nor a forecast disappears again), and the dirty regions are
drawn; power may be cut at any time.

**Firmware** is the loop. `pc` splits a tick where wall-clock time passes:
`boot`, `start` (read the clock, swap the buffers), `salah`, `sensors`,
`forecast`, `sync` (draw, compute the sleep), `asleep`. `uptime` is physical
time, `epoch` what setting the clock added, so `time = uptime + epoch` is
`std::time(nullptr)`; it jumps when `initTime` succeeds or, in the background,
when SNTP answers after `initTime` gave up. `now` is the time `tick` read at
its start and hands to the updaters, as in the code. `currentState` and
`previousState` are the two buffers. `sensorsCall` and `forecastCall` are
history variables: when the last request of each kind was made and what it was
told to wait. The poll of the sensors is composed with the server's end of it:
`Monitor` is what the plant monitor knows or that it is down, `meter_latest_v2`
the answer of `server/app/plant_proxy.py` (an outage is 200, an empty list and a
wait of `BackendDefault`), `SensorsAnswered` what the display makes of that, and
`sensorsCall.outage` remembers an outage. Every field of `AppContext` that changes after boot is a
variable.

`ImplementsDisplay` instantiates `Display` with the state a full tick has
reached (`Shown`: the previous buffer while a tick is in progress) and is
checked as a property: whatever the timers and failures do, the panel is drawn
by `Display` steps.

**Ingest** splits the handlers of `POST /switchbot/reading` and
`POST /switchbot/bulk` at their SQL statements: look up the sensor, insert
(flush) it, read the existing values, upsert, commit. A row has an owner, the
transaction that inserted it, until that commits. What PostgreSQL does at READ
COMMITTED (visibility, row locks, waiting for them, ending a deadlock) is
external and modelled as the code relies on it. `locks` is who holds the row of a
key: an upsert locks the row it inserts and also a row it finds, though its WHERE
leaves that as it is, until the transaction ends. So bulks wait for each other,
and may deadlock, over readings that were stored long ago. Left out: sensor names,
and with them the lock on the row of a sensor whose name changes. Both data columns are NOT NULL,
so a stored reading is one value and COALESCE never changes it; the `merged`
answers cannot occur.

**Sync** is step 1 of the history sync, `POST /switchbot/sensors`:
`get_or_create_sensors_with_sync_state` takes one sensor after the other
(`SyncSensor`), finds the gaps among the newest stored timestamps and returns
the newest of them as far as the two caps allow. The gateway is external: it
uploads what the meters remember of the intervals (step 2, modelled in `Ingest`
and here one action that stores a piece) and asks again while the answer was
capped. `watched` is auxiliary, a gap that was open and could be filled when the
sync began. Left out: names, the first and the latest timestamp, rejections.

**RateLimiter** counts tokens in units of which `Period * Second` make one, so
that a bucket gains `Limit` units a tick and the floating-point arithmetic of
the code becomes exact integers; the error of floats themselves is left out.
`consume` is one step: the dependency that calls it is asynchronous and does
not await inside, so the event loop serialises requests. A restart empties the
store and starts a new history. `window` and `denied` are observers: a count of
grants since a moment of the observer's choosing, and the end of the oldest
`Retry-After`.

**Meters** is `latest_v2_entries`: fetch the meters, resolve each row to a
registered sensor (look up, insert, on a lost race take the winner), then the
same for the plants. A row of the table carries an id named after who inserted
it. The ingestion appears as the environment that registers and commits or
rolls back. The readings that pass through are left out.

**Weather** is `GET /openmeteo/weather` and `GET /predict/temperature`. A handler
looks its window up, fetches the archive, the forecast and, if the archive did
not answer, the past days of the forecast (one action each, as time, midnight
and other handlers come between), stores and answers; for predictions it goes on
to train a model per sensor. A day stands for its hours: what matters of an
hour is which service it came from. `made`, the age of the oldest fetch behind
an answer, and `whole` are auxiliary, and so is `answered` but for `archive_ok`.
A cache entry that nobody would take any more is dropped by the tick that makes
it so. Left out: the models themselves, the numbers of the weather.

**Levoit** is `run_once`: fetch the reading, fetch the state of the device and
decide, connect again, switch to auto mode if need be, set the target. The
temperature enters as the relative humidity that gives the configured absolute
humidity at it, in half percents, so that clamping, Python's rounding (ties to
even) and the threshold are computed. Each process has the
`humidity_change_threshold` it loaded from app.json (`threshold`, which need not
be the same for all; that a process is restarted with an edited file is left
out); `config.py:252-258` accepts 0. Any number of runs may overlap. A call
may fail before or after the device obeyed, and a process may be killed. The
age of a reading is left out, as nothing in the code looks at it.

**Dashboard** is the page, one action per callback: the list of sensors that
arrives, a click on a range, a history that is complete (`Promise.all`), the
timer of the poll and its answer, the debounce timer of a zoom and what its
callback does (take the cache, show nothing but the forecast, or fetch). An
effect that a change of state triggers is part of the action that changes it.
`loads` and `zoomFetches` are the requests under way, each with a place for the
rows of every sensor; the server (and the Pi behind it, which thins out alike)
answers them one at a time from `readings`, which grow meanwhile. A reading is
the time it was taken at; times are in units that are whole hours of the ranges.
`drawn` and the field `until` of the cache are auxiliary. A page may be
reloaded at any moment. Left out: the weather, the predictions, the selection of
sensors and metrics, the spinner and the error cards; the delay between polls is
any time.

Operators introduced by "Fault:" in a comment are variants of the definition
they stand beside, as a plausible mistake would make it; no specification uses
them. They document which property notices which mistake.

## 3. Runs

| Run | Shows | Distinct states |
|---|---|---|
| `display` | the panel is fresh (`RowsFresh`, `MinutesFresh`, `NameFresh`), the forecast within a degree | 2 thousand |
| `firmware` | timers, sleeping, polling distances, what an outage costs, what a failure keeps, `ImplementsDisplay` | 334 thousand |
| `ingest` | first write wins, true answers, what is inserted is reported, every request ends | 56 thousand |
| `sync` | caps are kept, every gap is closed in the end | 222 thousand |
| `limiter` | `WindowBound`, `RetryAfterExact` | 2.7 million |
| `meters` | ids agree, no sensor forgotten, outages retried, every poll ends | 198 thousand |
| `weather` | the hours of an answer, the ages of what is cached, parts expire | 156 thousand |
| `levoit` | runs settle, the device converges, commands cease unless the threshold is 0 | 336 thousand |
| `dashboard` | axis and rows belong together, no reading twice, the charts come to show each reading or a newer one | 181 thousand |
| `display_flip`, `firmware_backoff`, `ingest_lost` | each refutes one statement of the documentation, see 5 | |

The properties, in the words that matter to a reader:

- `RowsFresh`, `MinutesFresh`, `NameFresh`: the region is what a full draw
  would give, after any sequence of skipped redraws. `MinutesFresh` is the
  subtle one: the countdown has no dirty condition for its inverted colours. It
  is right because every change of the colours comes with a change of the
  number, which in turn needs every phase to be longer than the time between
  two ticks; the instance has phases of three minutes and gaps of two.
- `SalahMatchesTimer`: the salah state on record is `SalahAt` of the minute its
  timer was set from, across midnight, slow ticks and clock jumps.
- `NeverStuck` (`TimersWithinReach` and `SleepBounded`): no due time is further
  away than its period; the loop sleeps at most a minute (so the milliseconds fit
  an `int`).
- `PollsSpaced`: two requests for sensors, or two for the forecast, are as far
  apart as they were told, less the time calls in front of the first one took,
  as long as nobody set the clock between them. `FailedForecastBacksOff` is the
  same without that exception, and fails.
- `OutageRepolled`: after an answer that blanked the rows the next request comes
  within the server's default wait and at most three calls the loop had to make
  for something else, even when the clock is set meanwhile.
- `ForecastKept`, `RowsKeptOnFailure`: through every swap of the buffers.
- `AnswersTrue`, `FirstWriteWins`, `InsertedIsCreated`, `EventuallyAnswered`
  (ingestion), `WindowBound`, `RetryAfterExact`, `IdsAgree`, `NothingMissed`
  (`NoSensorForgotten` and `OutageRetried`), `RunSettles`, `Converges`,
  `Quiesces`: as in section 1, stated beside their
  definitions. With a threshold of 0 a command goes out at every poll, as no
  change is less than 0, and `Quiesces` says so.
- `RangeComplete`: the page does not promise that the history shown is that of
  the range chosen last (an older one may overtake it), but whatever history it
  shows, axis and rows are of one request, and the rows have no gap.
- `GapsClosed`: asking again while the answer is capped closes every gap. The
  exception is a flaw of the protocol to know of: gaps the meters have no
  readings for are answered every time, the newest first, and once they take all
  the places (`Crowded`) older gaps are never asked for. Without the exception
  TLC finds that.
- `Covered`: a cached answer has every hour of its window that a service answered
  for, each from the service it should be from. Two oddities are part of it: the
  fallback brings hours beyond the end of the window, and after midnight its
  `past_days` reach one day less far back. `NothingOld`: the weather a page is
  given was fetched at most a time to live and a slow request ago, the weather
  behind predictions at most twice that. `PartsExpire`: a part is cached like
  the whole, and may be stored over it, but once the services answer that ends
  for good, however often pages ask.
- `NoReadingTwice`: a history and a poll may both bring a reading, in either
  order. `NeverLeftBehind`: a page that stays open comes to show any stored
  reading or a newer one; a history that was asked for earlier may drop a polled
  reading again, but not for good. That every reading is drawn does not hold: a
  poll brings the newest one alone (`server/static/app.jsx:217-227`), and one
  superseded between two polls appears only with the next history.
- `ZoomCacheComplete`, the cache serves no gap before the time it was asked
  for, needs several windows and ranges to matter, more than the run has room
  for; it is proved instead. A zoom answer that arrives after the zoom was reset
  fills the zoomed view and its cache again (`server/static/app.jsx:89-90`): the
  page does that, and no property speaks of it.

### Bounds

- `display`: a day of 32 minutes in which every phase occurs, AsrMakruh is
  longer than the flip (2 minutes) and Isha crosses midnight; 39 minutes, so
  the next Fajr is reached. One sensor row (rows do not interact), readings on
  both sides of a rounding step, negative, incomplete and absent; forecasts on
  both sides of a rounding and of a truncation step, of length 0, 1 and 2.
- `firmware`: minutes of 2 units and a day of 16 minutes; the clock is set in
  AsrMakruh, and `Horizon` = 8 units after power-on reaches the flip, Maghrib,
  Isha and midnight through the jump and the sleeps. Calls take no time or a
  whole minute. The backend asks for nothing, for less than the minimum and for
  more than the maximum; its wait after an outage differs from the device's own
  default, so that a mix-up of the two shows.
- `ingest`: two live requests that disagree about one timestamp of a sensor
  that may be unknown, two bulks over two timestamps in opposite orders (so
  that they can deadlock), one of them with an invalid and a repeated reading;
  one resend (`MaxResends`), with which a bulk meets the other over rows that
  are committed already.
- `sync`: two sensors, readings at five moments of which the meters miss at most
  two (`MaxMissed`), caps of two per sensor and two in total, so that the first
  sensor can leave the second no place or one, four timestamps looked at. Of the
  caps only the one in total binds in the instance; the one per sensor is in the
  proof of `SyncTypeOK`. For `GapsClosed` a gap counts as closed once the first
  piece of it is uploaded. A request names a sensor once, as the gateway does;
  the schema does not ask for it (`server/app/switchbot.py:45-52`). The
  retention is as long as the behaviour: both limits drop the oldest timestamps.
- `limiter`: two keys, two requests in three seconds, two ticks a second;
  `Horizon` = 8 ticks, longer than it takes to fill an empty bucket.
- `meters`: two requests that poll for ever, two MACs, one of which the Pi
  lists among the meters and among the plants, a bad row, requests for
  everything and for one id.
- `weather`: two days, on the first of which two handlers overlap and on the
  second one at a time, which includes handlers that midnight overtakes
  (`AtOnce`); a time to live of 2 ticks, and at most 1 tick (`Slow`) after the
  lookup, so that a slow handler stores what others see expire; two sensors. The
  page asks for the window the predictions use, so that both share a cache
  entry, and for one that is rejected. A window that ends before today, for
  which the fallback brings hours beyond the end, is in the proof of `Covered`
  and not in the instance.
- `levoit`: the loop and one run by hand, limits 4 and 7 percent, ideals below,
  between (a tie that rounds up) and above them, thresholds of 2 for both
  processes, 0 for both, and 0 for one (`MCSettings`), and `MaxDisturbances` = 3 faults or changes per behaviour: enough for a
  half-done command, an owner and a change of the room to meet.
- `dashboard`: one sensor (the rows of two do not interact; that answers come
  separately matters to `Promise.all` only, which waits for all), a short range
  that shows each reading and a long one that thins them out, one zoom
  window, a clock of two moments, and at most two requests under way
  (`MaxRequests`), enough for one to overtake the other.

### Fairness

- `ingest`: weak fairness of "some handler takes a step". The thread pool does
  not idle while a handler can run, and the database ends deadlocks.
- `meters`: strong fairness per request, because a waiter for a unique key is
  enabled and disabled by transactions that come and go; PostgreSQL wakes
  waiters in turn. A live transaction ends (weak fairness): its handler has
  nothing to wait for that a poll holds, as a poll commits every sensor at once.
- `levoit`: weak fairness of each loop and of the meter. Faults, the owner and
  the room are bounded instead, so `Converges` speaks of the time after them.
- `dashboard`: weak fairness of the poll timer and of the answer's callback,
  which the browser runs; strong fairness of "the list of sensors loads" and of
  "a poll is answered with all the Pi has": a network may fail any number of
  times, but not every time. Histories and zooms need none.
- `weather`: weak fairness of each handler (a thread of the pool) and of time.
  Services may fail as often as they like; `PartsExpire` says what holds if at
  some moment they recover for good (`<>healthy`, which nothing forces).
- `sync`: weak fairness of the handler and of the gateway's uploads and repeated
  questions. Nothing makes a gateway begin a sync.
- `display`, `firmware`, `limiter` state safety only; `NeverStuck` is
  the safety property that stands for "polling never stops".

The systems of `display`, `firmware`, `sync`, `limiter`, `meters`, `weather`,
`levoit` and `dashboard` can always take a step; `firmware` and `limiter` are
stopped only by their horizon, beyond which power cuts and observers still act. `ingest` has an explicit step for "all
requests are over".

## 4. Proofs

All theorems hold for every value of the constants that satisfies the named
assumptions of the modules, with no bound on clocks, horizons or the number of
requests, keys, rows, windows, zooms or runs. TLC evaluates these assumptions in
the runs. Most give a constant its type and range. Three say something about the
world, and a fourth is a hypothesis of two theorems:

- `SalahAssumption`: every phase of a day begins within that day. In which order
  is left open: `asr_makruh_minutes` may be 0, or reach back before Asr.
- `CalendarAssumption` (Firmware): SNTP sets a date, which is later than any
  uptime; the gap `MaxTickGap` between two ticks covers a minute and two calls,
  and is less than a month, as the loop recognises a new day by its number in
  the month.
- `PipelineAssumption` (Firmware): the constants it hands to `Display` satisfy
  `DisplayAssumption`, and `Minutes` has every minute up to the horizon.
- `PhasesOutlastTicks` (Display; the hypothesis of `DisplayMinutesFresh` and
  `FirmwareGlassCountsDown`): a phase is longer than the gap between two ticks.
  Unless `asr_makruh_minutes` (20 by default) is set to next to nothing, real phases
  last a quarter of an hour or more, and a tick comes every minute. The
  `display` run assumes it (`PhaseLengthAssumption` of `MCDisplay`); the
  compressed day of the `firmware` run, with phases of a single minute, does
  not satisfy it, so what that run checks does not rely on it.

- **DisplayProofs**: `DisplayTypeOK`, `DisplayRowsFresh`, `DisplayNameFresh`,
  `DisplayForecastWithinADegree`, `DisplayMinutesFresh`. The first two properties are inductive once it is known that
  equal comparisons draw alike (`EqualRowsDrawAlike`). For the forecast the
  invariant is strengthened: what is on the panel is the drawing of some
  forecast that *rounds* to the present one, and two numbers that round alike
  truncate within one of each other. `MinutesFresh` is inductive as it stands;
  the work is in the step that does not draw: two states at most `MaxTickGap`
  minutes apart that show the same number are the same state
  (`CountdownMoves`), since the deadlines of two phases are further apart than
  that (`DeadlinesApart`).
- **FirmwareProofs**: `FirmwareTypeOK`, `FirmwareNeverStuck`,
  `FirmwareOutageRepolled`, `FirmwareForecastKept`, `FirmwareRowsKeptOnFailure`,
  `FirmwarePollsSpaced`, `FirmwareSalahMatchesTimer`, `FirmwareImplementsDisplay`.
  The clocks and timers form one inductive invariant, `Inv`: the clock is set
  at most once and only forwards (`ClockInv`: before that `epoch` is 0, and the
  `now` a tick works with is never ahead of the clock), so that a due time
  counted from `now` is within its period of the clock (`TimersWithinReach`).
  The two buffers form the other, `BufferInv`: before the swap `currentState`
  and after it `previousState` is what was shown. For `FirmwareOutageRepolled` a
  third, `LateInv`, bounds at every stage of the loop how late it may be after an
  outage: it never sleeps past the due time, and each call in front of the next
  request adds at most `LongestCall`. `SpacedInv`, for `FirmwarePollsSpaced`,
  ties the due time to the `now` of the request it was computed from, and that
  `now` to the moment of the request: they differ by the calls of one tick, or
  the clock was set since. `ScheduleInv`, for `FirmwareSalahMatchesTimer`, says
  that the schedule in use is that of the day of the last update (by the day of
  the month, which is where the month matters), and how far behind the clock
  the salah timer may be at each stage. For `FirmwareImplementsDisplay` the
  refinement mapping is `Shown`: `SyncOutputs` is the tick of `Display`, a loss
  of power is its loss of power and every other action a stutter.
  `RefinementInv` collects what the updaters have done to the state in
  progress, as a change `Display` allows (`TickBrings`); that the salah state
  moves by at most `MaxTickGap` minutes is where `ScheduleInv` is needed.
  Along it the theorems of `DisplayProofs` carry over to the device
  (`Glass`, an instance of that module on `Shown`, whose assumptions are proved
  in `GlassAssumptions`): `FirmwareGlassFollowsLoop` for rows, name, contrast and
  forecast, `FirmwareGlassCountsDown` for the countdown. With
  `SalahMatchesTimer` they give `FirmwareGlassOnTime`, from the clock to the
  pixels: a device that sleeps shows the phase of the minute its salah timer was
  set in, at the contrast of that phase.
- **IngestProofs**: `IngestTypeOK`, `IngestNoOrphans`, `IngestNothingHeldAfterwards`,
  `IngestFirstWriteWins`, `IngestAnswersTrue`, `IngestInsertedIsCreated`.
  `IInv` says who may own which rows when (`Ownership`: only between
  `ensure_sensor` and the end of the transaction, only of the sensor the
  request carries, which is then its own or committed) and that only a transaction
  under way holds locks (`LocksOK`). `AInv` relates the
  answers given so far, and the values seen but not yet answered, to rows that
  are committed or owned by the request; it needs `IInv` and first-write-wins,
  since others may commit rows meanwhile. `InsertedIsCreated` follows from it: a value
  that was seen is still in the table, so nothing is inserted then.
- **LimitsProofs**: `SyncTypeOK`, `SyncClosedWhenOver`, `LimiterTypeCorrect`,
  `LimiterWindowBound`, `LimiterRetryAfterExact`: the limits of the server's API.
  The caps of `SyncTypeOK` rest on
  `NewestGapsBound` (gaps are pairs of neighbours, so they start at different
  times, and `intervals[-n:]` has at most `n` of them) and on each sensor of a
  request being read once. `ClosedWhenOver` is the safety half of `GapsClosed`,
  without its exception: a gap that could be filled when the sync began, of a
  sensor that was asked about, is closed when the gateway stops. `NothingLeftOut`
  carries it through the answer and the uploads: of a sensor read without a
  warning, a gap that is still open is in the answer; an answer within its limit
  is whole (`NewestGapsWhole`), time and readings open no gap between earlier
  times (`OpenWasOpen`), and between the ends of an open gap the server has nothing
  (`OpenIsBare`), so a gap leaves the list only when it is closed. For the limiter,
  `Potential` adds the tokens that are left to the grants of a window; `Promise`
  says that the line on which a denied bucket refills reaches one token at the
  promised tick and not a second before, which a further denial does not change.
- **MetersProofs**: `MetersTypeOK`, `MetersIdsAgree`, `MetersNothingMissed`. A
  committed sensor never changes (`KnownStays`), so what has been answered about
  it stays true (`Agreed`). `Listed`: whatever a list names has been answered or
  is still ahead; `Hinted`: a list that has been asked for has left its rows or
  the default time to come back. Of the others a request needs only that they
  leave the row it is about to commit alone (`HeldStays`).
- **WeatherProofs**: `WeatherTypeOK`, `WeatherCovered`, `WeatherNothingOld`. The
  invariant says for each stage of a handler which hours it has from whom
  (`InOrder`), that at most one midnight has passed since it began (`SameNight`),
  and how old its weather can be (`Aged`).
- **LevoitProofs**: `LevoitTypeOK` (with it: every command lies within the
  limits, by `CommandedInLimits`) and `LevoitRunSettles`, for any thresholds, 0
  included, strengthened by what
  a run relies on half way (`HasCommand`, `InAuto`).

- **DashboardProofs**: `DashboardTypeOK`, `DashboardRangeComplete`,
  `DashboardNoReadingTwice`, `DashboardZoomCacheComplete`, for any number of
  sensors, requests and zooms. What the server answers is complete for its
  window and names nothing twice (`RowsServed`, which rests on `AscendingLists`:
  the order of a set of times exists and lists all of it). A window ends when it
  was asked for, so later readings fall behind it and an answer stays complete
  however long it is under way (`CoversKept`). The invariant `DInv` says that of
  every place of every request, of the history and of the cache, that all
  histories under way are for the sensors of the page, and that none is under
  way before the list of sensors has come. Of polls it needs only that merging
  appends (`MergedKeeps`).

`NoOrphans` and `NothingHeldAfterwards` (ingestion), `ClosedWhenOver` (sync),
`ZoomCacheComplete` (dashboard) and the three theorems about the glass of the
device are proved and have no run of their own.

Only model-checked: everything that must happen in the end (`EventuallyAnswered`,
`GapsClosed`, `PartsExpire`, `Converges`, `Quiesces`, `NeverLeftBehind` and the
ends of the polls), as liveness under fairness is outside the prover. That
`Rows` and the choice of points agree with the code on arithmetic beyond what
the proofs use is left to the runs as well: the proofs hold for any number of
points that is at least one.

## 5. Disagreements with the documentation

- `display_flip`: the phase name keeps its colours when the last ten minutes of
  AsrMakruh begin (`src/ui/state.cpp:27`), although "changed regions are
  redrawn" (`docs/architecture.md:112`).
- `firmware_backoff`: the tick that sets the clock times its requests from the
  clock before (`src/main.cpp:264`); a forecast that fails in it is fetched
  again at once, against `README.md:193`.
- `ingest_lost`: the loser of two concurrent live uploads is answered
  `created` (`server/app/service.py:397`), against
  `server/docs/architecture.md:128`.

Five more were met and have no run of their own. The forecast is compared
rounded and drawn truncated (`src/ui/display.cpp:123`), so a changed number may
stay on the panel, though never by more than one degree: `ForecastWithinADegree`
is checked and proved. `reading_max_age_seconds` of `README.md:151` does
not exist in the code, so a reading of any age commands the humidifier. And the
page polls only when it knows a sensor (`server/static/app.jsx:193`), while the
poll is what registers the sensors of the plant monitor: with an empty table
nothing "back-fills" it (`server/app/plant_proxy.py:125`). The zoom cache
compares the number of points, not their distance (`server/static/app.jsx:66`): a
zoom within a cached zoom never asks for more points in total, so it is served
the coarse rows, against `server/docs/architecture.md:325`. Finally,
`server/docs/architecture.md:388-389` has the controller send a command only if the
change exceeds the threshold; the strict `<` of
`server/app/levoit_controller.py:77` sends one at equality too, as line 415 of
the same document (the minimum change) and the tests have it.

## 6. Not modelled, and the plan

Not modelled, and why: parsing and validation of configuration and of JSON
bodies (sequential, no state), logs, the desktop build, login and API keys
(single comparisons), database migrations, probe scripts, rendering of charts.
Left out of modelled parts: identity strings of rows, soft range warnings of
the ingestion, sensor names, raw paging of readings (nothing in the repository
pages), the histories of the plants, which the server passes through. The probe
scripts in `tools/` are run by hand: they write down what they hear over
Bluetooth, and nothing else uses it.

Planned, in this order:

1. **Network**: the WiFi connect budget of a tick (`network_connect_budget.h`),
   refined into `Firmware`'s requests.
2. **Algorithms** as operators against reference definitions: calendar and DST of
   `salah/service.cpp`.
