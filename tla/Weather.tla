-------------------------------- MODULE Weather --------------------------------
(***************************************************************************)
(* The weather beside the sensors' charts and the predictions made from    *)
(* it: GET /openmeteo/weather (server/app/openmeteo.py) puts an answer     *)
(* together from two services of Open-Meteo and keeps it for CacheTTL; GET *)
(* /predict/temperature (server/app/predict.py) trains a model per sensor  *)
(* on such an answer and keeps the predictions for CacheTTL in a cache of  *)
(* its own.  Handlers run in a thread pool and take no lock.               *)
(*                                                                         *)
(* A day stands for its hours.  A cached answer has the age that           *)
(* time.monotonic() gives it, and is dropped when nobody would take it any *)
(* more.  Midnight comes at any moment, also under a request.              *)
(***************************************************************************)
EXTENDS Integers, FiniteSets

CONSTANTS
    Requests,       \* the handlers at work
    FirstDay, LastDay,  \* the days on which the model runs
    Asked,          \* the windows the dashboard asks for, from today on
    MaxWindow,      \* _MAX_QUERY_WINDOW, in days
    TrainDays, ForecastDays,    \* 14 and 7
    Trained,        \* the SwitchBot sensors with 24 hours of readings
    CacheTTL,       \* 30 * 60, in ticks
    Slow,           \* how long it may take after the lookup: a bound of the model
    AtOnce,         \* AtOnce[day]: the handlers that overlap: a bound of the model
    None

Days == (FirstDay - TrainDays) .. (LastDay + ForecastDays)

ASSUME WeatherAssumption ==
    /\ {FirstDay, LastDay} \subseteq Int /\ FirstDay <= LastDay
    /\ {TrainDays, ForecastDays, Slow, MaxWindow} \subseteq Nat
    /\ CacheTTL \in Nat \ {0}
    /\ AtOnce \in [FirstDay .. LastDay -> Nat \ {0}]
    /\ \A w \in Asked : \A i \in {1, 2} : w[i] \in -TrainDays .. ForecastDays

VARIABLES
    healthy,        \* both services and the database answer from now on
    today,
    weatherCache,   \* _cache of openmeteo.py, by window
    predictions,    \* _cache of predict.py, which has one key
    req             \* what each handler is at

vars == <<healthy, today, weatherCache, predictions, req>>

Sources == {"none", "archive", "forecast"}
Fetches == {"archive", "forecast", "fallback"}

\* What a request has of the weather; day and answered are history but for
\* archive_ok, and so is made, the time since the oldest fetch.
NoWeather == [day |-> FirstDay, answered |-> {},
              points |-> [d \in Days |-> "none"], made |-> 0]

Idle == [pc |-> "idle", kind |-> "weather", window |-> <<FirstDay, FirstDay>>,
         took |-> 0, weather |-> NoWeather]

AtWork(r) == req[r].pc # "idle"

Busy == Cardinality({r \in Requests : AtWork(r)})

Init ==
    /\ healthy = FALSE
    /\ today = FirstDay
    /\ weatherCache = [w \in Days \X Days |-> None]
    /\ predictions = None
    /\ req = [r \in Requests |-> Idle]

Covers(points, days) == \A d \in days : points[d] # "none"

Window(w) == w[1] .. w[2]

------------------------------------------------------------------------------
(* Other windows are rejected with 400, before anything is looked up.      *)
Valid(w) == w[1] <= w[2] /\ w[2] - w[1] <= MaxWindow

AskWeather(r) ==
    /\ req[r].pc = "idle" /\ Busy < AtOnce[today]
    /\ \E w \in Asked :
          /\ Valid(w)
          /\ req' = [req EXCEPT ![r] = [@ EXCEPT !.kind = "weather", !.pc = "lookup",
                        !.window = <<today + w[1], today + w[2]>>]]
    /\ UNCHANGED <<healthy, today, weatherCache, predictions>>

(* While there are predictions in the cache they are the answer.           *)
AskPredictions(r) ==
    /\ req[r].pc = "idle" /\ Busy < AtOnce[today]
    /\ predictions = None
    /\ req' = [req EXCEPT ![r] = [@ EXCEPT !.kind = "predict", !.pc = "lookup",
                  !.window = <<today - TrainDays, today + ForecastDays>>]]
    /\ UNCHANGED <<healthy, today, weatherCache, predictions>>

(* _get_openmeteo_weather returns: to the page, or to the predictions.     *)
WeatherIs(r, weather) ==
    req' = [req EXCEPT ![r] =
        IF @.kind = "weather" THEN Idle
        ELSE [@ EXCEPT !.pc = "sensors", !.weather = weather]]

(* Fault: a hit makes the entry young again. *)
HitRenews(r) ==
    LET w == req[r].window IN
    /\ req[r].pc = "lookup" /\ weatherCache[w] # None
    /\ WeatherIs(r, weatherCache[w].weather)
    /\ weatherCache' = [weatherCache EXCEPT ![w].age = 0]
    /\ UNCHANGED <<healthy, today, predictions>>

(* The answer is the one in the cache, whatever it lacks, ...              *)
Hit(r) ==
    LET w == req[r].window IN
    /\ req[r].pc = "lookup" /\ weatherCache[w] # None
    /\ WeatherIs(r, weatherCache[w].weather)
    /\ UNCHANGED <<healthy, today, weatherCache, predictions>>

(* ... or that of up to three fetches, for the date on which it began.     *)
Miss(r) ==
    /\ req[r].pc = "lookup" /\ weatherCache[req[r].window] = None
    /\ req' = [req EXCEPT ![r].weather = [NoWeather EXCEPT !.day = today],
                          ![r].pc = "archive"]
    /\ UNCHANGED <<healthy, today, weatherCache, predictions>>

(* Fault: the first source of an hour is kept. *)
FirstSourceWins(points, days, source) ==
    [d \in Days |-> IF d \in days /\ points[d] = "none" THEN source ELSE points[d]]

(* The merge by timestamp: a forecast replaces what is there. *)
Merge(points, days, source) ==
    [d \in Days |-> IF d \in days /\ (points[d] = "none" \/ source = "forecast")
                    THEN source ELSE points[d]]

(* One call of _fetch_meteo, if it is wanted; its failure is only logged.  *)
Fetched(weather, name, wanted, days, source) ==
    (IF wanted
     THEN {[weather EXCEPT !.answered = @ \cup {name},
                           !.points = Merge(@, days, source)]}
     ELSE {weather})
    \cup (IF healthy THEN {} ELSE {weather})

Earlier(d, e) == IF d < e THEN d ELSE e
Later(d, e) == IF d < e THEN e ELSE d

FetchArchive(r) ==
    LET start == req[r].window[1]
        end   == Earlier(req[r].window[2], req[r].weather.day)
    IN  /\ req[r].pc = "archive"
        /\ \E weather \in Fetched(req[r].weather, "archive", start <= end,
                                  start .. end, "archive") :
              req' = [req EXCEPT ![r].pc = "forecast", ![r].weather = weather]
        /\ UNCHANGED <<healthy, today, weatherCache, predictions>>

FetchForecast(r) ==
    LET start == Later(req[r].window[1], req[r].weather.day)
        end   == req[r].window[2]
    IN  /\ req[r].pc = "forecast"
        /\ \E weather \in Fetched(req[r].weather, "forecast", start <= end,
                                  start .. end, "forecast") :
              req' = [req EXCEPT ![r].pc = "fallback", ![r].weather = weather]
        /\ UNCHANGED <<healthy, today, weatherCache, predictions>>

(* Fault: an answer without an hour is cached too. *)
StoreEvenNothing(w, weather) ==
    weatherCache' = [weatherCache EXCEPT ![w] = [age |-> 0, weather |-> weather]]

(* if result: _cache[cache_key] = (time.monotonic(), result) *)
Store(w, weather) ==
    weatherCache' =
        IF weather.points = NoWeather.points THEN weatherCache
        ELSE [weatherCache EXCEPT ![w] = [age |-> 0, weather |-> weather]]

(* Without the archive, past_days of the forecast, which count from the    *)
(* date of the service and end yesterday, the end of the window            *)
(* notwithstanding.  Then what there is of the window is cached.           *)
FetchFallback(r) ==
    LET start    == req[r].window[1]
        pastDays == req[r].weather.day - start
    IN  /\ req[r].pc = "fallback"
        /\ \E weather \in Fetched(req[r].weather, "fallback",
                  "archive" \notin req[r].weather.answered /\ pastDays > 0,
                  (today - pastDays) .. (today - 1), "archive") :
              Store(req[r].window, weather) /\ WeatherIs(r, weather)
        /\ UNCHANGED <<healthy, today, predictions>>

------------------------------------------------------------------------------
(* _fit_models trains on 24 hours before now that have a reading and       *)
(* predicts the hours of the forecast from now on.  Today's hours alone    *)
(* are 24 of them only just before midnight.                               *)
HoursAhead(points) == \E d \in Days : d >= today /\ points[d] = "forecast"
EnoughPast(points) == \E d \in Days : d < today /\ points[d] # "none"
SomePast(points)   == \E d \in Days : d <= today /\ points[d] # "none"

(* Who gets predictions.  A sensor whose model fails is left out and the   *)
(* next one tried on the same session; an error of the database aborts its *)
(* transaction, and leaves out all that follow.                            *)
Fitted(points) ==
    IF ~ HoursAhead(points) \/ ~ SomePast(points) THEN {{}}
    ELSE IF healthy /\ EnoughPast(points) THEN {Trained}
    ELSE SUBSET Trained

(* Predictions for no sensor at all are not cached, those for some are;    *)
(* whole: they are for all, on weather without a gap.                      *)
Predict(r) ==
    /\ req[r].pc = "sensors"
    /\ \E fits \in Fitted(req[r].weather.points) :
          LET whole == fits = Trained /\ Covers(req[r].weather.points, Window(req[r].window))
          IN  /\ predictions' =
                    IF fits = {} THEN predictions
                    ELSE [age |-> 0, whole |-> whole, made |-> req[r].weather.made]
              /\ req' = [req EXCEPT ![r] = Idle]
    /\ UNCHANGED <<healthy, today, weatherCache>>

(* The list of sensors cannot be read: 502.                                *)
PredictFails(r) ==
    /\ req[r].pc = "sensors" /\ ~ healthy
    /\ req' = [req EXCEPT ![r] = Idle]
    /\ UNCHANGED <<healthy, today, weatherCache, predictions>>

------------------------------------------------------------------------------
\* Past the lookup.
HasBegun(r) == req[r].pc \in Fetches \cup {"sensors"}

\* The ages a property looks at: above any that it allows.
Oldest == 2 * CacheTTL + 2 * Slow

Older(made) == Earlier(made + 1, Oldest)

(* Fault: an entry is good for one tick too long. *)
ExpiresLate(entry) == entry = None \/ entry.age + 1 > CacheTTL

(* cached and time.monotonic() - cached[0] < _CACHE_TTL no longer holds. *)
Expires(entry) == entry = None \/ entry.age + 1 >= CacheTTL

(* Time passes, also under a request.                                      *)
Tick ==
    /\ \A r \in Requests : HasBegun(r) => req[r].took < Slow
    /\ weatherCache' = [w \in Days \X Days |->
          IF Expires(weatherCache[w]) THEN None
          ELSE [weatherCache[w] EXCEPT !.age = @ + 1, !.weather.made = Older(@)]]
    /\ predictions' =
          IF Expires(predictions) THEN None
          ELSE [predictions EXCEPT !.age = @ + 1, !.made = Older(@)]
    /\ req' = [r \in Requests |->
          IF HasBegun(r) THEN [req[r] EXCEPT !.took = @ + 1, !.weather.made = Older(@)]
          ELSE req[r]]
    /\ UNCHANGED <<healthy, today>>

(* No request goes on for a whole day.                                     *)
Midnight ==
    /\ today < LastDay /\ Busy <= AtOnce[today + 1]
    /\ \A r \in Requests : req[r].pc \in Fetches => req[r].weather.day = today
    /\ today' = today + 1
    /\ UNCHANGED <<healthy, weatherCache, predictions, req>>

(* Until now any call could fail.                                          *)
Recover ==
    /\ ~ healthy
    /\ healthy' = TRUE
    /\ UNCHANGED <<today, weatherCache, predictions, req>>

Ask(r) == AskWeather(r) \/ AskPredictions(r)

Handle(r) ==
    \/ Hit(r) \/ Miss(r)
    \/ FetchArchive(r) \/ FetchForecast(r) \/ FetchFallback(r)
    \/ Predict(r) \/ PredictFails(r)

Next ==
    \/ \E r \in Requests : Ask(r) \/ Handle(r)
    \/ Tick
    \/ Midnight
    \/ Recover

(* Threads run and time passes; nobody has to ask.                         *)
Fairness == WF_vars(Tick) /\ \A r \in Requests : WF_vars(Handle(r))

Spec == Init /\ [][Next]_vars /\ Fairness

------------------------------------------------------------------------------
Labels == {"idle", "lookup", "sensors"} \cup Fetches

WeatherData == [day : FirstDay .. LastDay, answered : SUBSET Fetches,
                points : [Days -> Sources], made : 0 .. Oldest]

WeatherEntry == [age : 0 .. CacheTTL - 1, weather : WeatherData]

Handler == [pc : Labels, kind : {"weather", "predict"}, window : Days \X Days,
            took : 0 .. Slow, weather : WeatherData]

(* Types; and the cache holds no answer that is empty.                     *)
TypeOK ==
    /\ healthy \in BOOLEAN /\ today \in FirstDay .. LastDay
    /\ weatherCache \in [Days \X Days -> WeatherEntry \cup {None}]
    /\ \A w \in Days \X Days : weatherCache[w] # None =>
          weatherCache[w].weather.points # NoWeather.points
    /\ predictions \in [age : 0 .. CacheTTL - 1, whole : BOOLEAN, made : 0 .. Oldest]
                       \cup {None}
    /\ req \in [Requests -> Handler]

(* What is known of the weather of one window, from the fetches answered.  *)
CoveredBy(w, e) ==
    \A d \in Days :
        /\ e.points[d] = "forecast" <=>
              d \in Window(w) /\ d >= e.day /\ "forecast" \in e.answered
        /\ d \in Window(w) /\ d <= e.day /\ "archive" \in e.answered
              => e.points[d] # "none"
        /\ d \in Window(w) \ {w[1]} /\ d < e.day /\ "fallback" \in e.answered
              => e.points[d] # "none"
        /\ e.points[d] = "archive" /\ d \notin Window(w)
              => w[2] < d /\ d <= e.day /\ "fallback" \in e.answered

(* A cached answer has every hour of its window that one of the services   *)
(* answered for, the forecast's from the day of the request on, and hours  *)
(* beyond its end only from the fallback (past_days, openmeteo.py:91).     *)
(* The first day may be missing when midnight came before the fallback.    *)
Covered ==
    \A w \in Days \X Days : weatherCache[w] # None => CoveredBy(w, weatherCache[w].weather)

(* The weather in the cache, which is what a page is given, was fetched at *)
(* most CacheTTL and one request ago; the weather behind predictions,      *)
(* cached on top of cached weather, is at most twice that old.             *)
NothingOld ==
    /\ \A w \in Days \X Days : weatherCache[w] # None =>
          weatherCache[w].weather.made <= CacheTTL - 1 + Slow
    /\ predictions # None => predictions.made <= 2 * (CacheTTL - 1 + Slow)

(* Parts of an answer are cached like the whole, and one request may put   *)
(* them over the whole of another; still, once the services answer, the    *)
(* caches hold and the pages get whole answers from some time on, however  *)
(* often they ask (openmeteo.py:112, predict.py:192).                      *)
WholeWeather ==
    \A w \in Days \X Days : weatherCache[w] # None =>
        Covers(weatherCache[w].weather.points, Window(w))

PartsExpire ==
    <>healthy => <>[](WholeWeather /\ (predictions # None => predictions.whole))
==============================================================================
