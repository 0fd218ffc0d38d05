---------------------------- MODULE WeatherProofs ----------------------------
(***************************************************************************)
(* What the weather and prediction caches hold, for every set of windows   *)
(* and handlers, every number of days and every time to live.              *)
(*                                                                         *)
(* Covered is made inductive by what each fetch has brought so far         *)
(* (InOrder) and by the date of a request, which is never more than one    *)
(* midnight ago (SameNight); NothingOld by the ages of the parts: weather  *)
(* ages with its cache entry, or with the request that holds it (Aged).    *)
(***************************************************************************)
EXTENDS Weather, TLAPS

ByArchive(w, e) ==
    /\ e.answered \subseteq {"archive"}
    /\ \A d \in Days :
          IF d \in Window(w) /\ d <= e.day /\ "archive" \in e.answered
          THEN e.points[d] = "archive" ELSE e.points[d] = "none"

ByBoth(w, e) ==
    /\ e.answered \subseteq {"archive", "forecast"}
    /\ \A d \in Days :
          IF d \in Window(w) /\ d >= e.day /\ "forecast" \in e.answered
          THEN e.points[d] = "forecast"
          ELSE IF d \in Window(w) /\ d <= e.day /\ "archive" \in e.answered
          THEN e.points[d] = "archive" ELSE e.points[d] = "none"

InOrder(x) ==
    /\ x.pc = "archive" => x.weather.answered = {} /\ x.weather.points = NoWeather.points
    /\ x.pc = "forecast" => ByArchive(x.window, x.weather)
    /\ x.pc = "fallback" => ByBoth(x.window, x.weather)

SameNight(x, now) ==
    x.pc \in Fetches => x.weather.day <= now /\ now <= x.weather.day + 1

Aged(x) ==
    /\ x.pc \in Fetches => x.weather.made <= x.took
    /\ x.pc = "sensors" => x.weather.made <= CacheTTL - 1 + Slow + x.took

HandlerOK(x, now) == InOrder(x) /\ SameNight(x, now) /\ Aged(x)

EntryOK(w, entry) ==
    entry # None => /\ CoveredBy(w, entry.weather)
                    /\ entry.weather.points # NoWeather.points
                    /\ entry.weather.made <= entry.age + Slow

PredictionsOK(entry) ==
    entry # None => entry.made <= entry.age + (CacheTTL - 1 + Slow) + Slow

Prediction == [age : 0 .. CacheTTL - 1, whole : BOOLEAN, made : 0 .. Oldest]

WInv ==
    /\ TypeOK
    /\ \A r \in Requests : HandlerOK(req[r], today)
    /\ \A w \in Days \X Days : EntryOK(w, weatherCache[w])
    /\ PredictionsOK(predictions)

------------------------------------------------------------------------------
(* No weather is the weather of a request that has not begun.              *)
LEMMA NoWeatherType == NoWeather \in WeatherData /\ Idle \in Handler
<1>1. NoWeather \in WeatherData
  BY WeatherAssumption DEF NoWeather, WeatherData, Sources, Oldest
<1>2. FirstDay \in Days
  BY WeatherAssumption DEF Days
<1> QED
  BY <1>1, <1>2, WeatherAssumption DEF Idle, Handler, Labels

(* A merge gives every day one of the sources.                             *)
LEMMA MergeType ==
    ASSUME NEW points \in [Days -> Sources], NEW days, NEW source \in Sources
    PROVE  /\ Merge(points, days, source) \in [Days -> Sources]
           /\ \A d \in Days : Merge(points, days, source)[d] =
                 IF d \in days /\ (points[d] = "none" \/ source = "forecast")
                 THEN source ELSE points[d]
BY DEF Merge

(* A fetch leaves the weather as it was or merges its days into it.        *)
LEMMA FetchedType ==
    ASSUME NEW e \in WeatherData, NEW name \in Fetches, NEW wanted \in BOOLEAN,
           NEW days, NEW source \in Sources,
           NEW f \in Fetched(e, name, wanted, days, source)
    PROVE  /\ f \in WeatherData /\ f.day = e.day /\ f.made = e.made
           /\ \/ f = e
              \/ /\ wanted
                 /\ f.answered = e.answered \cup {name}
                 /\ f.points = Merge(e.points, days, source)
<1>1. e.points \in [Days -> Sources]
  BY DEF WeatherData
<1>2. Merge(e.points, days, source) \in [Days -> Sources]
  BY <1>1, MergeType
<1> DEFINE g == [e EXCEPT !.answered = @ \cup {name}, !.points = Merge(@, days, source)]
<1>3. /\ g \in WeatherData /\ g.day = e.day /\ g.made = e.made
      /\ g.answered = e.answered \cup {name} /\ g.points = Merge(e.points, days, source)
  BY <1>2 DEF WeatherData
<1>4. f = e \/ (wanted /\ f = g)
  BY DEF Fetched
<1> QED
  BY <1>3, <1>4

(* The days up to the date of a request, and those from it on.             *)
LEMMA DaysUpTo ==
    ASSUME NEW a \in Int, NEW b \in Int, NEW day \in Int, NEW d \in Int
    PROVE  d \in a .. Earlier(b, day) <=> d \in a .. b /\ d <= day
BY DEF Earlier

LEMMA DaysFrom ==
    ASSUME NEW a \in Int, NEW b \in Int, NEW day \in Int, NEW d \in Int
    PROVE  d \in Later(a, day) .. b <=> d \in a .. b /\ d >= day
BY DEF Later

(* An age grows by one at most, and stops at Oldest.                       *)
LEMMA OlderType ==
    ASSUME NEW made \in 0 .. Oldest
    PROVE  Older(made) \in 0 .. Oldest /\ Older(made) <= made + 1
BY WeatherAssumption DEF Older, Earlier, Oldest

(* Cached weather is young enough for a request on its way.                *)
LEMMA YoungEnough ==
    ASSUME NEW made \in Int, NEW age \in 0 .. CacheTTL - 1, NEW took \in 0 .. Slow,
           made <= age + Slow
    PROVE  made <= CacheTTL - 1 + Slow + took
BY WeatherAssumption

(* What a handler works with.                                              *)
LEMMA HandlerTypes ==
    ASSUME WInv, NEW r \in Requests
    PROVE  /\ req[r] \in Handler /\ req[r].window \in Days \X Days
           /\ req[r].weather \in WeatherData
           /\ req[r].weather.points \in [Days -> Sources] /\ req[r].weather.day \in Int
           /\ Days \subseteq Int
           /\ req[r].window[1] \in Int /\ req[r].window[2] \in Int
<1>1. req[r] \in Handler
  BY DEF WInv, TypeOK
<1>2. req[r].window \in Days \X Days /\ req[r].weather \in WeatherData
  BY <1>1 DEF Handler
<1>3. Days \subseteq Int
  BY WeatherAssumption DEF Days
<1>4. req[r].weather.points \in [Days -> Sources]
      /\ req[r].weather.day \in FirstDay .. LastDay
  BY <1>2 DEF WeatherData
<1>5. req[r].weather.day \in Int
  BY <1>4, WeatherAssumption
<1>6. req[r].window[1] \in Days /\ req[r].window[2] \in Days
  BY <1>2
<1> QED
  BY <1>1, <1>2, <1>3, <1>4, <1>5, <1>6

(* One handler moves; what it stores is as good as what was there.         *)
LEMMA Moves ==
    ASSUME WInv, UNCHANGED <<healthy, today>>,
           NEW r \in Requests, NEW x \in Handler, req' = [req EXCEPT ![r] = x],
           HandlerOK(x, today),
           weatherCache' \in [Days \X Days -> WeatherEntry \cup {None}],
           \A w \in Days \X Days : EntryOK(w, weatherCache'[w]),
           predictions' \in Prediction \cup {None},
           PredictionsOK(predictions')
    PROVE  WInv'
<1>1. req' \in [Requests -> Handler]
  BY DEF WInv, TypeOK
<1>2. \A w \in Days \X Days : weatherCache'[w] # None =>
          weatherCache'[w].weather.points # NoWeather.points
  BY DEF EntryOK
<1>3. TypeOK'
  BY <1>1, <1>2 DEF WInv, TypeOK, Prediction
<1>4. \A s \in Requests : HandlerOK(req'[s], today')
  BY DEF WInv, TypeOK
<1> QED
  BY <1>3, <1>4 DEF WInv, HandlerOK, InOrder, SameNight, Aged, EntryOK, PredictionsOK,
                    ByArchive, ByBoth, CoveredBy

------------------------------------------------------------------------------
LEMMA InitInv == Init => WInv
<1> SUFFICES ASSUME Init PROVE WInv
  OBVIOUS
<1>1. TypeOK
  <2>1. today \in FirstDay .. LastDay
    BY WeatherAssumption DEF Init
  <2>2. weatherCache \in [Days \X Days -> WeatherEntry \cup {None}]
    BY DEF Init
  <2>3. \A w \in Days \X Days : weatherCache[w] = None
    BY DEF Init
  <2> QED
    BY <2>1, <2>2, <2>3, NoWeatherType DEF Init, TypeOK
<1>2. \A r \in Requests : HandlerOK(req[r], today)
  BY DEF Init, HandlerOK, InOrder, SameNight, Aged, Idle, Fetches
<1>3. \A w \in Days \X Days : EntryOK(w, weatherCache[w])
  BY DEF Init, EntryOK
<1>4. PredictionsOK(predictions)
  BY DEF Init, PredictionsOK
<1> QED
  BY <1>1, <1>2, <1>3, <1>4 DEF WInv

(* A request is made for days that the model has.                          *)
LEMMA Asks ==
    ASSUME WInv, NEW r \in Requests, Ask(r)
    PROVE  WInv'
<1> DEFINE x(kind, w) == [req[r] EXCEPT !.kind = kind, !.pc = "lookup", !.window = w]
<1>1. ASSUME NEW kind \in {"weather", "predict"},
             NEW a \in -TrainDays .. ForecastDays, NEW b \in -TrainDays .. ForecastDays,
             req' = [req EXCEPT ![r] = x(kind, <<today + a, today + b>>)],
             UNCHANGED <<healthy, today, weatherCache, predictions>>
      PROVE  WInv'
  <2> DEFINE y == x(kind, <<today + a, today + b>>)
  <2>1. today + a \in Days /\ today + b \in Days
    BY WeatherAssumption DEF WInv, TypeOK, Days
  <2>2. y \in Handler /\ y.pc = "lookup"
    BY <2>1 DEF WInv, TypeOK, Handler, Labels
  <2>3. HandlerOK(y, today)
    BY <2>2 DEF HandlerOK, InOrder, SameNight, Aged, Fetches
  <2> HIDE DEF y
  <2>4. req' = [req EXCEPT ![r] = y]
    BY <1>1 DEF y
  <2> QED
    BY <1>1, <2>2, <2>3, <2>4, Moves DEF WInv, TypeOK, Prediction
<1>2. CASE AskWeather(r)
  <2>1. PICK w \in Asked :
          req' = [req EXCEPT ![r] = [@ EXCEPT !.kind = "weather", !.pc = "lookup",
                     !.window = <<today + w[1], today + w[2]>>]]
    BY <1>2 DEF AskWeather
  <2>2. w[1] \in -TrainDays .. ForecastDays /\ w[2] \in -TrainDays .. ForecastDays
    BY WeatherAssumption
  <2>3. req' = [req EXCEPT ![r] = x("weather", <<today + w[1], today + w[2]>>)]
    BY <2>1
  <2> QED
    BY <1>1, <1>2, <2>2, <2>3 DEF AskWeather
<1>3. CASE AskPredictions(r)
  <2>1. -TrainDays \in -TrainDays .. ForecastDays /\ ForecastDays \in -TrainDays .. ForecastDays
    BY WeatherAssumption
  <2>2. <<today - TrainDays, today + ForecastDays>> = <<today + (-TrainDays), today + ForecastDays>>
    BY WeatherAssumption DEF WInv, TypeOK
  <2>3. req' = [req EXCEPT ![r] = x("predict", <<today + (-TrainDays), today + ForecastDays>>)]
    BY <1>3, <2>2 DEF AskPredictions
  <2> QED
    BY <1>1, <1>3, <2>1, <2>3 DEF AskPredictions
<1> QED
  BY <1>2, <1>3 DEF Ask

(* The weather reaches the page or the predictions young enough.           *)
LEMMA Arrives ==
    ASSUME WInv, UNCHANGED <<healthy, today, predictions>>,
           NEW r \in Requests, NEW e \in WeatherData, WeatherIs(r, e),
           e.made <= CacheTTL - 1 + Slow + req[r].took,
           weatherCache' \in [Days \X Days -> WeatherEntry \cup {None}],
           \A w \in Days \X Days : EntryOK(w, weatherCache'[w])
    PROVE  WInv'
<1> DEFINE x == IF req[r].kind = "weather" THEN Idle
                ELSE [req[r] EXCEPT !.pc = "sensors", !.weather = e]
<1>1. x \in Handler
  BY NoWeatherType DEF WInv, TypeOK, Handler, Labels
<1>2. HandlerOK(x, today)
  BY DEF HandlerOK, InOrder, SameNight, Aged, Fetches, Idle, WInv, TypeOK, Handler
<1>3. req' = [req EXCEPT ![r] = x]
  BY DEF WeatherIs
<1> HIDE DEF x
<1> QED
  BY <1>1, <1>2, <1>3, Moves DEF WInv, TypeOK, Prediction

(* What is in the caches is as good as it was if it is left alone.         *)
LEMMA Kept ==
    ASSUME WInv, UNCHANGED weatherCache
    PROVE  /\ weatherCache' \in [Days \X Days -> WeatherEntry \cup {None}]
           /\ \A w \in Days \X Days : EntryOK(w, weatherCache'[w])
BY DEF WInv, TypeOK

LEMMA LooksUp ==
    ASSUME WInv, NEW r \in Requests, Hit(r) \/ Miss(r)
    PROVE  WInv'
<1>0. req[r] \in Handler /\ req[r].window \in Days \X Days /\ req[r].took \in 0 .. Slow
  BY DEF WInv, TypeOK, Handler
<1>1. CASE Hit(r)
  <2> DEFINE entry == weatherCache[req[r].window]
  <2>1. entry \in WeatherEntry /\ entry # None
    BY <1>0, <1>1 DEF Hit, WInv, TypeOK
  <2>2. entry.age \in 0 .. CacheTTL - 1 /\ entry.weather \in WeatherData
    BY <2>1 DEF WeatherEntry
  <2>3. entry.weather.made <= entry.age + Slow
    BY <1>0, <2>1 DEF WInv, EntryOK
  <2>4. entry.weather.made \in Int
    BY <2>2 DEF WeatherData
  <2>5. entry.weather.made <= CacheTTL - 1 + Slow + req[r].took
    <3> HIDE DEF entry
    <3> QED
      BY <1>0, <2>2, <2>3, <2>4, YoungEnough
  <2> QED
    BY <1>1, <2>2, <2>5, Kept, Arrives DEF Hit
<1>2. CASE Miss(r)
  <2> DEFINE x == [req[r] EXCEPT !.weather = [NoWeather EXCEPT !.day = today], !.pc = "archive"]
             e == [NoWeather EXCEPT !.day = today]
  <2>1. /\ e \in WeatherData /\ e.day = today /\ e.answered = {} /\ e.made = 0
        /\ e.points = NoWeather.points
    BY NoWeatherType DEF WInv, TypeOK, WeatherData, NoWeather
  <2> HIDE DEF e
  <2>2. x \in Handler /\ x.pc = "archive" /\ x.weather = e /\ x.took = req[r].took
    BY <1>0, <2>1 DEF Handler, Labels, Fetches, e
  <2>3. HandlerOK(x, today)
    BY <1>0, <2>1, <2>2 DEF HandlerOK, InOrder, SameNight, Aged, Fetches, WInv, TypeOK
  <2>4. req' = [req EXCEPT ![r] = x]
    BY <1>0, <1>2 DEF Miss, WInv, TypeOK
  <2> HIDE DEF x
  <2> QED
    BY <1>2, <2>2, <2>3, <2>4, Kept, Moves DEF Miss, WInv, TypeOK, Prediction
<1> QED
  BY <1>1, <1>2

(* The archive answers for the days up to the date of the request.         *)
LEMMA FetchesArchive ==
    ASSUME WInv, NEW r \in Requests, FetchArchive(r)
    PROVE  WInv'
<1> DEFINE w == req[r].window
           e == req[r].weather
           last == Earlier(w[2], e.day)
           wanted == w[1] <= last
<1>1. /\ req[r] \in Handler /\ w \in Days \X Days /\ e \in WeatherData
      /\ e.points \in [Days -> Sources] /\ e.day \in Int /\ Days \subseteq Int
      /\ w[1] \in Int /\ w[2] \in Int
  BY HandlerTypes
<1>2. PICK f \in Fetched(e, "archive", wanted, w[1] .. last, "archive") :
          req' = [req EXCEPT ![r].pc = "forecast", ![r].weather = f]
  BY DEF FetchArchive
<1>3. /\ f \in WeatherData /\ f.day = e.day /\ f.made = e.made
      /\ \/ f = e
         \/ /\ f.answered = e.answered \cup {"archive"}
            /\ f.points = Merge(e.points, w[1] .. last, "archive")
  <2>1. "archive" \in Fetches /\ "archive" \in Sources /\ wanted \in BOOLEAN
    BY DEF Fetches, Sources
  <2> HIDE DEF wanted
  <2> QED
    BY <1>1, <1>2, <2>1, FetchedType
<1>4. e.answered = {} /\ \A d \in Days : e.points[d] = "none"
  BY DEF FetchArchive, WInv, HandlerOK, InOrder, NoWeather
<1>5. \A d \in Days : d \in w[1] .. last <=> d \in Window(w) /\ d <= e.day
  <2> SUFFICES ASSUME NEW d \in Days
               PROVE  d \in w[1] .. last <=> d \in Window(w) /\ d <= e.day
    OBVIOUS
  <2> HIDE DEF w, e
  <2>1. d \in Int /\ w[1] \in Int /\ w[2] \in Int /\ e.day \in Int
    BY <1>1
  <2>2. d \in w[1] .. Earlier(w[2], e.day) <=> d \in w[1] .. w[2] /\ d <= e.day
    BY <2>1, DaysUpTo
  <2> QED
    BY <2>2 DEF Window
<1>6. ByArchive(w, f)
  <2>1. CASE f = e
    BY <1>4, <2>1 DEF ByArchive
  <2>2. CASE /\ f.answered = e.answered \cup {"archive"}
             /\ f.points = Merge(e.points, w[1] .. last, "archive")
    <3>1. \A d \in Days : f.points[d] = IF d \in w[1] .. last THEN "archive" ELSE "none"
      <4>1. "archive" \in Sources /\ "archive" # "forecast"
        BY DEF Sources
      <4> HIDE DEF e, last
      <4> QED
        <5>1. \A d \in Days : Merge(e.points, w[1] .. last, "archive")[d] =
                 IF d \in w[1] .. last /\ (e.points[d] = "none" \/ "archive" = "forecast")
                 THEN "archive" ELSE e.points[d]
          BY DEF Merge
        <5> QED
          BY <1>4, <2>2, <4>1, <5>1
    <3> QED
      BY <1>3, <1>4, <1>5, <2>2, <3>1 DEF ByArchive
  <2> QED
    BY <1>3, <2>1, <2>2
<1> DEFINE x == [req[r] EXCEPT !.pc = "forecast", !.weather = f]
<1>7. /\ x \in Handler /\ x.pc = "forecast" /\ x.window = w /\ x.weather = f
      /\ x.took = req[r].took
  BY <1>1, <1>3 DEF Handler, Labels, Fetches
<1>8. HandlerOK(x, today)
  BY <1>3, <1>6, <1>7 DEF FetchArchive, WInv, HandlerOK, InOrder, SameNight, Aged, Fetches
<1>9. req' = [req EXCEPT ![r] = x]
  BY <1>1, <1>2 DEF WInv, TypeOK
<1> HIDE DEF x
<1> QED
  BY <1>7, <1>8, <1>9, Kept, Moves DEF FetchArchive, WInv, TypeOK, Prediction

(* The forecast takes the days from that date on, whatever they had.       *)
LEMMA FetchesForecast ==
    ASSUME WInv, NEW r \in Requests, FetchForecast(r)
    PROVE  WInv'
<1> DEFINE w == req[r].window
           e == req[r].weather
           first == Later(w[1], e.day)
           wanted == first <= w[2]
<1>1. /\ req[r] \in Handler /\ w \in Days \X Days /\ e \in WeatherData
      /\ e.points \in [Days -> Sources] /\ e.day \in Int /\ Days \subseteq Int
      /\ w[1] \in Int /\ w[2] \in Int
  BY HandlerTypes
<1>2. PICK f \in Fetched(e, "forecast", wanted, first .. w[2], "forecast") :
          req' = [req EXCEPT ![r].pc = "fallback", ![r].weather = f]
  BY DEF FetchForecast
<1>3. /\ f \in WeatherData /\ f.day = e.day /\ f.made = e.made
      /\ \/ f = e
         \/ /\ f.answered = e.answered \cup {"forecast"}
            /\ f.points = Merge(e.points, first .. w[2], "forecast")
  <2>1. "forecast" \in Fetches /\ "forecast" \in Sources /\ wanted \in BOOLEAN
    BY DEF Fetches, Sources
  <2> HIDE DEF wanted
  <2> QED
    BY <1>1, <1>2, <2>1, FetchedType
<1>4. ByArchive(w, e)
  BY DEF FetchForecast, WInv, HandlerOK, InOrder
<1>5. \A d \in Days : d \in first .. w[2] <=> d \in Window(w) /\ d >= e.day
  <2> HIDE DEF w, e
  <2> QED
    BY <1>1, DaysFrom DEF Window
<1>6. ByBoth(w, f)
  <2>1. CASE f = e
    BY <1>4, <2>1 DEF ByArchive, ByBoth
  <2>2. CASE /\ f.answered = e.answered \cup {"forecast"}
             /\ f.points = Merge(e.points, first .. w[2], "forecast")
    <3>1. \A d \in Days : f.points[d] =
              IF d \in first .. w[2] THEN "forecast" ELSE e.points[d]
      <4>1. "forecast" \in Sources
        BY DEF Sources
      <4> HIDE DEF e, first
      <4> QED
        <5>1. \A d \in Days : Merge(e.points, first .. w[2], "forecast")[d] =
                 IF d \in first .. w[2] /\ (e.points[d] = "none" \/ "forecast" = "forecast")
                 THEN "forecast" ELSE e.points[d]
          BY DEF Merge
        <5> QED
          BY <2>2, <5>1
    <3>2. f.answered \subseteq {"archive", "forecast"} /\ "forecast" \in f.answered
      BY <1>4, <2>2 DEF ByArchive
    <3>3. "archive" \in f.answered <=> "archive" \in e.answered
      BY <2>2
    <3> QED
      BY <1>3, <1>4, <1>5, <3>1, <3>2, <3>3 DEF ByArchive, ByBoth
  <2> QED
    BY <1>3, <2>1, <2>2
<1> DEFINE x == [req[r] EXCEPT !.pc = "fallback", !.weather = f]
<1>7. /\ x \in Handler /\ x.pc = "fallback" /\ x.window = w /\ x.weather = f
      /\ x.took = req[r].took
  BY <1>1, <1>3 DEF Handler, Labels, Fetches
<1>8. HandlerOK(x, today)
  BY <1>3, <1>6, <1>7 DEF FetchForecast, WInv, HandlerOK, InOrder, SameNight, Aged, Fetches
<1>9. req' = [req EXCEPT ![r] = x]
  BY <1>1, <1>2 DEF WInv, TypeOK
<1> HIDE DEF x
<1> QED
  BY <1>7, <1>8, <1>9, Kept, Moves DEF FetchForecast, WInv, TypeOK, Prediction

(* Weather is stored as it was just fetched.                               *)
LEMMA Stores ==
    ASSUME WInv, NEW w \in Days \X Days, NEW e \in WeatherData, Store(w, e),
           CoveredBy(w, e), e.made <= Slow
    PROVE  /\ weatherCache' \in [Days \X Days -> WeatherEntry \cup {None}]
           /\ \A v \in Days \X Days : EntryOK(v, weatherCache'[v])
<1>1. CASE e.points = NoWeather.points
  BY <1>1, Kept DEF Store
<1>2. CASE e.points # NoWeather.points
  <2> DEFINE entry == [age |-> 0, weather |-> e]
  <2>1. entry \in WeatherEntry
    BY WeatherAssumption DEF WeatherEntry
  <2>2. EntryOK(w, entry)
    <3>1. 0 + Slow = Slow
      BY WeatherAssumption
    <3> QED
      BY <1>2, <3>1 DEF EntryOK
  <2>3. weatherCache' = [weatherCache EXCEPT ![w] = entry]
    BY <1>2 DEF Store
  <2> HIDE DEF entry
  <2> QED
    BY <2>1, <2>2, <2>3 DEF WInv, TypeOK
<1> QED
  BY <1>1, <1>2

(* The fallback fills the days before that date, of which the service says *)
(* when they begin, and it may pass the end of the window.                 *)
LEMMA FallbackCovers ==
    ASSUME NEW w \in Days \X Days, NEW e \in WeatherData, NEW f \in WeatherData,
           ByBoth(w, e), NEW now \in Int, e.day <= now, now <= e.day + 1,
           f.day = e.day,
           \/ f = e
           \/ /\ "archive" \notin e.answered
              /\ f.answered = e.answered \cup {"fallback"}
              /\ f.points = Merge(e.points, (now - (e.day - w[1])) .. (now - 1), "archive")
    PROVE  CoveredBy(w, f)
<1>1. /\ Days \subseteq Int /\ w[1] \in Int /\ w[2] \in Int /\ e.day \in Int
      /\ e.points \in [Days -> Sources]
  BY WeatherAssumption DEF Days, WeatherData
<1>2. CASE f = e
  <2> SUFFICES ASSUME NEW d \in Days
               PROVE  /\ e.points[d] = "forecast" <=>
                            d \in Window(w) /\ d >= e.day /\ "forecast" \in e.answered
                      /\ d \in Window(w) /\ d <= e.day /\ "archive" \in e.answered
                            => e.points[d] # "none"
                      /\ "fallback" \notin e.answered
                      /\ e.points[d] = "archive" => d \in Window(w)
    BY <1>2 DEF CoveredBy
  <2> QED
    BY DEF ByBoth
<1>3. CASE /\ "archive" \notin e.answered
           /\ f.answered = e.answered \cup {"fallback"}
           /\ f.points = Merge(e.points, (now - (e.day - w[1])) .. (now - 1), "archive")
  <2> SUFFICES ASSUME NEW d \in Days
               PROVE  /\ f.points[d] = "forecast" <=>
                            d \in Window(w) /\ d >= e.day /\ "forecast" \in f.answered
                      /\ "archive" \notin f.answered
                      /\ d \in Window(w) \ {w[1]} /\ d < e.day => f.points[d] # "none"
                      /\ f.points[d] = "archive" /\ d \notin Window(w)
                            => w[2] < d /\ d <= e.day
    BY <1>3 DEF CoveredBy
  <2>1. f.points[d] = IF d \in (now - (e.day - w[1])) .. (now - 1) /\ e.points[d] = "none"
                      THEN "archive" ELSE e.points[d]
    BY <1>3 DEF Merge
  <2>2. e.points[d] = IF d \in Window(w) /\ d >= e.day /\ "forecast" \in e.answered
                      THEN "forecast" ELSE "none"
    BY <1>3 DEF ByBoth
  <2>3. "forecast" \in f.answered <=> "forecast" \in e.answered
    BY <1>3
  <2>4. "archive" \notin f.answered
    BY <1>3
  <2>5. PICK a \in Int, b \in Int, t \in Int, n \in Int :
          a = w[1] /\ b = w[2] /\ t = e.day /\ n = now /\ t <= n /\ n <= t + 1
    BY <1>1
  <2>6. d \in Int
    BY <1>1
  <2>7. d \in (n - (t - a)) .. (n - 1) => a <= d /\ d <= t
    BY <2>5, <2>6
  <2>8. a < d /\ d < t => d \in (n - (t - a)) .. (n - 1)
    BY <2>5, <2>6
  <2>9. d \in Window(w) <=> a <= d /\ d <= b
    BY <2>5, <2>6 DEF Window
  <2>10. f.points[d] = "forecast" <=>
              d \in Window(w) /\ d >= e.day /\ "forecast" \in f.answered
    BY <2>1, <2>2, <2>3
  <2>11. d \in Window(w) \ {w[1]} /\ d < e.day => f.points[d] # "none"
    BY <2>1, <2>2, <2>5, <2>6, <2>8, <2>9
  <2>12. f.points[d] = "archive" /\ d \notin Window(w) => w[2] < d /\ d <= e.day
    BY <2>1, <2>2, <2>5, <2>6, <2>7, <2>9
  <2> QED
    BY <2>4, <2>10, <2>11, <2>12
<1> QED
  BY <1>2, <1>3

LEMMA FetchesFallback ==
    ASSUME WInv, NEW r \in Requests, FetchFallback(r)
    PROVE  WInv'
<1> DEFINE w == req[r].window
           e == req[r].weather
           days == (today - (e.day - w[1])) .. (today - 1)
           wanted == "archive" \notin e.answered /\ e.day - w[1] > 0
<1>1. /\ req[r] \in Handler /\ w \in Days \X Days /\ e \in WeatherData
      /\ req[r].took \in 0 .. Slow /\ e.made \in Int /\ today \in Int
  BY WeatherAssumption, SMTT(30) DEF WInv, TypeOK, Handler, WeatherData, Oldest
<1>2. PICK f \in Fetched(e, "fallback", wanted, days, "archive") :
          Store(w, f) /\ WeatherIs(r, f)
  BY DEF FetchFallback
<1>3. /\ f \in WeatherData /\ f.day = e.day /\ f.made = e.made
      /\ \/ f = e
         \/ /\ "archive" \notin e.answered
            /\ f.answered = e.answered \cup {"fallback"}
            /\ f.points = Merge(e.points, days, "archive")
  <2>1. "fallback" \in Fetches /\ "archive" \in Sources /\ wanted \in BOOLEAN
    BY DEF Fetches, Sources
  <2>2. wanted => "archive" \notin e.answered
    OBVIOUS
  <2> HIDE DEF wanted
  <2> QED
    BY <1>1, <1>2, <2>1, <2>2, FetchedType
<1>4. /\ ByBoth(w, e) /\ e.day <= today /\ today <= e.day + 1
      /\ e.made <= req[r].took
  BY DEF FetchFallback, WInv, HandlerOK, InOrder, SameNight, Aged, Fetches
<1>5. CoveredBy(w, f)
  <2> HIDE DEF w, e
  <2> QED
    BY <1>1, <1>3, <1>4, FallbackCovers
<1>6. f.made <= Slow /\ f.made <= CacheTTL - 1 + Slow + req[r].took
  <2> HIDE DEF e
  <2>1. f.made \in Int /\ f.made <= req[r].took
    BY <1>1, <1>3, <1>4
  <2> QED
    BY <1>1, <2>1, WeatherAssumption, SMTT(30)
<1> QED
  BY <1>1, <1>2, <1>3, <1>5, <1>6, Stores, Arrives DEF FetchFallback

LEMMA Predicts ==
    ASSUME WInv, NEW r \in Requests, Predict(r) \/ PredictFails(r)
    PROVE  WInv'
<1>1. /\ req[r] \in Handler /\ req[r].weather.made \in 0 .. Oldest /\ req[r].took \in 0 .. Slow
  BY DEF WInv, TypeOK, Handler, WeatherData
<1>2. Idle \in Handler /\ HandlerOK(Idle, today)
  BY NoWeatherType DEF HandlerOK, InOrder, SameNight, Aged, Idle, Fetches
<1>3. req' = [req EXCEPT ![r] = Idle] /\ UNCHANGED <<healthy, today, weatherCache>>
  BY DEF Predict, PredictFails
<1>4. CASE Predict(r)
  <2>1. PICK whole \in BOOLEAN : predictions' \in
            {predictions, [age |-> 0, whole |-> whole, made |-> req[r].weather.made]}
    BY <1>4 DEF Predict
  <2> DEFINE entry == [age |-> 0, whole |-> whole, made |-> req[r].weather.made]
  <2>2. entry \in Prediction
    BY <1>1, WeatherAssumption DEF Prediction
  <2>3. req[r].weather.made <= CacheTTL - 1 + Slow + req[r].took
    BY <1>4 DEF Predict, WInv, HandlerOK, Aged
  <2>4. PredictionsOK(entry)
    <3>1. req[r].weather.made <= 0 + (CacheTTL - 1 + Slow) + Slow
      BY <1>1, <2>3, WeatherAssumption
    <3> QED
      BY <3>1 DEF PredictionsOK
  <2> HIDE DEF entry
  <2>5. predictions' \in {predictions, entry}
    BY <2>1 DEF entry
  <2> QED
    BY <1>2, <1>3, <2>2, <2>4, <2>5, Kept, Moves DEF WInv, TypeOK, Prediction
<1>5. CASE PredictFails(r)
  BY <1>2, <1>3, <1>5, Kept, Moves DEF PredictFails, WInv, TypeOK, Prediction
<1> QED
  BY <1>4, <1>5

(* A bound between two ages survives a tick in which both grow.            *)
LEMMA GrowTogether ==
    ASSUME NEW made \in Int, NEW older \in Int, NEW age \in Int, NEW k \in Int,
           older <= made + 1, made <= age + k
    PROVE  older <= age + 1 + k
OBVIOUS

(* All ages grow together, and no cache entry outlives CacheTTL.           *)
LEMMA Ticks ==
    ASSUME WInv, Tick
    PROVE  WInv'
<1> DEFINE aged(e) == [e EXCEPT !.made = Older(@)]
<1>1. ASSUME NEW e \in WeatherData
      PROVE  /\ aged(e) \in WeatherData /\ aged(e).day = e.day
             /\ aged(e).answered = e.answered /\ aged(e).points = e.points
             /\ aged(e).made <= e.made + 1 /\ e.made \in Int /\ aged(e).made \in Int
  <2>1. e.made \in 0 .. Oldest
    BY DEF WeatherData
  <2>2. Older(e.made) \in 0 .. Oldest /\ Older(e.made) <= e.made + 1
    BY <2>1, OlderType
  <2>3. \A n \in 0 .. Oldest : n \in Int
    BY WeatherAssumption DEF Oldest
  <2>4. aged(e) \in WeatherData /\ aged(e).made = Older(e.made)
    BY <2>2 DEF WeatherData
  <2> QED
    BY <2>1, <2>2, <2>3, <2>4 DEF WeatherData
<1>2. ASSUME NEW age \in 0 .. CacheTTL - 1, ~ (age + 1 >= CacheTTL)
      PROVE  age + 1 \in 0 .. CacheTTL - 1
  BY <1>2, WeatherAssumption
<1>3. /\ weatherCache' \in [Days \X Days -> WeatherEntry \cup {None}]
      /\ \A w \in Days \X Days : EntryOK(w, weatherCache'[w])
  <2>1. weatherCache' = [w \in Days \X Days |->
            IF Expires(weatherCache[w]) THEN None
            ELSE [weatherCache[w] EXCEPT !.age = @ + 1, !.weather.made = Older(@)]]
    BY DEF Tick
  <2>2. ASSUME NEW w \in Days \X Days, ~ Expires(weatherCache[w])
        PROVE  /\ weatherCache'[w] \in WeatherEntry
               /\ EntryOK(w, weatherCache'[w])
    <3> DEFINE x == weatherCache[w]
               y == [age |-> x.age + 1, weather |-> aged(x.weather)]
    <3>1. x \in WeatherEntry /\ x # None /\ ~ (x.age + 1 >= CacheTTL)
      BY <2>2 DEF Expires, WInv, TypeOK
    <3>2. x.age \in 0 .. CacheTTL - 1 /\ x.weather \in WeatherData
      BY <3>1 DEF WeatherEntry
    <3>3. CoveredBy(w, x.weather) /\ x.weather.made <= x.age + Slow
          /\ x.weather.points # NoWeather.points
      BY <3>1 DEF WInv, EntryOK
    <3>4. weatherCache'[w] = y
      BY <2>1, <2>2, <3>1 DEF WeatherEntry, WeatherData
    <3>5. x.age + 1 \in 0 .. CacheTTL - 1
      BY <1>2, <3>1, <3>2
    <3> HIDE DEF x, aged
    <3>6. y \in WeatherEntry
      BY <1>1, <3>2, <3>5 DEF WeatherEntry
    <3>7. y.weather.made <= y.age + Slow
      <4>1. aged(x.weather).made <= x.weather.made + 1
            /\ x.weather.made \in Int /\ aged(x.weather).made \in Int
        BY <1>1, <3>2
      <4>2. x.age \in Int /\ Slow \in Int /\ x.weather.made <= x.age + Slow
        BY <3>2, <3>3, WeatherAssumption
      <4>3. aged(x.weather).made <= x.age + 1 + Slow
        BY <4>1, <4>2, GrowTogether
      <4> QED
        BY <4>3
    <3>8. CoveredBy(w, y.weather) /\ y.weather.points # NoWeather.points
      BY <1>1, <3>2, <3>3 DEF CoveredBy
    <3> QED
      BY <3>4, <3>6, <3>7, <3>8 DEF EntryOK
  <2>3. ASSUME NEW w \in Days \X Days, Expires(weatherCache[w])
        PROVE  weatherCache'[w] = None
    BY <2>1, <2>3
  <2> QED
    BY <2>1, <2>2, <2>3 DEF EntryOK
<1>4. predictions' \in Prediction \cup {None} /\ PredictionsOK(predictions')
  <2>1. CASE Expires(predictions)
    BY <2>1 DEF Tick, PredictionsOK
  <2>2. CASE ~ Expires(predictions)
    <3> DEFINE x == predictions
               y == [age |-> x.age + 1, whole |-> x.whole, made |-> Older(x.made)]
    <3>1. x \in Prediction /\ x # None /\ ~ (x.age + 1 >= CacheTTL)
      BY <2>2 DEF Expires, WInv, TypeOK, Prediction
    <3>2. x.age \in 0 .. CacheTTL - 1 /\ x.whole \in BOOLEAN /\ x.made \in 0 .. Oldest
      BY <3>1 DEF Prediction
    <3>3. predictions' = y
      BY <2>2, <3>1 DEF Tick, Prediction
    <3>4. x.made <= x.age + (CacheTTL - 1 + Slow) + Slow
      BY <3>1 DEF WInv, PredictionsOK
    <3>5. x.age + 1 \in 0 .. CacheTTL - 1 /\ Older(x.made) \in 0 .. Oldest
          /\ Older(x.made) <= x.made + 1
      BY <1>2, <3>1, <3>2, OlderType
    <3> HIDE DEF x
    <3>6. y \in Prediction
      BY <3>2, <3>5 DEF Prediction
    <3>7. Older(x.made) <= x.age + 1 + (CacheTTL - 1 + Slow) + Slow
      <4>1. PICK k \in Int : k = (CacheTTL - 1 + Slow) + Slow
        BY WeatherAssumption
      <4>2. x.age \in Int /\ x.made \in Int /\ Older(x.made) \in Int
        BY <3>2, <3>5, WeatherAssumption DEF Oldest
      <4>3. CacheTTL \in Int /\ Slow \in Int
        BY WeatherAssumption
      <4>4. x.made <= x.age + k
        BY <3>4, <4>1, <4>2, <4>3
      <4>5. Older(x.made) <= x.age + 1 + k
        BY <3>5, <4>2, <4>4, GrowTogether
      <4> QED
        BY <4>1, <4>2, <4>3, <4>5
    <3> QED
      BY <3>3, <3>6, <3>7 DEF PredictionsOK
  <2> QED
    BY <2>1, <2>2
<1>5. ASSUME NEW r \in Requests
      PROVE  req'[r] \in Handler /\ HandlerOK(req'[r], today)
  <2> DEFINE x == req[r]
             y == [x EXCEPT !.took = @ + 1, !.weather = aged(x.weather)]
  <2>1. /\ x \in Handler /\ HandlerOK(x, today)
        /\ x.took \in 0 .. Slow /\ x.weather \in WeatherData
    BY DEF WInv, TypeOK, Handler
  <2>2. CASE ~ HasBegun(r)
    BY <2>1, <2>2 DEF Tick
  <2>3. CASE HasBegun(r)
    <3>1. req'[r] = y
      BY <2>1, <2>3 DEF Tick, Handler, WeatherData
    <3>2. x.took + 1 \in 0 .. Slow
      <4>1. x.took < Slow
        BY <2>3 DEF Tick
      <4> QED
        BY <2>1, <4>1, WeatherAssumption
    <3> HIDE DEF aged
    <3>3. /\ y \in Handler /\ y.pc = x.pc /\ y.window = x.window /\ y.took = x.took + 1
          /\ y.weather = aged(x.weather)
      BY <1>1, <2>1, <3>2 DEF Handler
    <3> HIDE DEF x, y
    <3>4. InOrder(y)
      BY <1>1, <2>1, <3>3 DEF HandlerOK, InOrder, ByArchive, ByBoth
    <3>5. SameNight(y, today)
      BY <1>1, <2>1, <3>3 DEF HandlerOK, SameNight
    <3>6. Aged(y)
      <4>1. y.weather.made <= x.weather.made + 1
            /\ x.weather.made \in Int /\ y.weather.made \in Int
        BY <1>1, <2>1, <3>3
      <4>2. CacheTTL - 1 + Slow \in Int
        BY WeatherAssumption
      <4>3. ASSUME y.pc \in Fetches PROVE y.weather.made <= y.took
        <5>1. x.weather.made <= x.took
          BY <2>1, <3>3, <4>3 DEF HandlerOK, Aged
        <5> QED
          BY <2>1, <3>3, <4>1, <5>1, WeatherAssumption, SMTT(30)
      <4>4. ASSUME y.pc = "sensors" PROVE y.weather.made <= CacheTTL - 1 + Slow + y.took
        <5>1. x.weather.made <= CacheTTL - 1 + Slow + x.took
          BY <2>1, <3>3, <4>4 DEF HandlerOK, Aged
        <5>2. PICK K \in Int : K = CacheTTL - 1 + Slow
          BY <4>2
        <5>3. x.took \in Int /\ y.took = x.took + 1
          BY <2>1, <3>3, WeatherAssumption
        <5> QED
          BY <4>1, <5>1, <5>2, <5>3
      <4> QED
        BY <4>3, <4>4 DEF Aged
    <3> QED
      BY <3>1, <3>3, <3>4, <3>5, <3>6 DEF HandlerOK
  <2> QED
    BY <2>2, <2>3
<1>6. UNCHANGED <<healthy, today>> /\ req' \in [Requests -> Handler]
  <2>1. req' = [r \in Requests |-> req'[r]]
    BY DEF Tick
  <2> QED
    BY <1>5, <2>1 DEF Tick
<1>7. \A w \in Days \X Days : weatherCache'[w] # None =>
          weatherCache'[w].weather.points # NoWeather.points
  BY <1>3 DEF EntryOK
<1>8. TypeOK'
  BY <1>3, <1>4, <1>6, <1>7 DEF WInv, TypeOK, Prediction
<1> QED
  BY <1>3, <1>4, <1>5, <1>6, <1>8 DEF WInv

(* Midnight passes under requests of that day only.                        *)
LEMMA Nights ==
    ASSUME WInv, Midnight \/ Recover
    PROVE  WInv'
<1>1. UNCHANGED <<weatherCache, predictions, req>>
  BY DEF Midnight, Recover
<1>2. today' \in FirstDay .. LastDay /\ healthy' \in BOOLEAN
  <2>1. today \in FirstDay .. LastDay /\ healthy \in BOOLEAN
    BY DEF WInv, TypeOK
  <2>2. CASE Midnight
    BY <2>1, <2>2, WeatherAssumption DEF Midnight
  <2>3. CASE Recover
    BY <2>1, <2>3 DEF Recover
  <2> QED
    BY <2>2, <2>3
<1>3. TypeOK'
  BY <1>1, <1>2 DEF WInv, TypeOK
<1>4. ASSUME NEW r \in Requests PROVE HandlerOK(req[r], today')
  <2>1. HandlerOK(req[r], today)
    BY DEF WInv
  <2>2. SameNight(req[r], today')
    <3>1. CASE Recover
      BY <2>1, <3>1 DEF Recover, HandlerOK
    <3>2. CASE Midnight
      BY <3>2, WeatherAssumption DEF Midnight, SameNight, WInv, TypeOK
    <3> QED
      BY <3>1, <3>2
  <2> QED
    BY <2>1, <2>2 DEF HandlerOK
<1> QED
  BY <1>1, <1>3, <1>4 DEF WInv

LEMMA StepInv == WInv /\ [Next]_vars => WInv'
<1> SUFFICES ASSUME WInv, [Next]_vars PROVE WInv'
  OBVIOUS
<1>1. ASSUME NEW r \in Requests, Ask(r) PROVE WInv'
  BY <1>1, Asks
<1>2. ASSUME NEW r \in Requests, Handle(r) PROVE WInv'
  BY <1>2, LooksUp, FetchesArchive, FetchesForecast, FetchesFallback, Predicts DEF Handle
<1>3. CASE Tick
  BY <1>3, Ticks
<1>4. CASE Midnight \/ Recover
  BY <1>4, Nights
<1>5. CASE UNCHANGED vars
  BY <1>5 DEF vars, WInv, TypeOK, HandlerOK, InOrder, SameNight, Aged, EntryOK,
              PredictionsOK, ByArchive, ByBoth, CoveredBy
<1> QED
  BY <1>1, <1>2, <1>3, <1>4, <1>5 DEF Next

LEMMA Invariance == Spec => []WInv
BY InitInv, StepInv, PTL DEF Spec

(* Every state is well typed, and no cached answer is empty.               *)
THEOREM WeatherTypeOK == Spec => []TypeOK
<1>1. WInv => TypeOK
  BY DEF WInv
<1> QED
  BY <1>1, Invariance, PTL

(* A cached answer has every hour that one of the services answered for,   *)
(* whatever the window and whenever midnight comes (openmeteo.py:66-113).  *)
THEOREM WeatherCovered == Spec => []Covered
<1>1. WInv => Covered
  BY DEF WInv, EntryOK, Covered
<1> QED
  BY <1>1, Invariance, PTL

(* Cached weather is at most CacheTTL and one request old, predictions at  *)
(* most twice that (openmeteo.py:62, predict.py:145).                      *)
THEOREM WeatherNothingOld == Spec => []NothingOld
<1>1. WInv => NothingOld
  <2> SUFFICES ASSUME WInv PROVE NothingOld
    OBVIOUS
  <2>1. CacheTTL \in Int /\ Slow \in Int
    BY WeatherAssumption
  <2>2. ASSUME NEW w \in Days \X Days, weatherCache[w] # None
        PROVE  weatherCache[w].weather.made <= CacheTTL - 1 + Slow
    <3>1. weatherCache[w] \in WeatherEntry
      BY <2>2 DEF WInv, TypeOK
    <3>2. /\ weatherCache[w].age \in 0 .. CacheTTL - 1
          /\ weatherCache[w].weather.made \in Int
      BY <3>1, WeatherAssumption, SMTT(30) DEF WeatherEntry, WeatherData, Oldest
    <3>3. weatherCache[w].weather.made <= weatherCache[w].age + Slow
      BY <2>2 DEF WInv, EntryOK
    <3> QED
      BY <2>1, <3>2, <3>3
  <2>3. ASSUME predictions # None
        PROVE  predictions.made <= 2 * (CacheTTL - 1 + Slow)
    <3>1. predictions.age \in 0 .. CacheTTL - 1 /\ predictions.made \in Int
      BY <2>3, WeatherAssumption DEF WInv, TypeOK, Oldest
    <3>2. predictions.made <= predictions.age + (CacheTTL - 1 + Slow) + Slow
      BY <2>3 DEF WInv, PredictionsOK
    <3> QED
      BY <2>1, <3>1, <3>2
  <2> QED
    BY <2>2, <2>3 DEF NothingOld
<1> QED
  BY <1>1, Invariance, PTL
==============================================================================
