------------------------------ MODULE Dashboard ------------------------------
(***************************************************************************)
(* The page of the dashboard (server/static/app.jsx with sensor-model.js   *)
(* and chart-factory.js), the endpoints it calls and the plant monitor     *)
(* (the Pi) behind them.  JavaScript runs one callback at a time, and what *)
(* a callback sets is rendered at once; but everything is asked for with   *)
(* requests that overlap and are answered in any order.                    *)
(*                                                                         *)
(* A reading is the time it was taken at, a request of Promise.all one     *)
(* entry with a place for each sensor's rows.  Left out are the spinner    *)
(* and the error cards, the weather and the predictions, and the wait      *)
(* between two polls (any time).                                           *)
(***************************************************************************)
EXTENDS Integers, Sequences, FiniteSets, SequencesExt, FiniteSetsExt

CONSTANTS
    Sensors,
    Ranges, DefaultRange,
    Hours, MaxPoints,   \* rangeConfig: of each range
    MinPoints,          \* 50, the least a zoom asks for
    Zooms,              \* the windows a user zooms to
    Nothing,
    MaxTime,            \* bound: the clock
    MaxRequests         \* bound: histories and zooms under way

ASSUME DashboardAssumption ==
    /\ DefaultRange \in Ranges
    /\ Hours \in [Ranges -> Nat \ {0}] /\ MaxPoints \in [Ranges -> Nat \ {0}]
    /\ MinPoints \in Nat \ {0}
    /\ Zooms \subseteq [min : Int, max : Int] /\ \A z \in Zooms : z.min < z.max
    /\ Nothing \notin Zooms
    /\ MaxTime \in Nat /\ MaxRequests \in Nat

VARIABLES
    now,
    readings,       \* readings[s]: what the Pi has of s
    registered,     \* the sensors in the server's table
    loadingSensors, sensors,
    range, rangeWindow, history,
    drawn,          \* auxiliary: the page has shown a history
    loads,          \* histories asked for, the oldest first
    poll,           \* "off", "waiting" for the timer, "asked", "answered"
    latest,         \* the answer under way
    zoomedRange, zoomTimer, zoomCache, zoomed,
    zoomFetches     \* zooms asked for, the oldest first

world == <<now, readings, registered>>
page == <<loadingSensors, sensors>>
shown == <<range, rangeWindow, history, drawn, loads>>
zoom == <<zoomedRange, zoomTimer, zoomCache, zoomed, zoomFetches>>
polling == <<poll, latest>>
vars == <<world, page, shown, polling, zoom>>

Times == 0 .. MaxTime

------------------------------------------------------------------------------
(* choose_bucket_seconds                                                   *)
Bucket(from, to, points) ==
    LET window == Max({1, to - from})
    IN  Max({1, (window + points - 1) \div points})

(* The times of a set in ascending order: the rows of the Pi come with the *)
(* newest first, and normalizeReadings reverses them.                      *)
Ascending(S) ==
    CHOOSE f \in [1 .. Cardinality(S) -> S] : \A i, j \in DOMAIN f : i < j => f[i] < f[j]

(* The rows of a window, the newest of each bucket.  The Pi thins out as   *)
(* the server itself does.                                                 *)
Rows(s, w) ==
    LET in == {t \in readings[s] : w.from <= t /\ t <= w.to}
        bucket == Bucket(w.from, w.to, w.points)
    IN  Ascending({t \in in : \A u \in in : u \div bucket = t \div bucket => u <= t})

(* buildRangeWindow                                                        *)
RangeWindow(r) == [from |-> now - Hours[r], to |-> now, points |-> MaxPoints[r]]

(* Requests to some sensors, awaited by Promise.all.                       *)
Asked(w, list) == [window |-> w, rows |-> [s \in list |-> Nothing]]

HasRoom == Len(loads) + Len(zoomFetches) < MaxRequests

Answered(request) == \A s \in DOMAIN request.rows : request.rows[s] # Nothing

Serve(requests, i, s) ==
    [requests EXCEPT ![i].rows[s] = Rows(s, requests[i].window)]

------------------------------------------------------------------------------
(* Mounting the page: no rows yet, GET /sensors on its way.                *)
Mounted ==
    /\ loadingSensors = TRUE /\ sensors = {}
    /\ range = DefaultRange /\ rangeWindow = RangeWindow(DefaultRange)
    /\ history = [s \in Sensors |-> <<>>] /\ drawn = FALSE
    /\ loads = <<>> /\ poll = "off" /\ latest = <<>>
    /\ zoomedRange = Nothing /\ zoomTimer = Nothing
    /\ zoomCache = Nothing /\ zoomed = Nothing /\ zoomFetches = <<>>

Init ==
    /\ now = 0
    /\ readings = [s \in Sensors |-> {}]
    /\ registered \in SUBSET Sensors
    /\ Mounted

Reload ==
    /\ loadingSensors' = TRUE /\ sensors' = {}
    /\ range' = DefaultRange /\ rangeWindow' = RangeWindow(DefaultRange)
    /\ history' = [s \in Sensors |-> <<>>] /\ drawn' = FALSE
    /\ loads' = <<>> /\ poll' = "off" /\ latest' = <<>>
    /\ zoomedRange' = Nothing /\ zoomTimer' = Nothing
    /\ zoomCache' = Nothing /\ zoomed' = Nothing /\ zoomFetches' = <<>>
    /\ UNCHANGED world

Tick ==
    /\ now < MaxTime
    /\ now' = now + 1
    /\ UNCHANGED <<readings, registered, page, shown, polling, zoom>>

(* The Pi reads a sensor.                                                  *)
Report(s) ==
    /\ readings' = [readings EXCEPT ![s] = @ \cup {now}]
    /\ UNCHANGED <<now, registered, page, shown, polling, zoom>>

(* An upload registers a sensor (ensure_sensor).                           *)
Register(s) ==
    /\ registered' = registered \cup {s}
    /\ UNCHANGED <<now, readings, page, shown, polling, zoom>>

------------------------------------------------------------------------------
(* loadHistory up to its first await, run by a change of range or sensors  *)
(* when there are sensors; it ends the zoom.                               *)
LoadHistory(r, list) ==
    IF list = {} THEN UNCHANGED <<loads, zoomedRange, zoomTimer, zoomed>>
    ELSE /\ HasRoom
         /\ loads' = Append(loads, Asked(RangeWindow(r), list))
         /\ zoomedRange' = Nothing /\ zoomTimer' = Nothing /\ zoomed' = Nothing

(* GET /sensors answers; the effects of [sensors] load the history and     *)
(* start to poll.                                                          *)
LoadSensors ==
    /\ loadingSensors
    /\ loadingSensors' = FALSE
    /\ sensors' = registered
    /\ LoadHistory(range, registered)
    /\ poll' = IF registered = {} THEN "off" ELSE "asked"
    /\ UNCHANGED <<world, range, rangeWindow, history, drawn, latest, zoomCache, zoomFetches>>

LoadSensorsFails ==
    /\ loadingSensors
    /\ loadingSensors' = FALSE
    /\ UNCHANGED <<world, sensors, shown, polling, zoom>>

(* Fault: the axis changes at once, the rows when they come.               *)
AxisAtOnce(r) ==
    /\ r # range
    /\ range' = r /\ rangeWindow' = RangeWindow(r)
    /\ zoomCache' = Nothing
    /\ LoadHistory(r, sensors)
    /\ UNCHANGED <<world, page, history, drawn, polling, zoomFetches>>

SetRange(r) ==
    /\ r # range
    /\ range' = r
    /\ zoomCache' = Nothing
    /\ LoadHistory(r, sensors)
    /\ UNCHANGED <<world, page, rangeWindow, history, drawn, polling, zoomFetches>>

(* GET /sensors/{id}/readings is answered by the Pi.                       *)
ServeLoad(i, s) ==
    /\ loads[i].rows[s] = Nothing
    /\ loads' = Serve(loads, i, s)
    /\ UNCHANGED <<world, page, range, rangeWindow, history, drawn, polling, zoom>>

ShowHistory(i) ==
    /\ Answered(loads[i])
    /\ rangeWindow' = loads[i].window
    /\ history' = [s \in Sensors |->
                     IF s \in DOMAIN loads[i].rows THEN loads[i].rows[s] ELSE <<>>]
    /\ drawn' = TRUE
    /\ loads' = RemoveAt(loads, i)
    /\ UNCHANGED <<world, page, range, polling, zoom>>

(* One of the requests fails: the others are ignored.                      *)
LoadFails(i) ==
    /\ loads' = RemoveAt(loads, i)
    /\ UNCHANGED <<world, page, range, rangeWindow, history, drawn, polling, zoom>>

------------------------------------------------------------------------------
(* Fault: a reading that is there already is appended again.               *)
Appended(rows, t) == Append(rows, t)

(* mergeLatestIntoRows                                                     *)
Merged(rows, t) == IF Contains(rows, t) THEN rows ELSE Append(rows, t)

PollTimer ==
    /\ poll = "waiting"
    /\ poll' = "asked"
    /\ UNCHANGED <<world, page, shown, latest, zoom>>

(* GET /sensors/latest: the newest reading of the sensors the Pi names,    *)
(* which the server registers on the way (latest_v2_entries).              *)
ServePoll(named) ==
    /\ poll = "asked"
    /\ registered' = registered \cup named
    /\ poll' = "answered"
    /\ latest' = [s \in named |-> Max(readings[s])]
    /\ UNCHANGED <<now, readings, page, shown, zoom>>

Reporting == {s \in Sensors : readings[s] # {}}

PollAnswered ==
    /\ poll = "answered"
    /\ history' = [s \in Sensors |-> IF s \in DOMAIN latest THEN Merged(history[s], latest[s])
                                                          ELSE history[s]]
    /\ poll' = "waiting" /\ latest' = <<>>
    /\ UNCHANGED <<world, page, range, rangeWindow, drawn, loads, zoom>>

(* Fault: the next poll is scheduled after an answer only.                 *)
PollGivesUp ==
    /\ poll = "asked"
    /\ poll' = "off"
    /\ UNCHANGED <<world, page, shown, latest, zoom>>

(* The request fails, or its answer is lost.                               *)
PollFails ==
    /\ poll = "asked"
    /\ poll' = "waiting"
    /\ UNCHANGED <<world, page, shown, latest, zoom>>

------------------------------------------------------------------------------
(* _syncZoom and zoomAllTo: the wheel, dragging, panning, the button       *)
(* "fcast"; each starts the 800 ms anew.                                   *)
Zoom(z) ==
    /\ zoomedRange' = z /\ zoomTimer' = z
    /\ UNCHANGED <<world, page, shown, polling, zoomCache, zoomed, zoomFetches>>

(* resetZoom                                                               *)
ResetZoom ==
    /\ zoomedRange' = Nothing /\ zoomTimer' = Nothing /\ zoomed' = Nothing
    /\ UNCHANGED <<world, page, shown, polling, zoomCache, zoomFetches>>

(* Math.round                                                              *)
Quotient(a, b) == (2 * a + b) \div (2 * b)

(* Fault: rounded down, and without a least number.                        *)
ZoomPointsDown(z) ==
    (rangeWindow.points * (z.max - z.min)) \div (rangeWindow.to - rangeWindow.from)

ZoomPoints(z) ==
    Max({MinPoints, Quotient(rangeWindow.points * (z.max - z.min),
                             rangeWindow.to - rangeWindow.from)})

CacheHolds(z) ==
    /\ zoomCache # Nothing
    /\ zoomCache.min <= z.min /\ z.max <= zoomCache.max
    /\ ZoomPoints(z) <= zoomCache.points

(* The 800 ms are over: the callback of setZoomChangeCallback is run.      *)
ZoomChanged ==
    /\ zoomTimer # Nothing
    /\ zoomTimer' = Nothing
    /\ UNCHANGED <<world, page, shown, polling, zoomedRange, zoomCache>>

ZoomFromCache ==
    /\ ZoomChanged
    /\ CacheHolds(zoomTimer)
    /\ zoomed' = zoomCache.data
    /\ UNCHANGED zoomFetches

(* Only the forecast is in view.                                           *)
ZoomAhead ==
    /\ ZoomChanged
    /\ ~CacheHolds(zoomTimer) /\ now <= zoomTimer.min
    /\ zoomed' = << >>
    /\ UNCHANGED zoomFetches

ZoomFetch ==
    /\ ZoomChanged
    /\ ~CacheHolds(zoomTimer) /\ zoomTimer.min < now
    /\ HasRoom
    /\ zoomFetches' = Append(zoomFetches,
          [zoom   |-> zoomTimer,
           window |-> [from   |-> zoomTimer.min, to |-> Min({zoomTimer.max, now}),
                       points |-> ZoomPoints(zoomTimer)],
           rows   |-> [s \in sensors |-> Nothing]])
    /\ UNCHANGED zoomed

ServeZoom(i, s) ==
    /\ zoomFetches[i].rows[s] = Nothing
    /\ zoomFetches' = Serve(zoomFetches, i, s)
    /\ UNCHANGED <<world, page, shown, polling, zoomedRange, zoomTimer, zoomCache, zoomed>>

(* "until", when it was asked for, is kept for ZoomCacheComplete only.     *)
ShowZoom(i) ==
    LET f == zoomFetches[i] IN
    /\ Answered(f)
    /\ zoomCache' = [min |-> f.zoom.min, max |-> f.zoom.max, points |-> f.window.points,
                     data |-> f.rows, until |-> f.window.to]
    /\ zoomed' = f.rows
    /\ zoomFetches' = RemoveAt(zoomFetches, i)
    /\ UNCHANGED <<world, page, shown, polling, zoomedRange, zoomTimer>>

ZoomFails(i) ==
    /\ zoomFetches' = RemoveAt(zoomFetches, i)
    /\ UNCHANGED <<world, page, shown, polling, zoomedRange, zoomTimer, zoomCache, zoomed>>

------------------------------------------------------------------------------
Next ==
    \/ Tick
    \/ \E s \in Sensors : Report(s)
    \/ \E s \in Sensors : Register(s)
    \/ Reload
    \/ LoadSensors
    \/ LoadSensorsFails
    \/ \E r \in Ranges : SetRange(r)
    \/ \E i \in DOMAIN loads : \E s \in DOMAIN loads[i].rows : ServeLoad(i, s)
    \/ \E i \in DOMAIN loads : ShowHistory(i)
    \/ \E i \in DOMAIN loads : LoadFails(i)
    \/ PollTimer
    \/ \E named \in SUBSET Reporting : ServePoll(named)
    \/ PollAnswered
    \/ PollFails
    \/ \E z \in Zooms : Zoom(z)
    \/ ResetZoom
    \/ ZoomFromCache
    \/ ZoomAhead
    \/ ZoomFetch
    \/ \E i \in DOMAIN zoomFetches : \E s \in DOMAIN zoomFetches[i].rows : ServeZoom(i, s)
    \/ \E i \in DOMAIN zoomFetches : ShowZoom(i)
    \/ \E i \in DOMAIN zoomFetches : ZoomFails(i)

(* Timers fire, answers that are sent arrive, the sensor list of a page    *)
(* that stays open ends one way or the other, and among the polls of such  *)
(* a page are some the Pi answers in full.                                 *)
Fairness ==
    /\ WF_vars(PollTimer)
    /\ WF_vars(PollAnswered)
    /\ SF_vars(ServePoll(Reporting))
    /\ SF_vars(LoadSensors)

Spec == Init /\ [][Next]_vars /\ Fairness

------------------------------------------------------------------------------
Windows == [from : Int, to : Int, points : Nat \ {0}]
RowSeqs == Seq(Times)
Fetched(request) ==
    /\ request.window \in Windows
    /\ \A s \in DOMAIN request.rows :
          s \in Sensors /\ (request.rows[s] = Nothing \/ request.rows[s] \in RowSeqs)

TypeOK ==
    /\ now \in Times
    /\ readings \in [Sensors -> SUBSET Times] /\ registered \subseteq Sensors
    /\ loadingSensors \in BOOLEAN /\ sensors \subseteq registered
    /\ range \in Ranges /\ rangeWindow \in Windows /\ drawn \in BOOLEAN
    /\ history \in [Sensors -> RowSeqs]
    /\ \A i \in DOMAIN loads : Fetched(loads[i])
    /\ poll \in {"off", "waiting", "asked", "answered"}
    /\ latest \in UNION {[S -> Times] : S \in SUBSET Sensors}
    /\ {zoomedRange, zoomTimer} \subseteq Zooms \cup {Nothing}
    /\ \A i \in DOMAIN zoomFetches :
          Fetched(zoomFetches[i]) /\ zoomFetches[i].zoom \in Zooms
    /\ zoomed # Nothing => \A s \in DOMAIN zoomed : zoomed[s] \in RowSeqs

(* Rows leave no gap: of every reading before "to" there is a row in the   *)
(* same bucket that is not older.                                          *)
Complete(rows, s, from, to, bucket) ==
    \A t \in {t \in readings[s] : from <= t /\ t < to} :
        \E i \in DOMAIN rows : t <= rows[i] /\ rows[i] \div bucket = t \div bucket

(* The time axis and the rows of the charts belong together: whichever     *)
(* history came last, was overtaken or failed, the axis is that of a       *)
(* history whose rows are all there, those merged in since included.       *)
RangeComplete ==
    LET w == rangeWindow IN
    drawn => \A s \in sensors :
        Complete(history[s], s, w.from, w.to, Bucket(w.from, w.to, w.points))

(* No reading is drawn twice, although histories and polls bring the same. *)
NoReadingTwice ==
    \A s \in Sensors : \A i, j \in DOMAIN history[s] :
        history[s][i] = history[s][j] => i = j

(* What the zoom cache serves has no gap up to the time it was asked for,  *)
(* also when answers overtook each other or the range changed meanwhile    *)
(* (app.jsx:76-89).  It takes several windows and ranges to matter, and is *)
(* proved (DashboardProofs) rather than checked.                           *)
ZoomCacheComplete ==
    LET c == zoomCache IN
    c # Nothing => \A s \in DOMAIN c.data :
        Complete(c.data[s], s, c.min, c.until, Bucket(c.min, c.until, c.points))

(* "so charts stay live" (server/docs/architecture.md:324): of any reading *)
(* a page that stays open shows it or a newer one in the end, whatever     *)
(* polls and histories fail or overtake each other.  More does not hold: a *)
(* poll brings the newest reading alone, and one that was superseded       *)
(* between two polls is not drawn before the next history.                 *)
NeverLeftBehind ==
    \A s \in Sensors, t \in Times :
        s \in sensors /\ t \in readings[s]
          ~> s \notin sensors \/ \E i \in DOMAIN history[s] : t <= history[s][i]
==============================================================================
