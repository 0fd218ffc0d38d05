----------------------------- MODULE DisplayProofs ----------------------------
(***************************************************************************)
(* Proofs of the invariants of Display, for every value of its constants.  *)
(***************************************************************************)
EXTENDS Display, SequenceTheorems, TLAPS

(* The state and the panel that power-on leaves are well typed.            *)
LEMMA EmptyStateType == EmptyState \in State
BY DEF EmptyState, State, EmptyReading

LEMMA BlankPanelType ==
    BlankPanel.dim \in BOOLEAN /\ DOMAIN BlankPanel.rows = Sensors
BY DEF BlankPanel

(* Every state a tick may bring is a State.                                *)
LEMMA StateAfterType ==
    ASSUME NEW old \in State, NEW new \in StateAfter(old)
    PROVE  new \in State
<1>1. SalahAfter(old.salah) \subseteq {SalahAt(t) : t \in Minutes} \cup {NoValue}
  BY DEF SalahAfter
<1>2. ForecastAfter(old.forecast) \subseteq Forecasts \cup {NoValue}
  BY DEF ForecastAfter
<1> QED
  BY <1>1, <1>2 DEF State, StateAfter

(* Every state of a display is well typed; the contrast is a Boolean even  *)
(* where drawing the name leaves it alone.                                 *)
THEOREM DisplayTypeOK == Spec => []TypeOK
<1>1. Init => TypeOK
  BY EmptyStateType, BlankPanelType DEF Init, TypeOK
<1>2. TypeOK /\ [Next]_displayVars => TypeOK'
  <2> SUFFICES ASSUME TypeOK, [Next]_displayVars PROVE TypeOK'
    OBVIOUS
  <2>1. CASE Tick
    <3>1. state' \in State
      BY <2>1, StateAfterType DEF Tick, TypeOK
    <3>2. panel'.dim \in BOOLEAN /\ DOMAIN panel'.rows = Sensors
      BY <2>1 DEF Tick, TypeOK, renderUi, Dimmed
    <3> QED
      BY <2>1, <3>1, <3>2 DEF Tick, TypeOK
  <2>2. CASE PowerCycle
    BY <2>2, EmptyStateType, BlankPanelType DEF PowerCycle, TypeOK
  <2>3. CASE UNCHANGED displayVars
    BY <2>3 DEF displayVars, TypeOK
  <2> QED
    BY <2>1, <2>2, <2>3 DEF Next
<1> QED
  BY <1>1, <1>2, PTL DEF Spec

------------------------------------------------------------------------------
(* Rows that are equal for the display are drawn alike.                    *)
LEMMA EqualRowsDrawAlike ==
    ASSUME NEW s, NEW t, NEW r \in Sensors, equalsForDisplay(s.rows[r], t.rows[r])
    PROVE  drawSensorRowRegion(s, r) = drawSensorRowRegion(t, r)
BY DEF equalsForDisplay, drawSensorRowRegion

(* Every sensor row on the glass is what a full draw of the state would    *)
(* give, so no sequence of skipped redraws leaves an old reading there.    *)
THEOREM DisplayRowsFresh == Spec => []RowsFresh
<1>1. Init => RowsFresh
  BY DEF Init, RowsFresh, BlankPanel, EmptyState, EmptyReading,
         drawSensorRowRegion, hasCompleteReading
<1>2. RowsFresh /\ [Next]_displayVars => RowsFresh'
  <2> SUFFICES ASSUME RowsFresh, [Next]_displayVars, NEW r \in Sensors
               PROVE  panel'.rows[r] = drawSensorRowRegion(state', r)
    BY DEF RowsFresh
  <2>1. CASE Tick
    <3>1. panel'.rows[r] = IF r \in DirtyNow.sensorRows
                           THEN drawSensorRowRegion(state', r) ELSE panel.rows[r]
      BY <2>1 DEF Tick, renderUi
    <3>2. r \notin DirtyNow.sensorRows =>
             equalsForDisplay(state.rows[r], state'.rows[r])
      BY DEF DirtyNow, EverythingDirty, computeDirtyRegions
    <3> QED
      BY <3>1, <3>2, EqualRowsDrawAlike DEF RowsFresh
  <2>2. CASE PowerCycle
    BY <2>2 DEF PowerCycle, BlankPanel, EmptyState, EmptyReading,
                drawSensorRowRegion, hasCompleteReading
  <2>3. CASE UNCHANGED displayVars
    BY <2>3 DEF displayVars, RowsFresh
  <2> QED
    BY <2>1, <2>2, <2>3 DEF Next
<1> QED
  BY <1>1, <1>2, PTL DEF Spec

------------------------------------------------------------------------------
(* A salah state never disappears once it is there.                        *)
LEMMA SalahStays ==
    ASSUME NEW old, NEW new \in StateAfter(old), old.salah # NoValue
    PROVE  new.salah # NoValue
BY DisplayAssumption DEF StateAfter, SalahAfter

(* The phase name and the contrast on the glass are those of the current   *)
(* phase; only in AsrMakruh may the colours of the name be old.            *)
THEOREM DisplayNameFresh == Spec => []NameFresh
<1>1. Init => NameFresh
  BY DEF Init, NameFresh, BlankPanel, EmptyState
<1>2. NameFresh /\ [Next]_displayVars => NameFresh'
  <2> SUFFICES ASSUME NameFresh, [Next]_displayVars PROVE NameFresh'
    OBVIOUS
  <2>1. CASE Tick
    <3>1. /\ panel'.name = IF DirtyNow.salahName THEN drawSalahNameRegion(state')
                           ELSE panel.name
          /\ panel'.dim = IF DirtyNow.salahName THEN Dimmed(state', panel.dim)
                          ELSE panel.dim
      BY <2>1 DEF Tick, renderUi
    <3>2. state.salah # NoValue => state'.salah # NoValue
      BY <2>1, SalahStays DEF Tick
    <3>3. CASE DirtyNow.salahName
      BY <3>1, <3>2, <3>3 DEF NameFresh, drawSalahNameRegion, Dimmed
    <3>4. CASE ~ DirtyNow.salahName
      <4>1. ~ SalahNameDirty(state, state')
        BY <3>4 DEF DirtyNow, EverythingDirty, computeDirtyRegions
      <4>2. CASE state.salah = NoValue
        BY <4>1, <4>2, <3>1, <3>4 DEF NameFresh, SalahNameDirty
      <4>3. CASE state.salah # NoValue
        <5>1. state'.salah # NoValue /\ state'.salah.current = state.salah.current
          BY <4>1, <4>3 DEF SalahNameDirty
        <5> QED
          BY <5>1, <4>3, <3>1, <3>4
          DEF NameFresh, drawSalahNameRegion, shouldFlipColoursForSalah
      <4> QED
        BY <4>2, <4>3
    <3> QED
      BY <3>3, <3>4
  <2>2. CASE PowerCycle
    BY <2>2 DEF PowerCycle, NameFresh, BlankPanel, EmptyState
  <2>3. CASE UNCHANGED displayVars
    BY <2>3 DEF displayVars, NameFresh, drawSalahNameRegion
  <2> QED
    BY <2>1, <2>2, <2>3 DEF Next
<1> QED
  BY <1>1, <1>2, PTL DEF Spec

------------------------------------------------------------------------------
(* Temperatures that round to the same degree are truncated to the same or *)
(* to neighbouring ones.                                                   *)
LEMMA SameRoundingNear ==
    ASSUME NEW a \in Int, NEW b \in Int, displayTemp(a) = displayTemp(b)
    PROVE  Near(Truncated(a), Truncated(b))
BY DEF displayTemp, Truncated, Near

(* The forecast on the glass was drawn from f, which the dirty check takes *)
(* to be the same as the forecast g of the state.                          *)
RoundsLike(f, g) ==
    /\ DOMAIN f = DOMAIN g
    /\ \A i \in DOMAIN g : SameRenderedDay(f[i], g[i])

(* The inductive invariant: however many redraws were skipped, the forecast *)
(* on the glass was drawn from one that still rounds like the state's.      *)
ForecastDrawn ==
    /\ state \in State
    /\ IF state.forecast = NoValue THEN panel.forecast = NoValue
       ELSE \E f \in Forecasts :
               /\ panel.forecast = drawForecastRegion([state EXCEPT !.forecast = f])
               /\ RoundsLike(f, state.forecast)

LEMMA ForecastDay ==
    ASSUME NEW f \in Forecasts, NEW i \in DOMAIN f
    PROVE  f[i].tempMin \in Int /\ f[i].tempMax \in Int
<1>1. f \in Seq([date : Nat, tempMin : Int, tempMax : Int])
  BY DisplayAssumption
<1>2. i \in 1 .. Len(f)
  BY <1>1
<1>3. f[i] \in [date : Nat, tempMin : Int, tempMax : Int]
  BY <1>1, <1>2, ElementOfSeq
<1> QED
  BY <1>3

(* What is drawn from a forecast that rounds alike is within a degree.     *)
LEMMA DrawnNear ==
    ASSUME ForecastDrawn PROVE ForecastWithinADegree
<1> SUFFICES ASSUME state.forecast # NoValue PROVE ForecastWithinADegree
  BY DEF ForecastDrawn, ForecastWithinADegree
<1>1. PICK f \in Forecasts :
         /\ panel.forecast = drawForecastRegion([state EXCEPT !.forecast = f])
         /\ RoundsLike(f, state.forecast)
  BY DEF ForecastDrawn
<1> DEFINE g == state.forecast
<1>2. g \in Forecasts /\ state \in State
  BY DEF ForecastDrawn, State
<1>3. panel.forecast = [i \in DOMAIN f |-> [low  |-> Truncated(f[i].tempMin),
                                           high |-> Truncated(f[i].tempMax)]]
  BY <1>1, <1>2, DisplayAssumption DEF drawForecastRegion, State
<1>4. drawForecastRegion(state) =
         [i \in DOMAIN g |-> [low  |-> Truncated(g[i].tempMin),
                              high |-> Truncated(g[i].tempMax)]]
  BY DEF drawForecastRegion
<1>5. DOMAIN f = DOMAIN g
  BY <1>1 DEF RoundsLike
<1>6. ASSUME NEW i \in DOMAIN g
      PROVE  /\ Near(Truncated(f[i].tempMin), Truncated(g[i].tempMin))
             /\ Near(Truncated(f[i].tempMax), Truncated(g[i].tempMax))
  <2>1. SameRenderedDay(f[i], g[i])
    BY <1>1, <1>6 DEF RoundsLike
  <2>2. /\ f[i].tempMin \in Int /\ f[i].tempMax \in Int
        /\ g[i].tempMin \in Int /\ g[i].tempMax \in Int
    BY <1>2, <1>5, <1>6, ForecastDay
  <2> QED
    BY <2>1, <2>2, SameRoundingNear DEF SameRenderedDay
<1> HIDE DEF g
<1>7. /\ DOMAIN panel.forecast = DOMAIN drawForecastRegion(state)
      /\ \A i \in DOMAIN drawForecastRegion(state) :
            /\ Near(panel.forecast[i].low, drawForecastRegion(state)[i].low)
            /\ Near(panel.forecast[i].high, drawForecastRegion(state)[i].high)
  BY <1>3, <1>4, <1>5, <1>6
<1> QED
  BY <1>7 DEF ForecastWithinADegree

(* A tick that skips the forecast leaves it drawn from one that rounds     *)
(* alike; a tick that draws it draws it from the state.                    *)
LEMMA TickForecastDrawn ==
    ASSUME ForecastDrawn, Tick PROVE ForecastDrawn'
<1>1. state' \in State
  BY StateAfterType DEF Tick, ForecastDrawn
<1>2. panel'.forecast = IF DirtyNow.forecast THEN drawForecastRegion(state')
                        ELSE panel.forecast
  BY DEF Tick, renderUi
<1>3. state.forecast # NoValue => state'.forecast # NoValue
  BY DisplayAssumption DEF Tick, StateAfter, ForecastAfter
<1>4. CASE state'.forecast = NoValue
  BY <1>1, <1>2, <1>3, <1>4 DEF ForecastDrawn, drawForecastRegion
<1>5. CASE state'.forecast # NoValue /\ DirtyNow.forecast
  <2>1. state'.forecast \in Forecasts
    BY <1>1, <1>5 DEF State
  <2>2. [state' EXCEPT !.forecast = state'.forecast] = state'
    BY <1>1 DEF State
  <2>3. RoundsLike(state'.forecast, state'.forecast)
    BY DEF RoundsLike, SameRenderedDay
  <2> QED
    BY <1>1, <1>2, <1>5, <2>1, <2>2, <2>3 DEF ForecastDrawn
<1>6. CASE state'.forecast # NoValue /\ ~ DirtyNow.forecast
  <2>1. ~ ForecastDirty(state, state')
    BY <1>6 DEF DirtyNow, EverythingDirty, computeDirtyRegions
  <2>2. state.forecast # NoValue /\ RoundsLike(state.forecast, state'.forecast)
    BY <2>1, <1>6 DEF ForecastDirty, RoundsLike
  <2>3. PICK f \in Forecasts :
           /\ panel.forecast = drawForecastRegion([state EXCEPT !.forecast = f])
           /\ RoundsLike(f, state.forecast)
    BY <2>2 DEF ForecastDrawn
  <2>4. RoundsLike(f, state'.forecast)
    BY <2>2, <2>3 DEF RoundsLike, SameRenderedDay
  <2>5. drawForecastRegion([state EXCEPT !.forecast = f])
           = drawForecastRegion([state' EXCEPT !.forecast = f])
    BY <1>1 DEF ForecastDrawn, drawForecastRegion, State
  <2> QED
    BY <1>1, <1>2, <1>6, <2>3, <2>4, <2>5 DEF ForecastDrawn
<1> QED
  BY <1>4, <1>5, <1>6

(* The rounding of the dirty check and the truncation of the drawing never *)
(* put the glass more than a degree away from a fresh drawing.             *)
THEOREM DisplayForecastWithinADegree == Spec => []ForecastWithinADegree
<1>1. Init => ForecastDrawn
  BY EmptyStateType DEF Init, ForecastDrawn, BlankPanel, EmptyState
<1>2. ForecastDrawn /\ [Next]_displayVars => ForecastDrawn'
  <2> SUFFICES ASSUME ForecastDrawn, [Next]_displayVars PROVE ForecastDrawn'
    OBVIOUS
  <2>1. CASE Tick
    BY <2>1, TickForecastDrawn
  <2>2. CASE PowerCycle
    BY <2>2, EmptyStateType DEF PowerCycle, ForecastDrawn, BlankPanel, EmptyState
  <2>3. CASE UNCHANGED displayVars
    BY <2>3 DEF displayVars, ForecastDrawn
  <2> QED
    BY <2>1, <2>2, <2>3 DEF Next
<1>3. ForecastDrawn => ForecastWithinADegree
  BY DrawnNear
<1> QED
  BY <1>1, <1>2, <1>3, PTL DEF Spec

------------------------------------------------------------------------------
(* The countdown is right on the glass because it never repeats itself     *)
(* within the tick gap: it runs to one deadline, and the deadlines are     *)
(* further apart than two ticks (PhasesOutlastTicks).                      *)
LEMMA EdgeFacts ==
    /\ \A i \in 1..9 : Edges[i] \in EdgeNames
    /\ Edges[1] = "fajr" /\ Edges[9] = "isha"
    /\ \A i \in 1..9 : Deadline(Edges[i]) = Edges[IF i = 7 THEN 8 ELSE i]
<1>1. \A i \in 1..9 : Edges[i] \in EdgeNames
  BY DEF EdgeNames
<1>2. ASSUME NEW i \in 1..9 PROVE Deadline(Edges[i]) = Edges[IF i = 7 THEN 8 ELSE i]
  BY DEF Edges, Deadline
<1>3. Edges[1] = "fajr" /\ Edges[9] = "isha"
  BY DEF Edges
<1> QED
  BY <1>1, <1>2, <1>3

(* The edges of the day d, as absolute minutes.                            *)
EdgeOf(d, i) == d * DayMinutes + ScheduleOf[d][Edges[i]]

(* The deadline that the countdown at the minute t runs to.                *)
DeadlineAt(t) == t + SalahAt(t).minutesRemaining

LEMMA EdgeTypes ==
    ASSUME NEW d \in Days
    PROVE  /\ d \in Nat /\ DayMinutes \in Nat \ {0} /\ MaxTickGap \in Nat
           /\ d * DayMinutes \in Nat
           /\ \A i \in 1..9 : /\ ScheduleOf[d][Edges[i]] \in 0 .. DayMinutes - 1
                              /\ EdgeOf(d, i) \in Nat
                              /\ d * DayMinutes <= EdgeOf(d, i)
                              /\ EdgeOf(d, i) < d * DayMinutes + DayMinutes
<1>1. d \in Nat /\ DayMinutes \in Nat \ {0} /\ MaxTickGap \in Nat
  BY SalahAssumption, DisplayAssumption
<1>2. ScheduleOf[d] \in Schedule
  BY SalahAssumption
<1>3. \A i \in 1..9 : ScheduleOf[d][Edges[i]] \in 0 .. DayMinutes - 1
  BY <1>2, EdgeFacts DEF Schedule
<1>4. d * DayMinutes \in Nat
  BY <1>1
<1> QED
  BY <1>1, <1>3, <1>4 DEF EdgeOf

(* Two edges of a day are further apart than two ticks, and so are two     *)
(* edges of neighbouring days.                                             *)
LEMMA EdgesApart ==
    ASSUME PhasesOutlastTicks, NEW d \in Days, NEW i \in 1..9, NEW j \in 1..9, i < j
    PROVE  EdgeOf(d, i) + MaxTickGap < EdgeOf(d, j)
<1> DEFINE e == [k \in 1..9 |-> ScheduleOf[d][Edges[k]]]
<1>1. \A k \in 1..9 : e[k] \in Nat
  BY EdgeTypes
<1>2. \A k \in 1..8 : e[k] + MaxTickGap < e[k + 1]
  BY DEF PhasesOutlastTicks
<1>3. MaxTickGap \in Nat
  BY EdgeTypes
<1>4. EdgeOf(d, i) = d * DayMinutes + e[i] /\ EdgeOf(d, j) = d * DayMinutes + e[j]
  BY DEF EdgeOf
<1> HIDE DEF e
<1>5. e[i] + MaxTickGap < e[j]
  <2>1. /\ e[1] + MaxTickGap < e[2] /\ e[2] + MaxTickGap < e[3] /\ e[3] + MaxTickGap < e[4]
        /\ e[4] + MaxTickGap < e[5] /\ e[5] + MaxTickGap < e[6] /\ e[6] + MaxTickGap < e[7]
        /\ e[7] + MaxTickGap < e[8] /\ e[8] + MaxTickGap < e[9]
    BY <1>2
  <2>2. i \in {1, 2, 3, 4, 5, 6, 7, 8, 9} /\ j \in {1, 2, 3, 4, 5, 6, 7, 8, 9}
    OBVIOUS
  <2> QED
    BY <1>1, <1>3, <2>1, <2>2
<1> QED
  BY <1>1, <1>3, <1>4, <1>5, EdgeTypes

LEMMA NextDayApart ==
    ASSUME PhasesOutlastTicks, NEW d \in Days, d + 1 \in Days, NEW i \in 1..9, NEW j \in 1..9
    PROVE  EdgeOf(d, i) + MaxTickGap < EdgeOf(d + 1, j)
<1>1. EdgeOf(d, 9) + MaxTickGap < EdgeOf(d + 1, 1)
  <2>1. ScheduleOf[d][Edges[9]] + MaxTickGap < DayMinutes + ScheduleOf[d + 1][Edges[1]]
    BY EdgeFacts DEF PhasesOutlastTicks
  <2>2. (d + 1) * DayMinutes = d * DayMinutes + DayMinutes
    BY EdgeTypes
  <2> QED
    BY <2>1, <2>2, EdgeTypes DEF EdgeOf
<1>2. EdgeOf(d, i) <= EdgeOf(d, 9)
  BY EdgeTypes, EdgesApart
<1>3. EdgeOf(d + 1, 1) <= EdgeOf(d + 1, j)
  BY EdgeTypes, EdgesApart
<1> QED
  BY <1>1, <1>2, <1>3, EdgeTypes

LEMMA LeastOfNine ==
    ASSUME NEW S, \E i \in 1..9 : i \in S
    PROVE  \E i \in 1..9 : i \in S /\ \A j \in 1 .. i - 1 : j \notin S
<1>1. \/ 1 \in S \/ 2 \in S \/ 3 \in S \/ 4 \in S \/ 5 \in S
      \/ 6 \in S \/ 7 \in S \/ 8 \in S \/ 9 \in S
  BY \A i \in 1..9 : i \in {1, 2, 3, 4, 5, 6, 7, 8, 9}
<1> QED
  BY <1>1

(* computeState counts down to the first edge ahead, or past Asr to        *)
(* Maghrib, or after the last edge to the next day's Fajr.                 *)
LEMMA CountsDownTo ==
    ASSUME NEW today, NEW tomorrow, NEW n
    PROVE  \/ \E i \in 1..9 :
                 /\ n < today[Edges[i]] /\ \A j \in 1 .. i - 1 : ~ (n < today[Edges[j]])
                 /\ computeState(today, tomorrow, n).minutesRemaining
                       = today[Deadline(Edges[i])] - n
           \/ /\ \A i \in 1..9 : ~ (n < today[Edges[i]])
              /\ computeState(today, tomorrow, n).minutesRemaining
                       = DayMinutes - n + tomorrow["fajr"]
<1>1. CASE \E i \in 1..9 : n < today[Edges[i]]
  <2> DEFINE First(i) == n < today[Edges[i]] /\ \A j \in 1 .. i - 1 : ~ (n < today[Edges[j]])
  <2> DEFINE first == CHOOSE i \in 1..9 : First(i)
  <2>1. \E i \in 1..9 : First(i)
    <3> DEFINE S == {i \in 1..9 : n < today[Edges[i]]}
    <3>1. \E i \in 1..9 : i \in S
      BY <1>1
    <3>2. PICK i \in 1..9 : i \in S /\ \A j \in 1 .. i - 1 : j \notin S
      BY <3>1, LeastOfNine
    <3> QED
      BY <3>2
  <2>2. first \in 1..9 /\ First(first)
    BY <2>1
  <2>3. computeState(today, tomorrow, n).minutesRemaining = today[Deadline(Edges[first])] - n
    BY <1>1 DEF computeState
  <2> QED
    BY <2>2, <2>3
<1>2. CASE ~ \E i \in 1..9 : n < today[Edges[i]]
  BY <1>2 DEF computeState
<1> QED
  BY <1>1, <1>2

(* The same in absolute minutes.                                           *)
LEMMA DeadlineOf ==
    ASSUME NEW t \in Minutes, NEW d, d = t \div DayMinutes
    PROVE  /\ d \in Days /\ d + 1 \in Days /\ t \in Nat
           /\ d * DayMinutes <= t /\ t < d * DayMinutes + DayMinutes
           /\ SalahAt(t).minutesRemaining \in Int
           /\ \/ \E i \in 1..9 :
                    /\ t < EdgeOf(d, i)
                    /\ \A j \in 1 .. i - 1 : EdgeOf(d, j) <= t
                    /\ DeadlineAt(t) = EdgeOf(d, IF i = 7 THEN 8 ELSE i)
              \/ /\ \A i \in 1..9 : EdgeOf(d, i) <= t
                 /\ DeadlineAt(t) = EdgeOf(d + 1, 1)
<1> DEFINE n == t % DayMinutes
<1> DEFINE today == ScheduleOf[d]
<1> DEFINE tomorrow == ScheduleOf[d + 1]
<1>1. d \in Days /\ d + 1 \in Days /\ t \in Nat
  BY DisplayAssumption
<1>2. d \in Nat /\ DayMinutes \in Nat \ {0} /\ d * DayMinutes \in Nat
  BY <1>1, EdgeTypes
<1>3. n \in 0 .. DayMinutes - 1 /\ t = d * DayMinutes + n
  BY <1>1, <1>2
<1>4. SalahAt(t) = computeState(today, tomorrow, n)
  BY DEF SalahAt
<1>5. \A i \in 1..9 : today[Edges[i]] \in Nat /\ tomorrow[Edges[i]] \in Nat
  BY <1>1, EdgeTypes
<1>6. \A i \in 1..9 : EdgeOf(d, i) = d * DayMinutes + today[Edges[i]]
  BY DEF EdgeOf
<1>7. EdgeOf(d + 1, 1) = d * DayMinutes + DayMinutes + tomorrow["fajr"]
  <2>1. (d + 1) * DayMinutes = d * DayMinutes + DayMinutes
    BY <1>2
  <2> QED
    BY <2>1, EdgeFacts DEF EdgeOf
<1>8. tomorrow["fajr"] \in Nat
  BY <1>5, EdgeFacts
<1> HIDE DEF n, today, tomorrow
<1>9. ASSUME NEW i \in 1..9, n < today[Edges[i]],
             \A j \in 1 .. i - 1 : ~ (n < today[Edges[j]]),
             SalahAt(t).minutesRemaining = today[Deadline(Edges[i])] - n
      PROVE  /\ SalahAt(t).minutesRemaining \in Int
             /\ t < EdgeOf(d, i)
             /\ \A j \in 1 .. i - 1 : EdgeOf(d, j) <= t
             /\ DeadlineAt(t) = EdgeOf(d, IF i = 7 THEN 8 ELSE i)
  <2> DEFINE k == IF i = 7 THEN 8 ELSE i
  <2>2. k \in 1..9 /\ SalahAt(t).minutesRemaining = today[Edges[k]] - n
    BY <1>9, EdgeFacts
  <2>3. t < EdgeOf(d, i)
    BY <1>2, <1>3, <1>5, <1>6, <1>9
  <2>4. \A j \in 1 .. i - 1 : EdgeOf(d, j) <= t
    BY <1>2, <1>3, <1>5, <1>6, <1>9
  <2>5. DeadlineAt(t) = EdgeOf(d, k) /\ SalahAt(t).minutesRemaining \in Int
    BY <1>2, <1>3, <1>5, <1>6, <2>2 DEF DeadlineAt
  <2> QED
    BY <2>3, <2>4, <2>5
<1>10. CASE /\ \A i \in 1..9 : ~ (n < today[Edges[i]])
            /\ SalahAt(t).minutesRemaining = DayMinutes - n + tomorrow["fajr"]
  <2>1. \A i \in 1..9 : EdgeOf(d, i) <= t
    BY <1>2, <1>3, <1>5, <1>6, <1>10
  <2>2. DeadlineAt(t) = EdgeOf(d + 1, 1) /\ SalahAt(t).minutesRemaining \in Int
    BY <1>1, <1>2, <1>3, <1>7, <1>8, <1>10 DEF DeadlineAt
  <2> QED
    BY <1>1, <1>2, <1>3, <2>1, <2>2
<1>11. \/ \E i \in 1..9 :
            /\ n < today[Edges[i]] /\ \A j \in 1 .. i - 1 : ~ (n < today[Edges[j]])
            /\ SalahAt(t).minutesRemaining = today[Deadline(Edges[i])] - n
       \/ /\ \A i \in 1..9 : ~ (n < today[Edges[i]])
          /\ SalahAt(t).minutesRemaining = DayMinutes - n + tomorrow["fajr"]
  BY <1>4, CountsDownTo
<1>12. /\ t \in Nat /\ d * DayMinutes <= t /\ t < d * DayMinutes + DayMinutes
  BY <1>2, <1>3
<1> QED
  BY <1>1, <1>9, <1>10, <1>11, <1>12

(* Two ticks count down to one deadline, or to deadlines further apart     *)
(* than the ticks.                                                         *)
LEMMA DeadlinesApart ==
    ASSUME PhasesOutlastTicks, NEW t \in Minutes, NEW u \in Minutes, t <= u, u <= t + MaxTickGap
    PROVE  DeadlineAt(u) = DeadlineAt(t) \/ DeadlineAt(t) + MaxTickGap < DeadlineAt(u)
<1> DEFINE d == t \div DayMinutes
<1> DEFINE e == u \div DayMinutes
<1>1. /\ d \in Days /\ d + 1 \in Days /\ t \in Nat
      /\ d * DayMinutes <= t /\ t < d * DayMinutes + DayMinutes
      /\ \/ \E i \in 1..9 :
               /\ t < EdgeOf(d, i)
               /\ \A j \in 1 .. i - 1 : EdgeOf(d, j) <= t
               /\ DeadlineAt(t) = EdgeOf(d, IF i = 7 THEN 8 ELSE i)
         \/ /\ \A i \in 1..9 : EdgeOf(d, i) <= t
            /\ DeadlineAt(t) = EdgeOf(d + 1, 1)
  BY DeadlineOf
<1>2. /\ e \in Days /\ e + 1 \in Days /\ u \in Nat
      /\ e * DayMinutes <= u /\ u < e * DayMinutes + DayMinutes
      /\ \/ \E i \in 1..9 :
               /\ u < EdgeOf(e, i)
               /\ \A j \in 1 .. i - 1 : EdgeOf(e, j) <= u
               /\ DeadlineAt(u) = EdgeOf(e, IF i = 7 THEN 8 ELSE i)
         \/ /\ \A i \in 1..9 : EdgeOf(e, i) <= u
            /\ DeadlineAt(u) = EdgeOf(e + 1, 1)
  BY DeadlineOf
<1> HIDE DEF d, e
<1>3. d \in Nat /\ e \in Nat /\ DayMinutes \in Nat \ {0} /\ MaxTickGap \in Nat
  BY <1>1, <1>2, EdgeTypes
<1>4. MaxTickGap < DayMinutes
  <2>1. EdgeOf(d, 1) + MaxTickGap < EdgeOf(d, 2)
    BY <1>1, EdgesApart
  <2>2. /\ d * DayMinutes \in Nat /\ EdgeOf(d, 1) \in Nat /\ EdgeOf(d, 2) \in Nat
        /\ d * DayMinutes <= EdgeOf(d, 1) /\ EdgeOf(d, 2) < d * DayMinutes + DayMinutes
    BY <1>1, EdgeTypes
  <2> QED
    BY <1>3, <2>1, <2>2
<1>5. e = d \/ e = d + 1
  <2>1. d <= e
    <3> SUFFICES ASSUME e + 1 <= d PROVE FALSE
      BY <1>3
    <3>1. (e + 1) * DayMinutes <= d * DayMinutes
      BY <1>3
    <3>2. (e + 1) * DayMinutes = e * DayMinutes + DayMinutes
      BY <1>3
    <3>3. e * DayMinutes \in Nat /\ d * DayMinutes \in Nat
      BY <1>3
    <3> QED
      BY <1>1, <1>2, <1>3, <3>1, <3>2, <3>3
  <2>2. e <= d + 1
    <3> SUFFICES ASSUME d + 2 <= e PROVE FALSE
      BY <1>3
    <3>1. (d + 2) * DayMinutes <= e * DayMinutes
      BY <1>3
    <3>2. (d + 2) * DayMinutes = d * DayMinutes + DayMinutes + DayMinutes
      BY <1>3
    <3>3. e * DayMinutes \in Nat /\ d * DayMinutes \in Nat
      BY <1>3
    <3> QED
      BY <1>1, <1>2, <1>3, <1>4, <3>1, <3>2, <3>3
  <2> QED
    BY <1>3, <2>1, <2>2
<1>6. ASSUME NEW i \in 1..9, NEW j \in 1..9
      PROVE  EdgeOf(d, i) \in Nat /\ EdgeOf(e, j) \in Nat
  BY <1>1, <1>2, EdgeTypes
<1>7. CASE e = d
  <2>1. CASE \E i \in 1..9 :
                /\ t < EdgeOf(d, i)
                /\ \A j \in 1 .. i - 1 : EdgeOf(d, j) <= t
                /\ DeadlineAt(t) = EdgeOf(d, IF i = 7 THEN 8 ELSE i)
    <3>1. PICK i \in 1..9 : /\ \A j \in 1 .. i - 1 : EdgeOf(d, j) <= t
                            /\ DeadlineAt(t) = EdgeOf(d, IF i = 7 THEN 8 ELSE i)
      BY <2>1
    <3> DEFINE k == IF i = 7 THEN 8 ELSE i
    <3>2. k \in 1..9
      OBVIOUS
    <3>3. CASE \E j \in 1..9 : u < EdgeOf(e, j) /\ DeadlineAt(u) = EdgeOf(e, IF j = 7 THEN 8 ELSE j)
      <4>1. PICK j \in 1..9 : /\ u < EdgeOf(e, j)
                              /\ DeadlineAt(u) = EdgeOf(e, IF j = 7 THEN 8 ELSE j)
        BY <3>3
      <4> DEFINE l == IF j = 7 THEN 8 ELSE j
      <4>2. i <= j
        <5> SUFFICES ASSUME j < i PROVE FALSE
          OBVIOUS
        <5>1. EdgeOf(d, j) <= t
          BY <3>1
        <5> QED
          BY <1>1, <1>2, <1>6, <1>7, <4>1, <5>1
      <4>3. l \in 1..9 /\ k <= l
        BY <4>2
      <4>4. DeadlineAt(t) = EdgeOf(d, k) /\ DeadlineAt(u) = EdgeOf(d, l)
        BY <1>7, <3>1, <4>1
      <4> HIDE DEF k, l
      <4> QED
        BY <1>1, <3>2, <4>3, <4>4, EdgesApart
    <3>4. CASE DeadlineAt(u) = EdgeOf(e + 1, 1)
      BY <1>1, <1>7, <3>1, <3>2, <3>4, NextDayApart
    <3> QED
      BY <1>2, <3>3, <3>4
  <2>2. CASE /\ \A i \in 1..9 : EdgeOf(d, i) <= t
             /\ DeadlineAt(t) = EdgeOf(d + 1, 1)
    BY <1>1, <1>2, <1>6, <1>7, <2>2
  <2> QED
    BY <1>1, <2>1, <2>2
<1>8. CASE e = d + 1
  <2>1. PICK j \in 1..9 : DeadlineAt(u) = EdgeOf(e, j) \/ DeadlineAt(u) = EdgeOf(e + 1, 1)
    BY <1>2
  <2>2. CASE DeadlineAt(t) = EdgeOf(d + 1, 1)
    BY <1>2, <1>8, <2>1, <2>2, EdgesApart, NextDayApart
  <2>3. CASE \E i \in 1..9 : DeadlineAt(t) = EdgeOf(d, i)
    <3>1. PICK i \in 1..9 : DeadlineAt(t) = EdgeOf(d, i)
      BY <2>3
    <3>2. EdgeOf(d, i) + MaxTickGap < EdgeOf(e, 1)
      BY <1>1, <1>8, NextDayApart
    <3>3. EdgeOf(e, 1) <= DeadlineAt(u)
      <4>1. EdgeOf(e, 1) <= EdgeOf(e, j)
        BY <1>2, <1>3, <1>6, EdgesApart
      <4>2. EdgeOf(e, 1) <= EdgeOf(e + 1, 1)
        BY <1>2, <1>3, NextDayApart, EdgeTypes
      <4> QED
        BY <2>1, <4>1, <4>2
    <3>4. EdgeOf(e, 1) \in Nat /\ EdgeOf(d, i) \in Nat /\ DeadlineAt(u) \in Nat
      BY <1>1, <1>2, <2>1, EdgeTypes
    <3> QED
      BY <1>3, <3>1, <3>2, <3>3, <3>4
  <2> QED
    BY <1>1, <2>2, <2>3
<1> QED
  BY <1>5, <1>7, <1>8

(* So the countdown never shows the same number twice within the gap.      *)
LEMMA CountdownMoves ==
    ASSUME PhasesOutlastTicks, NEW t \in Minutes, NEW u \in Minutes, t <= u, u <= t + MaxTickGap,
           SalahAt(t).minutesRemaining = SalahAt(u).minutesRemaining
    PROVE  t = u
<1>1. t \in Nat /\ u \in Nat /\ SalahAt(t).minutesRemaining \in Int /\ MaxTickGap \in Nat
  BY DeadlineOf, EdgeTypes
<1>2. DeadlineAt(u) = DeadlineAt(t) \/ DeadlineAt(t) + MaxTickGap < DeadlineAt(u)
  BY DeadlinesApart
<1> QED
  BY <1>1, <1>2 DEF DeadlineAt

(* The countdown on the glass is drawn anew whenever its number or its     *)
(* colours change, although only the number is compared: within a tick gap *)
(* the colours change only with the number.                                *)
THEOREM DisplayMinutesFresh ==
    ASSUME PhasesOutlastTicks
    PROVE  Spec => []MinutesFresh
<1>1. Init => MinutesFresh
  BY DEF Init, MinutesFresh, BlankPanel, EmptyState, drawMinutesRegion
<1>2. MinutesFresh /\ [Next]_displayVars => MinutesFresh'
  <2> SUFFICES ASSUME MinutesFresh, [Next]_displayVars PROVE MinutesFresh'
    OBVIOUS
  <2>1. CASE Tick
    <3>1. panel'.minutes = IF DirtyNow.minutes THEN drawMinutesRegion(state')
                           ELSE panel.minutes
      BY <2>1 DEF Tick, renderUi
    <3>2. CASE DirtyNow.minutes
      BY <3>1, <3>2 DEF MinutesFresh
    <3>3. CASE ~ DirtyNow.minutes
      <4>1. ~ MinutesDirty(state, state')
        BY <3>3 DEF DirtyNow, EverythingDirty, computeDirtyRegions
      <4>2. state'.salah = state.salah
        <5>1. CASE state.salah = NoValue
          BY <4>1, <5>1 DEF MinutesDirty
        <5>2. CASE state.salah # NoValue
          <6>1. state'.salah \in SalahAfter(state.salah)
            BY <2>1 DEF Tick, StateAfter
          <6>2. PICK t \in Minutes, u \in Minutes :
                   /\ SalahAt(t) = state.salah /\ SalahAt(u) = state'.salah
                   /\ u \in t .. t + MaxTickGap
            BY <5>2, <6>1 DEF SalahAfter
          <6>3. state'.salah # NoValue
            BY <6>2, DisplayAssumption
          <6>4. SalahAt(t).minutesRemaining = SalahAt(u).minutesRemaining
            BY <4>1, <5>2, <6>2, <6>3 DEF MinutesDirty
          <6>5. t = u
            BY <6>2, <6>4, CountdownMoves
          <6> QED
            BY <6>2, <6>5
        <5> QED
          BY <5>1, <5>2
      <4> QED
        BY <3>1, <3>3, <4>2 DEF MinutesFresh, drawMinutesRegion
    <3> QED
      BY <3>2, <3>3
  <2>2. CASE PowerCycle
    BY <2>2 DEF PowerCycle, MinutesFresh, BlankPanel, EmptyState, drawMinutesRegion
  <2>3. CASE UNCHANGED displayVars
    BY <2>3 DEF displayVars, MinutesFresh
  <2> QED
    BY <2>1, <2>2, <2>3 DEF Next
<1> QED
  BY <1>1, <1>2, PTL DEF Spec
==============================================================================
