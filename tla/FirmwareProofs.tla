---------------------------- MODULE FirmwareProofs ----------------------------
(***************************************************************************)
(* Proofs about the main loop, for every value of its constants.  The      *)
(* timers, the buffers and the poll after an outage need no bound on the   *)
(* horizon, the calls or the epochs (Inv, CallsOK, BufferInv, LateInv).    *)
(* The spacing of polls, the salah schedule and the implementation of      *)
(* Display rest on CalendarAssumption and PipelineAssumption besides       *)
(* (SpacedInv, ScheduleInv, RefinementInv), and with it what Display       *)
(* proves of the glass (Glass).                                            *)
(***************************************************************************)
EXTENDS Firmware, TLAPS

USE DEF clockVars, timers, scheduleVars, screenVars, calls

LEMMA ConstantTypes ==
    /\ Minute \in Nat \ {0} /\ DayMinutes \in Nat \ {0} /\ MonthDays \in Nat \ {0}
    /\ SensorsMin \in Nat /\ SensorsMax \in Nat /\ SensorsMin <= SensorsMax
    /\ BackendDefault \in Nat /\ SensorsMin <= BackendDefault
    /\ SensorsDefault \in Nat /\ ForecastInterval \in Nat /\ ForecastRetry \in Nat
    /\ Epochs \subseteq Nat /\ CallTimes \subseteq Nat /\ RetryHints \subseteq Int
BY FirmwareAssumption, SalahAssumption

LEMMA LongestForecastWaitType ==
    /\ LongestForecastWait \in Nat
    /\ ForecastInterval <= LongestForecastWait /\ ForecastRetry <= LongestForecastWait
BY ConstantTypes DEF LongestForecastWait

(* The quotient and the remainder of a time.                               *)
LEMMA DivType ==
    ASSUME NEW t \in Nat, NEW m \in Nat \ {0}
    PROVE  /\ t \div m \in Nat /\ t % m \in Nat
           /\ (t \div m) * m <= t /\ t < (t \div m) * m + m
BY SMT

(* Arithmetic of quotients and remainders that the solver does not find by *)
(* itself, from the monotonicity of multiplication.                        *)
LEMMA Mono ==
    ASSUME NEW a \in Nat, NEW b \in Nat, a <= b, NEW m \in Nat PROVE a * m <= b * m
BY SMT

LEMMA DivAtMost ==
    ASSUME NEW t \in Nat, NEW m \in Nat \ {0}, NEW k \in Nat, t < k * m + m
    PROVE  t \div m <= k
<1> DEFINE q == t \div m
<1>1. q \in Nat /\ q * m <= t
  BY DivType
<1> HIDE DEF q
<1>2. SUFFICES ASSUME k + 1 <= q PROVE FALSE
  BY <1>1 DEF q
<1>3. (k + 1) * m <= q * m
  BY <1>1, <1>2, Mono
<1>4. (k + 1) * m = k * m + m
  BY SMT
<1>5. k * m \in Int /\ q * m \in Int
  BY <1>1
<1> QED
  BY <1>1, <1>3, <1>4, <1>5

LEMMA DivAtLeast ==
    ASSUME NEW t \in Nat, NEW m \in Nat \ {0}, NEW k \in Nat, k * m <= t
    PROVE  k <= t \div m
<1> DEFINE q == t \div m
<1>1. q \in Nat /\ t < q * m + m
  BY DivType
<1> HIDE DEF q
<1>2. SUFFICES ASSUME q + 1 <= k PROVE FALSE
  BY <1>1 DEF q
<1>3. (q + 1) * m <= k * m
  BY <1>1, <1>2, Mono
<1>4. (q + 1) * m = q * m + m
  BY <1>1, SMT
<1>5. k * m \in Int /\ q * m \in Int
  BY <1>1
<1> QED
  BY <1>1, <1>3, <1>4, <1>5

LEMMA DivExact ==
    ASSUME NEW k \in Nat, NEW m \in Nat \ {0} PROVE (k * m) \div m = k
<1>1. k * m \in Nat /\ k * m < k * m + m
  OBVIOUS
<1>2. k <= (k * m) \div m /\ (k * m) \div m <= k
  BY <1>1, DivAtMost, DivAtLeast
<1> QED
  BY <1>1, <1>2, DivType

(* Numbers less than m apart with the same remainder are equal.            *)
LEMMA SameRemainder ==
    ASSUME NEW a \in Nat, NEW b \in Nat, NEW m \in Nat \ {0},
           a <= b, b < a + m, a % m = b % m
    PROVE  a = b
<1>1. /\ a = (a \div m) * m + (a % m) /\ b = (b \div m) * m + (b % m)
      /\ a \div m \in Nat /\ b \div m \in Nat /\ a % m \in Nat
  BY SMT
<1> DEFINE p == a \div m
<1> DEFINE q == b \div m
<1> DEFINE r == a % m
<1>2. p \in Nat /\ q \in Nat /\ r \in Nat /\ a = p * m + r /\ b = q * m + r
  BY <1>1
<1> HIDE DEF p, q, r
<1>3. p * m \in Nat /\ q * m \in Nat
  BY <1>2
<1>4. p * m <= q * m /\ q * m < p * m + m
  BY <1>2, <1>3
<1>5. ~ (q + 1 <= p)
  <2>1. q + 1 <= p => (q + 1) * m <= p * m
    BY <1>2, Mono
  <2>2. (q + 1) * m = q * m + m
    BY <1>2
  <2> QED
  BY <1>3, <1>4, <2>1, <2>2
<1>6. ~ (p + 1 <= q)
  <2>1. p + 1 <= q => (p + 1) * m <= q * m
    BY <1>2, Mono
  <2>2. (p + 1) * m = p * m + m
    BY <1>2
  <2> QED
  BY <1>3, <1>4, <2>1, <2>2
<1>7. p = q
  BY <1>2, <1>5, <1>6
<1> QED
  BY <1>2, <1>7

(* The next minute boundary is ahead, and at most a minute away.           *)
LEMMA MinuteBoundary ==
    ASSUME NEW t \in Nat
    PROVE  /\ nextMinuteBoundary(t) \in Nat
           /\ t < nextMinuteBoundary(t)
           /\ nextMinuteBoundary(t) <= t + Minute
<1>1. /\ t \div Minute \in Nat
      /\ (t \div Minute) * Minute <= t /\ t < (t \div Minute) * Minute + Minute
  BY ConstantTypes, DivType
<1>2. (t \div Minute + 1) * Minute = (t \div Minute) * Minute + Minute
  BY <1>1, ConstantTypes
<1>3. (t \div Minute) * Minute \in Nat
  BY <1>1, ConstantTypes
<1> QED
  BY <1>1, <1>2, <1>3, ConstantTypes DEF nextMinuteBoundary

LEMMA DayTypes ==
    ASSUME NEW t \in Nat
    PROVE  (t \div Minute) \div DayMinutes \in Nat /\ MonthDay(t) \in Nat
<1>1. t \div Minute \in Nat
  BY ConstantTypes, DivType
<1>2. (t \div Minute) \div DayMinutes \in Nat
  BY <1>1, ConstantTypes, DivType
<1>3. ((t \div Minute) \div DayMinutes) % MonthDays \in Nat
  BY <1>2, ConstantTypes, DivType
<1> QED
  BY <1>2, <1>3 DEF MonthDay

LEMMA SumGrows ==
    ASSUME NEW a \in Nat, NEW b \in Nat, NEW c \in Nat, NEW d \in Nat, a <= c, b <= d
    PROVE  a + b <= c + d /\ c + d \in Nat
OBVIOUS

LEMMA ClampRange ==
    ASSUME NEW x \in Int
    PROVE  Clamp(x, SensorsMin, SensorsMax) \in SensorsMin .. SensorsMax
BY ConstantTypes DEF Clamp

------------------------------------------------------------------------------
(* The inductive invariant.  Before the clock is set it counts from zero,  *)
(* so setting it never moves it back; a tick's reading of the clock is     *)
(* therefore never ahead of the clock.                                     *)
ClockInv ==
    /\ sntp # "set" => epoch = 0
    /\ now <= time

Inv == ClocksOK /\ ClockInv /\ TimersWithinReach /\ SleepBounded

LEMMA ClockTypes ==
    ASSUME Inv
    PROVE  /\ uptime \in Nat /\ epoch \in Nat /\ now \in Nat
           /\ time \in Nat /\ time = uptime + epoch /\ now <= time
<1>1. uptime \in Nat /\ epoch \in Epochs \cup {0} /\ now \in Nat
  BY DEF Inv, ClocksOK
<1>2. epoch \in Nat
  BY <1>1, ConstantTypes
<1> QED
  BY <1>1, <1>2 DEF Inv, ClockInv, time

LEMMA InitInv == Init => Inv
<1> SUFFICES ASSUME Init PROVE Inv
  OBVIOUS
<1>1. ClocksOK
  BY DEF Init, ClocksOK
<1>2. ClockInv
  BY DEF Init, ClockInv, time
<1>3. TimersWithinReach
  BY ConstantTypes, LongestForecastWaitType DEF Init, TimersWithinReach, time
<1>4. SleepBounded
  BY DEF Init, SleepBounded
<1> QED
  BY <1>1, <1>2, <1>3, <1>4 DEF Inv

(* What every step but PowerCycle does to the clock.                       *)
ClockMovesOn ==
    /\ uptime' \in Nat /\ uptime <= uptime'
    /\ epoch' \in Epochs \cup {0} /\ epoch <= epoch'
    /\ sntp' \in {"off", "requested", "set"}
    /\ sntp' # "set" => epoch' = 0

(* initTime moves the clock forward only.                                  *)
LEMMA InitTimeForward ==
    ASSUME Inv, NEW ok \in BOOLEAN, InitTime(ok)
    PROVE  ClockMovesOn
<1>1. PICK d \in CallTimes : uptime' = uptime + d
  BY DEF InitTime
<1>2. uptime' \in Nat /\ uptime <= uptime'
  BY <1>1, ConstantTypes, ClockTypes
<1>3. sntp' \in {"off", "requested", "set"} /\ epoch' \in Epochs \cup {0}
  BY DEF InitTime, Inv, ClocksOK
<1>4. sntp' # "set" => epoch' = 0
  BY DEF InitTime, Inv, ClockInv
<1>5. epoch <= epoch'
  <2>1. sntp # "set" => epoch = 0
    BY DEF Inv, ClockInv
  <2>2. epoch' = epoch \/ (sntp # "set" /\ epoch' \in Epochs)
    BY DEF InitTime
  <2>3. CASE epoch' = epoch
    BY <2>3, ClockTypes
  <2>4. CASE sntp # "set" /\ epoch' \in Epochs
    <3>1. epoch = 0 /\ epoch' \in Nat
      BY <2>1, <2>4, ConstantTypes
    <3> QED
      BY <3>1
  <2> QED
    BY <2>2, <2>3, <2>4
<1> QED
  BY <1>2, <1>3, <1>4, <1>5 DEF ClockMovesOn

(* A request only lets time pass.                                          *)
LEMMA RequestForward ==
    ASSUME Inv, RequestTakes, sntp' = sntp, epoch' = epoch
    PROVE  ClockMovesOn
<1>1. PICK d \in CallTimes : uptime' = uptime + d
  BY DEF RequestTakes
<1>2. uptime' \in Nat /\ uptime <= uptime'
  BY <1>1, ConstantTypes, ClockTypes
<1> QED
  BY <1>2, ClockTypes DEF ClockMovesOn, Inv, ClocksOK, ClockInv

LEMMA ClockStands ==
    ASSUME Inv, UNCHANGED clockVars PROVE ClockMovesOn
BY ClockTypes DEF ClockMovesOn, Inv, ClocksOK, ClockInv

(* As the clock moves on, what was within reach stays within reach.        *)
LEMMA ClockForward ==
    ASSUME Inv, ClockMovesOn
    PROVE  /\ time' \in Nat /\ time' = uptime' + epoch' /\ time <= time'
           /\ now <= time'
           /\ nextSalahDue <= time' + Minute
           /\ nextSensorsDue <= time' + SensorsMax
           /\ nextForecastDue <= time' + LongestForecastWait
<1>1. /\ uptime' \in Nat /\ epoch' \in Nat /\ uptime <= uptime' /\ epoch <= epoch'
  BY ConstantTypes DEF ClockMovesOn
<1>2. time' = uptime' + epoch'
  BY DEF time
<1>3. time' \in Nat /\ time <= time'
  <2>1. uptime \in Nat /\ epoch \in Nat /\ time = uptime + epoch
    BY ClockTypes
  <2>2. uptime + epoch <= uptime' + epoch' /\ uptime' + epoch' \in Nat
    BY <1>1, <2>1, SumGrows
  <2> QED
    BY <1>2, <2>1, <2>2
<1>4. /\ nextSalahDue \in Nat /\ nextSensorsDue \in Nat /\ nextForecastDue \in Nat
  BY DEF Inv, ClocksOK
<1>5. /\ nextSalahDue <= time + Minute
      /\ nextSensorsDue <= time + SensorsMax
      /\ nextForecastDue <= time + LongestForecastWait
  BY DEF Inv, TimersWithinReach
<1> QED
  BY <1>2, <1>3, <1>4, <1>5, ClockTypes, ConstantTypes, LongestForecastWaitType

(* So a step preserves the invariant if it moves the clock on, keeps the   *)
(* types of what it changes and leaves each timer alone or within reach.   *)
LEMMA StepInv ==
    ASSUME Inv, ClockMovesOn,
           now' \in Nat, now' <= time', wakeAt' \in Nat,
           oldDay' \in Int, scheduleDay' \in Nat,
           nextSalahDue' \in Nat, nextSensorsDue' \in Nat, nextForecastDue' \in Nat,
           nextSalahDue' = nextSalahDue \/ nextSalahDue' <= time' + Minute,
           nextSensorsDue' = nextSensorsDue \/ nextSensorsDue' <= time' + SensorsMax,
           nextForecastDue' = nextForecastDue
              \/ nextForecastDue' <= time' + LongestForecastWait,
           SleepBounded'
    PROVE  Inv'
<1>1. ClocksOK'
  BY DEF ClocksOK, ClockMovesOn
<1>2. ClockInv'
  BY DEF ClockInv, ClockMovesOn
<1>3. TimersWithinReach'
  BY ClockForward DEF TimersWithinReach
<1> QED
  BY <1>1, <1>2, <1>3 DEF Inv

LEMMA InvTypes ==
    ASSUME Inv
    PROVE  /\ wakeAt \in Nat /\ oldDay \in Int /\ scheduleDay \in Nat
           /\ nextSalahDue \in Nat /\ nextSensorsDue \in Nat /\ nextForecastDue \in Nat
BY DEF Inv, ClocksOK

------------------------------------------------------------------------------
LEMMA SntpAnswersInv ==
    ASSUME Inv, SntpAnswers PROVE Inv'
<1>1. epoch = 0 /\ epoch' \in Epochs /\ uptime' = uptime /\ sntp' = "set"
  BY DEF SntpAnswers, Inv, ClockInv
<1>2. ClockMovesOn
  BY <1>1, ClockTypes, ConstantTypes DEF ClockMovesOn
<1>3. SleepBounded'
  BY <1>1 DEF SntpAnswers, Inv, SleepBounded
<1> QED
  BY <1>2, <1>3, StepInv, ClockForward, ClockTypes, InvTypes DEF SntpAnswers

LEMMA BootInv ==
    ASSUME Inv, Boot PROVE Inv'
<1>1. ClockMovesOn
  BY InitTimeForward DEF Boot
<1>2. SleepBounded'
  BY DEF Boot, SleepBounded
<1>3. UNCHANGED <<now, wakeAt, oldDay, scheduleDay, timers>>
  BY DEF Boot
<1> QED
  BY <1>1, <1>2, <1>3, StepInv, ClockForward, ClockTypes, InvTypes

LEMMA TickStartInv ==
    ASSUME Inv, TickStart PROVE Inv'
<1>1. ClockMovesOn
  BY ClockStands DEF TickStart
<1>2. SleepBounded'
  BY DEF TickStart, SleepBounded
<1>3. now' = time /\ time' = time
  BY DEF TickStart, time
<1>4. UNCHANGED <<wakeAt, oldDay, scheduleDay, timers>>
  BY DEF TickStart
<1> QED
  BY <1>1, <1>2, <1>3, <1>4, StepInv, ClockTypes, InvTypes

LEMMA SyncOutputsInv ==
    ASSUME Inv, SyncOutputs PROVE Inv'
<1>1. ClockMovesOn
  BY ClockStands DEF SyncOutputs
<1>2. earliestDue \in Nat /\ earliestDue <= nextSalahDue
  <2> DEFINE due == {nextSalahDue, nextSensorsDue, nextForecastDue}
  <2>1. \E t \in due : \A u \in due : t <= u
    BY InvTypes
  <2> QED
    BY <2>1, InvTypes DEF earliestDue
<1>3. nextSalahDue <= time + Minute
  BY DEF Inv, TimersWithinReach
<1>4. SleepTime \in 0 .. Minute
  BY <1>2, <1>3, ConstantTypes, ClockTypes, InvTypes DEF SleepTime
<1>5. wakeAt' = uptime + SleepTime /\ uptime' = uptime /\ now' = 0
  BY DEF SyncOutputs
<1>6. SleepBounded' /\ wakeAt' \in Nat
  BY <1>4, <1>5, ClockTypes, ConstantTypes DEF SleepBounded
<1>7. UNCHANGED <<oldDay, scheduleDay, timers>>
  BY DEF SyncOutputs
<1>8. now' \in Nat /\ now' <= time'
  BY <1>1, <1>5, ClockForward
<1> QED
  BY <1>1, <1>6, <1>7, <1>8, StepInv, InvTypes

LEMMA WakeInv ==
    ASSUME Inv, Wake PROVE Inv'
<1>1. uptime <= wakeAt
  BY ClockTypes, InvTypes, ConstantTypes DEF Wake, Inv, SleepBounded
<1>2. uptime' = wakeAt /\ sntp' = sntp /\ epoch' = epoch /\ wakeAt' = 0
  BY DEF Wake
<1>3. ClockMovesOn
  BY <1>1, <1>2, ClockTypes, InvTypes DEF ClockMovesOn, Inv, ClocksOK, ClockInv
<1>4. SleepBounded'
  BY DEF Wake, SleepBounded
<1>5. UNCHANGED <<now, oldDay, scheduleDay, timers>>
  BY DEF Wake
<1> QED
  BY <1>2, <1>3, <1>4, <1>5, StepInv, ClockForward, ClockTypes, InvTypes

LEMMA PowerCycleInv ==
    ASSUME Inv, PowerCycle PROVE Inv'
<1>1. ClocksOK'
  BY DEF PowerCycle, ClocksOK
<1>2. ClockInv'
  BY DEF PowerCycle, ClockInv, time
<1>3. TimersWithinReach'
  BY ConstantTypes, LongestForecastWaitType DEF PowerCycle, TimersWithinReach, time
<1>4. SleepBounded'
  BY DEF PowerCycle, SleepBounded
<1> QED
  BY <1>1, <1>2, <1>3, <1>4 DEF Inv

------------------------------------------------------------------------------
(* An update of the salah state at a time t sets its timer within a minute *)
(* of t.                                                                   *)
LEMMA UpdateSalahAtTypes ==
    ASSUME NEW t \in Nat, NEW old \in Int, Inv, UpdateSalahAt(t, old)
    PROVE  /\ scheduleDay' \in Nat /\ oldDay' \in Int
           /\ nextSalahDue' \in Nat /\ nextSalahDue' <= t + Minute
<1>1. /\ (t \div Minute) \div DayMinutes \in Nat /\ MonthDay(t) \in Nat
      /\ nextMinuteBoundary(t) \in Nat /\ nextMinuteBoundary(t) <= t + Minute
  BY DayTypes, MinuteBoundary
<1> QED
  BY <1>1, InvTypes DEF UpdateSalahAt, ScheduleDayFor

LEMMA UpdateSalahInv ==
    ASSUME Inv, UpdateSalah PROVE Inv'
<1>1. UNCHANGED <<now, wakeAt, nextSensorsDue, nextForecastDue>>
  BY DEF UpdateSalah
<1>2. SleepBounded'
  BY DEF UpdateSalah, SleepBounded
<1>3. CASE SalahNotDue
  <2>1. ClockMovesOn
    BY <1>3, ClockStands DEF SalahNotDue
  <2> QED
    BY <1>1, <1>2, <1>3, <2>1, StepInv, ClockForward, ClockTypes, InvTypes
    DEF SalahNotDue
<1>4. CASE SalahOnValidTime
  <2>1. ClockMovesOn
    BY <1>4, ClockStands DEF SalahOnValidTime
  <2>2. UpdateSalahAt(time, oldDay)
    BY <1>4 DEF SalahOnValidTime
  <2>3. /\ scheduleDay' \in Nat /\ oldDay' \in Int
        /\ nextSalahDue' \in Nat /\ nextSalahDue' <= time + Minute
    BY <2>2, UpdateSalahAtTypes, ClockTypes, InvTypes
  <2>4. nextSalahDue' <= time' + Minute
    BY <2>1, <2>3, ClockForward, ClockTypes, ConstantTypes
  <2> QED
    BY <1>1, <1>2, <2>1, <2>3, <2>4, StepInv, ClockForward, ClockTypes, InvTypes
<1>5. CASE SalahAfterTimeSync
  <2>1. ClockMovesOn
    BY <1>5, InitTimeForward DEF SalahAfterTimeSync
  <2>2. UpdateSalahAt(uptime' + epoch', -1)
    BY <1>5 DEF SalahAfterTimeSync
  <2>3. uptime' + epoch' \in Nat /\ time' = uptime' + epoch'
    BY <2>1, ClockForward
  <2>4. /\ scheduleDay' \in Nat /\ oldDay' \in Int
        /\ nextSalahDue' \in Nat /\ nextSalahDue' <= time' + Minute
    BY <2>2, <2>3, UpdateSalahAtTypes
  <2> QED
    BY <1>1, <1>2, <2>1, <2>4, StepInv, ClockForward, ClockTypes, InvTypes
<1>6. CASE SalahWithoutTime
  <2>1. ClockMovesOn
    BY <1>6, InitTimeForward DEF SalahWithoutTime
  <2>2. nextSalahDue' \in Nat /\ nextSalahDue' <= now + Minute
    BY <1>6, MinuteBoundary, ClockTypes DEF SalahWithoutTime
  <2>3. nextSalahDue' <= time' + Minute
    BY <2>1, <2>2, ClockForward, ClockTypes, ConstantTypes
  <2>4. UNCHANGED <<oldDay, scheduleDay>>
    BY <1>6 DEF SalahWithoutTime
  <2> QED
    BY <1>1, <1>2, <2>1, <2>2, <2>3, <2>4, StepInv, ClockForward, ClockTypes, InvTypes
<1> QED
  BY <1>3, <1>4, <1>5, <1>6 DEF UpdateSalah

(* The wait that the backend names is a number, also in an outage.         *)
LEMMA BackendWait ==
    ASSUME NEW monitor \in Monitor
    PROVE  meter_latest_v2(monitor).hint \in Int
<1>1. CASE monitor = NoValue
  BY <1>1, ConstantTypes DEF meter_latest_v2
<1>2. CASE monitor # NoValue
  <2>1. monitor \in [rows : [Sensors -> Readings \cup {EmptyReading}], hint : RetryHints]
    BY <1>2 DEF Monitor
  <2>2. monitor.hint \in Int
    BY <2>1, ConstantTypes
  <2>3. meter_latest_v2(monitor).hint = IF monitor.hint > 0 THEN monitor.hint ELSE BackendDefault
    BY <1>2, <2>1 DEF meter_latest_v2
  <2> QED
    BY <2>2, <2>3, ConstantTypes
<1> QED
  BY <1>1, <1>2

LEMMA UpdateSensorsInv ==
    ASSUME Inv, UpdateSensors PROVE Inv'
<1>1. UNCHANGED <<now, wakeAt, oldDay, scheduleDay, nextSalahDue, nextForecastDue>>
  BY DEF UpdateSensors
<1>2. SleepBounded'
  BY DEF UpdateSensors, SleepBounded
<1>3. CASE now >= nextSensorsDue
  <2>1. ClockMovesOn
    BY <1>3, RequestForward DEF UpdateSensors
  <2>2. sensorsCall'.wait \in Int
    <3>1. CASE \E monitor \in Monitor : SensorsAnswered(monitor)
      <4>1. PICK monitor \in Monitor : SensorsAnswered(monitor)
        BY <3>1
      <4> DEFINE hint == meter_latest_v2(monitor).hint
      <4>2. sensorsCall'.wait = IF hint > 0 THEN hint ELSE SensorsDefault
        BY <4>1 DEF SensorsAnswered
      <4> QED
        BY <4>1, <4>2, BackendWait, ConstantTypes
    <3>2. CASE SensorsFailed
      BY <3>2, ConstantTypes DEF SensorsFailed
    <3> QED
      BY <1>3, <3>1, <3>2 DEF UpdateSensors
  <2>3. Clamp(sensorsCall'.wait, SensorsMin, SensorsMax) \in SensorsMin .. SensorsMax
    BY <2>2, ClampRange
  <2>4. nextSensorsDue' = now + Clamp(sensorsCall'.wait, SensorsMin, SensorsMax)
    BY <1>3 DEF UpdateSensors, SensorsDueAfter
  <2>5. nextSensorsDue' \in Nat /\ nextSensorsDue' <= now + SensorsMax
    BY <2>3, <2>4, ConstantTypes, ClockTypes
  <2>6. nextSensorsDue' <= time' + SensorsMax
    BY <2>1, <2>5, ClockForward, ClockTypes, ConstantTypes
  <2> QED
    BY <1>1, <1>2, <2>1, <2>5, <2>6, StepInv, ClockForward, ClockTypes, InvTypes
<1>4. CASE ~ (now >= nextSensorsDue)
  <2>1. ClockMovesOn
    BY <1>4, ClockStands DEF UpdateSensors
  <2>2. nextSensorsDue' = nextSensorsDue
    BY <1>4 DEF UpdateSensors
  <2> QED
    BY <1>1, <1>2, <2>1, <2>2, StepInv, ClockForward, ClockTypes, InvTypes
<1> QED
  BY <1>3, <1>4

LEMMA UpdateForecastInv ==
    ASSUME Inv, UpdateForecast PROVE Inv'
<1>1. UNCHANGED <<now, wakeAt, oldDay, scheduleDay, nextSalahDue, nextSensorsDue>>
  BY DEF UpdateForecast
<1>2. SleepBounded'
  BY DEF UpdateForecast, SleepBounded
<1>3. CASE now >= nextForecastDue
  <2>1. ClockMovesOn
    BY <1>3, RequestForward DEF UpdateForecast
  <2>2. nextForecastDue' \in {now + ForecastInterval, now + ForecastRetry}
    BY <1>3 DEF UpdateForecast, ForecastAnswered, ForecastFailed
  <2>3. nextForecastDue' \in Nat /\ nextForecastDue' <= now + LongestForecastWait
    BY <2>2, ConstantTypes, LongestForecastWaitType, ClockTypes
  <2>4. nextForecastDue' <= time' + LongestForecastWait
    BY <2>1, <2>3, ClockForward, ClockTypes, LongestForecastWaitType
  <2> QED
    BY <1>1, <1>2, <2>1, <2>3, <2>4, StepInv, ClockForward, ClockTypes, InvTypes
<1>4. CASE ~ (now >= nextForecastDue)
  <2>1. ClockMovesOn
    BY <1>4, ClockStands DEF UpdateForecast
  <2>2. nextForecastDue' = nextForecastDue
    BY <1>4 DEF UpdateForecast
  <2> QED
    BY <1>1, <1>2, <2>1, <2>2, StepInv, ClockForward, ClockTypes, InvTypes
<1> QED
  BY <1>3, <1>4

------------------------------------------------------------------------------
LEMMA NextInv ==
    ASSUME Inv, [Next]_vars PROVE Inv'
<1>1. CASE UNCHANGED vars
  BY <1>1 DEF vars, Inv, ClocksOK, ClockInv, TimersWithinReach, SleepBounded, time
<1> QED
  BY <1>1, SntpAnswersInv, BootInv, TickStartInv, UpdateSalahInv, UpdateSensorsInv,
     UpdateForecastInv, SyncOutputsInv, WakeInv, PowerCycleInv DEF Next

LEMMA SpecInv == Spec => []Inv
<1>1. Inv /\ [Next]_vars => Inv'
  BY NextInv
<1> QED
  BY InitInv, <1>1, PTL DEF Spec

------------------------------------------------------------------------------
LEMMA ControlStep == ControlOK /\ [Next]_vars => ControlOK'
BY DEF ControlOK, Stages, vars, Next, SntpAnswers, Boot, TickStart, UpdateSalah,
       SalahNotDue, SalahOnValidTime, SalahAfterTimeSync, SalahWithoutTime,
       UpdateSensors, UpdateForecast, SyncOutputs, Wake, PowerCycle

LEMMA SensorsCallType ==
    ASSUME Inv, CallsOK, UpdateSensors PROVE sensorsCall' \in SensorCall \cup {NoValue}
<1>1. CASE \E monitor \in Monitor : SensorsAnswered(monitor)
  <2>1. PICK monitor \in Monitor : SensorsAnswered(monitor)
    BY <1>1
  <2> DEFINE hint == meter_latest_v2(monitor).hint
  <2>2. (IF hint > 0 THEN hint ELSE SensorsDefault) \in Int
    BY ConstantTypes, BackendWait
  <2> QED
    BY <2>1, <2>2, ClockTypes DEF SensorsAnswered, SensorCall
<1>2. CASE SensorsFailed
  BY <1>2, ClockTypes, ConstantTypes DEF SensorsFailed, SensorCall
<1>3. CASE sensorsCall' = sensorsCall
  BY <1>3 DEF CallsOK
<1> QED
  BY <1>1, <1>2, <1>3 DEF UpdateSensors

LEMMA ForecastCallType ==
    ASSUME Inv, CallsOK, UpdateForecast
    PROVE  forecastCall' \in ForecastCall \cup {NoValue}
<1>1. CASE \E data \in Forecasts : ForecastAnswered(data)
  BY <1>1, ClockTypes DEF ForecastAnswered, ForecastCall
<1>2. CASE ForecastFailed
  BY <1>2, ClockTypes DEF ForecastFailed, ForecastCall
<1>3. CASE forecastCall' = forecastCall
  BY <1>3 DEF CallsOK
<1> QED
  BY <1>1, <1>2, <1>3 DEF UpdateForecast

LEMMA CallsStep ==
    ASSUME Inv, CallsOK, [Next]_vars PROVE CallsOK'
<1>1. CASE UpdateSensors
  BY <1>1, SensorsCallType DEF CallsOK, UpdateSensors
<1>2. CASE UpdateForecast
  BY <1>2, ForecastCallType DEF CallsOK, UpdateForecast
<1>3. CASE PowerCycle
  BY <1>3 DEF CallsOK, PowerCycle
<1>4. CASE UNCHANGED calls
  BY <1>4 DEF CallsOK
<1> QED
  BY <1>1, <1>2, <1>3, <1>4
  DEF Next, vars, SntpAnswers, Boot, TickStart, UpdateSalah, SyncOutputs, Wake

(* The loop's variables keep their types: the clocks and timers by the     *)
(* invariant above, the program counter and the calls step by step.        *)
THEOREM FirmwareTypeOK == Spec => []TypeOK
<1>1. Init => ControlOK /\ CallsOK
  BY DEF Init, ControlOK, Stages, CallsOK
<1>2. Inv /\ CallsOK /\ [Next]_vars => CallsOK'
  BY CallsStep
<1>3. Inv /\ ControlOK /\ CallsOK => TypeOK
  BY DEF Inv, TypeOK
<1> QED
  BY <1>1, <1>2, <1>3, SpecInv, ControlStep, PTL DEF Spec

(* Whatever SNTP does to the clock and whatever the backend asks for, no   *)
(* timer is ever set further ahead than its own longest period, and the    *)
(* loop never sleeps for more than a minute, so computeSleepMs fits.       *)
THEOREM FirmwareNeverStuck == Spec => []NeverStuck
<1>1. Inv => NeverStuck
  BY DEF Inv, NeverStuck
<1> QED
  BY <1>1, SpecInv, PTL

------------------------------------------------------------------------------
(* The two state buffers.  Both are always complete records, and a field   *)
(* changes only in the update that owns it.                                *)
Complete(s) ==
    s = [salah |-> s.salah, rows |-> s.rows, forecast |-> s.forecast]

LEMMA SetField ==
    ASSUME NEW s, NEW v, Complete(s)
    PROVE  /\ Complete([s EXCEPT !.salah = v])
           /\ [s EXCEPT !.salah = v].rows = s.rows
           /\ [s EXCEPT !.salah = v].forecast = s.forecast
           /\ Complete([s EXCEPT !.rows = v])
           /\ [s EXCEPT !.rows = v].forecast = s.forecast
           /\ Complete([s EXCEPT !.forecast = v])
           /\ [s EXCEPT !.forecast = v].rows = s.rows
           /\ [s EXCEPT !.forecast = v].forecast = v
BY DEF Complete

(* What a tick has done to the rows so far: nothing before the sensors'    *)
(* update, and after it a change only if this tick's poll was answered.    *)
RowsOfTick ==
    \/ currentState.rows = previousState.rows
    \/ /\ pc \in {"forecast", "sync"}
       /\ sensorsCall.ok /\ sensorsCall.now = now

BufferInv ==
    /\ Complete(currentState) /\ Complete(previousState)
    /\ currentState.forecast = lastForecast
    /\ pc \in {"salah", "sensors", "forecast", "sync"} => RowsOfTick

LEMMA InitBuffer == Init => BufferInv
BY DEF Init, BufferInv, Complete, EmptyState

LEMMA TickStartBuffer ==
    ASSUME BufferInv, TickStart PROVE BufferInv'
BY DEF BufferInv, TickStart, prepareCurrentState, Complete, RowsOfTick

LEMMA UpdateSalahBuffer ==
    ASSUME BufferInv, UpdateSalah PROVE BufferInv'
<1>1. /\ pc = "salah" /\ pc' = "sensors" /\ lastForecast' = lastForecast
      /\ previousState' = previousState /\ currentState.rows = previousState.rows
  BY DEF UpdateSalah, BufferInv, RowsOfTick
<1>2. CASE currentState' = currentState
  BY <1>1, <1>2 DEF BufferInv, RowsOfTick
<1>3. CASE \E v : currentState' = [currentState EXCEPT !.salah = v]
  <2>1. PICK v : currentState' = [currentState EXCEPT !.salah = v]
    BY <1>3
  <2>2. Complete(currentState)
    BY DEF BufferInv
  <2>3. /\ Complete(currentState')
        /\ currentState'.rows = currentState.rows
        /\ currentState'.forecast = currentState.forecast
    BY <2>1, <2>2, SetField
  <2> QED
    BY <1>1, <2>3 DEF BufferInv, RowsOfTick
<1>4. \/ currentState' = currentState
      \/ \E v : currentState' = [currentState EXCEPT !.salah = v]
  BY DEF UpdateSalah, SalahNotDue, SalahOnValidTime, SalahAfterTimeSync,
         SalahWithoutTime, UpdateSalahAt
<1> QED
  BY <1>2, <1>3, <1>4

LEMMA UpdateSensorsBuffer ==
    ASSUME BufferInv, UpdateSensors PROVE BufferInv'
<1>1. /\ pc = "sensors" /\ pc' = "forecast" /\ lastForecast' = lastForecast
      /\ now' = now
      /\ previousState' = previousState /\ currentState.rows = previousState.rows
  BY DEF UpdateSensors, BufferInv, RowsOfTick
<1>2. CASE currentState' = currentState
  BY <1>1, <1>2 DEF BufferInv, RowsOfTick
<1>3. CASE \E monitor \in Monitor : SensorsAnswered(monitor)
  <2>1. PICK v : currentState' = [currentState EXCEPT !.rows = v]
    BY <1>3 DEF SensorsAnswered
  <2>2. sensorsCall'.ok /\ sensorsCall'.now = now
    BY <1>3 DEF SensorsAnswered
  <2> QED
    BY <1>1, <2>1, <2>2, SetField DEF BufferInv, RowsOfTick
<1> QED
  BY <1>2, <1>3 DEF UpdateSensors, SensorsFailed

LEMMA UpdateForecastBuffer ==
    ASSUME BufferInv, UpdateForecast PROVE BufferInv'
<1>1. /\ pc = "forecast" /\ pc' = "sync" /\ now' = now /\ sensorsCall' = sensorsCall
      /\ previousState' = previousState /\ RowsOfTick
  BY DEF UpdateForecast, BufferInv
<1>2. Complete(currentState) /\ Complete(previousState)
  BY DEF BufferInv
<1>3. CASE \E data \in Forecasts : ForecastAnswered(data)
  <2>1. PICK data \in Forecasts : ForecastAnswered(data)
    BY <1>3
  <2>2. currentState' = [currentState EXCEPT !.forecast = data] /\ lastForecast' = data
    BY <2>1 DEF ForecastAnswered
  <2>3. /\ Complete(currentState')
        /\ currentState'.rows = currentState.rows /\ currentState'.forecast = lastForecast'
    BY <1>2, <2>2, SetField
  <2>4. RowsOfTick'
    BY <1>1, <2>3 DEF RowsOfTick
  <2> QED
    BY <1>1, <1>2, <2>3, <2>4 DEF BufferInv
<1>4. CASE currentState' = WithLastForecast(currentState) /\ lastForecast' = lastForecast
  <2>1. currentState' = currentState
           \/ currentState' = [currentState EXCEPT !.forecast = lastForecast]
    BY <1>4 DEF WithLastForecast
  <2>2. currentState.forecast = lastForecast
    BY DEF BufferInv
  <2>3. /\ Complete(currentState')
        /\ currentState'.rows = currentState.rows
        /\ currentState'.forecast = lastForecast
    <3>1. CASE currentState' = currentState
      BY <1>2, <2>2, <3>1
    <3>2. CASE currentState' = [currentState EXCEPT !.forecast = lastForecast]
      BY <1>2, <3>2, SetField
    <3> QED
      BY <2>1, <3>1, <3>2
  <2>4. RowsOfTick'
    <3>1. CASE currentState.rows = previousState.rows
      BY <1>1, <2>3, <3>1 DEF RowsOfTick
    <3>2. CASE sensorsCall.ok /\ sensorsCall.now = now
      BY <1>1, <3>2 DEF RowsOfTick
    <3> QED
      BY <1>1, <3>1, <3>2 DEF RowsOfTick
  <2>5. Complete(previousState') /\ currentState'.forecast = lastForecast'
    BY <1>1, <1>2, <1>4, <2>3
  <2> QED
    BY <2>3, <2>4, <2>5 DEF BufferInv
<1> QED
  BY <1>3, <1>4 DEF UpdateForecast, ForecastFailed

LEMMA NextBuffer ==
    ASSUME BufferInv, [Next]_vars PROVE BufferInv'
<1>1. CASE PowerCycle
  BY <1>1 DEF PowerCycle, BufferInv, Complete, EmptyState
<1>2. CASE SntpAnswers
  BY <1>2 DEF SntpAnswers, BufferInv, RowsOfTick
<1>3. CASE Boot
  BY <1>3 DEF Boot, BufferInv
<1>4. CASE SyncOutputs
  BY <1>4 DEF SyncOutputs, BufferInv
<1>5. CASE Wake
  BY <1>5 DEF Wake, BufferInv
<1>6. CASE UNCHANGED vars
  BY <1>6 DEF vars, BufferInv, RowsOfTick
<1> QED
  BY <1>1, <1>2, <1>3, <1>4, <1>5, <1>6, TickStartBuffer, UpdateSalahBuffer,
     UpdateSensorsBuffer, UpdateForecastBuffer DEF Next

LEMMA SpecBuffer == Spec => []BufferInv
<1>1. BufferInv /\ [Next]_vars => BufferInv'
  BY NextBuffer
<1> QED
  BY InitBuffer, <1>1, PTL DEF Spec

(* The current state always holds the last forecast that arrived: neither  *)
(* a failed fetch nor the swapping of the buffers loses or revives one.    *)
THEOREM FirmwareForecastKept == Spec => []ForecastKept
<1>1. BufferInv => ForecastKept
  BY DEF BufferInv, ForecastKept
<1> QED
  BY <1>1, SpecBuffer, PTL

(* The rows shown change only in a tick whose own poll was answered: after *)
(* a failed one the previous readings stay.                                *)
THEOREM FirmwareRowsKeptOnFailure == Spec => RowsKeptOnFailure
<1>1. BufferInv /\ [Next]_vars =>
         [ (pc' = "asleep" /\ pc = "sync" /\ Shown.rows # Shown'.rows)
             => sensorsCall.ok /\ sensorsCall.now = now ]_vars
  <2> SUFFICES ASSUME BufferInv, [Next]_vars, pc' = "asleep", pc = "sync",
                      Shown.rows # Shown'.rows
               PROVE  sensorsCall.ok /\ sensorsCall.now = now
    OBVIOUS
  <2>1. currentState' = currentState
    BY DEF Next, vars, SntpAnswers, Boot, TickStart, UpdateSalah, UpdateSensors,
           UpdateForecast, SyncOutputs, Wake, PowerCycle
  <2>2. Shown = previousState /\ Shown' = currentState
    BY <2>1 DEF Shown
  <2> QED
    BY <2>2 DEF BufferInv, RowsOfTick
<1> QED
  BY <1>1, SpecBuffer, PTL DEF Spec, RowsKeptOnFailure

------------------------------------------------------------------------------
(* How late the poll after an outage can be.  Of the two ticks before it,  *)
(* one that began early enough not to poll makes at most two calls, and so *)
(* does the tick of the outage itself; the last one may wait for the time. *)
Until(t, slack) == t <= sensorsCall.at + BackendDefault + slack

Late ==
    /\ nextSensorsDue <= sensorsCall.at + epoch + BackendDefault
    /\ pc = "start" => Until(uptime, LongestCall + LongestCall)
    /\ pc = "salah" => /\ Until(uptime, LongestCall + LongestCall)
                       /\ now < nextSensorsDue => Until(uptime, 0)
    /\ pc = "sensors" => /\ Until(uptime, LongestCall + LongestCall + LongestCall)
                         /\ now < nextSensorsDue => Until(uptime, LongestCall)
    /\ pc = "forecast" => Until(uptime, LongestCall)
    /\ pc = "sync" => Until(uptime, LongestCall + LongestCall)
    /\ pc = "asleep" => Until(wakeAt, LongestCall + LongestCall)

LateInv ==
    /\ pc = "boot" => sensorsCall = NoValue
    /\ sensorsCall # NoValue /\ sensorsCall.outage => Late

LEMMA LongestCallType ==
    LongestCall \in Nat /\ \A d \in CallTimes : d <= LongestCall
<1>1. PICK d \in CallTimes : \A e \in CallTimes : e <= d
  BY FirmwareAssumption
<1>2. LongestCall \in CallTimes /\ \A e \in CallTimes : e <= LongestCall
  BY <1>1 DEF LongestCall
<1> QED
  BY <1>2, ConstantTypes

(* A step that leaves the latest poll alone.                               *)
LEMMA SameCall ==
    ASSUME Inv, CallsOK, LateInv, sensorsCall' = sensorsCall,
           pc' = "boot" => pc = "boot",
           sensorsCall # NoValue /\ sensorsCall.outage /\ sensorsCall.at \in Nat /\ Late
              => Late'
    PROVE  LateInv'
<1>1. sensorsCall # NoValue => sensorsCall.at \in Nat
  BY DEF CallsOK, SensorCall
<1> QED
  BY <1>1 DEF LateInv

LEMMA LateTick ==
    ASSUME Inv, CallsOK, LateInv, TickStart PROVE LateInv'
<1> SUFFICES ASSUME sensorsCall.at \in Nat, Late PROVE Late'
  BY SameCall DEF TickStart
<1>1. /\ pc = "start" /\ pc' = "salah" /\ now' = time
      /\ UNCHANGED <<uptime, epoch, nextSensorsDue, sensorsCall>>
  BY DEF TickStart
<1>2. Until(uptime, LongestCall + LongestCall)
  BY <1>1 DEF Late
<1>3. nextSensorsDue <= sensorsCall.at + epoch + BackendDefault
  BY DEF Late
<1>4. time < nextSensorsDue => Until(uptime, 0)
  BY <1>3, ClockTypes, InvTypes, ConstantTypes DEF Until
<1> QED
  BY <1>1, <1>2, <1>3, <1>4 DEF Late, Until

(* updateSalahIfDue may wait for the time, and set the clock.              *)
LEMMA LateSalah ==
    ASSUME Inv, CallsOK, LateInv, UpdateSalah PROVE LateInv'
<1> SUFFICES ASSUME sensorsCall.at \in Nat, Late PROVE Late'
  BY SameCall DEF UpdateSalah
<1>1. /\ pc = "salah" /\ pc' = "sensors"
      /\ UNCHANGED <<now, nextSensorsDue, sensorsCall>>
  BY DEF UpdateSalah
<1>2. /\ uptime' \in Nat /\ uptime' <= uptime + LongestCall
      /\ epoch' \in Nat /\ epoch <= epoch'
  <2>1. CASE UNCHANGED clockVars
    BY <2>1, ClockTypes, LongestCallType
  <2>2. CASE \E ok \in BOOLEAN : InitTime(ok)
    <3>1. ClockMovesOn
      BY <2>2, InitTimeForward
    <3>2. PICK d \in CallTimes : uptime' = uptime + d
      BY <2>2 DEF InitTime
    <3>3. d \in Nat /\ d <= LongestCall
      BY LongestCallType, ConstantTypes
    <3> QED
      BY <3>1, <3>2, <3>3, ClockTypes, ConstantTypes, LongestCallType DEF ClockMovesOn
  <2> QED
    BY <2>1, <2>2 DEF UpdateSalah, SalahNotDue, SalahOnValidTime, SalahAfterTimeSync,
                      SalahWithoutTime
<1>3. Until(uptime, LongestCall + LongestCall) /\ (now < nextSensorsDue => Until(uptime, 0))
  BY <1>1 DEF Late
<1>4. Until(uptime', LongestCall + LongestCall + LongestCall)
  BY <1>2, <1>3, ClockTypes, ConstantTypes, LongestCallType DEF Until
<1>5. now < nextSensorsDue => Until(uptime', LongestCall)
  BY <1>2, <1>3, ClockTypes, ConstantTypes, LongestCallType DEF Until
<1>6. nextSensorsDue <= sensorsCall.at + epoch' + BackendDefault
  BY <1>2, ClockTypes, InvTypes, ConstantTypes DEF Late
<1> QED
  BY <1>1, <1>4, <1>5, <1>6 DEF Late, Until

(* A poll, of which the wait counts from the reading of the clock that the *)
(* tick began with; or none, in a tick that began too early for it.        *)
LEMMA LateSensors ==
    ASSUME Inv, CallsOK, LateInv, UpdateSensors PROVE LateInv'
<1>1. pc = "sensors" /\ pc' = "forecast" /\ epoch' = epoch
  BY DEF UpdateSensors
<1>2. CASE now >= nextSensorsDue
  <2> SUFFICES ASSUME sensorsCall' # NoValue, sensorsCall'.outage PROVE Late'
    BY <1>1 DEF LateInv
  <2>1. PICK monitor \in Monitor : SensorsAnswered(monitor)
    BY <1>2 DEF UpdateSensors, SensorsFailed
  <2>2. monitor = NoValue
    BY <2>1 DEF SensorsAnswered
  <2>3. meter_latest_v2(monitor).hint = BackendDefault /\ BackendDefault > 0
    BY <2>2, FirmwareAssumption DEF meter_latest_v2
  <2>4. sensorsCall'.at = uptime /\ sensorsCall'.wait = BackendDefault
    BY <2>1, <2>3 DEF SensorsAnswered
  <2>5. nextSensorsDue' = now + Clamp(BackendDefault, SensorsMin, SensorsMax)
    BY <1>2, <2>4 DEF UpdateSensors, SensorsDueAfter
  <2>6. /\ Clamp(BackendDefault, SensorsMin, SensorsMax) <= BackendDefault
        /\ Clamp(BackendDefault, SensorsMin, SensorsMax) \in Nat
    BY ConstantTypes DEF Clamp
  <2>7. nextSensorsDue' <= uptime + epoch + BackendDefault
    <3> DEFINE wait == Clamp(BackendDefault, SensorsMin, SensorsMax)
    <3> HIDE DEF wait
    <3>1. wait \in Nat /\ wait <= BackendDefault /\ nextSensorsDue' = now + wait
      BY <2>5, <2>6 DEF wait
    <3> QED
      BY <3>1, ClockTypes, ConstantTypes
  <2>8. PICK d \in CallTimes : uptime' = uptime + d
    BY <1>2 DEF UpdateSensors, RequestTakes
  <2>9. uptime' <= uptime + BackendDefault + LongestCall
    <3>1. d \in Nat /\ d <= LongestCall
      BY LongestCallType, ConstantTypes
    <3> QED
      BY <2>8, <3>1, ClockTypes, ConstantTypes, LongestCallType
  <2> QED
    BY <1>1, <2>4, <2>7, <2>9 DEF Late, Until
<1>3. CASE ~ (now >= nextSensorsDue)
  <2>1. UNCHANGED <<uptime, sensorsCall, nextSensorsDue>>
    BY <1>3 DEF UpdateSensors
  <2>2. now < nextSensorsDue
    BY <1>3, ClockTypes, InvTypes
  <2> QED
    BY <1>1, <2>1, <2>2, SameCall DEF Late, Until
<1> QED
  BY <1>2, <1>3

LEMMA LateForecast ==
    ASSUME Inv, CallsOK, LateInv, UpdateForecast PROVE LateInv'
<1> SUFFICES ASSUME sensorsCall.at \in Nat, Late PROVE Late'
  BY SameCall DEF UpdateForecast
<1>1. /\ pc = "forecast" /\ pc' = "sync" /\ epoch' = epoch
      /\ UNCHANGED <<nextSensorsDue, sensorsCall>>
  BY DEF UpdateForecast
<1>2. Until(uptime, LongestCall)
  BY <1>1 DEF Late
<1>3. uptime' \in Nat /\ uptime' <= uptime + LongestCall
  <2>1. CASE uptime' = uptime
    BY <2>1, ClockTypes, LongestCallType
  <2>2. CASE RequestTakes
    <3>1. PICK d \in CallTimes : uptime' = uptime + d
      BY <2>2 DEF RequestTakes
    <3>2. d \in Nat /\ d <= LongestCall
      BY LongestCallType, ConstantTypes
    <3> QED
      BY <3>1, <3>2, ClockTypes, LongestCallType
  <2> QED
    BY <2>1, <2>2 DEF UpdateForecast
<1>4. Until(uptime', LongestCall + LongestCall)
  BY <1>2, <1>3, ClockTypes, ConstantTypes, LongestCallType DEF Until
<1> QED
  BY <1>1, <1>4 DEF Late, Until

(* The loop sleeps no longer than until the sensors are due.               *)
LEMMA LateSync ==
    ASSUME Inv, CallsOK, LateInv, SyncOutputs PROVE LateInv'
<1> SUFFICES ASSUME sensorsCall.at \in Nat, Late PROVE Late'
  BY SameCall DEF SyncOutputs
<1>1. /\ pc = "sync" /\ pc' = "asleep" /\ wakeAt' = uptime + SleepTime
      /\ UNCHANGED <<uptime, epoch, nextSensorsDue, sensorsCall>>
  BY DEF SyncOutputs
<1>2. Until(uptime, LongestCall + LongestCall)
  BY <1>1 DEF Late
<1>3. earliestDue \in Nat /\ earliestDue <= nextSensorsDue
  <2> DEFINE due == {nextSalahDue, nextSensorsDue, nextForecastDue}
  <2>1. \E t \in due : \A u \in due : t <= u
    BY InvTypes
  <2> QED
    BY <2>1, InvTypes DEF earliestDue
<1>4. nextSensorsDue <= sensorsCall.at + epoch + BackendDefault
  BY DEF Late
<1>5. Until(uptime + SleepTime, LongestCall + LongestCall)
  <2>1. CASE earliestDue > time
    <3>1. SleepTime = earliestDue - time
      BY <2>1 DEF SleepTime
    <3>2. uptime + SleepTime = earliestDue - epoch
      BY <1>3, <3>1, ClockTypes
    <3> QED
      BY <1>3, <1>4, <3>2, ClockTypes, InvTypes, ConstantTypes, LongestCallType DEF Until
  <2>2. CASE ~ (earliestDue > time)
    <3>1. uptime + SleepTime = uptime
      BY <2>2, ClockTypes DEF SleepTime
    <3> QED
      BY <1>2, <3>1
  <2> QED
    BY <2>1, <2>2
<1> QED
  BY <1>1, <1>4, <1>5 DEF Late, Until

LEMMA LateStep ==
    ASSUME Inv, CallsOK, LateInv, [Next]_vars PROVE LateInv'
<1>1. CASE SntpAnswers
  <2> SUFFICES ASSUME sensorsCall.at \in Nat, Late PROVE Late'
    BY <1>1, SameCall DEF SntpAnswers
  <2>1. UNCHANGED <<pc, uptime, now, wakeAt, nextSensorsDue, sensorsCall>>
    BY <1>1 DEF SntpAnswers
  <2>2. epoch = 0 /\ epoch' \in Nat
    BY <1>1, ConstantTypes DEF SntpAnswers, Inv, ClockInv
  <2>3. nextSensorsDue <= sensorsCall.at + epoch' + BackendDefault
    BY <2>2, InvTypes, ConstantTypes DEF Late
  <2> QED
    BY <2>1, <2>3 DEF Late, Until
<1>2. CASE Boot
  BY <1>2 DEF Boot, LateInv
<1>3. CASE Wake
  <2> SUFFICES ASSUME sensorsCall.at \in Nat, Late PROVE Late'
    BY <1>3, SameCall DEF Wake
  <2> QED
    BY <1>3 DEF Wake, Late, Until
<1>4. CASE PowerCycle
  BY <1>4 DEF PowerCycle, LateInv
<1>5. CASE UNCHANGED vars
  BY <1>5 DEF vars, LateInv, Late, Until
<1> QED
  BY <1>1, <1>2, <1>3, <1>4, <1>5, LateTick, LateSalah, LateSensors, LateForecast,
     LateSync DEF Next

(* After an outage of the plant monitor the device asks again within the   *)
(* backend's default wait and the time of three calls (update.cpp:175,     *)
(* plant_proxy.py:218).                                                    *)
THEOREM FirmwareOutageRepolled == Spec => OutageRepolled
<1>1. Init => CallsOK /\ LateInv
  BY DEF Init, CallsOK, LateInv
<1>2. Inv /\ CallsOK /\ [Next]_vars => CallsOK'
  BY CallsStep
<1>3. Inv /\ CallsOK /\ LateInv /\ [Next]_vars => LateInv'
  BY LateStep
<1>4. Inv /\ CallsOK /\ LateInv /\ [Next]_vars =>
         [ (/\ sensorsCall # NoValue /\ sensorsCall' # NoValue
            /\ sensorsCall' # sensorsCall /\ sensorsCall.outage)
            => sensorsCall'.at - sensorsCall.at <= BackendDefault + 3 * LongestCall ]_vars
  <2> SUFFICES ASSUME Inv, CallsOK, LateInv, [Next]_vars, sensorsCall # NoValue,
                      sensorsCall' # NoValue, sensorsCall' # sensorsCall,
                      sensorsCall.outage
               PROVE  sensorsCall'.at - sensorsCall.at <= BackendDefault + 3 * LongestCall
    OBVIOUS
  <2>1. UpdateSensors
    BY DEF Next, vars, SntpAnswers, Boot, TickStart, UpdateSalah, UpdateForecast,
           SyncOutputs, Wake, PowerCycle
  <2>2. sensorsCall'.at = uptime
    BY <2>1 DEF UpdateSensors, SensorsAnswered, SensorsFailed
  <2>3. Until(uptime, LongestCall + LongestCall + LongestCall)
    BY <2>1 DEF UpdateSensors, LateInv, Late
  <2>4. sensorsCall.at \in Nat
    BY DEF CallsOK, SensorCall
  <2> QED
    BY <2>2, <2>3, <2>4, ClockTypes, ConstantTypes, LongestCallType DEF Until
<1> QED
  BY <1>1, <1>2, <1>3, <1>4, SpecInv, PTL DEF Spec, OutageRepolled

------------------------------------------------------------------------------
(* How far apart two polls are.  While a tick's reading of the clock is of *)
(* the clock in use, it is behind by no more than the calls made since;    *)
(* a reading from before the clock was set is below every date.            *)
TickSlack ==
    now >= epoch => /\ pc = "salah" => time <= now
                    /\ pc = "sensors" => time <= now + LongestCall
                    /\ pc = "forecast" => time <= now + LongestCall + LongestCall

SensorsTimed ==
    sensorsCall # NoValue =>
        /\ epoch = 0 => sensorsCall.now <= Horizon
        /\ nextSensorsDue = SensorsDueAfter(sensorsCall.now, sensorsCall)
        /\ sensorsCall.now >= epoch => sensorsCall.at + epoch <= sensorsCall.now + LongestCall

ForecastTimed ==
    forecastCall # NoValue =>
        /\ epoch = 0 => forecastCall.now <= Horizon
        /\ nextForecastDue = forecastCall.now + ForecastWait(forecastCall)
        /\ forecastCall.now >= epoch =>
              forecastCall.at + epoch <= forecastCall.now + LongestCall + LongestCall

SpacedInv ==
    /\ epoch = 0 => now <= Horizon
    /\ TickSlack /\ SensorsTimed /\ ForecastTimed

LEMMA CalendarTypes ==
    /\ Horizon \in Nat /\ LongestCall \in Nat
    /\ \A e \in Epochs : e \in Nat /\ Horizon < e
BY CalendarAssumption, FirmwareAssumption, LongestCallType, ConstantTypes

(* The clock is set at most once, to a date.                               *)
ClockSetAtMost == epoch' = epoch \/ (epoch = 0 /\ epoch' \in Epochs)

LEMMA InitTimeSets ==
    ASSUME Inv, NEW ok \in BOOLEAN, InitTime(ok)
    PROVE  ClockSetAtMost /\ uptime' \in Nat /\ uptime' <= uptime + LongestCall
<1>1. sntp # "set" => epoch = 0
  BY DEF Inv, ClockInv
<1>2. ClockSetAtMost
  BY <1>1 DEF InitTime, ClockSetAtMost
<1>3. PICK d \in CallTimes : uptime' = uptime + d
  BY DEF InitTime
<1>4. d \in Nat /\ d <= LongestCall
  BY LongestCallType, ConstantTypes
<1> QED
  BY <1>2, <1>3, <1>4, ClockTypes, LongestCallType

LEMMA RequestTime ==
    ASSUME Inv, RequestTakes
    PROVE  uptime' \in Nat /\ uptime' <= uptime + LongestCall
<1>1. PICK d \in CallTimes : uptime' = uptime + d
  BY DEF RequestTakes
<1>2. d \in Nat /\ d <= LongestCall
  BY LongestCallType, ConstantTypes
<1> QED
  BY <1>1, <1>2, ClockTypes, LongestCallType

(* A poll stays timed while the clock is set at most.                      *)
LEMMA SensorsTimedKept ==
    ASSUME CallsOK, SensorsTimed, ClockSetAtMost, UNCHANGED <<sensorsCall, nextSensorsDue>>
    PROVE  SensorsTimed'
<1>1. CASE epoch' = epoch
  BY <1>1 DEF SensorsTimed, SensorsDueAfter
<1>2. CASE epoch = 0 /\ epoch' \in Epochs
  <2>1. sensorsCall # NoValue => sensorsCall.now \in Nat /\ sensorsCall.now <= Horizon
    BY <1>2 DEF CallsOK, SensorCall, SensorsTimed
  <2>2. epoch' \in Nat /\ Horizon < epoch' /\ Horizon \in Nat
    BY <1>2, CalendarTypes
  <2>3. sensorsCall # NoValue => ~ (sensorsCall.now >= epoch') /\ epoch' # 0
    BY <2>1, <2>2
  <2> QED
    BY <2>3 DEF SensorsTimed, SensorsDueAfter
<1> QED
  BY <1>1, <1>2 DEF ClockSetAtMost

LEMMA ForecastTimedKept ==
    ASSUME CallsOK, ForecastTimed, ClockSetAtMost, UNCHANGED <<forecastCall, nextForecastDue>>
    PROVE  ForecastTimed'
<1>1. CASE epoch' = epoch
  BY <1>1 DEF ForecastTimed, ForecastWait
<1>2. CASE epoch = 0 /\ epoch' \in Epochs
  <2>1. forecastCall # NoValue => forecastCall.now \in Nat /\ forecastCall.now <= Horizon
    BY <1>2 DEF CallsOK, ForecastCall, ForecastTimed
  <2>2. epoch' \in Nat /\ Horizon < epoch' /\ Horizon \in Nat
    BY <1>2, CalendarTypes
  <2>3. forecastCall # NoValue => ~ (forecastCall.now >= epoch') /\ epoch' # 0
    BY <2>1, <2>2
  <2> QED
    BY <2>3 DEF ForecastTimed, ForecastWait
<1> QED
  BY <1>1, <1>2 DEF ClockSetAtMost

(* Once the clock is set, a reading from before is below its date.         *)
LEMMA OldReading ==
    ASSUME Inv, epoch = 0 => now <= Horizon, ClockSetAtMost, now' = now, now' >= epoch'
    PROVE  epoch' = epoch
<1>1. CASE epoch = 0 /\ epoch' \in Epochs
  BY <1>1, CalendarTypes, ClockTypes
<1> QED
  BY <1>1 DEF ClockSetAtMost

LEMMA ReadingKept ==
    ASSUME Inv, epoch = 0 => now <= Horizon, ClockSetAtMost, now' = now
    PROVE  epoch' = 0 => now' <= Horizon
BY CalendarTypes DEF ClockSetAtMost

LEMMA SpacedTick ==
    ASSUME Inv, CallsOK, SpacedInv, TickStart PROVE SpacedInv'
<1>1. /\ pc' = "salah" /\ now' = time /\ uptime <= Horizon
      /\ UNCHANGED <<uptime, epoch, nextSensorsDue, nextForecastDue, sensorsCall, forecastCall>>
  BY DEF TickStart
<1>2. ClockSetAtMost
  BY <1>1 DEF ClockSetAtMost
<1>3. epoch' = 0 => now' <= Horizon
  BY <1>1, ClockTypes
<1>4. TickSlack'
  <2>1. time' = now' /\ now' \in Nat
    BY <1>1, ClockTypes DEF time
  <2> QED
    BY <1>1, <2>1 DEF TickSlack
<1> QED
  BY <1>1, <1>2, <1>3, <1>4, SensorsTimedKept, ForecastTimedKept DEF SpacedInv

LEMMA SpacedSalah ==
    ASSUME Inv, CallsOK, SpacedInv, UpdateSalah PROVE SpacedInv'
<1>1. /\ pc = "salah" /\ pc' = "sensors"
      /\ UNCHANGED <<now, nextSensorsDue, nextForecastDue, sensorsCall, forecastCall>>
  BY DEF UpdateSalah
<1>2. ClockSetAtMost /\ uptime' \in Nat /\ uptime' <= uptime + LongestCall
  <2>1. CASE UNCHANGED clockVars
    BY <2>1, ClockTypes, LongestCallType DEF ClockSetAtMost
  <2>2. CASE \E ok \in BOOLEAN : InitTime(ok)
    BY <2>2, InitTimeSets
  <2> QED
    BY <2>1, <2>2 DEF UpdateSalah, SalahNotDue, SalahOnValidTime, SalahAfterTimeSync,
                      SalahWithoutTime
<1>3. epoch = 0 => now <= Horizon
  BY DEF SpacedInv
<1>4. TickSlack'
  <2> SUFFICES ASSUME now' >= epoch' PROVE time' <= now' + LongestCall
    BY <1>1 DEF TickSlack
  <2>1. epoch' = epoch
    BY <1>1, <1>2, <1>3, OldReading
  <2>2. time <= now
    BY <1>1, <2>1 DEF SpacedInv, TickSlack
  <2>3. time' = uptime' + epoch
    BY <2>1 DEF time
  <2> QED
    BY <1>1, <1>2, <2>2, <2>3, ClockTypes, LongestCallType
<1> QED
  BY <1>1, <1>2, <1>3, <1>4, ReadingKept, SensorsTimedKept, ForecastTimedKept DEF SpacedInv

LEMMA SpacedSensors ==
    ASSUME Inv, CallsOK, SpacedInv, UpdateSensors PROVE SpacedInv'
<1>1. /\ pc = "sensors" /\ pc' = "forecast"
      /\ UNCHANGED <<epoch, now, nextForecastDue, forecastCall>>
  BY DEF UpdateSensors
<1>2. uptime' \in Nat /\ uptime' <= uptime + LongestCall
  BY RequestTime, ClockTypes, LongestCallType DEF UpdateSensors
<1>3. now >= epoch => time <= now + LongestCall
  BY <1>1 DEF SpacedInv, TickSlack
<1>4. TickSlack'
  <2>1. time' = uptime' + epoch
    BY <1>1 DEF time
  <2>2. now >= epoch => time' <= now + LongestCall + LongestCall
    BY <1>2, <1>3, <2>1, ClockTypes, LongestCallType
  <2> QED
    BY <1>1, <2>2 DEF TickSlack
<1>5. SensorsTimed'
  <2>1. CASE now >= nextSensorsDue
    <3>1. sensorsCall'.now = now /\ sensorsCall'.at = uptime
      BY <2>1 DEF UpdateSensors, SensorsAnswered, SensorsFailed
    <3>2. nextSensorsDue' = SensorsDueAfter(now, sensorsCall')
      BY <2>1 DEF UpdateSensors
    <3>3. now >= epoch => uptime + epoch <= now + LongestCall
      BY <1>3, ClockTypes
    <3>4. epoch = 0 => now <= Horizon
      BY DEF SpacedInv
    <3> QED
      BY <1>1, <3>1, <3>2, <3>3, <3>4 DEF SensorsTimed
  <2>2. CASE ~ (now >= nextSensorsDue)
    BY <1>1, <2>2, SensorsTimedKept DEF UpdateSensors, SpacedInv, ClockSetAtMost
  <2> QED
    BY <2>1, <2>2
<1>6. ForecastTimed'
  BY <1>1, ForecastTimedKept DEF SpacedInv, ClockSetAtMost
<1> QED
  BY <1>1, <1>4, <1>5, <1>6 DEF SpacedInv

LEMMA SpacedForecast ==
    ASSUME Inv, CallsOK, SpacedInv, UpdateForecast PROVE SpacedInv'
<1>1. /\ pc = "forecast" /\ pc' = "sync"
      /\ UNCHANGED <<epoch, now, nextSensorsDue, sensorsCall>>
  BY DEF UpdateForecast
<1>2. TickSlack'
  BY <1>1 DEF TickSlack
<1>3. ForecastTimed'
  <2>1. CASE now >= nextForecastDue
    <3>1. forecastCall'.now = now /\ forecastCall'.at = uptime
      BY <2>1 DEF UpdateForecast, ForecastAnswered, ForecastFailed
    <3>2. nextForecastDue' = now + ForecastWait(forecastCall')
      BY <2>1 DEF UpdateForecast, ForecastAnswered, ForecastFailed, ForecastWait
    <3>3. now >= epoch => uptime + epoch <= now + LongestCall + LongestCall
      BY <1>1, ClockTypes DEF SpacedInv, TickSlack
    <3>4. epoch = 0 => now <= Horizon
      BY DEF SpacedInv
    <3> QED
      BY <1>1, <3>1, <3>2, <3>3, <3>4 DEF ForecastTimed
  <2>2. CASE ~ (now >= nextForecastDue)
    BY <1>1, <2>2, ForecastTimedKept DEF UpdateForecast, SpacedInv, ClockSetAtMost
  <2> QED
    BY <2>1, <2>2
<1>4. SensorsTimed'
  BY <1>1, SensorsTimedKept DEF SpacedInv, ClockSetAtMost
<1> QED
  BY <1>1, <1>2, <1>3, <1>4 DEF SpacedInv

LEMMA SpacedStep ==
    ASSUME Inv, CallsOK, SpacedInv, [Next]_vars PROVE SpacedInv'
<1>1. CASE SntpAnswers
  <2>1. /\ ClockSetAtMost
        /\ UNCHANGED <<pc, uptime, now, nextSensorsDue, nextForecastDue,
                       sensorsCall, forecastCall>>
    BY <1>1 DEF SntpAnswers, ClockSetAtMost, Inv, ClockInv
  <2>2. epoch = 0 => now <= Horizon
    BY DEF SpacedInv
  <2>3. TickSlack'
    <3> SUFFICES ASSUME now' >= epoch' PROVE TickSlack'
      BY DEF TickSlack
    <3>1. epoch' = epoch
      BY <2>1, <2>2, OldReading
    <3> QED
      BY <2>1, <3>1 DEF SpacedInv, TickSlack, time
  <2> QED
    BY <2>1, <2>2, <2>3, ReadingKept, SensorsTimedKept, ForecastTimedKept DEF SpacedInv
<1>2. CASE Boot
  <2>1. /\ pc' = "start"
        /\ UNCHANGED <<now, nextSensorsDue, nextForecastDue, sensorsCall, forecastCall>>
    BY <1>2 DEF Boot
  <2>2. ClockSetAtMost
    BY <1>2, InitTimeSets DEF Boot
  <2> QED
    BY <2>1, <2>2, ReadingKept, SensorsTimedKept, ForecastTimedKept DEF SpacedInv, TickSlack
<1>3. CASE SyncOutputs
  BY <1>3, CalendarTypes, SensorsTimedKept, ForecastTimedKept
  DEF SyncOutputs, SpacedInv, TickSlack, ClockSetAtMost
<1>4. CASE Wake
  BY <1>4, SensorsTimedKept, ForecastTimedKept DEF Wake, SpacedInv, TickSlack, ClockSetAtMost
<1>5. CASE PowerCycle
  BY <1>5, CalendarTypes DEF PowerCycle, SpacedInv, TickSlack, SensorsTimed, ForecastTimed
<1>6. CASE UNCHANGED vars
  BY <1>6, SensorsTimedKept, ForecastTimedKept
  DEF vars, SpacedInv, TickSlack, ClockSetAtMost, time
<1> QED
  BY <1>1, <1>2, <1>3, <1>4, <1>5, <1>6, SpacedTick, SpacedSalah, SpacedSensors,
     SpacedForecast DEF Next

(* What the spacing of two polls comes to.                                 *)
LEMMA PollAfter ==
    ASSUME NEW at \in Nat, NEW tick \in Nat, NEW wait \in Int, NEW slack \in Nat, Inv,
           at + epoch <= tick + slack, now >= tick + wait
    PROVE  uptime - at >= wait - slack
BY ClockTypes

LEMMA SensorsSpacedStep ==
    ASSUME Inv, CallsOK, SpacedInv, [Next]_vars PROVE SensorPollSpaced
<1> SUFFICES ASSUME SameClock(sensorsCall), sensorsCall' # NoValue, sensorsCall' # sensorsCall
             PROVE  sensorsCall'.at - sensorsCall.at >=
                       Clamp(sensorsCall.wait, SensorsMin, SensorsMax) - LongestCall
  BY DEF SensorPollSpaced
<1> DEFINE wait == Clamp(sensorsCall.wait, SensorsMin, SensorsMax)
<1>1. UpdateSensors
  BY DEF Next, vars, SntpAnswers, Boot, TickStart, UpdateSalah, UpdateForecast,
         SyncOutputs, Wake, PowerCycle
<1>2. sensorsCall'.at = uptime /\ now >= nextSensorsDue
  BY <1>1 DEF UpdateSensors, SensorsAnswered, SensorsFailed
<1>3. /\ sensorsCall # NoValue /\ sensorsCall.now >= epoch
      /\ sensorsCall.at \in Nat /\ sensorsCall.now \in Nat /\ sensorsCall.wait \in Int
  BY DEF SameClock, CallsOK, SensorCall
<1>4. wait \in Int
  BY <1>3, ClampRange, ConstantTypes
<1>5. /\ nextSensorsDue = sensorsCall.now + wait
      /\ sensorsCall.at + epoch <= sensorsCall.now + LongestCall
  BY <1>3 DEF SpacedInv, SensorsTimed, SensorsDueAfter
<1> HIDE DEF wait
<1>6. uptime - sensorsCall.at >= wait - LongestCall
  BY <1>2, <1>3, <1>4, <1>5, PollAfter, LongestCallType
<1> QED
  BY <1>2, <1>6 DEF wait

LEMMA ForecastSpacedStep ==
    ASSUME Inv, CallsOK, SpacedInv, [Next]_vars PROVE ForecastPollSpaced
<1> SUFFICES ASSUME SameClock(forecastCall), forecastCall' # NoValue,
                    forecastCall' # forecastCall
             PROVE  forecastCall'.at - forecastCall.at >=
                       ForecastWait(forecastCall) - 2 * LongestCall
  BY DEF ForecastPollSpaced
<1>1. UpdateForecast
  BY DEF Next, vars, SntpAnswers, Boot, TickStart, UpdateSalah, UpdateSensors,
         SyncOutputs, Wake, PowerCycle
<1>2. forecastCall'.at = uptime /\ now >= nextForecastDue
  BY <1>1 DEF UpdateForecast, ForecastAnswered, ForecastFailed
<1>3. /\ forecastCall # NoValue /\ forecastCall.now >= epoch
      /\ forecastCall.at \in Nat /\ forecastCall.now \in Nat
  BY DEF SameClock, CallsOK, ForecastCall
<1>4. ForecastWait(forecastCall) \in Int
  BY ConstantTypes DEF ForecastWait
<1>5. /\ nextForecastDue = forecastCall.now + ForecastWait(forecastCall)
      /\ forecastCall.at + epoch <= forecastCall.now + (LongestCall + LongestCall)
  BY <1>3, ClockTypes, LongestCallType DEF SpacedInv, ForecastTimed
<1>6. uptime - forecastCall.at >= ForecastWait(forecastCall) - (LongestCall + LongestCall)
  BY <1>2, <1>3, <1>4, <1>5, PollAfter, LongestCallType
<1> QED
  BY <1>2, <1>6, LongestCallType

(* Two polls of a backend are as far apart as it asked for, less the calls *)
(* its first poll had to wait for, whatever it answered; only setting the  *)
(* clock in between may bring them closer.                                 *)
THEOREM FirmwarePollsSpaced == Spec => PollsSpaced
<1>1. Init => CallsOK /\ SpacedInv
  BY CalendarTypes DEF Init, CallsOK, SpacedInv, TickSlack, SensorsTimed, ForecastTimed
<1>2. Inv /\ CallsOK /\ [Next]_vars => CallsOK'
  BY CallsStep
<1>3. Inv /\ CallsOK /\ SpacedInv /\ [Next]_vars => SpacedInv'
  BY SpacedStep
<1>4. Inv /\ CallsOK /\ SpacedInv /\ [Next]_vars
         => [SensorPollSpaced /\ ForecastPollSpaced]_vars
  BY SensorsSpacedStep, ForecastSpacedStep
<1> QED
  BY <1>1, <1>2, <1>3, <1>4, SpecInv, PTL DEF Spec, PollsSpaced

------------------------------------------------------------------------------
(* The salah state and its timer: the minute the timer was set in.         *)
SalahMinute == nextSalahDue \div Minute - 1

ScheduleInUse ==
    /\ SalahMinute \in Minutes
    /\ nextSalahDue = (SalahMinute + 1) * Minute
    /\ scheduleDay = SalahMinute \div DayMinutes
    /\ oldDay = (scheduleDay % MonthDays) + 1
    /\ currentState.salah = SalahAt(SalahMinute)

(* How late the next update can be: never a month.                         *)
SalahInTime ==
    /\ pc = "sensors" => time <= nextSalahDue
    /\ pc = "forecast" => time <= nextSalahDue + LongestCall
    /\ pc \in {"sync", "start", "salah"} => time <= nextSalahDue + LongestCall + LongestCall
    /\ pc = "asleep" => wakeAt + epoch <= nextSalahDue + LongestCall + LongestCall

ScheduleInv ==
    /\ sntp = "set" => epoch \in Epochs
    /\ hasValidTime => sntp = "set"
    /\ pc = "boot" => ~ hasValidTime
    /\ pc = "salah" => uptime <= Horizon /\ (hasValidTime => now = time)
    /\ oldDay = -1 => currentState.salah = NoValue
    /\ oldDay # -1 => hasValidTime /\ ScheduleInUse /\ SalahInTime

LEMMA SameSalahAt == ASSUME NEW t PROVE SalahAt(t) = Pipeline!SalahAt(t)
BY DEF SalahAt, Pipeline!SalahAt, computeState, Pipeline!computeState, Edges,
       Pipeline!Edges, PhaseFrom, Pipeline!PhaseFrom, Deadline, Pipeline!Deadline

LEMMA MinuteFacts ==
    /\ Minutes \subseteq Nat /\ MaxTickGap \in Nat
    /\ \A t \in Minutes : SalahAt(t) # NoValue
    /\ \A e \in Epochs, t \in 0 .. Horizon + LongestCall : (t + e) \div Minute \in Minutes
<1>1. Minutes \subseteq Nat /\ \A t \in Minutes : Pipeline!SalahAt(t) # NoValue
  BY PipelineAssumption DEF Pipeline!DisplayAssumption
<1>2. ASSUME NEW e \in Epochs, NEW t \in 0 .. Horizon + LongestCall
      PROVE  (t + e) \div Minute \in Minutes
  <2>1. t + e = e + t
    BY CalendarTypes
  <2>2. (e + t) \div Minute \in Minutes
    BY PipelineAssumption
  <2> QED
    BY <2>1, <2>2
<1> QED
  BY <1>1, <1>2, SameSalahAt, CalendarAssumption

(* What setting one field leaves of the others.                            *)
LEMMA SalahField ==
    ASSUME NEW s, NEW v, Complete(s)
    PROVE  /\ [s EXCEPT !.salah = v].salah = v
           /\ [s EXCEPT !.rows = v].salah = s.salah
           /\ [s EXCEPT !.rows = v].rows = v
           /\ [s EXCEPT !.forecast = v].salah = s.salah
BY DEF Complete

(* The numbers behind an update at the time t that follows one in the      *)
(* minute m: the tick gap bounds the minutes, the length of a month the    *)
(* days in between.                                                        *)
LEMMA GapBounded ==
    ASSUME NEW m \in Nat, NEW t \in Nat, (m + 1) * Minute <= t,
           t <= (m + 1) * Minute + LongestCall + LongestCall
    PROVE  /\ m <= t \div Minute /\ t \div Minute <= m + MaxTickGap
           /\ m \div DayMinutes <= (t \div Minute) \div DayMinutes
           /\ (t \div Minute) \div DayMinutes < m \div DayMinutes + MonthDays
<1> DEFINE u == t \div Minute
<1> DEFINE d == m \div DayMinutes
<1>1. u \in Nat /\ d \in Nat /\ d * DayMinutes <= m /\ m < d * DayMinutes + DayMinutes
  BY ConstantTypes, DivType
<1>2. m + 1 <= u
  BY ConstantTypes, DivAtLeast
<1>3. u <= m + MaxTickGap
  <2>1. /\ (m + 1) * Minute = m * Minute + Minute
        /\ (m + MaxTickGap) * Minute = m * Minute + MaxTickGap * Minute
    BY ConstantTypes, CalendarAssumption
  <2>2. m * Minute \in Nat /\ MaxTickGap * Minute \in Nat
    BY ConstantTypes, CalendarAssumption
  <2>3. Minute + LongestCall + LongestCall <= MaxTickGap * Minute
    BY CalendarAssumption, CalendarTypes, ConstantTypes
  <2> DEFINE a == m * Minute
  <2> DEFINE b == MaxTickGap * Minute
  <2> DEFINE c == (m + MaxTickGap) * Minute
  <2> DEFINE e == (m + 1) * Minute
  <2>4. /\ e = a + Minute /\ c = a + b /\ a \in Nat /\ b \in Nat
        /\ Minute + LongestCall + LongestCall <= b /\ t <= e + LongestCall + LongestCall
    BY <2>1, <2>2, <2>3
  <2> HIDE DEF a, b, c, e
  <2>5. t < c + Minute
    BY <2>4, ConstantTypes, CalendarTypes
  <2>6. m + MaxTickGap \in Nat
    BY CalendarAssumption
  <2>7. t < (m + MaxTickGap) * Minute + Minute
    BY <2>5 DEF c
  <2> QED
    BY <2>6, <2>7, ConstantTypes, DivAtMost
<1> HIDE DEF u, d
<1>4. d <= u \div DayMinutes
  <2>1. d * DayMinutes <= u
    BY <1>1, <1>2, ConstantTypes
  <2> QED
    BY <1>1, <2>1, ConstantTypes, DivAtLeast
<1>5. u \div DayMinutes <= d + (MonthDays - 1)
  <2>1. (d + (MonthDays - 1)) * DayMinutes = d * DayMinutes + (MonthDays - 1) * DayMinutes
    BY <1>1, ConstantTypes
  <2>2. d * DayMinutes \in Nat /\ (MonthDays - 1) * DayMinutes \in Nat
    BY <1>1, ConstantTypes
  <2>3. MaxTickGap <= (MonthDays - 1) * DayMinutes /\ MaxTickGap \in Nat
    BY CalendarAssumption
  <2> DEFINE a == d * DayMinutes
  <2> DEFINE b == (MonthDays - 1) * DayMinutes
  <2> DEFINE c == (d + (MonthDays - 1)) * DayMinutes
  <2>4. c = a + b /\ a \in Nat /\ b \in Nat /\ MaxTickGap <= b /\ m < a + DayMinutes
    BY <1>1, <2>1, <2>2, <2>3
  <2> HIDE DEF a, b, c
  <2>5. u < c + DayMinutes
    BY <1>1, <1>3, <2>3, <2>4, ConstantTypes
  <2>6. d + (MonthDays - 1) \in Nat
    BY <1>1, ConstantTypes
  <2> QED
    BY <1>1, <2>5, <2>6, ConstantTypes, DivAtMost DEF c
<1>6. u \div DayMinutes \in Nat
  BY <1>1, ConstantTypes, DivType
<1> QED
  BY <1>1, <1>2, <1>3, <1>4, <1>5, <1>6, ConstantTypes DEF u, d

(* The timer set at the time t tells the minute of t.                      *)
LEMMA BoundaryMinute ==
    ASSUME NEW t \in Nat
    PROVE  /\ nextMinuteBoundary(t) \div Minute - 1 = t \div Minute
           /\ nextMinuteBoundary(t) = (t \div Minute + 1) * Minute
<1>1. t \div Minute \in Nat
  BY ConstantTypes, DivType
<1>2. ((t \div Minute + 1) * Minute) \div Minute = t \div Minute + 1
  BY <1>1, ConstantTypes, DivExact
<1> QED
  BY <1>1, <1>2 DEF nextMinuteBoundary

(* An update leaves the schedule of its own day in use: it recomputes it,  *)
(* or the day of the month, less than a month after, is the same.          *)
LEMMA SalahUpdate ==
    ASSUME NEW t \in Nat, NEW old \in Int, UpdateSalahAt(t, old), Complete(currentState),
           t \div Minute \in Minutes, scheduleDay \in Nat,
           \/ old = -1
           \/ /\ old = (scheduleDay % MonthDays) + 1
              /\ scheduleDay <= (t \div Minute) \div DayMinutes
              /\ (t \div Minute) \div DayMinutes < scheduleDay + MonthDays
    PROVE  /\ ScheduleInUse' /\ SalahMinute' = t \div Minute
           /\ oldDay' # -1 /\ t <= nextSalahDue'
<1> DEFINE u == t \div Minute
<1> DEFINE d == u \div DayMinutes
<1>1. u \in Nat /\ d \in Nat
  BY ConstantTypes, DivType
<1>2. d % MonthDays \in Nat
  BY <1>1, ConstantTypes, DivType
<1>3. MonthDay(t) = (d % MonthDays) + 1
  BY DEF MonthDay
<1>4. ScheduleDayFor(old, MonthDay(t), d) = d
  <2>1. CASE MonthDay(t) # old
    BY <2>1 DEF ScheduleDayFor
  <2>2. CASE MonthDay(t) = old
    <3>1. old # -1
      BY <1>2, <1>3, <2>2
    <3>2. /\ scheduleDay <= d /\ d < scheduleDay + MonthDays
          /\ old = (scheduleDay % MonthDays) + 1
      BY <3>1
    <3>3. scheduleDay % MonthDays \in Nat
      BY ConstantTypes, DivType
    <3>4. scheduleDay % MonthDays = d % MonthDays
      BY <1>2, <1>3, <2>2, <3>2, <3>3
    <3>5. scheduleDay = d
      BY <1>1, <3>2, <3>4, ConstantTypes, SameRemainder
    <3> QED
      BY <3>5 DEF ScheduleDayFor
  <2> QED
    BY <2>1, <2>2
<1>5. /\ scheduleDay' = d /\ oldDay' = MonthDay(t)
      /\ nextSalahDue' = nextMinuteBoundary(t)
      /\ currentState' = [currentState EXCEPT !.salah =
                            computeState(ScheduleOf[d], ScheduleOf[d + 1], u % DayMinutes)]
  BY <1>4 DEF UpdateSalahAt
<1>6. currentState'.salah = SalahAt(u)
  BY <1>5, SalahField DEF SalahAt
<1>7. SalahMinute' = u /\ nextSalahDue' = (u + 1) * Minute
  BY <1>5, BoundaryMinute DEF SalahMinute
<1>8. t <= nextSalahDue'
  BY <1>5, MinuteBoundary
<1> HIDE DEF u, d
<1>9. ScheduleInUse'
  <2>1. u \in Minutes /\ d = u \div DayMinutes
    BY DEF u, d
  <2> QED
    BY <1>3, <1>5, <1>6, <1>7, <2>1 DEF ScheduleInUse
<1>10. oldDay' # -1
  BY <1>2, <1>3, <1>5
<1> QED
  BY <1>7, <1>8, <1>9, <1>10 DEF u

(* What a step leaves of the schedules when it is no update of them.       *)
LEMMA SalahKept ==
    ASSUME ScheduleInv, UNCHANGED <<oldDay, scheduleDay, nextSalahDue, hasValidTime>>,
           currentState'.salah = currentState.salah,
           sntp' = "set" => epoch' \in Epochs,
           hasValidTime => sntp' = "set",
           pc' # "boot",
           pc' = "salah" => uptime' <= Horizon /\ (hasValidTime => now' = time'),
           oldDay # -1 => SalahInTime'
    PROVE  ScheduleInv'
<1>1. oldDay # -1 => ScheduleInUse'
  BY DEF ScheduleInv, ScheduleInUse, SalahMinute
<1> QED
  BY <1>1 DEF ScheduleInv

LEMMA ScheduleTick ==
    ASSUME Inv, BufferInv, ScheduleInv, TickStart PROVE ScheduleInv'
<1>1. /\ pc = "start" /\ pc' = "salah" /\ now' = time /\ uptime <= Horizon
      /\ UNCHANGED <<uptime, epoch, sntp, oldDay, scheduleDay, hasValidTime, nextSalahDue>>
  BY DEF TickStart
<1>2. currentState'.salah = currentState.salah
  BY DEF TickStart, prepareCurrentState
<1>3. time' = time
  BY <1>1 DEF time
<1>4. oldDay # -1 => SalahInTime'
  BY <1>1, <1>3 DEF SalahInTime, ScheduleInv
<1> QED
  BY <1>1, <1>2, <1>3, <1>4, SalahKept DEF ScheduleInv

LEMMA ScheduleSensors ==
    ASSUME Inv, BufferInv, ScheduleInv, UpdateSensors PROVE ScheduleInv'
<1>1. /\ pc = "sensors" /\ pc' = "forecast"
      /\ UNCHANGED <<epoch, sntp, oldDay, scheduleDay, hasValidTime, nextSalahDue>>
  BY DEF UpdateSensors
<1>2. currentState'.salah = currentState.salah
  <2>1. \/ currentState' = currentState
        \/ \E v : currentState' = [currentState EXCEPT !.rows = v]
    BY DEF UpdateSensors, SensorsAnswered, SensorsFailed
  <2>2. CASE \E v : currentState' = [currentState EXCEPT !.rows = v]
    <3>1. PICK v : currentState' = [currentState EXCEPT !.rows = v]
      BY <2>2
    <3> QED
      BY <3>1, SalahField DEF BufferInv
  <2> QED
    BY <2>1, <2>2
<1>3. uptime' \in Nat /\ uptime' <= uptime + LongestCall
  BY RequestTime, ClockTypes, LongestCallType DEF UpdateSensors
<1>4. time' = uptime' + epoch
  BY <1>1 DEF time
<1>5. oldDay # -1 => SalahInTime'
  <2> SUFFICES ASSUME oldDay # -1 PROVE time' <= nextSalahDue + LongestCall
    BY <1>1 DEF SalahInTime
  <2>1. time <= nextSalahDue
    BY <1>1 DEF SalahInTime, ScheduleInv
  <2> QED
    BY <1>3, <1>4, <2>1, ClockTypes, InvTypes, LongestCallType
<1> QED
  BY <1>1, <1>2, <1>5, SalahKept DEF ScheduleInv

LEMMA ScheduleForecast ==
    ASSUME Inv, BufferInv, ScheduleInv, UpdateForecast PROVE ScheduleInv'
<1>1. /\ pc = "forecast" /\ pc' = "sync"
      /\ UNCHANGED <<epoch, sntp, oldDay, scheduleDay, hasValidTime, nextSalahDue>>
  BY DEF UpdateForecast
<1>2. currentState'.salah = currentState.salah
  <2>1. \/ currentState' = currentState
        \/ \E v : currentState' = [currentState EXCEPT !.forecast = v]
    BY DEF UpdateForecast, ForecastAnswered, ForecastFailed, WithLastForecast
  <2>2. CASE \E v : currentState' = [currentState EXCEPT !.forecast = v]
    <3>1. PICK v : currentState' = [currentState EXCEPT !.forecast = v]
      BY <2>2
    <3> QED
      BY <3>1, SalahField DEF BufferInv
  <2> QED
    BY <2>1, <2>2
<1>3. uptime' \in Nat /\ uptime' <= uptime + LongestCall
  BY RequestTime, ClockTypes, LongestCallType DEF UpdateForecast
<1>4. time' = uptime' + epoch
  BY <1>1 DEF time
<1>5. oldDay # -1 => SalahInTime'
  <2> SUFFICES ASSUME oldDay # -1
               PROVE  time' <= nextSalahDue + LongestCall + LongestCall
    BY <1>1 DEF SalahInTime
  <2>1. time <= nextSalahDue + LongestCall
    BY <1>1 DEF SalahInTime, ScheduleInv
  <2> QED
    BY <1>3, <1>4, <2>1, ClockTypes, InvTypes, LongestCallType
<1> QED
  BY <1>1, <1>2, <1>5, SalahKept DEF ScheduleInv

(* The loop sleeps no longer than until the next minute.                   *)
LEMMA ScheduleSync ==
    ASSUME Inv, BufferInv, ScheduleInv, SyncOutputs PROVE ScheduleInv'
<1>1. /\ pc = "sync" /\ pc' = "asleep" /\ wakeAt' = uptime + SleepTime
      /\ UNCHANGED <<uptime, epoch, sntp, oldDay, scheduleDay, hasValidTime, nextSalahDue,
                     currentState>>
  BY DEF SyncOutputs
<1>2. earliestDue \in Nat /\ earliestDue <= nextSalahDue
  <2> DEFINE due == {nextSalahDue, nextSensorsDue, nextForecastDue}
  <2>1. \E t \in due : \A u \in due : t <= u
    BY InvTypes
  <2> QED
    BY <2>1, InvTypes DEF earliestDue
<1>3. oldDay # -1 => SalahInTime'
  <2> SUFFICES ASSUME oldDay # -1
               PROVE  uptime + SleepTime + epoch <= nextSalahDue + LongestCall + LongestCall
    BY <1>1 DEF SalahInTime
  <2>1. time <= nextSalahDue + LongestCall + LongestCall
    BY <1>1 DEF SalahInTime, ScheduleInv
  <2> QED
    BY <1>2, <2>1, ClockTypes, InvTypes, LongestCallType DEF SleepTime
<1> QED
  BY <1>1, <1>3, SalahKept DEF ScheduleInv

LEMMA ScheduleWake ==
    ASSUME Inv, BufferInv, ScheduleInv, Wake PROVE ScheduleInv'
<1>1. /\ pc = "asleep" /\ pc' = "start" /\ uptime' = wakeAt
      /\ UNCHANGED <<epoch, sntp, oldDay, scheduleDay, hasValidTime, nextSalahDue,
                     currentState>>
  BY DEF Wake
<1>2. oldDay # -1 => SalahInTime'
  BY <1>1 DEF SalahInTime, ScheduleInv, time
<1> QED
  BY <1>1, <1>2, SalahKept DEF ScheduleInv

(* SNTP answers only when it was asked and has not been heard of.          *)
LEMMA ScheduleSntp ==
    ASSUME Inv, BufferInv, ScheduleInv, SntpAnswers PROVE ScheduleInv'
<1>1. /\ sntp = "requested" /\ sntp' = "set" /\ epoch' \in Epochs
      /\ UNCHANGED <<pc, uptime, oldDay, scheduleDay, hasValidTime, nextSalahDue, currentState>>
  BY DEF SntpAnswers
<1>2. ~ hasValidTime /\ oldDay = -1
  BY <1>1 DEF ScheduleInv
<1> QED
  BY <1>1, <1>2 DEF ScheduleInv

LEMMA InitTimeSync ==
    ASSUME ScheduleInv, NEW ok \in BOOLEAN, InitTime(ok)
    PROVE  /\ sntp' = "set" => epoch' \in Epochs
           /\ ok => sntp' = "set" /\ epoch' \in Epochs
BY DEF InitTime, ScheduleInv

LEMMA ScheduleBoot ==
    ASSUME Inv, BufferInv, ScheduleInv, Boot PROVE ScheduleInv'
<1>1. PICK ok \in BOOLEAN : InitTime(ok) /\ hasValidTime' = ok
  BY DEF Boot
<1>2. pc = "boot" /\ pc' = "start" /\ UNCHANGED <<oldDay, currentState>>
  BY DEF Boot
<1>3. oldDay = -1
  BY <1>2 DEF ScheduleInv
<1> QED
  BY <1>1, <1>2, <1>3, InitTimeSync DEF ScheduleInv

------------------------------------------------------------------------------
(* updateSalahIfDue with a valid time, at most two calls after the timer:  *)
(* the minute moves on by no more than the tick gap.                       *)
LEMMA ValidTimeUpdate ==
    ASSUME Inv, BufferInv, ScheduleInv, pc = "salah", SalahOnValidTime
    PROVE  /\ ScheduleInUse' /\ oldDay' # -1 /\ time' <= nextSalahDue'
           /\ oldDay # -1 => /\ SalahMinute <= SalahMinute'
                             /\ SalahMinute' <= SalahMinute + MaxTickGap
<1>1. uptime <= Horizon /\ (hasValidTime => now = time)
  BY DEF ScheduleInv
<1>2. /\ now >= nextSalahDue /\ hasValidTime /\ UpdateSalahAt(time, oldDay)
      /\ UNCHANGED <<uptime, epoch, sntp, hasValidTime>>
  BY DEF SalahOnValidTime
<1>3. /\ time \in Nat /\ time = uptime + epoch /\ time' = time /\ nextSalahDue <= time
      /\ epoch \in Epochs
  BY <1>1, <1>2, ClockTypes, InvTypes DEF ScheduleInv, time
<1>4. time \div Minute \in Minutes
  <2>1. uptime \in 0 .. Horizon + LongestCall
    BY <1>1, ClockTypes, CalendarTypes
  <2> QED
    BY <1>3, <2>1, MinuteFacts
<1>5. oldDay # -1 =>
         /\ SalahMinute <= time \div Minute /\ time \div Minute <= SalahMinute + MaxTickGap
         /\ oldDay = (scheduleDay % MonthDays) + 1
         /\ scheduleDay <= (time \div Minute) \div DayMinutes
         /\ (time \div Minute) \div DayMinutes < scheduleDay + MonthDays
  <2> SUFFICES ASSUME oldDay # -1
               PROVE  /\ SalahMinute <= time \div Minute
                      /\ time \div Minute <= SalahMinute + MaxTickGap
                      /\ oldDay = (scheduleDay % MonthDays) + 1
                      /\ scheduleDay <= (time \div Minute) \div DayMinutes
                      /\ (time \div Minute) \div DayMinutes < scheduleDay + MonthDays
    OBVIOUS
  <2>1. ScheduleInUse /\ time <= nextSalahDue + LongestCall + LongestCall
    BY DEF ScheduleInv, SalahInTime
  <2>2. SalahMinute \in Nat /\ nextSalahDue = (SalahMinute + 1) * Minute
    BY <2>1, MinuteFacts DEF ScheduleInUse
  <2>3. /\ SalahMinute <= time \div Minute /\ time \div Minute <= SalahMinute + MaxTickGap
        /\ SalahMinute \div DayMinutes <= (time \div Minute) \div DayMinutes
        /\ (time \div Minute) \div DayMinutes < SalahMinute \div DayMinutes + MonthDays
    BY <1>3, <2>1, <2>2, GapBounded
  <2> QED
    BY <2>1, <2>3 DEF ScheduleInUse
<1>6. Complete(currentState) /\ scheduleDay \in Nat /\ oldDay \in Int
  BY InvTypes DEF BufferInv
<1>7. /\ ScheduleInUse' /\ SalahMinute' = time \div Minute
      /\ oldDay' # -1 /\ time <= nextSalahDue'
  BY <1>2, <1>3, <1>4, <1>5, <1>6, SalahUpdate
<1> QED
  BY <1>3, <1>5, <1>7

(* The first update, with the time that initTime came back with.           *)
LEMMA TimeSyncUpdate ==
    ASSUME Inv, BufferInv, ScheduleInv, pc = "salah", SalahAfterTimeSync
    PROVE  /\ ScheduleInUse' /\ oldDay' # -1 /\ time' <= nextSalahDue'
           /\ sntp' = "set" /\ epoch' \in Epochs /\ oldDay = -1
<1>1. /\ ~ hasValidTime /\ InitTime(TRUE)
      /\ UpdateSalahAt(uptime' + epoch', -1)
  BY DEF SalahAfterTimeSync
<1>2. sntp' = "set" /\ epoch' \in Epochs
  BY <1>1, InitTimeSync
<1>3. uptime' \in Nat /\ uptime' <= uptime + LongestCall
  BY <1>1, InitTimeSets
<1>4. uptime' \in 0 .. Horizon + LongestCall
  BY <1>3, ClockTypes, CalendarTypes DEF ScheduleInv
<1>5. (uptime' + epoch') \div Minute \in Minutes /\ uptime' + epoch' \in Nat
  BY <1>2, <1>3, <1>4, MinuteFacts, CalendarTypes
<1>6. Complete(currentState) /\ scheduleDay \in Nat /\ oldDay = -1
  BY <1>1, InvTypes DEF BufferInv, ScheduleInv
<1>7. ScheduleInUse' /\ oldDay' # -1 /\ uptime' + epoch' <= nextSalahDue'
  BY <1>1, <1>5, <1>6, SalahUpdate
<1> QED
  BY <1>2, <1>6, <1>7 DEF time

LEMMA ScheduleSalah ==
    ASSUME Inv, BufferInv, ScheduleInv, UpdateSalah PROVE ScheduleInv'
<1>1. pc = "salah" /\ pc' = "sensors" /\ now' = now
  BY DEF UpdateSalah
<1>2. hasValidTime => now = time
  BY <1>1 DEF ScheduleInv
<1>3. CASE SalahNotDue
  <2>1. /\ now < nextSalahDue
        /\ UNCHANGED <<uptime, epoch, sntp, oldDay, scheduleDay, hasValidTime, nextSalahDue,
                       currentState>>
    BY <1>3 DEF SalahNotDue
  <2>2. oldDay # -1 => SalahInTime'
    BY <1>1, <1>2, <2>1, ClockTypes, InvTypes DEF SalahInTime, ScheduleInv, time
  <2> QED
    BY <1>1, <2>1, <2>2, SalahKept DEF ScheduleInv
<1>4. CASE SalahOnValidTime
  <2>1. ScheduleInUse' /\ oldDay' # -1 /\ time' <= nextSalahDue'
    BY <1>1, <1>4, ValidTimeUpdate
  <2> QED
    BY <1>1, <1>4, <2>1 DEF ScheduleInv, SalahInTime, SalahOnValidTime
<1>5. CASE SalahAfterTimeSync
  <2>1. /\ ScheduleInUse' /\ oldDay' # -1 /\ time' <= nextSalahDue'
        /\ sntp' = "set" /\ epoch' \in Epochs
    BY <1>1, <1>5, TimeSyncUpdate
  <2> QED
    BY <1>1, <1>5, <2>1 DEF ScheduleInv, SalahInTime, SalahAfterTimeSync
<1>6. CASE SalahWithoutTime
  <2>1. /\ ~ hasValidTime /\ InitTime(FALSE)
        /\ UNCHANGED <<oldDay, hasValidTime, currentState>>
    BY <1>6 DEF SalahWithoutTime
  <2>2. oldDay = -1
    BY <2>1 DEF ScheduleInv
  <2> QED
    BY <1>1, <2>1, <2>2, InitTimeSync DEF ScheduleInv
<1> QED
  BY <1>3, <1>4, <1>5, <1>6 DEF UpdateSalah

LEMMA ScheduleStep ==
    ASSUME Inv, BufferInv, ScheduleInv, [Next]_vars PROVE ScheduleInv'
<1>1. CASE PowerCycle
  BY <1>1 DEF PowerCycle, ScheduleInv, EmptyState
<1>2. CASE UNCHANGED vars
  BY <1>2 DEF vars, ScheduleInv, ScheduleInUse, SalahInTime, SalahMinute, time
<1> QED
  BY <1>1, <1>2, ScheduleTick, ScheduleSalah, ScheduleSensors, ScheduleForecast,
     ScheduleSync, ScheduleWake, ScheduleSntp, ScheduleBoot DEF Next

LEMMA SpecSchedule == Spec => []ScheduleInv
<1>1. Init => ScheduleInv
  BY DEF Init, ScheduleInv, EmptyState
<1>2. Inv /\ BufferInv /\ ScheduleInv /\ [Next]_vars => ScheduleInv'
  BY ScheduleStep
<1> QED
  BY <1>1, <1>2, SpecInv, SpecBuffer, PTL DEF Spec

(* The salah state on record is that of the minute its timer was set in:   *)
(* the schedule in use is always the one of that minute's date, through    *)
(* midnight, the first time sync and every wait (src/main.cpp:119).        *)
THEOREM FirmwareSalahMatchesTimer == Spec => []SalahMatchesTimer
<1>1. ScheduleInv => SalahMatchesTimer
  BY DEF ScheduleInv, ScheduleInUse, SalahMinute, SalahMatchesTimer
<1> QED
  BY <1>1, SpecSchedule, PTL

------------------------------------------------------------------------------
(* What the tick has made of the state shown so far is what Display allows *)
(* a tick to bring.                                                        *)
TickBrings ==
    /\ currentState.salah \in Pipeline!SalahAfter(previousState.salah)
    /\ pc = "salah" => currentState.salah = previousState.salah
    /\ currentState.forecast \in Pipeline!ForecastAfter(previousState.forecast)

RefinementInv ==
    /\ currentState.rows \in [Sensors -> Readings \cup {EmptyReading}]
    /\ lastForecast \in Forecasts \cup {NoValue}
    /\ pc \in {"salah", "sensors", "forecast", "sync"} => TickBrings

(* Display's operators, on Display's own copy of Screen, are those of the  *)
(* loop.                                                                   *)
LEMMA SameDrawing ==
    ASSUME NEW p, NEW s, NEW d
    PROVE  /\ Pipeline!renderUi(p, s, d) = renderUi(p, s, d)
           /\ Pipeline!computeDirtyRegions(p, s) = computeDirtyRegions(p, s)
           /\ Pipeline!EverythingDirty = EverythingDirty
<1>1. Pipeline!renderUi(p, s, d) = renderUi(p, s, d)
  BY DEF renderUi, drawSalahNameRegion, Dimmed, drawMinutesRegion, drawSensorRowRegion,
         drawForecastRegion, shouldFlipColoursForSalah, hasCompleteReading, displayTemp,
         Truncated,
         Pipeline!renderUi, Pipeline!drawSalahNameRegion, Pipeline!Dimmed,
         Pipeline!drawMinutesRegion, Pipeline!drawSensorRowRegion,
         Pipeline!drawForecastRegion, Pipeline!shouldFlipColoursForSalah,
         Pipeline!hasCompleteReading, Pipeline!displayTemp, Pipeline!Truncated
<1>2. Pipeline!computeDirtyRegions(p, s) = computeDirtyRegions(p, s)
  BY DEF computeDirtyRegions, SalahNameDirty, MinutesDirty, equalsForDisplay, ForecastDirty,
         SameRenderedDay, hasCompleteReading, displayTemp,
         Pipeline!computeDirtyRegions, Pipeline!SalahNameDirty, Pipeline!MinutesDirty,
         Pipeline!equalsForDisplay, Pipeline!ForecastDirty, Pipeline!SameRenderedDay,
         Pipeline!hasCompleteReading, Pipeline!displayTemp
<1>3. Pipeline!EverythingDirty = EverythingDirty
  BY DEF EverythingDirty, Pipeline!EverythingDirty
<1> QED
  BY <1>1, <1>2, <1>3

LEMMA SameBlank ==
    /\ Pipeline!EmptyState = EmptyState /\ Pipeline!BlankPanel = BlankPanel
    /\ Pipeline!EmptyReading = EmptyReading
BY DEF EmptyState, Pipeline!EmptyState, BlankPanel, Pipeline!BlankPanel, EmptyReading,
       Pipeline!EmptyReading

(* What Display allows a tick to bring after what is shown.                *)
LEMMA AllowedSalah ==
    /\ NoValue \in Pipeline!SalahAfter(NoValue)
    /\ \A u \in Minutes : SalahAt(u) \in Pipeline!SalahAfter(NoValue)
    /\ \A t, u \in Minutes : t <= u /\ u <= t + MaxTickGap =>
          SalahAt(u) \in Pipeline!SalahAfter(SalahAt(t))
<1>1. /\ NoValue \in Pipeline!SalahAfter(NoValue)
      /\ \A u \in Minutes : SalahAt(u) \in Pipeline!SalahAfter(NoValue)
  BY SameSalahAt DEF Pipeline!SalahAfter
<1>2. ASSUME NEW t \in Minutes, NEW u \in Minutes, t <= u, u <= t + MaxTickGap
      PROVE  SalahAt(u) \in Pipeline!SalahAfter(SalahAt(t))
  <2>1. u \in t .. t + MaxTickGap /\ SalahAt(t) # NoValue
    BY <1>2, MinuteFacts
  <2>2. t \in {v \in Minutes : Pipeline!SalahAt(v) = SalahAt(t)}
    BY SameSalahAt
  <2>3. u \in Minutes \cap UNION {v .. v + MaxTickGap :
                                    v \in {v \in Minutes : Pipeline!SalahAt(v) = SalahAt(t)}}
    BY <2>1, <2>2
  <2>4. Pipeline!SalahAt(u) \in Pipeline!SalahAfter(SalahAt(t))
    BY <2>1, <2>3 DEF Pipeline!SalahAfter
  <2> QED
    BY <2>4, SameSalahAt
<1> QED
  BY <1>1, <1>2

LEMMA AllowedForecast ==
    /\ \A old : Forecasts \subseteq Pipeline!ForecastAfter(old)
    /\ \A old \in Forecasts \cup {NoValue} : old \in Pipeline!ForecastAfter(old)
BY DEF Pipeline!ForecastAfter

(* A salah state may stay as it is.                                        *)
LEMMA SalahMayStay ==
    ASSUME ScheduleInv PROVE currentState.salah \in Pipeline!SalahAfter(currentState.salah)
<1>1. CASE oldDay = -1
  BY <1>1, AllowedSalah DEF ScheduleInv
<1>2. CASE oldDay # -1
  <2>1. SalahMinute \in Minutes /\ currentState.salah = SalahAt(SalahMinute)
    BY <1>2 DEF ScheduleInv, ScheduleInUse
  <2>2. SalahMinute <= SalahMinute /\ SalahMinute <= SalahMinute + MaxTickGap
    BY <2>1, MinuteFacts
  <2> QED
    BY <2>1, <2>2, AllowedSalah
<1> QED
  BY <1>1, <1>2

LEMMA BringsTick ==
    ASSUME Inv, BufferInv, ScheduleInv, RefinementInv, TickStart PROVE RefinementInv'
<1>1. /\ pc' = "salah" /\ previousState' = currentState /\ lastForecast' = lastForecast
      /\ currentState'.salah = currentState.salah
      /\ currentState'.rows = currentState.rows
      /\ currentState'.forecast = currentState.forecast
  BY DEF TickStart, prepareCurrentState
<1>2. currentState.forecast \in Forecasts \cup {NoValue}
  BY DEF BufferInv, RefinementInv
<1>3. TickBrings'
  <2>1. currentState'.salah \in Pipeline!SalahAfter(previousState'.salah)
    BY <1>1, SalahMayStay
  <2>2. currentState'.forecast \in Pipeline!ForecastAfter(previousState'.forecast)
    BY <1>1, <1>2, AllowedForecast
  <2> QED
    BY <1>1, <2>1, <2>2 DEF TickBrings, Pipeline!SalahAfter, Pipeline!ForecastAfter
<1> QED
  BY <1>1, <1>3 DEF RefinementInv

LEMMA BringsSalah ==
    ASSUME Inv, BufferInv, ScheduleInv, RefinementInv, UpdateSalah PROVE RefinementInv'
<1>1. /\ pc = "salah" /\ pc' = "sensors" /\ UNCHANGED <<previousState, lastForecast>>
  BY DEF UpdateSalah
<1>2. TickBrings /\ currentState.salah = previousState.salah
  BY <1>1 DEF RefinementInv, TickBrings
<1>3. CASE currentState' = currentState
  BY <1>1, <1>2, <1>3 DEF RefinementInv, TickBrings, Pipeline!SalahAfter, Pipeline!ForecastAfter
<1>4. CASE SalahOnValidTime \/ SalahAfterTimeSync
  <2>1. /\ ScheduleInUse'
        /\ oldDay # -1 => /\ SalahMinute <= SalahMinute'
                          /\ SalahMinute' <= SalahMinute + MaxTickGap
    BY <1>1, <1>4, ValidTimeUpdate, TimeSyncUpdate
  <2> DEFINE u == SalahMinute'
  <2>2. u \in Minutes /\ currentState'.salah = SalahAt(u)
    BY <2>1 DEF ScheduleInUse
  <2> HIDE DEF u
  <2>3. SalahAt(u) \in Pipeline!SalahAfter(currentState.salah)
    <3>1. CASE oldDay = -1
      BY <2>2, <3>1, AllowedSalah DEF ScheduleInv
    <3>2. CASE oldDay # -1
      <4>1. SalahMinute \in Minutes /\ currentState.salah = SalahAt(SalahMinute)
        BY <3>2 DEF ScheduleInv, ScheduleInUse
      <4>2. SalahMinute <= u /\ u <= SalahMinute + MaxTickGap
        BY <2>1, <3>2 DEF u
      <4> QED
        BY <2>2, <4>1, <4>2, AllowedSalah
    <3> QED
      BY <3>1, <3>2
  <2>4. PICK v : currentState' = [currentState EXCEPT !.salah = v]
    BY <1>4 DEF SalahOnValidTime, SalahAfterTimeSync, UpdateSalahAt
  <2>5. /\ currentState'.rows = currentState.rows
        /\ currentState'.forecast = currentState.forecast
    BY <2>4, SetField DEF BufferInv
  <2>6. TickBrings'
    BY <1>1, <1>2, <2>2, <2>3, <2>5
    DEF TickBrings, Pipeline!SalahAfter, Pipeline!ForecastAfter
  <2> QED
    BY <1>1, <2>5, <2>6 DEF RefinementInv
<1> QED
  BY <1>3, <1>4 DEF UpdateSalah, SalahNotDue, SalahWithoutTime

(* The answer of the backend is a reading or an empty one for each sensor. *)
LEMMA AnsweredRows ==
    ASSUME NEW monitor \in Monitor
    PROVE  meter_latest_v2(monitor).rows \in [Sensors -> Readings \cup {EmptyReading}]
<1>1. CASE monitor = NoValue
  BY <1>1 DEF meter_latest_v2
<1>2. CASE monitor # NoValue
  <2>1. monitor \in [rows : [Sensors -> Readings \cup {EmptyReading}], hint : RetryHints]
    BY <1>2 DEF Monitor
  <2>2. meter_latest_v2(monitor).rows = monitor.rows
    BY <1>2, <2>1 DEF meter_latest_v2
  <2> QED
    BY <2>1, <2>2
<1> QED
  BY <1>1, <1>2

LEMMA BringsSensors ==
    ASSUME Inv, BufferInv, ScheduleInv, RefinementInv, UpdateSensors PROVE RefinementInv'
<1>1. /\ pc = "sensors" /\ pc' = "forecast" /\ UNCHANGED <<previousState, lastForecast>>
  BY DEF UpdateSensors
<1>2. TickBrings
  BY <1>1 DEF RefinementInv
<1>3. CASE currentState' = currentState
  BY <1>1, <1>2, <1>3 DEF RefinementInv, TickBrings, Pipeline!SalahAfter, Pipeline!ForecastAfter
<1>4. CASE \E monitor \in Monitor : SensorsAnswered(monitor)
  <2>1. PICK monitor \in Monitor : SensorsAnswered(monitor)
    BY <1>4
  <2> DEFINE rows == meter_latest_v2(monitor).rows
  <2>2. rows \in [Sensors -> Readings \cup {EmptyReading}]
    BY AnsweredRows
  <2>3. currentState' = [currentState EXCEPT !.rows = rows]
    BY <2>1 DEF SensorsAnswered
  <2> HIDE DEF rows
  <2>4. /\ currentState'.rows = rows
        /\ currentState'.salah = currentState.salah
        /\ currentState'.forecast = currentState.forecast
    BY <2>3, SetField, SalahField DEF BufferInv
  <2> QED
    BY <1>1, <1>2, <2>2, <2>4
    DEF RefinementInv, TickBrings, Pipeline!SalahAfter, Pipeline!ForecastAfter
<1> QED
  BY <1>3, <1>4 DEF UpdateSensors, SensorsFailed

LEMMA BringsForecast ==
    ASSUME Inv, BufferInv, BufferInv', ScheduleInv, RefinementInv, UpdateForecast
    PROVE  RefinementInv'
<1>1. /\ pc = "forecast" /\ pc' = "sync" /\ previousState' = previousState
  BY DEF UpdateForecast
<1>2. TickBrings
  BY <1>1 DEF RefinementInv
<1>3. lastForecast' = lastForecast \/ lastForecast' \in Forecasts
  BY DEF UpdateForecast, ForecastAnswered, ForecastFailed
<1>4. currentState'.salah = currentState.salah /\ currentState'.rows = currentState.rows
  <2>1. \/ currentState' = currentState
        \/ \E v : currentState' = [currentState EXCEPT !.forecast = v]
    BY DEF UpdateForecast, ForecastAnswered, ForecastFailed, WithLastForecast
  <2>2. CASE \E v : currentState' = [currentState EXCEPT !.forecast = v]
    <3>1. PICK v : currentState' = [currentState EXCEPT !.forecast = v]
      BY <2>2
    <3> QED
      BY <3>1, SetField, SalahField DEF BufferInv
  <2> QED
    BY <2>1, <2>2
<1>5. currentState.forecast = lastForecast /\ currentState'.forecast = lastForecast'
  BY DEF BufferInv
<1>6. currentState'.forecast \in Pipeline!ForecastAfter(previousState.forecast)
  BY <1>2, <1>3, <1>5, AllowedForecast DEF TickBrings
<1>7. TickBrings'
  BY <1>1, <1>2, <1>4, <1>6 DEF TickBrings, Pipeline!SalahAfter, Pipeline!ForecastAfter
<1> QED
  BY <1>1, <1>3, <1>4, <1>7 DEF RefinementInv

LEMMA BringsStep ==
    ASSUME Inv, BufferInv, BufferInv', ScheduleInv, RefinementInv, [Next]_vars
    PROVE  RefinementInv'
<1>1. CASE PowerCycle
  BY <1>1 DEF PowerCycle, RefinementInv, EmptyState
<1>2. CASE SntpAnswers \/ UNCHANGED vars
  <2>1. UNCHANGED <<pc, currentState, previousState, lastForecast>>
    BY <1>2 DEF SntpAnswers, vars
  <2> QED
    BY <2>1 DEF RefinementInv, TickBrings, Pipeline!SalahAfter, Pipeline!ForecastAfter
<1>3. CASE Boot \/ SyncOutputs \/ Wake
  BY <1>3 DEF Boot, SyncOutputs, Wake, RefinementInv
<1> QED
  BY <1>1, <1>2, <1>3, BringsTick, BringsSalah, BringsSensors, BringsForecast DEF Next

------------------------------------------------------------------------------
(* One tick of Display: the state shown before it is previousState.        *)
LEMMA SyncIsTick ==
    ASSUME BufferInv, RefinementInv, SyncOutputs PROVE Pipeline!Tick
<1>1. /\ pc = "sync" /\ pc' = "asleep" /\ hasPreviousState' = TRUE
      /\ panel' = renderUi(panel, currentState, DirtyNow)
      /\ currentState' = currentState
  BY DEF SyncOutputs
<1>2. Shown = previousState /\ Shown' = currentState
  BY <1>1 DEF Shown
<1>3. Shown' \in Pipeline!StateAfter(Shown)
  <2>1. TickBrings /\ currentState.rows \in [Sensors -> Readings \cup {EmptyReading}]
    BY <1>1 DEF RefinementInv
  <2>2. /\ currentState.salah \in Pipeline!SalahAfter(previousState.salah)
        /\ currentState.forecast \in Pipeline!ForecastAfter(previousState.forecast)
    BY <2>1 DEF TickBrings
  <2>3. currentState = [salah |-> currentState.salah, rows |-> currentState.rows,
                        forecast |-> currentState.forecast]
    BY DEF BufferInv, Complete
  <2>4. currentState \in Pipeline!StateAfter(previousState)
    BY <2>1, <2>2, <2>3, SameBlank DEF Pipeline!StateAfter
  <2> QED
    BY <1>2, <2>4
<1>4. Pipeline!DirtyNow = DirtyNow
  BY <1>2, SameDrawing DEF DirtyNow, Pipeline!DirtyNow
<1>5. panel' = Pipeline!renderUi(panel, Shown', Pipeline!DirtyNow)
  BY <1>1, <1>2, <1>4, SameDrawing
<1> QED
  BY <1>1, <1>3, <1>5 DEF Pipeline!Tick

LEMMA RefinementStep ==
    ASSUME BufferInv, RefinementInv, [Next]_vars
    PROVE  [Pipeline!Next]_(Pipeline!displayVars)
<1>1. CASE SyncOutputs
  BY <1>1, SyncIsTick DEF Pipeline!Next
<1>2. CASE PowerCycle
  BY <1>2, SameBlank DEF PowerCycle, Pipeline!PowerCycle, Pipeline!Next, Shown
<1>3. CASE TickStart
  BY <1>3 DEF TickStart, Pipeline!displayVars, Shown
<1>4. CASE UpdateSalah \/ UpdateSensors \/ UpdateForecast
  BY <1>4 DEF UpdateSalah, UpdateSensors, UpdateForecast, Pipeline!displayVars, Shown
<1>5. CASE SntpAnswers \/ Boot \/ Wake \/ UNCHANGED vars
  BY <1>5 DEF SntpAnswers, Boot, Wake, vars, Pipeline!displayVars, Shown
<1> QED
  BY <1>1, <1>2, <1>3, <1>4, <1>5 DEF Next

(* The loop implements Display: between two syncs the glass and what it    *)
(* shows stand still, and each sync is one tick of Display, whatever the   *)
(* updaters, SNTP and the backend did in between.                          *)
THEOREM FirmwareImplementsDisplay == Spec => ImplementsDisplay
<1>1. Init => RefinementInv
  BY DEF Init, RefinementInv, EmptyState
<1>2. /\ Inv /\ BufferInv /\ BufferInv' /\ ScheduleInv /\ RefinementInv /\ [Next]_vars
      => RefinementInv'
  BY BringsStep
<1>3. Init => Pipeline!Init
  BY SameBlank DEF Init, Pipeline!Init, Shown
<1>4. BufferInv /\ RefinementInv /\ [Next]_vars => [Pipeline!Next]_(Pipeline!displayVars)
  BY RefinementStep
<1> QED
  BY <1>1, <1>2, <1>3, <1>4, SpecInv, SpecBuffer, SpecSchedule, PTL
  DEF Spec, ImplementsDisplay, Pipeline!Spec

------------------------------------------------------------------------------
(* Display and what is proved about it, for the glass of the loop.  Its    *)
(* definitions are those of Pipeline, reached through DisplayProofs.       *)
Glass == INSTANCE DisplayProofs WITH state <- Shown

(* The constants the loop hands on satisfy what the proofs about Display    *)
(* assume.                                                                 *)
LEMMA GlassAssumptions == Glass!SalahAssumption /\ Glass!DisplayAssumption
<1>1. Glass!SalahAssumption
  BY SalahAssumption
  DEF Glass!SalahAssumption, Glass!Schedule, Glass!EdgeNames, Glass!Edges,
      Schedule, EdgeNames, Edges
<1>2. \A t : Glass!SalahAt(t) = Pipeline!SalahAt(t)
  BY DEF Glass!SalahAt, Pipeline!SalahAt, Glass!computeState, Pipeline!computeState,
         Glass!Edges, Pipeline!Edges, Glass!PhaseFrom, Pipeline!PhaseFrom,
         Glass!Deadline, Pipeline!Deadline
<1>3. Glass!DisplayAssumption
  BY <1>2, PipelineAssumption DEF Glass!DisplayAssumption, Pipeline!DisplayAssumption
<1> QED
  BY <1>1, <1>3

(* What is drawn, and when, is the same under either name.                 *)
LEMMA SameGlassDrawing ==
    ASSUME NEW p, NEW s, NEW d
    PROVE  /\ Pipeline!renderUi(p, s, d) = Glass!renderUi(p, s, d)
           /\ Pipeline!computeDirtyRegions(p, s) = Glass!computeDirtyRegions(p, s)
           /\ Pipeline!EverythingDirty = Glass!EverythingDirty
<1>1. Pipeline!renderUi(p, s, d) = Glass!renderUi(p, s, d)
  BY DEF Glass!renderUi, Glass!drawSalahNameRegion, Glass!Dimmed, Glass!drawMinutesRegion,
         Glass!drawSensorRowRegion, Glass!drawForecastRegion,
         Glass!shouldFlipColoursForSalah, Glass!hasCompleteReading, Glass!displayTemp,
         Glass!Truncated,
         Pipeline!renderUi, Pipeline!drawSalahNameRegion, Pipeline!Dimmed,
         Pipeline!drawMinutesRegion, Pipeline!drawSensorRowRegion,
         Pipeline!drawForecastRegion, Pipeline!shouldFlipColoursForSalah,
         Pipeline!hasCompleteReading, Pipeline!displayTemp, Pipeline!Truncated
<1>2. Pipeline!computeDirtyRegions(p, s) = Glass!computeDirtyRegions(p, s)
  BY DEF Glass!computeDirtyRegions, Glass!SalahNameDirty, Glass!MinutesDirty,
         Glass!equalsForDisplay, Glass!ForecastDirty, Glass!SameRenderedDay,
         Glass!hasCompleteReading, Glass!displayTemp,
         Pipeline!computeDirtyRegions, Pipeline!SalahNameDirty, Pipeline!MinutesDirty,
         Pipeline!equalsForDisplay, Pipeline!ForecastDirty, Pipeline!SameRenderedDay,
         Pipeline!hasCompleteReading, Pipeline!displayTemp
<1>3. Pipeline!EverythingDirty = Glass!EverythingDirty
  BY DEF Glass!EverythingDirty, Pipeline!EverythingDirty
<1> QED
  BY <1>1, <1>2, <1>3

(* So is what power-on leaves.                                             *)
LEMMA SameGlassBlank ==
    /\ Pipeline!EmptyState = Glass!EmptyState /\ Pipeline!BlankPanel = Glass!BlankPanel
    /\ Pipeline!EmptyReading = Glass!EmptyReading
BY DEF Glass!EmptyState, Pipeline!EmptyState, Glass!BlankPanel, Pipeline!BlankPanel,
       Glass!EmptyReading, Pipeline!EmptyReading

(* So is what a tick may bring.                                            *)
LEMMA SameGlassAllowed ==
    ASSUME NEW s PROVE Pipeline!StateAfter(s) = Glass!StateAfter(s)
<1>1. \A t : Glass!SalahAt(t) = Pipeline!SalahAt(t)
  BY DEF Glass!SalahAt, Pipeline!SalahAt, Glass!computeState, Pipeline!computeState,
         Glass!Edges, Pipeline!Edges, Glass!PhaseFrom, Pipeline!PhaseFrom,
         Glass!Deadline, Pipeline!Deadline
<1>2. \A x : Pipeline!SalahAfter(x) = Glass!SalahAfter(x)
  BY <1>1 DEF Pipeline!SalahAfter, Glass!SalahAfter
<1>3. \A x : Pipeline!ForecastAfter(x) = Glass!ForecastAfter(x)
  BY DEF Pipeline!ForecastAfter, Glass!ForecastAfter
<1> QED
  BY <1>2, <1>3, SameGlassBlank DEF Pipeline!StateAfter, Glass!StateAfter

(* Every behaviour of Pipeline is one of Glass.                            *)
LEMMA SameGlassSpec == Pipeline!Spec => Glass!Spec
<1>1. Pipeline!Init => Glass!Init
  BY SameGlassBlank DEF Pipeline!Init, Glass!Init
<1>2. [Pipeline!Next]_(Pipeline!displayVars) => [Glass!Next]_(Glass!displayVars)
  <2>1. CASE Pipeline!Tick
    <3>1. Pipeline!DirtyNow = Glass!DirtyNow
      BY SameGlassDrawing DEF Pipeline!DirtyNow, Glass!DirtyNow
    <3>2. Glass!Tick
      BY <2>1, <3>1, SameGlassAllowed, SameGlassDrawing DEF Pipeline!Tick, Glass!Tick
    <3> QED
      BY <3>2 DEF Glass!Next
  <2>2. CASE Pipeline!PowerCycle
    BY <2>2, SameGlassBlank DEF Pipeline!PowerCycle, Glass!PowerCycle, Glass!Next
  <2>3. CASE UNCHANGED Pipeline!displayVars
    BY <2>3 DEF Pipeline!displayVars, Glass!displayVars
  <2> QED
    BY <2>1, <2>2, <2>3 DEF Pipeline!Next
<1> QED
  BY <1>1, <1>2, PTL DEF Pipeline!Spec, Glass!Spec

------------------------------------------------------------------------------
(* What Display proves of the glass, in the terms of the loop.             *)
GlassFollowsLoop ==
    /\ \A r \in Sensors : panel.rows[r] = drawSensorRowRegion(Shown, r)
    /\ Pipeline!NameFresh
    /\ Pipeline!ForecastWithinADegree

GlassCountsDown == panel.minutes = drawMinutesRegion(Shown)

(* The minute whose phase the timer of the salah stands for is the one on  *)
(* the glass of a loop that sleeps.                                        *)
GlassOnTime ==
    LET due == SalahAt(nextSalahDue \div Minute - 1)
    IN  pc = "asleep" /\ currentState.salah # NoValue =>
            panel.name.text = due.current /\ panel.dim = (due.current = "Isha")

(* The invariants of Display, read on the state of the loop.               *)
LEMMA GlassInTerms ==
    /\ Glass!RowsFresh => \A r \in Sensors : panel.rows[r] = drawSensorRowRegion(Shown, r)
    /\ Glass!NameFresh => Pipeline!NameFresh
    /\ Glass!ForecastWithinADegree => Pipeline!ForecastWithinADegree
    /\ Glass!MinutesFresh => GlassCountsDown
<1>1. Glass!RowsFresh => \A r \in Sensors : panel.rows[r] = drawSensorRowRegion(Shown, r)
  BY DEF Glass!RowsFresh, drawSensorRowRegion, Glass!drawSensorRowRegion,
         hasCompleteReading, Glass!hasCompleteReading, displayTemp, Glass!displayTemp
<1>2. Glass!NameFresh => Pipeline!NameFresh
  BY DEF Glass!NameFresh, Pipeline!NameFresh,
         Glass!drawSalahNameRegion, Pipeline!drawSalahNameRegion,
         Glass!shouldFlipColoursForSalah, Pipeline!shouldFlipColoursForSalah
<1>3. Glass!ForecastWithinADegree => Pipeline!ForecastWithinADegree
  BY DEF Glass!ForecastWithinADegree, Pipeline!ForecastWithinADegree,
         Glass!drawForecastRegion, Pipeline!drawForecastRegion, Glass!Truncated,
         Pipeline!Truncated, Glass!Near, Pipeline!Near
<1>4. Glass!MinutesFresh => GlassCountsDown
  BY DEF Glass!MinutesFresh, GlassCountsDown, drawMinutesRegion, Glass!drawMinutesRegion,
         shouldFlipColoursForSalah, Glass!shouldFlipColoursForSalah
<1> QED
  BY <1>1, <1>2, <1>3, <1>4

(* The glass of the device never shows a reading, a phase or a contrast    *)
(* that is not the one last drawn by a finished tick, nor a forecast more  *)
(* than a degree from it, whatever failed, waited or was skipped in        *)
(* between (computeDirtyRegions, renderUi, syncOutputs of src/main.cpp).   *)
THEOREM FirmwareGlassFollowsLoop == Spec => []GlassFollowsLoop
<1>1. Spec => Glass!Spec
  BY FirmwareImplementsDisplay, SameGlassSpec DEF ImplementsDisplay
<1>2. Glass!Spec => []Glass!RowsFresh
  BY GlassAssumptions, Glass!DisplayRowsFresh
<1>3. Glass!Spec => []Glass!NameFresh
  BY GlassAssumptions, Glass!DisplayNameFresh
<1>4. Glass!Spec => []Glass!ForecastWithinADegree
  BY GlassAssumptions, Glass!DisplayForecastWithinADegree
<1>5. Glass!RowsFresh /\ Glass!NameFresh /\ Glass!ForecastWithinADegree => GlassFollowsLoop
  BY GlassInTerms DEF GlassFollowsLoop
<1> QED
  BY <1>1, <1>2, <1>3, <1>4, <1>5, PTL

(* Asleep, the device shows the phase of the minute its salah timer was    *)
(* set in, at the contrast of that phase, through midnight, the first time *)
(* sync and every wait: the schedule in use, the state and the glass agree.*)
THEOREM FirmwareGlassOnTime == Spec => []GlassOnTime
<1>1. GlassFollowsLoop /\ SalahMatchesTimer => GlassOnTime
  BY DEF GlassFollowsLoop, SalahMatchesTimer, GlassOnTime, Shown, Pipeline!NameFresh
<1> QED
  BY <1>1, FirmwareGlassFollowsLoop, FirmwareSalahMatchesTimer, PTL

(* When every phase is longer than the gap between two ticks, the          *)
(* countdown on the glass is that of the state too, in its colours.        *)
THEOREM FirmwareGlassCountsDown ==
    ASSUME Pipeline!PhasesOutlastTicks
    PROVE  Spec => []GlassCountsDown
<1>1. Spec => Glass!Spec
  BY FirmwareImplementsDisplay, SameGlassSpec DEF ImplementsDisplay
<1>2. Glass!PhasesOutlastTicks
  BY DEF Pipeline!PhasesOutlastTicks, Glass!PhasesOutlastTicks, Pipeline!Edges, Glass!Edges
<1>3. Glass!Spec => []Glass!MinutesFresh
  BY <1>2, GlassAssumptions, Glass!DisplayMinutesFresh
<1>4. Glass!MinutesFresh => GlassCountsDown
  BY GlassInTerms
<1> QED
  BY <1>1, <1>3, <1>4, PTL
==============================================================================
