-------------------------------- MODULE Sync ---------------------------------
(***************************************************************************)
(* Step 1 of the history sync, POST /switchbot/sensors: the server tells a *)
(* gateway which gaps its readings have, the gateway uploads what the      *)
(* meters remember of them (step 2, see Ingest) and asks again while the   *)
(* server says that it left gaps out.                                      *)
(*                                                                         *)
(* The handler reads one sensor after the other, while live readings come  *)
(* in.  A reading is the time it was taken at.  Names, the first and the   *)
(* latest timestamp and rejected requests are left out.                    *)
(***************************************************************************)
EXTENDS Integers, Sequences, FiniteSets, FiniteSetsExt

CONSTANTS
    Sensors,
    Requested,          \* payload.sensors
    GapThreshold, MaxPerSensor, MaxTotal,
    Retention,          \* SYNC_RETENTION_DAYS
    TimestampsMax,      \* SYNC_TIMESTAMPS_MAX
    NoGap,
    MaxTime,            \* bound: the clock
    MaxMissed           \* bound: the readings meters fail to take

(* A request names a sensor once.  The gateway does; the schema does not   *)
(* ask for it (switchbot.py:45-52), and a sensor named twice is read twice. *)
ASSUME SyncAssumption ==
    /\ IsFiniteSet(Sensors) /\ Requested \in Seq(Sensors) /\ Requested # <<>>
    /\ \A j, k \in DOMAIN Requested : Requested[j] = Requested[k] => j = k
    /\ {GapThreshold, MaxPerSensor, MaxTotal, Retention, TimestampsMax} \subseteq Nat \ {0}
    /\ MaxTime \in Nat /\ MaxMissed \in Nat

VARIABLES
    now,
    remembered,         \* remembered[s]: the readings the meter s has taken
    stored,             \* stored[s]: those the server has
    registered,         \* the table of sensors
    pc,                 \* "idle", "asking", "uploading"
    asked,              \* how many sensors the handler is done with
    intervals,          \* sync_intervals, those not uploaded yet
    capped,             \* any_capped
    watched             \* auxiliary: a gap there was when the sync began

vars == <<now, remembered, stored, registered, pc, asked, intervals, capped, watched>>

Times == 0 .. MaxTime
Intervals == [sensor : Sensors, start : Times, end : Times]

------------------------------------------------------------------------------
(* order_by(timestamp.desc()).limit(n)                                     *)
Newest(n, times) == {t \in times : Cardinality({u \in times : t < u}) < n}

get_sensor_timestamps(s) ==
    Newest(TimestampsMax, {t \in stored[s] : now - Retention <= t})

Between(i, times) == {t \in times : i.start < t /\ t < i.end}

(* Pairs of neighbours that are far enough apart.                          *)
Gaps(s, times) ==
    {i \in [sensor : {s}, start : times, end : times] :
        i.end - i.start >= GapThreshold /\ Between(i, times) = {}}

(* Fault: intervals[-0:] is everything.                                    *)
NewestGapsZero(n, gaps) ==
    {i \in gaps : n = 0 \/ Cardinality({j \in gaps : i.start < j.start}) < n}

(* intervals[-n:]                                                          *)
NewestGaps(n, gaps) ==
    {i \in gaps : Cardinality({j \in gaps : i.start < j.start}) < n}

OpenGaps(s) == Gaps(s, get_sensor_timestamps(s))

Lacking(i) == Between(i, remembered[i.sensor]) \ stored[i.sensor]

Fillable(i) == Lacking(i) # {}

AllowedForSensor == Min({MaxPerSensor, MaxTotal - Cardinality(intervals)})

------------------------------------------------------------------------------
Init ==
    /\ now = 0
    /\ remembered = [s \in Sensors |-> {0}]
    /\ registered \in SUBSET Sensors
    /\ stored = [s \in Sensors |-> IF s \in registered THEN {0} ELSE {}]
    /\ pc = "idle" /\ asked = 0 /\ intervals = {} /\ capped = FALSE
    /\ watched = NoGap

Missed == {m \in Sensors \X (0 .. now) : m[2] \notin remembered[m[1]]}

(* Some meters take a reading, and the gateway hears some of them live.    *)
Tick(taken, heard) ==
    /\ now < MaxTime
    /\ Cardinality(Missed) + Cardinality(Sensors \ taken) <= MaxMissed
    /\ now' = now + 1
    /\ remembered' = [s \in Sensors |-> remembered[s] \cup (IF s \in taken THEN {now'} ELSE {})]
    /\ stored' = [s \in Sensors |-> stored[s] \cup (IF s \in heard THEN {now'} ELSE {})]
    /\ registered' = registered \cup heard
    /\ UNCHANGED <<pc, asked, intervals, capped, watched>>

Ask ==
    /\ pc' = "asking" /\ asked' = 0 /\ intervals' = {} /\ capped' = FALSE
    /\ UNCHANGED <<now, remembered, stored, registered>>

(* A gateway starts to sync whenever it likes.                             *)
StartSync ==
    /\ pc = "idle" /\ Ask
    /\ watched' \in {NoGap} \cup {i \in UNION {OpenGaps(s) : s \in Sensors} : Fillable(i)}

(* Fault: the warning is about the cap of each sensor, not of the total.   *)
SyncSensorWarnsLess ==
    /\ pc = "asking" /\ asked < Len(Requested)
    /\ LET s == Requested[asked + 1]
           gaps == Gaps(s, get_sensor_timestamps(s))
       IN  /\ intervals' = intervals \cup NewestGaps(AllowedForSensor, gaps)
           /\ capped' = (capped \/ Cardinality(gaps) > MaxPerSensor)
    /\ asked' = asked + 1
    /\ UNCHANGED <<now, remembered, stored, registered, pc, watched>>

(* get_sensor_sync_state of the next sensor.                               *)
SyncSensor ==
    /\ pc = "asking" /\ asked < Len(Requested)
    /\ LET s == Requested[asked + 1]
           gaps == Gaps(s, get_sensor_timestamps(s))
       IN  /\ intervals' = intervals \cup NewestGaps(AllowedForSensor, gaps)
           /\ capped' = (capped \/ Cardinality(gaps) > AllowedForSensor)
    /\ asked' = asked + 1
    /\ UNCHANGED <<now, remembered, stored, registered, pc, watched>>

(* db.commit, with the sensors get_or_create_sensor_for_sync inserted, and *)
(* the answer.                                                             *)
Answer ==
    /\ pc = "asking" /\ asked = Len(Requested)
    /\ registered' = registered \cup {Requested[k] : k \in DOMAIN Requested}
    /\ pc' = "uploading"
    /\ UNCHANGED <<now, remembered, stored, asked, intervals, capped, watched>>

(* The gateway uploads an interval in pieces of any size, and repeats the  *)
(* pieces that fail.                                                       *)
Upload(i, piece) ==
    /\ pc = "uploading"
    /\ piece # {} \/ Lacking(i) = {}
    /\ stored' = [stored EXCEPT ![i.sensor] = @ \cup piece]
    /\ intervals' = IF piece = Lacking(i) THEN intervals \ {i} ELSE intervals
    /\ UNCHANGED <<now, remembered, registered, pc, asked, capped, watched>>

(* "client should upload returned intervals and request again"             *)
AskAgain ==
    /\ pc = "uploading" /\ intervals = {} /\ capped /\ Ask
    /\ UNCHANGED watched

Finish ==
    /\ pc = "uploading" /\ intervals = {} /\ ~capped
    /\ pc' = "idle"
    /\ UNCHANGED <<now, remembered, stored, registered, asked, intervals, capped, watched>>

Next ==
    \/ \E taken \in SUBSET Sensors : \E heard \in SUBSET taken : Tick(taken, heard)
    \/ StartSync
    \/ SyncSensor
    \/ Answer
    \/ \E i \in intervals : \E piece \in SUBSET Lacking(i) : Upload(i, piece)
    \/ AskAgain
    \/ Finish

(* A request that was made is answered, and a gateway that began goes on;  *)
(* nothing makes it begin.                                                 *)
Fairness ==
    /\ WF_vars(SyncSensor)
    /\ WF_vars(Answer)
    /\ WF_vars(\E i \in intervals : \E piece \in SUBSET Lacking(i) : Upload(i, piece))
    /\ WF_vars(AskAgain)

Spec == Init /\ [][Next]_vars /\ Fairness

------------------------------------------------------------------------------
(* With it: no answer is longer than the client was promised, although the *)
(* total is shared by sensors that use it up.                              *)
TypeOK ==
    /\ now \in Times
    /\ remembered \in [Sensors -> SUBSET Times]
    /\ \A s \in Sensors : stored[s] \subseteq remembered[s]
    /\ \A s \in Sensors : stored[s] # {} => s \in registered
    /\ pc \in {"idle", "asking", "uploading"} /\ asked \in 0 .. Len(Requested)
    /\ watched \in Intervals \cup {NoGap}
    /\ intervals \subseteq Intervals /\ capped \in BOOLEAN
    /\ Cardinality(intervals) <= MaxTotal
    /\ \A s \in Sensors : Cardinality({i \in intervals : i.sensor = s}) <= MaxPerSensor

Unfillable(s) == {i \in OpenGaps(s) : ~Fillable(i)}

(* Gaps without readings are answered again and again, the newest first,   *)
(* and may take all the places there are.                                  *)
Crowded ==
    \/ \E s \in Sensors : Cardinality(Unfillable(s)) >= MaxPerSensor
    \/ Cardinality(UNION {Unfillable(s) : s \in Sensors}) >= MaxTotal

(* The caps only put off, they do not lose: asking while the answer is     *)
(* capped closes every gap there is at the beginning, unless it leaves the *)
(* timestamps the server looks at, or gaps without readings take all the   *)
(* places.                                                                 *)
GapsClosed ==
    watched # NoGap ~> watched \notin UNION {OpenGaps(s) : s \in Sensors} \/ Crowded
==============================================================================
