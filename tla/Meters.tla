-------------------------------- MODULE Meters --------------------------------
(***************************************************************************)
(* The live cards of the dashboard: GET /sensors/latest asks the plant     *)
(* monitor (the Pi) for its meters and its Flower Care sensors, registers  *)
(* the ones it does not know and answers with the server's own sensor ids  *)
(* (latest_v2_entries of server/app/plant_proxy.py).  Handlers run in a    *)
(* thread pool beside the ingestion of Ingest, which registers sensors     *)
(* too, each with a session on PostgreSQL at READ COMMITTED.               *)
(*                                                                         *)
(* The readings that are passed through are left out: an entry is a MAC    *)
(* with the id and the type it is answered under.                          *)
(***************************************************************************)
EXTENDS Naturals, Sequences, FiniteSets

CONSTANTS
    Requests,       \* the handlers of concurrent polls
    Macs,
    BadRow,         \* a row of the Pi without a MAC or without recorded_at
    MeterRows, PlantRows,   \* the lists of rows the Pi may answer with
    Hints,          \* its values of retry_after_secs, 0 when there is none
    DefaultHint,    \* DefaultHint[kind]: 5 * 60 for meters, 60 * 60 for plants
    Everything,     \* a request without the sensor_id parameter
    Filters,        \* the values of sensor_id: Everything or sets of ids
    Live,           \* a transaction of the ingestion
    Committed, NoRow

Kinds == {"switchbot", "xiaomi"}

ASSUME MetersAssumption ==
    /\ MeterRows \cup PlantRows \subseteq Seq(Macs \cup {BadRow})
    /\ BadRow \notin Macs
    /\ Hints \subseteq Nat
    /\ DefaultHint \in [Kinds -> Nat \ {0}]
    /\ {Live, Committed} \cap Requests = {} /\ Live # Committed
    /\ NoRow \notin [id : Requests \cup {Live}, type : Kinds,
                     owner : Requests \cup {Live, Committed}]
    /\ \A ids \in SUBSET (Requests \cup {Live}) : ids # Everything
    /\ \A ids \in Filters \ {Everything} : ids \subseteq Requests \cup {Live}

VARIABLES
    sensors,    \* table sensors; an id is named after who inserted the row
    pc,
    kind,       \* the list a request is at, by the type of its sensors
    todo,       \* the rows of that list still ahead
    out,        \* the entries of the answer so far
    hints,      \* retry_after_values
    wanted,     \* the ids of the sensor_id parameter
    reported    \* history: the lists this request was given

locals == <<kind, todo, out, hints, wanted, reported>>
vars == <<sensors, pc, locals>>

Init ==
    /\ sensors = [m \in Macs |-> NoRow]
    /\ pc = [r \in Requests |-> "start"]
    /\ kind = [r \in Requests |-> "switchbot"]
    /\ todo = [r \in Requests |-> <<>>]
    /\ out = [r \in Requests |-> {}]
    /\ hints = [r \in Requests |-> {}]
    /\ wanted = [r \in Requests |-> Everything]
    /\ reported = [r \in Requests |-> {}]

Goto(r, label) == pc' = [pc EXCEPT ![r] = label]

Mac(r) == Head(todo[r])

Known(m) == sensors[m] # NoRow /\ sensors[m].owner = Committed

KnownIds == {sensors[m].id : m \in {m \in Macs : Known(m)}}

------------------------------------------------------------------------------
(* The request arrives, for all sensors or for some it has been told of.   *)
Begin(r) ==
    /\ pc[r] = "start"
    /\ \E ids \in Filters :
          /\ ids # Everything => ids \subseteq KnownIds
          /\ wanted' = [wanted EXCEPT ![r] = ids]
    /\ Goto(r, "fetch")
    /\ UNCHANGED <<sensors, kind, todo, out, hints, reported>>

(* Fault: a hint of zero is passed on.                                     *)
RawHint(k, hint) == hint

(* _retry_after *)
retry_after(k, hint) == IF hint > 0 THEN hint ELSE DefaultHint[k]

RowsOf(k) == IF k = "switchbot" THEN MeterRows ELSE PlantRows

(* _get succeeds with a list of sensors.                                   *)
FetchRows(r) ==
    /\ pc[r] = "fetch"
    /\ \E rows \in RowsOf(kind[r]), hint \in Hints :
          /\ todo' = [todo EXCEPT ![r] = rows]
          /\ hints' = [hints EXCEPT ![r] = @ \cup {retry_after(kind[r], hint)}]
          /\ reported' = [reported EXCEPT ![r] = @ \cup
                {[kind |-> kind[r], macs |-> {rows[i] : i \in DOMAIN rows} \ {BadRow}]}]
    /\ Goto(r, "row")
    /\ UNCHANGED <<sensors, kind, out, wanted>>

(* An HTTP error, or JSON of another shape: the list is left out.          *)
FetchNothing(r) ==
    /\ pc[r] = "fetch"
    /\ hints' = [hints EXCEPT ![r] = @ \cup {DefaultHint[kind[r]]}]
    /\ Goto(r, "row")
    /\ UNCHANGED <<sensors, kind, todo, out, wanted, reported>>

(* A body that is not JSON raises out of the handler: HTTP 500.            *)
FetchGarbled(r) ==
    /\ pc[r] = "fetch"
    /\ Goto(r, "failed")
    /\ UNCHANGED <<sensors, locals>>

SkipBadRow(r) ==
    /\ pc[r] = "row" /\ todo[r] # <<>> /\ Mac(r) = BadRow
    /\ todo' = [todo EXCEPT ![r] = Tail(@)]
    /\ UNCHANGED <<sensors, pc, kind, out, hints, wanted, reported>>

(* Fault: the type of the sensor is not looked at.                         *)
AnyType(r, row) ==
    IF wanted[r] # Everything /\ row.id \notin wanted[r] THEN {}
    ELSE {[mac |-> Mac(r), id |-> row.id, type |-> kind[r]]}

(* _sensor_if_type, the filter, and the entry of the answer.               *)
EntryFor(r, row) ==
    IF \/ row.type # kind[r]
       \/ wanted[r] # Everything /\ row.id \notin wanted[r]
    THEN {}
    ELSE {[mac |-> Mac(r), id |-> row.id, type |-> kind[r]]}

Resolve(r, row) ==
    /\ out' = [out EXCEPT ![r] = @ \cup EntryFor(r, row)]
    /\ todo' = [todo EXCEPT ![r] = Tail(@)]
    /\ Goto(r, "row")
    /\ UNCHANGED <<kind, hints, wanted, reported>>

(* _ensure_meter_sensor and _ensure_plant_sensor: look the sensor up ...   *)
FindSensor(r) ==
    /\ pc[r] = "row" /\ todo[r] # <<>> /\ Mac(r) # BadRow
    /\ Known(Mac(r))
    /\ Resolve(r, sensors[Mac(r)])
    /\ UNCHANGED sensors

MissSensor(r) ==
    /\ pc[r] = "row" /\ todo[r] # <<>> /\ Mac(r) # BadRow
    /\ ~ Known(Mac(r))
    /\ Goto(r, "insert")
    /\ UNCHANGED <<sensors, locals>>

(* ... insert it, once nobody else holds the key, and commit ...           *)
InsertSensor(r) ==
    /\ pc[r] = "insert" /\ sensors[Mac(r)] = NoRow
    /\ sensors' = [sensors EXCEPT ![Mac(r)] = [id |-> r, type |-> kind[r], owner |-> r]]
    /\ Goto(r, "commit")
    /\ UNCHANGED locals

(* Fault: flush() in place of commit().                                    *)
FlushesSensor(r) ==
    /\ pc[r] = "commit"
    /\ Resolve(r, sensors[Mac(r)])
    /\ UNCHANGED sensors

CommitSensor(r) ==
    /\ pc[r] = "commit"
    /\ sensors' = [sensors EXCEPT ![Mac(r)].owner = Committed]
    /\ Resolve(r, sensors[Mac(r)])

(* Fault: the loser of the race goes on with the row it could not insert.  *)
KeepsOwnRow(r) ==
    /\ pc[r] = "insert" /\ Known(Mac(r))
    /\ Resolve(r, [id |-> r, type |-> kind[r]])
    /\ UNCHANGED sensors

(* Fault: the loser of the race skips the sensor.                          *)
SkipsLostRow(r) ==
    /\ pc[r] = "insert" /\ Known(Mac(r))
    /\ todo' = [todo EXCEPT ![r] = Tail(@)]
    /\ Goto(r, "row")
    /\ UNCHANGED <<sensors, kind, out, hints, wanted, reported>>

(* ... or, on IntegrityError, roll back and take the row that won.         *)
LoseSensorRace(r) ==
    /\ pc[r] = "insert" /\ Known(Mac(r))
    /\ Resolve(r, sensors[Mac(r)])
    /\ UNCHANGED sensors

(* The list is done: on to the plants, or answer.                          *)
NextList(r) ==
    /\ pc[r] = "row" /\ todo[r] = <<>>
    /\ IF kind[r] = "switchbot"
       THEN kind' = [kind EXCEPT ![r] = "xiaomi"] /\ Goto(r, "fetch")
       ELSE kind' = kind /\ Goto(r, "done")
    /\ UNCHANGED <<sensors, todo, out, hints, wanted, reported>>

------------------------------------------------------------------------------
(* What a transaction that ends without COMMIT leaves.                     *)
Without(owner) ==
    [m \in Macs |-> IF sensors[m] # NoRow /\ sensors[m].owner = owner THEN NoRow
                    ELSE sensors[m]]

(* The connection or the worker dies: get_db closes the session.           *)
Abort(r) ==
    /\ pc[r] \in {"fetch", "row", "insert", "commit"}
    /\ sensors' = Without(r)
    /\ Goto(r, "failed")
    /\ UNCHANGED locals

(* The dashboard polls again.                                              *)
PollAgain(r) ==
    /\ pc[r] \in {"done", "failed"}
    /\ Goto(r, "start")
    /\ kind' = [kind EXCEPT ![r] = "switchbot"]
    /\ todo' = [todo EXCEPT ![r] = <<>>]
    /\ out' = [out EXCEPT ![r] = {}]
    /\ hints' = [hints EXCEPT ![r] = {}]
    /\ reported' = [reported EXCEPT ![r] = {}]
    /\ wanted' = [wanted EXCEPT ![r] = Everything]
    /\ UNCHANGED sensors

(* ensure_sensor of a live reading flushes the sensor and commits or rolls *)
(* back some time later (see Ingest).                                      *)
LiveRegisters(m) ==
    /\ sensors[m] = NoRow
    /\ sensors' = [sensors EXCEPT ![m] = [id |-> Live, type |-> "switchbot", owner |-> Live]]
    /\ UNCHANGED <<pc, locals>>

LiveEnds ==
    /\ \E m \in Macs : sensors[m] # NoRow /\ sensors[m].owner = Live
    /\ \/ sensors' = Without(Live)
       \/ sensors' = [m \in Macs |->
                        IF sensors[m] # NoRow /\ sensors[m].owner = Live
                        THEN [sensors[m] EXCEPT !.owner = Committed] ELSE sensors[m]]
    /\ UNCHANGED <<pc, locals>>

Handle(r) ==
    \/ Begin(r)
    \/ FetchRows(r) \/ FetchNothing(r) \/ FetchGarbled(r)
    \/ SkipBadRow(r) \/ FindSensor(r) \/ MissSensor(r)
    \/ InsertSensor(r) \/ CommitSensor(r) \/ LoseSensorRace(r)
    \/ NextList(r)

Next ==
    \/ \E r \in Requests : Handle(r) \/ Abort(r) \/ PollAgain(r)
    \/ \E m \in Macs : LiveRegisters(m)
    \/ LiveEnds

(* Each thread of the pool gets to run, and a live transaction ends.  The  *)
(* database wakes every waiter of a key in turn: a waiter is not passed    *)
(* over for ever (SF) by live transactions that keep failing.              *)
Fairness ==
    /\ \A r \in Requests : SF_vars(Handle(r))
    /\ WF_vars(LiveEnds)

Spec == Init /\ [][Next]_vars /\ Fairness

------------------------------------------------------------------------------
Labels == {"start", "fetch", "row", "insert", "commit", "done", "failed"}

Ids == Requests \cup {Live}

TypeOK ==
    /\ sensors \in [Macs -> [id : Ids, type : Kinds, owner : Ids \cup {Committed}] \cup {NoRow}]
    /\ pc \in [Requests -> Labels]
    /\ kind \in [Requests -> Kinds]
    /\ \A r \in Requests :
          /\ todo[r] = <<>> => pc[r] \notin {"insert", "commit"}
          /\ out[r] \subseteq [mac : Macs, id : Ids, type : Kinds]
          /\ hints[r] \subseteq Nat \ {0}
          /\ wanted[r] = Everything \/ wanted[r] \subseteq Ids

(* "This adapter preserves those UUIDs": every id the dashboard is given   *)
(* for a MAC is the id every other poll and GET /sensors give, whoever     *)
(* won the race to register it, and its type is the type it is listed by.  *)
IdsAgree ==
    \A r \in Requests : \A e \in out[r] :
        /\ Known(e.mac)
        /\ sensors[e.mac].id = e.id
        /\ sensors[e.mac].type = e.type

(* An answer to a request for everything names every sensor the Pi named,  *)
(* also the ones registered by somebody else in the middle of it; only a   *)
(* MAC that is registered with the other type is left out.                 *)
NoSensorForgotten ==
    \A r \in Requests : pc[r] = "done" /\ wanted[r] = Everything =>
        \A list \in reported[r] : \A m \in list.macs :
            \/ [mac |-> m, id |-> sensors[m].id, type |-> list.kind] \in out[r]
            \/ sensors[m].type # list.kind

(* An answer in which a list is missing tells the dashboard to come back   *)
(* within the default time of that list, however late the other list asks  *)
(* it to (min(retry_after_values)).                                        *)
Smallest(S) == CHOOSE h \in S : \A g \in S : h <= g

OutageRetried ==
    \A r \in Requests : pc[r] = "done" =>
        /\ hints[r] # {}
        /\ \A k \in Kinds \ {list.kind : list \in reported[r]} :
              Smallest(hints[r]) <= DefaultHint[k]

(* Both together: a sensor that the Pi knows is in the answer, or the      *)
(* dashboard asks for it again soon.                                       *)
NothingMissed == NoSensorForgotten /\ OutageRetried

(* Every poll is answered or fails: waiting for a sensor that somebody     *)
(* else is registering ends, and nobody holds one while waiting for        *)
(* another.                                                                *)
EventuallyAnswered ==
    \A r \in Requests : pc[r] = "start" ~> pc[r] \in {"done", "failed"}
==============================================================================
