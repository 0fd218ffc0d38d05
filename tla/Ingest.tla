-------------------------------- MODULE Ingest --------------------------------
(***************************************************************************)
(* Concurrent ingestion of SwitchBot readings: POST /switchbot/reading     *)
(* (live, one reading, registers an unknown sensor) and POST               *)
(* /switchbot/bulk (many readings of a known sensor in one transaction),   *)
(* server/app/service.py and main.py.  The handlers run in a thread pool,  *)
(* each with a session of its own on PostgreSQL at READ COMMITTED.         *)
(*                                                                         *)
(* A handler is split at its SQL statements.  What the database does with  *)
(* a statement (visibility, waiting for an uncommitted row with the same   *)
(* key, breaking a deadlock) is modelled as the code relies on it.  An     *)
(* upsert keeps the row it inserts, or finds, locked until its transaction *)
(* ends, also when its WHERE lets it change nothing.  Both data columns    *)
(* are NOT NULL, so a reading is one value and COALESCE never changes a    *)
(* stored one: the merged answers cannot occur.                            *)
(***************************************************************************)
EXTENDS Naturals, Sequences, FiniteSets

CONSTANTS
    Requests,       \* the requests clients send
    Macs, Times,    \* sensors and timestamps
    Values,         \* values of a reading
    Invalid,        \* a reading that fails validation
    Job,            \* Job[r] = [kind, mac, readings], what request r carries
    Committed,      \* the owner of a row every transaction can see
    NoRow,          \* no such row, or nobody who locks it
    MaxResends      \* how many requests the clients send again, a bound of the model

Reading == [at : Times, value : Values \cup {Invalid}]

ASSUME IngestAssumption ==
    /\ Job \in [Requests -> [kind : {"live", "bulk"}, mac : Macs, readings : Seq(Reading)]]
    /\ \A r \in Requests : Job[r].readings # <<>>
    /\ \A r \in Requests : Job[r].kind = "live" =>
          Len(Job[r].readings) = 1 /\ Job[r].readings[1].value # Invalid
    /\ Committed \notin Requests
    /\ NoRow \notin Values /\ NoRow \notin Requests \cup {Committed}
    /\ NoRow \notin [value : Values, owner : Requests \cup {Committed}]
    /\ MaxResends \in Nat

VARIABLES
    sensors,    \* table sensors: NoRow, or the owner of the row
    rows,       \* table switchbot_readings by unique key (mac, timestamp)
    locks,      \* who has locked the row of a key, committed or not
    pc,         \* the next statement of a request
    index,      \* the reading a request is at
    seen,       \* existing_values
    answers,    \* the result of each reading so far
    resends     \* how many requests were sent again

tables == <<sensors, rows, locks>>
vars == <<sensors, rows, locks, pc, index, seen, answers, resends>>

Keys == Macs \X Times

Mac(r) == Job[r].mac

Incoming(r) == Job[r].readings[index[r]]

Key(r) == <<Mac(r), Incoming(r).at>>

Init ==
    /\ sensors \in [Macs -> {NoRow, Committed}]
    /\ rows = [k \in Keys |-> NoRow]
    /\ locks = [k \in Keys |-> NoRow]
    /\ pc = [r \in Requests |-> "start"]
    /\ index = [r \in Requests |-> 1]
    /\ seen = [r \in Requests |-> NoRow]
    /\ answers = [r \in Requests |-> <<>>]
    /\ resends = 0

Goto(r, label) == pc' = [pc EXCEPT ![r] = label]

------------------------------------------------------------------------------
(* What a statement of r sees, and the lock it may wait for.               *)
VisibleTo(r, owner) == owner \in {Committed, r}

Uncommitted(r, owner) == owner \in Requests \ {r}

RowOwner(k) == IF rows[k] = NoRow THEN NoRow ELSE rows[k].owner

(* Who stands in the way of the insert of r.  A sensor is never upserted,  *)
(* so only its uncommitted insert does; a reading may be locked although   *)
(* it was committed long ago.                                              *)
Target(r) == IF pc[r] = "flush" THEN sensors[Mac(r)] ELSE locks[Key(r)]

Blocked(r) == pc[r] \in {"flush", "upsert"} /\ Uncommitted(r, Target(r))

(* Waits that form a cycle: the database ends one of them with an error.   *)
Deadlocked(r) ==
    \E S \in SUBSET Requests :
        /\ r \in S
        /\ \A x \in S : Blocked(x)
        /\ {Target(x) : x \in S} = S

------------------------------------------------------------------------------
(* get_sensor_by_id of the bulk handler: only a known sensor is accepted.  *)
StartBulk(r) ==
    /\ pc[r] = "start" /\ Job[r].kind = "bulk"
    /\ Goto(r, IF sensors[Mac(r)] = Committed THEN "select" ELSE "refused")
    /\ UNCHANGED <<tables, index, seen, answers, resends>>

(* ensure_sensor: look the sensor up ...                                   *)
StartLive(r) ==
    /\ pc[r] = "start" /\ Job[r].kind = "live"
    /\ Goto(r, IF sensors[Mac(r)] = Committed THEN "select" ELSE "flush")
    /\ UNCHANGED <<tables, index, seen, answers, resends>>

(* ... and insert it if it was not there.                                  *)
FlushSensor(r) ==
    /\ pc[r] = "flush"
    /\ sensors[Mac(r)] = NoRow
    /\ sensors' = [sensors EXCEPT ![Mac(r)] = r]
    /\ Goto(r, "select")
    /\ UNCHANGED <<rows, locks, index, seen, answers, resends>>

(* Another request has inserted it in between: IntegrityError, HTTP 500.   *)
LoseSensorRace(r) ==
    /\ pc[r] = "flush"
    /\ sensors[Mac(r)] = Committed
    /\ Goto(r, "raced")
    /\ UNCHANGED <<tables, index, seen, answers, resends>>

(* The next reading of a bulk, or the end of the loop.                     *)
Record(r, answer) ==
    /\ answers' = [answers EXCEPT ![r] = Append(@, answer)]
    /\ seen' = [seen EXCEPT ![r] = NoRow]
    /\ IF index[r] < Len(Job[r].readings)
       THEN /\ index' = [index EXCEPT ![r] = @ + 1]
            /\ Goto(r, "select")
       ELSE /\ index' = index
            /\ Goto(r, "commit")

(* ValidationError or BadRequestError for one reading of a bulk.           *)
RejectReading(r) ==
    /\ pc[r] = "select" /\ Incoming(r).value = Invalid
    /\ Record(r, "invalid")
    /\ UNCHANGED <<tables, resends>>

(* Fault: the lookup takes any reading of the sensor for the incoming one.  *)
FindsAnyReading(r) ==
    /\ pc[r] = "select" /\ Incoming(r).value # Invalid
    /\ LET found == {k \in Keys : k[1] = Mac(r) /\ VisibleTo(r, RowOwner(k))}
       IN  seen' = [seen EXCEPT ![r] =
                       IF found = {} THEN NoRow ELSE rows[CHOOSE k \in found : TRUE].value]
    /\ Goto(r, "upsert")
    /\ UNCHANGED <<tables, index, answers, resends>>

(* get_existing_values *)
SelectExisting(r) ==
    /\ pc[r] = "select" /\ Incoming(r).value # Invalid
    /\ seen' = [seen EXCEPT ![r] =
                  IF VisibleTo(r, RowOwner(Key(r))) THEN rows[Key(r)].value ELSE NoRow]
    /\ Goto(r, "upsert")
    /\ UNCHANGED <<tables, index, answers, resends>>

(* Fault: a reading that was there counts as a duplicate whatever it says.  *)
IgnoresConflicts(existing, value) ==
    IF existing = NoRow THEN "created" ELSE "duplicate"

(* classify_existing_reading, and the shortcut before it in ingest_reading: *)
(* both answer "created" when nothing was seen, inserted or not.           *)
Classify(existing, value) ==
    IF existing = NoRow THEN "created"
    ELSE IF existing = value THEN "duplicate" ELSE "conflict"

(* Fault: the upsert overwrites the row that is there.                     *)
Overwritten(r, k) ==
    IF VisibleTo(r, RowOwner(k)) THEN [rows EXCEPT ![k].value = Incoming(r).value]
    ELSE [rows EXCEPT ![k] = [value |-> Incoming(r).value, owner |-> r]]

(* Fault: the whole request body is stored as the value.                   *)
StoresBody(r, k) == [rows EXCEPT ![k] = [value |-> Incoming(r), owner |-> r]]

(* ON CONFLICT DO UPDATE with COALESCE: a row that is there stays as it is. *)
Upserted(r, k) ==
    IF rows[k] # NoRow THEN rows
    ELSE [rows EXCEPT ![k] = [value |-> Incoming(r).value, owner |-> r]]

(* execute_reading_upsert, up to its commit; ingest_reading's answer.      *)
Upsert(r) ==
    /\ pc[r] = "upsert" /\ ~ Blocked(r)
    /\ rows' = Upserted(r, Key(r))
    /\ locks' = [locks EXCEPT ![Key(r)] = r]
    /\ Record(r, Classify(seen[r], Incoming(r).value))
    /\ UNCHANGED <<sensors, resends>>

ClearLocals(r) ==
    /\ index' = [index EXCEPT ![r] = 1]
    /\ seen' = [seen EXCEPT ![r] = NoRow]
    /\ answers' = [answers EXCEPT ![r] = <<>>]

(* What a transaction leaves when it ends.                                 *)
Owned(r) == {k \in Keys : RowOwner(k) = r}

Unlock(r) == locks' = [k \in Keys |-> IF locks[k] = r THEN NoRow ELSE locks[k]]

Release(r) ==
    /\ Unlock(r)
    /\ rows' = [k \in Keys |-> IF k \in Owned(r) THEN NoRow ELSE rows[k]]
    /\ sensors' = [m \in Macs |-> IF sensors[m] = r THEN NoRow ELSE sensors[m]]

Publish(r) ==
    /\ Unlock(r)
    /\ rows' = [k \in Keys |-> IF k \in Owned(r) THEN [rows[k] EXCEPT !.owner = Committed]
                               ELSE rows[k]]
    /\ sensors' = [m \in Macs |-> IF sensors[m] = r THEN Committed ELSE sensors[m]]

(* The victim of a deadlock.  A bulk rolls back to the savepoint of the    *)
(* reading, counts it as an internal error and goes on; it keeps what its  *)
(* earlier readings inserted and locked.                                   *)
BreakDeadlockBulk(r) ==
    /\ Job[r].kind = "bulk" /\ Blocked(r) /\ Deadlocked(r)
    /\ Record(r, "error")
    /\ UNCHANGED <<tables, resends>>

(* Fault: the bulk handler answers without db.commit().                    *)
RepliesUncommitted(r) ==
    /\ pc[r] = "commit"
    /\ Goto(r, "done")
    /\ UNCHANGED <<tables, index, seen, answers, resends>>

(* db.commit() of either handler; the answer is sent.                      *)
Commit(r) ==
    /\ pc[r] = "commit"
    /\ Publish(r)
    /\ Goto(r, "done")
    /\ UNCHANGED <<index, seen, answers, resends>>

(* The connection or the worker dies: get_db closes the session and the    *)
(* transaction rolls back.                                                 *)
Abort(r) ==
    /\ pc[r] \in {"flush", "select", "upsert", "commit"}
    /\ Release(r)
    /\ ClearLocals(r)
    /\ Goto(r, "failed")
    /\ UNCHANGED resends

(* The client sends a request again: after an error, or because the answer *)
(* to one that was served did not reach it.                                *)
Resend(r) ==
    /\ pc[r] \in {"failed", "raced", "done"}
    /\ resends < MaxResends
    /\ resends' = resends + 1
    /\ ClearLocals(r)
    /\ Goto(r, "start")
    /\ UNCHANGED tables

Handle(r) ==
    \/ StartBulk(r)
    \/ StartLive(r)
    \/ FlushSensor(r)
    \/ LoseSensorRace(r)
    \/ RejectReading(r)
    \/ SelectExisting(r)
    \/ Upsert(r)
    \/ BreakDeadlockBulk(r)
    \/ Commit(r)

Finished == \A r \in Requests : pc[r] \in {"done", "failed", "raced", "refused"}

Next ==
    \/ \E r \in Requests : Handle(r) \/ Abort(r) \/ Resend(r)
    \/ Finished /\ UNCHANGED vars

(* The thread pool never idles while some handler can run, and the         *)
(* database ends a deadlock.                                               *)
Fairness == WF_vars(\E r \in Requests : Handle(r))

Spec == Init /\ [][Next]_vars /\ Fairness

------------------------------------------------------------------------------
Labels == {"start", "flush", "select", "upsert", "commit",
           "done", "failed", "raced", "refused"}

Owners == Requests \cup {Committed}

TypeOK ==
    /\ sensors \in [Macs -> Owners \cup {NoRow}]
    /\ rows \in [Keys -> [value : Values, owner : Owners] \cup {NoRow}]
    /\ locks \in [Keys -> Requests \cup {NoRow}]
    /\ pc \in [Requests -> Labels]
    /\ \A r \in Requests : index[r] \in 1 .. Len(Job[r].readings)
    /\ seen \in [Requests -> Values \cup {NoRow}]

(* A stored reading never changes and never disappears, whoever sends what *)
(* afterwards: ON CONFLICT with COALESCE "never overwrites existing        *)
(* non-NULL values" (server/docs/architecture.md:119).                     *)
FirstWriteWins ==
    [][\A k \in Keys : RowOwner(k) = Committed => rows'[k] = rows[k]]_vars

(* Once a request is answered, every reading it counted as succeeded has a *)
(* row; "duplicate" means the same value is stored and "conflict" another. *)
AnswersTrue ==
    \A r \in Requests : pc[r] = "done" =>
        \A i \in 1 .. Len(answers[r]) :
            LET reading == Job[r].readings[i]
                k       == <<Mac(r), reading.at>>
            IN  answers[r][i] \in {"created", "duplicate", "conflict"} =>
                  /\ RowOwner(k) = Committed
                  /\ answers[r][i] = "duplicate" => rows[k].value = reading.value
                  /\ answers[r][i] = "conflict" => rows[k].value # reading.value

(* No reading without its sensor: whoever can see a reading can see the    *)
(* sensor it belongs to, whichever transaction registers the sensor.       *)
NoOrphans ==
    \A k \in Keys : rows[k] # NoRow => sensors[k[1]] \in {Committed, rows[k].owner}

(* A request that is over holds nothing: neither its rows, its locks nor   *)
(* its sensor keep another request waiting or appear out of a failed one.  *)
NothingHeldAfterwards ==
    \A r \in Requests : pc[r] \in {"start", "done", "failed", "raced", "refused"} =>
        /\ Owned(r) = {}
        /\ \A k \in Keys : locks[k] # r
        /\ \A m \in Macs : sensors[m] # r

(* Whoever puts a reading into the table counts it as created.  The answer *)
(* is made from a lookup before the upsert (service.py:394-397), which may *)
(* be out of date in one direction only: what was found does not go away   *)
(* before the upsert, whoever aborts, is resent or breaks a deadlock.      *)
InsertedIsCreated ==
    [][\A r \in Requests, k \in Keys :
          RowOwner(k) = NoRow /\ RowOwner(k)' = r =>
              answers'[r] = Append(answers[r], "created")]_vars

(* Every request is answered or fails.  Bulks wait for rows others insert  *)
(* and for stored rows others have locked; two that send the same stored   *)
(* readings in opposite orders wait for each other until one reading of    *)
(* one of them is given up.                                                *)
EventuallyAnswered ==
    \A r \in Requests :
        pc[r] = "start" ~> pc[r] \in {"done", "failed", "raced", "refused"}

(* server/docs/architecture.md:128 says of an upsert that finds the row    *)
(* already there: "classify_existing_reading handles the None case by      *)
(* classifying the result as duplicate or conflict".  When the row came    *)
(* after get_existing_values it answers "created" (service.py:397), and a  *)
(* value that was not stored is acknowledged as if it were.                *)
CreatedIsStored ==
    \A r \in Requests : pc[r] = "done" =>
        \A i \in 1 .. Len(answers[r]) :
            answers[r][i] = "created" =>
                rows[<<Mac(r), Job[r].readings[i].at>>].value = Job[r].readings[i].value
==============================================================================
