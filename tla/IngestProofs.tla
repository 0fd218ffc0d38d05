----------------------------- MODULE IngestProofs -----------------------------
(***************************************************************************)
(* Proofs about Ingest for any number of requests, sensors, timestamps and *)
(* resends.  The inductive invariant says who may own which rows when: a   *)
(* request owns rows only between ensure_sensor and the end of its         *)
(* transaction, only of its own sensor, and during that time the sensor is *)
(* its own or committed.                                                   *)
(***************************************************************************)
EXTENDS Ingest, SequenceTheorems, TLAPS

Row == [value : Values, owner : Owners]

RowsOK ==
    /\ rows \in [Keys -> Row \cup {NoRow}]
    /\ sensors \in [Macs -> Owners \cup {NoRow}]

LocalsOK ==
    /\ pc \in [Requests -> Labels]
    /\ index \in [Requests -> Nat]
    /\ \A r \in Requests : index[r] \in 1 .. Len(Job[r].readings)
    /\ seen \in [Requests -> Values \cup {NoRow}]

InTransaction(r) == pc[r] \in {"select", "upsert", "commit"}

(* The upsert is never reached with a reading that failed validation, and  *)
(* a bulk never inserts a sensor.                                          *)
StatementsOK ==
    \A r \in Requests :
        /\ pc[r] = "upsert" => Incoming(r).value # Invalid
        /\ pc[r] = "flush" => Job[r].kind = "live"

Ownership ==
    /\ \A r \in Requests : InTransaction(r) => sensors[Mac(r)] \in {Committed, r}
    /\ \A r \in Requests, k \in Keys :
          RowOwner(k) = r => InTransaction(r) /\ k[1] = Mac(r)
    /\ \A r \in Requests, m \in Macs :
          sensors[m] = r => InTransaction(r) /\ m = Mac(r)

IInv == RowsOK /\ LocalsOK /\ StatementsOK /\ Ownership /\ NoOrphans

LEMMA ConstantFacts ==
    /\ Committed \notin Requests /\ NoRow \notin Requests /\ NoRow # Committed
    /\ NoRow \notin Values /\ NoRow \notin Row
    /\ \A r \in Requests : Mac(r) \in Macs /\ Job[r].readings \in Seq(Reading)
                           /\ Len(Job[r].readings) \in Nat \ {0}
<1>1. Committed \notin Requests /\ NoRow \notin Requests /\ NoRow # Committed
  BY IngestAssumption
<1>2. NoRow \notin Values /\ NoRow \notin Row
  BY IngestAssumption DEF Row, Owners
<1>3. ASSUME NEW r \in Requests
      PROVE  Mac(r) \in Macs /\ Job[r].readings \in Seq(Reading)
             /\ Len(Job[r].readings) \in Nat \ {0}
  <2>1. Job[r] \in [kind : {"live", "bulk"}, mac : Macs, readings : Seq(Reading)]
    BY <1>3, IngestAssumption
  <2>2. Job[r].readings # <<>>
    BY <1>3, IngestAssumption
  <2>3. Job[r].readings \in Seq(Reading) /\ Job[r].mac \in Macs
    BY <2>1
  <2> QED
    BY <2>2, <2>3, EmptySeq, LenProperties DEF Mac
<1> QED
  BY <1>1, <1>2, <1>3

(* The reading a request is at, and its key.                               *)
LEMMA IncomingType ==
    ASSUME LocalsOK, NEW r \in Requests
    PROVE  /\ Incoming(r) \in Reading
           /\ Key(r) \in Keys /\ Key(r)[1] = Mac(r)
<1>1. Incoming(r) \in Reading
  BY ConstantFacts, ElementOfSeq DEF LocalsOK, Incoming
<1> QED
  BY <1>1, ConstantFacts DEF Reading, Key, Keys

------------------------------------------------------------------------------
LEMMA InitIInv ==
    ASSUME Init PROVE IInv
<1>1. RowsOK
  BY DEF Init, RowsOK, Owners
<1>2. LocalsOK
  BY ConstantFacts DEF Init, LocalsOK, Labels
<1>3. StatementsOK /\ NoOrphans
  BY DEF Init, StatementsOK, NoOrphans
<1>4. Ownership
  BY ConstantFacts DEF Init, Ownership, InTransaction, RowOwner
<1> QED
  BY <1>1, <1>2, <1>3, <1>4 DEF IInv

------------------------------------------------------------------------------
(* What a reading's end leaves of the locals.                              *)
LEMMA RecordLocals ==
    ASSUME LocalsOK, StatementsOK, NEW r \in Requests, NEW answer, Record(r, answer)
    PROVE  /\ LocalsOK' /\ StatementsOK'
           /\ pc'[r] \in {"select", "commit"}
           /\ \A q \in Requests \ {r} : pc'[q] = pc[q]
<1> DEFINE n == Len(Job[r].readings)
<1>0. n \in Nat \ {0} /\ index[r] \in 1 .. n
  BY ConstantFacts DEF LocalsOK
<1>1. /\ pc' \in [Requests -> Labels]
      /\ pc'[r] \in {"select", "commit"}
      /\ \A q \in Requests \ {r} : pc'[q] = pc[q]
  BY DEF LocalsOK, Record, Goto, Labels
<1>2. seen' \in [Requests -> Values \cup {NoRow}]
  BY DEF LocalsOK, Record
<1>3. /\ index' \in [Requests -> Nat]
      /\ index'[r] \in 1 .. n
      /\ \A q \in Requests \ {r} : index'[q] = index[q]
  <2>1. CASE index[r] < n
    BY <2>1, <1>0 DEF LocalsOK, Record
  <2>2. CASE ~ (index[r] < n)
    BY <2>2, <1>0 DEF LocalsOK, Record
  <2> QED
    BY <2>1, <2>2
<1>4. LocalsOK'
  BY <1>1, <1>2, <1>3 DEF LocalsOK
<1>5. StatementsOK'
  BY <1>1, <1>3 DEF StatementsOK, Incoming
<1> QED
  BY <1>1, <1>4, <1>5

(* The end of a request, or its restart.                                   *)
LEMMA ClearedLocals ==
    ASSUME LocalsOK, StatementsOK, NEW r \in Requests,
           NEW label \in {"start", "failed"}, ClearLocals(r), Goto(r, label)
    PROVE  /\ LocalsOK' /\ StatementsOK'
           /\ pc'[r] = label
           /\ \A q \in Requests \ {r} : pc'[q] = pc[q]
<1>1. /\ pc' \in [Requests -> Labels]
      /\ pc'[r] = label
      /\ \A q \in Requests \ {r} : pc'[q] = pc[q]
  BY DEF LocalsOK, Goto, Labels
<1>2. seen' \in [Requests -> Values \cup {NoRow}]
  BY DEF LocalsOK, ClearLocals
<1>3. /\ index' \in [Requests -> Nat]
      /\ index'[r] = 1
      /\ \A q \in Requests \ {r} : index'[q] = index[q]
  BY DEF LocalsOK, ClearLocals
<1>4. LocalsOK'
  <2>1. \A q \in Requests : Len(Job[q].readings) \in Nat \ {0}
    BY ConstantFacts
  <2>2. ASSUME NEW q \in Requests PROVE index'[q] \in 1 .. Len(Job[q].readings)
    <3>1. CASE q = r
      BY <3>1, <1>3, <2>1
    <3>2. CASE q # r
      BY <3>2, <1>3 DEF LocalsOK
    <3> QED
      BY <3>1, <3>2
  <2> QED
    BY <1>1, <1>2, <1>3, <2>2 DEF LocalsOK
<1>5. StatementsOK'
  BY <1>1, <1>3 DEF StatementsOK, Incoming
<1> QED
  BY <1>1, <1>4, <1>5

(* A step to another label that leaves the reading a request is at.        *)
LEMMA GotoLocals ==
    ASSUME LocalsOK, StatementsOK, NEW r \in Requests, NEW label \in Labels,
           label = "upsert" => Incoming(r).value # Invalid,
           label = "flush" => Job[r].kind = "live",
           Goto(r, label), UNCHANGED index,
           seen' \in [Requests -> Values \cup {NoRow}]
    PROVE  /\ LocalsOK' /\ StatementsOK'
           /\ pc'[r] = label
           /\ \A q \in Requests \ {r} : pc'[q] = pc[q]
<1>1. /\ pc' \in [Requests -> Labels]
      /\ pc'[r] = label
      /\ \A q \in Requests \ {r} : pc'[q] = pc[q]
  BY DEF LocalsOK, Goto
<1>2. LocalsOK'
  BY <1>1 DEF LocalsOK
<1>3. StatementsOK'
  BY <1>1 DEF StatementsOK, Incoming
<1> QED
  BY <1>1, <1>2, <1>3

(* A step of r that leaves the tables alone and neither enters its         *)
(* transaction without a sensor nor leaves it.                             *)
LEMMA LocalStep ==
    ASSUME IInv, UNCHANGED tables, LocalsOK', StatementsOK', NEW r \in Requests,
           \A q \in Requests \ {r} : pc'[q] = pc[q],
           InTransaction(r) => InTransaction(r)',
           InTransaction(r)' => sensors[Mac(r)] \in {Committed, r}
    PROVE  IInv'
<1>1. RowsOK'
  BY DEF IInv, RowsOK, tables
<1>2. NoOrphans'
  BY DEF IInv, NoOrphans, tables
<1>3. Ownership'
  <2>1. ASSUME NEW q \in Requests, InTransaction(q)'
        PROVE  sensors'[Mac(q)] \in {Committed, q}
    BY <2>1 DEF IInv, Ownership, InTransaction, tables
  <2>2. ASSUME NEW q \in Requests, InTransaction(q)
        PROVE  InTransaction(q)'
    BY <2>2 DEF InTransaction
  <2>3. ASSUME NEW q \in Requests, NEW k \in Keys, RowOwner(k)' = q
        PROVE  InTransaction(q)' /\ k[1] = Mac(q)
    <3>1. RowOwner(k) = q
      BY <2>3 DEF RowOwner, tables
    <3> QED
      BY <3>1, <2>2 DEF IInv, Ownership
  <2>4. ASSUME NEW q \in Requests, NEW m \in Macs, sensors'[m] = q
        PROVE  InTransaction(q)' /\ m = Mac(q)
    <3>1. sensors[m] = q
      BY <2>4 DEF tables
    <3> QED
      BY <3>1, <2>2 DEF IInv, Ownership
  <2>5. \A q \in Requests : Mac(q)' = Mac(q)
    BY DEF Mac
  <2> QED
    BY <2>1, <2>3, <2>4, <2>5 DEF Ownership
<1> QED
  BY <1>1, <1>2, <1>3 DEF IInv

------------------------------------------------------------------------------
LEMMA StartIInv ==
    ASSUME IInv, NEW r \in Requests, StartBulk(r) \/ StartLive(r)
    PROVE  IInv'
<1>1. /\ UNCHANGED <<tables, index, seen>>
      /\ pc[r] = "start"
  BY DEF StartBulk, StartLive
<1>2. PICK label \in {"select", "refused", "flush"} :
         /\ Goto(r, label)
         /\ label = "select" => sensors[Mac(r)] = Committed
         /\ label = "flush" => Job[r].kind = "live"
  BY DEF StartBulk, StartLive
<1>3. seen' \in [Requests -> Values \cup {NoRow}]
  BY <1>1 DEF IInv, LocalsOK
<1>4. LocalsOK /\ StatementsOK
  BY DEF IInv
<1>5. /\ LocalsOK' /\ StatementsOK'
      /\ pc'[r] = label
      /\ \A q \in Requests \ {r} : pc'[q] = pc[q]
  <2>1. label \in Labels /\ label # "upsert"
    BY DEF Labels
  <2> QED
    BY <1>1, <1>2, <1>3, <1>4, <2>1, GotoLocals
<1>6. /\ InTransaction(r) => InTransaction(r)'
      /\ InTransaction(r)' => sensors[Mac(r)] \in {Committed, r}
  BY <1>1, <1>2, <1>5 DEF InTransaction
<1> QED
  BY <1>1, <1>5, <1>6, LocalStep

LEMMA LoseSensorRaceIInv ==
    ASSUME IInv, NEW r \in Requests, LoseSensorRace(r)
    PROVE  IInv'
<1>1. UNCHANGED <<tables, index, seen>> /\ pc[r] = "flush" /\ Goto(r, "raced")
  BY DEF LoseSensorRace
<1>2. seen' \in [Requests -> Values \cup {NoRow}] /\ LocalsOK /\ StatementsOK
  BY <1>1 DEF IInv, LocalsOK
<1>3. /\ LocalsOK' /\ StatementsOK'
      /\ pc'[r] = "raced"
      /\ \A q \in Requests \ {r} : pc'[q] = pc[q]
  <2>1. "raced" \in Labels
    BY DEF Labels
  <2> QED
    BY <1>1, <1>2, <2>1, GotoLocals
<1>4. /\ InTransaction(r) => InTransaction(r)'
      /\ InTransaction(r)' => sensors[Mac(r)] \in {Committed, r}
  BY <1>1, <1>3 DEF InTransaction
<1> QED
  BY <1>1, <1>3, <1>4, LocalStep

LEMMA SelectExistingIInv ==
    ASSUME IInv, NEW r \in Requests, SelectExisting(r)
    PROVE  IInv'
<1>1. /\ UNCHANGED <<tables, index>> /\ pc[r] = "select" /\ Goto(r, "upsert")
      /\ Incoming(r).value # Invalid
  BY DEF SelectExisting
<1>2. LocalsOK /\ StatementsOK /\ RowsOK
  BY DEF IInv
<1>3. seen' \in [Requests -> Values \cup {NoRow}]
  <2>1. Key(r) \in Keys
    BY <1>2, IncomingType
  <2>2. ASSUME VisibleTo(r, RowOwner(Key(r))) PROVE rows[Key(r)].value \in Values
    <3>1. rows[Key(r)] # NoRow
      BY <2>2, ConstantFacts DEF VisibleTo, RowOwner
    <3>2. rows[Key(r)] \in Row
      BY <2>1, <3>1, <1>2 DEF RowsOK
    <3> QED
      BY <3>2 DEF Row
  <2>3. (IF VisibleTo(r, RowOwner(Key(r))) THEN rows[Key(r)].value ELSE NoRow)
          \in Values \cup {NoRow}
    BY <2>2
  <2> QED
    BY <2>3, <1>2 DEF SelectExisting, LocalsOK
<1>4. /\ LocalsOK' /\ StatementsOK'
      /\ pc'[r] = "upsert"
      /\ \A q \in Requests \ {r} : pc'[q] = pc[q]
  <2>1. "upsert" \in Labels
    BY DEF Labels
  <2> QED
    BY <1>1, <1>2, <1>3, <2>1, GotoLocals
<1>5. /\ InTransaction(r) => InTransaction(r)'
      /\ InTransaction(r)' => sensors[Mac(r)] \in {Committed, r}
  BY <1>1, <1>4 DEF InTransaction, IInv, Ownership
<1> QED
  BY <1>1, <1>4, <1>5, LocalStep

(* A reading that is counted without touching the tables.                  *)
LEMMA RecordOnlyIInv ==
    ASSUME IInv, NEW r \in Requests, RejectReading(r) \/ BreakDeadlockBulk(r)
    PROVE  IInv'
<1>1. PICK answer \in {"invalid", "error"} : Record(r, answer)
  BY DEF RejectReading, BreakDeadlockBulk
<1>2. UNCHANGED tables /\ LocalsOK /\ StatementsOK
  BY DEF RejectReading, BreakDeadlockBulk, IInv
<1>3. /\ LocalsOK' /\ StatementsOK'
      /\ pc'[r] \in {"select", "commit"}
      /\ \A q \in Requests \ {r} : pc'[q] = pc[q]
  BY <1>1, <1>2, RecordLocals
<1>4. InTransaction(r)
  <2>1. CASE RejectReading(r)
    BY <2>1 DEF RejectReading, InTransaction
  <2>2. CASE BreakDeadlockBulk(r)
    <3>1. pc[r] \in {"flush", "upsert"} /\ Job[r].kind = "bulk"
      BY <2>2 DEF BreakDeadlockBulk, Blocked
    <3>2. pc[r] # "flush"
      BY <3>1, <1>2 DEF StatementsOK
    <3> QED
      BY <3>1, <3>2 DEF InTransaction
  <2> QED
    BY <2>1, <2>2
<1>5. InTransaction(r)' /\ sensors[Mac(r)] \in {Committed, r}
  BY <1>3, <1>4 DEF InTransaction, IInv, Ownership
<1> QED
  BY <1>2, <1>3, <1>5, LocalStep

LEMMA ResendIInv ==
    ASSUME IInv, NEW r \in Requests, Resend(r)
    PROVE  IInv'
<1>1. UNCHANGED tables /\ ClearLocals(r) /\ Goto(r, "start") /\ LocalsOK /\ StatementsOK
      /\ ~ InTransaction(r)
  BY DEF Resend, IInv, InTransaction
<1>2. /\ LocalsOK' /\ StatementsOK'
      /\ pc'[r] = "start"
      /\ \A q \in Requests \ {r} : pc'[q] = pc[q]
  BY <1>1, ClearedLocals
<1>3. ~ InTransaction(r)'
  BY <1>2 DEF InTransaction
<1> QED
  BY <1>1, <1>2, <1>3, LocalStep

LEMMA FlushSensorIInv ==
    ASSUME IInv, NEW r \in Requests, FlushSensor(r)
    PROVE  IInv'
<1>1. /\ UNCHANGED <<rows, index, seen>> /\ pc[r] = "flush" /\ Goto(r, "select")
      /\ sensors[Mac(r)] = NoRow
      /\ sensors' = [sensors EXCEPT ![Mac(r)] = r]
  BY DEF FlushSensor
<1>2. /\ LocalsOK /\ StatementsOK /\ RowsOK
      /\ seen' \in [Requests -> Values \cup {NoRow}]
  BY <1>1 DEF IInv, LocalsOK
<1>3. /\ LocalsOK' /\ StatementsOK'
      /\ pc'[r] = "select"
      /\ \A q \in Requests \ {r} : pc'[q] = pc[q]
  <2>1. "select" \in Labels
    BY DEF Labels
  <2> QED
    BY <1>1, <1>2, <2>1, GotoLocals
<1>4. /\ Mac(r) \in Macs
      /\ sensors'[Mac(r)] = r
      /\ \A m \in Macs \ {Mac(r)} : sensors'[m] = sensors[m]
  BY <1>1, <1>2, ConstantFacts DEF RowsOK
<1>5. RowsOK'
  BY <1>1, <1>2, <1>4 DEF RowsOK, Owners
<1>6. NoOrphans'
  <2> SUFFICES ASSUME NEW k \in Keys, rows[k] # NoRow
               PROVE  sensors'[k[1]] \in {Committed, rows[k].owner}
    BY <1>1 DEF NoOrphans
  <2>1. sensors[k[1]] \in {Committed, rows[k].owner} /\ rows[k].owner \in Owners
    BY <1>2 DEF IInv, NoOrphans, RowsOK, Row
  <2>2. k[1] # Mac(r)
    BY <2>1, <1>1, ConstantFacts DEF Owners
  <2>3. k[1] \in Macs
    BY DEF Keys
  <2> QED
    BY <2>1, <2>2, <2>3, <1>4
<1>7. Ownership'
  <2>1. ASSUME NEW q \in Requests, InTransaction(q)'
        PROVE  sensors'[Mac(q)] \in {Committed, q}
    <3>1. CASE q = r
      BY <3>1, <1>4
    <3>2. CASE q # r
      <4>1. sensors[Mac(q)] \in {Committed, q}
        BY <3>2, <2>1, <1>3 DEF IInv, Ownership, InTransaction
      <4>2. Mac(q) # Mac(r) /\ Mac(q) \in Macs
        BY <4>1, <1>1, ConstantFacts
      <4> QED
        BY <4>1, <4>2, <1>4
    <3> QED
      BY <3>1, <3>2
  <2>2. ASSUME NEW q \in Requests, InTransaction(q)
        PROVE  InTransaction(q)'
    BY <2>2, <1>1, <1>3 DEF InTransaction
  <2>3. ASSUME NEW q \in Requests, NEW k \in Keys, RowOwner(k)' = q
        PROVE  InTransaction(q)' /\ k[1] = Mac(q)
    <3>1. RowOwner(k) = q
      BY <2>3, <1>1 DEF RowOwner
    <3> QED
      BY <3>1, <2>2 DEF IInv, Ownership
  <2>4. ASSUME NEW q \in Requests, NEW m \in Macs, sensors'[m] = q
        PROVE  InTransaction(q)' /\ m = Mac(q)
    <3>1. CASE m = Mac(r)
      <4>1. q = r
        BY <3>1, <2>4, <1>4
      <4> QED
        BY <3>1, <4>1, <1>3 DEF InTransaction
    <3>2. CASE m # Mac(r)
      <4>1. sensors[m] = q
        BY <3>2, <2>4, <1>4
      <4> QED
        BY <4>1, <2>2 DEF IInv, Ownership
    <3> QED
      BY <3>1, <3>2
  <2>5. \A q \in Requests : Mac(q)' = Mac(q)
    BY DEF Mac
  <2> QED
    BY <2>1, <2>3, <2>4, <2>5 DEF Ownership
<1> QED
  BY <1>3, <1>5, <1>6, <1>7 DEF IInv

LEMMA UpsertIInv ==
    ASSUME IInv, NEW r \in Requests, Upsert(r)
    PROVE  IInv'
<1>1. /\ pc[r] = "upsert" /\ rows' = Upserted(r, Key(r)) /\ UNCHANGED sensors
      /\ Record(r, Classify(seen[r], Incoming(r).value))
  BY DEF Upsert
<1>2. LocalsOK /\ StatementsOK /\ RowsOK
  BY DEF IInv
<1>3. /\ LocalsOK' /\ StatementsOK'
      /\ pc'[r] \in {"select", "commit"}
      /\ \A q \in Requests \ {r} : pc'[q] = pc[q]
  BY <1>1, <1>2, RecordLocals
<1>4. Key(r) \in Keys /\ Key(r)[1] = Mac(r) /\ Incoming(r) \in Reading
  BY <1>2, IncomingType
<1>5. [value |-> Incoming(r).value, owner |-> r] \in Row
  <2>1. Incoming(r).value \in Values
    BY <1>1, <1>2, <1>4 DEF StatementsOK, Reading
  <2> QED
    BY <2>1 DEF Row, Owners
<1>6. /\ rows' \in [Keys -> Row \cup {NoRow}]
      /\ \A k \in Keys : \/ rows'[k] = rows[k]
                         \/ k = Key(r) /\ rows'[k] = [value |-> Incoming(r).value, owner |-> r]
  <2>1. CASE rows[Key(r)] # NoRow
    BY <2>1, <1>1, <1>2 DEF Upserted, RowsOK
  <2>2. CASE rows[Key(r)] = NoRow
    <3>1. rows' = [rows EXCEPT ![Key(r)] = [value |-> Incoming(r).value, owner |-> r]]
      BY <2>2, <1>1 DEF Upserted
    <3> QED
      BY <3>1, <1>2, <1>4, <1>5 DEF RowsOK
  <2> QED
    BY <2>1, <2>2
<1>7. RowsOK'
  BY <1>1, <1>2, <1>6 DEF RowsOK
<1>8. sensors[Mac(r)] \in {Committed, r} /\ InTransaction(r) /\ InTransaction(r)'
  BY <1>1, <1>3 DEF IInv, Ownership, InTransaction
<1>9. NoOrphans'
  <2> SUFFICES ASSUME NEW k \in Keys, rows'[k] # NoRow
               PROVE  sensors[k[1]] \in {Committed, rows'[k].owner}
    BY <1>1 DEF NoOrphans
  <2>1. CASE rows'[k] = rows[k]
    BY <2>1 DEF IInv, NoOrphans
  <2>2. CASE k = Key(r) /\ rows'[k] = [value |-> Incoming(r).value, owner |-> r]
    BY <2>2, <1>4, <1>8
  <2> QED
    BY <2>1, <2>2, <1>6
<1>10. Ownership'
  <2>1. ASSUME NEW q \in Requests
        PROVE  /\ InTransaction(q)' <=> InTransaction(q)
               /\ Mac(q)' = Mac(q)
    BY <1>3, <1>8 DEF InTransaction, Mac
  <2>2. ASSUME NEW q \in Requests, InTransaction(q)'
        PROVE  sensors'[Mac(q)] \in {Committed, q}
    BY <2>1, <2>2, <1>1 DEF IInv, Ownership
  <2>3. ASSUME NEW q \in Requests, NEW k \in Keys, RowOwner(k)' = q
        PROVE  InTransaction(q)' /\ k[1] = Mac(q)
    <3>1. CASE rows'[k] = rows[k]
      <4>1. RowOwner(k) = q
        BY <3>1, <2>3 DEF RowOwner
      <4> QED
        BY <4>1, <2>1 DEF IInv, Ownership
    <3>2. CASE k = Key(r) /\ rows'[k] = [value |-> Incoming(r).value, owner |-> r]
      <4>1. rows'[k] # NoRow /\ rows'[k].owner = r
        BY <3>2, <1>5, ConstantFacts
      <4>2. q = r
        BY <4>1, <2>3 DEF RowOwner
      <4> QED
        BY <4>2, <3>2, <1>4, <1>8
    <3> QED
      BY <3>1, <3>2, <1>6
  <2>4. ASSUME NEW q \in Requests, NEW m \in Macs, sensors'[m] = q
        PROVE  InTransaction(q)' /\ m = Mac(q)
    BY <2>1, <2>4, <1>1 DEF IInv, Ownership
  <2> QED
    BY <2>1, <2>2, <2>3, <2>4 DEF Ownership
<1> QED
  BY <1>3, <1>7, <1>9, <1>10 DEF IInv

(* The end of a transaction frees what it owns, and touches nothing else.  *)
LEMMA ReleaseFacts ==
    ASSUME RowsOK, NEW r \in Requests, Release(r)
    PROVE  /\ RowsOK'
           /\ \A k \in Keys : IF RowOwner(k) = r THEN rows'[k] = NoRow ELSE rows'[k] = rows[k]
           /\ \A m \in Macs : IF sensors[m] = r THEN sensors'[m] = NoRow
                             ELSE sensors'[m] = sensors[m]
<1>1. /\ rows' = [k \in Keys |-> IF RowOwner(k) = r THEN NoRow ELSE rows[k]]
      /\ sensors' = [m \in Macs |-> IF sensors[m] = r THEN NoRow ELSE sensors[m]]
  BY DEF Release, Owned
<1> QED
  BY <1>1 DEF RowsOK

LEMMA PublishFacts ==
    ASSUME RowsOK, NEW r \in Requests, Publish(r)
    PROVE  /\ RowsOK'
           /\ \A k \in Keys : IF RowOwner(k) = r
                             THEN rows'[k] = [rows[k] EXCEPT !.owner = Committed]
                             ELSE rows'[k] = rows[k]
           /\ \A m \in Macs : IF sensors[m] = r THEN sensors'[m] = Committed
                             ELSE sensors'[m] = sensors[m]
<1>1. /\ rows' = [k \in Keys |-> IF RowOwner(k) = r
                                 THEN [rows[k] EXCEPT !.owner = Committed] ELSE rows[k]]
      /\ sensors' = [m \in Macs |-> IF sensors[m] = r THEN Committed ELSE sensors[m]]
  BY DEF Publish, Owned
<1>2. ASSUME NEW k \in Keys, RowOwner(k) = r
      PROVE  [rows[k] EXCEPT !.owner = Committed] \in Row
  <2>1. rows[k] \in Row
    BY <1>2, ConstantFacts DEF RowsOK, RowOwner
  <2> QED
    BY <2>1 DEF Row, Owners
<1>3. rows' \in [Keys -> Row \cup {NoRow}]
  BY <1>1, <1>2 DEF RowsOK
<1>4. sensors' \in [Macs -> Owners \cup {NoRow}]
  BY <1>1 DEF RowsOK, Owners
<1> QED
  BY <1>1, <1>3, <1>4 DEF RowsOK

LEMMA AbortIInv ==
    ASSUME IInv, NEW r \in Requests, Abort(r)
    PROVE  IInv'
<1>1. Release(r) /\ ClearLocals(r) /\ Goto(r, "failed")
      /\ LocalsOK /\ StatementsOK /\ RowsOK
  BY DEF Abort, IInv
<1>2. /\ LocalsOK' /\ StatementsOK'
      /\ pc'[r] = "failed"
      /\ \A q \in Requests \ {r} : pc'[q] = pc[q]
  BY <1>1, ClearedLocals
<1>3. /\ RowsOK'
      /\ \A k \in Keys : IF RowOwner(k) = r THEN rows'[k] = NoRow ELSE rows'[k] = rows[k]
      /\ \A m \in Macs : IF sensors[m] = r THEN sensors'[m] = NoRow
                        ELSE sensors'[m] = sensors[m]
  BY <1>1, ReleaseFacts
<1>4. NoOrphans'
  <2> SUFFICES ASSUME NEW k \in Keys, rows'[k] # NoRow
               PROVE  sensors'[k[1]] \in {Committed, rows'[k].owner}
    BY DEF NoOrphans
  <2>1. RowOwner(k) # r /\ rows'[k] = rows[k] /\ rows[k] # NoRow
    BY <1>3
  <2>2. rows[k].owner # r /\ sensors[k[1]] \in {Committed, rows[k].owner}
    BY <2>1 DEF RowOwner, IInv, NoOrphans
  <2>3. sensors[k[1]] # r /\ k[1] \in Macs
    BY <2>2, ConstantFacts DEF Keys
  <2> QED
    BY <2>1, <2>2, <2>3, <1>3
<1>5. Ownership'
  <2>1. ASSUME NEW q \in Requests, q # r, InTransaction(q) PROVE InTransaction(q)'
    BY <2>1, <1>2 DEF InTransaction
  <2>2. ASSUME NEW q \in Requests, InTransaction(q)'
        PROVE  sensors'[Mac(q)] \in {Committed, q}
    <3>1. q # r /\ InTransaction(q)
      BY <2>2, <1>2 DEF InTransaction
    <3>2. sensors[Mac(q)] \in {Committed, q}
      BY <3>1 DEF IInv, Ownership
    <3> QED
      BY <3>1, <3>2, <1>3, ConstantFacts
  <2>3. ASSUME NEW q \in Requests, NEW k \in Keys, RowOwner(k)' = q
        PROVE  InTransaction(q)' /\ k[1] = Mac(q)
    <3>1. rows'[k] # NoRow
      BY <2>3, ConstantFacts DEF RowOwner
    <3>2. RowOwner(k) # r /\ rows'[k] = rows[k]
      BY <3>1, <1>3
    <3>3. RowOwner(k) = q /\ q # r
      BY <3>2, <2>3 DEF RowOwner
    <3> QED
      BY <3>3, <2>1 DEF IInv, Ownership
  <2>4. ASSUME NEW q \in Requests, NEW m \in Macs, sensors'[m] = q
        PROVE  InTransaction(q)' /\ m = Mac(q)
    <3>1. sensors[m] = q /\ q # r
      BY <2>4, <1>3, ConstantFacts
    <3> QED
      BY <3>1, <2>1 DEF IInv, Ownership
  <2>5. \A q \in Requests : Mac(q)' = Mac(q)
    BY DEF Mac
  <2> QED
    BY <2>2, <2>3, <2>4, <2>5 DEF Ownership
<1> QED
  BY <1>2, <1>3, <1>4, <1>5 DEF IInv

LEMMA CommitIInv ==
    ASSUME IInv, NEW r \in Requests, Commit(r)
    PROVE  IInv'
<1>1. Publish(r) /\ Goto(r, "done") /\ UNCHANGED <<index, seen>> /\ InTransaction(r)
      /\ LocalsOK /\ StatementsOK /\ RowsOK
      /\ seen' \in [Requests -> Values \cup {NoRow}]
  BY DEF Commit, IInv, InTransaction, LocalsOK
<1>2. /\ LocalsOK' /\ StatementsOK'
      /\ pc'[r] = "done"
      /\ \A q \in Requests \ {r} : pc'[q] = pc[q]
  <2>1. "done" \in Labels
    BY DEF Labels
  <2> QED
    BY <1>1, <2>1, GotoLocals
<1>3. /\ RowsOK'
      /\ \A k \in Keys : IF RowOwner(k) = r
                        THEN rows'[k] = [rows[k] EXCEPT !.owner = Committed]
                        ELSE rows'[k] = rows[k]
      /\ \A m \in Macs : IF sensors[m] = r THEN sensors'[m] = Committed
                        ELSE sensors'[m] = sensors[m]
  BY <1>1, PublishFacts
<1>4. \A k \in Keys : RowOwner(k) = r =>
         rows[k] \in Row /\ rows'[k] # NoRow /\ rows'[k].owner = Committed
  <2> SUFFICES ASSUME NEW k \in Keys, RowOwner(k) = r
               PROVE  rows[k] \in Row /\ rows'[k] # NoRow /\ rows'[k].owner = Committed
    OBVIOUS
  <2>1. rows[k] \in Row
    BY <1>1, ConstantFacts DEF RowsOK, RowOwner
  <2>2. rows'[k] = [rows[k] EXCEPT !.owner = Committed]
    BY <1>3
  <2>3. rows'[k] \in Row /\ rows'[k].owner = Committed
    BY <2>1, <2>2 DEF Row, Owners
  <2> QED
    BY <2>1, <2>3, ConstantFacts
<1>5. NoOrphans'
  <2> SUFFICES ASSUME NEW k \in Keys, rows'[k] # NoRow
               PROVE  sensors'[k[1]] \in {Committed, rows'[k].owner}
    BY DEF NoOrphans
  <2>0. k[1] \in Macs
    BY DEF Keys
  <2>1. CASE RowOwner(k) = r
    <3>1. rows[k] # NoRow /\ rows[k].owner = r
      BY <2>1, ConstantFacts DEF RowOwner
    <3>2. sensors[k[1]] \in {Committed, r}
      BY <3>1 DEF IInv, NoOrphans
    <3> QED
      BY <3>2, <2>0, <1>3
  <2>2. CASE RowOwner(k) # r
    <3>1. rows'[k] = rows[k] /\ rows[k] # NoRow
      BY <2>2, <1>3
    <3>2. rows[k].owner # r /\ sensors[k[1]] \in {Committed, rows[k].owner}
      BY <3>1, <2>2 DEF RowOwner, IInv, NoOrphans
    <3> QED
      BY <3>1, <3>2, <2>0, <1>3
  <2> QED
    BY <2>1, <2>2
<1>6. Ownership'
  <2>1. ASSUME NEW q \in Requests, q # r, InTransaction(q) PROVE InTransaction(q)'
    BY <2>1, <1>2 DEF InTransaction
  <2>2. ASSUME NEW q \in Requests, InTransaction(q)'
        PROVE  sensors'[Mac(q)] \in {Committed, q}
    <3>1. q # r /\ InTransaction(q)
      BY <2>2, <1>2 DEF InTransaction
    <3>2. sensors[Mac(q)] \in {Committed, q}
      BY <3>1 DEF IInv, Ownership
    <3> QED
      BY <3>1, <3>2, <1>3, ConstantFacts
  <2>3. ASSUME NEW q \in Requests, NEW k \in Keys, RowOwner(k)' = q
        PROVE  InTransaction(q)' /\ k[1] = Mac(q)
    <3>1. RowOwner(k) # r
      BY <2>3, <1>4, ConstantFacts DEF RowOwner
    <3>2. rows'[k] = rows[k]
      BY <3>1, <1>3
    <3>3. RowOwner(k) = q /\ q # r
      BY <3>1, <3>2, <2>3 DEF RowOwner
    <3> QED
      BY <3>3, <2>1 DEF IInv, Ownership
  <2>4. ASSUME NEW q \in Requests, NEW m \in Macs, sensors'[m] = q
        PROVE  InTransaction(q)' /\ m = Mac(q)
    <3>1. sensors[m] = q /\ q # r
      BY <2>4, <1>3, ConstantFacts
    <3> QED
      BY <3>1, <2>1 DEF IInv, Ownership
  <2>5. \A q \in Requests : Mac(q)' = Mac(q)
    BY DEF Mac
  <2> QED
    BY <2>2, <2>3, <2>4, <2>5 DEF Ownership
<1> QED
  BY <1>2, <1>3, <1>5, <1>6 DEF IInv

------------------------------------------------------------------------------
LEMMA StutterIInv ==
    ASSUME IInv, UNCHANGED vars
    PROVE  IInv'
<1>1. RowsOK' /\ LocalsOK'
  BY DEF IInv, vars, tables, RowsOK, LocalsOK
<1>2. StatementsOK'
  BY DEF IInv, vars, StatementsOK, Incoming
<1>3. NoOrphans'
  BY DEF IInv, vars, tables, NoOrphans
<1>4. Ownership'
  BY DEF IInv, vars, tables, Ownership, InTransaction, RowOwner, Mac
<1> QED
  BY <1>1, <1>2, <1>3, <1>4 DEF IInv

LEMMA NextIInv ==
    ASSUME IInv, [Next]_vars
    PROVE  IInv'
<1>1. ASSUME NEW r \in Requests, Handle(r) PROVE IInv'
  <2>1. CASE StartBulk(r) \/ StartLive(r)
    BY <2>1, StartIInv
  <2>2. CASE FlushSensor(r)
    BY <2>2, FlushSensorIInv
  <2>3. CASE LoseSensorRace(r)
    BY <2>3, LoseSensorRaceIInv
  <2>4. CASE RejectReading(r) \/ BreakDeadlockBulk(r)
    BY <2>4, RecordOnlyIInv
  <2>5. CASE SelectExisting(r)
    BY <2>5, SelectExistingIInv
  <2>6. CASE Upsert(r)
    BY <2>6, UpsertIInv
  <2>7. CASE Commit(r)
    BY <2>7, CommitIInv
  <2> QED
    BY <1>1, <2>1, <2>2, <2>3, <2>4, <2>5, <2>6, <2>7 DEF Handle
<1>2. ASSUME NEW r \in Requests, Abort(r) PROVE IInv'
  BY <1>2, AbortIInv
<1>3. ASSUME NEW r \in Requests, Resend(r) PROVE IInv'
  BY <1>3, ResendIInv
<1>4. CASE UNCHANGED vars
  BY <1>4, StutterIInv
<1> QED
  BY <1>1, <1>2, <1>3, <1>4 DEF Next

LEMMA SpecIInv == Spec => []IInv
<1>1. Init => IInv
  BY InitIInv
<1>2. IInv /\ [Next]_vars => IInv'
  BY NextIInv
<1> QED
  BY <1>1, <1>2, PTL DEF Spec

------------------------------------------------------------------------------
(* The row locks: whoever has inserted a row has locked it, and locks are  *)
(* held in transactions only.                                              *)
LocksOK ==
    /\ locks \in [Keys -> Requests \cup {NoRow}]
    /\ \A k \in Keys : RowOwner(k) \in Requests => locks[k] = RowOwner(k)
    /\ \A r \in Requests, k \in Keys : locks[k] = r => InTransaction(r)

LEMMA InitLocks ==
    ASSUME Init PROVE LocksOK
BY ConstantFacts DEF Init, LocksOK, RowOwner

(* A step that leaves the tables of readings alone and ends no transaction. *)
LEMMA QuietLocks ==
    ASSUME LocksOK, UNCHANGED <<rows, locks>>,
           \A q \in Requests : InTransaction(q) => InTransaction(q)'
    PROVE  LocksOK'
BY DEF LocksOK, RowOwner

LEMMA UpsertLocks ==
    ASSUME IInv, LocksOK, NEW r \in Requests, Upsert(r)
    PROVE  LocksOK'
<1>1. /\ pc[r] = "upsert" /\ ~ Blocked(r) /\ rows' = Upserted(r, Key(r))
      /\ locks' = [locks EXCEPT ![Key(r)] = r]
      /\ Record(r, Classify(seen[r], Incoming(r).value))
  BY DEF Upsert
<1>2. RowsOK /\ LocalsOK /\ StatementsOK
  BY DEF IInv
<1>3. PICK k \in Keys : k = Key(r)
  BY <1>2, IncomingType
<1>4. \A q \in Requests : InTransaction(q) => InTransaction(q)'
  BY <1>1, <1>2, RecordLocals DEF InTransaction
<1>5. InTransaction(r)'
  BY <1>1, <1>4 DEF InTransaction
<1>6. /\ locks' \in [Keys -> Requests \cup {NoRow}]
      /\ locks'[k] = r
      /\ \A j \in Keys \ {k} : locks'[j] = locks[j]
  BY <1>1, <1>3 DEF LocksOK
<1>7. \A j \in Keys \ {k} : rows'[j] = rows[j]
  <2>1. rows' = rows \/ \E row : rows' = [rows EXCEPT ![k] = row]
    BY <1>1, <1>3 DEF Upserted
  <2> QED
    BY <2>1, <1>2 DEF RowsOK
<1>8. RowOwner(k)' \in Requests => RowOwner(k)' = r
  <2>1. CASE rows[k] = NoRow
    <3>1. rows'[k] = [value |-> Incoming(r).value, owner |-> r]
      BY <2>1, <1>1, <1>2, <1>3 DEF Upserted, RowsOK
    <3> QED
      BY <3>1, ConstantFacts DEF RowOwner
  <2>2. CASE rows[k] # NoRow
    <3>1. RowOwner(k)' = RowOwner(k)
      BY <2>2, <1>1, <1>3 DEF Upserted, RowOwner
    <3>2. locks[k] \notin Requests \ {r}
      BY <1>1, <1>3 DEF Blocked, Target, Uncommitted
    <3> QED
      BY <3>1, <3>2 DEF LocksOK
  <2> QED
    BY <2>1, <2>2
<1>9. ASSUME NEW j \in Keys, RowOwner(j)' \in Requests PROVE locks'[j] = RowOwner(j)'
  <2>1. CASE j = k
    BY <2>1, <1>6, <1>8, <1>9
  <2>2. CASE j # k
    BY <2>2, <1>6, <1>7, <1>9 DEF LocksOK, RowOwner
  <2> QED
    BY <2>1, <2>2
<1>10. ASSUME NEW q \in Requests, NEW j \in Keys, locks'[j] = q PROVE InTransaction(q)'
  <2>1. CASE j = k
    BY <2>1, <1>5, <1>6, <1>10
  <2>2. CASE j # k
    BY <2>2, <1>4, <1>6, <1>10 DEF LocksOK
  <2> QED
    BY <2>1, <2>2
<1> QED
  BY <1>6, <1>9, <1>10 DEF LocksOK

(* The end of a transaction: no row is left to r, and no lock.             *)
LEMMA EndLocks ==
    ASSUME LocksOK, NEW r \in Requests, Unlock(r),
           \A k \in Keys : IF RowOwner(k) = r THEN RowOwner(k)' \notin Requests
                           ELSE rows'[k] = rows[k],
           \A q \in Requests \ {r} : pc'[q] = pc[q]
    PROVE  LocksOK'
<1>1. /\ locks' \in [Keys -> Requests \cup {NoRow}]
      /\ \A k \in Keys : locks'[k] = IF locks[k] = r THEN NoRow ELSE locks[k]
  BY DEF Unlock, LocksOK
<1>2. ASSUME NEW k \in Keys, RowOwner(k)' \in Requests PROVE locks'[k] = RowOwner(k)'
  <2>1. RowOwner(k) # r /\ RowOwner(k)' = RowOwner(k)
    BY <1>2 DEF RowOwner
  <2>2. locks[k] = RowOwner(k)
    BY <1>2, <2>1 DEF LocksOK
  <2> QED
    BY <2>1, <2>2, <1>1
<1>3. ASSUME NEW q \in Requests, NEW k \in Keys, locks'[k] = q PROVE InTransaction(q)'
  <2>1. locks[k] = q /\ q # r
    BY <1>1, <1>3, ConstantFacts
  <2> QED
    BY <2>1 DEF LocksOK, InTransaction
<1> QED
  BY <1>1, <1>2, <1>3 DEF LocksOK

LEMMA NextLocks ==
    ASSUME IInv, LocksOK, [Next]_vars
    PROVE  LocksOK'
<1>0. RowsOK /\ LocalsOK /\ StatementsOK
  BY DEF IInv
<1>1. ASSUME NEW r \in Requests,
             \/ StartBulk(r) \/ StartLive(r) \/ FlushSensor(r) \/ LoseSensorRace(r)
             \/ SelectExisting(r) \/ Resend(r)
      PROVE  LocksOK'
  <2>1. UNCHANGED <<rows, locks>>
    BY <1>1 DEF StartBulk, StartLive, FlushSensor, LoseSensorRace, SelectExisting, Resend, tables
  <2>2. \A q \in Requests : InTransaction(q) => InTransaction(q)'
    BY <1>0, <1>1 DEF StartBulk, StartLive, FlushSensor, LoseSensorRace, SelectExisting, Resend,
                      Goto, InTransaction, LocalsOK
  <2> QED
    BY <2>1, <2>2, QuietLocks
<1>2. ASSUME NEW r \in Requests, RejectReading(r) \/ BreakDeadlockBulk(r) PROVE LocksOK'
  <2>1. UNCHANGED <<rows, locks>> /\ \E answer : Record(r, answer)
    BY <1>2 DEF RejectReading, BreakDeadlockBulk, tables
  <2>2. \A q \in Requests : InTransaction(q) => InTransaction(q)'
    BY <1>0, <2>1, RecordLocals DEF InTransaction
  <2> QED
    BY <2>1, <2>2, QuietLocks
<1>3. ASSUME NEW r \in Requests, Upsert(r) PROVE LocksOK'
  BY <1>3, UpsertLocks
<1>4. ASSUME NEW r \in Requests, Commit(r) PROVE LocksOK'
  <2>1. Publish(r) /\ Unlock(r) /\ \A q \in Requests \ {r} : pc'[q] = pc[q]
    BY <1>0, <1>4 DEF Commit, Publish, Goto, LocalsOK
  <2>2. ASSUME NEW k \in Keys, RowOwner(k) = r PROVE RowOwner(k)' \notin Requests
    <3>1. rows[k] \in Row
      BY <1>0, <2>2, ConstantFacts DEF RowsOK, RowOwner
    <3>2. rows'[k] = [rows[k] EXCEPT !.owner = Committed]
      BY <1>0, <2>1, <2>2, PublishFacts
    <3>3. rows'[k] \in Row /\ rows'[k].owner = Committed
      BY <3>1, <3>2 DEF Row, Owners
    <3> QED
      BY <3>3, ConstantFacts DEF RowOwner
  <2>3. \A k \in Keys : RowOwner(k) # r => rows'[k] = rows[k]
    BY <1>0, <2>1, PublishFacts
  <2> QED
    BY <2>1, <2>2, <2>3, EndLocks
<1>5. ASSUME NEW r \in Requests, Abort(r) PROVE LocksOK'
  <2>1. Release(r) /\ Unlock(r) /\ \A q \in Requests \ {r} : pc'[q] = pc[q]
    BY <1>0, <1>5 DEF Abort, Release, Goto, LocalsOK
  <2>2. \A k \in Keys : IF RowOwner(k) = r THEN rows'[k] = NoRow ELSE rows'[k] = rows[k]
    BY <1>0, <2>1, ReleaseFacts
  <2>3. \A k \in Keys : IF RowOwner(k) = r THEN RowOwner(k)' \notin Requests
                        ELSE rows'[k] = rows[k]
    BY <2>2, ConstantFacts DEF RowOwner
  <2> QED
    BY <2>1, <2>3, EndLocks
<1>6. CASE UNCHANGED vars
  BY <1>6, QuietLocks DEF vars, tables, InTransaction
<1> QED
  BY <1>1, <1>2, <1>3, <1>4, <1>5, <1>6 DEF Next, Handle

LEMMA SpecLocks == Spec => []LocksOK
<1>1. Init => LocksOK
  BY InitLocks
<1>2. IInv /\ LocksOK /\ [Next]_vars => LocksOK'
  BY NextLocks
<1> QED
  BY <1>1, <1>2, SpecIInv, PTL DEF Spec

------------------------------------------------------------------------------
(* Every variable of the ingestion keeps its type.                         *)
THEOREM IngestTypeOK == Spec => []TypeOK
<1>1. IInv /\ LocksOK => TypeOK
  BY DEF IInv, RowsOK, LocalsOK, LocksOK, TypeOK, Row
<1> QED
  BY <1>1, SpecIInv, SpecLocks, PTL

(* Whoever sees a reading sees its sensor (ensure_sensor flushes before    *)
(* the upsert, and both are committed or rolled back together).            *)
THEOREM IngestNoOrphans == Spec => []NoOrphans
<1>1. IInv => NoOrphans
  BY DEF IInv
<1> QED
  BY <1>1, SpecIInv, PTL

(* A request that has not begun or is over keeps nobody waiting, neither   *)
(* by a row nor by a lock (get_db ends the transaction on every path).     *)
THEOREM IngestNothingHeldAfterwards == Spec => []NothingHeldAfterwards
<1>1. IInv /\ LocksOK => NothingHeldAfterwards
  BY DEF IInv, Ownership, LocksOK, InTransaction, NothingHeldAfterwards, Owned
<1> QED
  BY <1>1, SpecIInv, SpecLocks, PTL

(* A committed reading is never changed or removed, by any statement of    *)
(* any transaction.                                                        *)
THEOREM IngestFirstWriteWins == Spec => FirstWriteWins
<1> DEFINE Kept == \A k \in Keys : RowOwner(k) = Committed => rows'[k] = rows[k]
<1>1. IInv /\ [Next]_vars => Kept
  <2> SUFFICES ASSUME IInv, [Next]_vars, NEW k \in Keys, RowOwner(k) = Committed
               PROVE  rows'[k] = rows[k]
    OBVIOUS
  <2>0. RowsOK /\ rows[k] # NoRow
    BY ConstantFacts DEF IInv, RowOwner
  <2>1. CASE UNCHANGED rows
    BY <2>1
  <2>2. ASSUME NEW r \in Requests, Upsert(r) PROVE rows'[k] = rows[k]
    <3>1. rows' = Upserted(r, Key(r))
      BY <2>2 DEF Upsert
    <3>2. CASE rows[Key(r)] # NoRow
      BY <3>1, <3>2 DEF Upserted
    <3>3. CASE rows[Key(r)] = NoRow
      <4>1. k # Key(r) /\ rows' = [rows EXCEPT ![Key(r)] =
                                      [value |-> Incoming(r).value, owner |-> r]]
        BY <2>0, <3>1, <3>3 DEF Upserted
      <4> QED
        BY <4>1, <2>0 DEF RowsOK
    <3> QED
      BY <3>2, <3>3
  <2>3. ASSUME NEW r \in Requests, Commit(r) PROVE rows'[k] = rows[k]
    BY <2>0, <2>3, PublishFacts, ConstantFacts DEF Commit
  <2>4. ASSUME NEW r \in Requests, Abort(r) PROVE rows'[k] = rows[k]
    BY <2>0, <2>4, ReleaseFacts, ConstantFacts DEF Abort
  <2> QED
    BY <2>1, <2>2, <2>3, <2>4
    DEF Next, Handle, StartBulk, StartLive, FlushSensor, LoseSensorRace, RejectReading,
        SelectExisting, BreakDeadlockBulk, Resend, vars, tables
<1> QED
  BY <1>1, SpecIInv, PTL DEF Spec, FirstWriteWins

------------------------------------------------------------------------------
(* The answers.  A row that a request has read or written stays visible to *)
(* it with the same value until its transaction ends; so what it answered  *)
(* about earlier readings is still true when it commits.                   *)
Answer == {"created", "duplicate", "conflict", "invalid", "error"}

KeyAt(q, i) == <<Mac(q), Job[q].readings[i].at>>

AnswerOK(q, i) ==
    answers[q][i] \in {"created", "duplicate", "conflict"} =>
        /\ VisibleTo(q, RowOwner(KeyAt(q, i)))
        /\ answers[q][i] = "duplicate" => rows[KeyAt(q, i)].value = Job[q].readings[i].value
        /\ answers[q][i] = "conflict" => rows[KeyAt(q, i)].value # Job[q].readings[i].value

LengthsOK ==
    \A q \in Requests :
        /\ Len(answers[q]) <= Len(Job[q].readings)
        /\ pc[q] \in {"start", "flush", "select", "upsert"} =>
              Len(answers[q]) = index[q] - 1

AnswersOK ==
    /\ answers \in [Requests -> Seq(Answer)]
    /\ \A q \in Requests : \A i \in 1 .. Len(answers[q]) : AnswerOK(q, i)

SeenOK ==
    \A q \in Requests : pc[q] = "upsert" /\ seen[q] # NoRow =>
        VisibleTo(q, RowOwner(Key(q))) /\ rows[Key(q)].value = seen[q]

AInv == LengthsOK /\ AnswersOK /\ SeenOK

LEMMA InitAInv ==
    ASSUME Init PROVE AInv
<1>1. \A q \in Requests : Len(answers[q]) = 0
  BY EmptySeq DEF Init
<1>2. LengthsOK
  BY <1>1, ConstantFacts DEF Init, LengthsOK
<1>3. AnswersOK
  BY <1>1, EmptySeq DEF Init, AnswersOK
<1>4. SeenOK
  BY DEF Init, SeenOK
<1> QED
  BY <1>2, <1>3, <1>4 DEF AInv

LEMMA KeyAtType ==
    ASSUME NEW q \in Requests, NEW i \in 1 .. Len(Job[q].readings)
    PROVE  KeyAt(q, i) \in Keys
<1>1. Job[q].readings[i] \in Reading
  BY ConstantFacts, ElementOfSeq
<1> QED
  BY <1>1, ConstantFacts DEF KeyAt, Keys, Reading

(* Only the end of q's own transaction can take a row from its sight.      *)
LEMMA VisibleKept ==
    ASSUME IInv, [Next]_vars, NEW q \in Requests, ~ Abort(q),
           NEW k \in Keys, VisibleTo(q, RowOwner(k))
    PROVE  VisibleTo(q, RowOwner(k))' /\ rows'[k].value = rows[k].value
<1>0. RowsOK /\ rows[k] # NoRow /\ rows[k] \in Row
  BY ConstantFacts DEF IInv, RowOwner, VisibleTo, RowsOK
<1>1. CASE rows'[k] = rows[k]
  BY <1>1 DEF VisibleTo, RowOwner
<1>2. ASSUME NEW r \in Requests, Upsert(r) PROVE rows'[k] = rows[k]
  <2>1. rows' = Upserted(r, Key(r))
    BY <1>2 DEF Upsert
  <2>2. CASE rows[Key(r)] # NoRow
    BY <2>1, <2>2 DEF Upserted
  <2>3. CASE rows[Key(r)] = NoRow
    <3>1. k # Key(r) /\ rows' = [rows EXCEPT ![Key(r)] =
                                    [value |-> Incoming(r).value, owner |-> r]]
      BY <1>0, <2>1, <2>3 DEF Upserted
    <3> QED
      BY <3>1, <1>0 DEF RowsOK
  <2> QED
    BY <2>2, <2>3
<1>3. ASSUME NEW r \in Requests, Commit(r)
      PROVE  VisibleTo(q, RowOwner(k))' /\ rows'[k].value = rows[k].value
  <2>1. IF RowOwner(k) = r THEN rows'[k] = [rows[k] EXCEPT !.owner = Committed]
        ELSE rows'[k] = rows[k]
    BY <1>0, <1>3, PublishFacts DEF Commit
  <2>2. CASE RowOwner(k) = r
    <3>1. rows'[k] \in Row /\ rows'[k].owner = Committed /\ rows'[k].value = rows[k].value
      BY <1>0, <2>1, <2>2 DEF Row, Owners
    <3> QED
      BY <3>1, ConstantFacts DEF VisibleTo, RowOwner
  <2> QED
    BY <1>1, <2>1, <2>2
<1>4. ASSUME NEW r \in Requests, Abort(r) PROVE rows'[k] = rows[k]
  <2>1. RowOwner(k) # r
    BY <1>4, ConstantFacts DEF VisibleTo
  <2> QED
    BY <1>0, <1>4, <2>1, ReleaseFacts DEF Abort
<1>5. CASE UNCHANGED rows
  BY <1>1, <1>5
<1> QED
  BY <1>1, <1>2, <1>3, <1>4, <1>5
  DEF Next, Handle, StartBulk, StartLive, FlushSensor, LoseSensorRace, RejectReading,
      SelectExisting, BreakDeadlockBulk, Resend, vars, tables

(* What a request answered so far, and what it has seen, outlives any step *)
(* but its own restart.                                                    *)
LEMMA AnswersKept ==
    ASSUME IInv, AInv, [Next]_vars, NEW q \in Requests, ~ Abort(q)
    PROVE  /\ \A i \in 1 .. Len(answers[q]) :
                answers'[q][i] = answers[q][i] => AnswerOK(q, i)'
           /\ UNCHANGED <<pc[q], index[q], seen[q]>> /\ pc[q] = "upsert" /\ seen[q] # NoRow =>
                VisibleTo(q, RowOwner(Key(q)))' /\ rows'[Key(q)].value = seen[q]
<1>1. ASSUME NEW i \in 1 .. Len(answers[q]), answers'[q][i] = answers[q][i]
      PROVE  AnswerOK(q, i)'
  <2>1. AnswerOK(q, i) /\ i \in 1 .. Len(Job[q].readings)
    <3>1. Len(answers[q]) \in Nat /\ Len(answers[q]) <= Len(Job[q].readings)
      BY LenProperties DEF AInv, AnswersOK, LengthsOK
    <3> QED
      BY <3>1, ConstantFacts DEF AInv, AnswersOK
  <2>2. KeyAt(q, i) \in Keys
    BY <2>1, KeyAtType
  <2>3. VisibleTo(q, RowOwner(KeyAt(q, i))) =>
           VisibleTo(q, RowOwner(KeyAt(q, i)))' /\
           rows'[KeyAt(q, i)].value = rows[KeyAt(q, i)].value
    <3> DEFINE k == KeyAt(q, i)
    <3>1. k \in Keys
      BY <2>2
    <3>2. KeyAt(q, i)' = k
      BY DEF KeyAt, Mac
    <3> HIDE DEF k
    <3>3. VisibleTo(q, RowOwner(k)) =>
            VisibleTo(q, RowOwner(k))' /\ rows'[k].value = rows[k].value
      BY <3>1, VisibleKept
    <3> QED
      BY <3>2, <3>3 DEF k, VisibleTo, RowOwner, KeyAt, Mac
  <2> QED
    BY <1>1, <2>1, <2>3 DEF AnswerOK, KeyAt, Mac
<1>2. ASSUME UNCHANGED <<pc[q], index[q], seen[q]>>, pc[q] = "upsert", seen[q] # NoRow
      PROVE  VisibleTo(q, RowOwner(Key(q)))' /\ rows'[Key(q)].value = seen[q]
  <2>1. PICK k \in Keys : k = Key(q)
    BY IncomingType DEF IInv
  <2>2. VisibleTo(q, RowOwner(k)) /\ rows[k].value = seen[q]
    BY <1>2, <2>1 DEF AInv, SeenOK
  <2>3. Key(q)' = k
    BY <1>2, <2>1 DEF Key, Incoming, Mac
  <2>4. VisibleTo(q, RowOwner(k))' /\ rows'[k].value = rows[k].value
    BY <2>2, VisibleKept
  <2>5. VisibleTo(q, RowOwner(Key(q)))'
    BY <2>3, <2>4 DEF VisibleTo, RowOwner
  <2> QED
    BY <2>1, <2>2, <2>4, <2>5
<1> QED
  BY <1>1, <1>2

(* A step that leaves the answers and the places of all requests.          *)
LEMMA QuietStep ==
    ASSUME IInv, AInv, [Next]_vars, \A q \in Requests : ~ Abort(q),
           UNCHANGED <<answers, index>>, NEW r \in Requests,
           \A q \in Requests \ {r} : pc'[q] = pc[q] /\ seen'[q] = seen[q],
           pc'[r] \in {"start", "flush", "select", "upsert"} =>
               pc[r] \in {"start", "flush", "select", "upsert"},
           pc'[r] = "upsert" /\ seen'[r] # NoRow =>
               VisibleTo(r, RowOwner(Key(r)))' /\ rows'[Key(r)].value = seen'[r]
    PROVE  AInv'
<1>1. LengthsOK'
  BY DEF AInv, LengthsOK
<1>2. AnswersOK'
  <2>1. \A q \in Requests : \A i \in 1 .. Len(answers[q]) : AnswerOK(q, i)'
    BY AnswersKept
  <2> QED
    BY <2>1 DEF AInv, AnswersOK
<1>3. SeenOK'
  <2> SUFFICES ASSUME NEW q \in Requests, pc'[q] = "upsert", seen'[q] # NoRow
               PROVE  VisibleTo(q, RowOwner(Key(q)))' /\ rows'[Key(q)'].value = seen'[q]
    BY DEF SeenOK
  <2>1. Key(q)' = Key(q)
    BY DEF Key, Incoming, Mac
  <2>2. CASE q = r
    BY <2>1, <2>2
  <2>3. CASE q # r
    <3>1. UNCHANGED <<pc[q], index[q], seen[q]>> /\ pc[q] = "upsert" /\ seen[q] # NoRow
      BY <2>3
    <3> QED
      BY <2>1, <3>1, AnswersKept
  <2> QED
    BY <2>2, <2>3
<1> QED
  BY <1>1, <1>2, <1>3 DEF AInv

(* A reading that is answered.                                             *)
LEMMA RecordStep ==
    ASSUME IInv, AInv, [Next]_vars, \A q \in Requests : ~ Abort(q),
           NEW r \in Requests, NEW answer \in Answer, Record(r, answer),
           pc[r] \in {"select", "upsert"},
           NEW k \in Keys, k = Key(r),
           answer \in {"created", "duplicate", "conflict"} =>
               /\ VisibleTo(r, RowOwner(k))'
               /\ answer = "duplicate" => rows'[k].value = Incoming(r).value
               /\ answer = "conflict" => rows'[k].value # Incoming(r).value
    PROVE  AInv'
<1>a. PICK n \in Nat : n = Len(answers[r])
  BY LenProperties DEF AInv, AnswersOK
<1>0. /\ answers \in [Requests -> Seq(Answer)] /\ index[r] = n + 1
      /\ index[r] \in 1 .. Len(Job[r].readings) /\ Len(Job[r].readings) \in Nat
      /\ pc \in [Requests -> Labels] /\ index \in [Requests -> Nat]
      /\ seen \in [Requests -> Values \cup {NoRow}]
  <2>1. answers \in [Requests -> Seq(Answer)]
    BY DEF AInv, AnswersOK
  <2>2. index[r] - 1 = n
    BY <1>a DEF AInv, LengthsOK
  <2>3. pc \in [Requests -> Labels] /\ index \in [Requests -> Nat]
        /\ seen \in [Requests -> Values \cup {NoRow}]
        /\ index[r] \in 1 .. Len(Job[r].readings)
    BY DEF IInv, LocalsOK
  <2> QED
    BY <2>1, <2>2, <2>3, ConstantFacts
<1>1. /\ answers'[r] = Append(answers[r], answer)
      /\ answers' \in [Requests -> Seq(Answer)]
      /\ \A q \in Requests \ {r} : answers'[q] = answers[q]
  BY <1>0, AppendProperties DEF Record
<1>2. /\ Len(answers'[r]) = n + 1
      /\ answers'[r][n + 1] = answer
      /\ \A i \in 1 .. n : answers'[r][i] = answers[r][i]
  BY <1>a, <1>0, <1>1, AppendProperties
<1>3. \A q \in Requests \ {r} : pc'[q] = pc[q] /\ index'[q] = index[q] /\ seen'[q] = seen[q]
  BY <1>0 DEF Record, Goto
<1>4. \/ pc'[r] = "select" /\ index'[r] = index[r] + 1
      \/ pc'[r] = "commit"
  BY <1>0 DEF Record, Goto
<1>5. LengthsOK'
  <2>1. Len(answers'[r]) <= Len(Job[r].readings)
    BY <1>0, <1>2
  <2>2. pc'[r] \in {"start", "flush", "select", "upsert"} => Len(answers'[r]) = index'[r] - 1
    BY <1>0, <1>2, <1>4
  <2>3. ASSUME NEW q \in Requests, q # r
        PROVE  /\ Len(answers'[q]) <= Len(Job[q].readings)
               /\ pc'[q] \in {"start", "flush", "select", "upsert"} =>
                     Len(answers'[q]) = index'[q] - 1
    BY <2>3, <1>1, <1>3 DEF AInv, LengthsOK
  <2> QED
    BY <2>1, <2>2, <2>3 DEF LengthsOK
<1>6. AnswersOK'
  <2>1. ASSUME NEW q \in Requests, q # r, NEW i \in 1 .. Len(answers'[q])
        PROVE  AnswerOK(q, i)'
    BY <2>1, <1>1, AnswersKept
  <2>2. ASSUME NEW i \in 1 .. n PROVE AnswerOK(r, i)'
    BY <2>2, <1>a, <1>2, AnswersKept
  <2>3. AnswerOK(r, n + 1)'
    <3>1. KeyAt(r, n + 1) = k /\ Job[r].readings[n + 1] = Incoming(r)
      BY <1>0 DEF KeyAt, Key, Incoming
    <3>2. KeyAt(r, n + 1)' = k
      BY <3>1 DEF KeyAt, Mac
    <3>3. VisibleTo(r, RowOwner(k))' <=> VisibleTo(r, RowOwner(KeyAt(r, n + 1)))'
      BY <3>2 DEF VisibleTo, RowOwner
    <3> QED
      BY <1>2, <3>1, <3>2, <3>3 DEF AnswerOK
  <2>4. ASSUME NEW i \in 1 .. Len(answers'[r]) PROVE AnswerOK(r, i)'
    <3>1. i \in 1 .. n \/ i = n + 1
      BY <1>0, <1>2
    <3>2. CASE i \in 1 .. n
      BY <3>2, <2>2
    <3>3. CASE i = n + 1
      BY <3>3, <2>3
    <3> QED
      BY <3>1, <3>2, <3>3
  <2> QED
    BY <1>1, <2>1, <2>4 DEF AnswersOK
<1>7. SeenOK'
  <2> SUFFICES ASSUME NEW q \in Requests, pc'[q] = "upsert", seen'[q] # NoRow
               PROVE  VisibleTo(q, RowOwner(Key(q)))' /\ rows'[Key(q)'].value = seen'[q]
    BY DEF SeenOK
  <2>1. q # r
    BY <1>4
  <2>2. UNCHANGED <<pc[q], index[q], seen[q]>> /\ pc[q] = "upsert" /\ seen[q] # NoRow
    BY <2>1, <1>3
  <2>3. Key(q)' = Key(q)
    BY <2>2 DEF Key, Incoming, Mac
  <2> QED
    BY <2>2, <2>3, AnswersKept
<1> QED
  BY <1>5, <1>6, <1>7 DEF AInv

(* A request that starts afresh.                                           *)
LEMMA ClearStep ==
    ASSUME IInv, AInv, [Next]_vars, NEW r \in Requests, \A q \in Requests \ {r} : ~ Abort(q),
           ClearLocals(r), NEW label \in {"start", "failed"}, Goto(r, label)
    PROVE  AInv'
<1>0. /\ answers \in [Requests -> Seq(Answer)]
      /\ pc \in [Requests -> Labels] /\ index \in [Requests -> Nat]
      /\ seen \in [Requests -> Values \cup {NoRow}]
  BY DEF IInv, LocalsOK, AInv, AnswersOK
<1>1. /\ answers' \in [Requests -> Seq(Answer)]
      /\ answers'[r] = << >> /\ index'[r] = 1 /\ pc'[r] = label
      /\ \A q \in Requests \ {r} : /\ answers'[q] = answers[q] /\ index'[q] = index[q]
                                /\ pc'[q] = pc[q] /\ seen'[q] = seen[q]
  BY <1>0, EmptySeq DEF ClearLocals, Goto
<1>2. Len(answers'[r]) = 0
  BY <1>1, EmptySeq
<1>3. LengthsOK'
  BY <1>1, <1>2, ConstantFacts DEF AInv, LengthsOK
<1>4. AnswersOK'
  <2>1. ASSUME NEW q \in Requests, q # r, NEW i \in 1 .. Len(answers'[q])
        PROVE  AnswerOK(q, i)'
    BY <2>1, <1>1, AnswersKept
  <2> QED
    BY <1>1, <1>2, <2>1 DEF AnswersOK
<1>5. SeenOK'
  <2> SUFFICES ASSUME NEW q \in Requests, pc'[q] = "upsert", seen'[q] # NoRow
               PROVE  VisibleTo(q, RowOwner(Key(q)))' /\ rows'[Key(q)'].value = seen'[q]
    BY DEF SeenOK
  <2>1. q # r
    BY <1>1
  <2>2. UNCHANGED <<pc[q], index[q], seen[q]>> /\ pc[q] = "upsert" /\ seen[q] # NoRow
    BY <2>1, <1>1
  <2>3. Key(q)' = Key(q)
    BY <2>2 DEF Key, Incoming, Mac
  <2> QED
    BY <2>1, <2>2, <2>3, AnswersKept
<1> QED
  BY <1>3, <1>4, <1>5 DEF AInv

LEMMA UpsertAInv ==
    ASSUME IInv, LocksOK, AInv, [Next]_vars, \A q \in Requests : ~ Abort(q),
           NEW r \in Requests, Upsert(r)
    PROVE  AInv'
<1>1. PICK k \in Keys : k = Key(r)
  BY IncomingType DEF IInv
<1>2. /\ pc[r] = "upsert" /\ ~ Blocked(r) /\ rows' = Upserted(r, k)
      /\ Record(r, Classify(seen[r], Incoming(r).value))
  BY <1>1 DEF Upsert
<1>3. RowsOK /\ Incoming(r).value \in Values
  <2>1. Incoming(r).value # Invalid /\ Incoming(r) \in Reading
    BY <1>2, IncomingType DEF IInv, StatementsOK
  <2> QED
    BY <2>1 DEF IInv, Reading
<1>4. RowOwner(k) \in {NoRow, Committed, r}
  <2>1. RowOwner(k) \in Owners \cup {NoRow}
    BY <1>3 DEF RowsOK, RowOwner, Row
  <2>2. RowOwner(k) \notin Requests \ {r}
    BY <1>1, <1>2 DEF Blocked, Target, Uncommitted, LocksOK
  <2> QED
    BY <2>1, <2>2 DEF Owners
<1>5. VisibleTo(r, RowOwner(k))'
  <2>1. CASE rows[k] = NoRow
    <3>1. rows'[k] = [value |-> Incoming(r).value, owner |-> r] /\ rows'[k] \in Row
      BY <2>1, <1>2, <1>3 DEF Upserted, RowsOK, Row, Owners
    <3> QED
      BY <3>1, ConstantFacts DEF VisibleTo, RowOwner
  <2>2. CASE rows[k] # NoRow
    <3>1. rows'[k] = rows[k] /\ RowOwner(k) \in {Committed, r}
      BY <2>2, <1>2, <1>3, <1>4, ConstantFacts DEF Upserted, RowsOK, Row, Owners, RowOwner
    <3> QED
      BY <3>1 DEF VisibleTo, RowOwner
  <2> QED
    BY <2>1, <2>2
<1>6. seen[r] # NoRow => rows'[k].value = seen[r]
  <2> SUFFICES ASSUME seen[r] # NoRow PROVE rows'[k].value = seen[r]
    OBVIOUS
  <2>1. VisibleTo(r, RowOwner(k)) /\ rows[k].value = seen[r]
    BY <1>1, <1>2 DEF AInv, SeenOK
  <2>2. rows[k] # NoRow
    BY <2>1, ConstantFacts DEF VisibleTo, RowOwner
  <2> QED
    BY <2>1, <2>2, <1>2 DEF Upserted
<1>7. /\ Classify(seen[r], Incoming(r).value) \in Answer
      /\ Classify(seen[r], Incoming(r).value) = "duplicate" => rows'[k].value = Incoming(r).value
      /\ Classify(seen[r], Incoming(r).value) = "conflict" => rows'[k].value # Incoming(r).value
  <2>1. CASE seen[r] = NoRow
    BY <2>1 DEF Classify, Answer
  <2>2. CASE seen[r] # NoRow
    BY <2>2, <1>6 DEF Classify, Answer
  <2> QED
    BY <2>1, <2>2
<1> QED
  BY <1>1, <1>2, <1>5, <1>7, RecordStep

(* Only an abort fails a request, and a step is of one request only.       *)
LEMMA NoAbort ==
    ASSUME IInv, NEW r \in Requests, NEW label \in Labels \ {"failed"}, Goto(r, label)
    PROVE  \A q \in Requests : ~ Abort(q)
<1> SUFFICES ASSUME NEW q \in Requests, Abort(q) PROVE FALSE
  OBVIOUS
<1>1. pc \in [Requests -> Labels]
  BY DEF IInv, LocalsOK
<1>2. pc'[q] = "failed" /\ pc[q] # "failed"
  BY <1>1 DEF Abort, Goto
<1> QED
  BY <1>1, <1>2 DEF Goto

LEMMA HandleAInv ==
    ASSUME IInv, LocksOK, AInv, [Next]_vars, NEW r \in Requests, Handle(r)
    PROVE  AInv'
<1>0. pc \in [Requests -> Labels] /\ seen \in [Requests -> Values \cup {NoRow}]
  BY DEF IInv, LocalsOK
<1>1. \A q \in Requests : ~ Abort(q)
  <2>1. \E label \in Labels \ {"failed"} : Goto(r, label)
    BY DEF Handle, StartBulk, StartLive, FlushSensor, LoseSensorRace, RejectReading,
           SelectExisting, Upsert, BreakDeadlockBulk, Commit, Record, Labels
  <2> QED
    BY <2>1, NoAbort
<1>2. PICK k \in Keys : k = Key(r)
  BY IncomingType DEF IInv
<1>3. CASE StartBulk(r) \/ StartLive(r) \/ FlushSensor(r) \/ LoseSensorRace(r)
  <2>1. /\ UNCHANGED <<answers, index, seen>>
        /\ pc[r] \in {"start", "flush"} /\ pc'[r] # "upsert"
        /\ \A q \in Requests \ {r} : pc'[q] = pc[q]
    BY <1>0, <1>3 DEF StartBulk, StartLive, FlushSensor, LoseSensorRace, Goto
  <2> QED
    BY <2>1, <1>1, QuietStep
<1>4. CASE Commit(r)
  <2>1. /\ UNCHANGED <<answers, index, seen>>
        /\ pc'[r] = "done"
        /\ \A q \in Requests \ {r} : pc'[q] = pc[q]
    BY <1>0, <1>4 DEF Commit, Goto
  <2> QED
    BY <2>1, <1>1, QuietStep
<1>5. CASE SelectExisting(r)
  <2>1. /\ UNCHANGED <<answers, index, rows>>
        /\ pc[r] = "select" /\ pc'[r] = "upsert"
        /\ \A q \in Requests \ {r} : pc'[q] = pc[q] /\ seen'[q] = seen[q]
        /\ seen'[r] = IF VisibleTo(r, RowOwner(k)) THEN rows[k].value ELSE NoRow
    BY <1>0, <1>2, <1>5 DEF SelectExisting, Goto, tables
  <2>2. ASSUME seen'[r] # NoRow
        PROVE  VisibleTo(r, RowOwner(Key(r)))' /\ rows'[Key(r)].value = seen'[r]
    <3>1. VisibleTo(r, RowOwner(k)) /\ rows'[k].value = seen'[r]
      BY <2>1, <2>2
    <3>2. VisibleTo(r, RowOwner(Key(r)))'
      <4>1. Key(r)' = k
        BY <1>2, <2>1 DEF Key, Incoming, Mac
      <4> QED
        BY <4>1, <3>1, <2>1 DEF VisibleTo, RowOwner
    <3> QED
      BY <3>1, <3>2, <1>2
  <2> QED
    BY <2>1, <2>2, <1>1, QuietStep
<1>6. CASE RejectReading(r) \/ BreakDeadlockBulk(r)
  <2>1. PICK answer \in {"invalid", "error"} : Record(r, answer)
    BY <1>6 DEF RejectReading, BreakDeadlockBulk
  <2>2. pc[r] \in {"select", "upsert"}
    <3>1. CASE RejectReading(r)
      BY <3>1 DEF RejectReading
    <3>2. CASE BreakDeadlockBulk(r)
      <4>1. pc[r] \in {"flush", "upsert"} /\ Job[r].kind = "bulk"
        BY <3>2 DEF BreakDeadlockBulk, Blocked
      <4> QED
        BY <4>1 DEF IInv, StatementsOK
    <3> QED
      BY <1>6, <3>1, <3>2
  <2>3. answer \in Answer /\ answer \notin {"created", "duplicate", "conflict"}
    BY DEF Answer
  <2> QED
    BY <2>1, <2>2, <2>3, <1>1, <1>2, RecordStep
<1>7. CASE Upsert(r)
  BY <1>7, <1>1, UpsertAInv
<1> QED
  BY <1>3, <1>4, <1>5, <1>6, <1>7 DEF Handle

LEMMA NextAInv ==
    ASSUME IInv, LocksOK, AInv, [Next]_vars
    PROVE  AInv'
<1>1. ASSUME NEW r \in Requests, Handle(r) PROVE AInv'
  BY <1>1, HandleAInv
<1>2. ASSUME NEW r \in Requests, Abort(r) PROVE AInv'
  <2>1. ClearLocals(r) /\ Goto(r, "failed")
    BY <1>2 DEF Abort
  <2>2. \A q \in Requests \ {r} : ~ Abort(q)
    <3> SUFFICES ASSUME NEW q \in Requests, q # r, Abort(q) PROVE FALSE
      OBVIOUS
    <3>1. pc \in [Requests -> Labels]
      BY DEF IInv, LocalsOK
    <3>2. pc'[q] = "failed" /\ pc[q] # "failed"
      BY <3>1 DEF Abort, Goto
    <3> QED
      BY <2>1, <3>1, <3>2 DEF Goto
  <2> QED
    BY <2>1, <2>2, ClearStep
<1>3. ASSUME NEW r \in Requests, Resend(r) PROVE AInv'
  <2>1. ClearLocals(r) /\ Goto(r, "start")
    BY <1>3 DEF Resend
  <2>2. \A q \in Requests : ~ Abort(q)
    BY <2>1, NoAbort DEF Labels
  <2> QED
    BY <2>1, <2>2, ClearStep
<1>4. CASE UNCHANGED vars
  <2>1. LengthsOK'
    BY <1>4 DEF vars, AInv, LengthsOK
  <2>2. AnswersOK'
    BY <1>4 DEF vars, tables, AInv, AnswersOK, AnswerOK, VisibleTo, RowOwner, KeyAt, Mac
  <2>3. SeenOK'
    BY <1>4 DEF vars, tables, AInv, SeenOK, VisibleTo, RowOwner, Key, Incoming, Mac
  <2> QED
    BY <2>1, <2>2, <2>3 DEF AInv
<1> QED
  BY <1>1, <1>2, <1>3, <1>4 DEF Next

LEMMA SpecAInv == Spec => []AInv
<1>1. Init => AInv
  BY InitAInv
<1>2. IInv /\ LocksOK /\ AInv /\ [Next]_vars => AInv'
  BY NextAInv
<1> QED
  BY <1>1, <1>2, SpecIInv, SpecLocks, PTL DEF Spec

(* What a request was told about its readings is true of the table when it *)
(* is told, and stays true: every reading counted as succeeded is stored,  *)
(* "duplicate" and "conflict" compare it with the stored one rightly.      *)
THEOREM IngestAnswersTrue == Spec => []AnswersTrue
<1>1. IInv /\ AInv => AnswersTrue
  <2> SUFFICES ASSUME IInv, AInv, NEW r \in Requests, pc[r] = "done",
                      NEW i \in 1 .. Len(answers[r]),
                      answers[r][i] \in {"created", "duplicate", "conflict"}
               PROVE  /\ RowOwner(KeyAt(r, i)) = Committed
                      /\ answers[r][i] = "duplicate" =>
                            rows[KeyAt(r, i)].value = Job[r].readings[i].value
                      /\ answers[r][i] = "conflict" =>
                            rows[KeyAt(r, i)].value # Job[r].readings[i].value
    BY DEF AnswersTrue, KeyAt
  <2>1. AnswerOK(r, i)
    BY DEF AInv, AnswersOK
  <2>2. KeyAt(r, i) \in Keys
    <3>1. Len(answers[r]) \in Nat /\ Len(answers[r]) <= Len(Job[r].readings)
      BY LenProperties DEF AInv, AnswersOK, LengthsOK
    <3>2. i \in 1 .. Len(Job[r].readings)
      BY <3>1, ConstantFacts
    <3> QED
      BY <3>2, KeyAtType
  <2>3. RowOwner(KeyAt(r, i)) # r
    BY <2>2 DEF IInv, Ownership, InTransaction
  <2> QED
    BY <2>1, <2>3 DEF AnswerOK, VisibleTo
<1> QED
  BY <1>1, SpecIInv, SpecAInv, PTL

(* Whoever inserts a reading answers "created": the lookup before the      *)
(* upsert found nothing, since what it finds is still there when the       *)
(* upsert runs (SeenOK).                                                   *)
THEOREM IngestInsertedIsCreated == Spec => InsertedIsCreated
<1> DEFINE Told == \A r \in Requests, k \in Keys :
                      RowOwner(k) = NoRow /\ RowOwner(k)' = r =>
                          answers'[r] = Append(answers[r], "created")
<1>1. IInv /\ AInv /\ [Next]_vars => Told
  <2> SUFFICES ASSUME IInv, AInv, [Next]_vars, NEW r \in Requests, NEW k \in Keys,
                      RowOwner(k) = NoRow, RowOwner(k)' = r
               PROVE  answers'[r] = Append(answers[r], "created")
    OBVIOUS
  <2>0. RowsOK /\ answers \in [Requests -> Seq(Answer)]
    BY DEF IInv, AInv, AnswersOK
  <2>1. rows[k] = NoRow /\ rows'[k] # rows[k]
    <3>1. rows[k] = NoRow
      BY <2>0, ConstantFacts DEF RowsOK, RowOwner, Row, Owners
    <3> QED
      BY <3>1, ConstantFacts DEF RowOwner
  <2>2. ASSUME NEW q \in Requests, Upsert(q)
        PROVE  answers'[r] = Append(answers[r], "created")
    <3>1. /\ pc[q] = "upsert" /\ rows' = Upserted(q, Key(q))
          /\ Record(q, Classify(seen[q], Incoming(q).value))
      BY <2>2 DEF Upsert
    <3>2. rows' = [rows EXCEPT ![Key(q)] = [value |-> Incoming(q).value, owner |-> q]]
      BY <2>1, <3>1 DEF Upserted
    <3>3. k = Key(q) /\ rows'[k] = [value |-> Incoming(q).value, owner |-> q]
      BY <2>0, <2>1, <3>2 DEF RowsOK
    <3>4. q = r
      <4>1. rows'[k] # NoRow
        BY <2>1
      <4> QED
        BY <3>3, <4>1 DEF RowOwner
    <3>5. seen[q] = NoRow
      <4> SUFFICES ASSUME seen[q] # NoRow PROVE FALSE
        OBVIOUS
      <4>1. VisibleTo(q, RowOwner(k))
        BY <3>1, <3>3 DEF AInv, SeenOK
      <4> QED
        BY <4>1, ConstantFacts DEF VisibleTo
    <3> QED
      BY <2>0, <3>1, <3>4, <3>5 DEF Record, Classify
  <2>3. ASSUME NEW q \in Requests, Commit(q) PROVE FALSE
    BY <2>0, <2>1, <2>3, PublishFacts, ConstantFacts DEF Commit
  <2>4. ASSUME NEW q \in Requests, Abort(q) PROVE FALSE
    BY <2>0, <2>1, <2>4, ReleaseFacts, ConstantFacts DEF Abort
  <2>5. rows' # rows
    BY <2>1
  <2> QED
    BY <2>2, <2>3, <2>4, <2>5
    DEF Next, Handle, StartBulk, StartLive, FlushSensor, LoseSensorRace, RejectReading,
        SelectExisting, BreakDeadlockBulk, Resend, vars, tables
<1> QED
  BY <1>1, SpecIInv, SpecAInv, PTL DEF Spec, InsertedIsCreated

==============================================================================
