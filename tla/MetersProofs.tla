----------------------------- MODULE MetersProofs -----------------------------
(***************************************************************************)
(* Proofs about Meters for any number of polls, MACs and rows, and any     *)
(* answers of the Pi.  A row of the sensors that is committed never        *)
(* changes; what has been answered about it therefore stays true.  What a  *)
(* list names is answered or still ahead, and a list that is done with has *)
(* left its rows or the default time to come back.                         *)
(***************************************************************************)
EXTENDS Meters, SequenceTheorems, WellFoundedInduction, TLAPS

Row == [id : Ids, type : Kinds, owner : Ids \cup {Committed}]
Entry == [mac : Macs, id : Ids, type : Kinds]
List == [kind : Kinds, macs : SUBSET Macs]

SensorsTyped == sensors \in [Macs -> Row \cup {NoRow}]

LocalsTyped ==
    /\ pc \in [Requests -> Labels]
    /\ kind \in [Requests -> Kinds]
    /\ todo \in [Requests -> Seq(Macs \cup {BadRow})]
    /\ out \in [Requests -> SUBSET Entry]
    /\ hints \in [Requests -> SUBSET (Nat \ {0})]
    /\ wanted \in [Requests -> {Everything} \cup SUBSET Ids]
    /\ reported \in [Requests -> SUBSET List]

(* Where a request is, and what it then has before it.                     *)
Place(r) ==
    /\ pc[r] \in {"start", "fetch", "done"} => todo[r] = <<>>
    /\ pc[r] = "start" => reported[r] = {} /\ kind[r] = "switchbot"
    /\ pc[r] = "done" => kind[r] = "xiaomi"
    /\ pc[r] \in {"insert", "commit"} => todo[r] # <<>> /\ Mac(r) \in Macs

(* Between its INSERT and its COMMIT the row is a request's own.           *)
Holds(r) == pc[r] = "commit" => sensors[Mac(r)] # NoRow /\ sensors[Mac(r)].owner = r

Ahead(rows) == {rows[i] : i \in 1 .. Len(rows)}

Answered(r, m, k) ==
    /\ Known(m)
    /\ \/ [mac |-> m, id |-> sensors[m].id, type |-> k] \in out[r]
       \/ sensors[m].type # k

Listed(r) ==
    wanted[r] = Everything =>
        \A list \in reported[r] : \A m \in list.macs :
            \/ Answered(r, m, list.kind)
            \/ list.kind = kind[r] /\ m \in Ahead(todo[r])

(* The lists a request is done fetching.                                   *)
Fetched(r) ==
    {k \in Kinds :
        \/ pc[r] \in {"row", "insert", "commit", "done"} /\ k \in {"switchbot", kind[r]}
        \/ pc[r] = "fetch" /\ kind[r] = "xiaomi" /\ k = "switchbot"}

Hinted(r) ==
    \A k \in Fetched(r) :
        /\ hints[r] # {}
        /\ (\E list \in reported[r] : list.kind = k) \/ DefaultHint[k] \in hints[r]

Agreed(r) ==
    \A e \in out[r] :
        Known(e.mac) /\ sensors[e.mac].id = e.id /\ sensors[e.mac].type = e.type

LocalOK(r) == Place(r) /\ Holds(r) /\ Listed(r) /\ Hinted(r) /\ Agreed(r)

MInv == SensorsTyped /\ LocalsTyped /\ \A r \in Requests : LocalOK(r)

------------------------------------------------------------------------------
LEMMA ConstantFacts ==
    /\ NoRow \notin Row /\ Committed \notin Ids /\ Live \notin Requests
    /\ Live \in Ids /\ Requests \subseteq Ids
    /\ \A k \in Kinds : DefaultHint[k] \in Nat \ {0}
BY MetersAssumption DEF Row, Ids

LEMMA AheadTail ==
    ASSUME NEW S, NEW s \in Seq(S), s # <<>>, NEW x \in Ahead(s), x # Head(s)
    PROVE  x \in Ahead(Tail(s))
<1>1. PICK i \in 1 .. Len(s) : x = s[i]
  BY DEF Ahead
<1>2. Len(s) \in Nat /\ Head(s) = s[1]
  BY LenProperties
<1>3. Len(Tail(s)) = Len(s) - 1 /\ \A j \in 1 .. Len(Tail(s)) : Tail(s)[j] = s[j + 1]
  BY HeadTailProperties
<1>4. i # 1 /\ i - 1 \in 1 .. Len(Tail(s)) /\ (i - 1) + 1 = i
  BY <1>1, <1>2, <1>3
<1>5. Tail(s)[i - 1] = x
  BY <1>1, <1>3, <1>4
<1> QED
  BY <1>4, <1>5 DEF Ahead

(* The rows of a list are ahead when it has just been fetched.             *)
LEMMA AllAhead ==
    ASSUME NEW rows \in Seq(Macs \cup {BadRow})
    PROVE  /\ {rows[i] : i \in DOMAIN rows} \ {BadRow} \subseteq Ahead(rows)
           /\ {rows[i] : i \in DOMAIN rows} \ {BadRow} \subseteq Macs
<1>1. DOMAIN rows = 1 .. Len(rows) /\ \A i \in 1 .. Len(rows) : rows[i] \in Macs \cup {BadRow}
  BY LenProperties, ElementOfSeq
<1> QED
  BY <1>1 DEF Ahead

LEMMA SmallestIsLeast ==
    ASSUME NEW S \in SUBSET Nat, S # {}, NEW n \in S
    PROVE  Smallest(S) <= n
<1>1. PICK x \in S : \A y \in S : ~ (<<y, x>> \in OpToRel(<, Nat))
  BY NatLessThanWellFounded, WFMin
<1>2. \A y \in S : x <= y
  <2>1. ASSUME NEW y \in S, y < x
        PROVE  FALSE
    <3>1. <<y, x>> \in Nat \X Nat /\ <<y, x>>[1] = y /\ <<y, x>>[2] = x
      OBVIOUS
    <3>2. <<y, x>> \in OpToRel(<, Nat)
      BY <2>1, <3>1 DEF OpToRel
    <3> QED
      BY <1>1, <3>2
  <2> QED
    BY <2>1
<1>3. Smallest(S) \in S /\ \A g \in S : Smallest(S) <= g
  BY <1>2 DEF Smallest
<1> QED
  BY <1>3

------------------------------------------------------------------------------
(* A step of others that changes no committed row, nor the row a request   *)
(* is about to commit, disturbs nothing of that request.                   *)
Undisturbed(q) ==
    /\ pc'[q] = pc[q] /\ kind'[q] = kind[q] /\ todo'[q] = todo[q]
    /\ out'[q] = out[q] /\ hints'[q] = hints[q] /\ wanted'[q] = wanted[q]
    /\ reported'[q] = reported[q]

KnownStays == \A m \in Macs : Known(m) => sensors'[m] = sensors[m]

HeldStays(q) == pc[q] = "commit" => sensors'[Mac(q)] = sensors[Mac(q)]

LEMMA KnownKept ==
    ASSUME KnownStays, NEW m \in Macs, Known(m)
    PROVE  Known(m)' /\ sensors'[m] = sensors[m]
BY DEF KnownStays, Known

(* What a request has answered stays true.                                 *)
LEMMA AnsweredStays ==
    ASSUME KnownStays, NEW r \in Requests, NEW m \in Macs, NEW k \in Kinds,
           Answered(r, m, k), out[r] \subseteq out'[r]
    PROVE  Answered(r, m, k)'
BY KnownKept DEF Answered

LEMMA AgreedStays ==
    ASSUME KnownStays, LocalsTyped, NEW r \in Requests, Agreed(r), out'[r] = out[r]
    PROVE  Agreed(r)'
<1> SUFFICES ASSUME NEW e \in out[r]
             PROVE  (Known(e.mac) /\ sensors[e.mac].id = e.id /\ sensors[e.mac].type = e.type)'
  BY DEF Agreed
<1>1. e.mac \in Macs
  BY DEF LocalsTyped, Entry
<1> QED
  BY <1>1, KnownKept DEF Agreed

LEMMA ListedStays ==
    ASSUME KnownStays, LocalsTyped, NEW r \in Requests, Listed(r), out[r] \subseteq out'[r],
           kind'[r] = kind[r], todo'[r] = todo[r], wanted'[r] = wanted[r],
           reported'[r] = reported[r]
    PROVE  Listed(r)'
<1> SUFFICES ASSUME wanted[r] = Everything, NEW list \in reported[r], NEW m \in list.macs
             PROVE  (Answered(r, m, list.kind) \/ (list.kind = kind[r] /\ m \in Ahead(todo[r])))'
  BY DEF Listed
<1>1. list.kind \in Kinds /\ m \in Macs
  BY DEF LocalsTyped, List
<1>2. Answered(r, m, list.kind) \/ (list.kind = kind[r] /\ m \in Ahead(todo[r]))
  BY DEF Listed
<1> QED
  BY <1>1, <1>2, AnsweredStays DEF Ahead

LEMMA UndisturbedOK ==
    ASSUME MInv, NEW q \in Requests, Undisturbed(q), KnownStays, HeldStays(q)
    PROVE  LocalOK(q)'
<1>1. Place(q)' /\ Holds(q)' /\ Hinted(q)'
  BY DEF MInv, LocalOK, Undisturbed, HeldStays, Place, Holds, Hinted, Fetched, Mac
<1>2. Listed(q)' /\ Agreed(q)'
  BY ListedStays, AgreedStays DEF MInv, LocalOK, Undisturbed
<1> QED
  BY <1>1, <1>2 DEF LocalOK

LEMMA Moves ==
    ASSUME MInv, NEW r \in Requests, SensorsTyped', LocalsTyped', KnownStays,
           \A q \in Requests \ {r} : Undisturbed(q) /\ HeldStays(q), LocalOK(r)'
    PROVE  MInv'
<1>1. \A q \in Requests \ {r} : LocalOK(q)'
  BY UndisturbedOK
<1> QED
  BY <1>1 DEF MInv

------------------------------------------------------------------------------
(* The steps that leave the table alone.                                   *)
LEMMA TableAlone ==
    ASSUME UNCHANGED sensors
    PROVE  /\ KnownStays /\ \A q \in Requests : HeldStays(q)
           /\ SensorsTyped => SensorsTyped'
BY DEF KnownStays, HeldStays, SensorsTyped

LEMMA BeginOK ==
    ASSUME MInv, NEW r \in Requests, Begin(r)
    PROVE  MInv'
<1>1. PICK ids \in Filters : wanted' = [wanted EXCEPT ![r] = ids]
  BY DEF Begin
<1>2. ids \in {Everything} \cup SUBSET Ids
  BY MetersAssumption DEF Ids
<1>3. pc' = [pc EXCEPT ![r] = "fetch"] /\ pc[r] = "start"
      /\ UNCHANGED <<sensors, kind, todo, out, hints, reported>>
  BY DEF Begin, Goto
<1>4. LocalsTyped'
  BY <1>1, <1>2, <1>3 DEF MInv, LocalsTyped, Labels
<1>5. \A q \in Requests \ {r} : Undisturbed(q)
  BY <1>1, <1>3 DEF MInv, LocalsTyped, Undisturbed
<1>6. pc'[r] = "fetch"
  BY <1>3 DEF MInv, LocalsTyped
<1>7. Place(r)' /\ Holds(r)' /\ Listed(r)' /\ Hinted(r)'
  BY <1>3, <1>6 DEF MInv, LocalOK, Place, Holds, Listed, Hinted, Fetched
<1>8. Agreed(r)'
  BY <1>3, TableAlone, AgreedStays DEF MInv, LocalOK
<1> QED
  BY <1>3, <1>4, <1>5, <1>7, <1>8, TableAlone, Moves DEF MInv, LocalOK

LEMMA FetchRowsOK ==
    ASSUME MInv, NEW r \in Requests, FetchRows(r)
    PROVE  MInv'
<1>1. PICK rows \in RowsOf(kind[r]), hint \in Hints :
        /\ todo' = [todo EXCEPT ![r] = rows]
        /\ hints' = [hints EXCEPT ![r] = @ \cup {retry_after(kind[r], hint)}]
        /\ reported' = [reported EXCEPT ![r] = @ \cup
              {[kind |-> kind[r], macs |-> {rows[i] : i \in DOMAIN rows} \ {BadRow}]}]
  BY DEF FetchRows
<1> DEFINE macs == {rows[i] : i \in DOMAIN rows} \ {BadRow}
           list == [kind |-> kind[r], macs |-> macs]
<1>2. rows \in Seq(Macs \cup {BadRow})
  BY MetersAssumption DEF RowsOf
<1>3. macs \subseteq Ahead(rows) /\ macs \subseteq Macs
  BY <1>2, AllAhead
<1>4. pc' = [pc EXCEPT ![r] = "row"] /\ pc[r] = "fetch"
      /\ UNCHANGED <<sensors, kind, out, wanted>>
  BY DEF FetchRows, Goto
<1> HIDE DEF macs
<1>5. kind[r] \in Kinds /\ list \in List
  BY <1>3 DEF MInv, LocalsTyped, List
<1>6. retry_after(kind[r], hint) \in Nat \ {0}
  BY <1>5, ConstantFacts, MetersAssumption DEF retry_after
<1>7. reported' = [reported EXCEPT ![r] = @ \cup {list}]
  BY <1>1 DEF macs
<1> HIDE DEF list
<1>8. LocalsTyped'
  <2>1. todo' \in [Requests -> Seq(Macs \cup {BadRow})]
    BY <1>1, <1>2 DEF MInv, LocalsTyped
  <2>2. hints' \in [Requests -> SUBSET (Nat \ {0})]
    BY <1>1, <1>6 DEF MInv, LocalsTyped
  <2>3. reported' \in [Requests -> SUBSET List]
    BY <1>5, <1>7 DEF MInv, LocalsTyped
  <2>4. pc' \in [Requests -> Labels]
    BY <1>4 DEF MInv, LocalsTyped, Labels
  <2> QED
    BY <1>4, <2>1, <2>2, <2>3, <2>4 DEF MInv, LocalsTyped
<1>9. \A q \in Requests \ {r} : Undisturbed(q)
  BY <1>1, <1>4, <1>7 DEF MInv, LocalsTyped, Undisturbed
<1>10. /\ pc'[r] = "row" /\ kind'[r] = kind[r] /\ todo'[r] = rows /\ todo[r] = <<>>
       /\ reported'[r] = reported[r] \cup {list} /\ hints[r] \subseteq hints'[r]
       /\ hints'[r] # {} /\ out'[r] = out[r] /\ wanted'[r] = wanted[r]
  BY <1>1, <1>4, <1>7 DEF MInv, LocalsTyped, LocalOK, Place
<1>11. Place(r)' /\ Holds(r)'
  BY <1>10 DEF Place, Holds
<1>12. Listed(r)'
  <2> SUFFICES ASSUME wanted'[r] = Everything, NEW l \in reported'[r], NEW m \in l.macs
               PROVE  (Answered(r, m, l.kind) \/ (l.kind = kind[r] /\ m \in Ahead(todo[r])))'
    BY DEF Listed
  <2>1. CASE l = list
    BY <1>3, <1>10, <2>1 DEF list, Ahead
  <2>2. CASE l \in reported[r]
    <3>1. l.kind \in Kinds /\ m \in Macs
      BY <2>2 DEF MInv, LocalsTyped, List
    <3>2. m \notin Ahead(todo[r])
      BY <1>10 DEF Ahead
    <3>3. Answered(r, m, l.kind)
      BY <1>10, <2>2, <3>2 DEF MInv, LocalOK, Listed
    <3> QED
      BY <1>4, <1>10, <3>1, <3>3, TableAlone, AnsweredStays
  <2> QED
    BY <1>10, <2>1, <2>2
<1>13. Hinted(r)'
  <2> SUFFICES ASSUME NEW k \in Fetched(r)'
               PROVE  (\E l \in reported'[r] : l.kind = k) \/ DefaultHint[k] \in hints'[r]
    BY <1>10 DEF Hinted
  <2>1. k = kind[r] \/ (k = "switchbot" /\ kind[r] = "xiaomi")
    BY <1>5, <1>10 DEF Fetched, Kinds
  <2>2. CASE k = kind[r]
    <3>1. list \in reported'[r] /\ list.kind = k
      BY <1>10, <2>2 DEF list
    <3> QED
      BY <3>1
  <2>3. CASE k = "switchbot" /\ kind[r] = "xiaomi"
    <3>1. k \in Fetched(r)
      BY <1>4, <2>3 DEF Fetched, Kinds
    <3> QED
      BY <1>10, <3>1 DEF MInv, LocalOK, Hinted
  <2> QED
    BY <2>1, <2>2, <2>3
<1>14. Agreed(r)'
  BY <1>4, <1>10, TableAlone, AgreedStays DEF MInv, LocalOK
<1> QED
  BY <1>4, <1>8, <1>9, <1>11, <1>12, <1>13, <1>14, TableAlone, Moves DEF MInv, LocalOK

LEMMA FetchNothingOK ==
    ASSUME MInv, NEW r \in Requests, FetchNothing(r)
    PROVE  MInv'
<1>1. /\ hints' = [hints EXCEPT ![r] = @ \cup {DefaultHint[kind[r]]}]
      /\ pc' = [pc EXCEPT ![r] = "row"] /\ pc[r] = "fetch"
      /\ UNCHANGED <<sensors, kind, todo, out, wanted, reported>>
  BY DEF FetchNothing, Goto
<1>2. kind[r] \in Kinds
  BY DEF MInv, LocalsTyped
<1>3. DefaultHint[kind[r]] \in Nat \ {0}
  BY <1>2, ConstantFacts
<1>4. LocalsTyped'
  BY <1>1, <1>3 DEF MInv, LocalsTyped, Labels
<1>5. \A q \in Requests \ {r} : Undisturbed(q)
  BY <1>1 DEF MInv, LocalsTyped, Undisturbed
<1>6. /\ pc'[r] = "row" /\ kind'[r] = kind[r] /\ reported'[r] = reported[r]
      /\ hints'[r] = hints[r] \cup {DefaultHint[kind[r]]}
  BY <1>1 DEF MInv, LocalsTyped
<1>7. Place(r)' /\ Holds(r)'
  BY <1>6 DEF Place, Holds
<1>8. Listed(r)' /\ Agreed(r)'
  BY <1>1, TableAlone, ListedStays, AgreedStays DEF MInv, LocalOK
<1>9. Hinted(r)'
  <2> SUFFICES ASSUME NEW k \in Fetched(r)'
               PROVE  (\E l \in reported[r] : l.kind = k) \/ DefaultHint[k] \in hints'[r]
    BY <1>6 DEF Hinted
  <2>1. k = kind[r] \/ (k = "switchbot" /\ kind[r] = "xiaomi")
    BY <1>2, <1>6 DEF Fetched, Kinds
  <2>2. CASE k = "switchbot" /\ kind[r] = "xiaomi"
    <3>1. k \in Fetched(r)
      BY <1>1, <2>2 DEF Fetched, Kinds
    <3> QED
      BY <1>6, <3>1 DEF MInv, LocalOK, Hinted
  <2> QED
    BY <1>6, <2>1, <2>2
<1> QED
  BY <1>1, <1>4, <1>5, <1>7, <1>8, <1>9, TableAlone, Moves DEF MInv, LocalOK

LEMMA GiveUp ==
    ASSUME MInv, NEW r \in Requests, pc' = [pc EXCEPT ![r] = "failed"],
           UNCHANGED locals, SensorsTyped', KnownStays,
           \A q \in Requests \ {r} : HeldStays(q)
    PROVE  MInv'
<1>1. LocalsTyped' /\ \A q \in Requests \ {r} : Undisturbed(q)
  BY DEF MInv, LocalsTyped, Labels, locals, Undisturbed
<1>2. pc'[r] = "failed"
  BY DEF MInv, LocalsTyped
<1>3. Place(r)' /\ Holds(r)' /\ Hinted(r)'
  BY <1>2 DEF Place, Holds, Hinted, Fetched
<1>4. Listed(r)' /\ Agreed(r)'
  BY ListedStays, AgreedStays DEF MInv, LocalOK, locals
<1> QED
  BY <1>1, <1>3, <1>4, Moves DEF LocalOK

LEMMA FetchGarbledOK ==
    ASSUME MInv, NEW r \in Requests, FetchGarbled(r)
    PROVE  MInv'
BY GiveUp, TableAlone DEF FetchGarbled, Goto, MInv

LEMMA PollAgainOK ==
    ASSUME MInv, NEW r \in Requests, PollAgain(r)
    PROVE  MInv'
<1>1. /\ UNCHANGED sensors
      /\ pc' = [pc EXCEPT ![r] = "start"] /\ kind' = [kind EXCEPT ![r] = "switchbot"]
      /\ todo' = [todo EXCEPT ![r] = <<>>] /\ out' = [out EXCEPT ![r] = {}]
      /\ hints' = [hints EXCEPT ![r] = {}] /\ reported' = [reported EXCEPT ![r] = {}]
      /\ wanted' = [wanted EXCEPT ![r] = Everything]
  BY DEF PollAgain, Goto
<1>2. <<>> \in Seq(Macs \cup {BadRow})
  BY EmptySeq
<1>3. LocalsTyped'
  BY <1>1, <1>2 DEF MInv, LocalsTyped, Labels, Kinds
<1>4. \A q \in Requests \ {r} : Undisturbed(q)
  BY <1>1 DEF MInv, LocalsTyped, Undisturbed
<1>5. /\ pc'[r] = "start" /\ kind'[r] = "switchbot" /\ todo'[r] = <<>>
      /\ out'[r] = {} /\ reported'[r] = {}
  BY <1>1 DEF MInv, LocalsTyped
<1>6. LocalOK(r)'
  BY <1>5 DEF LocalOK, Place, Holds, Listed, Hinted, Fetched, Agreed
<1> QED
  BY <1>1, <1>3, <1>4, <1>6, TableAlone, Moves DEF MInv

------------------------------------------------------------------------------
(* One row of a list after the other.                                      *)
LEMMA HintedStays ==
    ASSUME NEW r \in Requests, Hinted(r), hints'[r] = hints[r],
           reported'[r] = reported[r], Fetched(r)' \subseteq Fetched(r)
    PROVE  Hinted(r)'
BY DEF Hinted

LEMMA ListedShrinks ==
    ASSUME MInv, KnownStays, NEW r \in Requests, todo[r] # <<>>,
           todo'[r] = Tail(todo[r]), out[r] \subseteq out'[r], kind'[r] = kind[r],
           wanted'[r] = wanted[r], reported'[r] = reported[r],
           NEW mac, NEW k, mac = Mac(r), k = kind[r],
           wanted[r] = Everything /\ mac \in Macs => Answered(r, mac, k)'
    PROVE  Listed(r)'
<1> SUFFICES ASSUME wanted[r] = Everything, NEW list \in reported[r], NEW m \in list.macs
             PROVE  (Answered(r, m, list.kind) \/ (list.kind = kind[r] /\ m \in Ahead(todo[r])))'
  BY DEF Listed
<1>1. list.kind \in Kinds /\ m \in Macs /\ todo[r] \in Seq(Macs \cup {BadRow})
  BY DEF MInv, LocalsTyped, List
<1>2. Answered(r, m, list.kind) \/ (list.kind = kind[r] /\ m \in Ahead(todo[r]))
  BY DEF MInv, LocalOK, Listed
<1>3. CASE Answered(r, m, list.kind)
  <2>1. Answered(r, m, list.kind)'
    BY <1>1, <1>3, AnsweredStays
  <2> QED
    BY <2>1
<1>4. CASE list.kind = kind[r] /\ m \in Ahead(todo[r]) /\ m # Mac(r)
  <2>1. m \in Ahead(Tail(todo[r]))
    BY <1>1, <1>4, AheadTail DEF Mac
  <2> QED
    BY <1>4, <2>1 DEF Ahead
<1>5. CASE list.kind = kind[r] /\ m = Mac(r)
  <2>1. Answered(r, m, list.kind)'
    BY <1>1, <1>5
  <2> QED
    BY <2>1
<1> QED
  BY <1>2, <1>3, <1>4, <1>5

LEMMA SkipBadRowOK ==
    ASSUME MInv, NEW r \in Requests, SkipBadRow(r)
    PROVE  MInv'
<1>1. /\ todo' = [todo EXCEPT ![r] = Tail(@)] /\ todo[r] # <<>> /\ pc[r] = "row"
      /\ UNCHANGED <<sensors, pc, kind, out, hints, wanted, reported>>
      /\ Mac(r) \notin Macs
  BY MetersAssumption DEF SkipBadRow
<1>2. Tail(todo[r]) \in Seq(Macs \cup {BadRow})
  BY <1>1, HeadTailProperties DEF MInv, LocalsTyped
<1>3. LocalsTyped'
  BY <1>1, <1>2 DEF MInv, LocalsTyped
<1>4. \A q \in Requests \ {r} : Undisturbed(q)
  BY <1>1 DEF MInv, LocalsTyped, Undisturbed
<1>5. todo'[r] = Tail(todo[r])
  BY <1>1 DEF MInv, LocalsTyped
<1>6. Place(r)' /\ Holds(r)'
  BY <1>1 DEF Place, Holds
<1>7. Listed(r)'
  BY <1>1, <1>5, TableAlone, ListedShrinks
<1>8. Hinted(r)' /\ Agreed(r)'
  BY <1>1, TableAlone, HintedStays, AgreedStays DEF MInv, LocalOK, Fetched
<1> QED
  BY <1>1, <1>3, <1>4, <1>6, <1>7, <1>8, TableAlone, Moves DEF MInv, LocalOK

LEMMA MissSensorOK ==
    ASSUME MInv, NEW r \in Requests, MissSensor(r)
    PROVE  MInv'
<1>1. /\ pc' = [pc EXCEPT ![r] = "insert"] /\ pc[r] = "row" /\ todo[r] # <<>>
      /\ Mac(r) # BadRow /\ UNCHANGED <<sensors, locals>>
  BY DEF MissSensor, Goto
<1>2. Mac(r) \in Macs
  BY <1>1, HeadTailProperties DEF MInv, LocalsTyped, Mac
<1>3. LocalsTyped' /\ \A q \in Requests \ {r} : Undisturbed(q)
  BY <1>1 DEF MInv, LocalsTyped, Labels, locals, Undisturbed
<1>4. pc'[r] = "insert"
  BY <1>1 DEF MInv, LocalsTyped
<1>5. Place(r)' /\ Holds(r)'
  BY <1>1, <1>2, <1>4 DEF Place, Holds, Mac, locals
<1>6. Listed(r)' /\ Agreed(r)'
  BY <1>1, TableAlone, ListedStays, AgreedStays DEF MInv, LocalOK, locals
<1>7. Hinted(r)'
  BY <1>1, <1>4, HintedStays DEF MInv, LocalOK, Fetched, locals
<1> QED
  BY <1>1, <1>3, <1>5, <1>6, <1>7, TableAlone, Moves DEF MInv, LocalOK

LEMMA NextListOK ==
    ASSUME MInv, NEW r \in Requests, NextList(r)
    PROVE  MInv'
<1>1. /\ pc[r] = "row" /\ todo[r] = <<>>
      /\ UNCHANGED <<sensors, todo, out, hints, wanted, reported>>
  BY DEF NextList
<1>2. \/ /\ kind[r] = "switchbot" /\ kind' = [kind EXCEPT ![r] = "xiaomi"]
         /\ pc' = [pc EXCEPT ![r] = "fetch"]
      \/ /\ kind[r] = "xiaomi" /\ kind' = kind /\ pc' = [pc EXCEPT ![r] = "done"]
  BY DEF NextList, Goto, MInv, LocalsTyped, Kinds
<1>3. LocalsTyped'
  BY <1>1, <1>2 DEF MInv, LocalsTyped, Labels, Kinds
<1>4. \A q \in Requests \ {r} : Undisturbed(q)
  BY <1>1, <1>2 DEF MInv, LocalsTyped, Undisturbed
<1>5. kind'[r] = "xiaomi" /\ pc'[r] \in {"fetch", "done"}
      /\ (pc'[r] = "done" => kind[r] = "xiaomi")
  BY <1>2 DEF MInv, LocalsTyped
<1>6. Place(r)' /\ Holds(r)'
  BY <1>1, <1>5 DEF Place, Holds
<1>7. Listed(r)'
  <2> SUFFICES ASSUME wanted[r] = Everything, NEW list \in reported[r], NEW m \in list.macs
               PROVE  Answered(r, m, list.kind)'
    BY <1>1 DEF Listed
  <2>1. list.kind \in Kinds /\ m \in Macs
    BY DEF MInv, LocalsTyped, List
  <2>2. m \notin Ahead(todo[r])
    BY <1>1 DEF Ahead
  <2>3. Answered(r, m, list.kind)
    BY <2>2 DEF MInv, LocalOK, Listed
  <2> QED
    BY <1>1, <2>1, <2>3, TableAlone, AnsweredStays
<1>8. Hinted(r)'
  BY <1>1, <1>5, HintedStays DEF MInv, LocalOK, Fetched, Kinds
<1>9. Agreed(r)'
  BY <1>1, TableAlone, AgreedStays DEF MInv, LocalOK
<1> QED
  BY <1>1, <1>3, <1>4, <1>6, <1>7, <1>8, <1>9, TableAlone, Moves DEF MInv, LocalOK

(* A row is answered as it stands in the table once it is committed.       *)
LEMMA ResolveOK ==
    ASSUME MInv, NEW r \in Requests, NEW row, Resolve(r, row),
           pc[r] \in {"row", "insert", "commit"}, todo[r] # <<>>, Mac(r) \in Macs,
           NEW mac, mac = Mac(r),
           row.id \in Ids, Known(mac)', row.id = sensors'[mac].id,
           row.type = sensors'[mac].type,
           SensorsTyped', KnownStays, \A q \in Requests \ {r} : HeldStays(q)
    PROVE  MInv'
<1> DEFINE entry == [mac |-> mac, id |-> row.id, type |-> kind[r]]
<1>1. /\ todo' = [todo EXCEPT ![r] = Tail(@)] /\ pc' = [pc EXCEPT ![r] = "row"]
      /\ out' = [out EXCEPT ![r] = @ \cup EntryFor(r, row)]
      /\ UNCHANGED <<kind, hints, wanted, reported>>
  BY DEF Resolve, Goto
<1>2. Tail(todo[r]) \in Seq(Macs \cup {BadRow})
  BY HeadTailProperties DEF MInv, LocalsTyped
<1>3. kind[r] \in Kinds /\ entry \in Entry
  BY DEF MInv, LocalsTyped, Entry
<1>4. EntryFor(r, row) =
        IF row.type # kind[r] \/ (wanted[r] # Everything /\ row.id \notin wanted[r])
        THEN {} ELSE {entry}
  BY DEF EntryFor
<1>5. EntryFor(r, row) \subseteq Entry
  BY <1>3, <1>4
<1>6. LocalsTyped'
  BY <1>1, <1>2, <1>5 DEF MInv, LocalsTyped, Labels
<1>7. \A q \in Requests \ {r} : Undisturbed(q)
  BY <1>1 DEF MInv, LocalsTyped, Undisturbed
<1>8. /\ pc'[r] = "row" /\ todo'[r] = Tail(todo[r]) /\ kind'[r] = kind[r]
      /\ out'[r] = out[r] \cup EntryFor(r, row)
  BY <1>1 DEF MInv, LocalsTyped
<1> HIDE DEF entry
<1>9. Place(r)' /\ Holds(r)'
  BY <1>8 DEF Place, Holds
<1>10. Listed(r)'
  <2>1. ASSUME wanted[r] = Everything
        PROVE  Answered(r, mac, kind[r])'
    <3>1. row.type = kind[r] => entry \in out'[r]
      BY <1>4, <1>8, <2>1
    <3> QED
      BY <1>8, <3>1 DEF Answered, entry
  <2>2. PICK k : k = kind[r]
    OBVIOUS
  <2>3. wanted[r] = Everything => Answered(r, mac, k)'
    BY <1>8, <2>1, <2>2 DEF Answered
  <2> QED
    BY <1>1, <1>8, <2>2, <2>3, ListedShrinks
<1>11. Hinted(r)'
  BY <1>1, <1>8, HintedStays DEF MInv, LocalOK, Fetched
<1>12. Agreed(r)'
  <2> SUFFICES ASSUME NEW e \in out'[r]
               PROVE  (Known(e.mac) /\ sensors[e.mac].id = e.id
                       /\ sensors[e.mac].type = e.type)'
    BY DEF Agreed
  <2>1. CASE e \in out[r]
    <3>1. e.mac \in Macs /\ Known(e.mac) /\ sensors[e.mac].id = e.id
          /\ sensors[e.mac].type = e.type
      BY <2>1 DEF MInv, LocalOK, Agreed, LocalsTyped, Entry
    <3> QED
      BY <3>1, KnownKept
  <2>2. CASE e = entry /\ row.type = kind[r]
    BY <2>2 DEF entry
  <2> QED
    BY <1>4, <1>8, <2>1, <2>2
<1> QED
  BY <1>6, <1>7, <1>9, <1>10, <1>11, <1>12, Moves DEF LocalOK

LEMMA FindSensorOK ==
    ASSUME MInv, NEW r \in Requests, FindSensor(r)
    PROVE  MInv'
<1>1. /\ pc[r] = "row" /\ todo[r] # <<>> /\ Mac(r) # BadRow /\ Known(Mac(r))
      /\ Resolve(r, sensors[Mac(r)]) /\ UNCHANGED sensors
  BY DEF FindSensor
<1>2. Mac(r) \in Macs
  BY <1>1, HeadTailProperties DEF MInv, LocalsTyped, Mac
<1>3. sensors[Mac(r)].id \in Ids
  BY <1>1, <1>2 DEF MInv, SensorsTyped, Known, Row
<1>4. PICK mac : mac = Mac(r)
  OBVIOUS
<1>5. Known(mac)' /\ sensors'[mac] = sensors[mac]
  BY <1>1, <1>4 DEF Known
<1> QED
  BY <1>1, <1>2, <1>3, <1>4, <1>5, TableAlone, ResolveOK DEF MInv

LEMMA LoseSensorRaceOK ==
    ASSUME MInv, NEW r \in Requests, LoseSensorRace(r)
    PROVE  MInv'
<1>1. /\ pc[r] = "insert" /\ Known(Mac(r))
      /\ Resolve(r, sensors[Mac(r)]) /\ UNCHANGED sensors
  BY DEF LoseSensorRace
<1>2. todo[r] # <<>> /\ Mac(r) \in Macs
  BY <1>1 DEF MInv, LocalOK, Place
<1>3. sensors[Mac(r)].id \in Ids
  BY <1>1, <1>2 DEF MInv, SensorsTyped, Known, Row
<1>4. PICK mac : mac = Mac(r)
  OBVIOUS
<1>5. Known(mac)' /\ sensors'[mac] = sensors[mac]
  BY <1>1, <1>4 DEF Known
<1> QED
  BY <1>1, <1>2, <1>3, <1>4, <1>5, TableAlone, ResolveOK DEF MInv

(* The row that is committed is the request's own, so it is in nobody's    *)
(* way.                                                                    *)
LEMMA CommitSensorOK ==
    ASSUME MInv, NEW r \in Requests, CommitSensor(r)
    PROVE  MInv'
<1>1. /\ pc[r] = "commit" /\ Resolve(r, sensors[Mac(r)])
      /\ sensors' = [sensors EXCEPT ![Mac(r)].owner = Committed]
  BY DEF CommitSensor
<1>2. /\ todo[r] # <<>> /\ Mac(r) \in Macs
      /\ sensors[Mac(r)] # NoRow /\ sensors[Mac(r)].owner = r
  BY <1>1 DEF MInv, LocalOK, Place, Holds
<1>3. PICK mac \in Macs : mac = Mac(r)
  BY <1>2
<1>4. sensors[mac] \in Row
  BY <1>2, <1>3 DEF MInv, SensorsTyped
<1> DEFINE row == [sensors[mac] EXCEPT !.owner = Committed]
<1>5. row \in Row /\ row.id = sensors[mac].id /\ row.type = sensors[mac].type
      /\ row.owner = Committed
  BY <1>4 DEF Row
<1>6. sensors' = [sensors EXCEPT ![mac] = row]
  BY <1>1, <1>3
<1> HIDE DEF row
<1>7. SensorsTyped' /\ sensors'[mac] = row
  BY <1>5, <1>6 DEF MInv, SensorsTyped
<1>8. Known(mac)'
  BY <1>5, <1>7, ConstantFacts DEF Known
<1>9. \A m \in Macs : m # mac => sensors'[m] = sensors[m]
  BY <1>6 DEF MInv, SensorsTyped
<1>10. ~ Known(mac)
  BY <1>2, <1>3, ConstantFacts DEF Known
<1>11. KnownStays
  BY <1>9, <1>10 DEF KnownStays
<1>12. ASSUME NEW q \in Requests \ {r}
       PROVE  HeldStays(q)
  <2>1. pc[q] = "commit" => Mac(q) \in Macs /\ sensors[Mac(q)].owner = q
    BY DEF MInv, LocalOK, Place, Holds
  <2>2. pc[q] = "commit" => Mac(q) # mac
    BY <1>2, <1>3, <2>1
  <2> QED
    BY <1>9, <2>1, <2>2 DEF HeldStays
<1>13. sensors[mac].id \in Ids
  BY <1>4 DEF Row
<1> QED
  BY <1>1, <1>2, <1>3, <1>5, <1>7, <1>8, <1>11, <1>12, <1>13, ResolveOK

LEMMA InsertSensorOK ==
    ASSUME MInv, NEW r \in Requests, InsertSensor(r)
    PROVE  MInv'
<1> DEFINE row == [id |-> r, type |-> kind[r], owner |-> r]
<1>1. /\ pc[r] = "insert" /\ sensors[Mac(r)] = NoRow
      /\ sensors' = [sensors EXCEPT ![Mac(r)] = row]
      /\ pc' = [pc EXCEPT ![r] = "commit"] /\ UNCHANGED locals
  BY DEF InsertSensor, Goto
<1>2. todo[r] # <<>> /\ Mac(r) \in Macs
  BY <1>1 DEF MInv, LocalOK, Place
<1>3. row \in Row /\ row.owner = r /\ row # NoRow
  BY ConstantFacts DEF MInv, LocalsTyped, Row
<1> HIDE DEF row
<1>4. SensorsTyped' /\ sensors'[Mac(r)] = row
      /\ \A m \in Macs : m # Mac(r) => sensors'[m] = sensors[m]
  BY <1>1, <1>2, <1>3 DEF MInv, SensorsTyped
<1>5. KnownStays
  BY <1>1, <1>4 DEF KnownStays, Known
<1>6. ASSUME NEW q \in Requests \ {r}
      PROVE  HeldStays(q)
  <2>1. pc[q] = "commit" => Mac(q) \in Macs /\ sensors[Mac(q)] # NoRow
    BY DEF MInv, LocalOK, Place, Holds
  <2>2. pc[q] = "commit" => Mac(q) # Mac(r)
    BY <1>1, <2>1
  <2> QED
    BY <1>4, <2>1, <2>2 DEF HeldStays
<1>7. LocalsTyped' /\ \A q \in Requests \ {r} : Undisturbed(q)
  BY <1>1 DEF MInv, LocalsTyped, Labels, locals, Undisturbed
<1>8. pc'[r] = "commit" /\ todo'[r] = todo[r]
  BY <1>1 DEF MInv, LocalsTyped, locals
<1>9. Place(r)' /\ Holds(r)'
  BY <1>2, <1>3, <1>4, <1>8 DEF Place, Holds, Mac
<1>10. Listed(r)' /\ Agreed(r)'
  BY <1>1, <1>5, ListedStays, AgreedStays DEF MInv, LocalOK, locals
<1>11. Hinted(r)'
  BY <1>1, <1>8, HintedStays DEF MInv, LocalOK, Fetched, locals
<1> QED
  BY <1>4, <1>5, <1>6, <1>7, <1>9, <1>10, <1>11, Moves DEF LocalOK

------------------------------------------------------------------------------
(* Crashes, and the ingestion.                                             *)
LEMMA WithoutOK ==
    ASSUME MInv, NEW owner \in Ids, sensors' = Without(owner)
    PROVE  /\ SensorsTyped' /\ KnownStays
           /\ \A q \in Requests \ {owner} : HeldStays(q)
<1>1. \A m \in Macs : sensors'[m] =
          IF sensors[m] # NoRow /\ sensors[m].owner = owner THEN NoRow ELSE sensors[m]
  BY DEF Without
<1>2. SensorsTyped'
  BY DEF Without, MInv, SensorsTyped
<1>3. KnownStays
  BY <1>1, ConstantFacts DEF KnownStays, Known
<1>4. ASSUME NEW q \in Requests \ {owner}
      PROVE  HeldStays(q)
  <2>1. pc[q] = "commit" => Mac(q) \in Macs /\ sensors[Mac(q)].owner = q
    BY DEF MInv, LocalOK, Place, Holds
  <2> QED
    BY <1>1, <2>1 DEF HeldStays
<1> QED
  BY <1>2, <1>3, <1>4

LEMMA AbortOK ==
    ASSUME MInv, NEW r \in Requests, Abort(r)
    PROVE  MInv'
<1>1. sensors' = Without(r) /\ pc' = [pc EXCEPT ![r] = "failed"] /\ UNCHANGED locals
  BY DEF Abort, Goto
<1>2. r \in Ids
  BY ConstantFacts
<1> QED
  BY <1>1, <1>2, WithoutOK, GiveUp

LEMMA AllUndisturbed ==
    ASSUME MInv, UNCHANGED <<pc, locals>>, SensorsTyped', KnownStays,
           \A q \in Requests : HeldStays(q)
    PROVE  MInv'
<1>1. LocalsTyped' /\ \A q \in Requests : Undisturbed(q)
  BY DEF MInv, LocalsTyped, locals, Undisturbed
<1> QED
  BY <1>1, UndisturbedOK DEF MInv

LEMMA LiveRegistersOK ==
    ASSUME MInv, NEW m \in Macs, LiveRegisters(m)
    PROVE  MInv'
<1> DEFINE row == [id |-> Live, type |-> "switchbot", owner |-> Live]
<1>1. /\ sensors[m] = NoRow /\ sensors' = [sensors EXCEPT ![m] = row]
      /\ UNCHANGED <<pc, locals>>
  BY DEF LiveRegisters
<1>2. row \in Row
  BY ConstantFacts DEF Row, Kinds
<1> HIDE DEF row
<1>3. SensorsTyped' /\ \A n \in Macs : n # m => sensors'[n] = sensors[n]
  BY <1>1, <1>2 DEF MInv, SensorsTyped
<1>4. KnownStays
  BY <1>1, <1>3 DEF KnownStays, Known
<1>5. ASSUME NEW q \in Requests
      PROVE  HeldStays(q)
  <2>1. pc[q] = "commit" => Mac(q) \in Macs /\ sensors[Mac(q)] # NoRow
    BY DEF MInv, LocalOK, Place, Holds
  <2> QED
    BY <1>1, <1>3, <2>1 DEF HeldStays
<1> QED
  BY <1>1, <1>3, <1>4, <1>5, AllUndisturbed

LEMMA LiveEndsOK ==
    ASSUME MInv, LiveEnds
    PROVE  MInv'
<1>1. CASE sensors' = Without(Live)
  <2>1. Live \in Ids /\ Live \notin Requests
    BY ConstantFacts
  <2> QED
    BY <1>1, <2>1, WithoutOK, AllUndisturbed DEF LiveEnds
<1>2. CASE sensors' = [m \in Macs |->
                         IF sensors[m] # NoRow /\ sensors[m].owner = Live
                         THEN [sensors[m] EXCEPT !.owner = Committed] ELSE sensors[m]]
  <2>1. \A m \in Macs : sensors[m] = NoRow \/ sensors[m].owner # Live
                        => sensors'[m] = sensors[m]
    BY <1>2
  <2>2. \A row \in Row : [row EXCEPT !.owner = Committed] \in Row
    BY DEF Row
  <2>3. SensorsTyped'
    BY <1>2, <2>2 DEF MInv, SensorsTyped
  <2>4. KnownStays
    BY <2>1, MetersAssumption DEF KnownStays, Known
  <2>5. ASSUME NEW q \in Requests
        PROVE  HeldStays(q)
    <3>1. pc[q] = "commit" => Mac(q) \in Macs /\ sensors[Mac(q)].owner = q
      BY DEF MInv, LocalOK, Place, Holds
    <3> QED
      BY <2>1, <3>1, ConstantFacts DEF HeldStays
  <2> QED
    BY <2>3, <2>4, <2>5, AllUndisturbed DEF LiveEnds
<1> QED
  BY <1>1, <1>2 DEF LiveEnds

------------------------------------------------------------------------------
LEMMA InitOK == Init => MInv
<1> SUFFICES ASSUME Init PROVE MInv
  OBVIOUS
<1>1. <<>> \in Seq(Macs \cup {BadRow})
  BY EmptySeq
<1>2. SensorsTyped
  BY DEF Init, SensorsTyped
<1>3. LocalsTyped
  BY <1>1 DEF Init, LocalsTyped, Labels, Kinds
<1>4. \A r \in Requests : LocalOK(r)
  BY DEF Init, LocalOK, Place, Holds, Listed, Hinted, Fetched, Agreed
<1> QED
  BY <1>2, <1>3, <1>4 DEF MInv

LEMMA NextOK == MInv /\ [Next]_vars => MInv'
<1> SUFFICES ASSUME MInv, [Next]_vars PROVE MInv'
  OBVIOUS
<1>1. ASSUME NEW r \in Requests, Handle(r)
      PROVE  MInv'
  BY <1>1, BeginOK, FetchRowsOK, FetchNothingOK, FetchGarbledOK, SkipBadRowOK,
     FindSensorOK, MissSensorOK, InsertSensorOK, CommitSensorOK, LoseSensorRaceOK,
     NextListOK DEF Handle
<1>2. CASE UNCHANGED vars
  BY <1>2, TableAlone, AllUndisturbed DEF vars, MInv
<1> QED
  BY <1>1, <1>2, AbortOK, PollAgainOK, LiveRegistersOK, LiveEndsOK DEF Next

LEMMA Invariant == Spec => []MInv
  BY InitOK, NextOK, PTL DEF Spec

(* Every variable keeps its type, and a request that is about to insert or *)
(* commit a sensor has its row before it.                                  *)
THEOREM MetersTypeOK == Spec => []TypeOK
<1>1. MInv => TypeOK
  BY DEF MInv, SensorsTyped, LocalsTyped, LocalOK, Place, TypeOK, Row, Entry
<1> QED
  BY <1>1, Invariant, PTL

(* Every id an answer gives for a MAC is the id that is stored, under the  *)
(* type it is stored with (_ensure_meter_sensor, _ensure_plant_sensor).    *)
THEOREM MetersIdsAgree == Spec => []IdsAgree
<1>1. MInv => IdsAgree
  BY DEF MInv, LocalOK, Agreed, IdsAgree
<1> QED
  BY <1>1, Invariant, PTL

(* An answer names every sensor of the lists it was given, and asks the    *)
(* dashboard back within the default time of a list that is missing        *)
(* (latest_v2_entries).                                                    *)
THEOREM MetersNothingMissed == Spec => []NothingMissed
<1>1. ASSUME MInv, NEW r \in Requests, pc[r] = "done", wanted[r] = Everything,
             NEW list \in reported[r], NEW m \in list.macs
      PROVE  \/ [mac |-> m, id |-> sensors[m].id, type |-> list.kind] \in out[r]
             \/ sensors[m].type # list.kind
  <2>1. todo[r] = <<>>
    BY <1>1 DEF MInv, LocalOK, Place
  <2>2. m \notin Ahead(todo[r])
    BY <2>1 DEF Ahead
  <2> QED
    BY <1>1, <2>2 DEF MInv, LocalOK, Listed, Answered
<1>2. ASSUME MInv, NEW r \in Requests, pc[r] = "done"
      PROVE  /\ hints[r] # {}
             /\ \A k \in Kinds \ {list.kind : list \in reported[r]} :
                   Smallest(hints[r]) <= DefaultHint[k]
  <2>1. Fetched(r) = Kinds
    BY <1>2 DEF MInv, LocalOK, Place, Fetched, Kinds
  <2>2. hints[r] # {} /\ hints[r] \in SUBSET Nat
    BY <1>2, <2>1 DEF MInv, LocalOK, LocalsTyped, Hinted, Kinds
  <2>3. ASSUME NEW k \in Kinds \ {list.kind : list \in reported[r]}
        PROVE  Smallest(hints[r]) <= DefaultHint[k]
    <3>1. DefaultHint[k] \in hints[r]
      BY <1>2, <2>1 DEF MInv, LocalOK, Hinted
    <3> QED
      BY <2>2, <3>1, SmallestIsLeast
  <2> QED
    BY <2>2, <2>3
<1>3. MInv => NothingMissed
  BY <1>1, <1>2 DEF NothingMissed, NoSensorForgotten, OutageRetried
<1> QED
  BY <1>3, Invariant, PTL
==============================================================================
