--------------------------- MODULE DashboardProofs ---------------------------
(***************************************************************************)
(* Proofs about Dashboard for any sensors, ranges, zooms and bounds.  What *)
(* the Pi answers leaves no gap in its window, and as a window ends when   *)
(* it was asked for, readings that come later fall behind it: a request, a *)
(* history and a cache stay complete while they are kept.                  *)
(***************************************************************************)
EXTENDS Dashboard, FiniteSetTheorems, SequenceTheorems, WellFoundedInduction, TLAPS

Distinct(rows) == \A i, j \in DOMAIN rows : rows[i] = rows[j] => i = j

(* Complete, of the readings R of one sensor and a window.                 *)
Covers(rows, R, w) ==
    \A t \in R : w.from <= t /\ t < w.to =>
        \E i \in DOMAIN rows :
            t <= rows[i] /\ rows[i] \div Bucket(w.from, w.to, w.points)
                              = t \div Bucket(w.from, w.to, w.points)

(* What the Pi answers for a window.                                       *)
Served(rows, R, w) == rows \in RowSeqs /\ Distinct(rows) /\ Covers(rows, R, w)

Rowsets == UNION {[S -> RowSeqs \cup {Nothing}] : S \in SUBSET Sensors}
Loads == [window : Windows, rows : Rowsets]
Fetches == [zoom : Zooms, window : Windows, rows : Rowsets]
Caches == [min : Int, max : Int, points : Nat \ {0}, until : Int,
           data : UNION {[S -> RowSeqs] : S \in SUBSET Sensors}]

InTime(w) == w.from < w.to /\ w.to <= now

------------------------------------------------------------------------------
WorldOK ==
    /\ now \in Times
    /\ readings \in [Sensors -> SUBSET Times] /\ registered \subseteq Sensors

PageOK ==
    /\ loadingSensors \in BOOLEAN /\ sensors \subseteq registered
    /\ loadingSensors => sensors = {} /\ loads = <<>> /\ ~drawn

PollOK ==
    /\ poll \in {"off", "waiting", "asked", "answered"}
    /\ latest \in UNION {[S -> Times] : S \in SUBSET Sensors}

HistoryOK ==
    /\ range \in Ranges /\ rangeWindow \in Windows /\ drawn \in BOOLEAN
    /\ InTime(rangeWindow)
    /\ history \in [Sensors -> RowSeqs]
    /\ \A s \in Sensors : Distinct(history[s])
    /\ drawn => \A s \in sensors : Covers(history[s], readings[s], rangeWindow)

LoadsOK ==
    /\ loads \in Seq(Loads)
    /\ \A i \in 1 .. Len(loads) :
          /\ InTime(loads[i].window)
          /\ DOMAIN loads[i].rows = sensors
          /\ \A s \in sensors :
                \/ loads[i].rows[s] = Nothing
                \/ Served(loads[i].rows[s], readings[s], loads[i].window)

TimersOK ==
    /\ {zoomedRange, zoomTimer} \subseteq Zooms \cup {Nothing}
    /\ zoomed # Nothing => \A s \in DOMAIN zoomed : zoomed[s] \in RowSeqs

FetchesOK ==
    /\ zoomFetches \in Seq(Fetches)
    /\ \A i \in 1 .. Len(zoomFetches) :
          /\ InTime(zoomFetches[i].window)
          /\ zoomFetches[i].window.from = zoomFetches[i].zoom.min
          /\ \A s \in DOMAIN zoomFetches[i].rows :
                \/ zoomFetches[i].rows[s] = Nothing
                \/ Served(zoomFetches[i].rows[s], readings[s], zoomFetches[i].window)

CacheOK ==
    /\ zoomCache \in Caches \cup {Nothing}
    /\ zoomCache # Nothing =>
          /\ zoomCache.until <= now
          /\ \A s \in DOMAIN zoomCache.data :
                Covers(zoomCache.data[s], readings[s],
                       [from |-> zoomCache.min, to |-> zoomCache.until,
                        points |-> zoomCache.points])

DInv ==
    /\ WorldOK /\ PageOK /\ PollOK /\ HistoryOK
    /\ LoadsOK /\ TimersOK /\ FetchesOK /\ CacheOK

------------------------------------------------------------------------------
(* A set of times in order: the rank of a time is the number of those that *)
(* are not later.                                                          *)
LEMMA AscendingLists ==
    ASSUME NEW S \in SUBSET Times
    PROVE  /\ Ascending(S) \in Seq(S) /\ Distinct(Ascending(S))
           /\ \A x \in S : \E i \in DOMAIN Ascending(S) : Ascending(S)[i] = x
<1> DEFINE n == Cardinality(S)
           UpTo(x) == {y \in S : y <= x}
           rank == [x \in S |-> Cardinality(UpTo(x))]
<1>1. (\A x \in S : x \in Int) /\ IsFiniteSet(S) /\ n \in Nat
  <2>1. MaxTime \in Int /\ IsFiniteSet(Times)
    BY DashboardAssumption, FS_Interval DEF Times
  <2>2. IsFiniteSet(S) /\ n \in Nat
    BY <2>1, FS_Subset, FS_CardinalityType
  <2> QED
    BY <2>1, <2>2 DEF Times
<1>2. ASSUME NEW x \in S
      PROVE  IsFiniteSet(UpTo(x)) /\ rank[x] \in 1 .. n
  <2>1. UpTo(x) \in SUBSET S /\ x \in UpTo(x)
    <3>1. x <= x
      BY <1>1
    <3> QED
      BY <3>1
  <2>2. IsFiniteSet(UpTo(x)) /\ Cardinality(UpTo(x)) <= n
    BY <1>1, <2>1, FS_Subset
  <2>3. Cardinality(UpTo(x)) \in Nat /\ Cardinality(UpTo(x)) # 0
    BY <2>1, <2>2, FS_CardinalityType, FS_EmptySet
  <2>4. Cardinality(UpTo(x)) \in 1 .. n
    <3> HIDE DEF n, UpTo
    <3> QED
      BY <1>1, <2>2, <2>3
  <2> QED
    BY <2>2, <2>4
<1>3. ASSUME NEW x \in S, NEW y \in S, x < y
      PROVE  rank[x] < rank[y]
  <2>1. UpTo(x) \in SUBSET UpTo(y) /\ y \in UpTo(y) /\ y \notin UpTo(x)
    <3>1. x \in Int /\ y \in Int /\ \A z \in S : z <= x => z <= y
      BY <1>1, <1>3
    <3>2. y <= y /\ ~ (y <= x)
      BY <3>1, <1>3
    <3> QED
      BY <3>1, <3>2
  <2>2. IsFiniteSet(UpTo(y)) /\ Cardinality(UpTo(x)) <= Cardinality(UpTo(y))
    BY <1>2, <2>1, FS_Subset
  <2>3. Cardinality(UpTo(x)) # Cardinality(UpTo(y))
    BY <2>1, <2>2, FS_Subset
  <2>4. Cardinality(UpTo(x)) \in Nat /\ Cardinality(UpTo(y)) \in Nat
    BY <1>2, FS_CardinalityType
  <2> QED
    BY <2>2, <2>3, <2>4
<1>4. \A x, y \in S : rank[x] = rank[y] => x = y
  <2> SUFFICES ASSUME NEW x \in S, NEW y \in S, rank[x] = rank[y]
               PROVE  x = y
    OBVIOUS
  <2>1. x \in Int /\ y \in Int
    BY <1>1
  <2>2. rank[x] \in 1 .. n
    BY <1>2
  <2>3. x < y => rank[x] < rank[y]
    BY <1>3
  <2>4. y < x => rank[y] < rank[x]
    BY <1>3
  <2> HIDE DEF rank, n
  <2>5. n \in Nat
    BY <1>1
  <2> QED
    BY <2>1, <2>2, <2>3, <2>4, <2>5
<1>5. IsFiniteSet(1 .. n) /\ Cardinality(1 .. n) = n
  BY <1>1, FS_Interval, 0 < n \/ n = 0
<1>6. \A k \in 1 .. n : \E x \in S : rank[x] = k
  <2>1. rank \in Injection(S, 1 .. n)
    BY <1>2, <1>4 DEF Injection, IsInjective
  <2>2. rank \in Surjection(S, 1 .. n)
    BY <2>1, <1>1, <1>5, FS_Injection
  <2> QED
    BY <2>2 DEF Surjection
<1> DEFINE In(k) == CHOOSE x \in S : rank[x] = k
           Sorted(f) == \A i, j \in DOMAIN f : i < j => f[i] < f[j]
           F == [k \in 1 .. n |-> In(k)]
<1>7. \A k \in 1 .. n : In(k) \in S /\ rank[In(k)] = k
  BY <1>6
<1>8. F \in [1 .. n -> S]
  BY <1>7
<1>9. Sorted(F)
  <2> SUFFICES ASSUME NEW i \in 1 .. n, NEW j \in 1 .. n, i < j
               PROVE  F[i] < F[j]
    BY <1>8
  <2>1. F[i] \in S /\ F[j] \in S /\ rank[F[i]] = i /\ rank[F[j]] = j
    BY <1>7
  <2>2. F[i] \in Int /\ F[j] \in Int
    BY <2>1, <1>1
  <2>3. F[j] < F[i] => j < i
    BY <2>1, <1>3
  <2> HIDE DEF F, rank
  <2>4. F[i] # F[j]
    BY <2>1, <1>1
  <2> QED
    BY <2>2, <2>3, <2>4, <1>1
<1> DEFINE A == Ascending(S)
<1>10. A \in [1 .. n -> S] /\ Sorted(A)
  <2> HIDE DEF F
  <2> QED
    BY <1>8, <1>9 DEF Ascending
<1> HIDE DEF A, F, rank
<1>11. \A i, j \in 1 .. n : A[i] = A[j] => i = j
  <2> SUFFICES ASSUME NEW i \in 1 .. n, NEW j \in 1 .. n, A[i] = A[j]
               PROVE  i = j
    OBVIOUS
  <2>1. A[i] \in Int /\ A[j] \in Int
    BY <1>10, <1>1
  <2>2. (i < j => A[i] < A[j]) /\ (j < i => A[j] < A[i])
    BY <1>10
  <2> QED
    BY <2>1, <2>2, <1>1
<1>12. A \in Surjection(1 .. n, S)
  <2>1. A \in Injection(1 .. n, S)
    BY <1>10, <1>11 DEF Injection, IsInjective
  <2> QED
    BY <2>1, <1>1, <1>5, FS_Injection
<1>13. A \in Seq(S)
  BY <1>10, <1>1, SeqDef
<1>14. Distinct(A) /\ \A x \in S : \E i \in DOMAIN A : A[i] = x
  BY <1>10, <1>11, <1>12 DEF Surjection, Distinct
<1> QED
  BY <1>13, <1>14 DEF A

LEMMA LatestIsGreatest ==
    ASSUME NEW S \in SUBSET Times, S # {}
    PROVE  Max(S) \in S /\ \A x \in S : x <= Max(S)
<1> DEFINE Left == {MaxTime - x : x \in S}
<1>1. MaxTime \in Int /\ \A x \in S : x \in Int /\ MaxTime - x \in Nat
  BY DashboardAssumption DEF Times
<1>2. Left \in SUBSET Nat /\ Left # {}
  BY <1>1
<1>3. PICK l \in Left : \A k \in Left : ~ (<<k, l>> \in OpToRel(<, Nat))
  <2> HIDE DEF Left
  <2> QED
    BY <1>2, NatLessThanWellFounded, WFMin
<1>4. PICK m \in S : l = MaxTime - m
  OBVIOUS
<1>5. \A x \in S : m >= x
  <2> SUFFICES ASSUME NEW x \in S
               PROVE  ~ (MaxTime - x < l)
    BY <1>1, <1>4
  <2>1. MaxTime - x \in Left /\ MaxTime - x \in Nat /\ l \in Nat
    BY <1>1, <1>4
  <2> QED
    BY <1>3, <2>1 DEF OpToRel
<1>6. Max(S) \in S /\ \A x \in S : Max(S) >= x
  BY <1>5 DEF Max
<1> QED
  BY <1>1, <1>6

LEMMA GreaterOfTwo ==
    ASSUME NEW a \in Int, NEW b \in Int
    PROVE  /\ Max({a, b}) \in Int /\ a <= Max({a, b}) /\ b <= Max({a, b})
           /\ Min({a, b}) \in {a, b} /\ Min({a, b}) <= a /\ Min({a, b}) <= b
<1>1. \E x \in {a, b} : \A y \in {a, b} : x >= y
  OBVIOUS
<1>2. Max({a, b}) \in {a, b} /\ \A y \in {a, b} : Max({a, b}) >= y
  BY <1>1 DEF Max
<1>3. \E x \in {a, b} : \A y \in {a, b} : x <= y
  OBVIOUS
<1>4. Min({a, b}) \in {a, b} /\ \A y \in {a, b} : Min({a, b}) <= y
  BY <1>3 DEF Min
<1> QED
  BY <1>2, <1>4

(* The rows of a window: in order, so none twice, and the newest of every  *)
(* bucket is among them.                                                   *)
LEMMA RowsServed ==
    ASSUME NEW s, readings[s] \in SUBSET Times, NEW w \in Windows
    PROVE  Served(Rows(s, w), readings[s], w)
<1> DEFINE all == {t \in readings[s] : w.from <= t /\ t <= w.to}
           bucket == Bucket(w.from, w.to, w.points)
           kept == {t \in all : \A u \in all : u \div bucket = t \div bucket => u <= t}
<1> HIDE DEF bucket
<1>1. kept \in SUBSET Times /\ Rows(s, w) = Ascending(kept)
  BY DEF Rows, bucket
<1>2. /\ Rows(s, w) \in Seq(kept) /\ Distinct(Rows(s, w))
      /\ \A x \in kept : \E i \in DOMAIN Rows(s, w) : Rows(s, w)[i] = x
  <2> HIDE DEF kept
  <2> QED
    BY <1>1, AscendingLists
<1>3. Rows(s, w) \in RowSeqs
  <2> HIDE DEF kept
  <2> QED
    BY <1>1, <1>2, SeqMonotonic DEF RowSeqs
<1>4. ASSUME NEW t \in readings[s], w.from <= t, t < w.to
      PROVE  \E i \in DOMAIN Rows(s, w) :
                t <= Rows(s, w)[i] /\ Rows(s, w)[i] \div bucket = t \div bucket
  <2> DEFINE same == {u \in all : u \div bucket = t \div bucket}
  <2>1. same \in SUBSET Times
    OBVIOUS
  <2>2. t \in same
    BY <1>4, w.to \in Int, t \in Int DEF Windows, Times
  <2>3. Max(same) \in same /\ \A u \in same : u <= Max(same)
    <3> HIDE DEF same
    <3> QED
      BY <2>1, <2>2, LatestIsGreatest
  <2>4. Max(same) \in kept
    BY <2>3
  <2>5. PICK i \in DOMAIN Rows(s, w) : Rows(s, w)[i] = Max(same)
    <3> HIDE DEF same, kept
    <3> QED
      BY <1>2, <2>4
  <2>6. t <= Max(same) /\ Max(same) \div bucket = t \div bucket
    BY <2>2, <2>3
  <2> QED
    BY <2>5, <2>6
<1> QED
  BY <1>2, <1>3, <1>4 DEF Served, Covers, bucket

LEMMA RemovedLeavesOld ==
    ASSUME NEW S, NEW q \in Seq(S), NEW i \in 1 .. Len(q)
    PROVE  /\ RemoveAt(q, i) \in Seq(S)
           /\ \A j \in 1 .. Len(RemoveAt(q, i)) :
                 \E k \in 1 .. Len(q) : RemoveAt(q, i)[j] = q[k]
<1> DEFINE left == SubSeq(q, 1, i - 1)
           right == SubSeq(q, i + 1, Len(q))
<1>1. Len(q) \in Nat /\ \A k \in 1 .. Len(q) : q[k] \in S
  BY LenProperties, ElementOfSeq
<1>2. /\ left \in Seq(S) /\ Len(left) = i - 1
      /\ \A j \in 1 .. i - 1 : left[j] = q[j]
  <2>1. \A k \in 1 .. i - 1 : q[k] \in S
    BY <1>1
  <2>2. /\ left \in Seq(S) /\ Len(left) = i - 1
        /\ \A j \in 1 .. (i - 1) - 1 + 1 : left[j] = q[1 + j - 1]
    BY <2>1, <1>1, SubSeqProperties
  <2> HIDE DEF left
  <2> QED
    BY <2>2, <1>1
<1>3. /\ right \in Seq(S) /\ Len(right) = Len(q) - i
      /\ \A j \in 1 .. Len(q) - i : right[j] = q[i + j]
  <2>1. \A k \in i + 1 .. Len(q) : q[k] \in S
    BY <1>1
  <2>2. /\ right \in Seq(S)
        /\ Len(right) = IF i + 1 <= Len(q) THEN Len(q) - (i + 1) + 1 ELSE 0
        /\ \A j \in 1 .. Len(q) - (i + 1) + 1 : right[j] = q[(i + 1) + j - 1]
    BY <2>1, <1>1, SubSeqProperties
  <2>3. Len(right) = Len(q) - i
    BY <2>2, <1>1
  <2>4. \A j \in 1 .. Len(q) - i : j \in 1 .. Len(q) - (i + 1) + 1 /\ (i + 1) + j - 1 = i + j
    BY <1>1
  <2> HIDE DEF right
  <2> QED
    BY <2>2, <2>3, <2>4
<1> HIDE DEF left, right
<1>4. RemoveAt(q, i) = left \o right
  BY DEF RemoveAt, left, right
<1>5. /\ left \o right \in Seq(S) /\ Len(left \o right) = Len(q) - 1
      /\ \A j \in 1 .. Len(q) - 1 :
            (left \o right)[j] = IF j <= i - 1 THEN left[j] ELSE right[j - (i - 1)]
  BY <1>1, <1>2, <1>3, ConcatProperties
<1>6. ASSUME NEW j \in 1 .. Len(q) - 1
      PROVE  \E k \in 1 .. Len(q) : (left \o right)[j] = q[k]
  <2>1. CASE j <= i - 1
    <3>1. (left \o right)[j] = q[j] /\ j \in 1 .. Len(q)
      BY <1>1, <1>2, <1>5, <2>1
    <3> QED
      BY <3>1
  <2>2. CASE ~ (j <= i - 1)
    <3>1. j - (i - 1) \in 1 .. Len(q) - i /\ i + (j - (i - 1)) = j + 1 /\ j + 1 \in 1 .. Len(q)
      BY <1>1, <2>2
    <3>2. (left \o right)[j] = q[j + 1]
      BY <1>3, <1>5, <2>2, <3>1
    <3> QED
      BY <3>1, <3>2
  <2> QED
    BY <2>1, <2>2
<1> QED
  BY <1>4, <1>5, <1>6

(* Readings that come after the end of a window leave no gap in it.        *)
LEMMA CoversKept ==
    ASSUME NEW rows, NEW R, NEW R1 \in SUBSET Times, NEW w, NEW n \in Int,
           w.to \in Int, w.to <= n, \A t \in R1 : t \in R \/ n <= t,
           Covers(rows, R, w)
    PROVE  Covers(rows, R1, w)
<1> SUFFICES ASSUME NEW t \in R1, w.from <= t, t < w.to
             PROVE  t \in R
  BY DEF Covers
<1>1. t \in Int
  BY DEF Times
<1> QED
  BY <1>1

(* What a step may do to the world behind the page.                        *)
WorldGrows ==
    /\ WorldOK' /\ now <= now'
    /\ \A s \in Sensors : \A t \in readings'[s] : t \in readings[s] \/ now <= t

LEMMA WorldTyped ==
    ASSUME WorldOK, WorldGrows
    PROVE  /\ now \in Int /\ now' \in Int
           /\ \A s \in Sensors : readings[s] \in SUBSET Times /\ readings'[s] \in SUBSET Times
BY DEF WorldOK, WorldGrows, Times

LEMMA WorldStays ==
    ASSUME WorldOK, UNCHANGED <<now, readings>>, registered' \subseteq Sensors
    PROVE  WorldGrows
BY DEF WorldOK, WorldGrows, Times

LEMMA ServedKept ==
    ASSUME WorldOK, WorldGrows, NEW s \in Sensors, NEW w, w.to \in Int, w.to <= now,
           NEW rows, Served(rows, readings[s], w)
    PROVE  Served(rows, readings'[s], w) /\ w.to <= now'
<1>1. Covers(rows, readings'[s], w)
  BY CoversKept, WorldTyped DEF Served, WorldGrows
<1> QED
  BY <1>1, WorldTyped DEF Served, WorldGrows

------------------------------------------------------------------------------
LEMMA HistoryKept ==
    ASSUME WorldOK, WorldGrows, sensors \subseteq Sensors, HistoryOK,
           UNCHANGED <<range, rangeWindow, history, drawn, sensors>>
    PROVE  HistoryOK'
<1>1. InTime(rangeWindow)'
  BY WorldTyped DEF HistoryOK, InTime, Windows, WorldGrows
<1>2. ASSUME drawn, NEW s \in sensors
      PROVE  Covers(history[s], readings'[s], rangeWindow)
  <2>1. /\ Covers(history[s], readings[s], rangeWindow)
        /\ rangeWindow.to \in Int /\ rangeWindow.to <= now
    BY <1>2 DEF HistoryOK, InTime, Windows
  <2>2. s \in Sensors
    OBVIOUS
  <2> QED
    BY <2>1, <2>2, CoversKept, WorldTyped DEF WorldGrows
<1> QED
  BY <1>1, <1>2 DEF HistoryOK, Distinct, Covers

LEMMA LoadsKept ==
    ASSUME WorldOK, WorldGrows, sensors \subseteq Sensors, LoadsOK, UNCHANGED <<loads, sensors>>
    PROVE  LoadsOK'
<1> SUFFICES ASSUME NEW i \in 1 .. Len(loads)
             PROVE  /\ InTime(loads[i].window)'
                    /\ \A s \in sensors :
                          Served(loads[i].rows[s], readings[s], loads[i].window)
                             => Served(loads[i].rows[s], readings'[s], loads[i].window)
  BY DEF LoadsOK
<1>1. loads[i] \in Loads /\ InTime(loads[i].window)
  BY ElementOfSeq DEF LoadsOK
<1>2. loads[i].window.to \in Int /\ loads[i].window.to <= now
  BY <1>1 DEF Loads, Windows, InTime
<1>3. ASSUME NEW s \in sensors, Served(loads[i].rows[s], readings[s], loads[i].window)
      PROVE  Served(loads[i].rows[s], readings'[s], loads[i].window)
  <2>1. s \in Sensors
    OBVIOUS
  <2> QED
    BY <1>2, <1>3, <2>1, ServedKept
<1>4. InTime(loads[i].window)'
  BY <1>1, <1>2, WorldTyped DEF InTime, WorldGrows, LoadsOK
<1> QED
  BY <1>3, <1>4

LEMMA FetchesKept ==
    ASSUME WorldOK, WorldGrows, FetchesOK, UNCHANGED zoomFetches
    PROVE  FetchesOK'
<1> SUFFICES ASSUME NEW i \in 1 .. Len(zoomFetches)
             PROVE  /\ InTime(zoomFetches[i].window)'
                    /\ \A s \in DOMAIN zoomFetches[i].rows :
                          Served(zoomFetches[i].rows[s], readings[s], zoomFetches[i].window)
                             => Served(zoomFetches[i].rows[s], readings'[s],
                                       zoomFetches[i].window)
  BY DEF FetchesOK
<1>1. zoomFetches[i] \in Fetches /\ InTime(zoomFetches[i].window)
  BY ElementOfSeq DEF FetchesOK
<1>2. zoomFetches[i].window.to \in Int /\ zoomFetches[i].window.to <= now
  BY <1>1 DEF Fetches, Windows, InTime
<1>3. ASSUME NEW s \in DOMAIN zoomFetches[i].rows,
             Served(zoomFetches[i].rows[s], readings[s], zoomFetches[i].window)
      PROVE  Served(zoomFetches[i].rows[s], readings'[s], zoomFetches[i].window)
  <2>1. s \in Sensors
    BY <1>1 DEF Fetches, Rowsets
  <2> QED
    BY <1>2, <1>3, <2>1, ServedKept
<1>4. InTime(zoomFetches[i].window)'
  BY <1>1, <1>2, WorldTyped DEF InTime, WorldGrows, FetchesOK
<1> QED
  BY <1>3, <1>4

LEMMA CacheKept ==
    ASSUME WorldOK, WorldGrows, CacheOK, UNCHANGED zoomCache
    PROVE  CacheOK'
<1> DEFINE w == [from |-> zoomCache.min, to |-> zoomCache.until, points |-> zoomCache.points]
<1> SUFFICES ASSUME zoomCache # Nothing
             PROVE  /\ zoomCache.until <= now'
                    /\ \A s \in DOMAIN zoomCache.data :
                          Covers(zoomCache.data[s], readings'[s], w)
  BY DEF CacheOK
<1>1. zoomCache \in Caches /\ zoomCache.until <= now
  BY DEF CacheOK
<1>2. w.to \in Int /\ w.to <= now
  BY <1>1 DEF Caches
<1>3. ASSUME NEW s \in DOMAIN zoomCache.data
      PROVE  Covers(zoomCache.data[s], readings'[s], w)
  <2>1. s \in Sensors
    BY <1>1 DEF Caches
  <2>2. Covers(zoomCache.data[s], readings[s], w)
    BY <1>3 DEF CacheOK
  <2> HIDE DEF w
  <2> QED
    BY <1>2, <2>1, <2>2, CoversKept, WorldTyped DEF WorldGrows
<1>4. zoomCache.until <= now'
  BY <1>1, <1>2, WorldTyped DEF WorldGrows
<1> QED
  BY <1>3, <1>4

(* The parts of the invariant a step leaves alone, but for the world.      *)
LEMMA RestKept ==
    ASSUME DInv, WorldGrows
    PROVE  /\ WorldOK'
           /\ UNCHANGED <<range, rangeWindow, history, drawn, sensors>> => HistoryOK'
           /\ UNCHANGED <<loads, sensors>> => LoadsOK'
           /\ UNCHANGED zoomFetches => FetchesOK'
           /\ UNCHANGED zoomCache => CacheOK'
           /\ UNCHANGED <<zoomedRange, zoomTimer, zoomed>> => TimersOK'
           /\ UNCHANGED <<poll, latest>> => PollOK'
           /\ UNCHANGED <<registered, loadingSensors, sensors, loads, drawn>> => PageOK'
<1>1. sensors \subseteq Sensors
  BY DEF DInv, WorldOK, PageOK
<1> QED
  BY <1>1, HistoryKept, LoadsKept, FetchesKept, CacheKept
  DEF DInv, WorldGrows, TimersOK, PollOK, PageOK

LEMMA RowsetsChange ==
    ASSUME NEW rows \in Rowsets, NEW s, NEW v \in RowSeqs
    PROVE  [rows EXCEPT ![s] = v] \in Rowsets
BY DEF Rowsets

(* Answering one sensor of one request changes that place only.            *)
LEMMA ServeChanges ==
    ASSUME NEW S \in {Loads, Fetches}, NEW q \in Seq(S), NEW i \in 1 .. Len(q),
           NEW s \in DOMAIN q[i].rows, Rows(s, q[i].window) \in RowSeqs
    PROVE  /\ Serve(q, i, s) \in Seq(S) /\ Len(Serve(q, i, s)) = Len(q)
           /\ \A j \in 1 .. Len(q) \ {i} : Serve(q, i, s)[j] = q[j]
           /\ Serve(q, i, s)[i].window = q[i].window
           /\ S = Fetches => Serve(q, i, s)[i].zoom = q[i].zoom
           /\ DOMAIN Serve(q, i, s)[i].rows = DOMAIN q[i].rows
           /\ Serve(q, i, s)[i].rows[s] = Rows(s, q[i].window)
           /\ \A u \in DOMAIN q[i].rows \ {s} : Serve(q, i, s)[i].rows[u] = q[i].rows[u]
<1> DEFINE new == [q[i].rows EXCEPT ![s] = Rows(s, q[i].window)]
           e == [q[i] EXCEPT !.rows = new]
<1>1. q[i] \in S
  BY ElementOfSeq
<1>2. q[i].rows \in Rowsets
  <2>1. CASE S = Loads
    BY <1>1, <2>1 DEF Loads
  <2>2. CASE S = Fetches
    BY <1>1, <2>2 DEF Fetches
  <2> QED
    BY <2>1, <2>2
<1>3. new \in Rowsets
  BY <1>2, RowsetsChange
<1>4. /\ e \in S /\ e.rows = new /\ e.window = q[i].window
      /\ S = Fetches => e.zoom = q[i].zoom
  <2> HIDE DEF new
  <2>1. CASE S = Loads
    BY <1>1, <1>3, <2>1 DEF Loads, Fetches
  <2>2. CASE S = Fetches
    BY <1>1, <1>3, <2>2 DEF Fetches
  <2> QED
    BY <2>1, <2>2
<1>5. /\ DOMAIN new = DOMAIN q[i].rows /\ new[s] = Rows(s, q[i].window)
      /\ \A u \in DOMAIN q[i].rows \ {s} : new[u] = q[i].rows[u]
  BY <1>2 DEF Rowsets
<1>6. Serve(q, i, s) = [q EXCEPT ![i] = e]
  BY DEF Serve
<1> HIDE DEF new, e
<1>7. /\ Serve(q, i, s) \in Seq(S) /\ Len(Serve(q, i, s)) = Len(q)
      /\ Serve(q, i, s)[i] = e
      /\ \A j \in 1 .. Len(q) \ {i} : Serve(q, i, s)[j] = q[j]
  BY <1>4, <1>6, ExceptSeq
<1> QED
  BY <1>4, <1>5, <1>7

------------------------------------------------------------------------------
(* Windows that are asked for end now or before.                           *)
LEMMA RangeWindowTyped ==
    ASSUME WorldOK, NEW r \in Ranges
    PROVE  RangeWindow(r) \in Windows /\ InTime(RangeWindow(r))
<1>1. Hours[r] \in Nat \ {0} /\ MaxPoints[r] \in Nat \ {0} /\ now \in Int
  BY DashboardAssumption DEF WorldOK, Times
<1> QED
  BY <1>1 DEF RangeWindow, Windows, InTime

LEMMA AskedTyped ==
    ASSUME NEW w \in Windows, NEW list \in SUBSET Sensors
    PROVE  /\ Asked(w, list) \in Loads /\ Asked(w, list).window = w
           /\ DOMAIN Asked(w, list).rows = list
           /\ \A s \in list : Asked(w, list).rows[s] = Nothing
<1>1. [s \in list |-> Nothing] \in Rowsets
  BY DEF Rowsets
<1> QED
  BY <1>1 DEF Asked, Loads

LEMMA MountedOK == WorldOK /\ Mounted => DInv
<1> SUFFICES ASSUME WorldOK, Mounted PROVE DInv
  OBVIOUS
<1>1. /\ rangeWindow \in Windows /\ InTime(rangeWindow)
      /\ DefaultRange \in Ranges
  BY RangeWindowTyped, DashboardAssumption DEF Mounted
<1>2. /\ history \in [Sensors -> RowSeqs] /\ \A s \in Sensors : Distinct(history[s])
  BY EmptySeq DEF Mounted, RowSeqs, Distinct
<1>3. HistoryOK
  BY <1>1, <1>2 DEF HistoryOK, Mounted
<1>4. LoadsOK /\ FetchesOK
  BY EmptySeq DEF LoadsOK, FetchesOK, Mounted
<1>5. PollOK
  <2>1. <<>> \in [{} -> Times]
    OBVIOUS
  <2> QED
    BY <2>1 DEF PollOK, Mounted
<1>6. PageOK /\ TimersOK /\ CacheOK
  BY DEF PageOK, TimersOK, CacheOK, Mounted
<1> QED
  BY <1>3, <1>4, <1>5, <1>6 DEF DInv

LEMMA InitOK == Init => DInv
<1> SUFFICES ASSUME Init PROVE DInv
  OBVIOUS
<1>1. WorldOK
  BY DashboardAssumption DEF Init, WorldOK, Times
<1> QED
  BY <1>1, MountedOK DEF Init

LEMMA ReloadOK ==
    ASSUME DInv, Reload
    PROVE  DInv'
<1>1. WorldOK'
  BY DEF DInv, WorldOK, Reload, world
<1>2. Mounted'
  BY DEF Reload, Mounted, RangeWindow, world
<1>3. WorldOK' /\ Mounted' => DInv'
  BY MountedOK, PTL
<1> QED
  BY <1>1, <1>2, <1>3

------------------------------------------------------------------------------
LEMMA WorldStep ==
    ASSUME DInv, Tick \/ (\E s \in Sensors : Report(s)) \/ \E s \in Sensors : Register(s)
    PROVE  DInv'
<1>1. CASE Tick
  <2>1. WorldGrows
    BY <1>1, DashboardAssumption DEF DInv, WorldOK, WorldGrows, Tick, Times
  <2> QED
    BY <1>1, <2>1, RestKept DEF DInv, Tick, page, shown, polling, zoom
<1>2. ASSUME NEW s \in Sensors, Report(s)
      PROVE  DInv'
  <2>1. now \in Int /\ readings \in [Sensors -> SUBSET Times] /\ now \in Times
    BY DEF DInv, WorldOK, Times
  <2>2. readings' \in [Sensors -> SUBSET Times]
    BY <1>2, <2>1 DEF Report
  <2>3. WorldGrows
    BY <1>2, <2>1, <2>2 DEF DInv, WorldOK, WorldGrows, Report
  <2> QED
    BY <1>2, <2>3, RestKept DEF DInv, Report, page, shown, polling, zoom
<1>3. ASSUME NEW s \in Sensors, Register(s)
      PROVE  DInv'
  <2>1. WorldGrows
    BY <1>3, WorldStays DEF DInv, WorldOK, Register
  <2>2. PageOK'
    BY <1>3 DEF DInv, PageOK, Register, page, shown
  <2> QED
    BY <1>3, <2>1, <2>2, RestKept DEF DInv, Register, page, shown, polling, zoom
<1> QED
  BY <1>1, <1>2, <1>3

LEMMA UnchangedStep ==
    ASSUME DInv, UNCHANGED vars
    PROVE  DInv'
<1>1. WorldGrows
  BY WorldStays DEF DInv, WorldOK, vars, world
<1> QED
  BY <1>1, RestKept DEF DInv, vars, world, page, shown, polling, zoom

(* A history that is asked for joins those under way for the same sensors. *)
LEMMA LoadAppended ==
    ASSUME DInv, NEW r \in Ranges, NEW list \in SUBSET Sensors,
           loads = <<>> \/ list = sensors,
           loads' = Append(loads, Asked(RangeWindow(r), list)),
           sensors' = list, UNCHANGED <<now, readings>>
    PROVE  LoadsOK'
<1> DEFINE new == Asked(RangeWindow(r), list)
<1>1. /\ new \in Loads /\ InTime(new.window) /\ DOMAIN new.rows = list
      /\ \A s \in list : new.rows[s] = Nothing
  BY RangeWindowTyped, AskedTyped DEF DInv
<1> HIDE DEF new
<1>2. loads \in Seq(Loads) /\ Len(loads) \in Nat
  BY LenProperties DEF DInv, LoadsOK
<1>3. /\ loads' \in Seq(Loads) /\ Len(loads') = Len(loads) + 1
      /\ \A i \in 1 .. Len(loads) : loads'[i] = loads[i]
      /\ loads'[Len(loads) + 1] = new
  BY <1>1, <1>2, AppendProperties DEF new
<1>4. ASSUME NEW i \in 1 .. Len(loads)
      PROVE  /\ InTime(loads[i].window) /\ DOMAIN loads[i].rows = list
             /\ \A s \in list :
                   \/ loads[i].rows[s] = Nothing
                   \/ Served(loads[i].rows[s], readings[s], loads[i].window)
  <2>1. loads # <<>>
    BY <1>2, EmptySeq
  <2> QED
    BY <2>1 DEF DInv, LoadsOK
<1>5. \A i \in 1 .. Len(loads') : i \in 1 .. Len(loads) \/ i = Len(loads) + 1
  BY <1>2, <1>3
<1>6. ASSUME NEW i \in 1 .. Len(loads')
      PROVE  /\ InTime(loads'[i].window) /\ DOMAIN loads'[i].rows = list
             /\ \A s \in list :
                   \/ loads'[i].rows[s] = Nothing
                   \/ Served(loads'[i].rows[s], readings[s], loads'[i].window)
  BY <1>1, <1>3, <1>4, <1>5
<1> QED
  BY <1>3, <1>6 DEF LoadsOK, InTime

LEMMA LoadSensorsOK ==
    ASSUME DInv, LoadSensors
    PROVE  DInv'
<1>1. /\ sensors = {} /\ loads = <<>> /\ ~drawn /\ range \in Ranges
      /\ registered \in SUBSET Sensors
  BY DEF DInv, PageOK, HistoryOK, WorldOK, LoadSensors
<1>2. WorldGrows
  BY WorldStays DEF DInv, WorldOK, LoadSensors, world
<1>3. PageOK'
  BY <1>1 DEF DInv, PageOK, LoadSensors, world
<1>4. HistoryOK'
  BY <1>1 DEF DInv, HistoryOK, LoadSensors, world, InTime, Distinct
<1>5. LoadsOK' /\ TimersOK'
  <2>1. CASE registered = {}
    <3>1. UNCHANGED <<loads, sensors, zoomedRange, zoomTimer, zoomed>>
      BY <1>1, <2>1 DEF LoadSensors, LoadHistory
    <3> QED
      BY <1>2, <3>1, RestKept
  <2>2. CASE registered # {}
    <3>1. LoadsOK'
      BY <1>1, <2>2, LoadAppended DEF LoadSensors, LoadHistory, world
    <3>2. TimersOK'
      BY <2>2 DEF LoadSensors, LoadHistory, TimersOK
    <3> QED
      BY <3>1, <3>2
  <2> QED
    BY <2>1, <2>2
<1>6. PollOK'
  BY DEF DInv, PollOK, LoadSensors
<1> QED
  BY <1>2, <1>3, <1>4, <1>5, <1>6, RestKept DEF DInv, LoadSensors

LEMMA LoadSensorsFailsOK ==
    ASSUME DInv, LoadSensorsFails
    PROVE  DInv'
<1>1. WorldGrows
  BY WorldStays DEF DInv, WorldOK, LoadSensorsFails, world
<1>2. PageOK'
  BY DEF DInv, PageOK, LoadSensorsFails, world, shown
<1> QED
  BY <1>1, <1>2, RestKept DEF DInv, LoadSensorsFails, world, shown, polling, zoom

LEMMA SetRangeOK ==
    ASSUME DInv, NEW r \in Ranges, SetRange(r)
    PROVE  DInv'
<1>1. WorldGrows
  BY WorldStays DEF DInv, WorldOK, SetRange, world
<1>2. HistoryOK'
  BY DEF DInv, HistoryOK, SetRange, world, page, InTime, Distinct, Covers
<1>3. LoadsOK' /\ TimersOK' /\ PageOK'
  <2>1. CASE sensors = {}
    <3>1. UNCHANGED <<registered, loadingSensors, sensors, loads, drawn,
                      zoomedRange, zoomTimer, zoomed>>
      BY <2>1 DEF SetRange, LoadHistory, world, page
    <3> QED
      BY <1>1, <3>1, RestKept
  <2>2. CASE sensors # {}
    <3>1. sensors \in SUBSET Sensors
      BY DEF DInv, PageOK, WorldOK
    <3>2. LoadsOK'
      BY <2>2, <3>1, LoadAppended DEF SetRange, LoadHistory, world, page
    <3>3. TimersOK' /\ PageOK'
      BY <2>2 DEF SetRange, LoadHistory, TimersOK, PageOK, world, page, DInv
    <3> QED
      BY <3>2, <3>3
  <2> QED
    BY <2>1, <2>2
<1>4. CacheOK'
  BY DEF SetRange, CacheOK
<1> QED
  BY <1>1, <1>2, <1>3, <1>4, RestKept DEF DInv, SetRange, world, page, polling

LEMMA ServeLoadOK ==
    ASSUME DInv, NEW i \in DOMAIN loads, NEW s \in DOMAIN loads[i].rows, ServeLoad(i, s)
    PROVE  DInv'
<1>1. WorldGrows /\ UNCHANGED <<now, readings>>
  BY WorldStays DEF DInv, WorldOK, ServeLoad, world
<1>2. loads \in Seq(Loads) /\ i \in 1 .. Len(loads)
  BY LenProperties DEF DInv, LoadsOK
<1>3. /\ InTime(loads[i].window) /\ DOMAIN loads[i].rows = sensors
      /\ sensors \subseteq Sensors /\ loads[i] \in Loads
  BY <1>2, ElementOfSeq DEF DInv, LoadsOK, PageOK, WorldOK
<1>4. Served(Rows(s, loads[i].window), readings[s], loads[i].window)
  <2>1. s \in Sensors /\ loads[i].window \in Windows
    BY <1>3 DEF Loads
  <2>2. readings[s] \in SUBSET Times
    BY <2>1 DEF DInv, WorldOK
  <2> QED
    BY <2>1, <2>2, RowsServed
<1>5. /\ loads' \in Seq(Loads) /\ Len(loads') = Len(loads)
      /\ \A j \in 1 .. Len(loads) \ {i} : loads'[j] = loads[j]
      /\ loads'[i].window = loads[i].window
      /\ DOMAIN loads'[i].rows = sensors
      /\ loads'[i].rows[s] = Rows(s, loads[i].window)
      /\ \A u \in sensors \ {s} : loads'[i].rows[u] = loads[i].rows[u]
  <2>1. Rows(s, loads[i].window) \in RowSeqs
    BY <1>4 DEF Served
  <2>2. loads' = Serve(loads, i, s)
    BY DEF ServeLoad
  <2> QED
    BY <1>2, <1>3, <2>1, <2>2, ServeChanges
<1>6. ASSUME NEW j \in 1 .. Len(loads')
      PROVE  /\ InTime(loads'[j].window) /\ DOMAIN loads'[j].rows = sensors
             /\ \A u \in sensors :
                   \/ loads'[j].rows[u] = Nothing
                   \/ Served(loads'[j].rows[u], readings[u], loads'[j].window)
  <2>1. /\ InTime(loads[j].window) /\ DOMAIN loads[j].rows = sensors
        /\ \A u \in sensors :
              \/ loads[j].rows[u] = Nothing
              \/ Served(loads[j].rows[u], readings[u], loads[j].window)
    BY <1>5 DEF DInv, LoadsOK
  <2>2. CASE j = i
    <3>1. ASSUME NEW u \in sensors
          PROVE  \/ loads'[i].rows[u] = Nothing
                 \/ Served(loads'[i].rows[u], readings[u], loads[i].window)
      BY <1>4, <1>5, <2>1, <2>2
    <3> QED
      BY <1>3, <1>5, <2>2, <3>1
  <2>3. CASE j # i
    BY <1>5, <2>1, <2>3
  <2> QED
    BY <2>2, <2>3
<1>7. LoadsOK'
  <2>1. sensors' = sensors
    BY DEF ServeLoad, page
  <2> QED
    BY <1>1, <1>5, <1>6, <2>1 DEF LoadsOK, InTime
<1>8. PageOK'
  <2>1. ~loadingSensors
    BY <1>2, <1>3, EmptySeq DEF DInv, PageOK
  <2> QED
    BY <2>1 DEF DInv, PageOK, ServeLoad, world, page
<1> QED
  BY <1>1, <1>7, <1>8, RestKept DEF DInv, ServeLoad, world, page, polling, zoom

(* What is left of the requests when one is done with.                     *)
LEMMA LoadRemoved ==
    ASSUME DInv, NEW i \in DOMAIN loads, loads' = RemoveAt(loads, i),
           UNCHANGED <<now, readings, sensors>>
    PROVE  LoadsOK' /\ loads # <<>>
<1>1. loads \in Seq(Loads) /\ i \in 1 .. Len(loads)
  BY LenProperties DEF DInv, LoadsOK
<1>2. /\ loads' \in Seq(Loads)
      /\ \A j \in 1 .. Len(loads') : \E k \in 1 .. Len(loads) : loads'[j] = loads[k]
  BY <1>1, RemovedLeavesOld
<1>3. ASSUME NEW j \in 1 .. Len(loads')
      PROVE  /\ InTime(loads'[j].window) /\ DOMAIN loads'[j].rows = sensors
             /\ \A u \in sensors :
                   \/ loads'[j].rows[u] = Nothing
                   \/ Served(loads'[j].rows[u], readings[u], loads'[j].window)
  <2>1. PICK k \in 1 .. Len(loads) : loads'[j] = loads[k]
    BY <1>2
  <2> QED
    BY <2>1 DEF DInv, LoadsOK
<1>4. LoadsOK'
  BY <1>2, <1>3 DEF LoadsOK, InTime
<1> QED
  BY <1>1, <1>4, EmptySeq

LEMMA ShowHistoryOK ==
    ASSUME DInv, NEW i \in DOMAIN loads, ShowHistory(i)
    PROVE  DInv'
<1>1. WorldGrows /\ UNCHANGED <<now, readings>>
  BY WorldStays DEF DInv, WorldOK, ShowHistory, world
<1>2. LoadsOK' /\ loads # <<>>
  BY <1>1, LoadRemoved DEF ShowHistory, page
<1>3. PageOK'
  BY <1>2 DEF DInv, PageOK, ShowHistory, world, page
<1>4. /\ loads[i] \in Loads /\ InTime(loads[i].window) /\ DOMAIN loads[i].rows = sensors
      /\ \A s \in sensors : Served(loads[i].rows[s], readings[s], loads[i].window)
  <2>1. loads \in Seq(Loads) /\ i \in 1 .. Len(loads)
    BY LenProperties DEF DInv, LoadsOK
  <2> QED
    BY <2>1, ElementOfSeq DEF DInv, LoadsOK, ShowHistory, Answered
<1>5. HistoryOK'
  <2>1. loads[i].window \in Windows
    BY <1>4 DEF Loads
  <2>2. /\ history' \in [Sensors -> RowSeqs]
        /\ \A s \in Sensors : Distinct(history'[s])
    <3>1. ASSUME NEW s \in Sensors
          PROVE  history'[s] \in RowSeqs /\ Distinct(history'[s])
      <4>1. CASE s \in sensors
        BY <1>4, <4>1 DEF ShowHistory, Served
      <4>2. CASE s \notin sensors
        BY <1>4, <4>2, EmptySeq DEF ShowHistory, RowSeqs, Distinct
      <4> QED
        BY <4>1, <4>2
    <3> QED
      BY <3>1 DEF ShowHistory
  <2>3. \A s \in sensors : Covers(history'[s], readings[s], loads[i].window)
    BY <1>4 DEF ShowHistory, Served, DInv, PageOK, WorldOK
  <2>4. /\ rangeWindow' = loads[i].window /\ drawn' = TRUE
        /\ range' = range /\ sensors' = sensors /\ range \in Ranges
    BY DEF ShowHistory, page, DInv, HistoryOK
  <2> QED
    BY <1>1, <1>4, <2>1, <2>2, <2>3, <2>4 DEF HistoryOK, InTime
<1> QED
  BY <1>1, <1>2, <1>3, <1>5, RestKept DEF DInv, ShowHistory, world, page, polling, zoom

LEMMA LoadFailsOK ==
    ASSUME DInv, NEW i \in DOMAIN loads, LoadFails(i)
    PROVE  DInv'
<1>1. WorldGrows /\ UNCHANGED <<now, readings>>
  BY WorldStays DEF DInv, WorldOK, LoadFails, world
<1>2. LoadsOK' /\ loads # <<>>
  BY <1>1, LoadRemoved DEF LoadFails, page
<1>3. PageOK'
  BY <1>2 DEF DInv, PageOK, LoadFails, world, page
<1> QED
  BY <1>1, <1>2, <1>3, RestKept DEF DInv, LoadFails, world, page, polling, zoom

------------------------------------------------------------------------------
LEMMA PollStep ==
    ASSUME DInv, PollTimer \/ PollFails
    PROVE  DInv'
<1>1. WorldGrows
  BY WorldStays DEF DInv, WorldOK, PollTimer, PollFails, world
<1>2. PollOK'
  BY DEF DInv, PollOK, PollTimer, PollFails
<1> QED
  BY <1>1, <1>2, RestKept DEF DInv, PollTimer, PollFails, world, page, shown, zoom

LEMMA ServePollOK ==
    ASSUME DInv, NEW named \in SUBSET Reporting, ServePoll(named)
    PROVE  DInv'
<1>1. named \in SUBSET Sensors
  BY DEF Reporting
<1>2. WorldGrows
  BY <1>1, WorldStays DEF DInv, WorldOK, ServePoll
<1>3. latest' \in [named -> Times]
  <2>1. \A s \in named : Max(readings[s]) \in Times
    BY LatestIsGreatest DEF Reporting, DInv, WorldOK
  <2> QED
    BY <2>1 DEF ServePoll
<1>4. PollOK'
  BY <1>1, <1>3 DEF PollOK, ServePoll
<1>5. PageOK'
  BY DEF DInv, PageOK, ServePoll, page, shown
<1> QED
  BY <1>2, <1>4, <1>5, RestKept DEF DInv, ServePoll, page, shown, zoom

(* A reading that is merged in is drawn once, and leaves what was there.   *)
LEMMA MergedKeeps ==
    ASSUME NEW rows \in RowSeqs, NEW t \in Times, Distinct(rows)
    PROVE  /\ Merged(rows, t) \in RowSeqs /\ Distinct(Merged(rows, t))
           /\ \A R, w : Covers(rows, R, w) => Covers(Merged(rows, t), R, w)
<1>1. CASE Contains(rows, t)
  BY <1>1 DEF Merged
<1>2. CASE ~Contains(rows, t)
  <2>1. Merged(rows, t) = Append(rows, t)
    BY <1>2 DEF Merged
  <2>2. rows \in Seq(Times) /\ Len(rows) \in Nat /\ DOMAIN rows = 1 .. Len(rows)
    BY LenProperties DEF RowSeqs
  <2>3. /\ Append(rows, t) \in Seq(Times) /\ Len(Append(rows, t)) = Len(rows) + 1
        /\ \A i \in 1 .. Len(rows) : Append(rows, t)[i] = rows[i]
        /\ Append(rows, t)[Len(rows) + 1] = t
    BY <2>2, AppendProperties
  <2>4. DOMAIN Append(rows, t) = 1 .. Len(rows) + 1
    BY <2>3, LenProperties
  <2>5. \A i \in 1 .. Len(rows) + 1 : i \in 1 .. Len(rows) \/ i = Len(rows) + 1
    BY <2>2
  <2>6. \A i \in 1 .. Len(rows) : rows[i] # t
    BY <1>2 DEF Contains
  <2>7. Distinct(Append(rows, t))
    BY <2>2, <2>3, <2>4, <2>5, <2>6 DEF Distinct
  <2>8. ASSUME NEW R, NEW w, Covers(rows, R, w)
        PROVE  Covers(Append(rows, t), R, w)
    <3>1. \A i \in DOMAIN rows : i \in DOMAIN Append(rows, t) /\ Append(rows, t)[i] = rows[i]
      BY <2>2, <2>3, <2>4
    <3> QED
      BY <2>8, <3>1 DEF Covers
  <2> QED
    BY <2>1, <2>3, <2>7, <2>8 DEF RowSeqs
<1> QED
  BY <1>1, <1>2

LEMMA PollAnsweredOK ==
    ASSUME DInv, PollAnswered
    PROVE  DInv'
<1>1. WorldGrows /\ UNCHANGED <<now, readings, sensors>>
  BY WorldStays DEF DInv, WorldOK, PollAnswered, world, page
<1>2. PollOK'
  <2>1. <<>> \in [{} -> Times]
    OBVIOUS
  <2> QED
    BY <2>1 DEF PollOK, PollAnswered
<1>3. ASSUME NEW s \in Sensors
      PROVE  /\ history'[s] \in RowSeqs /\ Distinct(history'[s])
             /\ \A R, w : Covers(history[s], R, w) => Covers(history'[s], R, w)
  <2>1. history[s] \in RowSeqs /\ Distinct(history[s])
    BY DEF DInv, HistoryOK
  <2>2. CASE s \in DOMAIN latest
    <3>1. latest[s] \in Times
      BY <2>2 DEF DInv, PollOK
    <3>2. history'[s] = Merged(history[s], latest[s])
      BY <2>2 DEF PollAnswered
    <3> QED
      BY <2>1, <3>1, <3>2, MergedKeeps
  <2>3. CASE s \notin DOMAIN latest
    <3>1. history'[s] = history[s]
      BY <2>3 DEF PollAnswered
    <3> QED
      BY <2>1, <3>1
  <2> QED
    BY <2>2, <2>3
<1>4. HistoryOK'
  <2>1. history' \in [Sensors -> RowSeqs]
    BY <1>3 DEF PollAnswered
  <2>2. drawn => \A s \in sensors : Covers(history'[s], readings[s], rangeWindow)
    BY <1>3 DEF DInv, HistoryOK, PageOK, WorldOK
  <2>3. UNCHANGED <<range, rangeWindow, drawn>>
    BY DEF PollAnswered
  <2> QED
    BY <1>1, <1>3, <2>1, <2>2, <2>3 DEF DInv, HistoryOK, InTime, Distinct, Covers
<1> QED
  BY <1>1, <1>2, <1>4, RestKept DEF DInv, PollAnswered, world, page, zoom

------------------------------------------------------------------------------
LEMMA ZoomPointsTyped ==
    ASSUME HistoryOK, NEW z \in Zooms
    PROVE  ZoomPoints(z) \in Nat \ {0}
<1> DEFINE a == rangeWindow.points * (z.max - z.min)
           b == rangeWindow.to - rangeWindow.from
<1>1. z.min \in Int /\ z.max \in Int
  BY DashboardAssumption
<1>2. rangeWindow.points \in Int /\ b \in Int /\ b > 0
  BY DEF HistoryOK, Windows, InTime
<1>3. a \in Int
  BY <1>1, <1>2
<1> HIDE DEF a, b
<1>4. Quotient(a, b) \in Int
  BY <1>2, <1>3 DEF Quotient
<1>5. MinPoints \in Int /\ MinPoints > 0
  BY DashboardAssumption
<1>6. Max({MinPoints, Quotient(a, b)}) \in Int /\ MinPoints <= Max({MinPoints, Quotient(a, b)})
  BY <1>4, <1>5, GreaterOfTwo
<1> QED
  BY <1>5, <1>6 DEF ZoomPoints, a, b

(* What the user does, and what is shown without asking.                   *)
LEMMA ZoomStep ==
    ASSUME DInv,
           (\E z \in Zooms : Zoom(z)) \/ ResetZoom \/ ZoomFromCache \/ ZoomAhead
    PROVE  DInv'
<1>1. UNCHANGED <<world, page, shown, polling, zoomCache, zoomFetches>>
  BY DEF Zoom, ResetZoom, ZoomFromCache, ZoomAhead, ZoomChanged
<1>2. WorldGrows
  BY <1>1, WorldStays DEF DInv, WorldOK, world
<1>3. TimersOK'
  <2>1. ASSUME NEW z \in Zooms, Zoom(z)
        PROVE  TimersOK'
    BY <2>1 DEF DInv, TimersOK, Zoom
  <2>2. CASE ResetZoom
    BY <2>2 DEF TimersOK, ResetZoom
  <2>3. CASE ZoomFromCache
    <3>1. zoomCache.data \in UNION {[S -> RowSeqs] : S \in SUBSET Sensors}
      BY <2>3 DEF DInv, CacheOK, Caches, ZoomFromCache, CacheHolds
    <3>2. \A s \in DOMAIN zoomed' : zoomed'[s] \in RowSeqs
      BY <2>3, <3>1 DEF ZoomFromCache
    <3> QED
      BY <2>3, <3>2 DEF DInv, TimersOK, ZoomFromCache, ZoomChanged
  <2>4. CASE ZoomAhead
    <3>1. \A s \in DOMAIN zoomed' : zoomed'[s] \in RowSeqs
      BY <2>4 DEF ZoomAhead
    <3> QED
      BY <2>4, <3>1 DEF DInv, TimersOK, ZoomAhead, ZoomChanged
  <2> QED
    BY <2>1, <2>2, <2>3, <2>4
<1> QED
  BY <1>1, <1>2, <1>3, RestKept DEF DInv, world, page, shown, polling

LEMMA ZoomFetchOK ==
    ASSUME DInv, ZoomFetch
    PROVE  DInv'
<1> DEFINE w == [from |-> zoomTimer.min, to |-> Min({zoomTimer.max, now}),
                 points |-> ZoomPoints(zoomTimer)]
           new == [zoom |-> zoomTimer, window |-> w, rows |-> [s \in sensors |-> Nothing]]
<1>1. WorldGrows /\ UNCHANGED <<now, readings>>
  BY WorldStays DEF DInv, WorldOK, ZoomFetch, ZoomChanged, world
<1>2. zoomTimer \in Zooms /\ sensors \in SUBSET Sensors /\ now \in Int
  BY DEF DInv, TimersOK, PageOK, WorldOK, ZoomFetch, ZoomChanged, Times
<1>3. zoomTimer.min \in Int /\ zoomTimer.max \in Int /\ zoomTimer.min < zoomTimer.max
  BY <1>2, DashboardAssumption
<1>4. Min({zoomTimer.max, now}) \in {zoomTimer.max, now} /\ Min({zoomTimer.max, now}) <= now
  BY <1>2, <1>3, GreaterOfTwo
<1>5. ZoomPoints(zoomTimer) \in Nat \ {0}
  BY <1>2, ZoomPointsTyped DEF DInv
<1>6. w \in Windows /\ InTime(w) /\ w.from = zoomTimer.min
  BY <1>2, <1>3, <1>4, <1>5 DEF Windows, InTime, ZoomFetch
<1> HIDE DEF w
<1>7. new \in Fetches
  <2>1. [s \in sensors |-> Nothing] \in Rowsets
    BY <1>2 DEF Rowsets
  <2> QED
    BY <1>2, <1>6, <2>1 DEF Fetches
<1>8. /\ InTime(new.window) /\ new.window.from = new.zoom.min
      /\ \A s \in DOMAIN new.rows : new.rows[s] = Nothing
  BY <1>6
<1>9. zoomFetches' = Append(zoomFetches, new)
  BY DEF ZoomFetch, w
<1> HIDE DEF new
<1>10. zoomFetches \in Seq(Fetches) /\ Len(zoomFetches) \in Nat
  BY LenProperties DEF DInv, FetchesOK
<1>11. /\ zoomFetches' \in Seq(Fetches) /\ Len(zoomFetches') = Len(zoomFetches) + 1
       /\ \A i \in 1 .. Len(zoomFetches) : zoomFetches'[i] = zoomFetches[i]
       /\ zoomFetches'[Len(zoomFetches) + 1] = new
  BY <1>7, <1>9, <1>10, AppendProperties
<1>12. ASSUME NEW i \in 1 .. Len(zoomFetches')
       PROVE  /\ InTime(zoomFetches'[i].window)
              /\ zoomFetches'[i].window.from = zoomFetches'[i].zoom.min
              /\ \A s \in DOMAIN zoomFetches'[i].rows :
                    \/ zoomFetches'[i].rows[s] = Nothing
                    \/ Served(zoomFetches'[i].rows[s], readings[s], zoomFetches'[i].window)
  <2>1. i \in 1 .. Len(zoomFetches) \/ i = Len(zoomFetches) + 1
    BY <1>10, <1>11
  <2>2. CASE i \in 1 .. Len(zoomFetches)
    BY <1>11, <2>2 DEF DInv, FetchesOK
  <2>3. CASE i = Len(zoomFetches) + 1
    BY <1>8, <1>11, <2>3
  <2> QED
    BY <2>1, <2>2, <2>3
<1>13. FetchesOK'
  BY <1>1, <1>11, <1>12 DEF FetchesOK, InTime
<1>14. TimersOK'
  BY DEF DInv, TimersOK, ZoomFetch, ZoomChanged
<1> QED
  BY <1>1, <1>13, <1>14, RestKept DEF DInv, ZoomFetch, ZoomChanged, world, page, shown, polling

LEMMA ServeZoomOK ==
    ASSUME DInv, NEW i \in DOMAIN zoomFetches, NEW s \in DOMAIN zoomFetches[i].rows,
           ServeZoom(i, s)
    PROVE  DInv'
<1> DEFINE all == DOMAIN zoomFetches[i].rows
<1>1. WorldGrows /\ UNCHANGED <<now, readings>>
  BY WorldStays DEF DInv, WorldOK, ServeZoom, world
<1>2. zoomFetches \in Seq(Fetches) /\ i \in 1 .. Len(zoomFetches)
  BY LenProperties DEF DInv, FetchesOK
<1>3. InTime(zoomFetches[i].window) /\ zoomFetches[i] \in Fetches /\ all \subseteq Sensors
  <2>1. zoomFetches[i] \in Fetches
    BY <1>2, ElementOfSeq
  <2> QED
    BY <1>2, <2>1 DEF DInv, FetchesOK, Fetches, Rowsets
<1>4. Served(Rows(s, zoomFetches[i].window), readings[s], zoomFetches[i].window)
  <2>1. s \in Sensors /\ zoomFetches[i].window \in Windows
    BY <1>3 DEF Fetches
  <2>2. readings[s] \in SUBSET Times
    BY <2>1 DEF DInv, WorldOK
  <2> QED
    BY <2>1, <2>2, RowsServed
<1>5. /\ zoomFetches' \in Seq(Fetches) /\ Len(zoomFetches') = Len(zoomFetches)
      /\ \A j \in 1 .. Len(zoomFetches) \ {i} : zoomFetches'[j] = zoomFetches[j]
      /\ zoomFetches'[i].window = zoomFetches[i].window
      /\ zoomFetches'[i].zoom = zoomFetches[i].zoom
      /\ DOMAIN zoomFetches'[i].rows = all
      /\ zoomFetches'[i].rows[s] = Rows(s, zoomFetches[i].window)
      /\ \A u \in all \ {s} : zoomFetches'[i].rows[u] = zoomFetches[i].rows[u]
  <2>1. Rows(s, zoomFetches[i].window) \in RowSeqs
    BY <1>4 DEF Served
  <2>2. zoomFetches' = Serve(zoomFetches, i, s)
    BY DEF ServeZoom
  <2> QED
    BY <1>2, <2>1, <2>2, ServeChanges
<1> HIDE DEF all
<1>6. ASSUME NEW j \in 1 .. Len(zoomFetches')
      PROVE  /\ InTime(zoomFetches'[j].window)
             /\ zoomFetches'[j].window.from = zoomFetches'[j].zoom.min
             /\ \A u \in DOMAIN zoomFetches'[j].rows :
                   \/ zoomFetches'[j].rows[u] = Nothing
                   \/ Served(zoomFetches'[j].rows[u], readings[u], zoomFetches'[j].window)
  <2>1. /\ InTime(zoomFetches[j].window)
        /\ zoomFetches[j].window.from = zoomFetches[j].zoom.min
        /\ \A u \in DOMAIN zoomFetches[j].rows :
              \/ zoomFetches[j].rows[u] = Nothing
              \/ Served(zoomFetches[j].rows[u], readings[u], zoomFetches[j].window)
    BY <1>5 DEF DInv, FetchesOK
  <2>2. CASE j = i
    <3>1. ASSUME NEW u \in all
          PROVE  \/ zoomFetches'[i].rows[u] = Nothing
                 \/ Served(zoomFetches'[i].rows[u], readings[u], zoomFetches[i].window)
      BY <1>4, <1>5, <2>1, <2>2 DEF all
    <3> QED
      BY <1>3, <1>5, <2>1, <2>2, <3>1
  <2>3. CASE j # i
    BY <1>5, <2>1, <2>3
  <2> QED
    BY <2>2, <2>3
<1>7. FetchesOK'
  BY <1>1, <1>5, <1>6 DEF FetchesOK, InTime
<1> QED
  BY <1>1, <1>7, RestKept DEF DInv, ServeZoom, world, page, shown, polling

LEMMA FetchRemoved ==
    ASSUME DInv, NEW i \in DOMAIN zoomFetches, zoomFetches' = RemoveAt(zoomFetches, i),
           UNCHANGED <<now, readings>>
    PROVE  FetchesOK'
<1>1. zoomFetches \in Seq(Fetches) /\ i \in 1 .. Len(zoomFetches)
  BY LenProperties DEF DInv, FetchesOK
<1>2. /\ zoomFetches' \in Seq(Fetches)
      /\ \A j \in 1 .. Len(zoomFetches') :
            \E k \in 1 .. Len(zoomFetches) : zoomFetches'[j] = zoomFetches[k]
  BY <1>1, RemovedLeavesOld
<1>3. ASSUME NEW j \in 1 .. Len(zoomFetches')
      PROVE  /\ InTime(zoomFetches'[j].window)
             /\ zoomFetches'[j].window.from = zoomFetches'[j].zoom.min
             /\ \A u \in DOMAIN zoomFetches'[j].rows :
                   \/ zoomFetches'[j].rows[u] = Nothing
                   \/ Served(zoomFetches'[j].rows[u], readings[u], zoomFetches'[j].window)
  <2>1. PICK k \in 1 .. Len(zoomFetches) : zoomFetches'[j] = zoomFetches[k]
    BY <1>2
  <2> QED
    BY <2>1 DEF DInv, FetchesOK
<1> QED
  BY <1>2, <1>3 DEF FetchesOK, InTime

LEMMA ShowZoomOK ==
    ASSUME DInv, NEW i \in DOMAIN zoomFetches, ShowZoom(i)
    PROVE  DInv'
<1> DEFINE f == zoomFetches[i]
<1>1. WorldGrows /\ UNCHANGED <<now, readings>>
  BY WorldStays DEF DInv, WorldOK, ShowZoom, world
<1>2. FetchesOK'
  BY <1>1, FetchRemoved DEF ShowZoom
<1>3. /\ f \in Fetches /\ f.window.to <= now /\ f.window.from = f.zoom.min
      /\ \A s \in DOMAIN f.rows : Served(f.rows[s], readings[s], f.window)
  <2>1. zoomFetches \in Seq(Fetches) /\ i \in 1 .. Len(zoomFetches)
    BY LenProperties DEF DInv, FetchesOK
  <2> QED
    BY <2>1, ElementOfSeq DEF DInv, FetchesOK, InTime, ShowZoom, Answered
<1>4. f.rows \in UNION {[S -> RowSeqs] : S \in SUBSET Sensors}
  <2>1. PICK S \in SUBSET Sensors : f.rows \in [S -> RowSeqs \cup {Nothing}]
    BY <1>3 DEF Fetches, Rowsets
  <2>2. \A s \in S : f.rows[s] \in RowSeqs
    BY <1>3, <2>1 DEF Served
  <2>3. f.rows \in [S -> RowSeqs]
    <3> HIDE DEF f
    <3> QED
      BY <2>1, <2>2
  <2> QED
    BY <2>3
<1> DEFINE c == [min |-> f.zoom.min, max |-> f.zoom.max, points |-> f.window.points,
                 data |-> f.rows, until |-> f.window.to]
<1>5. zoomCache' = c /\ zoomed' = f.rows
  BY DEF ShowZoom
<1> HIDE DEF f
<1>6. f.zoom.min \in Int /\ f.zoom.max \in Int /\ f.window \in Windows
  <2>1. f.zoom \in Zooms /\ f.window \in Windows
    BY <1>3 DEF Fetches
  <2> QED
    BY <2>1, DashboardAssumption
<1>7. c \in Caches
  BY <1>4, <1>6 DEF Caches, Windows
<1>8. f.window = [from |-> c.min, to |-> c.until, points |-> c.points]
  BY <1>3, <1>6 DEF Windows
<1>9. c.until <= now /\ \A s \in DOMAIN c.data :
         Covers(c.data[s], readings[s], [from |-> c.min, to |-> c.until, points |-> c.points])
  <2>1. c.until <= now /\ c.data = f.rows
    BY <1>3
  <2> HIDE DEF c
  <2> QED
    BY <1>3, <1>8, <2>1 DEF Served
<1> HIDE DEF c
<1>10. CacheOK'
  BY <1>1, <1>5, <1>7, <1>9 DEF CacheOK
<1>11. TimersOK'
  BY <1>3, <1>5 DEF DInv, TimersOK, ShowZoom, Served
<1> QED
  BY <1>1, <1>2, <1>10, <1>11, RestKept DEF DInv, ShowZoom, world, page, shown, polling

LEMMA ZoomFailsOK ==
    ASSUME DInv, NEW i \in DOMAIN zoomFetches, ZoomFails(i)
    PROVE  DInv'
<1>1. WorldGrows /\ UNCHANGED <<now, readings>>
  BY WorldStays DEF DInv, WorldOK, ZoomFails, world
<1>2. FetchesOK'
  BY <1>1, FetchRemoved DEF ZoomFails
<1> QED
  BY <1>1, <1>2, RestKept DEF DInv, ZoomFails, world, page, shown, polling

------------------------------------------------------------------------------
LEMMA NextOK == DInv /\ [Next]_vars => DInv'
<1> SUFFICES ASSUME DInv, [Next]_vars PROVE DInv'
  OBVIOUS
<1>1. CASE UNCHANGED vars
  BY <1>1, UnchangedStep
<1>2. CASE Next
  BY <1>2, WorldStep, ReloadOK, LoadSensorsOK, LoadSensorsFailsOK, SetRangeOK,
     ServeLoadOK, ShowHistoryOK, LoadFailsOK, PollStep, ServePollOK, PollAnsweredOK,
     ZoomStep, ZoomFetchOK, ServeZoomOK, ShowZoomOK, ZoomFailsOK
  DEF Next
<1> QED
  BY <1>1, <1>2

LEMMA SpecOK == Spec => []DInv
BY InitOK, NextOK, PTL DEF Spec

(* Every request, history, cache and answer has the form the page expects. *)
THEOREM DashboardTypeOK == Spec => []TypeOK
<1>1. DInv => TypeOK
  <2> SUFFICES ASSUME DInv PROVE TypeOK
    OBVIOUS
  <2>1. ASSUME NEW i \in DOMAIN loads
        PROVE  Fetched(loads[i])
    <3>1. loads[i] \in Loads
      BY LenProperties, ElementOfSeq DEF DInv, LoadsOK
    <3> QED
      BY <3>1 DEF Loads, Rowsets, Fetched
  <2>2. ASSUME NEW i \in DOMAIN zoomFetches
        PROVE  Fetched(zoomFetches[i]) /\ zoomFetches[i].zoom \in Zooms
    <3>1. zoomFetches[i] \in Fetches
      BY LenProperties, ElementOfSeq DEF DInv, FetchesOK
    <3> QED
      BY <3>1 DEF Fetches, Rowsets, Fetched
  <2> QED
    BY <2>1, <2>2 DEF DInv, WorldOK, PageOK, PollOK, HistoryOK, TimersOK, TypeOK
<1> QED
  BY <1>1, SpecOK, PTL

(* The axis of the charts is that of a history whose rows are all there,   *)
(* whichever requests overtook each other or failed (loadHistory).         *)
THEOREM DashboardRangeComplete == Spec => []RangeComplete
<1>1. DInv => RangeComplete
  BY DEF DInv, HistoryOK, RangeComplete, Complete, Covers
<1> QED
  BY <1>1, SpecOK, PTL

(* No reading is drawn twice, although histories and polls bring the same  *)
(* (mergeLatestIntoRows).                                                  *)
THEOREM DashboardNoReadingTwice == Spec => []NoReadingTwice
<1>1. DInv => NoReadingTwice
  BY DEF DInv, HistoryOK, NoReadingTwice, Distinct
<1> QED
  BY <1>1, SpecOK, PTL

(* The cache of a zoom has no gap up to the time it was asked for.         *)
THEOREM DashboardZoomCacheComplete == Spec => []ZoomCacheComplete
<1>1. DInv => ZoomCacheComplete
  BY DEF DInv, CacheOK, ZoomCacheComplete, Complete, Covers
<1> QED
  BY <1>1, SpecOK, PTL
==============================================================================
