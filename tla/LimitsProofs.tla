----------------------------- MODULE LimitsProofs -----------------------------
(***************************************************************************)
(* The limits of the server's API, for every value of their constants: the *)
(* caps of a sync answer (Sync), and the token buckets (RateLimiter).      *)
(*                                                                         *)
(* The caps of Sync hold because every sensor of a request is read once    *)
(* and its gaps, being neighbours, start at different times, so that       *)
(* intervals[-n:] has at most n of them.  That nothing is lost rests on    *)
(* NothingLeftOut: of a sensor that was read without a warning, a gap that *)
(* is still open is in the answer.  Time and readings may close a gap or   *)
(* take it out of sight, but open none between earlier times (OpenWasOpen).*)
(***************************************************************************)
EXTENDS Sync, RateLimiter, FiniteSetTheorems, TLAPS

(* The sensors the handler is done with.                                   *)
Asked == {Requested[k] : k \in 1 .. asked}

Shape ==
    /\ remembered \in [Sensors -> SUBSET (0 .. now)]
    /\ stored \in [Sensors -> SUBSET Times]
    /\ registered \subseteq Sensors
    /\ \A i \in intervals : i.sensor \in Asked

Phases ==
    /\ pc = "uploading" => asked = Len(Requested) /\ Asked \subseteq registered
    /\ pc = "idle" => intervals = {} /\ ~capped
    /\ pc = "idle" /\ watched # NoGap => asked = Len(Requested)

(* The ends of the watched gap stay stored and the readings in it are      *)
(* taken.                                                                  *)
WatchedKnown == watched # NoGap =>
    /\ {watched.start, watched.end} \subseteq stored[watched.sensor]
    /\ Between(watched, remembered[watched.sensor]) # {}

(* What an answer without warning says of a sensor is all there is.        *)
NothingLeftOut ==
    watched # NoGap /\ ~capped /\ watched.sensor \in Asked
      /\ watched \in OpenGaps(watched.sensor)
    => watched \in intervals

(* The safety half of GapsClosed, without its exception: that the gateway  *)
(* gets to the end may fail where gaps without readings crowd the answers, *)
(* but an end that it gets to is one.                                      *)
ClosedWhenOver ==
    pc = "idle" /\ watched # NoGap
    /\ (\E k \in DOMAIN Requested : Requested[k] = watched.sensor)
    => watched \notin OpenGaps(watched.sensor)

SInv == TypeOK /\ Shape /\ Phases /\ WatchedKnown /\ NothingLeftOut

------------------------------------------------------------------------------
LEMMA SyncConstants ==
    /\ Len(Requested) \in Nat \ {0} /\ Requested \in Seq(Sensors)
    /\ \A k \in 1 .. Len(Requested) : Requested[k] \in Sensors
    /\ \A j, k \in 1 .. Len(Requested) : Requested[j] = Requested[k] => j = k
    /\ GapThreshold \in Nat \ {0} /\ MaxPerSensor \in Nat \ {0} /\ MaxTotal \in Nat \ {0}
    /\ Retention \in Nat \ {0} /\ TimestampsMax \in Nat \ {0}
    /\ MaxTime \in Nat /\ IsFiniteSet(Sensors)
<1>1. Requested \in Seq(Sensors) /\ Requested # <<>>
  BY SyncAssumption
<1>2. DOMAIN Requested = 1 .. Len(Requested) /\ Len(Requested) \in Nat
  BY <1>1
<1>3. \A k \in 1 .. Len(Requested) : Requested[k] \in Sensors
  BY <1>1
<1>4. Len(Requested) # 0
  BY <1>1
<1> QED  BY <1>1, <1>2, <1>3, <1>4, SyncAssumption

LEMMA TimesFinite ==
    /\ IsFiniteSet(Times) /\ IsFiniteSet(Intervals)
    /\ Times \subseteq Nat
    /\ \A i \in Intervals : i.sensor \in Sensors /\ i.start \in Nat /\ i.end \in Nat
<1>1. IsFiniteSet(Times) /\ Times \subseteq Nat
  BY SyncConstants, FS_Interval DEF Times
<1>2. IsFiniteSet(Sensors \X (Times \X Times))
  BY <1>1, SyncConstants, FS_Product
<1> DEFINE f == [i \in Intervals |-> <<i.sensor, <<i.start, i.end>>>>]
<1>3. f \in Injection(Intervals, Sensors \X (Times \X Times))
  <2>1. \A i \in Intervals : f[i] \in Sensors \X (Times \X Times)
    BY DEF Intervals
  <2>2. \A i, j \in Intervals : f[i] = f[j] => i = j
    BY DEF Intervals
  <2> QED  BY <2>1, <2>2 DEF Injection, IsInjective
<1>4. \A i \in Intervals : i.sensor \in Sensors /\ i.start \in Times /\ i.end \in Times
  BY DEF Intervals
<1> QED  BY <1>1, <1>2, <1>3, <1>4, FS_Injection

LEMMA FiniteCards ==
    ASSUME NEW S, IsFiniteSet(S), NEW T \in SUBSET S
    PROVE  /\ IsFiniteSet(T) /\ Cardinality(T) \in Nat
           /\ Cardinality(T) <= Cardinality(S)
           /\ T # S => Cardinality(T) < Cardinality(S)
<1>1. IsFiniteSet(T) /\ Cardinality(T) <= Cardinality(S)
      /\ (Cardinality(S) = Cardinality(T) => S = T)
  BY FS_Subset
<1>2. Cardinality(T) \in Nat /\ Cardinality(S) \in Nat
  BY <1>1, FS_CardinalityType
<1> QED  BY <1>1, <1>2

------------------------------------------------------------------------------
(* intervals[-n:] has no more than n elements: the places of gaps that     *)
(* start at different times are different.                                 *)
LEMMA NewestGapsBound ==
    ASSUME NEW gaps \in SUBSET Intervals, NEW n \in Nat,
           \A i, j \in gaps : i.start = j.start => i = j
    PROVE  NewestGaps(n, gaps) \in SUBSET gaps
           /\ Cardinality(NewestGaps(n, gaps)) <= n
<1> DEFINE later(i) == {j \in gaps : i.start < j.start}
           R == NewestGaps(n, gaps)
           place == [i \in R |-> Cardinality(later(i))]
<1>1. IsFiniteSet(gaps) /\ R \in SUBSET gaps
  BY TimesFinite, FiniteCards DEF NewestGaps
<1>2. \A i \in gaps : i.start \in Int
  BY TimesFinite
<1>3. \A i \in R : place[i] \in 0 .. n - 1
  <2> TAKE i \in R
  <2>1. later(i) \in SUBSET gaps
    OBVIOUS
  <2>2. Cardinality(later(i)) \in Nat
    BY <1>1, <2>1, FiniteCards
  <2>3. Cardinality(later(i)) < n
    BY DEF NewestGaps
  <2> QED  BY <2>2, <2>3
<1>4. ASSUME NEW i \in R, NEW j \in R, i.start < j.start
      PROVE  place[j] < place[i]
  <2>1. later(j) \in SUBSET later(i) /\ j \in later(i) /\ j \notin later(j)
    BY <1>1, <1>2, <1>4
  <2>2. IsFiniteSet(later(i))
    BY <1>1, FiniteCards, later(i) \in SUBSET gaps
  <2>3. Cardinality(later(j)) < Cardinality(later(i))
    BY <2>1, <2>2, FiniteCards
  <2> QED  BY <2>3
<1>5. \A i, j \in R : place[i] = place[j] => i = j
  <2> SUFFICES ASSUME NEW i \in R, NEW j \in R, place[i] = place[j]
               PROVE  i = j
    OBVIOUS
  <2>1. place[i] \in Int /\ place[j] \in Int /\ i.start \in Int /\ j.start \in Int
    BY <1>1, <1>2, <1>3
  <2>2. (i.start < j.start => place[j] < place[i]) /\ (j.start < i.start => place[i] < place[j])
    BY <1>4
  <2> HIDE DEF place
  <2>3. i.start = j.start
    BY <2>1, <2>2
  <2> QED  BY <1>1, <2>3
<1>6. place \in Injection(R, 0 .. n - 1)
  BY <1>3, <1>5 DEF Injection, IsInjective
<1>7. IsFiniteSet(0 .. n - 1) /\ Cardinality(0 .. n - 1) = n
  BY FS_Interval
<1> HIDE DEF place
<1> QED  BY <1>1, <1>6, <1>7, FS_Injection

(* An answer that is within its limit leaves nothing out.                  *)
LEMMA NewestGapsWhole ==
    ASSUME NEW gaps \in SUBSET Intervals, NEW n \in Nat, Cardinality(gaps) <= n
    PROVE  NewestGaps(n, gaps) = gaps
<1> SUFFICES ASSUME NEW i \in gaps
             PROVE  Cardinality({j \in gaps : i.start < j.start}) < n
  BY DEF NewestGaps
<1>1. i.start \in Int
  BY TimesFinite
<1>2. {j \in gaps : i.start < j.start} \in SUBSET gaps
        /\ i \notin {j \in gaps : i.start < j.start}
  BY <1>1
<1>3. IsFiniteSet(gaps)
  BY TimesFinite, FiniteCards
<1>4. /\ Cardinality({j \in gaps : i.start < j.start}) \in Nat
      /\ Cardinality({j \in gaps : i.start < j.start}) < Cardinality(gaps)
      /\ Cardinality(gaps) \in Nat
  BY <1>2, <1>3, FiniteCards, FS_CardinalityType
<1> QED  BY <1>4

(* Neighbours: the gaps of a sensor are known by where they start.         *)
LEMMA GapsApart ==
    ASSUME NEW s \in Sensors, NEW times \in SUBSET Times
    PROVE  /\ Gaps(s, times) \in SUBSET Intervals
           /\ \A i \in Gaps(s, times) : i.sensor = s
           /\ \A i, j \in Gaps(s, times) : i.start = j.start => i = j
<1>1. Gaps(s, times) \in SUBSET Intervals /\ \A i \in Gaps(s, times) : i.sensor = s
  BY DEF Gaps, Intervals
<1>2. ASSUME NEW i \in Gaps(s, times), NEW j \in Gaps(s, times), i.start = j.start,
             i.end < j.end
      PROVE  FALSE
  <2>1. /\ i.end \in times /\ i.start \in Int /\ i.end \in Int
        /\ i.end - i.start >= GapThreshold /\ Between(j, times) = {}
    BY <1>1, TimesFinite DEF Gaps
  <2>2. i.end \in Between(j, times)
    BY <1>2, <2>1, SyncConstants DEF Between
  <2> QED  BY <2>1, <2>2
<1>3. ASSUME NEW i \in Gaps(s, times), NEW j \in Gaps(s, times), i.start = j.start
      PROVE  i = j
  <2>1. i.end \in Int /\ j.end \in Int
    BY <1>1, TimesFinite DEF Gaps
  <2>2. i.end = j.end
    BY <1>2, <1>3, <2>1
  <2>3. /\ i \in [sensor : {s}, start : times, end : times]
        /\ j \in [sensor : {s}, start : times, end : times]
    BY DEF Gaps
  <2> QED  BY <1>3, <2>2, <2>3
<1> QED  BY <1>1, <1>3

------------------------------------------------------------------------------
(* What the handler reads of the times it finds at some moment.            *)
Looked(times, moment) == Newest(TimestampsMax, {t \in times : moment - Retention <= t})

(* The limit cuts off at the bottom only.                                  *)
LEMMA NewestUpward ==
    ASSUME NEW n \in Nat, NEW times \in SUBSET Times, NEW a \in Newest(n, times),
           NEW b \in times, a < b
    PROVE  b \in Newest(n, times)
<1>1. a \in Int /\ b \in Int /\ \A u \in times : u \in Int
  BY TimesFinite DEF Newest
<1> DEFINE after(t) == {u \in times : t < u}
<1>2. after(b) \in SUBSET after(a) /\ after(a) \in SUBSET times
  <2>1. \A u \in times : b < u => a < u
    BY <1>1
  <2> QED  BY <2>1
<1>3. IsFiniteSet(after(a))
  BY <1>2, TimesFinite, FiniteCards, IsFiniteSet(times)
<1>4. /\ Cardinality(after(b)) <= Cardinality(after(a))
      /\ Cardinality(after(b)) \in Nat /\ Cardinality(after(a)) \in Nat
  BY <1>2, <1>3, FiniteCards
<1>5. Cardinality(after(a)) < n
  BY DEF Newest
<1> HIDE DEF after
<1>6. Cardinality(after(b)) < n
  BY <1>4, <1>5
<1> QED  BY <1>6 DEF Newest, after

(* Between the ends of an open gap the server has nothing at all, not only *)
(* nothing among the times it looks at.                                    *)
LEMMA OpenIsBare ==
    ASSUME NEW s \in Sensors, NEW times \in SUBSET Times, NEW moment \in Int,
           NEW i \in Gaps(s, Looked(times, moment))
    PROVE  Between(i, times) = {}
<1>1. /\ i.start \in Looked(times, moment) /\ i.end \in Looked(times, moment)
      /\ Between(i, Looked(times, moment)) = {}
  BY DEF Gaps
<1> DEFINE view == {t \in times : moment - Retention <= t}
<1>2. i.start \in view /\ i.start \in times /\ view \in SUBSET Times
  BY <1>1 DEF Looked, Newest
<1> HIDE DEF view
<1>3. i.start \in Int /\ \A t \in times : t \in Int
  <2>1. Times \subseteq Int /\ times \subseteq Times
    BY TimesFinite
  <2> QED  BY <1>2, <2>1
<1>4. ASSUME NEW t \in times, i.start < t, t < i.end
      PROVE  FALSE
  <2>1. moment - Retention <= i.start
    BY <1>2 DEF view
  <2>2. t \in view
    BY <1>3, <1>4, <2>1, SyncConstants DEF view
  <2>3. t \in Newest(TimestampsMax, view)
    BY <1>1, <1>2, <1>4, <2>2, NewestUpward, SyncConstants DEF Looked, view
  <2> QED  BY <1>1, <1>4, <2>3 DEF Between, Looked, view
<1> QED  BY <1>4 DEF Between

(* Time and new readings close gaps and take them out of sight; they open  *)
(* none between times there were before.                                   *)
LEMMA OpenWasOpen ==
    ASSUME NEW s \in Sensors, NEW before \in SUBSET Times, NEW after \in SUBSET Times,
           before \subseteq after,
           NEW m \in Int, NEW n \in Int, m <= n,
           NEW i \in Gaps(s, Looked(after, n)), i.start \in before, i.end \in before
    PROVE  i \in Gaps(s, Looked(before, m))
<1>1. /\ i \in [sensor : {s}, start : Looked(after, n), end : Looked(after, n)]
      /\ i.end - i.start >= GapThreshold
  BY DEF Gaps
<1>2. ASSUME NEW t \in before, t \in Looked(after, n)
      PROVE  t \in Looked(before, m)
  <2> DEFINE old == {u \in {v \in before : m - Retention <= v} : t < u}
             new == {u \in {v \in after : n - Retention <= v} : t < u}
  <2>1. t \in Int /\ \A u \in after : u \in Int
    BY TimesFinite
  <2>2. n - Retention <= t /\ Cardinality(new) < TimestampsMax
    BY <1>2 DEF Looked, Newest
  <2>3. m - Retention <= t
    BY <2>1, <2>2, SyncConstants
  <2>4. old \in SUBSET new
    <3> SUFFICES ASSUME NEW u \in before, t < u
                 PROVE  n - Retention <= u
      OBVIOUS
    <3> QED  BY <2>1, <2>2, SyncConstants
  <2>5. IsFiniteSet(new)
    BY TimesFinite, FiniteCards, new \in SUBSET Times
  <2>6. /\ Cardinality(old) <= Cardinality(new)
        /\ Cardinality(old) \in Nat /\ Cardinality(new) \in Nat
    BY <2>4, <2>5, FiniteCards, FS_CardinalityType
  <2> HIDE DEF new
  <2>7. Cardinality(old) < TimestampsMax
    BY <2>2, <2>6, SyncConstants
  <2> QED  BY <2>3, <2>7 DEF Looked, Newest
<1>3. i.start \in Looked(before, m) /\ i.end \in Looked(before, m)
  BY <1>1, <1>2
<1>4. Between(i, Looked(before, m)) = {}
  <2>1. Between(i, after) = {}
    BY OpenIsBare
  <2> QED  BY <2>1 DEF Between, Looked, Newest
<1>5. i \in [sensor : {s}, start : Looked(before, m), end : Looked(before, m)]
  BY <1>1, <1>3
<1> QED  BY <1>1, <1>4, <1>5 DEF Gaps

(* The caps hold of what is left of an answer.                             *)
Capped(answer) ==
    /\ answer \subseteq Intervals
    /\ Cardinality(answer) <= MaxTotal
    /\ \A s \in Sensors : Cardinality({i \in answer : i.sensor = s}) <= MaxPerSensor

LEMMA CappedShrinks ==
    ASSUME NEW answer, Capped(answer), NEW rest \in SUBSET answer
    PROVE  Capped(rest)
<1>1. answer \in SUBSET Intervals /\ IsFiniteSet(answer)
  BY TimesFinite, FiniteCards DEF Capped
<1>2. /\ Cardinality(rest) <= Cardinality(answer)
      /\ Cardinality(rest) \in Nat /\ Cardinality(answer) \in Nat
  BY <1>1, FiniteCards, FS_CardinalityType
<1>3. Cardinality(rest) <= MaxTotal
  BY <1>2, SyncConstants DEF Capped
<1>4. ASSUME NEW s \in Sensors
      PROVE  Cardinality({i \in rest : i.sensor = s}) <= MaxPerSensor
  <2> DEFINE old == {i \in answer : i.sensor = s}
             new == {i \in rest : i.sensor = s}
  <2>1. IsFiniteSet(old) /\ new \in SUBSET old
    BY <1>1, FiniteCards, old \in SUBSET answer
  <2>2. /\ Cardinality(new) <= Cardinality(old)
        /\ Cardinality(new) \in Nat /\ Cardinality(old) \in Nat
    BY <2>1, FiniteCards, FS_CardinalityType
  <2>3. Cardinality(old) <= MaxPerSensor
    BY DEF Capped
  <2> HIDE DEF old, new
  <2>4. Cardinality(new) <= MaxPerSensor
    BY <2>2, <2>3, SyncConstants
  <2> QED  BY <2>4 DEF new
<1> QED  BY <1>1, <1>3, <1>4 DEF Capped

LEMMA CappedNothing == Capped({})
<1>1. \A s \in Sensors : {i \in {} : i.sensor = s} = {}
  OBVIOUS
<1> QED  BY <1>1, FS_EmptySet, SyncConstants DEF Capped

------------------------------------------------------------------------------
(* What the clauses of the invariant are used for.                         *)
LEMMA StateFacts ==
    ASSUME SInv
    PROVE  /\ now \in Nat /\ asked \in 0 .. Len(Requested) /\ Asked \in SUBSET Sensors
           /\ 0 .. now \subseteq Times
           /\ \A s \in Sensors : stored[s] \in SUBSET Times
           /\ Capped(intervals) /\ IsFiniteSet(intervals) /\ Cardinality(intervals) \in Nat
           /\ watched # NoGap => watched \in Intervals /\ watched.sensor \in Sensors
<1>1. TypeOK /\ Shape
  BY DEF SInv
<1>2. now \in Nat /\ 0 .. now \subseteq Times /\ asked \in 0 .. Len(Requested)
  BY <1>1, SyncConstants DEF TypeOK, Times
<1>3. Asked \in SUBSET Sensors
  BY <1>2, SyncConstants DEF Asked
<1>4. \A s \in Sensors : stored[s] \in SUBSET Times
  BY <1>1 DEF Shape
<1>5. Capped(intervals)
  BY <1>1 DEF TypeOK, Capped
<1>6. IsFiniteSet(intervals) /\ Cardinality(intervals) \in Nat
  BY <1>5, TimesFinite, FiniteCards DEF Capped
<1>7. watched # NoGap => watched \in Intervals /\ watched.sensor \in Sensors
  BY <1>1, TimesFinite DEF TypeOK
<1> QED  BY <1>2, <1>3, <1>4, <1>5, <1>6, <1>7

LEMMA OpenGapsLooked ==
    \A s \in Sensors : /\ OpenGaps(s) = Gaps(s, Looked(stored[s], now))
                       /\ OpenGaps(s)' = Gaps(s, Looked(stored'[s], now'))
BY DEF OpenGaps, get_sensor_timestamps, Looked, Gaps, Newest, Between

(* A watched gap that is open after a step that only adds readings was     *)
(* open before it, and the server had nothing in it.                       *)
LEMMA WatchedWasOpen ==
    ASSUME SInv, watched # NoGap, now' \in Nat, now <= now',
           stored' \in [Sensors -> SUBSET Times],
           stored[watched.sensor] \subseteq stored'[watched.sensor],
           watched \in Gaps(watched.sensor, Looked(stored'[watched.sensor], now'))
    PROVE  /\ watched \in OpenGaps(watched.sensor)
           /\ Between(watched, stored[watched.sensor]) = {}
           /\ Between(watched, stored'[watched.sensor]) = {}
<1> DEFINE s == watched.sensor
<1>1. s \in Sensors /\ now \in Int /\ now' \in Int
  BY StateFacts
<1>2. stored[s] \in SUBSET Times /\ stored'[s] \in SUBSET Times
  BY <1>1, StateFacts
<1>3. watched.start \in stored[s] /\ watched.end \in stored[s]
  BY DEF SInv, WatchedKnown
<1> HIDE DEF s
<1>4. watched \in Gaps(s, Looked(stored[s], now))
  BY <1>1, <1>2, <1>3, OpenWasOpen DEF s
<1>5. Between(watched, stored[s]) = {}
  BY <1>1, <1>2, <1>4, OpenIsBare
<1>6. Between(watched, stored'[s]) = {}
  BY <1>1, <1>2, OpenIsBare DEF s
<1> QED  BY <1>1, <1>4, <1>5, <1>6, OpenGapsLooked DEF s

------------------------------------------------------------------------------
LEMMA SyncInit == Init => SInv
<1> SUFFICES ASSUME Init PROVE SInv
  OBVIOUS
<1>1. /\ now = 0 /\ remembered = [s \in Sensors |-> {0}] /\ registered \in SUBSET Sensors
      /\ stored = [s \in Sensors |-> IF s \in registered THEN {0} ELSE {}]
      /\ pc = "idle" /\ asked = 0 /\ intervals = {} /\ capped = FALSE /\ watched = NoGap
  BY DEF Init
<1>2. 0 \in Times
  BY SyncConstants DEF Times
<1>3. Capped(intervals)
  BY <1>1, CappedNothing
<1>4. 0 \in 0 .. Len(Requested)
  BY SyncConstants
<1>5. TypeOK
  BY <1>1, <1>2, <1>3, <1>4 DEF TypeOK, Capped
<1>6. Shape
  BY <1>1, <1>2 DEF Shape
<1> QED  BY <1>1, <1>5, <1>6 DEF SInv, Phases, WatchedKnown, NothingLeftOut

LEMMA TickKeeps ==
    ASSUME SInv, NEW taken \in SUBSET Sensors, NEW heard \in SUBSET taken, Tick(taken, heard)
    PROVE  SInv'
<1>1. /\ now < MaxTime /\ now' = now + 1
      /\ remembered' = [s \in Sensors |->
                          remembered[s] \cup (IF s \in taken THEN {now'} ELSE {})]
      /\ stored' = [s \in Sensors |-> stored[s] \cup (IF s \in heard THEN {now'} ELSE {})]
      /\ registered' = registered \cup heard
      /\ UNCHANGED <<pc, asked, intervals, capped, watched>>
  BY DEF Tick
<1>2. TypeOK /\ Shape /\ Phases /\ WatchedKnown /\ NothingLeftOut
  BY DEF SInv
<1>3. now \in Nat /\ now' \in Nat /\ now <= now' /\ now' \in Times
  BY <1>1, StateFacts, SyncConstants DEF Times
<1>4. remembered' \in [Sensors -> SUBSET (0 .. now')]
  BY <1>1, <1>2, <1>3 DEF Shape
<1>5. stored' \in [Sensors -> SUBSET Times]
      /\ \A s \in Sensors : stored[s] \subseteq stored'[s]
  BY <1>1, <1>2, <1>3 DEF Shape
<1>6. 0 .. now' \subseteq Times
  BY <1>1, <1>3, SyncConstants DEF Times
<1>7. TypeOK'
  <2>1. remembered' \in [Sensors -> SUBSET Times]
    BY <1>4, <1>6
  <2>2. \A s \in Sensors : stored'[s] \subseteq remembered'[s]
    BY <1>1, <1>2 DEF TypeOK
  <2>3. \A s \in Sensors : stored'[s] # {} => s \in registered'
    BY <1>1, <1>2 DEF TypeOK
  <2> QED  BY <1>1, <1>2, <1>3, <2>1, <2>2, <2>3 DEF TypeOK, Times, Intervals
<1>8. Shape'
  BY <1>1, <1>2, <1>4, <1>5 DEF Shape, Asked, Times
<1>9. Phases'
  BY <1>1, <1>2 DEF Phases, Asked
<1>10. ASSUME watched # NoGap
       PROVE  /\ {watched.start, watched.end} \subseteq stored'[watched.sensor]
              /\ Between(watched, remembered'[watched.sensor]) # {}
  <2>1. watched.sensor \in Sensors
    BY <1>10, StateFacts
  <2>2. remembered[watched.sensor] \subseteq remembered'[watched.sensor]
    BY <1>1, <2>1
  <2> QED  BY <1>2, <1>5, <1>10, <2>1, <2>2 DEF WatchedKnown, Between
<1>11. ASSUME watched # NoGap, ~capped, watched.sensor \in Asked,
              watched \in Gaps(watched.sensor, Looked(stored'[watched.sensor], now'))
       PROVE  watched \in intervals
  <2>1. stored[watched.sensor] \subseteq stored'[watched.sensor]
    BY <1>5, <1>11, StateFacts
  <2>2. watched \in OpenGaps(watched.sensor)
    BY <1>3, <1>5, <1>11, <2>1, WatchedWasOpen
  <2> QED  BY <1>2, <1>11, <2>2 DEF NothingLeftOut
<1>12. WatchedKnown' /\ NothingLeftOut'
  <2>1. watched # NoGap => OpenGaps(watched.sensor)'
                             = Gaps(watched.sensor, Looked(stored'[watched.sensor], now'))
    BY <1>1, StateFacts, OpenGapsLooked
  <2> QED  BY <1>1, <1>10, <1>11, <2>1 DEF WatchedKnown, NothingLeftOut, Asked, Between
<1> QED  BY <1>7, <1>8, <1>9, <1>12 DEF SInv

(* A new question drops the old answer.                                    *)
LEMMA AskKeeps ==
    ASSUME SInv, Ask, watched' \in Intervals \cup {NoGap}, WatchedKnown'
    PROVE  SInv'
<1>1. /\ pc' = "asking" /\ asked' = 0 /\ intervals' = {} /\ capped' = FALSE
      /\ UNCHANGED <<now, remembered, stored, registered>>
  BY DEF Ask
<1>2. TypeOK /\ Shape
  BY DEF SInv
<1>3. Capped(intervals')
  BY <1>1, CappedNothing
<1>4. 0 \in 0 .. Len(Requested) /\ Asked' = {}
  BY <1>1, SyncConstants DEF Asked
<1>5. TypeOK'
  BY <1>1, <1>2, <1>3, <1>4 DEF TypeOK, Capped, Times, Intervals
<1>6. Shape' /\ Phases' /\ NothingLeftOut'
  BY <1>1, <1>2, <1>4 DEF Shape, Phases, NothingLeftOut, Times
<1> QED  BY <1>5, <1>6 DEF SInv

LEMMA StartSyncKeeps ==
    ASSUME SInv, StartSync
    PROVE  SInv'
<1>1. /\ Ask
      /\ watched' \in {NoGap} \cup {i \in UNION {OpenGaps(s) : s \in Sensors} : Fillable(i)}
  BY DEF StartSync
<1>2. stored' = stored /\ remembered' = remembered
  BY <1>1 DEF Ask
<1>3. ASSUME watched' # NoGap
      PROVE  /\ watched' \in Intervals
             /\ {watched'.start, watched'.end} \subseteq stored[watched'.sensor]
             /\ Between(watched', remembered[watched'.sensor]) # {}
  <2>1. PICK s \in Sensors : watched' \in Gaps(s, Looked(stored[s], now)) /\ Fillable(watched')
    BY <1>1, <1>3, OpenGapsLooked
  <2>2. stored[s] \in SUBSET Times /\ Looked(stored[s], now) \in SUBSET stored[s]
    BY StateFacts DEF Looked, Newest
  <2>3. watched' \in Intervals /\ watched'.sensor = s
    BY <2>1, <2>2, GapsApart
  <2>4. {watched'.start, watched'.end} \subseteq stored[s]
    BY <2>1, <2>2 DEF Gaps
  <2>5. Between(watched', remembered[s]) # {}
    BY <2>1, <2>3 DEF Fillable, Lacking
  <2> QED  BY <2>3, <2>4, <2>5
<1>4. WatchedKnown' /\ watched' \in Intervals \cup {NoGap}
  BY <1>2, <1>3 DEF WatchedKnown, Between
<1> QED  BY <1>1, <1>4, AskKeeps

LEMMA AskAgainKeeps ==
    ASSUME SInv, AskAgain
    PROVE  SInv'
<1>1. Ask /\ watched' = watched
  BY DEF AskAgain
<1>2. stored' = stored /\ remembered' = remembered
  BY <1>1 DEF Ask
<1>3. WatchedKnown' /\ watched' \in Intervals \cup {NoGap}
  BY <1>1, <1>2 DEF SInv, TypeOK, WatchedKnown, Between
<1> QED  BY <1>1, <1>3, AskKeeps

(* The next sensor of the request has a place of its own: the places the   *)
(* caps leave are as many as its gaps may take, and if it takes all its    *)
(* gaps, none is left out.                                                 *)
LEMMA SyncSensorKeeps ==
    ASSUME SInv, SyncSensor
    PROVE  SInv'
<1> DEFINE s == Requested[asked + 1]
           times == Looked(stored[s], now)
           gaps == Gaps(s, times)
           n == AllowedForSensor
           new == NewestGaps(n, gaps)
<1>1. /\ pc = "asking" /\ asked < Len(Requested)
      /\ intervals' = intervals \cup new
      /\ capped' = (capped \/ Cardinality(gaps) > n)
      /\ asked' = asked + 1
      /\ UNCHANGED <<now, remembered, stored, registered, pc, watched>>
  BY DEF SyncSensor, get_sensor_timestamps, Looked
<1>2. TypeOK /\ Shape /\ Phases /\ WatchedKnown /\ NothingLeftOut
  BY DEF SInv
<1>3. /\ s \in Sensors /\ asked' \in 0 .. Len(Requested) /\ s \notin Asked
      /\ Asked' = Asked \cup {s}
  <2>1. asked \in Nat /\ asked + 1 \in 1 .. Len(Requested)
    BY <1>1, StateFacts, SyncConstants
  <2>2. \A k \in 1 .. asked : k \in 1 .. Len(Requested) /\ k # asked + 1
    BY <2>1, SyncConstants
  <2>3. s \notin Asked
    BY <2>1, <2>2, SyncConstants DEF Asked
  <2>4. 1 .. asked' = (1 .. asked) \cup {asked + 1}
    BY <1>1, <2>1
  <2> QED  BY <1>1, <2>1, <2>3, <2>4, SyncConstants DEF Asked
<1> HIDE DEF s
<1>4. /\ gaps \in SUBSET Intervals
      /\ \A i \in gaps : i.sensor = s
      /\ \A i, j \in gaps : i.start = j.start => i = j
  <2>1. times \in SUBSET Times
    BY <1>3, StateFacts DEF Looked, Newest
  <2> QED  BY <1>3, <2>1, GapsApart
<1>5. n \in Nat /\ n <= MaxPerSensor /\ Cardinality(intervals) + n <= MaxTotal
  <2>1. Cardinality(intervals) \in Nat /\ Cardinality(intervals) <= MaxTotal
    BY <1>2, StateFacts DEF TypeOK
  <2> DEFINE left == MaxTotal - Cardinality(intervals)
  <2>2. left \in Nat
    BY <2>1, SyncConstants
  <2>3. MaxPerSensor \in Nat
    BY SyncConstants
  <2>4. n = IF MaxPerSensor <= left THEN MaxPerSensor ELSE left
    <3> HIDE DEF left
    <3>1. n = CHOOSE x \in {MaxPerSensor, left} : \A y \in {MaxPerSensor, left} : x =< y
      BY DEF AllowedForSensor, Min, left
    <3> QED  BY <2>2, <2>3, <3>1
  <2> QED  BY <2>1, <2>2, <2>3, <2>4, SyncConstants
<1> HIDE DEF n, gaps
<1>6. new \in SUBSET gaps /\ Cardinality(new) <= n
  BY <1>4, <1>5, NewestGapsBound
<1>7. Cardinality(gaps) <= n => new = gaps
  BY <1>4, <1>5, NewestGapsWhole
<1>8. IsFiniteSet(gaps) /\ Cardinality(gaps) \in Nat /\ IsFiniteSet(new)
        /\ Cardinality(new) \in Nat
  BY <1>4, <1>6, TimesFinite, FiniteCards, FS_CardinalityType
<1> HIDE DEF new
<1>9. Capped(intervals')
  <2>1. intervals' \subseteq Intervals
    BY <1>1, <1>4, <1>6, StateFacts DEF Capped
  <2>2. Cardinality(intervals') <= MaxTotal
    <3>1. /\ IsFiniteSet(intervals) /\ Cardinality(intervals) \in Nat
          /\ Cardinality(intervals \cap new) \in Nat
      BY <1>8, StateFacts, FiniteCards, intervals \cap new \in SUBSET new
    <3>2. Cardinality(intervals') = Cardinality(intervals) + Cardinality(new)
                                       - Cardinality(intervals \cap new)
      BY <1>1, <1>8, <3>1, FS_Union
    <3> QED  BY <1>5, <1>6, <1>8, <3>1, <3>2, SyncConstants
  <2>3. ASSUME NEW t \in Sensors
        PROVE  Cardinality({i \in intervals' : i.sensor = t}) <= MaxPerSensor
    <3>1. CASE t = s
      <4>1. {i \in intervals' : i.sensor = t} = new
        BY <1>1, <1>2, <1>3, <1>4, <1>6, <3>1 DEF Shape
      <4>2. Cardinality(new) <= MaxPerSensor
        BY <1>5, <1>6, <1>8, SyncConstants
      <4> QED  BY <4>1, <4>2
    <3>2. CASE t # s
      <4>1. {i \in intervals' : i.sensor = t} = {i \in intervals : i.sensor = t}
        BY <1>1, <1>4, <1>6, <3>2
      <4> QED  BY <4>1, StateFacts DEF Capped
    <3> QED  BY <3>1, <3>2
  <2> QED  BY <2>1, <2>2, <2>3 DEF Capped
<1>10. TypeOK'
  BY <1>1, <1>2, <1>3, <1>9 DEF TypeOK, Capped, Times, Intervals
<1>11. Shape'
  BY <1>1, <1>2, <1>3, <1>4, <1>6 DEF Shape, Times
<1>12. Phases' /\ WatchedKnown'
  BY <1>1, <1>2 DEF Phases, WatchedKnown, Between
<1>13. NothingLeftOut'
  <2> SUFFICES ASSUME watched # NoGap, ~capped', watched.sensor \in Asked',
                      watched \in OpenGaps(watched.sensor)
               PROVE  watched \in intervals'
    <3>1. watched # NoGap => OpenGaps(watched.sensor)' = OpenGaps(watched.sensor)
      BY <1>1, StateFacts, OpenGapsLooked
    <3> QED  BY <1>1, <3>1 DEF NothingLeftOut
  <2>1. ~capped /\ new = gaps
    <3>1. ~capped /\ ~(Cardinality(gaps) > n)
      BY <1>1
    <3> QED  BY <1>5, <1>7, <1>8, <3>1
  <2>2. CASE watched.sensor = s
    <3>1. watched \in gaps
      BY <1>3, <2>2, OpenGapsLooked DEF gaps
    <3> QED  BY <1>1, <2>1, <3>1
  <2>3. CASE watched.sensor \in Asked
    BY <1>1, <1>2, <2>1, <2>3 DEF NothingLeftOut
  <2> QED  BY <1>3, <2>2, <2>3
<1> QED  BY <1>10, <1>11, <1>12, <1>13 DEF SInv

LEMMA AnswerKeeps ==
    ASSUME SInv, Answer
    PROVE  SInv'
<1>1. /\ pc = "asking" /\ asked = Len(Requested)
      /\ registered' = registered \cup {Requested[k] : k \in DOMAIN Requested}
      /\ pc' = "uploading"
      /\ UNCHANGED <<now, remembered, stored, asked, intervals, capped, watched>>
  BY DEF Answer
<1>2. TypeOK /\ Shape /\ WatchedKnown /\ NothingLeftOut
  BY DEF SInv
<1>3. registered' = registered \cup Asked /\ Asked' = Asked
  BY <1>1, SyncConstants DEF Asked
<1>4. TypeOK'
  BY <1>1, <1>2 DEF TypeOK, Times, Intervals
<1>5. Shape' /\ Phases' /\ WatchedKnown'
  BY <1>1, <1>2, <1>3, StateFacts DEF Shape, Phases, WatchedKnown, Times, Between
<1>6. NothingLeftOut'
  <2>1. watched # NoGap => OpenGaps(watched.sensor)' = OpenGaps(watched.sensor)
    BY <1>1, StateFacts, OpenGapsLooked
  <2> QED  BY <1>1, <1>2, <1>3, <2>1 DEF NothingLeftOut
<1> QED  BY <1>4, <1>5, <1>6 DEF SInv

(* What is uploaded was remembered; and a watched gap leaves the list only *)
(* when all its readings have come, by which it is closed.                 *)
LEMMA UploadKeeps ==
    ASSUME SInv, NEW i \in intervals, NEW piece \in SUBSET Lacking(i), Upload(i, piece)
    PROVE  SInv'
<1>1. /\ pc = "uploading"
      /\ stored' = [stored EXCEPT ![i.sensor] = @ \cup piece]
      /\ intervals' = IF piece = Lacking(i) THEN intervals \ {i} ELSE intervals
      /\ UNCHANGED <<now, remembered, registered, pc, asked, capped, watched>>
  BY DEF Upload
<1>2. TypeOK /\ Shape /\ Phases /\ WatchedKnown /\ NothingLeftOut
  BY DEF SInv
<1>3. i.sensor \in Sensors /\ i.sensor \in registered
  BY <1>1, <1>2, StateFacts DEF Shape, Phases
<1>4. piece \subseteq remembered[i.sensor] /\ piece \subseteq Times
  BY <1>2, <1>3 DEF Lacking, Between, TypeOK
<1>5. /\ stored' \in [Sensors -> SUBSET Times]
      /\ \A s \in Sensors : stored[s] \subseteq stored'[s]
      /\ \A s \in Sensors : stored'[s] \subseteq remembered[s]
      /\ \A s \in Sensors : stored'[s] # {} => s \in registered
      /\ stored'[i.sensor] = stored[i.sensor] \cup piece
  <2>1. stored \in [Sensors -> SUBSET Times]
    BY <1>2 DEF Shape
  <2>2. stored'[i.sensor] = stored[i.sensor] \cup piece
    BY <1>1, <1>3, <2>1
  <2>3. \A s \in Sensors \ {i.sensor} : stored'[s] = stored[s]
    BY <1>1, <2>1
  <2>4. stored' \in [Sensors -> SUBSET Times]
    BY <1>1, <1>4, <2>1
  <2> QED  BY <1>2, <1>3, <1>4, <2>2, <2>3, <2>4 DEF TypeOK
<1>6. intervals' \in SUBSET intervals /\ Capped(intervals')
  <2>1. intervals' \in SUBSET intervals
    BY <1>1
  <2> QED  BY <2>1, CappedShrinks, StateFacts
<1>7. TypeOK'
  <2>1. /\ \A s \in Sensors : stored'[s] \subseteq remembered'[s]
        /\ \A s \in Sensors : stored'[s] # {} => s \in registered'
    BY <1>1, <1>5
  <2>2. /\ intervals' \subseteq Intervals
        /\ Cardinality(intervals') <= MaxTotal
        /\ \A s \in Sensors : Cardinality({j \in intervals' : j.sensor = s}) <= MaxPerSensor
    BY <1>6 DEF Capped
  <2> QED  BY <1>1, <1>2, <2>1, <2>2 DEF TypeOK, Times, Intervals
<1>8. Shape' /\ Phases'
  BY <1>1, <1>2, <1>5, <1>6 DEF Shape, Phases, Times, Asked
<1>9. WatchedKnown'
  BY <1>1, <1>2, <1>5, StateFacts DEF WatchedKnown, Between
<1>10. NothingLeftOut'
  <2> SUFFICES ASSUME watched # NoGap, ~capped, watched.sensor \in Asked,
                      watched \in Gaps(watched.sensor, Looked(stored'[watched.sensor], now'))
               PROVE  watched \in intervals'
    <3>1. watched # NoGap => OpenGaps(watched.sensor)'
                               = Gaps(watched.sensor, Looked(stored'[watched.sensor], now'))
      BY <1>1, StateFacts, OpenGapsLooked
    <3> QED  BY <1>1, <3>1 DEF NothingLeftOut, Asked
  <2>1. /\ watched \in OpenGaps(watched.sensor)
        /\ Between(watched, stored[watched.sensor]) = {}
        /\ Between(watched, stored'[watched.sensor]) = {}
    <3>1. now' \in Nat /\ now <= now'
      BY <1>1, StateFacts
    <3>2. stored[watched.sensor] \subseteq stored'[watched.sensor]
      <4>1. watched.sensor \in Sensors
        BY StateFacts
      <4> QED  BY <1>5, <4>1
    <3> QED  BY <1>5, <3>1, <3>2, WatchedWasOpen
  <2>2. watched \in intervals
    BY <1>2, <2>1 DEF NothingLeftOut
  <2>3. CASE watched = i /\ piece = Lacking(i)
    <3>1. Lacking(i) = Between(i, remembered[i.sensor])
      BY <2>1, <2>3 DEF Lacking, Between
    <3>2. piece \subseteq Between(i, stored'[i.sensor])
      BY <1>5, <2>3, <3>1 DEF Between
    <3>3. piece # {}
      BY <1>2, <2>3, <3>1 DEF WatchedKnown
    <3> QED  BY <2>1, <2>3, <3>2, <3>3
  <2> QED  BY <1>1, <2>2, <2>3
<1> QED  BY <1>7, <1>8, <1>9, <1>10 DEF SInv

LEMMA FinishKeeps ==
    ASSUME SInv, Finish \/ UNCHANGED vars
    PROVE  SInv'
<1>1. /\ UNCHANGED <<now, remembered, stored, registered, asked, intervals, capped, watched>>
      /\ pc' = pc \/ (pc = "uploading" /\ intervals = {} /\ ~capped /\ pc' = "idle")
  <2>1. CASE Finish
    BY <2>1 DEF Finish
  <2>2. CASE UNCHANGED vars
    BY <2>2 DEF vars
  <2> QED  BY <2>1, <2>2
<1>2. TypeOK /\ Shape /\ Phases /\ WatchedKnown /\ NothingLeftOut
  BY DEF SInv
<1>3. TypeOK'
  BY <1>1, <1>2 DEF TypeOK, Times, Intervals
<1>4. Shape' /\ WatchedKnown'
  BY <1>1, <1>2 DEF Shape, WatchedKnown, Times, Asked, Between
<1>5. Phases'
  BY <1>1, <1>2 DEF Phases, Asked
<1>6. NothingLeftOut'
  <2>1. watched # NoGap => OpenGaps(watched.sensor)' = OpenGaps(watched.sensor)
    BY <1>1, StateFacts, OpenGapsLooked
  <2> QED  BY <1>1, <1>2, <2>1 DEF NothingLeftOut, Asked
<1> QED  BY <1>3, <1>4, <1>5, <1>6 DEF SInv

LEMMA SyncStep == SInv /\ [Next]_vars => SInv'
<1> SUFFICES ASSUME SInv, [Next]_vars PROVE SInv'
  OBVIOUS
<1>1. CASE \E taken \in SUBSET Sensors : \E heard \in SUBSET taken : Tick(taken, heard)
  BY <1>1, TickKeeps
<1>2. CASE StartSync
  BY <1>2, StartSyncKeeps
<1>3. CASE SyncSensor
  BY <1>3, SyncSensorKeeps
<1>4. CASE Answer
  BY <1>4, AnswerKeeps
<1>5. CASE \E i \in intervals : \E piece \in SUBSET Lacking(i) : Upload(i, piece)
  BY <1>5, UploadKeeps
<1>6. CASE AskAgain
  BY <1>6, AskAgainKeeps
<1>7. CASE Finish \/ UNCHANGED vars
  BY <1>7, FinishKeeps
<1> QED  BY <1>1, <1>2, <1>3, <1>4, <1>5, <1>6, <1>7 DEF Next

LEMMA SyncInvariance == Spec => []SInv
BY SyncInit, SyncStep, PTL DEF Spec

(* A sync that is over has closed the gap.                                 *)
LEMMA NothingLeftOutCloses == SInv => ClosedWhenOver
<1> SUFFICES ASSUME SInv, pc = "idle", watched # NoGap,
                    NEW k \in DOMAIN Requested, Requested[k] = watched.sensor
             PROVE  watched \notin OpenGaps(watched.sensor)
  BY DEF ClosedWhenOver
<1>1. intervals = {} /\ ~capped /\ asked = Len(Requested)
  BY DEF SInv, Phases
<1>2. watched.sensor \in Asked
  BY <1>1, SyncConstants DEF Asked
<1> QED  BY <1>1, <1>2 DEF SInv, NothingLeftOut

(* Neither an answer nor what is left of it while the gateway uploads is   *)
(* longer than the caps, whatever comes in while the handler reads one     *)
(* sensor after the other, and the places left are never negative          *)
(* (get_or_create_sensors_with_sync_state).                                *)
THEOREM SyncTypeOK == Spec => []TypeOK
BY SyncInvariance, PTL DEF SInv

(* A gateway that stops when the server no longer warns has left out       *)
(* nothing: however often the answers were cut, whatever came in meanwhile *)
(* and whatever was uploaded in pieces, a gap that could be filled when it *)
(* began is not one any more.                                              *)
THEOREM SyncClosedWhenOver == Spec => []ClosedWhenOver
BY SyncInvariance, NothingLeftOutCloses, PTL

------------------------------------------------------------------------------
(* WindowBound alone is not inductive: a window may be open on a bucket    *)
(* that is still full.  Potential counts the tokens left as well: grants   *)
(* and tokens together never exceed the capacity and the refill since the  *)
(* window opened.  RetryAfterExact rests on Promise: the straight line on  *)
(* which a denied bucket refills reaches one token at the tick that was    *)
(* promised, not a second before, and a further denial stays on that line. *)

(* The bucket of k at tick t if nobody asks and nothing spills over.       *)
Refilled(k, t) == store[k].tokens + (t - store[k].updated_at) * Limit

Past == \A k \in Keys :
    /\ store[k] # NoState => store[k].updated_at <= monotonic
    /\ window[k].start <= monotonic

Potential == \A k \in Keys :
    window[k].count * One + Tokens(k) <= capacity + (monotonic - window[k].start) * Limit

Promise == \A k \in Keys : denied[k] # NoState =>
    /\ store[k] # NoState
    /\ Refilled(k, denied[k]) >= One
    /\ Refilled(k, denied[k] - Second) < One

LInv == LimiterTypeOK /\ Past /\ Potential /\ Promise

------------------------------------------------------------------------------
(* A bucket holds at least one token, counted in whole units.              *)
LEMMA CapacityHolds ==
    /\ One \in Nat /\ One >= 1
    /\ capacity \in Nat /\ capacity >= One
<1>1. One \in Nat /\ One >= 1
  BY LimiterAssumption DEF One
<1>2. Limit * One \in Nat /\ Limit * One >= One
  BY <1>1, LimiterAssumption
<1> QED  BY <1>1, <1>2 DEF capacity

(* A product grows with its factor.                                        *)
LEMMA Distributes ==
    ASSUME NEW a \in Int, NEW b \in Int, NEW c \in Int
    PROVE  /\ a * c \in Int
           /\ (a + b) * c = a * c + b * c
           /\ (a - b) * c = a * c - b * c
OBVIOUS

LEMMA Grows ==
    ASSUME NEW a \in Int, NEW b \in Int, NEW c \in Nat, a <= b
    PROVE  a * c <= b * c
OBVIOUS

(* The quotient of the code's ceil: enough, and not one too many.          *)
LEMMA Ceiling ==
    ASSUME NEW a \in Nat, NEW r \in Nat \ {0}
    PROVE  LET c == (a + r - 1) \div r
           IN  c \in Nat /\ c * r >= a /\ c * r < a + r
<1> DEFINE n == a + r - 1
<1>1. n \in Nat
  OBVIOUS
<1> HIDE DEF n
<1>2. n \div r \in Nat /\ (n \div r) * r <= n /\ n < (n \div r) * r + r
  BY <1>1
<1> QED  BY <1>2 DEF n

(* consume never finds more than the capacity, nor a negative count.       *)
LEMMA TokensRange ==
    ASSUME LInv, NEW k \in Keys
    PROVE  /\ Tokens(k) \in 0 .. capacity
           /\ store[k] # NoState =>
                /\ store[k] \in Bucket
                /\ Refilled(k, monotonic) \in Nat
                /\ Tokens(k) <= Refilled(k, monotonic)
                /\ Tokens(k) = Refilled(k, monotonic) \/ Tokens(k) = capacity
<1>1. CASE store[k] = NoState
  BY <1>1, CapacityHolds DEF Tokens
<1>2. CASE store[k] # NoState
  <2>1. store[k] \in Bucket /\ monotonic \in Nat /\ store[k].updated_at <= monotonic
    BY <1>2 DEF LInv, LimiterTypeOK, Past
  <2>2. store[k].tokens \in Nat /\ store[k].tokens <= capacity /\ store[k].updated_at \in Nat
    BY <2>1, CapacityHolds DEF Bucket
  <2>3. (monotonic - store[k].updated_at) * Limit \in Nat
    BY <2>1, <2>2, LimiterAssumption
  <2>4. Refilled(k, monotonic) \in Nat
    BY <2>2, <2>3 DEF Refilled
  <2>5. Tokens(k) = IF Refilled(k, monotonic) < capacity THEN Refilled(k, monotonic) ELSE capacity
    BY <1>2 DEF Tokens, Refilled
  <2> QED  BY <2>1, <2>4, <2>5, CapacityHolds
<1> QED  BY <1>1, <1>2

------------------------------------------------------------------------------
LEMMA LimiterEstablishes == LimiterInit => LInv
<1> SUFFICES ASSUME LimiterInit PROVE LInv
  OBVIOUS
<1>1. LimiterTypeOK
  BY CapacityHolds DEF LimiterInit, LimiterTypeOK
<1>2. Past /\ Promise
  BY DEF LimiterInit, Past, Promise
<1>3. Potential
  <2> SUFFICES ASSUME NEW k \in Keys
               PROVE  window[k].count * One + Tokens(k)
                        <= capacity + (monotonic - window[k].start) * Limit
    BY DEF Potential
  <2>1. Tokens(k) = capacity /\ window[k] = [start |-> 0, count |-> 0] /\ monotonic = 0
    BY DEF LimiterInit, Tokens
  <2>2. 0 * One = 0 /\ 0 * Limit = 0
    BY CapacityHolds, LimiterAssumption
  <2> QED  BY <2>1, <2>2, CapacityHolds
<1> QED  BY <1>1, <1>2, <1>3 DEF LInv

(* What a request leaves in the store: a bucket brought up to now, with or *)
(* without the token it took.  Asking again at once finds what was left.   *)
LEMMA Brought ==
    ASSUME LInv, NEW k \in Keys, NEW left \in 0 .. capacity, monotonic' = monotonic,
           store' = [store EXCEPT ![k] = [tokens |-> left, updated_at |-> monotonic]]
    PROVE  /\ store' \in [Keys -> Bucket \cup {NoState}]
           /\ store'[k] = [tokens |-> left, updated_at |-> monotonic]
           /\ store'[k] # NoState
           /\ Tokens(k)' = left
           /\ \A j \in Keys \ {k} : store'[j] = store[j] /\ Tokens(j)' = Tokens(j)
<1>1. store \in [Keys -> Bucket \cup {NoState}] /\ monotonic \in Nat
  BY DEF LInv, LimiterTypeOK
<1>2. [tokens |-> left, updated_at |-> monotonic] \in Bucket
  BY <1>1 DEF Bucket
<1>3. store'[k] = [tokens |-> left, updated_at |-> monotonic]
  BY <1>1
<1>4. [tokens |-> left, updated_at |-> monotonic] \in [tokens : Nat, updated_at : Nat]
  BY <1>1, CapacityHolds
<1>5. store'[k] # NoState
  BY <1>3, <1>4, LimiterAssumption
<1>6. Tokens(k)' = left
  <2>1. left + (monotonic - monotonic) * Limit = left
    BY <1>1, CapacityHolds, LimiterAssumption
  <2>2. Tokens(k)' = IF left + (monotonic - monotonic) * Limit < capacity
                     THEN left + (monotonic - monotonic) * Limit ELSE capacity
    BY <1>3, <1>5 DEF Tokens, capacity, One
  <2> QED  BY <2>1, <2>2, CapacityHolds
<1>7. \A j \in Keys \ {k} : store'[j] = store[j]
  BY <1>1
<1>8. \A j \in Keys \ {k} : Tokens(j)' = Tokens(j)
  BY <1>7 DEF Tokens, capacity, One
<1> QED  BY <1>1, <1>2, <1>3, <1>5, <1>6, <1>7, <1>8

LEMMA AllowPreserves ==
    ASSUME LInv, NEW k \in Keys, Allow(k)
    PROVE  LInv'
<1> DEFINE left == Tokens(k) - One
<1>1. left \in 0 .. capacity
  BY TokensRange, CapacityHolds DEF Allow
<1>2. monotonic' = monotonic /\ store' = [store EXCEPT ![k] = [tokens |-> left, updated_at |-> monotonic]]
  BY DEF Allow
<1> HIDE DEF left
<1>3. /\ store' \in [Keys -> Bucket \cup {NoState}]
      /\ store'[k] = [tokens |-> left, updated_at |-> monotonic]
      /\ store'[k] # NoState
      /\ Tokens(k)' = left
      /\ \A j \in Keys \ {k} : store'[j] = store[j] /\ Tokens(j)' = Tokens(j)
  BY <1>1, <1>2, Brought
<1>4. /\ denied' = [denied EXCEPT ![k] = NoState]
      /\ window' = [window EXCEPT ![k].count = @ + 1]
  BY DEF Allow
<1>5. LimiterTypeOK /\ Past /\ Potential /\ Promise
  BY DEF LInv
<1>6. window \in [Keys -> [start : Nat, count : Nat]] /\ denied \in [Keys -> Nat \cup {NoState}]
      /\ monotonic \in Nat
  BY <1>5 DEF LimiterTypeOK
<1>7. /\ window'[k].start = window[k].start
      /\ window'[k].count = window[k].count + 1
      /\ \A j \in Keys \ {k} : window'[j] = window[j]
  BY <1>4, <1>6
<1>8. LimiterTypeOK'
  <2>1. window' \in [Keys -> [start : Nat, count : Nat]]
    BY <1>4, <1>6
  <2>2. denied' \in [Keys -> Nat \cup {NoState}]
    BY <1>4, <1>6
  <2>3. (Bucket \cup {NoState})' = Bucket \cup {NoState}
    BY DEF Bucket, capacity, One
  <2> QED  BY <1>2, <1>3, <1>6, <2>1, <2>2 DEF LimiterTypeOK, Bucket, capacity, One
<1>9. Past'
  <2> SUFFICES ASSUME NEW j \in Keys
               PROVE  /\ store'[j] # NoState => store'[j].updated_at <= monotonic'
                      /\ window'[j].start <= monotonic'
    BY DEF Past
  <2>1. CASE j = k
    BY <1>2, <1>3, <1>5, <1>6, <1>7, <2>1 DEF Past
  <2>2. CASE j # k
    BY <1>2, <1>3, <1>5, <1>7, <2>2 DEF Past
  <2> QED  BY <2>1, <2>2
<1>10. Potential'
  <2> SUFFICES ASSUME NEW j \in Keys
               PROVE  window'[j].count * One + Tokens(j)'
                        <= capacity + (monotonic' - window'[j].start) * Limit
    BY DEF Potential, capacity, One
  <2>1. window[j].count * One + Tokens(j) <= capacity + (monotonic - window[j].start) * Limit
    BY <1>5 DEF Potential
  <2>2. CASE j = k
    <3>1. (window[k].count + 1) * One = window[k].count * One + 1 * One /\ window[k].count * One \in Int
      <4>1. window[k].count \in Int /\ One \in Int
        BY <1>6, CapacityHolds
      <4> QED  BY <4>1, Distributes
    <3>2. Tokens(k)' = Tokens(k) - One /\ Tokens(k) \in Int
      BY <1>3, TokensRange, CapacityHolds DEF left
    <3>3. (monotonic - window[k].start) * Limit \in Int
      BY <1>6, LimiterAssumption
    <3>4. 1 * One = One
      BY CapacityHolds
    <3> QED  BY <1>2, <1>7, <2>1, <2>2, <3>1, <3>2, <3>3, <3>4, CapacityHolds
  <2>3. CASE j # k
    BY <1>2, <1>3, <1>7, <2>1, <2>3
  <2> QED  BY <2>2, <2>3
<1>11. Promise'
  <2> SUFFICES ASSUME NEW j \in Keys, denied'[j] # NoState
               PROVE  /\ store'[j] # NoState
                      /\ Refilled(j, denied[j])' >= One
                      /\ Refilled(j, denied[j] - Second)' < One
    BY DEF Promise, One
  <2>1. j # k /\ denied'[j] = denied[j]
    BY <1>4, <1>6
  <2>2. store'[j] = store[j]
    BY <1>3, <2>1
  <2> QED  BY <1>5, <2>1, <2>2 DEF Promise, Refilled
<1> QED  BY <1>8, <1>9, <1>10, <1>11 DEF LInv

(* A denial names the tick at which the line of the bucket reaches a token. *)
LEMMA Promised ==
    ASSUME NEW tokens \in 0 .. One - 1
    PROVE  /\ RetryAfter(tokens) \in Nat
           /\ tokens + RetryAfter(tokens) * Limit >= One
           /\ tokens + (RetryAfter(tokens) - Second) * Limit < One
<1> DEFINE r == Second * Limit
           a == One - tokens
<1>1. r \in Nat \ {0}
  BY LimiterAssumption
<1>2. a \in Nat
  BY CapacityHolds
<1>3. PICK c \in Nat : c = (a + r - 1) \div r /\ c * r >= a /\ c * r < a + r
  BY <1>1, <1>2, Ceiling
<1>4. RetryAfter(tokens) = Second * c
  BY <1>3 DEF RetryAfter
<1>5. Second * c \in Nat /\ (Second * c) * Limit = c * r
  BY LimiterAssumption
<1>6. (Second * c - Second) * Limit = c * r - r
  BY <1>5, Distributes, LimiterAssumption
<1>7. c * r \in Int
  BY <1>1
<1> HIDE DEF r
<1> QED  BY <1>1, <1>2, <1>3, <1>4, <1>5, <1>6, <1>7, CapacityHolds

LEMMA DenyPreserves ==
    ASSUME LInv, NEW k \in Keys, Deny(k)
    PROVE  LInv'
<1> DEFINE left == Tokens(k)
<1>1. left \in 0 .. capacity
  BY TokensRange
<1>2. monotonic' = monotonic /\ store' = [store EXCEPT ![k] = [tokens |-> left, updated_at |-> monotonic]]
  BY DEF Deny
<1>3. left < One
  BY DEF Deny
<1> HIDE DEF left
<1>4. /\ store' \in [Keys -> Bucket \cup {NoState}]
      /\ store'[k] = [tokens |-> left, updated_at |-> monotonic]
      /\ store'[k] # NoState
      /\ Tokens(k)' = left
      /\ \A j \in Keys \ {k} : store'[j] = store[j] /\ Tokens(j)' = Tokens(j)
  BY <1>1, <1>2, Brought
<1>5. /\ denied' = [denied EXCEPT ![k] =
                      IF @ = NoState THEN monotonic + RetryAfter(left) ELSE @]
      /\ window' = window
  BY DEF Deny, left
<1>6. LimiterTypeOK /\ Past /\ Potential /\ Promise
  BY DEF LInv
<1>7. window \in [Keys -> [start : Nat, count : Nat]] /\ denied \in [Keys -> Nat \cup {NoState}]
      /\ monotonic \in Nat
  BY <1>6 DEF LimiterTypeOK
<1>8. /\ RetryAfter(left) \in Nat
      /\ left + RetryAfter(left) * Limit >= One
      /\ left + (RetryAfter(left) - Second) * Limit < One
  <2>1. left \in 0 .. One - 1
    BY <1>1, <1>3, CapacityHolds
  <2> QED  BY <2>1, Promised
<1>9. LimiterTypeOK'
  <2>1. monotonic + RetryAfter(left) \in Nat
    BY <1>7, <1>8
  <2>2. denied' \in [Keys -> Nat \cup {NoState}]
    BY <1>5, <1>7, <2>1
  <2> QED  BY <1>2, <1>4, <1>5, <1>7, <2>2 DEF LimiterTypeOK, Bucket, capacity, One
<1>10. Past'
  <2> SUFFICES ASSUME NEW j \in Keys
               PROVE  /\ store'[j] # NoState => store'[j].updated_at <= monotonic'
                      /\ window'[j].start <= monotonic'
    BY DEF Past
  <2>1. CASE j = k
    BY <1>2, <1>4, <1>5, <1>6, <1>7, <2>1 DEF Past
  <2>2. CASE j # k
    BY <1>2, <1>4, <1>5, <1>6, <2>2 DEF Past
  <2> QED  BY <2>1, <2>2
<1>11. Potential'
  <2>1. \A j \in Keys : Tokens(j)' = Tokens(j)
    BY <1>4 DEF left
  <2> QED  BY <1>2, <1>5, <1>6, <2>1 DEF Potential, capacity, One
<1>12. Promise'
  <2> SUFFICES ASSUME NEW j \in Keys, denied'[j] # NoState
               PROVE  /\ store'[j] # NoState
                      /\ Refilled(j, denied[j])' >= One
                      /\ Refilled(j, denied[j] - Second)' < One
    BY DEF Promise, One
  <2>1. CASE j # k
    <3>1. denied'[j] = denied[j] /\ store'[j] = store[j]
      BY <1>4, <1>5, <1>7, <2>1
    <3> QED  BY <1>6, <3>1 DEF Promise, Refilled
  <2>2. CASE j = k /\ denied[k] = NoState
    <3>1. denied'[k] = monotonic + RetryAfter(left)
      BY <1>5, <1>7, <2>2
    <3>2. /\ Refilled(k, denied[k])' = left + (denied'[k] - monotonic) * Limit
          /\ Refilled(k, denied[k] - Second)' = left + (denied'[k] - Second - monotonic) * Limit
      BY <1>4 DEF Refilled
    <3>3. /\ denied'[k] - monotonic = RetryAfter(left)
          /\ denied'[k] - Second - monotonic = RetryAfter(left) - Second
      BY <1>7, <1>8, <3>1, LimiterAssumption
    <3> QED  BY <1>4, <1>8, <2>2, <3>2, <3>3
  <2>3. CASE j = k /\ denied[k] # NoState
    <3>1. denied'[k] = denied[k] /\ denied[k] \in Nat
      BY <1>5, <1>7, <2>3
    <3>2. /\ store[k] # NoState
          /\ Refilled(k, denied[k]) >= One
          /\ Refilled(k, denied[k] - Second) < One
      BY <1>6, <2>3 DEF Promise
    <3>3. store[k] \in Bucket /\ left = Refilled(k, monotonic)
      BY <1>3, <3>2, TokensRange, CapacityHolds DEF left
    <3>4. \A t \in Int : left + (t - monotonic) * Limit = Refilled(k, t)
      <4> SUFFICES ASSUME NEW t \in Int
                   PROVE  left + (t - monotonic) * Limit = Refilled(k, t)
        OBVIOUS
      <4> DEFINE u == store[k].updated_at
                 s == store[k].tokens
      <4>1. u \in Int /\ s \in Int
        BY <3>3, CapacityHolds DEF Bucket
      <4>2. left = s + (monotonic - u) * Limit /\ Refilled(k, t) = s + (t - u) * Limit
        BY <3>3 DEF Refilled
      <4> HIDE DEF u, s
      <4>3. /\ (monotonic - u) * Limit = monotonic * Limit - u * Limit
            /\ (t - u) * Limit = t * Limit - u * Limit
            /\ (t - monotonic) * Limit = t * Limit - monotonic * Limit
            /\ u * Limit \in Int /\ t * Limit \in Int /\ monotonic * Limit \in Int
        BY <1>7, <4>1, Distributes, LimiterAssumption
      <4> QED  BY <4>1, <4>2, <4>3
    <3>5. /\ Refilled(k, denied[k])' = left + (denied[k] - monotonic) * Limit
          /\ Refilled(k, denied[k] - Second)' = left + ((denied[k] - Second) - monotonic) * Limit
      BY <1>4, <3>1 DEF Refilled
    <3>6. denied[k] \in Int /\ denied[k] - Second \in Int
      BY <3>1, LimiterAssumption
    <3> QED  BY <1>4, <2>3, <3>2, <3>4, <3>5, <3>6
  <2> QED  BY <2>1, <2>2, <2>3
<1> QED  BY <1>9, <1>10, <1>11, <1>12 DEF LInv

LEMMA TickPreserves ==
    ASSUME LInv, Elapse
    PROVE  LInv'
<1>1. monotonic' = monotonic + 1 /\ store' = store /\ denied' = denied /\ window' = window
  BY DEF Elapse
<1>2. LimiterTypeOK /\ Past /\ Potential /\ Promise /\ monotonic \in Nat
  BY DEF LInv, LimiterTypeOK
<1>3. LimiterTypeOK'
  BY <1>1, <1>2 DEF LimiterTypeOK, Bucket, capacity, One
<1>4. Past'
  <2> SUFFICES ASSUME NEW j \in Keys
               PROVE  /\ store[j] # NoState => store[j].updated_at <= monotonic + 1
                      /\ window[j].start <= monotonic + 1
    BY <1>1 DEF Past
  <2>1. store[j] \in Bucket \cup {NoState} /\ window[j].start \in Nat
    BY <1>2 DEF LimiterTypeOK
  <2>2. store[j] # NoState => store[j].updated_at \in Nat
    BY <2>1 DEF Bucket
  <2>3. /\ store[j] # NoState => store[j].updated_at <= monotonic
        /\ window[j].start <= monotonic
    BY <1>2 DEF Past
  <2> QED  BY <1>2, <2>1, <2>2, <2>3
<1>5. Potential'
  <2> SUFFICES ASSUME NEW j \in Keys
               PROVE  window'[j].count * One + Tokens(j)'
                        <= capacity + (monotonic' - window'[j].start) * Limit
    BY DEF Potential, capacity, One
  <2>1. window[j].count * One + Tokens(j) <= capacity + (monotonic - window[j].start) * Limit
    BY <1>2 DEF Potential
  <2>2. window[j].start \in Nat /\ window[j].count \in Nat /\ store[j] \in Bucket \cup {NoState}
    BY <1>2 DEF LimiterTypeOK
  <2>3. /\ (monotonic' - window[j].start) * Limit = (monotonic - window[j].start) * Limit + Limit
        /\ (monotonic - window[j].start) * Limit \in Int
        /\ window[j].count * One \in Int
    <3>1. monotonic' - window[j].start = (monotonic - window[j].start) + 1 /\ monotonic - window[j].start \in Int
      BY <1>1, <1>2, <2>2
    <3>2. ((monotonic - window[j].start) + 1) * Limit = (monotonic - window[j].start) * Limit + 1 * Limit
      BY <3>1, Distributes, LimiterAssumption
    <3> QED  BY <2>2, <3>1, <3>2, CapacityHolds, LimiterAssumption
  <2>4. Tokens(j)' <= Tokens(j) + Limit /\ Tokens(j)' \in Int /\ Tokens(j) \in Int
    <3>1. CASE store[j] = NoState
      BY <1>1, <3>1, CapacityHolds, LimiterAssumption DEF Tokens, capacity, One
    <3>2. CASE store[j] # NoState
      <4> DEFINE u == store[j].updated_at
                 s == store[j].tokens
      <4>1. u \in Nat /\ s \in Nat
        BY <2>2, <3>2, CapacityHolds DEF Bucket
      <4>2. Tokens(j) = IF s + (monotonic - u) * Limit < capacity THEN s + (monotonic - u) * Limit ELSE capacity
        BY <3>2 DEF Tokens
      <4>3. Tokens(j)' = IF s + (monotonic' - u) * Limit < capacity
                         THEN s + (monotonic' - u) * Limit ELSE capacity
        <5>1. Tokens(j)' = IF store'[j] = NoState THEN capacity
                           ELSE IF store'[j].tokens + (monotonic' - store'[j].updated_at) * Limit < capacity
                                THEN store'[j].tokens + (monotonic' - store'[j].updated_at) * Limit
                                ELSE capacity
          BY DEF Tokens, capacity, One
        <5> QED  BY <1>1, <3>2, <5>1
      <4> HIDE DEF u, s
      <4>4. (monotonic' - u) * Limit = (monotonic - u) * Limit + Limit /\ (monotonic - u) * Limit \in Int
        <5>1. monotonic' - u = (monotonic - u) + 1 /\ monotonic - u \in Int
          BY <1>1, <1>2, <4>1
        <5>2. ((monotonic - u) + 1) * Limit = (monotonic - u) * Limit + 1 * Limit
          BY <5>1, Distributes, LimiterAssumption
        <5> QED  BY <5>1, <5>2, LimiterAssumption
      <4> QED  BY <4>1, <4>2, <4>3, <4>4, CapacityHolds, LimiterAssumption
    <3> QED  BY <3>1, <3>2
  <2>5. window' = window
    BY <1>1
  <2> QED  BY <2>1, <2>3, <2>4, <2>5, CapacityHolds, LimiterAssumption
<1>6. Promise'
  BY <1>1, <1>2 DEF Promise, Refilled, One
<1> QED  BY <1>3, <1>4, <1>5, <1>6 DEF LInv

LEMMA OpenWindowPreserves ==
    ASSUME LInv, NEW k \in Keys, OpenWindow(k)
    PROVE  LInv'
<1>1. /\ monotonic' = monotonic /\ store' = store /\ denied' = denied
      /\ window' = [window EXCEPT ![k] = [start |-> monotonic, count |-> 0]]
  BY DEF OpenWindow
<1>2. LimiterTypeOK /\ Past /\ Potential /\ Promise /\ monotonic \in Nat
      /\ window \in [Keys -> [start : Nat, count : Nat]]
  BY DEF LInv, LimiterTypeOK
<1>3. /\ window'[k] = [start |-> monotonic, count |-> 0]
      /\ \A j \in Keys \ {k} : window'[j] = window[j]
  BY <1>1, <1>2
<1>4. LimiterTypeOK'
  BY <1>1, <1>2 DEF LimiterTypeOK, Bucket, capacity, One
<1>5. Past'
  BY <1>1, <1>2, <1>3 DEF Past
<1>6. Potential'
  <2> SUFFICES ASSUME NEW j \in Keys
               PROVE  window'[j].count * One + Tokens(j)
                        <= capacity + (monotonic - window'[j].start) * Limit
    BY <1>1 DEF Potential, Tokens, capacity, One
  <2>1. CASE j = k
    <3>1. 0 * One = 0 /\ (monotonic - monotonic) * Limit = 0
      BY <1>2, CapacityHolds, LimiterAssumption
    <3>2. window'[j].count = 0 /\ window'[j].start = monotonic
      BY <1>3, <2>1
    <3> QED  BY <3>1, <3>2, TokensRange, CapacityHolds
  <2>2. CASE j # k
    BY <1>2, <1>3, <2>2 DEF Potential
  <2> QED  BY <2>1, <2>2
<1>7. Promise'
  BY <1>1, <1>2 DEF Promise, Refilled, One
<1> QED  BY <1>4, <1>5, <1>6, <1>7 DEF LInv

LEMMA LimiterStep == LInv /\ [LimiterNext]_limiterVars => LInv'
<1> SUFFICES ASSUME LInv, [LimiterNext]_limiterVars PROVE LInv'
  OBVIOUS
<1>1. CASE Elapse
  BY <1>1, TickPreserves
<1>2. ASSUME NEW k \in Keys, Allow(k) PROVE LInv'
  BY <1>2, AllowPreserves
<1>3. ASSUME NEW k \in Keys, Deny(k) PROVE LInv'
  BY <1>3, DenyPreserves
<1>4. ASSUME NEW k \in Keys, OpenWindow(k) PROVE LInv'
  BY <1>4, OpenWindowPreserves
<1>5. CASE UNCHANGED limiterVars
  BY <1>5 DEF limiterVars, LInv, LimiterTypeOK, Past, Potential, Promise, Refilled, Tokens,
              Bucket, capacity, One
<1> QED  BY <1>1, <1>2, <1>3, <1>4, <1>5 DEF LimiterNext

LEMMA LimiterInvariance == LimiterSpec => []LInv
BY LimiterEstablishes, LimiterStep, PTL DEF LimiterSpec

(* Grants never outrun capacity and refill, because the tokens left are    *)
(* never negative.                                                         *)
LEMMA PotentialBounds == LInv => WindowBound
<1> SUFFICES ASSUME LInv, NEW k \in Keys
             PROVE  window[k].count * One <= capacity + (monotonic - window[k].start) * Limit
  BY DEF WindowBound
<1>1. window[k].count * One + Tokens(k) <= capacity + (monotonic - window[k].start) * Limit
  BY DEF LInv, Potential
<1>2. window[k].count \in Nat /\ window[k].start \in Nat /\ monotonic \in Nat
  BY DEF LInv, LimiterTypeOK
<1>3. window[k].count * One \in Int /\ (monotonic - window[k].start) * Limit \in Int
  BY <1>2, CapacityHolds, LimiterAssumption
<1> QED  BY <1>1, <1>3, TokensRange, CapacityHolds

LEMMA PromiseIsKept == LInv => RetryAfterExact
<1> SUFFICES ASSUME LInv, NEW k \in Keys, denied[k] # NoState
             PROVE  /\ monotonic >= denied[k] => Tokens(k) >= One
                    /\ monotonic + Second <= denied[k] => Tokens(k) < One
  BY DEF RetryAfterExact
<1> DEFINE u == store[k].updated_at
           s == store[k].tokens
           d == denied[k]
<1>1. monotonic \in Nat /\ d \in Nat /\ store[k] \in Bucket \cup {NoState}
  BY DEF LInv, LimiterTypeOK
<1>2. store[k] # NoState /\ Refilled(k, d) >= One /\ Refilled(k, d - Second) < One
  BY DEF LInv, Promise
<1>3. u \in Nat /\ s \in Nat
  BY <1>1, <1>2, CapacityHolds DEF Bucket
<1>4. /\ Tokens(k) = IF s + (monotonic - u) * Limit < capacity
                     THEN s + (monotonic - u) * Limit ELSE capacity
      /\ s + (d - u) * Limit >= One
      /\ s + (d - Second - u) * Limit < One
  BY <1>2 DEF Tokens, Refilled
<1> HIDE DEF u, s, d
<1>5. (monotonic - u) * Limit \in Int /\ (d - u) * Limit \in Int /\ (d - Second - u) * Limit \in Int
  BY <1>1, <1>3, LimiterAssumption
<1>6. ASSUME monotonic >= d PROVE Tokens(k) >= One
  <2>1. (d - u) * Limit <= (monotonic - u) * Limit
    <3>1. d - u <= monotonic - u /\ d - u \in Int /\ monotonic - u \in Int
      BY <1>1, <1>3, <1>6
    <3> QED  BY <3>1, Grows, LimiterAssumption
  <2> QED  BY <1>3, <1>4, <1>5, <2>1, CapacityHolds
<1>7. ASSUME monotonic + Second <= d PROVE Tokens(k) < One
  <2>1. (monotonic - u) * Limit <= (d - Second - u) * Limit
    <3>1. monotonic - u <= d - Second - u /\ d - Second - u \in Int /\ monotonic - u \in Int
      BY <1>1, <1>3, <1>7, LimiterAssumption
    <3> QED  BY <3>1, Grows, LimiterAssumption
  <2> QED  BY <1>3, <1>4, <1>5, <2>1, CapacityHolds
<1> QED  BY <1>6, <1>7 DEF d

------------------------------------------------------------------------------
(* A bucket holds between nothing and its capacity, and what it promised   *)
(* is a time.                                                              *)
THEOREM LimiterTypeCorrect == LimiterSpec => []LimiterTypeOK
BY LimiterInvariance, PTL DEF LInv

(* In any window, a key is granted at most its capacity and the refill of  *)
(* the window.                                                             *)
THEOREM LimiterWindowBound == LimiterSpec => []WindowBound
BY LimiterInvariance, PotentialBounds, PTL

(* After the seconds of the oldest Retry-After a request is granted, and a *)
(* second earlier it would not have been.                                  *)
THEOREM LimiterRetryAfterExact == LimiterSpec => []RetryAfterExact
BY LimiterInvariance, PromiseIsKept, PTL
==============================================================================
