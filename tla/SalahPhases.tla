----------------------------- MODULE SalahPhases -----------------------------
(***************************************************************************)
(* The prayer phases of the display (src/salah/state.cpp, types.h).  A     *)
(* schedule gives, for one local date, the minute of the day at which each *)
(* phase begins; the salah library that computes it is outside the         *)
(* repository and stands here as the constant ScheduleOf.                  *)
(***************************************************************************)
EXTENDS Integers

CONSTANTS
    DayMinutes,     \* minutes in a local day (24 * 60 in the code)
    Days,           \* the local dates, numbered from the epoch
    ScheduleOf      \* ScheduleOf[d] is the schedule buildSchedule gives for day d

(* The fields of struct Schedule, in the order computeState tests them. *)
Edges == <<"fajr", "sunrise", "duha", "dahwaEKubra", "zuhr", "asr",
           "asrMakruh", "maghrib", "isha">>

EdgeNames == {Edges[i] : i \in 1..9}

(* The phase that begins at each edge. *)
PhaseFrom ==
    [fajr      |-> "Fajr",      sunrise     |-> "SunriseMakruh",
     duha      |-> "Duha",      dahwaEKubra |-> "DahwaEKubra",
     zuhr      |-> "Zuhr",      asr         |-> "Asr",
     asrMakruh |-> "AsrMakruh", maghrib     |-> "Maghrib",
     isha      |-> "Isha"]

(* Every edge lies in the day.  That they come in order is not assumed:    *)
(* asr_makruh_minutes may be 0, or longer than the afternoon.              *)
Schedule == [EdgeNames -> 0 .. DayMinutes - 1]

ASSUME SalahAssumption ==
    /\ DayMinutes \in Nat \ {0}
    /\ Days \subseteq Nat
    /\ \A d \in Days : ScheduleOf[d] \in Schedule

(* The countdown of the Asr phase runs to Maghrib, every other to its end. *)
Deadline(edge) == IF edge = "asrMakruh" THEN "maghrib" ELSE edge

(* The chain of early returns: the first edge still ahead names the phase. *)
computeState(today, tomorrow, nowMinutes) ==
    LET Ahead(i) == nowMinutes < today[Edges[i]]
        first    == CHOOSE i \in 1..9 : Ahead(i) /\ \A j \in 1 .. i - 1 : ~ Ahead(j)
    IN  IF \E i \in 1..9 : Ahead(i)
        THEN [current          |-> IF first = 1 THEN "Isha"
                                   ELSE PhaseFrom[Edges[first - 1]],
              next             |-> PhaseFrom[Edges[first]],
              minutesRemaining |-> today[Deadline(Edges[first])] - nowMinutes]
        ELSE [current          |-> "Isha",
              next             |-> "Fajr",
              minutesRemaining |-> DayMinutes - nowMinutes + tomorrow["fajr"]]

(* What the display should say in minute t, counted from the epoch. *)
SalahAt(t) ==
    LET day == t \div DayMinutes
    IN  computeState(ScheduleOf[day], ScheduleOf[day + 1], t % DayMinutes)
==============================================================================
