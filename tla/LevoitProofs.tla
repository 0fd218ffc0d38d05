----------------------------- MODULE LevoitProofs -----------------------------
(***************************************************************************)
(* What a run of the humidifier controller leaves behind, for every set of *)
(* overlapping runs, every limits and all thresholds, 0 among them.        *)
(*                                                                         *)
(* RunSettles is made inductive by what a run relies on half way: it has a *)
(* command within the limits (HasCommand), and by the time it sets the     *)
(* target the device is in auto mode (InAuto).                             *)
(***************************************************************************)
EXTENDS Levoit, TLAPS

HasCommand == \A c \in Controllers :
    run[c].pc \in {"connect", "mode", "humidity", "done"} =>
        run[c].commanded \in MinHumidity .. MaxHumidity

InAuto == \A c \in Controllers :
    At(c, "humidity") /\ ~ run[c].touched => device.mode = AutoMode

LInv == TypeOK /\ HasCommand /\ InAuto /\ RunSettles

Device == [mode : Modes, target : Targets \cup MinHumidity .. MaxHumidity \cup {NoValue}]

(* A command never leaves the limits: a value clamped between two whole    *)
(* percents rounds to one of them or to something in between.              *)
LEMMA CommandedInLimits ==
    ASSUME NEW ideal \in Ideals
    PROVE  Commanded(ideal) \in MinHumidity .. MaxHumidity
<1>1. ideal \in Int
  BY LevoitAssumption
<1>2. PICK h \in Int : h = Clamped(ideal) /\ 2 * MinHumidity <= h /\ h <= 2 * MaxHumidity
  BY <1>1, LevoitAssumption DEF Clamped
<1>3. PICK f \in Int : f = h \div 2 /\ h = 2 * f + (h % 2) /\ h % 2 \in 0 .. 1
  BY <1>2
<1>4. PICK r \in Int : r = f % 2 /\ r \in 0 .. 1
  BY <1>3
<1>5. MinHumidity <= f /\ f <= MaxHumidity /\ (h % 2 # 0 => f + 1 <= MaxHumidity)
  BY <1>2, <1>3, LevoitAssumption
<1>6. Round(h) = IF h % 2 = 0 THEN f ELSE f + r
  BY <1>3, <1>4 DEF Round
<1> QED
  BY <1>2, <1>4, <1>5, <1>6, LevoitAssumption DEF Commanded

------------------------------------------------------------------------------
LEMMA InitInv == Init => LInv
<1> SUFFICES ASSUME Init PROVE LInv
  OBVIOUS
<1>1. Idle \in Run
  BY DEF Idle, Run, Labels
<1>2. TypeOK
  BY <1>1, LevoitAssumption DEF Init, TypeOK, Modes
<1>3. HasCommand /\ InAuto /\ RunSettles
  BY DEF Init, HasCommand, InAuto, RunSettles, At, Idle
<1> QED
  BY <1>2, <1>3 DEF LInv

(* One process moves to another place or becomes idle; the device stays.   *)
LEMMA Moves ==
    ASSUME LInv, device' = device, UNCHANGED <<threshold, room, sensor>>,
           disturbances' \in 0 .. MaxDisturbances,
           NEW c \in Controllers, NEW r \in Run, run' = [run EXCEPT ![c] = r],
           r.pc \in {"connect", "mode", "humidity", "done"} =>
               r.commanded \in MinHumidity .. MaxHumidity,
           r.pc = "humidity" /\ ~ r.touched => device.mode = AutoMode,
           r.pc = "done" /\ ~ r.touched => Settled(c, device, r.commanded)
    PROVE  LInv'
<1>1. TypeOK'
  BY DEF LInv, TypeOK
<1>2. \A d \in Controllers : run'[d] = IF d = c THEN r ELSE run[d]
  BY DEF LInv, TypeOK
<1>3. HasCommand'
  BY <1>2 DEF LInv, HasCommand
<1>4. InAuto'
  BY <1>2 DEF LInv, InAuto, At
<1>5. RunSettles'
  BY <1>2 DEF LInv, RunSettles, At, Settled, Within
<1> QED
  BY <1>1, <1>3, <1>4, <1>5 DEF LInv

(* The device is set: every other process counts as disturbed.             *)
LEMMA Touches ==
    ASSUME LInv, UNCHANGED <<threshold, room, sensor>>,
           disturbances' \in 0 .. MaxDisturbances,
           device' \in Device,
           NEW C \in SUBSET Controllers, NEW label \in Labels,
           run' = [d \in Controllers |->
                     IF d \in C THEN [run[d] EXCEPT !.pc = label]
                     ELSE [run[d] EXCEPT !.touched = TRUE]],
           \A c \in C :
               /\ run[c].commanded \in MinHumidity .. MaxHumidity
               /\ label = "humidity" /\ ~ run[c].touched => device'.mode = AutoMode
               /\ label = "done" /\ ~ run[c].touched => Settled(c, device', run[c].commanded)
    PROVE  LInv'
<1>1. \A d \in Controllers : run[d] \in Run /\ run'[d] \in Run
  BY DEF LInv, TypeOK, Run
<1>2. TypeOK'
  BY <1>1 DEF LInv, TypeOK, Device
<1>3. ASSUME NEW d \in Controllers, d \in C
      PROVE  run'[d].pc = label /\ run'[d].touched = run[d].touched
             /\ run'[d].commanded = run[d].commanded
  BY <1>1, <1>3 DEF Run
<1>4. ASSUME NEW d \in Controllers, d \notin C
      PROVE  run'[d].pc = run[d].pc /\ run'[d].touched = TRUE
             /\ run'[d].commanded = run[d].commanded
  BY <1>1, <1>4 DEF Run
<1>5. HasCommand'
  BY <1>3, <1>4 DEF LInv, HasCommand
<1>6. InAuto'
  BY <1>3, <1>4 DEF InAuto, At
<1>7. RunSettles'
  BY <1>3, <1>4 DEF RunSettles, At, Settled, Within
<1> QED
  BY <1>2, <1>5, <1>6, <1>7 DEF LInv
LEMMA NextInv == LInv /\ [Next]_vars => LInv'
<1> SUFFICES ASSUME LInv, [Next]_vars PROVE LInv'
  OBVIOUS
<1>t. TypeOK /\ HasCommand /\ InAuto /\ RunSettles
  BY DEF LInv
<1>d. disturbances \in 0 .. MaxDisturbances /\ device \in Device /\ sensor \in Ideals \cup {NoValue}
  BY <1>t DEF TypeOK, Device
<1>r. \A c \in Controllers : run[c] \in Run
  BY <1>t DEF TypeOK
<1>i. Idle \in Run /\ Idle.pc = "idle"
  BY DEF Idle, Run, Labels
<1>e. ASSUME Disturb PROVE disturbances' \in 0 .. MaxDisturbances
  BY <1>d, <1>e, LevoitAssumption DEF Disturb
<1>1. ASSUME NEW c \in Controllers, FetchReading(c) PROVE LInv'
  <2> DEFINE r == [Idle EXCEPT !.pc = "state", !.ideal = sensor]
  <2>1. r \in Run /\ r.pc = "state"
    BY <1>d, <1>i DEF Idle, Run, Labels
  <2> QED
    BY <1>1, <1>d, <2>1, Moves DEF FetchReading
<1>2. ASSUME NEW c \in Controllers, FetchState(c) PROVE LInv'
  <2>1. CASE run[c].ideal = NoValue
    BY <1>2, <1>d, <1>i, <2>1, Moves DEF FetchState
  <2>2. CASE run[c].ideal # NoValue
    <3> DEFINE n == Commanded(run[c].ideal)
               near == Within(c, n, Reference(device))
               r == [run[c] EXCEPT !.pc = IF near THEN "done" ELSE "connect",
                                   !.commanded = n, !.touched = FALSE]
    <3>1. n \in MinHumidity .. MaxHumidity
      BY <1>r, <2>2, CommandedInLimits DEF Run
    <3>2. /\ r \in Run /\ r.commanded = n
          /\ r.pc = IF near THEN "done" ELSE "connect"
      BY <1>r, <3>1 DEF Run, Labels
    <3>3. near => Settled(c, device, n)
      BY DEF Within, Reference, Settled
    <3>4. run' = [run EXCEPT ![c] = r]
      BY <1>2, <2>2 DEF FetchState
    <3>5. device' = device /\ UNCHANGED <<threshold, room, sensor>> /\ disturbances' = disturbances
      BY <1>2 DEF FetchState
    <3>6. r.commanded \in MinHumidity .. MaxHumidity
      BY <3>1, <3>2
    <3>7. r.pc # "humidity" /\ (r.pc = "done" => Settled(c, device, r.commanded))
      BY <3>2, <3>3
    <3> HIDE DEF r, near, n
    <3> QED
      BY <3>6, <3>7, <1>d, <3>1, <3>2, <3>3, <3>4, <3>5, Moves
  <2> QED
    BY <2>1, <2>2
<1>3. ASSUME NEW c \in Controllers, Connect(c) PROVE LInv'
  <2> DEFINE label == IF device.mode # AutoMode THEN "mode" ELSE "humidity"
             r == [run[c] EXCEPT !.pc = label]
  <2>1. r \in Run /\ r.pc = label /\ r.commanded = run[c].commanded
    BY <1>r DEF Run, Labels
  <2>2. run[c].commanded \in MinHumidity .. MaxHumidity
    BY <1>3, <1>t DEF Connect, At, HasCommand
  <2>3. run' = [run EXCEPT ![c] = r]
    BY <1>3 DEF Connect, Goto
  <2>4. device' = device /\ UNCHANGED <<threshold, room, sensor>> /\ disturbances' = disturbances
    BY <1>3 DEF Connect
  <2>5. r.pc # "done" /\ (r.pc = "humidity" => device.mode = AutoMode)
    BY <2>1
  <2> HIDE DEF r
  <2> QED
    BY <2>5, <1>d, <2>1, <2>2, <2>3, <2>4, Moves
<1>4. ASSUME NEW c \in Controllers, SetMode(c) PROVE LInv'
  <2>1. run[c].commanded \in MinHumidity .. MaxHumidity
    BY <1>4, <1>t DEF SetMode, At, HasCommand
  <2>2. device' \in Device /\ device'.mode = AutoMode
    BY <1>4, <1>d DEF SetMode, DeviceSet, Device, Modes
  <2>3. run' = [d \in Controllers |->
                  IF d \in {c} THEN [run[d] EXCEPT !.pc = "humidity"]
                  ELSE [run[d] EXCEPT !.touched = TRUE]]
    BY <1>4 DEF SetMode, DeviceSet
  <2>4. UNCHANGED <<threshold, room, sensor>> /\ disturbances' \in 0 .. MaxDisturbances
    BY <1>4, <1>d DEF SetMode
  <2>5. "humidity" \in Labels /\ {c} \in SUBSET Controllers
    BY DEF Labels
  <2> QED
    BY <2>1, <2>2, <2>3, <2>4, <2>5, Touches
<1>5. ASSUME NEW c \in Controllers, SetHumidity(c) PROVE LInv'
  <2>1. run[c].commanded \in MinHumidity .. MaxHumidity
    BY <1>5, <1>t DEF SetHumidity, At, HasCommand
  <2>2. device' \in Device /\ device'.target = run[c].commanded /\ device'.mode = device.mode
    BY <1>5, <1>d, <2>1 DEF SetHumidity, DeviceSet, Device
  <2>3. ~ run[c].touched => Settled(c, device', run[c].commanded)
    BY <1>5, <1>t, <2>1, <2>2 DEF SetHumidity, InAuto, Settled
  <2>4. run' = [d \in Controllers |->
                  IF d \in {c} THEN [run[d] EXCEPT !.pc = "done"]
                  ELSE [run[d] EXCEPT !.touched = TRUE]]
    BY <1>5 DEF SetHumidity, DeviceSet
  <2>5. UNCHANGED <<threshold, room, sensor>> /\ disturbances' \in 0 .. MaxDisturbances
    BY <1>5, <1>d DEF SetHumidity
  <2>6. "done" \in Labels /\ {c} \in SUBSET Controllers
    BY DEF Labels
  <2> QED
    BY <2>1, <2>2, <2>3, <2>4, <2>5, <2>6, Touches
<1>6. ASSUME NEW c \in Controllers, Sleep(c) PROVE LInv'
  BY <1>6, <1>d, <1>i, Moves DEF Sleep
<1>7. ASSUME NEW c \in Controllers, Fail(c) PROVE LInv'
  BY <1>7, <1>e, <1>i, Moves DEF Fail
<1>8. ASSUME NEW c \in Controllers, AnswerLost(c) PROVE LInv'
  <2>1. PICK field \in {"mode", "target"}, value \in {AutoMode, run[c].commanded} :
           /\ DeviceSet(c, field, value, "idle")
           /\ field = "mode" => value = AutoMode
           /\ field = "target" => run[c].commanded = value /\ At(c, "humidity")
           /\ run[c].pc \in {"mode", "humidity"}
    BY <1>8 DEF AnswerLost, At
  <2>2. run[c].commanded \in MinHumidity .. MaxHumidity
    BY <1>t, <2>1 DEF HasCommand
  <2>3. device' \in Device
    BY <1>d, <2>1, <2>2 DEF DeviceSet, Device, Modes
  <2>4. run' = [d \in Controllers |->
                  IF d \in {c} THEN [run[d] EXCEPT !.pc = "idle"]
                  ELSE [run[d] EXCEPT !.touched = TRUE]]
    BY <2>1 DEF DeviceSet
  <2>5. UNCHANGED <<threshold, room, sensor>> /\ disturbances' \in 0 .. MaxDisturbances
    BY <1>8, <1>e DEF AnswerLost
  <2>6. "idle" \in Labels /\ {c} \in SUBSET Controllers
    BY DEF Labels
  <2> QED
    BY <2>2, <2>3, <2>4, <2>5, <2>6, Touches
<1>9. CASE OwnerSets
  <2>1. device' \in Device
    BY <1>9 DEF OwnerSets, Device
  <2>2. run' = [d \in Controllers |->
                  IF d \in {} THEN [run[d] EXCEPT !.pc = "idle"]
                  ELSE [run[d] EXCEPT !.touched = TRUE]]
    BY <1>9 DEF OwnerSets
  <2>3. UNCHANGED <<threshold, room, sensor>> /\ disturbances' \in 0 .. MaxDisturbances
    BY <1>9, <1>e DEF OwnerSets
  <2>4. "idle" \in Labels /\ {} \in SUBSET Controllers
    BY DEF Labels
  <2> QED
    BY <2>1, <2>2, <2>3, <2>4, Touches
<1>10. ASSUME UNCHANGED <<threshold, device, run>>, room' \in Ideals,
              sensor' \in Ideals \cup {NoValue},
              disturbances' \in 0 .. MaxDisturbances
       PROVE  LInv'
  <2>1. TypeOK'
    BY <1>10, <1>t DEF TypeOK
  <2>2. HasCommand' /\ InAuto' /\ RunSettles'
    BY <1>10, <1>t DEF HasCommand, InAuto, RunSettles, At, Settled, Within
  <2> QED
    BY <2>1, <2>2 DEF LInv
<1>11. CASE RoomChanges
  <2>1. Disturb /\ UNCHANGED <<threshold, sensor, device, run>> /\ room' \in Ideals
    BY <1>11 DEF RoomChanges
  <2> QED
    BY <2>1, <1>10, <1>e, <1>t DEF TypeOK
<1>12. CASE SensorReports
  BY <1>12, <1>10, <1>t DEF SensorReports, TypeOK
<1>13. CASE SensorFails
  <2>1. Disturb /\ UNCHANGED <<threshold, room, device, run>>
    BY <1>13 DEF SensorFails
  <2>2. sensor' = NoValue
    BY <1>13 DEF SensorFails
  <2> QED
    BY <2>1, <2>2, <1>10, <1>e, <1>t DEF TypeOK
<1>14. CASE UNCHANGED vars
  BY <1>14, <1>t DEF vars, LInv, TypeOK, HasCommand, InAuto, RunSettles, At, Settled, Within
<1> QED
  BY <1>1, <1>2, <1>3, <1>4, <1>5, <1>6, <1>7, <1>8, <1>9, <1>11, <1>12, <1>13, <1>14
     DEF Next, RunOnce

LEMMA Invariance == Spec => []LInv
BY InitInv, NextInv, PTL DEF Spec

------------------------------------------------------------------------------
(* Every state is well typed, and every command lies within the limits.    *)
THEOREM LevoitTypeOK == Spec => []TypeOK
BY Invariance, PTL DEF LInv

(* A run that ends well with the device to itself leaves it in auto mode   *)
(* with what it computed as the target, or one less than its threshold     *)
(* away; also with the threshold 0, where only the former is possible.     *)
THEOREM LevoitRunSettles == Spec => []RunSettles
BY Invariance, PTL DEF LInv
==============================================================================
