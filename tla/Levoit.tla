-------------------------------- MODULE Levoit --------------------------------
(***************************************************************************)
(* The humidifier controller: server/tools/run_levoit_ah_controller.py     *)
(* with server/app/levoit_runner.py, levoit_controller.py,                 *)
(* levoit_api_client.py and levoit_vesync.py.  Each run reads the meter    *)
(* and the device, decides, and sends at most one command; it keeps        *)
(* nothing between runs.  The loop of the compose service and runs started *)
(* by hand (--once) may overlap, and the owner uses the app of the device  *)
(* meanwhile.  A process loads app.json when it starts, so two of them may *)
(* have different thresholds; 0 is one the configuration accepts.          *)
(*                                                                         *)
(* The relative humidity that gives the configured absolute humidity at    *)
(* the temperature of the room is an integer of half percents, fine enough *)
(* for round() to meet its ties.                                           *)
(***************************************************************************)
EXTENDS Integers

CONSTANTS
    Controllers,    \* processes that execute run_once
    Ideals,         \* values of target_relative_humidity, in half percents
    MinHumidity,    \* minimum_humidity
    MaxHumidity,    \* maximum_humidity
    Settings,       \* the thresholds the processes may have, see threshold
    AutoMode,       \* the first of the mist modes
    OtherModes,
    Targets,        \* the targets the owner may choose
    NoValue,        \* a missing temperature or target
    MaxDisturbances \* bound: changes and faults in one behaviour

Modes == {AutoMode} \cup OtherModes

ASSUME LevoitAssumption ==
    /\ Ideals \subseteq Int
    /\ MinHumidity \in Nat /\ MaxHumidity \in Nat /\ MinHumidity <= MaxHumidity
    /\ Settings \subseteq [Controllers -> Nat]
    /\ Targets \subseteq Nat
    /\ AutoMode \notin OtherModes
    /\ NoValue \notin Int
    /\ MaxDisturbances \in Nat

VARIABLES
    threshold,      \* the humidity_change_threshold each process has loaded,
                    \* rounded up to whole percents
    room,           \* the ideal for the temperature of the room
    sensor,         \* the ideal for the last temperature of the meter, if it sent one
    device,         \* the humidifier
    run,            \* run[c]: where the process c is in run_once
    disturbances

vars == <<threshold, room, sensor, device, run, disturbances>>

Idle == [pc |-> "idle", ideal |-> NoValue,
         commanded |-> NoValue, touched |-> FALSE]

Init ==
    /\ threshold \in Settings
    /\ room \in Ideals
    /\ sensor = room
    /\ device \in [mode : Modes, target : Targets \cup {NoValue}]
    /\ run = [c \in Controllers |-> Idle]
    /\ disturbances = 0

------------------------------------------------------------------------------
(* round: to the nearest, ties to even.                                    *)
Round(halves) ==
    LET floor == halves \div 2
    IN  IF halves % 2 = 0 THEN floor ELSE floor + (floor % 2)

(* Fault: the lower limit is forgotten.                                    *)
Capped(ideal) == IF ideal < 2 * MaxHumidity THEN ideal ELSE 2 * MaxHumidity

Clamped(ideal) ==
    LET capped == IF ideal < 2 * MaxHumidity THEN ideal ELSE 2 * MaxHumidity
    IN  IF capped > 2 * MinHumidity THEN capped ELSE 2 * MinHumidity

(* The command compute_decision arrives at for a reading.                  *)
Commanded(ideal) == Round(Clamped(ideal))

(* Fault: the threshold is not looked at.                                  *)
AlwaysFar(c, commanded, ref) == FALSE

(* The negation of "set": nearer than the threshold, so never if that is 0. *)
Within(c, commanded, ref) ==
    ref # NoValue /\ commanded - ref \in 1 - threshold[c] .. threshold[c] - 1

(* Fault: the target is compared also while another mode is on.            *)
AnyTarget(d) == d.target

(* current_device_target_humidity: the target counts in auto mode only.    *)
Reference(d) == IF d.mode = AutoMode THEN d.target ELSE NoValue

------------------------------------------------------------------------------
At(c, label) == run[c].pc = label

Goto(c, label) == run' = [run EXCEPT ![c].pc = label]

(* The device changes under every process but c.                           *)
DeviceSet(c, field, value, label) ==
    /\ device' = [device EXCEPT ![field] = value]
    /\ run' = [d \in Controllers |->
                 IF d = c THEN [run[d] EXCEPT !.pc = label]
                 ELSE [run[d] EXCEPT !.touched = TRUE]]

(* A fault or a change from outside uses up one of the disturbances.       *)
Disturb ==
    /\ disturbances < MaxDisturbances
    /\ disturbances' = disturbances + 1

(* fetch_switchbot_latest: the age of the reading is not looked at.        *)
FetchReading(c) ==
    /\ At(c, "idle")
    /\ run' = [run EXCEPT ![c] = [Idle EXCEPT !.pc = "state", !.ideal = sensor]]
    /\ UNCHANGED <<threshold, room, sensor, device, disturbances>>

(* fetch_state and compute_decision.                                       *)
FetchState(c) ==
    /\ At(c, "state")
    /\ IF run[c].ideal = NoValue THEN run' = [run EXCEPT ![c] = Idle]
       ELSE LET commanded == Commanded(run[c].ideal)
            IN  run' = [run EXCEPT ![c] =
                    [@ EXCEPT !.pc = IF Within(c, commanded, Reference(device))
                                     THEN "done" ELSE "connect",
                              !.commanded = commanded,
                              !.touched = FALSE]]
    /\ UNCHANGED <<threshold, room, sensor, device, disturbances>>

(* Fault: the mode is left as it is.                                       *)
KeepsMode(c) ==
    /\ At(c, "connect")
    /\ Goto(c, "humidity")
    /\ UNCHANGED <<threshold, room, sensor, device, disturbances>>

(* _set_humidity connects afresh and looks at the mode once more ...       *)
Connect(c) ==
    /\ At(c, "connect")
    /\ Goto(c, IF device.mode # AutoMode THEN "mode" ELSE "humidity")
    /\ UNCHANGED <<threshold, room, sensor, device, disturbances>>

(* ... switches to auto if need be, and then sets the target.              *)
SetMode(c) ==
    /\ At(c, "mode")
    /\ DeviceSet(c, "mode", AutoMode, "humidity")
    /\ UNCHANGED <<threshold, room, sensor, disturbances>>

SetHumidity(c) ==
    /\ At(c, "humidity")
    /\ DeviceSet(c, "target", run[c].commanded, "done")
    /\ UNCHANGED <<threshold, room, sensor, disturbances>>

(* The run ends; the loop sleeps for poll_interval_seconds.                *)
Sleep(c) ==
    /\ At(c, "done")
    /\ run' = [run EXCEPT ![c] = Idle]
    /\ UNCHANGED <<threshold, room, sensor, device, disturbances>>

RunOnce(c) ==
    \/ FetchReading(c) \/ FetchState(c) \/ Connect(c)
    \/ SetMode(c) \/ SetHumidity(c) \/ Sleep(c)

------------------------------------------------------------------------------
(* A call fails, or the process is killed and restarted by compose.        *)
Fail(c) ==
    /\ run[c].pc \notin {"idle", "done"}
    /\ run' = [run EXCEPT ![c] = Idle]
    /\ Disturb
    /\ UNCHANGED <<threshold, room, sensor, device>>

(* The device obeys and its answer is lost: VeSyncError all the same.      *)
AnswerLost(c) ==
    /\ \/ At(c, "mode") /\ DeviceSet(c, "mode", AutoMode, "idle")
       \/ At(c, "humidity") /\ DeviceSet(c, "target", run[c].commanded, "idle")
    /\ Disturb
    /\ UNCHANGED <<threshold, room, sensor>>

(* The owner switches the mode or turns the target in the app.             *)
OwnerSets ==
    /\ device' \in [mode : Modes, target : Targets \cup {NoValue}]
    /\ run' = [c \in Controllers |-> [run[c] EXCEPT !.touched = TRUE]]
    /\ Disturb
    /\ UNCHANGED <<threshold, room, sensor>>

RoomChanges ==
    /\ room' \in Ideals
    /\ Disturb
    /\ UNCHANGED <<threshold, sensor, device, run>>

(* A new reading of the meter reaches the server.                          *)
SensorReports ==
    /\ sensor' = room
    /\ UNCHANGED <<threshold, room, device, run, disturbances>>

(* The meter sends a reading without a temperature.                        *)
SensorFails ==
    /\ sensor' = NoValue
    /\ Disturb
    /\ UNCHANGED <<threshold, room, device, run>>

Next ==
    \/ \E c \in Controllers : RunOnce(c) \/ Fail(c) \/ AnswerLost(c)
    \/ OwnerSets \/ RoomChanges \/ SensorReports \/ SensorFails

(* The loop goes on and the meter reports: nothing waits for anything else. *)
Fairness ==
    /\ \A c \in Controllers : WF_vars(RunOnce(c))
    /\ WF_vars(SensorReports)

Spec == Init /\ [][Next]_vars /\ Fairness

------------------------------------------------------------------------------
Labels == {"idle", "state", "connect", "mode", "humidity", "done"}

Run == [pc : Labels, ideal : Ideals \cup {NoValue},
        commanded : MinHumidity .. MaxHumidity \cup {NoValue}, touched : BOOLEAN]

(* Every command lies within the configured limits: clamping comes before  *)
(* rounding, and the limits are whole percents.                            *)
TypeOK ==
    /\ threshold \in Settings
    /\ room \in Ideals
    /\ sensor \in Ideals \cup {NoValue}
    /\ device \in [mode : Modes,
                   target : Targets \cup MinHumidity .. MaxHumidity \cup {NoValue}]
    /\ run \in [Controllers -> Run]
    /\ disturbances \in 0 .. MaxDisturbances

Settled(c, d, commanded) ==
    d.mode = AutoMode /\ (d.target = commanded \/ Within(c, commanded, d.target))

Commanding(c) == run[c].pc \in {"connect", "mode", "humidity"}

(* A run that ends well leaves the device in auto mode at what it computed, *)
(* or less than its threshold from it, whether or not it sent a command,    *)
(* unless somebody else used the device since it looked.                    *)
RunSettles ==
    \A c \in Controllers : At(c, "done") /\ ~ run[c].touched =>
        Settled(c, device, run[c].commanded)

(* Once owner, room and network are quiet the device comes to rest at the  *)
(* target for the room, as near as every process asks for, also after a    *)
(* command of which only the mode got through, and after two runs that     *)
(* crossed.                                                                *)
Converges ==
    <>[] (\A c \in Controllers : Settled(c, device, Commanded(room)))

(* And then a process leaves it in peace, unless its threshold is 0: a     *)
(* change of 0 is not less than that, so a command goes out at every poll. *)
Quiesces ==
    \A c \in Controllers :
        /\ threshold[c] # 0 => <>[] ~ Commanding(c)
        /\ threshold[c] = 0 => []<> Commanding(c)
==============================================================================
