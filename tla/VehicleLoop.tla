---------------------------- MODULE VehicleLoop ----------------------------
(***************************************************************************)
(* The control loop of one vehicle: the safety, CAN2, remote, vehicle and   *)
(* 10 ms tasks of ecu_tasks_cpu0.c in the order their priorities give them  *)
(* inside one 5 ms round, around a vehicle that obeys the bus.              *)
(*                                                                         *)
(*   safety    reads the request of the previous round, and may run again   *)
(*             (1 ms period) between the remote and the vehicle task        *)
(*   can2      sends the drive command, reads back the wheel speeds         *)
(*   remote    samples the operator, updates the FSMs, publishes a request  *)
(*   vehicle   arbitrates, lets the safety manager have its say, publishes  *)
(*   slow      the 10 ms tasks CAN3 and CAN1 power: every second round      *)
(*                                                                         *)
(* No task is late here; ControlLoop is about tasks that are.              *)
(* PreHvWindow_Bug is PreHvWindow with a plausible mistake, used by nothing.*)
(***************************************************************************)
EXTENDS RemoteFsms, VehicleCommand

CONSTANTS
    Profile,     \* the ECU_BUILD_PROFILE_* of the image
    Inputs       \* the samples the operator can cause

ASSUME ProfileAssumption ==
    Profile \in {"safe", "steer4_remote", "steer4_remote_90", "whole_vehicle"}

(* Only the whole-vehicle image is built with the drives enabled.           *)
ASSUME ImageAssumption == Profile # "whole_vehicle" => SteerOnly

(* CH13 has to be held in the centre for longer than one round.             *)
ASSUME HoldAssumption == CenterHold >= 1

ASSUME InputsAssumption == Inputs \subseteq InputType

VARIABLES
    turn,        \* the task that runs next
    late,        \* the 10 ms tasks were not due in the previous round
    mgr,         \* s_runtime.remote_manager
    request,     \* the request in remote_request_mailbox
    safety,      \* the snapshot in safety_snapshot_mailbox
    cmd,         \* s_runtime.final_command, as both bus mailboxes hold it
    relay,       \* local_io.high_voltage_relay_latched: MOS6
    zeroSpeed,   \* hardware_feedback.zero_speed_confirmed
    hydraulicStopped,  \* hardware_feedback.hydraulic_stopped
    valves,      \* the hydraulic valves CAN3 has opened
    requested,   \* power_snapshot.high_voltage_requested
    bms,         \* power_snapshot.bms: the contactors were reported closed
    contactor,   \* the BMS contactors are closed          (external)
    target,      \* the velocity the drives last received  (external)
    current,     \* the wheel current they last received   (external)
    speed,       \* the sign of the speed of the vehicle   (external)
    calm         \* the last sample was good and neutral   (observer)

slow == <<hydraulicStopped, requested, bms, valves, contactor>>
wheels == <<target, current, speed>>
vars == <<turn, late, mgr, request, safety, cmd, relay, zeroSpeed, slow, wheels, calm>>

-----------------------------------------------------------------------------
(* Nothing in the mailbox: the tasks put a latched stop in its place.       *)
NoRequest == [link |-> "OFFLINE", estop |-> "LATCHED"]

(* remote_manager_update's last part and remote_manager_get_request.        *)
RequestOf(m, in) ==
    [link |-> m.link.state, arm |-> m.arm.state, estop |-> m.estop.state,
     gearState |-> m.gear.state, gear |-> m.gear.active,
     requestedGear |-> m.gear.requested, motion |-> m.mode.motion,
     adjust |-> m.adjust.state, owner |-> m.adjust.owner,
     target |-> m.adjust.target, track |-> m.adjust.dir,
     hv |-> m.power.hv, disable |-> m.power.disable,
     shutdown |-> m.power.shutdown, autoAllowed |-> m.authority.allowed,
     calibration |-> CalibrationRequest(m, in),
     throttle |-> IF in.throttle = "LOW" THEN 0 ELSE 1,
     clearance |-> CASE in.clearance = "HIGH" -> 1 [] in.clearance = "LOW" -> -1
                     [] OTHER -> 0]

(* Before high voltage is asked for, a low throttle counts as standstill.   *)
PreHvWindow_Bug(in) ==
    ~mgr.power.hv /\ ~requested /\ in.throttle = "LOW" /\ ~safety.aClassFault
PreHvWindow(in) ==
    ~cmd.hv /\ ~requested /\ in.throttle = "LOW" /\ ~safety.aClassFault

Preconditions(in) ==
    LET bench == Profile = "steer4_remote_90"
        still == IF Profile = "whole_vehicle" THEN PreHvWindow(in) \/ zeroSpeed
                 ELSE bench \/ zeroSpeed
    IN  [zeroSpeed        |-> still,
         brakeApplied     |-> IF Profile = "whole_vehicle" THEN still ELSE bench,
         aClassFault      |-> safety.aClassFault,
         hydraulicStopped |-> hydraulicStopped,
         can1Online       |-> TRUE,
         autoRequestValid |-> FALSE]

-----------------------------------------------------------------------------
Init ==
    /\ turn = "safety" /\ late = FALSE
    /\ mgr = ManagerInit /\ request = NoRequest
    /\ safety = StaleRemoteSnapshot
    /\ cmd = SafeDefault /\ relay = FALSE
    /\ zeroSpeed = FALSE /\ hydraulicStopped = FALSE
    /\ requested = FALSE /\ bms = FALSE
    /\ valves = {} /\ contactor = FALSE
    /\ target = 0 /\ current = 0 /\ speed = 0
    /\ calm = FALSE

SafetyStep ==
    /\ turn \in {"safety", "vehicle"}
    /\ safety' = IF request = NoRequest THEN StaleRemoteSnapshot
                 ELSE SafetySnapshot(request)
    /\ turn' = IF turn = "safety" THEN "can2" ELSE turn
    /\ UNCHANGED <<late, mgr, request, cmd, relay, zeroSpeed, slow, wheels, calm>>

(* Powered drives run at the velocity they last received; without power a   *)
(* drive forgets it and its holding brake stops the vehicle: an assumption  *)
(* about the drives that RelayReleasedAtRest needs.                         *)
Torque  == IF contactor THEN target ELSE 0
Current == IF contactor THEN current ELSE 0

(* The current of the track assist does not move the vehicle: the wheels    *)
(* stand sideways and those of the two sides push against each other.      *)
Motion(v, torque) ==
    IF ~contactor THEN {0}
    ELSE IF torque = 0 \/ v = -torque THEN {v, 0} ELSE {v, torque}

(* refresh_can2_feedback: standstill is only known from fresh feedback of   *)
(* all four drives, and in the whole-vehicle image.                        *)
ZeroSpeedFeedback(v) ==
    {Profile = "whole_vehicle" /\ fresh /\ v = 0 : fresh \in BOOLEAN}

(* flush_can2_motion: nothing is sent unless the command carries high       *)
(* voltage.                                                                *)
Can2Step ==
    /\ turn = "can2" /\ turn' = "remote"
    /\ target' = IF ~contactor THEN 0
                 ELSE IF MotionPowered(cmd) THEN DriveVelocity(cmd) ELSE target
    /\ current' \in IF ~contactor THEN {0}
                    ELSE IF MotionPowered(cmd) THEN AssistCurrents(cmd, valves)
                    ELSE {current}
    /\ speed' \in Motion(speed, IF contactor THEN target' ELSE 0)
    /\ zeroSpeed' \in ZeroSpeedFeedback(speed')
    /\ UNCHANGED <<late, mgr, request, safety, cmd, relay, slow, calm>>

RemoteStep ==
    /\ turn = "remote" /\ turn' = "vehicle"
    /\ \E in \in Inputs :
         /\ mgr' = ManagerUpdate(mgr, in, Preconditions(in), 1)
         /\ request' = RequestOf(mgr', in)
         /\ calm' = (NeutralEntry(in) /\ SbusFlags(in) = {} /\ in.ch13 = "CENTER")
    /\ UNCHANGED <<late, safety, cmd, relay, zeroSpeed, slow, wheels>>

VehicleStep ==
    /\ turn = "vehicle"
    /\ cmd' = [FinalCommand(request, safety) EXCEPT !.hvReady = bms]
    /\ relay' = RelayLatch(relay, cmd')
    /\ \/ turn' = "slow" /\ late' = FALSE
       \/ turn' = "safety" /\ ~late /\ late' = TRUE
    /\ UNCHANGED <<mgr, request, safety, zeroSpeed, slow, wheels, calm>>

(* CAN3 applies the valves, unless the pump does not turn yet or the wheels *)
(* are not sideways yet, and echoes the pump command.  CAN1 power takes     *)
(* in the contactor report, then sends CONNECT or DISCONNECT; the BMS obeys *)
(* in this round or the next, and needs the battery key (MOS6) to connect.  *)
SlowStep ==
    /\ turn = "slow" /\ turn' = "safety"
    /\ valves' \in {cmd.valves, {}}
    /\ hydraulicStopped' = ~cmd.hydraulic
    /\ requested' = cmd.hv
    /\ bms' = contactor
    /\ contactor' \in {cmd.hv /\ relay}
                       \cup (IF requested # cmd.hv THEN {contactor} ELSE {})
    /\ UNCHANGED <<late, mgr, request, safety, cmd, relay, zeroSpeed, wheels, calm>>

Next == SafetyStep \/ Can2Step \/ RemoteStep \/ VehicleStep \/ SlowStep

Spec == Init /\ [][Next]_vars

(* FreeRTOS runs every task in every period, and the round never waits.     *)
FairSpec == Spec /\ WF_vars(Next)

-----------------------------------------------------------------------------
(* A stop or a lost link clears the command both buses work from in the     *)
(* round in which the remote task saw it, although the safety snapshot the  *)
(* vehicle task reads may still be the one from before.                     *)
StopClearsCommand ==
    turn \notin {"vehicle", "remote"} /\ (mgr.estop.state # "CLEAR"
                                       \/ mgr.link.state # "ONLINE")
      => Inert(cmd) /\ ~cmd.hv

(* The drives are never asked to turn against a rolling vehicle: not after  *)
(* a gear or mode change, not after a stop in which the feedback was lost   *)
(* and a low throttle counted as standstill, not after high voltage is back.*)
NoReversalTorque == Torque # 0 => speed # -Torque

(* Hydraulic valves and a wheel velocity exclude each other while high      *)
(* voltage is asked for.  CAN3 may open a valve up to one CAN2 period       *)
(* before CAN2 takes the velocity away, because it works from the same      *)
(* command in the same tick, but no longer.  The wheel current of the track *)
(* assist is meant to flow with a valve open and is AssistFollowsValve's.   *)
(* An orderly power-down is left out: CAN2 sends nothing any more, and a    *)
(* drive that was told to turn in the round before keeps that velocity      *)
(* until the contactor opens.                                              *)
HydraulicsExcludeDrive ==
    turn = "remote" /\ valves # {} /\ mgr.power.hv => Torque = 0

(* The wheels only push the track the way its open valve moves it, although *)
(* the current is let through by any open track valve: CAN3 takes the       *)
(* command over in every second round, so the valve may be the one of an    *)
(* earlier command, and the operator may have reversed the track since.     *)
(* After a stop CAN2 sends nothing and the current stays until the          *)
(* contactors open, whatever CAN3 does to the valves.                      *)
AssistFollowsValve ==
    turn = "remote" /\ MotionPowered(cmd) /\ Current # 0
      => valves \cap TrackMask = TrackSide(Current)

(* MOS6, the battery key, is only released when the vehicle stands and no   *)
(* valve is open, although a low throttle may count as standstill.          *)
RelayReleasedAtRest ==
    [][relay /\ ~relay' => speed = 0 /\ valves = {}]_vars

(* The interlocks never wait for each other: an operator who leaves the     *)
(* sticks neutral gets drive authority back, even if the wheel speed        *)
(* feedback needs the high voltage that only a cleared stop brings back     *)
(* (the pre-HV window of build_remote_preconditions).                       *)
RecoversWhenNeutral == <>[]calm => <>[](mgr.arm.state = "READY")
=============================================================================
