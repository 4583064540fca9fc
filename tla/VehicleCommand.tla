--------------------------- MODULE VehicleCommand ---------------------------
(***************************************************************************)
(* The command layer between the remote FSMs and the buses: the arbiter     *)
(* (command_arbiter.c), the safety manager (safety_manager.c), the high-    *)
(* voltage relay latch (local_io_device.c) and the safety snapshot          *)
(* (ecu_task_safety_supervisor_step).                                      *)
(*                                                                         *)
(* A command is a record.  Wheel speeds are the sign of the vehicle speed   *)
(* asked for, steering angles are left out, valves are numbers, and the     *)
(* automatic source is left out: s_runtime.auto_request has no writer.      *)
(* X_Bug before X is X with a plausible mistake, used by nothing.           *)
(***************************************************************************)
EXTENDS Integers

CONSTANT SteerOnly       \* ECU_COMMISSIONING_STEER_ONLY_MODE

ASSUME SteerOnlyAssumption == SteerOnly \in BOOLEAN

TrackExtend  == {4}      \* ECU_HYD_VALVE_TRACK_EXTEND_MASK
TrackRetract == {3}      \* ECU_HYD_VALVE_TRACK_RETRACT_MASK
TrackMask    == TrackExtend \cup TrackRetract

(* The valve that moves the track in direction d.                          *)
TrackSide(d) == CASE d > 0 -> TrackExtend [] d < 0 -> TrackRetract [] OTHER -> {}
SuspensionRetract == [FRONT |-> {1}, REAR |-> {5}]
SuspensionExtend  == [FRONT |-> {2}, REAR |-> {6}]

SafeDefault ==
    [source |-> "NONE", gear |-> "P", drive |-> 0, brakeRelease |-> FALSE,
     hv |-> FALSE, hvReady |-> FALSE, disable |-> FALSE, calibrate |-> FALSE,
     lift |-> "SAFE_STOP", valves |-> {}, hydraulic |-> FALSE,
     posture |-> FALSE, assist |-> 0]

-----------------------------------------------------------------------------
(* The safety task: what it makes of the last remote request.              *)
SafetySnapshot(r) ==
    [aClassFault   |-> FALSE,
     estopLatched  |-> r.estop # "CLEAR",
     sbusFailsafe  |-> r.link = "FAILSAFE",
     controlledStop |-> r.estop # "CLEAR" \/ r.link = "FAILSAFE",
     shutdown      |-> r.shutdown]

(* What it publishes when the request is missing or stale.                 *)
StaleRemoteSnapshot ==
    [aClassFault |-> FALSE, estopLatched |-> TRUE, sbusFailsafe |-> TRUE,
     controlledStop |-> TRUE, shutdown |-> FALSE]

(* What the remote and vehicle tasks assume when the snapshot itself is.    *)
StaleSafetySnapshot ==
    [aClassFault |-> TRUE, estopLatched |-> TRUE, sbusFailsafe |-> FALSE,
     controlledStop |-> TRUE, shutdown |-> FALSE]

Stopped(s) ==
    s.aClassFault \/ s.estopLatched \/ s.sbusFailsafe \/ s.controlledStop

-----------------------------------------------------------------------------
RemoteHasPriority_Bug(r) == ~r.autoAllowed
RemoteHasPriority(r) ==
    /\ r.link = "ONLINE" /\ r.arm = "READY" /\ r.estop = "CLEAR"
    /\ ~r.autoAllowed

SpeedCommand(r) ==
    LET forward == IF r.gear = "P" \/ r.throttle = 0 THEN 0
                   ELSE IF r.gear = "R" THEN -1 ELSE 1
    IN  IF r.motion = "REVERSE_ACKERMANN" THEN -forward ELSE forward

BrakeRelease(r) ==
    \/ r.gearState \in {"ARM_D", "ARM_R"}
    \/ r.adjust \in {"TRACK_PREPARE", "TRACK_ACTIVE"}
    \/ r.gear # "P"

TrackAllowed(r) == r.adjust \in {"TRACK_PREPARE", "TRACK_ACTIVE"}

TrackValves(r) == IF TrackAllowed(r) THEN TrackSide(r.track) ELSE {}

SuspensionValves(r) ==
    IF r.adjust # "HYDRAULIC_ACTIVE" \/ r.owner # "HYDRAULIC" THEN {}
    ELSE CASE r.requestedGear = "D" -> SuspensionRetract[r.target]
           [] r.requestedGear = "R" -> SuspensionExtend[r.target]
           [] OTHER -> {}

LiftRequest(r) ==
    CASE r.adjust = "CLEARANCE_ACTIVE" /\ r.clearance < 0 -> "EXTEND"
      [] r.adjust = "CLEARANCE_ACTIVE" /\ r.clearance > 0 -> "RETRACT"
      [] OTHER -> "NEUTRAL_STOP"

(* apply_remote_adjust_command after inhibit_can2_motion_in_adjust_domain.  *)
AdjustCommand(r, c) ==
    LET inhibited == [c EXCEPT !.gear = "P", !.brakeRelease = FALSE]
        valves    == TrackValves(r) \cup SuspensionValves(r)
    IN  IF r.adjust = "ABORTED" THEN inhibited
        ELSE [inhibited EXCEPT
                !.lift = LiftRequest(r),
                !.valves = valves,
                !.hydraulic = valves # {},
                !.posture = TrackAllowed(r) \/ r.adjust = "TRACK_EXITING",
                !.brakeRelease = TrackValves(r) # {},
                !.assist = IF TrackValves(r) = {} THEN 0 ELSE r.track]

ArbiterUpdate(r, s) ==
    LET remote == [SafeDefault EXCEPT
                     !.source = "REMOTE", !.gear = r.gear,
                     !.brakeRelease = BrakeRelease(r),
                     !.hv = r.hv, !.disable = r.disable,
                     !.calibrate = /\ r.calibration /\ r.gear = "P"
                                   /\ r.throttle = 0]
    IN  IF Stopped(s) THEN [SafeDefault EXCEPT !.source = "SAFETY"]
        ELSE IF ~RemoteHasPriority(r) THEN SafeDefault
        ELSE IF r.adjust # "IDLE" THEN AdjustCommand(r, remote)
        ELSE IF SteerOnly THEN [remote EXCEPT !.brakeRelease = FALSE]
        ELSE [remote EXCEPT !.drive = SpeedCommand(r)]

(* The safety manager clears the motion, never the relay's disable request. *)
SafetyApply(s, c) ==
    LET stopped == IF Stopped(s) \/ s.shutdown
                   THEN [c EXCEPT !.source = "SAFETY", !.drive = 0, !.assist = 0,
                                  !.lift = "SAFE_STOP", !.hydraulic = FALSE,
                                  !.hv = FALSE, !.valves = {}, !.posture = FALSE]
                   ELSE c
        allowed == ~(s.aClassFault \/ s.estopLatched \/ s.sbusFailsafe \/ s.shutdown)
    IN  IF allowed THEN stopped ELSE [stopped EXCEPT !.brakeRelease = FALSE]

FinalCommand(r, s) == SafetyApply(s, ArbiterUpdate(r, s))

(* CAN2 only produces drive and steering groups while high voltage is both *)
(* asked for and measured (motion_device_flush_realtime).                  *)
MotionPowered_Bug(c) == c.hv /\ c.hvReady /\ ~c.disable /\ c.drive # 0
MotionPowered(c) == c.hv /\ c.hvReady /\ ~c.disable

(* The velocity a drive frame carries (drive_output_allowed and the gates   *)
(* behind it).                                                             *)
DriveVelocity(c) == IF c.source = "REMOTE" /\ c.brakeRelease THEN c.drive ELSE 0

(* The wheel current the same frame carries, by its sign: the current that  *)
(* helps the track cylinders, held back until CAN3 has opened a track valve,*)
(* whichever it is, and by the steering, the recovery and the feedback of   *)
(* the wheels, which are left out.                                         *)
AssistCurrents_Bug(c, open) == IF c.posture THEN {0, c.assist} ELSE {0}
AssistCurrents(c, open) ==
    IF c.posture /\ open \cap TrackMask # {} THEN {0, c.assist} ELSE {0}

(* MOS6: latched by a high-voltage command, released only on request.      *)
RelayLatch(latched, c) ==
    IF c.disable THEN FALSE ELSE latched \/ c.hv

-----------------------------------------------------------------------------
(* A command that moves nothing.                                           *)
Inert(c) ==
    /\ c.drive = 0 /\ c.assist = 0 /\ c.valves = {} /\ ~c.hydraulic
    /\ c.lift = "SAFE_STOP" /\ ~c.brakeRelease
=============================================================================
