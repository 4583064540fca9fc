--------------------------- MODULE RemoteManager ---------------------------
(***************************************************************************)
(* The remote task (ecu_task_remote_manager_step): every call consumes one  *)
(* input sample, the preconditions that hold at that moment and the time    *)
(* since the previous call, and updates all the FSMs of RemoteFsms.         *)
(*                                                                         *)
(* The operator, the receiver and the vehicle are the environment: each     *)
(* sample is any member of Inputs, each set of preconditions any member of  *)
(* Conditions, and the task may be late (Gaps).                             *)
(*                                                                         *)
(* The variable seen is no part of the firmware.  It records what an        *)
(* observer of the samples remembers, so that the properties can relate     *)
(* what the FSMs grant to what the operator and the vehicle really did.     *)
(***************************************************************************)
EXTENDS RemoteFsms

CONSTANTS
    Inputs,       \* the samples the mapper can produce
    Conditions,   \* the preconditions build_remote_preconditions can produce
    Gaps          \* ticks between two calls

VARIABLES mgr, seen
vars == <<mgr, seen>>

ASSUME InputsAssumption == Inputs \subseteq InputType
ASSUME ConditionsAssumption == Conditions \subseteq ConditionType
ASSUME GapsAssumption == Gaps \subseteq Nat \ {0}

-----------------------------------------------------------------------------
(* A sample that must stop the vehicle.                                    *)
Bad(in) == SbusFlags(in) # {} \/ in.ch13 # "CENTER"

Standstill(pre) == pre.zeroSpeed /\ pre.brakeApplied /\ ~pre.aClassFault

QuietCap == CenterHold + LinkQualify + NeutralQualify + 1
Opposite(gear) == CASE gear = "D" -> "R" [] gear = "R" -> "D" [] OTHER -> "P"

(* The direction in which the track valves are asked to move the legs.     *)
TrackValve(m) ==
    IF m.adjust.state \in {"TRACK_PREPARE", "TRACK_ACTIVE"} THEN m.adjust.dir ELSE 0

(* quiet:  time since the last bad sample, or since boot                   *)
(* still:  consecutive standstill samples, up to 3                         *)
(* moving: the drive gear in which motion was seen, until the next stop    *)
(* home:   the domain HOME last selected and for how long it has           *)
(* edges:  B1 transitions after the sample that opened the calibration     *)
(*         gate, Never while it is closed                                  *)
(* track:  the last direction of the track valves, and how long ago        *)
SeenInit ==
    [quiet |-> 0, still |-> 0, moving |-> "P",
     home |-> "ACKERMANN", homeAge |-> 0,
     edges |-> Never, track |-> 0, closed |-> TrackStable]

Observe(s, new, in, pre, dt) ==
    LET domain == IF in.home = "INVALID" THEN s.home ELSE DomainFromHome(in.home)
        gate   == CalibrationGate(new.link, new.estop, new.arm, new.gear, in)
    IN  [quiet   |-> IF Bad(in) THEN 0 ELSE Grow(s.quiet, dt, QuietCap),
         still   |-> IF Standstill(pre) THEN Grow(s.still, 1, 3) ELSE 0,
         moving  |-> IF pre.zeroSpeed THEN "P"
                     ELSE IF new.gear.active # "P" THEN new.gear.active ELSE s.moving,
         home    |-> domain,
         homeAge |-> IF domain # s.home THEN 0 ELSE Grow(s.homeAge, dt, DomainGuard),
         edges   |-> IF ~gate THEN Never ELSE IF s.edges = Never THEN 0
                     ELSE IF in.b1Changed THEN Grow(s.edges, 1, B1Presses) ELSE s.edges,
         track   |-> IF TrackValve(new) # 0 THEN TrackValve(new) ELSE s.track,
         closed  |-> IF TrackValve(new) # 0 THEN 0 ELSE Grow(s.closed, dt, TrackStable)]

Init == mgr = ManagerInit /\ seen = SeenInit

Update(in, pre, dt) ==
    /\ mgr' = ManagerUpdate(mgr, in, pre, dt)
    /\ seen' = Observe(seen, mgr', in, pre, dt)

Next == \E in \in Inputs, pre \in Conditions, dt \in Gaps : Update(in, pre, dt)

Spec == Init /\ [][Next]_vars

-----------------------------------------------------------------------------
TypeOK == mgr \in ManagerType

-----------------------------------------------------------------------------
Settle == IF LinkQualify < CenterHold THEN LinkQualify ELSE CenterHold

(* The neutral timer runs from the last call that refused authority, so the *)
(* gap between that call and the next one counts towards both times.        *)
Earned(quiet) == \E dt \in Gaps : quiet + dt > Settle + NeutralQualify

(* Whoever holds drive authority has been given good samples only, for the  *)
(* whole of the link or stop qualification and of the neutral qualification *)
(* after it, but for one gap between two calls: no order of link loss, stop,*)
(* reset and re-arming shortens that (remote_link_fsm, remote_estop_fsm and *)
(* remote_arm_fsm together).                                                *)
RearmDelay == mgr.arm.state = "READY" => Earned(seen.quiet)

(* A latched stop is only cleared after CH13 was held in the centre for the *)
(* whole hold time with no bad sample in between, and the vehicle was at a  *)
(* standstill with the brake on in three samples in a row.                  *)
EstopClearsSafely ==
    [][mgr.estop.state # "CLEAR" /\ mgr'.estop.state = "CLEAR"
         => seen'.quiet >= CenterHold /\ seen'.still = 3]_vars

(* After motion in one drive gear the opposite gear is never engaged before *)
(* a sample that shows zero speed, whatever detour through P, adjustment or *)
(* a stop the operator takes (remote_gear_fsm_update).                      *)
NoReversalWhileMoving ==
    [][seen.moving # "P" /\ mgr'.gear.active = Opposite(seen.moving)
         => seen'.moving = "P"]_vars

(* Authority always begins in P: a gear that stayed engaged through a link  *)
(* loss or a stop cannot drive the vehicle off when the remote is READY     *)
(* again.                                                                  *)
ArmsOnlyInPark ==
    [][mgr.arm.state # "READY" /\ mgr'.arm.state = "READY"
         => mgr'.gear.active = "P"]_vars

(* The motion mode and the domain change only at a standstill in P, with    *)
(* no stop latched, and once HOME has selected the domain for the guard     *)
(* time.                                                                   *)
ModeChangesParked ==
    [][<<mgr.mode.motion, mgr.mode.domain>> # <<mgr'.mode.motion, mgr'.mode.domain>>
         => /\ mgr'.gear.active = "P" /\ mgr'.estop.state = "CLEAR"
            /\ seen'.moving = "P" /\ seen'.homeAge >= DomainGuard
            /\ mgr'.mode.domain = seen'.home]_vars

(* HOME in the centre takes the vehicle out of gear before any adjustment   *)
(* function runs.                                                          *)
AdjustExcludesDrive == mgr.adjust.state # "IDLE" => mgr.gear.active = "P"

(* High voltage is only requested by a remote that has drive authority:     *)
(* the request inherits the whole quiet time.                              *)
PowerOnAfterQuiet ==
    [][~mgr.power.hv /\ mgr'.power.hv => Earned(seen'.quiet)]_vars

(* The track valves never reverse at once: between the two directions they  *)
(* stay closed for the stable time of the wheel.                            *)
TrackReversalPause ==
    [][TrackValve(mgr') \notin {0, seen.track} /\ seen.track # 0
         => \E dt \in Gaps : seen.closed + dt >= TrackStable]_vars

(* A zero calibration is only requested after B1Presses transitions of B1   *)
(* while the gate (link, arm, stop, P, HOME in the centre) stayed open.     *)
CalibrationNeedsGesture ==
    mgr.b1.requested # Never => seen.edges >= B1Presses
=============================================================================
