----------------------------- MODULE RemoteFsms -----------------------------
(***************************************************************************)
(* The finite-state machines of ecu/remote/src as operators on records:    *)
(* one operator per *_fsm_update(), taking the machine, the input sample,   *)
(* the preconditions and the time dt since the previous call, and giving   *)
(* the machine the call leaves.  ManagerUpdate is remote_manager_update(): *)
(* all of them in the order the code calls them.                           *)
(*                                                                         *)
(* A timestamp x_since_ms is kept as the age now - x_since_ms, saturating  *)
(* at the longest duration it is compared with; the wrap of the uint32_t   *)
(* clock after 49.7 days is therefore outside these operators.  Durations  *)
(* are in ticks of the remote task, and dt > 1 is a late call.             *)
(*                                                                         *)
(* An operator named X_Bug before X is X with a plausible mistake in it;    *)
(* nothing uses it, the README says which property notices it.              *)
(*                                                                         *)
(* Sticks and switches are positions.  The track wheel CH14 is a level:    *)
(* +-2 beyond the engage threshold, +-1 between release and engage, 0 in   *)
(* the centre band.  The diagnostic codes are left out.                    *)
(***************************************************************************)
EXTENDS Integers

CONSTANTS
    LinkQualify,     \* REMOTE_LINK_QUALIFY_MS
    NeutralQualify,  \* REMOTE_NEUTRAL_QUALIFY_MS
    CenterHold,      \* REMOTE_ESTOP_CENTER_HOLD_MS
    DomainGuard,     \* REMOTE_DOMAIN_EVENT_GUARD_MS
    LongPress,       \* REMOTE_POWER_LONG_PRESS_MS
    TrackStable,     \* ECU_REMOTE_TRACK_REQUEST_STABLE_MS
    TrackExit,       \* ECU_REMOTE_TRACK_ASSIST_CENTER_EXIT_MS
    B1Presses,       \* ECU_REMOTE_B1_ZERO_CALIBRATION_PRESS_COUNT
    B1Window,        \* ECU_REMOTE_B1_ZERO_CALIBRATION_WINDOW_MS
    B1Hold           \* ECU_REMOTE_B1_ZERO_CALIBRATION_REQUEST_HOLD_MS

ASSUME DurationsAssumption ==
    /\ LinkQualify \in Nat /\ NeutralQualify \in Nat /\ CenterHold \in Nat
    /\ DomainGuard \in Nat /\ LongPress \in Nat /\ TrackStable \in Nat
    /\ TrackExit \in Nat /\ B1Window \in Nat /\ B1Hold \in Nat
    /\ B1Presses \in Nat /\ B1Presses >= 2

Never == -1              \* a timer that is not running
Grow(age, dt, cap) == IF age + dt < cap THEN age + dt ELSE cap

Position == {"LOW", "CENTER", "HIGH", "INVALID"}
Endpoint == {"LOW", "HIGH"}

-----------------------------------------------------------------------------
(* The input sample, as remote_sbus_mapper.c hands it over.                *)

(* A safety switch that is stably in no band makes the sample incredible.  *)
PositionsValid(in) ==
    \A p \in {in.gear, in.home, in.power, in.ch13} : p # "INVALID"

SbusFlags(in) ==
    in.flags \cup (IF "timeout" \notin in.flags /\ ~PositionsValid(in)
                   THEN {"credibility"} ELSE {})

(* detect_estop_source: the first flag in the order of the code.           *)
EstopSource(flags) ==
    CASE "timeout" \in flags -> "SBUS_TIMEOUT"
      [] "timeout" \notin flags /\ "failsafe" \in flags -> "SBUS_FAILSAFE"
      [] flags \cap {"timeout", "failsafe"} = {} /\ "decode" \in flags
           -> "DECODE_ERRORS"
      [] flags = {"credibility"} -> "CREDIBILITY"
      [] OTHER -> "NONE"

-----------------------------------------------------------------------------
LinkInit == [state |-> "OFFLINE", age |-> 0]

LinkUpdate(l, in, dt) ==
    LET flags == SbusFlags(in)
        since == IF l.state = "QUALIFYING" THEN Grow(l.age, dt, LinkQualify)
                                           ELSE 0
    IN  IF "timeout" \in flags THEN [state |-> "OFFLINE", age |-> 0]
        ELSE IF flags # {} THEN [state |-> "FAILSAFE", age |-> 0]
        ELSE IF l.state = "ONLINE" THEN l
        ELSE [state |-> IF since >= LinkQualify THEN "ONLINE" ELSE "QUALIFYING",
              age   |-> since]

-----------------------------------------------------------------------------
EstopInit == [state |-> "CLEAR", source |-> "NONE", hold |-> Never]

ResetStep == [LATCHED |-> "RESET_REQUESTED",
              RESET_REQUESTED |-> "CLEAR_WAIT_NORMAL",
              CLEAR_WAIT_NORMAL |-> "CLEAR"]

(* How long CH13 has been held in the centre, Never when it is not.        *)
CenterHeld(e, in, dt) ==
    IF in.ch13 # "CENTER" THEN Never
    ELSE IF e.hold = Never THEN 0 ELSE Grow(e.hold, dt, CenterHold)

ResetAllowed_Bug(hold, pre) == hold # Never /\ hold >= CenterHold
ResetAllowed(hold, pre) ==
    /\ hold # Never /\ hold >= CenterHold
    /\ pre.zeroSpeed /\ pre.brakeApplied /\ ~pre.aClassFault

EstopUpdate(e, in, pre, dt) ==
    LET flags == SbusFlags(in)
        hold  == CenterHeld(e, in, dt)
        Latch(source) == [state |-> "LATCHED", source |-> source, hold |-> Never]
    IN  IF in.ch13 \in Endpoint THEN Latch("CH13")
        ELSE IF flags # {} THEN Latch(EstopSource(flags))
        ELSE IF e.state = "CLEAR" THEN [e EXCEPT !.hold = Never]
        ELSE IF ~ResetAllowed(hold, pre)
             THEN [e EXCEPT !.state = "LATCHED", !.hold = hold]
        ELSE IF e.state = "CLEAR_WAIT_NORMAL" THEN EstopInit
        ELSE [e EXCEPT !.state = ResetStep[e.state], !.hold = hold]

-----------------------------------------------------------------------------
ArmInit == [state |-> "DISARMED", age |-> 0]

NeutralEntry_Bug(in) == in.throttle = "LOW" /\ in.steering = "CENTER"
NeutralEntry(in) ==
    in.gear = "CENTER" /\ in.throttle = "LOW" /\ in.steering = "CENTER"

ArmAllowed_Bug(d) == ~d.estopLatched /\ ~d.aClassFault
ArmAllowed(d) == d.linkOnline /\ ~d.estopLatched /\ ~d.aClassFault

ArmUpdate(a, in, d, dt) ==
    LET since == Grow(a.age, dt, NeutralQualify)
    IN  IF ~ArmAllowed(d) THEN ArmInit
        ELSE IF a.state = "READY" THEN a
        ELSE IF ~NeutralEntry(in) THEN [state |-> "WAIT_NEUTRAL", age |-> 0]
        ELSE [state |-> IF since >= NeutralQualify THEN "READY"
                                                   ELSE "WAIT_NEUTRAL",
              age   |-> since]

-----------------------------------------------------------------------------
GearInit == [state |-> "PARKED_BRAKED", requested |-> "P", active |-> "P",
             rejected |-> FALSE]

GearFromPosition(p) == CASE p = "LOW" -> "R" [] p = "HIGH" -> "D" [] OTHER -> "P"
DriveState(gear) == IF gear = "D" THEN "DRIVE_D" ELSE "DRIVE_R"

(* A drive gear is only left for the other at zero speed.                   *)
ShiftRejected_Bug(g, asked, d) == g.active \notin {"P", asked} /\ ~d.zeroSpeed
ShiftRejected(g, asked, d) == g.active # asked /\ ~d.zeroSpeed

GearUpdate(g, in, d) ==
    LET asked == GearFromPosition(in.gear)
        To(state, active, rejected) ==
            [state |-> state, requested |-> asked, active |-> active,
             rejected |-> rejected]
    IN  IF d.adjustmentActive THEN To("TRACK_COMPLIANT", "P", FALSE)
        ELSE IF asked = "P"
             THEN To(IF d.zeroSpeed THEN "PARKED_BRAKED" ELSE "STOPPING", "P", FALSE)
        ELSE IF g.active = asked THEN To(DriveState(asked), asked, FALSE)
        ELSE IF ShiftRejected(g, asked, d) THEN To("SHIFT_REJECTED", g.active, TRUE)
        ELSE IF ~d.throttleLow
             THEN To(IF asked = "D" THEN "ARM_D" ELSE "ARM_R", "P", FALSE)
        ELSE To(DriveState(asked), asked, FALSE)

-----------------------------------------------------------------------------
AdjustInit == [state |-> "IDLE", owner |-> "NONE", target |-> "FRONT",
               exit |-> Never, since |-> 0, dir |-> 0, pending |-> 0]

AdjustAllowed(a, in, d) ==
    /\ in.home = "CENTER" /\ d.activeGear = "P" /\ d.throttleLow
    /\ a.state \in {"IDLE", "ABORTED"} => d.zeroSpeed
    /\ ~d.estopLatched /\ ~d.aClassFault

(* Hysteresis is directional: a latched direction holds down to level 1.   *)
RawTrackDirection_Bug(a, in) == in.track
RawTrackDirection(a, in) ==
    CASE in.track = 2 \/ (in.track = 1 /\ a.dir = 1) -> 1
      [] in.track = -2 \/ (in.track = -1 /\ a.dir = -1) -> -1
      [] OTHER -> 0

ClearTrack(a) == [a EXCEPT !.dir = 0, !.pending = 0, !.since = 0]

(* update_stable_track_direction: the machine it leaves; the direction it  *)
(* returns is StableDirection of that machine.                             *)
TrackDebounce(a, in, dt) ==
    LET raw  == RawTrackDirection(a, in)
        held == Grow(a.since, dt, TrackStable)
    IN  IF raw = 0 THEN ClearTrack(a)
        ELSE IF a.dir = raw \/ a.pending # raw
             THEN [a EXCEPT !.pending = raw, !.since = 0]
        ELSE [a EXCEPT !.since = held,
                       !.dir = IF held >= TrackStable THEN raw ELSE @]

StableDirection_Bug(a, in) == a.dir
StableDirection(a, in) ==
    IF a.dir = RawTrackDirection(a, in) THEN a.dir ELSE 0

SelectSuspension(a, in) ==
    [a EXCEPT !.target = IF in.r2Changed THEN "REAR"
                         ELSE IF in.r1Changed THEN "FRONT" ELSE @]

Own(owner, state, c) ==
    [c EXCEPT !.owner = owner, !.state = state, !.exit = Never]

AdjustUpdate(a, in, d, dt) ==
    LET b       == TrackDebounce(SelectSuspension(a, in), in, dt)
        exiting == IF b.exit = Never THEN 0 ELSE Grow(b.exit, dt, TrackExit)
    IN  IF in.home # "CENTER" THEN Own("NONE", "IDLE", ClearTrack(a))
        ELSE IF ~AdjustAllowed(a, in, d) THEN Own("NONE", "ABORTED", ClearTrack(a))
        ELSE IF StableDirection(b, in) # 0
             THEN Own("TRACK", IF a.owner = "TRACK" THEN "TRACK_ACTIVE"
                                                    ELSE "TRACK_PREPARE", b)
        ELSE IF a.owner = "TRACK" /\ b.dir = 0
             THEN IF exiting >= TrackExit THEN Own("NONE", "READY", ClearTrack(b))
                  ELSE [b EXCEPT !.state = "TRACK_EXITING", !.exit = exiting]
        ELSE IF in.gear \in Endpoint
             THEN Own("HYDRAULIC", "HYDRAULIC_ACTIVE", ClearTrack(b))
        ELSE IF in.clearance \in Endpoint
             THEN Own("CLEARANCE", "CLEARANCE_ACTIVE", ClearTrack(b))
        ELSE Own("NONE", "READY", IF b.pending = 0 THEN ClearTrack(b) ELSE b)

-----------------------------------------------------------------------------
ModeInit == [reqDomain |-> "ACKERMANN", domain |-> "ACKERMANN",
             motion |-> "POSITIVE_ACKERMANN", age |-> 0,
             pending |-> FALSE, rejected |-> FALSE]

DomainFromHome(home) ==
    CASE home = "CENTER" -> "ADJUST" [] home = "HIGH" -> "SPECIAL"
      [] OTHER -> "ACKERMANN"

ModeAllowed_Bug(d) ==
    /\ d.activeGear = "P" /\ d.throttleLow /\ d.steeringNeutral
    /\ ~d.estopLatched /\ ~d.aClassFault
ModeAllowed(d) ==
    /\ d.activeGear = "P" /\ d.zeroSpeed /\ d.throttleLow /\ d.steeringNeutral
    /\ ~d.estopLatched /\ ~d.aClassFault

(* R2 wins over R1, and R1 selects the default mode of the domain.         *)
SelectedMode(domain, in) ==
    CASE domain = "SPECIAL" /\ in.r2Changed  -> "CRAB"
      [] domain = "SPECIAL" /\ ~in.r2Changed -> "SPIN"
      [] domain # "SPECIAL" /\ in.r2Changed  -> "REVERSE_ACKERMANN"
      [] OTHER -> "POSITIVE_ACKERMANN"

ModeUpdate(md, in, d, dt) ==
    LET asked == DomainFromHome(in.home)
        m     == [md EXCEPT !.rejected = FALSE, !.age = Grow(@, dt, DomainGuard)]
    IN  IF in.home = "INVALID" THEN [m EXCEPT !.rejected = TRUE]
        ELSE IF asked # m.reqDomain
             THEN [m EXCEPT !.reqDomain = asked, !.age = 0, !.pending = TRUE]
        ELSE IF m.age < DomainGuard THEN m
        ELSE IF ~in.r1Changed /\ ~in.r2Changed /\ ~m.pending THEN m
        ELSE IF ~ModeAllowed(d) THEN [m EXCEPT !.rejected = TRUE]
        ELSE [m EXCEPT !.domain = asked, !.motion = SelectedMode(asked, in),
                       !.pending = FALSE]

-----------------------------------------------------------------------------
PowerInit == [state |-> "OFF", position |-> "CENTER", age |-> 0, hv |-> FALSE,
              disable |-> FALSE, shutdown |-> FALSE, rejected |-> FALSE]

PowerOnAllowed_Bug(d) ==
    /\ d.activeGear = "P" /\ d.zeroSpeed /\ d.throttleLow /\ d.steeringNeutral
    /\ ~d.estopLatched /\ ~d.aClassFault /\ d.can1Online
PowerOnAllowed(d) ==
    /\ d.activeGear = "P" /\ d.zeroSpeed /\ d.throttleLow /\ d.steeringNeutral
    /\ d.armReady /\ ~d.estopLatched /\ ~d.aClassFault /\ d.can1Online

PowerDownAllowed_Bug(d) ==
    d.activeGear = "P" /\ d.hydraulicStopped /\ ~d.estopLatched
PowerDownAllowed(d) ==
    /\ d.activeGear = "P" /\ d.zeroSpeed /\ d.brakeApplied /\ d.hydraulicStopped
    /\ ~d.adjustmentActive /\ ~d.estopLatched

PowerUpdate(pw, in, d, dt) ==
    LET p == [pw EXCEPT !.rejected = FALSE, !.disable = FALSE, !.shutdown = FALSE,
                        !.age = Grow(@, dt, LongPress)]
        Reject(q) == [q EXCEPT !.state = "REJECTED", !.rejected = TRUE]
    IN  IF d.estopLatched \/ d.aClassFault
             THEN [p EXCEPT !.state = "SHUTDOWN_PROTECT"]
        ELSE IF in.power \notin Endpoint
             THEN [p EXCEPT !.position = in.power, !.age = 0,
                            !.state = IF p.hv THEN "ON" ELSE "OFF"]
        ELSE IF in.power # p.position
             THEN [p EXCEPT !.position = in.power, !.age = 0]
        ELSE IF p.age < LongPress
             THEN [p EXCEPT !.state = IF in.power = "HIGH" THEN "ON_REQUESTED"
                                                          ELSE "DOWN_REQUESTED"]
        ELSE IF in.power = "HIGH"
             THEN IF p.hv \/ PowerOnAllowed(d)
                  THEN [p EXCEPT !.state = "ON", !.hv = TRUE]
                  ELSE Reject(p)
        ELSE IF PowerDownAllowed(d)
             THEN [p EXCEPT !.state = "OFF", !.hv = FALSE, !.disable = TRUE,
                            !.shutdown = TRUE]
        ELSE Reject(p)

-----------------------------------------------------------------------------
AuthorityInit == [state |-> "MANUAL", allowed |-> FALSE]

AutoAllowed(in, d) ==
    /\ in.home = "LOW" /\ d.activeGear = "P" /\ d.zeroSpeed /\ d.throttleLow
    /\ d.steeringNeutral /\ ~d.estopLatched /\ ~d.aClassFault
    /\ d.autoRequestValid

TakeoverRequested(in, d) ==
    \/ in.authority # "CENTER" \/ in.gear # "CENTER" \/ in.home # "LOW"
    \/ ~d.throttleLow \/ ~d.steeringNeutral
    \/ d.estopLatched \/ d.aClassFault \/ ~d.autoRequestValid

AuthorityUpdate(au, in, d) ==
    LET To(state) == [state |-> state, allowed |-> state = "AUTO_ACTIVE"]
    IN  IF au.state = "AUTO_ACTIVE" /\ TakeoverRequested(in, d)
             THEN To("TAKEOVER_WAIT_NEUTRAL")
        ELSE IF au.state = "TAKEOVER_WAIT_NEUTRAL"
             THEN IF d.throttleLow /\ d.steeringNeutral THEN To("MANUAL")
                                                        ELSE To(au.state)
        ELSE IF in.authority # "CENTER" THEN To("MANUAL")
        ELSE IF AutoAllowed(in, d) THEN To("AUTO_ACTIVE") ELSE To("REJECTED")

-----------------------------------------------------------------------------
(* The B1 gesture: B1Presses transitions of CH10 inside B1Window ask for a *)
(* steering zero calibration and the request is held for B1Hold.           *)
B1Init_Bug == [synced |-> TRUE, count |-> 0, window |-> 0, requested |-> Never]
B1Init == [synced |-> FALSE, count |-> 0, window |-> 0, requested |-> Never]

B1Update(b, in, gateOpen, dt) ==
    LET window    == Grow(b.window, dt, B1Window + 1)
        requested == IF b.requested = Never THEN Never
                     ELSE Grow(b.requested, dt, B1Hold + 1)
        fresh     == b.count = 0 \/ window > B1Window
        count     == (IF fresh THEN 0 ELSE b.count) + 1
    IN  IF ~gateOpen THEN B1Init
        ELSE IF ~b.synced
             THEN [synced |-> TRUE, count |-> 0, window |-> 0, requested |-> requested]
        ELSE IF ~in.b1Changed
             THEN [b EXCEPT !.window = window, !.requested = requested]
        ELSE IF count >= B1Presses
             THEN [synced |-> TRUE, count |-> 0, window |-> 0, requested |-> 0]
        ELSE [synced |-> TRUE, count |-> count,
              window |-> IF fresh THEN 0 ELSE window, requested |-> requested]

-----------------------------------------------------------------------------
ManagerInit ==
    [link |-> LinkInit, estop |-> EstopInit, arm |-> ArmInit, gear |-> GearInit,
     adjust |-> AdjustInit, mode |-> ModeInit, power |-> PowerInit,
     authority |-> AuthorityInit, b1 |-> B1Init]

(* What the FSMs are shown: build_remote_preconditions plus what the       *)
(* manager derives from the FSMs it has already updated.                   *)
Derive(in, pre, link, estop) ==
    [throttleLow      |-> in.throttle = "LOW",
     steeringNeutral  |-> in.steering = "CENTER",
     zeroSpeed        |-> pre.zeroSpeed,
     brakeApplied     |-> pre.brakeApplied,
     aClassFault      |-> pre.aClassFault,
     hydraulicStopped |-> pre.hydraulicStopped,
     can1Online       |-> pre.can1Online,
     autoRequestValid |-> pre.autoRequestValid,
     linkOnline       |-> link.state = "ONLINE",
     estopLatched     |-> estop.state # "CLEAR",
     armReady         |-> FALSE,
     adjustmentActive |-> FALSE,
     activeGear       |-> "P"]

CalibrationGate(link, estop, arm, gear, in) ==
    /\ link.state = "ONLINE" /\ arm.state = "READY" /\ estop.state = "CLEAR"
    /\ gear.active = "P" /\ in.home = "CENTER"

(* HOME in the centre asks for the adjustment domain before its FSM runs.   *)
AdjustmentWanted_Bug(m, in) == m.adjust.state # "IDLE"
AdjustmentWanted(m, in) == in.home = "CENTER" \/ m.adjust.state # "IDLE"

ManagerUpdate(m, in, pre, dt) ==
    LET link   == LinkUpdate(m.link, in, dt)
        estop  == EstopUpdate(m.estop, in, pre, dt)
        d0     == Derive(in, pre, link, estop)
        arm    == ArmUpdate(m.arm, in, d0, dt)
        d1     == [d0 EXCEPT !.armReady = arm.state = "READY",
                             !.adjustmentActive = AdjustmentWanted(m, in)]
        gear   == GearUpdate(m.gear, in, d1)
        d2     == [d1 EXCEPT !.activeGear = gear.active]
        adjust == AdjustUpdate(m.adjust, in, d2, dt)
        d3     == [d2 EXCEPT !.adjustmentActive = adjust.state # "IDLE"]
    IN  [link      |-> link,
         estop     |-> estop,
         arm       |-> arm,
         gear      |-> gear,
         adjust    |-> adjust,
         mode      |-> ModeUpdate(m.mode, in, d3, dt),
         power     |-> PowerUpdate(m.power, in, d3, dt),
         authority |-> AuthorityUpdate(m.authority, in, d3),
         b1        |-> B1Update(m.b1, in,
                                CalibrationGate(link, estop, arm, gear, in), dt)]

(* request.steer_zero_calibration_request: the held gesture, gate open.    *)
CalibrationRequest(m, in) ==
    /\ m.b1.requested # Never /\ m.b1.requested <= B1Hold
    /\ CalibrationGate(m.link, m.estop, m.arm, m.gear, in)

-----------------------------------------------------------------------------
(* The samples and preconditions, and the states and timers of the machines. *)
InputType ==
    [flags : SUBSET {"timeout", "failsafe", "decode", "credibility"},
     ch13 : Position, gear : Position, home : Position, power : Position,
     throttle : Position, steering : Position, clearance : Position,
     authority : Position, track : -2..2,
     r1Changed : BOOLEAN, r2Changed : BOOLEAN, b1Changed : BOOLEAN]

ConditionType ==
    [zeroSpeed : BOOLEAN, brakeApplied : BOOLEAN, aClassFault : BOOLEAN,
     hydraulicStopped : BOOLEAN, can1Online : BOOLEAN,
     autoRequestValid : BOOLEAN]

Age(cap) == 0..cap

LinkType == [state : {"OFFLINE", "QUALIFYING", "ONLINE", "FAILSAFE"},
             age : Age(LinkQualify)]

EstopType ==
    [state : {"CLEAR", "LATCHED", "RESET_REQUESTED", "CLEAR_WAIT_NORMAL"},
     source : {"NONE", "CH13", "SBUS_TIMEOUT", "SBUS_FAILSAFE",
               "DECODE_ERRORS", "CREDIBILITY"},
     hold : Age(CenterHold) \cup {Never}]

ArmType == [state : {"DISARMED", "WAIT_NEUTRAL", "READY"},
            age : Age(NeutralQualify)]

GearType ==
    [state : {"PARKED_BRAKED", "ARM_D", "ARM_R", "DRIVE_D", "DRIVE_R",
              "STOPPING", "TRACK_COMPLIANT", "SHIFT_REJECTED"},
     requested : {"P", "D", "R"}, active : {"P", "D", "R"}, rejected : BOOLEAN]

AdjustType ==
    [state : {"IDLE", "READY", "ABORTED", "TRACK_PREPARE", "TRACK_ACTIVE",
              "TRACK_EXITING", "HYDRAULIC_ACTIVE", "CLEARANCE_ACTIVE"},
     owner : {"NONE", "TRACK", "HYDRAULIC", "CLEARANCE"},
     target : {"FRONT", "REAR"}, exit : Age(TrackExit) \cup {Never},
     since : Age(TrackStable), dir : -1..1, pending : -1..1]

ModeType ==
    [reqDomain : {"ACKERMANN", "ADJUST", "SPECIAL"},
     domain : {"ACKERMANN", "ADJUST", "SPECIAL"},
     motion : {"POSITIVE_ACKERMANN", "REVERSE_ACKERMANN", "SPIN", "CRAB"},
     age : Age(DomainGuard), pending : BOOLEAN, rejected : BOOLEAN]

PowerType ==
    [state : {"OFF", "ON", "ON_REQUESTED", "DOWN_REQUESTED", "REJECTED",
              "SHUTDOWN_PROTECT"},
     position : Position, age : Age(LongPress), hv : BOOLEAN,
     disable : BOOLEAN, shutdown : BOOLEAN, rejected : BOOLEAN]

AuthorityType ==
    [state : {"MANUAL", "AUTO_ACTIVE", "REJECTED", "TAKEOVER_WAIT_NEUTRAL"},
     allowed : BOOLEAN]

B1Type ==
    [synced : BOOLEAN, count : 0..(B1Presses - 1), window : Age(B1Window + 1),
     requested : Age(B1Hold + 1) \cup {Never}]

ManagerType ==
    [link : LinkType, estop : EstopType, arm : ArmType, gear : GearType,
     adjust : AdjustType, mode : ModeType, power : PowerType,
     authority : AuthorityType, b1 : B1Type]
=============================================================================
