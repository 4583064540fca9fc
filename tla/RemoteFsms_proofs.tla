-------------------------- MODULE RemoteFsms_proofs --------------------------
(***************************************************************************)
(* Lemmas about the operators of RemoteFsms, for every machine, sample and  *)
(* duration: each FSM operator keeps its machine in its type, and a call of *)
(* ManagerUpdate is what each operator does with the preconditions it is    *)
(* shown.  The proofs about the remote task and about the whole control     *)
(* loop rest on them.                                                      *)
(***************************************************************************)
EXTENDS RemoteFsms, TLAPS

(* A timer stays within its cap and never runs backwards.                   *)
LEMMA GrowBounds ==
    ASSUME NEW cap \in Nat, NEW age \in Age(cap), NEW dt \in Nat
    PROVE  Grow(age, dt, cap) \in Age(cap) /\ Grow(age, dt, cap) >= age
BY DEF Grow, Age

(* remote_link_fsm_update keeps the link FSM in its type.                   *)
LEMMA LinkUpdateType ==
    ASSUME NEW l \in LinkType, NEW in \in InputType, NEW dt \in Nat
    PROVE  LinkUpdate(l, in, dt) \in LinkType
<1> LinkQualify \in Nat
    BY DurationsAssumption
<1> l.age \in Age(LinkQualify)
    BY DEF LinkType
<1> Grow(l.age, dt, LinkQualify) \in Age(LinkQualify)
    BY GrowBounds
<1> 0 \in Age(LinkQualify)
    BY DEF Age
<1> QED
    BY DEF LinkUpdate, LinkType

(* detect_estop_source names one of the known sources.                      *)
LEMMA EstopSourceType ==
    ASSUME NEW flags \in SUBSET {"timeout", "failsafe", "decode", "credibility"}
    PROVE  EstopSource(flags) \in {"NONE", "CH13", "SBUS_TIMEOUT", "SBUS_FAILSAFE",
                                   "DECODE_ERRORS", "CREDIBILITY"}
<1>1. CASE "timeout" \in flags
    BY <1>1 DEF EstopSource
<1>2. CASE "timeout" \notin flags /\ "failsafe" \in flags
    BY <1>2 DEF EstopSource
<1>3. CASE /\ "timeout" \notin flags /\ "failsafe" \notin flags
           /\ "decode" \in flags
    BY <1>3 DEF EstopSource
<1>4. CASE /\ "timeout" \notin flags /\ "failsafe" \notin flags
           /\ "decode" \notin flags
    BY <1>4 DEF EstopSource
<1> QED
    BY <1>1, <1>2, <1>3, <1>4

(* remote_estop_fsm_update keeps the stop FSM in its type.                  *)
LEMMA EstopUpdateType ==
    ASSUME NEW e \in EstopType, NEW in \in InputType, NEW pre \in ConditionType,
           NEW dt \in Nat
    PROVE  EstopUpdate(e, in, pre, dt) \in EstopType
<1> CenterHold \in Nat
    BY DurationsAssumption
<1>1. CenterHeld(e, in, dt) \in Age(CenterHold) \cup {Never}
    <2>1. e.hold # Never => Grow(e.hold, dt, CenterHold) \in Age(CenterHold)
        BY GrowBounds DEF EstopType
    <2>2. 0 \in Age(CenterHold)
        BY DEF Age
    <2> QED
        BY <2>1, <2>2 DEF CenterHeld
<1>2. EstopSource(SbusFlags(in)) \in {"NONE", "CH13", "SBUS_TIMEOUT",
          "SBUS_FAILSAFE", "DECODE_ERRORS", "CREDIBILITY"}
    <2>1. SbusFlags(in) \in SUBSET {"timeout", "failsafe", "decode", "credibility"}
        BY DEF SbusFlags, InputType
    <2> QED
        BY <2>1, EstopSourceType
<1>3. EstopInit \in EstopType
    BY DEF EstopInit, EstopType
<1>4. e.state # "CLEAR" => ResetStep[e.state] \in {"RESET_REQUESTED", "CLEAR_WAIT_NORMAL", "CLEAR"}
    BY DEF ResetStep, EstopType
<1> QED
    BY ZenonT(60), <1>1, <1>2, <1>3, <1>4 DEF EstopUpdate, EstopType

(* remote_arm_fsm_update keeps the arming FSM in its type.                  *)
LEMMA ArmUpdateType ==
    ASSUME NEW a \in ArmType, NEW in, NEW d, NEW dt \in Nat
    PROVE  ArmUpdate(a, in, d, dt) \in ArmType
<1> NeutralQualify \in Nat
    BY DurationsAssumption
<1>1. Grow(a.age, dt, NeutralQualify) \in Age(NeutralQualify)
    BY GrowBounds DEF ArmType
<1>2. 0 \in Age(NeutralQualify)
    BY DEF Age
<1> QED
    BY <1>1, <1>2 DEF ArmUpdate, ArmInit, ArmType

(* remote_gear_fsm_update keeps the gear FSM in its type.                   *)
LEMMA GearUpdateType ==
    ASSUME NEW g \in GearType, NEW in \in InputType, NEW d
    PROVE  GearUpdate(g, in, d) \in GearType
<1>1. GearFromPosition(in.gear) \in {"P", "D", "R"}
    BY DEF GearFromPosition
<1> QED
    BY <1>1 DEF GearUpdate, GearType, DriveState

(* remote_adjust_fsm_update keeps the adjustment FSM in its type.           *)
LEMMA AdjustUpdateType ==
    ASSUME NEW a \in AdjustType, NEW in \in InputType, NEW d, NEW dt \in Nat
    PROVE  AdjustUpdate(a, in, d, dt) \in AdjustType
<1> TrackStable \in Nat /\ TrackExit \in Nat
    BY DurationsAssumption
<1> DEFINE c == SelectSuspension(a, in)
           b == TrackDebounce(c, in, dt)
           exiting == IF b.exit = Never THEN 0 ELSE Grow(b.exit, dt, TrackExit)
<1>1. ASSUME NEW x \in AdjustType
      PROVE  ClearTrack(x) \in AdjustType
    <2>1. 0 \in Age(TrackStable) /\ 0 \in -1..1
        BY DEF Age
    <2> QED
        BY <1>1, <2>1 DEF ClearTrack, AdjustType
<1>2. ASSUME NEW x \in AdjustType,
             NEW owner \in {"NONE", "TRACK", "HYDRAULIC", "CLEARANCE"},
             NEW state \in {"IDLE", "READY", "ABORTED", "TRACK_PREPARE",
                            "TRACK_ACTIVE", "HYDRAULIC_ACTIVE", "CLEARANCE_ACTIVE"}
      PROVE  Own(owner, state, x) \in AdjustType
    BY <1>2 DEF Own, AdjustType
<1>3. c \in AdjustType
    BY DEF SelectSuspension, AdjustType
<1>4. b \in AdjustType
    <2>1. RawTrackDirection(c, in) \in -1..1
        BY DEF RawTrackDirection
    <2>2. Grow(c.since, dt, TrackStable) \in Age(TrackStable)
        BY <1>3, GrowBounds DEF AdjustType
    <2>3. 0 \in Age(TrackStable)
        BY DEF Age
    <2> HIDE DEF c
    <2> QED
        BY <1>1, <1>3, <2>1, <2>2, <2>3 DEF TrackDebounce, AdjustType
<1>5. exiting \in Age(TrackExit)
    <2>1. b.exit # Never => Grow(b.exit, dt, TrackExit) \in Age(TrackExit)
        BY <1>4, GrowBounds DEF AdjustType
    <2>2. 0 \in Age(TrackExit)
        BY DEF Age
    <2> HIDE DEF b
    <2> QED
        BY <2>1, <2>2
<1>6. [b EXCEPT !.state = "TRACK_EXITING", !.exit = exiting] \in AdjustType
    <2> HIDE DEF b, exiting
    <2> QED
        BY <1>4, <1>5 DEF AdjustType
<1> HIDE DEF b, c, exiting
<1>7. AdjustUpdate(a, in, d, dt) =
        IF in.home # "CENTER" THEN Own("NONE", "IDLE", ClearTrack(a))
        ELSE IF ~AdjustAllowed(a, in, d) THEN Own("NONE", "ABORTED", ClearTrack(a))
        ELSE IF StableDirection(b, in) # 0
             THEN Own("TRACK", IF a.owner = "TRACK" THEN "TRACK_ACTIVE"
                                                    ELSE "TRACK_PREPARE", b)
        ELSE IF a.owner = "TRACK" /\ b.dir = 0
             THEN IF exiting >= TrackExit THEN Own("NONE", "READY", ClearTrack(b))
                  ELSE [b EXCEPT !.state = "TRACK_EXITING", !.exit = exiting]
        ELSE IF in.gear \in Endpoint
             THEN Own("HYDRAULIC", "HYDRAULIC_ACTIVE", ClearTrack(b))
        ELSE IF in.clearance \in Endpoint
             THEN Own("CLEARANCE", "CLEARANCE_ACTIVE", ClearTrack(b))
        ELSE Own("NONE", "READY", IF b.pending = 0 THEN ClearTrack(b) ELSE b)
    BY DEF AdjustUpdate, b, c, exiting
<1> QED
    BY <1>1, <1>2, <1>4, <1>6, <1>7, Zenon

(* remote_mode_fsm_update keeps the mode FSM in its type.                   *)
LEMMA ModeUpdateType ==
    ASSUME NEW md \in ModeType, NEW in \in InputType, NEW d, NEW dt \in Nat
    PROVE  ModeUpdate(md, in, d, dt) \in ModeType
<1> DomainGuard \in Nat
    BY DurationsAssumption
<1>1. Grow(md.age, dt, DomainGuard) \in Age(DomainGuard)
    BY GrowBounds DEF ModeType
<1>2. 0 \in Age(DomainGuard)
    BY DEF Age
<1>3. DomainFromHome(in.home) \in {"ACKERMANN", "ADJUST", "SPECIAL"}
    BY DEF DomainFromHome
<1>4. SelectedMode(DomainFromHome(in.home), in)
        \in {"POSITIVE_ACKERMANN", "REVERSE_ACKERMANN", "SPIN", "CRAB"}
    BY DEF SelectedMode, InputType
<1> DEFINE m == [md EXCEPT !.rejected = FALSE, !.age = Grow(@, dt, DomainGuard)]
<1>5. m \in ModeType
    BY <1>1 DEF ModeType
<1> HIDE DEF m
<1>6. /\ [m EXCEPT !.rejected = TRUE] \in ModeType
      /\ [m EXCEPT !.reqDomain = DomainFromHome(in.home), !.age = 0,
                   !.pending = TRUE] \in ModeType
      /\ [m EXCEPT !.domain = DomainFromHome(in.home),
                   !.motion = SelectedMode(DomainFromHome(in.home), in),
                   !.pending = FALSE] \in ModeType
    BY <1>2, <1>3, <1>4, <1>5 DEF ModeType
<1> QED
    BY <1>5, <1>6 DEF ModeUpdate, m

(* remote_power_fsm_update keeps the power FSM in its type.                 *)
LEMMA PowerUpdateType ==
    ASSUME NEW pw \in PowerType, NEW in \in InputType, NEW d, NEW dt \in Nat
    PROVE  PowerUpdate(pw, in, d, dt) \in PowerType
<1> LongPress \in Nat
    BY DurationsAssumption
<1>1. Grow(pw.age, dt, LongPress) \in Age(LongPress)
    BY GrowBounds DEF PowerType
<1>2. 0 \in Age(LongPress)
    BY DEF Age
<1>3. in.power \in Position
    BY DEF InputType
<1> DEFINE p == [pw EXCEPT !.rejected = FALSE, !.disable = FALSE, !.shutdown = FALSE,
                           !.age = Grow(@, dt, LongPress)]
<1>4. p \in PowerType
    BY <1>1 DEF PowerType
<1> HIDE DEF p
<1>5. /\ [p EXCEPT !.state = "SHUTDOWN_PROTECT"] \in PowerType
      /\ [p EXCEPT !.position = in.power, !.age = 0,
                   !.state = IF p.hv THEN "ON" ELSE "OFF"] \in PowerType
      /\ [p EXCEPT !.position = in.power, !.age = 0] \in PowerType
    BY <1>2, <1>3, <1>4 DEF PowerType
<1>6. /\ [p EXCEPT !.state = IF in.power = "HIGH" THEN "ON_REQUESTED"
                                                ELSE "DOWN_REQUESTED"] \in PowerType
      /\ [p EXCEPT !.state = "ON", !.hv = TRUE] \in PowerType
      /\ [p EXCEPT !.state = "REJECTED", !.rejected = TRUE] \in PowerType
      /\ [p EXCEPT !.state = "OFF", !.hv = FALSE, !.disable = TRUE,
                   !.shutdown = TRUE] \in PowerType
    BY <1>4 DEF PowerType
<1> QED
    BY <1>5, <1>6 DEF PowerUpdate, p

(* remote_authority_fsm_update keeps the authority FSM in its type.         *)
LEMMA AuthorityUpdateType ==
    ASSUME NEW au \in AuthorityType, NEW in, NEW d
    PROVE  AuthorityUpdate(au, in, d) \in AuthorityType
BY DEF AuthorityUpdate, AuthorityType

(* The B1 gesture keeps its counter below B1Presses and its timers capped.  *)
LEMMA B1UpdateType ==
    ASSUME NEW b \in B1Type, NEW in, NEW gateOpen, NEW dt \in Nat
    PROVE  B1Update(b, in, gateOpen, dt) \in B1Type
<1>0. /\ B1Window + 1 \in Nat /\ B1Hold + 1 \in Nat
      /\ B1Presses \in Nat /\ B1Presses >= 2
    BY DurationsAssumption
<1> DEFINE window == Grow(b.window, dt, B1Window + 1)
           requested == IF b.requested = Never THEN Never
                        ELSE Grow(b.requested, dt, B1Hold + 1)
           fresh == b.count = 0 \/ window > B1Window
           count == (IF fresh THEN 0 ELSE b.count) + 1
<1>1. window \in Age(B1Window + 1)
    BY <1>0, GrowBounds DEF B1Type
<1>2. requested \in Age(B1Hold + 1) \cup {Never}
    <2>1. CASE b.requested = Never
        BY <2>1
    <2>2. CASE b.requested # Never
        <3>1. b.requested \in Age(B1Hold + 1)
            BY <2>2 DEF B1Type
        <3> QED
            BY <1>0, <2>2, <3>1, GrowBounds
    <2> QED
        BY <2>1, <2>2
<1>3. count < B1Presses => count \in 0..(B1Presses - 1)
    BY <1>0 DEF B1Type
<1>3a. count \in Nat
    BY <1>0 DEF B1Type
<1>4. /\ 0 \in Age(B1Window + 1) /\ 0 \in Age(B1Hold + 1)
      /\ 0 \in 0..(B1Presses - 1)
    BY <1>0 DEF Age
<1>5. B1Init \in B1Type
    BY <1>4 DEF B1Init, B1Type
<1>6. B1Update(b, in, gateOpen, dt) =
        IF ~gateOpen THEN B1Init
        ELSE IF ~b.synced
             THEN [synced |-> TRUE, count |-> 0, window |-> 0, requested |-> requested]
        ELSE IF ~in.b1Changed
             THEN [b EXCEPT !.window = window, !.requested = requested]
        ELSE IF count >= B1Presses
             THEN [synced |-> TRUE, count |-> 0, window |-> 0, requested |-> 0]
        ELSE [synced |-> TRUE, count |-> count,
              window |-> IF fresh THEN 0 ELSE window, requested |-> requested]
    BY DEF B1Update
<1>7. count >= B1Presses \/ count < B1Presses
    BY <1>0, <1>3a
<1> HIDE DEF window, requested, fresh, count
<1>8. /\ [synced |-> TRUE, count |-> 0, window |-> 0, requested |-> requested] \in B1Type
      /\ [synced |-> TRUE, count |-> 0, window |-> 0, requested |-> 0] \in B1Type
      /\ [b EXCEPT !.window = window, !.requested = requested] \in B1Type
    BY <1>1, <1>2, <1>4 DEF B1Type
<1>9. count < B1Presses =>
        [synced |-> TRUE, count |-> count,
         window |-> IF fresh THEN 0 ELSE window, requested |-> requested] \in B1Type
    BY <1>1, <1>2, <1>3, <1>4 DEF B1Type
<1> QED
    BY <1>5, <1>6, <1>7, <1>8, <1>9

-----------------------------------------------------------------------------
(* The preconditions the gear FSM is shown in the call that takes the       *)
(* machine m to n, then the adjustment FSM, then the last three.            *)
ShownGear(m, n, in, pre) ==
    [Derive(in, pre, n.link, n.estop) EXCEPT
        !.armReady = n.arm.state = "READY",
        !.adjustmentActive = AdjustmentWanted(m, in)]

ShownAdjust(m, n, in, pre) ==
    [ShownGear(m, n, in, pre) EXCEPT !.activeGear = n.gear.active]

Shown(m, n, in, pre) ==
    [ShownAdjust(m, n, in, pre) EXCEPT !.adjustmentActive = n.adjust.state # "IDLE"]

(* What remote_manager_update does to each FSM, as separate equations.      *)
LEMMA UpdateParts ==
    ASSUME NEW m, NEW in, NEW pre, NEW dt, NEW n, n = ManagerUpdate(m, in, pre, dt)
    PROVE  /\ n.link = LinkUpdate(m.link, in, dt)
           /\ n.estop = EstopUpdate(m.estop, in, pre, dt)
           /\ n.arm = ArmUpdate(m.arm, in, Derive(in, pre, n.link, n.estop), dt)
           /\ n.gear = GearUpdate(m.gear, in, ShownGear(m, n, in, pre))
           /\ n.adjust = AdjustUpdate(m.adjust, in, ShownAdjust(m, n, in, pre), dt)
           /\ n.mode = ModeUpdate(m.mode, in, Shown(m, n, in, pre), dt)
           /\ n.power = PowerUpdate(m.power, in, Shown(m, n, in, pre), dt)
           /\ n.authority = AuthorityUpdate(m.authority, in, Shown(m, n, in, pre))
           /\ n.b1 = B1Update(m.b1, in,
                        CalibrationGate(n.link, n.estop, n.arm, n.gear, in), dt)
           /\ n = [link |-> n.link, estop |-> n.estop, arm |-> n.arm,
                   gear |-> n.gear, adjust |-> n.adjust, mode |-> n.mode,
                   power |-> n.power, authority |-> n.authority, b1 |-> n.b1]
<1> DEFINE d0 == Derive(in, pre, LinkUpdate(m.link, in, dt),
                        EstopUpdate(m.estop, in, pre, dt))
           a == ArmUpdate(m.arm, in, d0, dt)
           d1 == [d0 EXCEPT !.armReady = a.state = "READY",
                            !.adjustmentActive = AdjustmentWanted(m, in)]
           g == GearUpdate(m.gear, in, d1)
           d2 == [d1 EXCEPT !.activeGear = g.active]
           j == AdjustUpdate(m.adjust, in, d2, dt)
           d3 == [d2 EXCEPT !.adjustmentActive = j.state # "IDLE"]
<1>1. n = [link      |-> LinkUpdate(m.link, in, dt),
           estop     |-> EstopUpdate(m.estop, in, pre, dt),
           arm       |-> a,
           gear      |-> g,
           adjust    |-> j,
           mode      |-> ModeUpdate(m.mode, in, d3, dt),
           power     |-> PowerUpdate(m.power, in, d3, dt),
           authority |-> AuthorityUpdate(m.authority, in, d3),
           b1        |-> B1Update(m.b1, in,
                           CalibrationGate(LinkUpdate(m.link, in, dt),
                              EstopUpdate(m.estop, in, pre, dt), a, g, in), dt)]
    BY DEF ManagerUpdate
<1> HIDE DEF d0, a, d1, g, d2, j, d3
<1>2. /\ n.link = LinkUpdate(m.link, in, dt)
      /\ n.estop = EstopUpdate(m.estop, in, pre, dt)
      /\ n.arm = a /\ n.gear = g /\ n.adjust = j
      /\ n.mode = ModeUpdate(m.mode, in, d3, dt)
      /\ n.power = PowerUpdate(m.power, in, d3, dt)
      /\ n.authority = AuthorityUpdate(m.authority, in, d3)
      /\ n.b1 = B1Update(m.b1, in,
                   CalibrationGate(n.link, n.estop, a, g, in), dt)
    BY <1>1
<1>3. d0 = Derive(in, pre, n.link, n.estop)
    BY <1>2 DEF d0
<1>4. d1 = ShownGear(m, n, in, pre)
    BY <1>2, <1>3 DEF d1, ShownGear
<1>5. d2 = ShownAdjust(m, n, in, pre)
    BY <1>2, <1>4 DEF d2, ShownAdjust
<1>6. d3 = Shown(m, n, in, pre)
    BY <1>2, <1>5 DEF d3, Shown
<1> QED
    BY <1>1, <1>2, <1>3, <1>4, <1>5, <1>6 DEF a, g, j

(* The FSMs start in their types (ecu_task_runtime_init).                   *)
LEMMA ManagerInitType == ManagerInit \in ManagerType
<1>1. /\ 0 \in Age(LinkQualify) /\ 0 \in Age(NeutralQualify)
      /\ 0 \in Age(TrackStable) /\ 0 \in Age(DomainGuard)
      /\ 0 \in Age(LongPress) /\ 0 \in Age(B1Window + 1)
      /\ 0 \in 0..(B1Presses - 1) /\ 0 \in -1..1
    BY DurationsAssumption DEF Age
<1>2. LinkInit \in LinkType /\ EstopInit \in EstopType /\ ArmInit \in ArmType
    BY <1>1 DEF LinkInit, LinkType, EstopInit, EstopType, ArmInit, ArmType
<1>3. GearInit \in GearType /\ ModeInit \in ModeType /\ PowerInit \in PowerType
    BY <1>1 DEF GearInit, GearType, ModeInit, ModeType, PowerInit, PowerType,
       Position
<1>4. AdjustInit \in AdjustType
    BY <1>1 DEF AdjustInit, AdjustType
<1>5. AuthorityInit \in AuthorityType /\ B1Init \in B1Type
    BY <1>1 DEF AuthorityInit, AuthorityType, B1Init, B1Type
<1> QED
    BY <1>2, <1>3, <1>4, <1>5 DEF ManagerInit, ManagerType

(* remote_manager_update keeps every machine in its type.                   *)
LEMMA ManagerUpdateType ==
    ASSUME NEW m \in ManagerType, NEW in \in InputType, NEW pre \in ConditionType,
           NEW dt \in Nat, NEW n, n = ManagerUpdate(m, in, pre, dt)
    PROVE  n \in ManagerType
<1>1. /\ m.link \in LinkType /\ m.estop \in EstopType
      /\ m.arm \in ArmType /\ m.gear \in GearType
      /\ m.adjust \in AdjustType /\ m.mode \in ModeType
      /\ m.power \in PowerType /\ m.authority \in AuthorityType
      /\ m.b1 \in B1Type
    BY DEF ManagerType
<1>2. n.link \in LinkType /\ n.estop \in EstopType
    BY <1>1, UpdateParts, LinkUpdateType, EstopUpdateType
<1>3. n.arm \in ArmType
    BY <1>1, UpdateParts, ArmUpdateType
<1>4. n.gear \in GearType
    BY <1>1, UpdateParts, GearUpdateType
<1>5. n.adjust \in AdjustType
    BY <1>1, UpdateParts, AdjustUpdateType
<1>6. n.mode \in ModeType
    BY <1>1, UpdateParts, ModeUpdateType
<1>7. n.power \in PowerType /\ n.authority \in AuthorityType
    BY <1>1, UpdateParts, PowerUpdateType, AuthorityUpdateType
<1>8. n.b1 \in B1Type
    BY <1>1, UpdateParts, B1UpdateType
<1>9. n = [link |-> n.link, estop |-> n.estop, arm |-> n.arm,
              gear |-> n.gear, adjust |-> n.adjust,
              mode |-> n.mode, power |-> n.power,
              authority |-> n.authority, b1 |-> n.b1]
    BY UpdateParts
<1> QED
    BY <1>2, <1>3, <1>4, <1>5, <1>6, <1>7, <1>8, <1>9 DEF ManagerType

(* The fields of the preconditions that the proofs below look at.           *)
LEMMA ShownFields ==
    ASSUME NEW m, NEW n, NEW in, NEW pre
    PROVE  LET d == Shown(m, n, in, pre)
           IN  /\ d.zeroSpeed = pre.zeroSpeed
               /\ d.brakeApplied = pre.brakeApplied
               /\ d.estopLatched = (n.estop.state # "CLEAR")
               /\ d.armReady = (n.arm.state = "READY")
               /\ d.activeGear = n.gear.active
               /\ d.adjustmentActive = (n.adjust.state # "IDLE")
BY DEF Shown, ShownAdjust, ShownGear, Derive

(* One call of the track wheel's debounce and of the adjustment FSM around  *)
(* it: the valves open in the direction that is latched, and a direction is *)
(* latched only when it was pending for the stable time; otherwise the      *)
(* pending time starts again or runs on with the valves closed.             *)
ValvesOpen(n) == n.state \in {"TRACK_PREPARE", "TRACK_ACTIVE"}

LEMMA TrackStep ==
    ASSUME NEW a \in AdjustType, NEW in \in InputType, NEW d, NEW dt \in Nat,
           NEW n, n = AdjustUpdate(a, in, d, dt)
    PROVE  \/ /\ ~ValvesOpen(n)
              /\ n.dir \in {0, a.dir}
              /\ \/ n.pending = 0
                 \/ n.since = 0
                 \/ n.pending = a.pending /\ n.since = Grow(a.since, dt, TrackStable)
           \/ /\ ValvesOpen(n)
              /\ n.dir # 0 /\ n.pending = n.dir
              /\ \/ n.dir = a.dir
                 \/ n.dir = a.pending /\ Grow(a.since, dt, TrackStable) >= TrackStable
<1> DEFINE c == SelectSuspension(a, in)
           raw == RawTrackDirection(c, in)
           held == Grow(c.since, dt, TrackStable)
           b == TrackDebounce(c, in, dt)
           exiting == IF b.exit = Never THEN 0 ELSE Grow(b.exit, dt, TrackExit)
<1>1. /\ c \in AdjustType /\ c.dir = a.dir /\ c.pending = a.pending
      /\ c.since = a.since
    BY DEF SelectSuspension, AdjustType
<1>2. b = IF raw = 0 THEN ClearTrack(c)
          ELSE IF c.dir = raw \/ c.pending # raw
               THEN [c EXCEPT !.pending = raw, !.since = 0]
          ELSE [c EXCEPT !.since = held,
                         !.dir = IF held >= TrackStable THEN raw ELSE @]
    BY DEF TrackDebounce
<1>3. DOMAIN c = {"state", "owner", "target", "exit", "since", "dir", "pending"}
    BY <1>1 DEF AdjustType
<1>4. StableDirection(b, in) # 0 => raw # 0 /\ b.dir = raw
    <2>1. CASE raw = 0
        BY <1>1, <1>2, <2>1 DEF ClearTrack, StableDirection, AdjustType
    <2>2. CASE raw # 0
        <3>1. RawTrackDirection(b, in) = b.dir => b.dir = raw \/ b.dir = 0
            <4>1. b.dir \in {c.dir, raw}
                BY <1>1, <1>2, <2>2 DEF AdjustType
            <4>2. b.dir = c.dir => RawTrackDirection(b, in) = raw
                BY DEF RawTrackDirection
            <4> QED
                BY <4>1, <4>2
        <3> QED
            BY <2>2, <3>1 DEF StableDirection
    <2> QED
        BY <2>1, <2>2
<1>5. n = IF in.home # "CENTER" THEN Own("NONE", "IDLE", ClearTrack(a))
          ELSE IF ~AdjustAllowed(a, in, d) THEN Own("NONE", "ABORTED", ClearTrack(a))
          ELSE IF StableDirection(b, in) # 0
               THEN Own("TRACK", IF a.owner = "TRACK" THEN "TRACK_ACTIVE"
                                                      ELSE "TRACK_PREPARE", b)
          ELSE IF a.owner = "TRACK" /\ b.dir = 0
               THEN IF exiting >= TrackExit THEN Own("NONE", "READY", ClearTrack(b))
                    ELSE [b EXCEPT !.state = "TRACK_EXITING", !.exit = exiting]
          ELSE IF in.gear \in Endpoint
               THEN Own("HYDRAULIC", "HYDRAULIC_ACTIVE", ClearTrack(b))
          ELSE IF in.clearance \in Endpoint
               THEN Own("CLEARANCE", "CLEARANCE_ACTIVE", ClearTrack(b))
          ELSE Own("NONE", "READY", IF b.pending = 0 THEN ClearTrack(b) ELSE b)
    BY DEF AdjustUpdate
<1>6. ASSUME NEW x \in {a, b}, NEW o, NEW s, n = Own(o, s, ClearTrack(x)),
             s \notin {"TRACK_PREPARE", "TRACK_ACTIVE"}
      PROVE  ~ValvesOpen(n) /\ n.dir = 0 /\ n.pending = 0
    <2>1. DOMAIN x = {"state", "owner", "target", "exit", "since", "dir", "pending"}
        BY <1>1, <1>2, <1>3 DEF AdjustType, ClearTrack
    <2> QED
        BY <1>6, <2>1 DEF Own, ClearTrack, ValvesOpen
<1>7. /\ \/ b.dir = a.dir \/ b.dir = 0
         \/ b.dir = raw /\ raw = a.pending /\ held >= TrackStable
      /\ \/ b.pending = 0
         \/ b.since = 0
         \/ b.pending = a.pending /\ b.since = held
      /\ raw # 0 => b.pending = raw
    BY <1>1, <1>2 DEF ClearTrack, AdjustType
<1>8. held = Grow(a.since, dt, TrackStable)
    BY <1>1
<1>9. DOMAIN b = {"state", "owner", "target", "exit", "since", "dir", "pending"}
    BY <1>2, <1>3 DEF ClearTrack
<1>10. StableDirection(b, in) = 0 => b.dir \in {0, a.dir}
    <2> SUFFICES ASSUME StableDirection(b, in) = 0, b.dir # a.dir, b.dir # 0
                 PROVE  FALSE
        OBVIOUS
    <2>1. raw # 0 /\ b.dir = raw /\ c.dir # raw
        BY <1>1, <1>2 DEF ClearTrack, AdjustType
    <2>2. RawTrackDirection(b, in) = raw
        BY <2>1, <1>1 DEF RawTrackDirection, AdjustType
    <2> QED
        BY <2>1, <2>2 DEF StableDirection
<1> HIDE DEF c, raw, held, b, exiting
<1>11. CASE in.home # "CENTER"
    BY <1>5, <1>6, <1>11
<1>12. CASE in.home = "CENTER" /\ ~AdjustAllowed(a, in, d)
    BY <1>5, <1>6, <1>12
<1> DEFINE runs == in.home = "CENTER" /\ AdjustAllowed(a, in, d)
<1>13. CASE runs /\ StableDirection(b, in) # 0
    <2>1. n = Own("TRACK", IF a.owner = "TRACK" THEN "TRACK_ACTIVE"
                                                ELSE "TRACK_PREPARE", b)
        BY <1>5, <1>13
    <2>2. ValvesOpen(n) /\ n.dir = b.dir /\ n.pending = b.pending
        BY <2>1, <1>9 DEF Own, ValvesOpen
    <2> QED
        BY <2>2, <1>4, <1>7, <1>8, <1>13
<1> DEFINE closed == runs /\ StableDirection(b, in) = 0
<1>14. CASE closed /\ a.owner = "TRACK" /\ b.dir = 0
    <2>1. CASE exiting >= TrackExit
        BY <2>1, <1>5, <1>6, <1>14
    <2>2. CASE ~(exiting >= TrackExit)
        <3>1. n = [b EXCEPT !.state = "TRACK_EXITING", !.exit = exiting]
            BY <2>2, <1>5, <1>14
        <3> QED
            BY <3>1, <1>7, <1>8, <1>9, <1>14 DEF ValvesOpen
    <2> QED
        BY <2>1, <2>2
<1>15. CASE closed /\ ~(a.owner = "TRACK" /\ b.dir = 0)
    <2>1. CASE in.gear \in Endpoint \/ in.clearance \in Endpoint
        BY <2>1, <1>5, <1>6, <1>15
    <2>2. CASE in.gear \notin Endpoint /\ in.clearance \notin Endpoint
        <3>1. n = Own("NONE", "READY", IF b.pending = 0 THEN ClearTrack(b) ELSE b)
            BY <2>2, <1>5, <1>15
        <3>2. CASE b.pending = 0
            BY <3>1, <3>2, <1>6
        <3>3. CASE b.pending # 0
            <4>1. n = Own("NONE", "READY", b)
                BY <3>1, <3>3
            <4>2. /\ ~ValvesOpen(n) /\ n.dir = b.dir
                  /\ n.pending = b.pending /\ n.since = b.since
                BY <4>1, <1>9 DEF Own, ValvesOpen
            <4> QED
                BY <4>2, <1>7, <1>8, <1>10, <1>15
        <3> QED
            BY <3>2, <3>3
    <2> QED
        BY <2>1, <2>2
<1> QED
    BY <1>11, <1>12, <1>13, <1>14, <1>15
=============================================================================
