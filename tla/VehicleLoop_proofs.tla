------------------------- MODULE VehicleLoop_proofs -------------------------
(***************************************************************************)
(* Proofs about VehicleLoop, for every set of samples, every value of the   *)
(* durations that holds CH13 for a round, and every image.                  *)
(*                                                                         *)
(* The inductive invariant IInv follows a stop through the loop.  A stop    *)
(* takes the high voltage request away; the BMS obeys within two rounds of  *)
(* the 10 ms tasks, and Rank counts how far the remote task has come on the *)
(* way back to authority: by the time it grants authority the contactors    *)
(* have opened and the drives have forgotten their velocity.  From then on  *)
(* the wheels only follow the gear that was engaged at a standstill.        *)
(* TrackCommand and ValvesFollow follow a track valve from the operator's   *)
(* wheel to the wheel current it lets through.                             *)
(***************************************************************************)
EXTENDS VehicleLoop, RemoteFsms_proofs

(* Authority, and authority with high voltage asked for.                    *)
ReadyOf(m)   == m.arm.state = "READY"
PoweredOf(m) == ReadyOf(m) /\ m.power.hv

(* The direction in which the manager would drive: SpeedCommand at full     *)
(* throttle.                                                               *)
WantOf(m) ==
    LET forward == IF m.gear.active = "P" THEN 0
                   ELSE IF m.gear.active = "R" THEN -1 ELSE 1
    IN  IF m.mode.motion = "REVERSE_ACKERMANN" THEN -forward ELSE forward

(* The steps of the way back to authority, and -1 with authority.           *)
RankOf(m) ==
    IF ReadyOf(m) THEN -1
    ELSE CASE m.estop.state = "CLEAR"             -> 4
           [] m.estop.state = "CLEAR_WAIT_NORMAL" -> 3
           [] m.estop.state = "RESET_REQUESTED"   -> 2
           [] OTHER -> IF m.estop.hold = Never THEN 0
                       ELSE IF m.estop.hold = 0 THEN 1 ELSE 2

-----------------------------------------------------------------------------
CommandType ==
    [source : {"NONE", "SAFETY", "REMOTE"}, gear : {"P", "D", "R"},
     drive : -1..1, brakeRelease : BOOLEAN, hv : BOOLEAN, hvReady : BOOLEAN,
     disable : BOOLEAN, calibrate : BOOLEAN,
     lift : {"SAFE_STOP", "EXTEND", "RETRACT", "NEUTRAL_STOP"},
     valves : SUBSET (1..6), hydraulic : BOOLEAN, posture : BOOLEAN,
     assist : -1..1]

SafetyType ==
    [aClassFault : {FALSE}, estopLatched : BOOLEAN, sbusFailsafe : BOOLEAN,
     controlledStop : BOOLEAN, shutdown : BOOLEAN]

TypeInv ==
    /\ turn \in {"safety", "can2", "remote", "vehicle", "slow"}
    /\ late \in BOOLEAN
    /\ mgr \in ManagerType /\ safety \in SafetyType /\ cmd \in CommandType
    /\ relay \in BOOLEAN /\ zeroSpeed \in BOOLEAN /\ hydraulicStopped \in BOOLEAN
    /\ requested \in BOOLEAN /\ bms \in BOOLEAN /\ contactor \in BOOLEAN
    /\ valves \in SUBSET (1..6)
    /\ target \in -1..1 /\ current \in -1..1 /\ speed \in -1..1
    /\ turn = "slow" => ~late

(* What the FSMs guarantee about one another after every call.              *)
ManagerOK(m) ==
    /\ ReadyOf(m) => m.link.state = "ONLINE" /\ m.estop.state = "CLEAR"
    /\ ~m.authority.allowed /\ m.authority.state # "AUTO_ACTIVE"
    /\ m.power.shutdown \/ m.power.disable =>
         ~m.power.hv /\ m.power.position = "LOW"
    /\ m.adjust.state # "IDLE" => m.gear.active = "P"
    /\ ValvesOpen(m.adjust) => m.adjust.dir # 0 /\ m.adjust.pending = m.adjust.dir

(* A command opens the track valve its assist current pushes for, which is  *)
(* the one of the direction the operator holds.                            *)
TrackCommand(c, m) ==
    /\ c.assist # 0 => c.valves = TrackSide(c.assist)
    /\ c.valves \cap TrackMask # {} =>
         ValvesOpen(m.adjust) /\ c.valves = TrackSide(m.adjust.dir)

RequestMatches ==
    \/ request = NoRequest /\ mgr = ManagerInit /\ turn \notin {"vehicle", "slow"}
    \/ \E in \in Inputs : request = RequestOf(mgr, in)

(* How old the safety snapshot can be when it is read.                      *)
SafetyFresh ==
    /\ turn \in {"can2", "remote"} =>
         /\ ReadyOf(mgr) => ~Stopped(safety)
         /\ safety.shutdown => mgr.power.shutdown
    /\ turn = "vehicle" =>
         /\ ReadyOf(mgr) /\ Stopped(safety) => ~contactor
         /\ safety.shutdown => ~mgr.power.hv

(* The command of the round follows the manager.                           *)
CommandMatches ==
    /\ turn # "vehicle" =>
         /\ ~ReadyOf(mgr) => Inert(cmd) /\ ~cmd.hv /\ ~cmd.disable
         /\ cmd.hv => PoweredOf(mgr)
         /\ PoweredOf(mgr) /\ ~cmd.hv => ~contactor
         /\ cmd.drive # 0 => cmd.drive = WantOf(mgr) /\ mgr.gear.active # "P"
         /\ cmd.valves # {} => ReadyOf(mgr) /\ mgr.adjust.state # "IDLE"
         /\ ReadyOf(mgr) /\ ~mgr.power.hv /\ contactor => ~relay
    /\ cmd.disable => ~cmd.hv
    /\ cmd.hv => relay
    /\ SteerOnly => cmd.drive = 0
    /\ cmd.hydraulic <=> cmd.valves # {}
    /\ turn = "slow" => cmd.hvReady = bms

(* Within the round: the rank before the remote task, and whether the 10 ms *)
(* tasks have run since it was reached.                                     *)
Reached == RankOf(mgr) - (IF turn \in {"vehicle", "slow"} THEN 1 ELSE 0)
SlowRan == ~late /\ turn # "slow"

(* The stop reaches the BMS with the first run of the 10 ms tasks, and the  *)
(* contactors have opened after the second.                                *)
Quench ==
    /\ Reached >= 1 \/ (Reached = 0 /\ SlowRan) => ~requested
    /\ Reached >= 3 \/ (Reached = 2 /\ SlowRan) => ~contactor

(* Without power the drives forget their velocity and the brakes hold.      *)
Rest ==
    /\ ~contactor => (target = 0 /\ speed = 0)
                       \/ (turn \in {"safety", "can2"} /\ ~late)
    /\ SteerOnly => target = 0 /\ speed = 0
    /\ turn = "remote" /\ zeroSpeed => speed = 0

(* The contactors were opened and the report of it is still under way: no   *)
(* velocity is sent before the next report.                                *)
Reconnect ==
    bms /\ ~contactor =>
      /\ turn \notin {"vehicle", "slow"} /\ ~late => ~cmd.hv /\ ~PoweredOf(mgr)
      /\ (turn = "vehicle" /\ ~late) \/ (turn \notin {"vehicle", "slow"} /\ late) =>
           (PoweredOf(mgr) => mgr.gear.active = "P")
      /\ turn = "vehicle" /\ late =>
           (PoweredOf(mgr) => mgr.gear.active = "P" \/ request.throttle = 0)
      /\ turn = "slow" => (cmd.hv => cmd.drive = 0)

(* Power that has not been reported yet meets drives without a velocity.    *)
Unreported ==
    contactor /\ (~bms \/ ~cmd.hvReady) =>
      target = 0 /\ (cmd.hvReady => DriveVelocity(cmd) = 0)

(* A vehicle in gear stands or rolls the way the gear and the mode say.     *)
RollsForward ==
    PoweredOf(mgr) /\ mgr.gear.active # "P" => speed \in {0, WantOf(mgr)}

(* Open valves: in the round they open and in the next one.                 *)
ValvesParked ==
    /\ valves # {} =>
         /\ turn \notin {"vehicle", "slow"} /\ ~late => cmd.valves # {}
         /\ turn = "vehicle" /\ ~late => mgr.gear.active = "P"
         /\ turn \notin {"vehicle", "slow"} /\ late => cmd.drive = 0
         /\ /\ mgr.power.hv
            /\ \/ turn = "remote"
               \/ ~ReadyOf(mgr) /\ turn = "vehicle" /\ ~late
               \/ ~ReadyOf(mgr) /\ turn \notin {"vehicle", "slow"} /\ late
            => Torque = 0
    /\ hydraulicStopped => valves = {}

(* No track valve is open against the command: in the round in which CAN3   *)
(* ran, in the next one, where the debounce has closed before it reverses,  *)
(* and never longer.                                                       *)
ValvesFollow ==
    /\ turn # "vehicle" => TrackCommand(cmd, mgr)
    /\ turn \notin {"vehicle", "slow"} /\ ~late => valves \subseteq cmd.valves
    /\ turn = "vehicle" /\ ~late /\ ValvesOpen(mgr.adjust) =>
         valves \cap TrackSide(-mgr.adjust.dir) = {}
    /\ turn \notin {"vehicle", "slow"} /\ late =>
         valves \cap TrackSide(-cmd.assist) = {}

(* The battery key is about to be released at a standstill.                 *)
KeyRelease ==
    /\ turn = "vehicle" /\ relay /\ ReadyOf(mgr) /\ mgr.power.disable =>
         speed = 0 /\ valves = {}
    /\ turn = "vehicle" /\ relay /\ ReadyOf(mgr) /\ ~mgr.power.hv /\ contactor =>
         mgr.power.disable

IInv ==
    /\ TypeInv /\ ManagerOK(mgr) /\ RequestMatches /\ SafetyFresh
    /\ CommandMatches /\ Quench /\ Rest /\ Reconnect /\ Unreported
    /\ RollsForward /\ NoReversalTorque /\ ValvesParked /\ KeyRelease
    /\ ValvesFollow /\ AssistFollowsValve

-----------------------------------------------------------------------------
(* remote_estop_fsm_update: the way back from a stop takes all its steps.   *)
LEMMA EstopStep ==
    ASSUME NEW e \in EstopType, NEW in \in InputType, NEW pre,
           NEW f, f = EstopUpdate(e, in, pre, 1)
    PROVE  /\ f.state = "CLEAR" => e.state \in {"CLEAR", "CLEAR_WAIT_NORMAL"}
           /\ f.state = "CLEAR_WAIT_NORMAL" => e.state = "RESET_REQUESTED"
           /\ f.state = "RESET_REQUESTED" => e.state = "LATCHED" /\ e.hold # Never
           /\ f.state = "LATCHED" /\ f.hold # Never =>
                e.state # "CLEAR" /\ (f.hold # 0 => e.hold # Never)
           /\ e.state = "CLEAR" => f.state \in {"CLEAR", "LATCHED"}
           /\ SbusFlags(in) # {} => f.state = "LATCHED"
<1>1. CenterHold >= 1 /\ CenterHold \in Nat
    BY HoldAssumption, DurationsAssumption
<1> DEFINE hold == CenterHeld(e, in, 1)
           Latch(source) == [state |-> "LATCHED", source |-> source, hold |-> Never]
<1>2. /\ hold # Never /\ hold # 0 => e.hold # Never
      /\ hold # Never /\ hold >= CenterHold => e.hold # Never
    BY <1>1 DEF CenterHeld
<1>3. f = IF in.ch13 \in Endpoint THEN Latch("CH13")
          ELSE IF SbusFlags(in) # {} THEN Latch(EstopSource(SbusFlags(in)))
          ELSE IF e.state = "CLEAR" THEN [e EXCEPT !.hold = Never]
          ELSE IF ~ResetAllowed(hold, pre)
               THEN [e EXCEPT !.state = "LATCHED", !.hold = hold]
          ELSE IF e.state = "CLEAR_WAIT_NORMAL" THEN EstopInit
          ELSE [e EXCEPT !.state = ResetStep[e.state], !.hold = hold]
    BY DEF EstopUpdate
<1>4. ResetAllowed(hold, pre) => hold # Never /\ hold >= CenterHold
    BY DEF ResetAllowed
<1>5. e.state \in {"CLEAR", "LATCHED", "RESET_REQUESTED", "CLEAR_WAIT_NORMAL"}
    BY DEF EstopType
<1>6. /\ ResetStep["LATCHED"] = "RESET_REQUESTED"
      /\ ResetStep["RESET_REQUESTED"] = "CLEAR_WAIT_NORMAL"
    BY DEF ResetStep
<1> HIDE DEF hold
<1>7. CASE in.ch13 \in Endpoint \/ SbusFlags(in) # {}
    <2>1. f.state = "LATCHED" /\ f.hold = Never
        BY <1>3, <1>7
    <2> QED
        BY <2>1
<1>8. CASE ~(in.ch13 \in Endpoint \/ SbusFlags(in) # {}) /\ e.state = "CLEAR"
    <2>1. f = [e EXCEPT !.hold = Never]
        BY <1>3, <1>8
    <2>2. f.state = "CLEAR"
        BY <2>1, <1>8 DEF EstopType
    <2> QED
        BY <2>2, <1>8
<1>9. CASE ~(in.ch13 \in Endpoint \/ SbusFlags(in) # {}) /\ e.state # "CLEAR"
    <2>1. CASE ~ResetAllowed(hold, pre)
        <3>1. f = [e EXCEPT !.state = "LATCHED", !.hold = hold]
            BY <2>1, <1>3, <1>9
        <3>2. f.state = "LATCHED" /\ f.hold = hold
            BY <3>1 DEF EstopType
        <3> QED
            BY <3>2, <1>2, <1>9
    <2>2. CASE ResetAllowed(hold, pre) /\ e.state = "CLEAR_WAIT_NORMAL"
        <3>1. f.state = "CLEAR"
            BY <2>2, <1>3, <1>9 DEF EstopInit
        <3> QED
            BY <3>1, <2>2, <1>9
    <2>3. CASE ResetAllowed(hold, pre) /\ e.state # "CLEAR_WAIT_NORMAL"
        <3>1. f = [e EXCEPT !.state = ResetStep[e.state], !.hold = hold]
            BY <2>3, <1>3, <1>9
        <3>2. f.state = ResetStep[e.state] /\ f.hold = hold
            BY <3>1 DEF EstopType
        <3> QED
            BY <3>2, <2>3, <1>2, <1>4, <1>5, <1>6, <1>9
    <2> QED
        BY <2>1, <2>2, <2>3
<1> QED
    BY <1>7, <1>8, <1>9

(* remote_arm_fsm_update: authority is given in P and taken only by a stop  *)
(* or a lost link.                                                         *)
LEMMA ArmStep ==
    ASSUME NEW a \in ArmType, NEW in, NEW d, NEW b, b = ArmUpdate(a, in, d, 1)
    PROVE  /\ b.state = "READY" => ArmAllowed(d)
           /\ b.state = "READY" /\ a.state # "READY" => NeutralEntry(in)
           /\ a.state = "READY" /\ ArmAllowed(d) => b.state = "READY"
BY DEF ArmUpdate, ArmInit

(* remote_link_fsm_update: only a good sample keeps the link online.        *)
LEMMA LinkStep ==
    ASSUME NEW l \in LinkType, NEW in, NEW k, k = LinkUpdate(l, in, 1)
    PROVE  /\ l.state = "ONLINE" /\ SbusFlags(in) = {} => k.state = "ONLINE"
           /\ k.state = "ONLINE" => SbusFlags(in) = {}
BY DEF LinkUpdate

(* remote_gear_fsm_update: another drive gear is engaged at a standstill    *)
(* and a low throttle only.                                                *)
LEMMA GearStep ==
    ASSUME NEW g \in GearType, NEW in \in InputType, NEW d, NEW h,
           h = GearUpdate(g, in, d)
    PROVE  /\ d.adjustmentActive => h.active = "P"
           /\ in.gear = "CENTER" => h.active = "P"
           /\ h.active \notin {"P", g.active} => d.zeroSpeed /\ d.throttleLow
<1>1. GearFromPosition(in.gear) \in {"P", "D", "R"}
      /\ (in.gear = "CENTER" => GearFromPosition(in.gear) = "P")
    BY DEF GearFromPosition
<1> QED
    BY <1>1 DEF GearUpdate, ShiftRejected, GearType

(* remote_mode_fsm_update: the mode changes in P only.                      *)
LEMMA ModeStep ==
    ASSUME NEW md \in ModeType, NEW in, NEW d, NEW n, n = ModeUpdate(md, in, d, 1)
    PROVE  n.motion # md.motion => d.activeGear = "P"
<1> DEFINE m == [md EXCEPT !.rejected = FALSE, !.age = Grow(@, 1, DomainGuard)]
           asked == DomainFromHome(in.home)
<1>1. m.motion = md.motion
      /\ DOMAIN m = {"reqDomain", "domain", "motion", "age", "pending", "rejected"}
    BY DEF ModeType
<1>2. n = IF in.home = "INVALID" THEN [m EXCEPT !.rejected = TRUE]
          ELSE IF asked # m.reqDomain
               THEN [m EXCEPT !.reqDomain = asked, !.age = 0, !.pending = TRUE]
          ELSE IF m.age < DomainGuard THEN m
          ELSE IF ~in.r1Changed /\ ~in.r2Changed /\ ~m.pending THEN m
          ELSE IF ~ModeAllowed(d) THEN [m EXCEPT !.rejected = TRUE]
          ELSE [m EXCEPT !.domain = asked, !.motion = SelectedMode(asked, in),
                         !.pending = FALSE]
    BY DEF ModeUpdate
<1> HIDE DEF m, asked
<1>3. CASE ModeAllowed(d)
    BY <1>3 DEF ModeAllowed
<1>4. CASE ~ModeAllowed(d)
    <2>1. n.motion = m.motion
        BY <1>1, <1>2, <1>4
    <2> QED
        BY <2>1, <1>1
<1> QED
    BY <1>3, <1>4

(* remote_power_fsm_update: high voltage is asked for with authority in P,  *)
(* and given up with a long press at a standstill only.                     *)
LEMMA PowerStep ==
    ASSUME NEW p \in PowerType, NEW in \in InputType, NEW d, NEW q,
           q = PowerUpdate(p, in, d, 1)
    PROVE  /\ q.hv /\ ~p.hv => PowerOnAllowed(d) /\ p.position = "HIGH"
           /\ p.hv /\ ~q.hv => q.disable
           /\ q.disable \/ q.shutdown =>
                ~q.hv /\ q.position = "LOW" /\ PowerDownAllowed(d)
<1> DEFINE r == [p EXCEPT !.rejected = FALSE, !.disable = FALSE, !.shutdown = FALSE,
                          !.age = Grow(@, 1, LongPress)]
<1>1. /\ r.hv = p.hv /\ r.position = p.position /\ r.disable = FALSE
      /\ r.shutdown = FALSE
      /\ DOMAIN r = {"state", "position", "age", "hv", "disable", "shutdown",
                     "rejected"}
    BY DEF PowerType
<1> HIDE DEF r
<1>2. q = IF d.estopLatched \/ d.aClassFault
               THEN [r EXCEPT !.state = "SHUTDOWN_PROTECT"]
          ELSE IF in.power \notin Endpoint
               THEN [r EXCEPT !.position = in.power, !.age = 0,
                              !.state = IF r.hv THEN "ON" ELSE "OFF"]
          ELSE IF in.power # r.position
               THEN [r EXCEPT !.position = in.power, !.age = 0]
          ELSE IF r.age < LongPress
               THEN [r EXCEPT !.state = IF in.power = "HIGH" THEN "ON_REQUESTED"
                                                            ELSE "DOWN_REQUESTED"]
          ELSE IF in.power = "HIGH"
               THEN IF r.hv \/ PowerOnAllowed(d)
                    THEN [r EXCEPT !.state = "ON", !.hv = TRUE]
                    ELSE [r EXCEPT !.state = "REJECTED", !.rejected = TRUE]
          ELSE IF PowerDownAllowed(d)
               THEN [r EXCEPT !.state = "OFF", !.hv = FALSE, !.disable = TRUE,
                              !.shutdown = TRUE]
          ELSE [r EXCEPT !.state = "REJECTED", !.rejected = TRUE]
    BY DEF PowerUpdate, r
<1> DEFINE on == in.power = "HIGH" /\ in.power = r.position
                   /\ (r.hv \/ PowerOnAllowed(d))
           off == in.power = "LOW" /\ in.power = r.position /\ PowerDownAllowed(d)
<1>3. CASE q = [r EXCEPT !.state = "ON", !.hv = TRUE] /\ on
    <2>1. q.hv = TRUE /\ q.disable = FALSE /\ q.shutdown = FALSE
        BY <1>1, <1>3
    <2> QED
        BY <2>1, <1>1, <1>3
<1>4. CASE q = [r EXCEPT !.state = "OFF", !.hv = FALSE, !.disable = TRUE,
                         !.shutdown = TRUE] /\ off
    <2>1. q.hv = FALSE /\ q.disable = TRUE /\ q.position = "LOW"
        BY <1>1, <1>4
    <2> QED
        BY <2>1, <1>4
<1>5. CASE q.hv = r.hv /\ q.disable = FALSE /\ q.shutdown = FALSE
    BY <1>1, <1>5
<1>6. in.power \in Endpoint => in.power = "HIGH" \/ in.power = "LOW"
    BY DEF Endpoint
<1> HIDE DEF on, off
<1>7. \/ q = [r EXCEPT !.state = "ON", !.hv = TRUE] /\ on
      \/ q = [r EXCEPT !.state = "OFF", !.hv = FALSE, !.disable = TRUE,
                       !.shutdown = TRUE] /\ off
      \/ q.hv = r.hv /\ q.disable = FALSE /\ q.shutdown = FALSE
    BY <1>1, <1>2, <1>6 DEF on, off
<1> QED
    BY <1>3, <1>4, <1>5, <1>7

(* remote_authority_fsm_update: without an automatic request nobody but the *)
(* operator ever has authority.                                            *)
LEMMA AuthorityStep ==
    ASSUME NEW au, NEW in, NEW d, ~d.autoRequestValid, au.state # "AUTO_ACTIVE",
           NEW n, n = AuthorityUpdate(au, in, d)
    PROVE  n.state # "AUTO_ACTIVE" /\ ~n.allowed
BY DEF AuthorityUpdate, AutoAllowed

-----------------------------------------------------------------------------
(* The manager drives forwards, backwards or not at all.                    *)
LEMMA WantType == ASSUME NEW m PROVE WantOf(m) \in -1..1
<1> DEFINE forward == IF m.gear.active = "P" THEN 0
                      ELSE IF m.gear.active = "R" THEN -1 ELSE 1
<1>1. WantOf(m) = IF m.mode.motion = "REVERSE_ACKERMANN" THEN -forward ELSE forward
    BY DEF WantOf
<1>2. forward \in {-1, 0, 1}
    OBVIOUS
<1> HIDE DEF forward
<1> QED
    BY <1>1, <1>2

(* The way back to authority has a number.                                  *)
LEMMA RankType == ASSUME NEW m PROVE RankOf(m) \in Int
BY DEF RankOf

(* One call of remote_manager_update, as the rest of the loop sees it.      *)
LEMMA ManagerStep ==
    ASSUME NEW m \in ManagerType, NEW in \in InputType, NEW pre \in ConditionType,
           ~pre.aClassFault, ~pre.autoRequestValid, ManagerOK(m),
           NEW n, n = ManagerUpdate(m, in, pre, 1)
    PROVE  /\ n \in ManagerType /\ ManagerOK(n)
           /\ ReadyOf(m) /\ ~ReadyOf(n) => RankOf(n) = 0
           /\ ~ReadyOf(m) => RankOf(n) <= RankOf(m) + 1
           /\ ReadyOf(n) /\ ~ReadyOf(m) => RankOf(m) >= 3 /\ n.gear.active = "P"
           /\ n.power.hv /\ ~m.power.hv => ReadyOf(n) /\ n.gear.active = "P"
           /\ m.power.hv /\ ~n.power.hv => n.power.disable
           /\ n.power.disable => pre.zeroSpeed /\ pre.hydraulicStopped
           /\ m.power.shutdown => ~n.power.hv
           /\ n.gear.active # "P" => n.mode.motion = m.mode.motion
           /\ n.gear.active \notin {"P", m.gear.active} =>
                pre.zeroSpeed /\ in.throttle = "LOW"
           /\ m.adjust.state # "IDLE" => n.gear.active = "P"
           /\ ValvesOpen(m.adjust) /\ ValvesOpen(n.adjust) =>
                n.adjust.dir = m.adjust.dir
<1> DEFINE d0 == Derive(in, pre, n.link, n.estop)
           dg == ShownGear(m, n, in, pre)
           da == ShownAdjust(m, n, in, pre)
           d  == Shown(m, n, in, pre)
<1>1. /\ n.link = LinkUpdate(m.link, in, 1)
      /\ n.estop = EstopUpdate(m.estop, in, pre, 1)
      /\ n.arm = ArmUpdate(m.arm, in, d0, 1)
      /\ n.gear = GearUpdate(m.gear, in, dg)
      /\ n.adjust = AdjustUpdate(m.adjust, in, da, 1)
      /\ n.mode = ModeUpdate(m.mode, in, d, 1)
      /\ n.power = PowerUpdate(m.power, in, d, 1)
      /\ n.authority = AuthorityUpdate(m.authority, in, d)
    BY UpdateParts
<1>2. /\ m.link \in LinkType /\ m.estop \in EstopType /\ m.arm \in ArmType
      /\ m.gear \in GearType /\ m.adjust \in AdjustType /\ m.mode \in ModeType
      /\ m.power \in PowerType
    BY DEF ManagerType
<1>3. n \in ManagerType
    BY ManagerUpdateType
<1>4. /\ d0.linkOnline = (n.link.state = "ONLINE")
      /\ d0.estopLatched = (n.estop.state # "CLEAR")
      /\ d0.aClassFault = pre.aClassFault
    BY DEF Derive
<1>5. /\ dg.zeroSpeed = pre.zeroSpeed /\ dg.throttleLow = (in.throttle = "LOW")
      /\ dg.adjustmentActive = AdjustmentWanted(m, in)
      /\ da.activeGear = n.gear.active
    BY DEF ShownGear, ShownAdjust, Derive
<1>6. /\ d.zeroSpeed = pre.zeroSpeed /\ d.hydraulicStopped = pre.hydraulicStopped
      /\ d.autoRequestValid = pre.autoRequestValid
      /\ d.armReady = (n.arm.state = "READY") /\ d.activeGear = n.gear.active
    BY DEF Shown, ShownAdjust, ShownGear, Derive
<1> HIDE DEF d0, dg, da, d
<1>7. /\ n.arm.state = "READY" => n.link.state = "ONLINE" /\ n.estop.state = "CLEAR"
      /\ n.arm.state = "READY" /\ m.arm.state # "READY" => in.gear = "CENTER"
      /\ m.arm.state = "READY" /\ n.link.state = "ONLINE" /\ n.estop.state = "CLEAR"
           => n.arm.state = "READY"
    <2>1. ArmAllowed(d0) <=> n.link.state = "ONLINE" /\ n.estop.state = "CLEAR"
        BY <1>4, Zenon DEF ArmAllowed
    <2>2. /\ n.arm.state = "READY" => ArmAllowed(d0)
          /\ n.arm.state = "READY" /\ m.arm.state # "READY" => NeutralEntry(in)
          /\ m.arm.state = "READY" /\ ArmAllowed(d0) => n.arm.state = "READY"
        BY <1>1, <1>2, ArmStep
    <2> QED
        BY <2>1, <2>2 DEF NeutralEntry
<1>8. /\ n.estop.state = "CLEAR" => m.estop.state \in {"CLEAR", "CLEAR_WAIT_NORMAL"}
      /\ n.estop.state = "CLEAR_WAIT_NORMAL" => m.estop.state = "RESET_REQUESTED"
      /\ n.estop.state = "RESET_REQUESTED" =>
           m.estop.state = "LATCHED" /\ m.estop.hold # Never
      /\ n.estop.state = "LATCHED" /\ n.estop.hold # Never =>
           m.estop.state # "CLEAR" /\ (n.estop.hold # 0 => m.estop.hold # Never)
      /\ m.estop.state = "CLEAR" => n.estop.state \in {"CLEAR", "LATCHED"}
      /\ SbusFlags(in) # {} => n.estop.state = "LATCHED"
    BY <1>1, <1>2, EstopStep
<1>9. m.link.state = "ONLINE" /\ SbusFlags(in) = {} => n.link.state = "ONLINE"
    BY <1>1, <1>2, LinkStep
<1>10. /\ AdjustmentWanted(m, in) => n.gear.active = "P"
       /\ in.gear = "CENTER" => n.gear.active = "P"
       /\ n.gear.active \notin {"P", m.gear.active} =>
            pre.zeroSpeed /\ in.throttle = "LOW"
    BY <1>1, <1>2, <1>5, GearStep
<1>11. n.gear.active # "P" => n.mode.motion = m.mode.motion
    BY <1>1, <1>2, <1>6, ModeStep
<1>12. /\ n.power.hv /\ ~m.power.hv =>
            n.arm.state = "READY" /\ n.gear.active = "P" /\ m.power.position = "HIGH"
       /\ m.power.hv /\ ~n.power.hv => n.power.disable
       /\ n.power.disable \/ n.power.shutdown =>
            /\ ~n.power.hv /\ n.power.position = "LOW"
            /\ pre.zeroSpeed /\ pre.hydraulicStopped
    <2>1. /\ PowerOnAllowed(d) => n.arm.state = "READY" /\ n.gear.active = "P"
          /\ PowerDownAllowed(d) => pre.zeroSpeed /\ pre.hydraulicStopped
        BY <1>6 DEF PowerOnAllowed, PowerDownAllowed
    <2>2. /\ n.power.hv /\ ~m.power.hv =>
               PowerOnAllowed(d) /\ m.power.position = "HIGH"
          /\ m.power.hv /\ ~n.power.hv => n.power.disable
          /\ n.power.disable \/ n.power.shutdown =>
               ~n.power.hv /\ n.power.position = "LOW" /\ PowerDownAllowed(d)
        BY <1>1, <1>2, PowerStep
    <2> QED
        BY <2>1, <2>2
<1>13. m.power.shutdown => ~n.power.hv
    BY <1>12 DEF ManagerOK
<1>14. n.authority.state # "AUTO_ACTIVE" /\ ~n.authority.allowed
    BY <1>1, <1>6, AuthorityStep DEF ManagerOK
<1>15. n.adjust.state # "IDLE" => n.gear.active = "P"
    <2>1. CASE in.home = "CENTER"
        BY <2>1, <1>10 DEF AdjustmentWanted
    <2>2. CASE in.home # "CENTER"
        <3>1. n.adjust = Own("NONE", "IDLE", ClearTrack(m.adjust))
            BY <2>2, <1>1 DEF AdjustUpdate
        <3> QED
            BY <3>1, <1>2 DEF Own, ClearTrack, AdjustType
    <2> QED
        BY <2>1, <2>2
<1>20. /\ ValvesOpen(n.adjust) => n.adjust.dir # 0 /\ n.adjust.pending = n.adjust.dir
       /\ ValvesOpen(m.adjust) /\ ValvesOpen(n.adjust) => n.adjust.dir = m.adjust.dir
    <2>1. ValvesOpen(n.adjust) =>
            /\ n.adjust.dir # 0 /\ n.adjust.pending = n.adjust.dir
            /\ n.adjust.dir \in {m.adjust.dir, m.adjust.pending}
        BY <1>1, <1>2, TrackStep
    <2> QED
        BY <2>1 DEF ManagerOK
<1>16. ManagerOK(n)
    BY <1>7, <1>12, <1>14, <1>15, <1>20 DEF ManagerOK, ReadyOf
<1>17. ReadyOf(m) /\ ~ReadyOf(n) => RankOf(n) = 0
    <2> SUFFICES ASSUME ReadyOf(m), ~ReadyOf(n)
                 PROVE  RankOf(n) = 0
        OBVIOUS
    <2>1. m.link.state = "ONLINE" /\ m.estop.state = "CLEAR"
        BY DEF ManagerOK
    <2>2. n.estop.state # "CLEAR"
        BY <2>1, <1>7, <1>8, <1>9 DEF ReadyOf
    <2>3. n.estop.state = "LATCHED" /\ n.estop.hold = Never
        BY <2>1, <2>2, <1>8
    <2> QED
        BY <2>3 DEF RankOf
<1>18. ~ReadyOf(m) => RankOf(n) <= RankOf(m) + 1
    <2>1. /\ m.estop.state \in {"CLEAR", "LATCHED", "RESET_REQUESTED",
                                "CLEAR_WAIT_NORMAL"}
          /\ n.estop.state \in {"CLEAR", "LATCHED", "RESET_REQUESTED",
                                "CLEAR_WAIT_NORMAL"}
        BY <1>2, <1>3 DEF ManagerType, EstopType
    <2> QED
        BY <2>1, <1>8 DEF RankOf
<1>19. ReadyOf(n) /\ ~ReadyOf(m) => RankOf(m) >= 3 /\ n.gear.active = "P"
    BY <1>7, <1>8, <1>10 DEF RankOf, ReadyOf
<1> QED
    BY <1>3, <1>10, <1>11, <1>12, <1>13, <1>16, <1>17, <1>18, <1>19, <1>20
    DEF ReadyOf, AdjustmentWanted

-----------------------------------------------------------------------------
(* What is left of a command after a shutdown request.                      *)
LEMMA ClearedCommand ==
    ASSUME NEW c \in CommandType, NEW b,
           b = [c EXCEPT !.source = "SAFETY", !.drive = 0, !.assist = 0,
                         !.lift = "SAFE_STOP", !.hydraulic = FALSE,
                         !.hv = FALSE, !.valves = {}, !.posture = FALSE]
    PROVE  /\ b \in CommandType /\ ~b.hv /\ (b.disable <=> c.disable)
           /\ b.drive = 0 /\ b.assist = 0 /\ b.valves = {} /\ ~b.hydraulic
           /\ b.lift = "SAFE_STOP"
<1>1. /\ "SAFETY" \in {"NONE", "SAFETY", "REMOTE"} /\ {} \in SUBSET (1..6)
      /\ 0 \in -1..1
      /\ "SAFE_STOP" \in {"SAFE_STOP", "EXTEND", "RETRACT", "NEUTRAL_STOP"}
    OBVIOUS
<1>2. b \in CommandType
    BY <1>1, Zenon DEF CommandType
<1>3. ~b.hv /\ (b.disable <=> c.disable)
    BY DEF CommandType
<1>4. /\ b.drive = 0 /\ b.assist = 0 /\ b.valves = {} /\ ~b.hydraulic
      /\ b.lift = "SAFE_STOP"
    BY DEF CommandType
<1> QED
    BY <1>2, <1>3, <1>4

(* What the arbiter and the safety manager make of a request.               *)
LEMMA CommandStep ==
    ASSUME NEW m \in ManagerType, NEW in \in InputType, ManagerOK(m),
           NEW s \in SafetyType, NEW c, c = FinalCommand(RequestOf(m, in), s)
    PROVE  /\ c \in CommandType
           /\ ~ReadyOf(m) \/ Stopped(s) => Inert(c) /\ ~c.hv /\ ~c.disable
           /\ ReadyOf(m) /\ ~Stopped(s) =>
                /\ c.disable <=> m.power.disable
                /\ c.hv <=> m.power.hv /\ ~s.shutdown
           /\ c.drive # 0 => /\ c.drive = WantOf(m) /\ m.gear.active # "P"
                             /\ in.throttle # "LOW" /\ ~SteerOnly
           /\ c.valves # {} => ReadyOf(m) /\ m.adjust.state # "IDLE"
           /\ c.hydraulic <=> c.valves # {}
           /\ TrackCommand(c, m)
<1> DEFINE r == RequestOf(m, in)
           a == ArbiterUpdate(r, s)
           home == "REMOTE"
           calibrate == r.calibration /\ r.gear = "P" /\ r.throttle = 0
           remote == [SafeDefault EXCEPT
                        !.source = home, !.gear = r.gear,
                        !.brakeRelease = BrakeRelease(r),
                        !.hv = r.hv, !.disable = r.disable,
                        !.calibrate = calibrate]
           Good(k) == /\ k \in CommandType
                      /\ k.hydraulic <=> k.valves # {}
                      /\ k.drive # 0 =>
                           /\ k.drive = WantOf(m) /\ m.gear.active # "P"
                           /\ in.throttle # "LOW" /\ ~SteerOnly
                      /\ k.valves # {} => ReadyOf(m) /\ m.adjust.state # "IDLE"
                      /\ TrackCommand(k, m)
           Still(k) == /\ k.drive = 0 /\ k.assist = 0
                       /\ k.valves = {} /\ ~k.hydraulic
           Power(k) == (k.hv <=> m.power.hv) /\ (k.disable <=> m.power.disable)
<1>1. /\ m.gear \in GearType /\ m.power \in PowerType /\ m.adjust \in AdjustType
      /\ m.mode \in ModeType
    BY DEF ManagerType
<1>2. /\ r.gear = m.gear.active /\ r.gear \in {"P", "D", "R"}
      /\ r.hv = m.power.hv /\ r.hv \in BOOLEAN
      /\ r.disable = m.power.disable /\ r.disable \in BOOLEAN
      /\ r.motion = m.mode.motion /\ r.adjust = m.adjust.state
      /\ r.track = m.adjust.dir /\ r.track \in -1..1
      /\ r.target = m.adjust.target /\ r.target \in {"FRONT", "REAR"}
      /\ r.throttle = (IF in.throttle = "LOW" THEN 0 ELSE 1)
      /\ r.calibration \in BOOLEAN
      /\ r.link = m.link.state /\ r.arm = m.arm.state /\ r.estop = m.estop.state
      /\ r.autoAllowed = m.authority.allowed
    BY <1>1 DEF RequestOf, GearType, PowerType, AdjustType, CalibrationRequest,
       CalibrationGate
<1>3. RemoteHasPriority(r) <=> ReadyOf(m)
    BY <1>2 DEF RemoteHasPriority, ManagerOK, ReadyOf
<1>4. SafeDefault \in CommandType
    BY DEF SafeDefault, CommandType
<1>5. BrakeRelease(r) \in BOOLEAN /\ calibrate \in BOOLEAN
    BY DEF BrakeRelease
<1>6. home \in {"NONE", "SAFETY", "REMOTE"}
    OBVIOUS
<1> HIDE DEF r
<1>7. /\ remote.hv = r.hv /\ remote.disable = r.disable /\ Still(remote)
    BY DEF SafeDefault
<1> HIDE DEF home, calibrate
<1>8. remote \in CommandType
    BY <1>2, <1>4, <1>5, <1>6 DEF CommandType
<1>9. a = IF Stopped(s) THEN [SafeDefault EXCEPT !.source = "SAFETY"]
          ELSE IF ~RemoteHasPriority(r) THEN SafeDefault
          ELSE IF r.adjust # "IDLE" THEN AdjustCommand(r, remote)
          ELSE IF SteerOnly THEN [remote EXCEPT !.brakeRelease = FALSE]
          ELSE [remote EXCEPT !.drive = SpeedCommand(r)]
    BY DEF ArbiterUpdate, home, calibrate
<1>10. c = SafetyApply(s, a)
    BY DEF FinalCommand, r
<1>13. ASSUME NEW k, k.assist = 0, k.valves = {}
       PROVE  TrackCommand(k, m)
    BY <1>13 DEF TrackCommand
<1> HIDE DEF remote, a
<1>11. CASE Stopped(s) \/ ~ReadyOf(m)
    <2> DEFINE Off(k) == k \in CommandType /\ Inert(k) /\ ~k.hv /\ ~k.disable
    <2> DEFINE source == "SAFETY"
    <2>1. Off(SafeDefault) /\ Off([SafeDefault EXCEPT !.source = source])
        <3>1. Off(SafeDefault)
            BY DEF SafeDefault, CommandType, Inert
        <3>2. source \in {"NONE", "SAFETY", "REMOTE"}
            OBVIOUS
        <3> HIDE DEF source
        <3>3. [SafeDefault EXCEPT !.source = source] \in CommandType
            BY <3>2, <1>4 DEF CommandType
        <3>4. LET k == [SafeDefault EXCEPT !.source = source]
              IN  Inert(k) /\ ~k.hv /\ ~k.disable
            BY DEF SafeDefault, Inert
        <3> QED
            BY <3>1, <3>3, <3>4
    <2>2. Off(a)
        BY <1>3, <1>9, <1>11, <2>1
    <2> DEFINE b == [a EXCEPT !.source = "SAFETY", !.drive = 0, !.assist = 0,
                              !.lift = "SAFE_STOP", !.hydraulic = FALSE,
                              !.hv = FALSE, !.valves = {}, !.posture = FALSE]
    <2>3. b.brakeRelease = a.brakeRelease
        BY <2>2 DEF CommandType
    <2>4. Off(b)
        BY <2>2, <2>3, ClearedCommand DEF Inert
    <2>5. c \in {a, b, [a EXCEPT !.brakeRelease = FALSE],
                 [b EXCEPT !.brakeRelease = FALSE]}
        BY <1>10 DEF SafetyApply
    <2> HIDE DEF b
    <2>6. ASSUME NEW k, Off(k)
          PROVE  Off([k EXCEPT !.brakeRelease = FALSE])
        BY <2>6 DEF CommandType, Inert
    <2>7. Off(c)
        BY <2>2, <2>4, <2>5, <2>6
    <2> QED
        BY <2>7, <1>11, <1>13 DEF Inert
<1>12. CASE ~Stopped(s) /\ ReadyOf(m)
    <2>1. Good(a) /\ Power(a)
        <3>1. CASE r.adjust # "IDLE"
            <4> DEFINE inhibited == [remote EXCEPT !.gear = "P", !.brakeRelease = FALSE]
                       v == TrackValves(r) \cup SuspensionValves(r)
                       posture == TrackAllowed(r) \/ r.adjust = "TRACK_EXITING"
                       release == TrackValves(r) # {}
                       open == v # {}
                       assist == IF TrackValves(r) = {} THEN 0 ELSE r.track
                       k == [inhibited EXCEPT
                              !.lift = LiftRequest(r), !.valves = v,
                              !.hydraulic = open, !.posture = posture,
                              !.brakeRelease = release, !.assist = assist]
            <4>1. a = IF r.adjust = "ABORTED" THEN inhibited ELSE k
                BY <1>3, <1>9, <1>12, <3>1 DEF AdjustCommand
            <4>2. /\ inhibited \in CommandType /\ Still(inhibited)
                  /\ inhibited.hv = r.hv /\ inhibited.disable = r.disable
                BY <1>7, <1>8 DEF CommandType
            <4>3. v \in SUBSET (1..6)
                BY <1>2 DEF TrackValves, TrackSide, TrackExtend, TrackRetract,
                   SuspensionValves, SuspensionRetract, SuspensionExtend
            <4>4. LiftRequest(r) \in {"SAFE_STOP", "EXTEND", "RETRACT", "NEUTRAL_STOP"}
                BY DEF LiftRequest
            <4>11. /\ assist # 0 => v = TrackSide(assist)
                   /\ v \cap TrackMask # {} =>
                        ValvesOpen(m.adjust) /\ v = TrackSide(m.adjust.dir)
                <5>1. CASE TrackAllowed(r)
                    <6>1. SuspensionValves(r) = {} /\ ValvesOpen(m.adjust)
                        BY <5>1, <1>2
                        DEF TrackAllowed, SuspensionValves, ValvesOpen
                    <6>2. v = TrackSide(r.track)
                        BY <5>1, <6>1 DEF TrackValves
                    <6>3. assist # 0 => assist = r.track
                        OBVIOUS
                    <6> QED
                        BY <6>1, <6>2, <6>3, <1>2
                <5>2. CASE ~TrackAllowed(r)
                    <6>1. TrackValves(r) = {} /\ v = SuspensionValves(r)
                        BY <5>2 DEF TrackValves
                    <6>2. SuspensionValves(r) \cap TrackMask = {}
                        BY <1>2 DEF SuspensionValves, SuspensionRetract,
                           SuspensionExtend, TrackMask, TrackExtend, TrackRetract
                    <6> QED
                        BY <6>1, <6>2
                <5> QED
                    BY <5>1, <5>2
            <4>5. /\ posture \in BOOLEAN /\ release \in BOOLEAN /\ assist \in -1..1
                  /\ open \in BOOLEAN /\ (open <=> v # {})
                BY <1>2
            <4> HIDE DEF inhibited, v, posture, release, assist, open
            <4>6. k \in CommandType
                BY ZenonT(60), <4>2, <4>3, <4>4, <4>5 DEF CommandType
            <4>7. /\ k.hv = inhibited.hv /\ k.disable = inhibited.disable
                  /\ k.drive = inhibited.drive /\ k.valves = v
                  /\ k.hydraulic = open /\ k.assist = assist
                BY <4>2 DEF CommandType
            <4> HIDE DEF k
            <4>8. Good(inhibited)
                BY <4>2, <1>13
            <4>12. TrackCommand(k, m)
                BY <4>7, <4>11 DEF TrackCommand
            <4>9. Good(k)
                BY <4>2, <4>5, <4>6, <4>7, <4>12, <3>1, <1>2, <1>12
            <4>10. Power(inhibited) /\ Power(k)
                BY <4>2, <4>7, <1>2
            <4> QED
                BY <4>1, <4>8, <4>9, <4>10
        <3>2. CASE r.adjust = "IDLE" /\ SteerOnly
            <4>1. a = [remote EXCEPT !.brakeRelease = FALSE]
                BY <1>3, <1>9, <1>12, <3>2
            <4>2. /\ a \in CommandType /\ a.hv = r.hv /\ a.disable = r.disable
                  /\ Still(a)
                BY <4>1, <1>7, <1>8 DEF CommandType
            <4>3. Good(a)
                BY <4>2, <1>13
            <4>4. Power(a)
                BY <4>2, <1>2
            <4> QED
                BY <4>3, <4>4
        <3>3. CASE r.adjust = "IDLE" /\ ~SteerOnly
            <4> DEFINE forward == IF r.gear = "P" \/ r.throttle = 0 THEN 0
                                  ELSE IF r.gear = "R" THEN -1 ELSE 1
                       full == IF m.gear.active = "P" THEN 0
                               ELSE IF m.gear.active = "R" THEN -1 ELSE 1
                       v == SpeedCommand(r)
            <4>1. a = [remote EXCEPT !.drive = v]
                BY <1>3, <1>9, <1>12, <3>3
            <4>2. v = IF r.motion = "REVERSE_ACKERMANN" THEN -forward ELSE forward
                BY DEF SpeedCommand
            <4>3. WantOf(m) = IF m.mode.motion = "REVERSE_ACKERMANN" THEN -full
                                                                    ELSE full
                BY DEF WantOf
            <4>4. /\ forward \in {-1, 0, 1}
                  /\ forward # 0 => /\ forward = full /\ m.gear.active # "P"
                                    /\ in.throttle # "LOW"
                BY <1>2
            <4> HIDE DEF forward, full, v
            <4>5. v \in -1..1
                BY <4>2, <4>4
            <4>6. v # 0 => v = WantOf(m) /\ m.gear.active # "P" /\ in.throttle # "LOW"
                BY <4>2, <4>3, <4>4, <1>2
            <4>7. a \in CommandType
                BY <4>1, <4>5, <1>8 DEF CommandType
            <4>8. /\ a.hv = r.hv /\ a.disable = r.disable
                  /\ a.drive = v /\ a.valves = {} /\ ~a.hydraulic /\ a.assist = 0
                BY <4>1, <4>5, <1>7, <1>8 DEF CommandType
            <4>9. Good(a)
                BY <4>6, <4>7, <4>8, <3>3, <1>13
            <4>10. Power(a)
                BY <4>8, <1>2
            <4> QED
                BY <4>9, <4>10
        <3> QED
            BY <3>1, <3>2, <3>3
    <2>2. ~s.aClassFault /\ ~s.estopLatched /\ ~s.sbusFailsafe
        BY <1>12 DEF Stopped
    <2>3. CASE s.shutdown
        <3> DEFINE b == [a EXCEPT !.source = "SAFETY", !.drive = 0, !.assist = 0,
                                  !.lift = "SAFE_STOP", !.hydraulic = FALSE,
                                  !.hv = FALSE, !.valves = {}, !.posture = FALSE]
        <3>1. c = [b EXCEPT !.brakeRelease = FALSE]
            BY <1>10, <2>3 DEF SafetyApply
        <3>2. b \in CommandType /\ Still(b) /\ ~b.hv /\ (b.disable <=> a.disable)
            BY ZenonT(60), <2>1, ClearedCommand
        <3> HIDE DEF b
        <3>3. c \in CommandType /\ Still(c) /\ ~c.hv /\ (c.disable <=> b.disable)
            BY <3>1, <3>2 DEF CommandType
        <3> QED
            BY <3>2, <3>3, <2>1, <2>3, <1>12, <1>13
    <2>4. CASE ~s.shutdown
        <3>1. c = a
            BY <1>10, <1>12, <2>2, <2>4 DEF SafetyApply
        <3> QED
            BY <3>1, <2>1, <2>4, <1>12
    <2> QED
        BY <2>3, <2>4
<1> QED
    BY <1>11, <1>12

-----------------------------------------------------------------------------
(* The loop starts without authority, without power and at rest.            *)
LEMMA InitKeeps == Init => IInv
<1> SUFFICES ASSUME Init PROVE IInv
    OBVIOUS
<1>1. /\ mgr = ManagerInit /\ mgr.link.state = "OFFLINE"
      /\ mgr.arm.state = "DISARMED" /\ mgr.estop.state = "CLEAR"
      /\ mgr.adjust.state = "IDLE" /\ mgr.power.hv = FALSE
      /\ mgr.power.disable = FALSE /\ mgr.power.shutdown = FALSE
      /\ mgr.authority.allowed = FALSE /\ mgr.authority.state = "MANUAL"
    BY DEF Init, ManagerInit, LinkInit, ArmInit, EstopInit, AdjustInit, PowerInit,
       AuthorityInit
<1>2. cmd \in CommandType /\ Inert(cmd) /\ ~cmd.hv /\ ~cmd.hvReady /\ ~cmd.disable
    BY DEF Init, SafeDefault, CommandType, Inert
<1>3. safety \in SafetyType
    BY DEF Init, StaleRemoteSnapshot, SafetyType
<1>4. TypeInv
    <2>1. mgr \in ManagerType
        BY <1>1, ManagerInitType
    <2>2. /\ turn = "safety" /\ late \in BOOLEAN /\ relay \in BOOLEAN
          /\ zeroSpeed \in BOOLEAN /\ hydraulicStopped \in BOOLEAN
          /\ requested \in BOOLEAN /\ bms \in BOOLEAN /\ contactor \in BOOLEAN
        BY DEF Init
    <2>3. valves = {} /\ target = 0 /\ current = 0 /\ speed = 0
        BY DEF Init
    <2>4. /\ valves \in SUBSET (1..6)
          /\ target \in -1..1 /\ current \in -1..1 /\ speed \in -1..1
        BY <2>3
    <2> QED
        BY <1>2, <1>3, <2>1, <2>2, <2>4 DEF TypeInv
<1>5. ~ReadyOf(mgr) /\ ~PoweredOf(mgr)
    BY <1>1 DEF ReadyOf, PoweredOf
<1>6. ManagerOK(mgr)
    BY <1>1, <1>5 DEF ManagerOK, ValvesOpen
<1>7. RequestMatches /\ SafetyFresh /\ KeyRelease
    BY DEF Init, RequestMatches, SafetyFresh, KeyRelease
<1>8. CommandMatches
    BY <1>2, <1>5 DEF Init, CommandMatches, Inert
<1>9. Quench /\ Rest /\ Reconnect /\ Unreported /\ RollsForward
    BY <1>5 DEF Init, Quench, Rest, Reconnect, Unreported, RollsForward
<1>10. NoReversalTorque /\ ValvesParked
    BY DEF Init, NoReversalTorque, Torque, ValvesParked
<1>11. ValvesFollow /\ AssistFollowsValve
    BY <1>2 DEF Init, ValvesFollow, AssistFollowsValve, TrackCommand, Inert
<1> QED
    BY <1>4, <1>6, <1>7, <1>8, <1>9, <1>10, <1>11 DEF IInv

(* The safety task only brings its snapshot up to date.                     *)
LEMMA SafetyKeeps == IInv /\ SafetyStep => IInv'
<1> SUFFICES ASSUME IInv, SafetyStep PROVE IInv'
    OBVIOUS
<1> USE DEF IInv
<1>1. /\ turn' \in {"safety", "can2", "remote", "vehicle", "slow"}
      /\ turn \in {"safety", "vehicle"}
      /\ turn' = IF turn = "safety" THEN "can2" ELSE turn
      /\ UNCHANGED <<late, mgr, request, cmd, relay, zeroSpeed, hydraulicStopped,
                     requested, bms, valves, contactor, target, current, speed>>
    BY DEF SafetyStep, slow, wheels
<1>2. /\ safety' \in SafetyType
      /\ ReadyOf(mgr) => ~Stopped(safety')
      /\ safety'.shutdown => mgr.power.shutdown
    <2>1. CASE request = NoRequest /\ mgr = ManagerInit
        <3>1. safety' = StaleRemoteSnapshot
            BY <2>1 DEF SafetyStep
        <3>2. ~ReadyOf(mgr)
            BY <2>1 DEF ReadyOf, ManagerInit, ArmInit
        <3> QED
            BY <3>1, <3>2 DEF StaleRemoteSnapshot, SafetyType
    <2>2. CASE \E in \in Inputs : request = RequestOf(mgr, in)
        <3>1. PICK in \in Inputs : request = RequestOf(mgr, in)
            BY <2>2
        <3>2. /\ request.estop = mgr.estop.state /\ request.link = mgr.link.state
              /\ request.shutdown = mgr.power.shutdown
            BY <3>1 DEF RequestOf
        <3>3. mgr.power.shutdown \in BOOLEAN
            BY DEF TypeInv, ManagerType, PowerType
        <3>4. request # NoRequest
            BY <3>1 DEF RequestOf, NoRequest
        <3>5. safety' = SafetySnapshot(request)
            BY <3>4 DEF SafetyStep
        <3>6. /\ safety'.aClassFault = FALSE
              /\ safety'.estopLatched = (mgr.estop.state # "CLEAR")
              /\ safety'.sbusFailsafe = (mgr.link.state = "FAILSAFE")
              /\ safety'.controlledStop = (mgr.estop.state # "CLEAR"
                                            \/ mgr.link.state = "FAILSAFE")
              /\ safety'.shutdown = mgr.power.shutdown
            BY <3>2, <3>5 DEF SafetySnapshot
        <3>7. safety' \in SafetyType
            BY <3>2, <3>3, <3>5 DEF SafetySnapshot, SafetyType
        <3>8. ReadyOf(mgr) => mgr.link.state = "ONLINE" /\ mgr.estop.state = "CLEAR"
            BY DEF ManagerOK
        <3> QED
            BY <3>6, <3>7, <3>8 DEF Stopped
    <2> QED
        BY <2>1, <2>2 DEF RequestMatches
<1>3. TypeInv'
    BY <1>1, <1>2 DEF TypeInv
<1>4. ManagerOK(mgr)'
    BY <1>1
<1>5. RequestMatches'
    BY <1>1 DEF RequestMatches
<1>6. SafetyFresh'
    <2>1. mgr.power.shutdown => ~mgr.power.hv
        BY DEF ManagerOK
    <2> QED
        BY <1>1, <1>2, <2>1 DEF SafetyFresh
<1>7. CommandMatches'
    BY <1>1 DEF CommandMatches
<1>8. Quench'
    BY <1>1 DEF Quench, Reached, SlowRan
<1>9. Rest'
    BY <1>1 DEF Rest
<1>10. Reconnect'
    BY <1>1 DEF Reconnect
<1>11. Unreported' /\ RollsForward'
    BY <1>1 DEF Unreported, RollsForward
<1>12. NoReversalTorque'
    BY <1>1 DEF NoReversalTorque, Torque
<1>13. ValvesParked'
    BY <1>1 DEF ValvesParked, Torque
<1>14. KeyRelease'
    BY <1>1 DEF KeyRelease
<1>15. ValvesFollow' /\ AssistFollowsValve'
    BY <1>1 DEF ValvesFollow, TrackCommand, AssistFollowsValve
<1> QED
    BY <1>3, <1>4, <1>5, <1>6, <1>7, <1>8, <1>9, <1>10, <1>11, <1>12, <1>13, <1>14,
       <1>15

(* Can2Step: what is sent keeps to the gear engaged, or nothing is sent and  *)
(* the drive has no velocity.                                              *)
LEMMA Can2Keeps == IInv /\ Can2Step => IInv'
<1> SUFFICES ASSUME IInv, Can2Step PROVE IInv'
    OBVIOUS
<1> USE DEF IInv
<1>1. /\ turn = "can2" /\ turn' = "remote"
      /\ UNCHANGED <<late, mgr, request, safety, cmd, relay, hydraulicStopped,
                     requested, bms, valves, contactor>>
    BY DEF Can2Step, slow
<1> DEFINE v == DriveVelocity(cmd)
<1>2. /\ v # 0 => cmd.drive # 0 /\ v = cmd.drive
      /\ v \in -1..1
    BY DEF DriveVelocity, TypeInv, CommandType
<1>3. MotionPowered(cmd) <=> cmd.hv /\ cmd.hvReady
    BY DEF MotionPowered, CommandMatches
<1>4. target' = IF ~contactor THEN 0 ELSE IF MotionPowered(cmd) THEN v ELSE target
    BY DEF Can2Step
<1> HIDE DEF v
<1>5. target \in -1..1 /\ speed \in -1..1
    BY DEF TypeInv
<1>6. target' \in -1..1
    BY <1>2, <1>4, <1>5
<1>7. speed' \in Motion(speed, IF contactor THEN target' ELSE 0)
    BY DEF Can2Step
<1>8. /\ ~contactor => speed' = 0
      /\ contactor => /\ speed' \in {speed, 0, target'}
                      /\ target' # 0 /\ speed # -target' => speed' \in {speed, target'}
                      /\ target' = 0 => speed' \in {speed, 0}
    BY <1>7 DEF Motion
<1>9. speed' \in -1..1
    <2>1. speed' \in {speed, 0, target'}
        BY <1>8
    <2> QED
        BY <2>1, <1>5, <1>6
<1>10. zeroSpeed' \in BOOLEAN /\ (zeroSpeed' => speed' = 0)
    BY DEF Can2Step, ZeroSpeedFeedback
<1>11. WantOf(mgr) \in -1..1
    BY WantType
<1>12. PoweredOf(mgr) /\ contactor =>
         target' \in {0, WantOf(mgr)} /\ (mgr.gear.active = "P" => target' = 0)
    BY <1>1, <1>2, <1>3, <1>4 DEF CommandMatches, Unreported
<1>25. /\ current' \in -1..1
       /\ MotionPowered(cmd) /\ contactor => current' \in AssistCurrents(cmd, valves)
    <2>1. cmd.assist \in -1..1 /\ current \in -1..1
        BY DEF TypeInv, CommandType
    <2> QED
        BY <2>1 DEF Can2Step, AssistCurrents
<1>13. TypeInv'
    BY <1>1, <1>6, <1>9, <1>10, <1>25 DEF TypeInv
<1>14. ManagerOK(mgr)'
    BY <1>1
<1>15. RequestMatches' /\ SafetyFresh'
    BY <1>1 DEF RequestMatches, SafetyFresh
<1>16. CommandMatches'
    BY <1>1 DEF CommandMatches
<1>17. Quench'
    BY <1>1 DEF Quench, Reached, SlowRan
<1>18. Rest'
    BY <1>1, <1>2, <1>4, <1>8, <1>10 DEF Rest, CommandMatches
<1>19. Reconnect'
    BY <1>1 DEF Reconnect
<1>20. Unreported'
    BY <1>1, <1>3, <1>4 DEF Unreported, v
<1>21. RollsForward'
    BY <1>1, <1>8, <1>11, <1>12 DEF RollsForward
<1>22. NoReversalTorque'
    <2>1. CASE contactor /\ target' # 0
        <3>1. speed # -target'
            BY <2>1, <1>1, <1>2, <1>3, <1>4, <1>5, <1>11
            DEF NoReversalTorque, Torque, CommandMatches, RollsForward
        <3> QED
            <4>1. speed' \in {speed, target'}
                BY <2>1, <3>1, <1>8
            <4>2. target' # -target'
                <5>1. \A t \in -1..1 : t # 0 => t # -t
                    OBVIOUS
                <5>2. target' # 0
                    BY <2>1
                <5> QED
                    BY <5>1, <5>2, <1>6, Zenon
            <4>3. speed' # -target'
                BY <3>1, <4>1, <4>2
            <4>4. contactor' = contactor
                BY <1>1
            <4> QED
                BY <2>1, <4>3, <4>4 DEF NoReversalTorque, Torque
    <2>2. CASE ~(contactor /\ target' # 0)
        BY <2>2, <1>1 DEF NoReversalTorque, Torque
    <2> QED
        BY <2>1, <2>2
<1>23. ValvesParked'
    <2>1. valves # {} /\ mgr.power.hv => (IF contactor THEN target' ELSE 0) = 0
        BY <1>1, <1>2, <1>3, <1>4
        DEF ValvesParked, Torque, CommandMatches, Unreported, ManagerOK, PoweredOf,
            Inert, v
    <2> QED
        BY <1>1, <2>1 DEF ValvesParked, Torque
<1>24. KeyRelease'
    BY <1>1 DEF KeyRelease
<1>26. ValvesFollow'
    BY <1>1 DEF ValvesFollow, TrackCommand
<1>27. AssistFollowsValve'
    <2> SUFFICES ASSUME MotionPowered(cmd), contactor, current' # 0
                 PROVE  valves \cap TrackMask = TrackSide(current')
        BY <1>1 DEF AssistFollowsValve, Current, MotionPowered
    <2>1. current' = cmd.assist /\ valves \cap TrackMask # {}
        BY <1>25 DEF AssistCurrents
    <2>2. cmd.assist \in {-1, 1}
        BY <2>1 DEF TypeInv, CommandType
    <2>3. cmd.valves = TrackSide(cmd.assist)
        BY <1>1, <2>2 DEF ValvesFollow, TrackCommand
    <2>4. valves \cap TrackSide(-cmd.assist) = {}
        <3>1. CASE ~late
            BY <3>1, <1>1, <2>2, <2>3
            DEF ValvesFollow, TrackSide, TrackExtend, TrackRetract
        <3>2. CASE late
            BY <3>2, <1>1 DEF ValvesFollow
        <3> QED
            BY <3>1, <3>2 DEF TypeInv
    <2> QED
        BY <2>1, <2>2, <2>4 DEF TrackSide, TrackMask, TrackExtend, TrackRetract
<1> QED
    BY <1>13, <1>14, <1>15, <1>16, <1>17, <1>18, <1>19, <1>20, <1>21, <1>22, <1>23,
       <1>24, <1>26, <1>27

(* RemoteStep: authority comes back after the contactors have opened, and   *)
(* gears are engaged at a standstill.                                      *)
LEMMA RemoteKeeps == IInv /\ RemoteStep => IInv'
<1> SUFFICES ASSUME IInv, RemoteStep PROVE IInv'
    OBVIOUS
<1> USE DEF IInv
<1>1. /\ turn = "remote" /\ turn' = "vehicle"
      /\ UNCHANGED <<late, safety, cmd, relay, zeroSpeed, hydraulicStopped,
                     requested, bms, valves, contactor, target, current, speed>>
    BY DEF RemoteStep, slow, wheels
<1>2. PICK in \in Inputs : /\ mgr' = ManagerUpdate(mgr, in, Preconditions(in), 1)
                           /\ request' = RequestOf(mgr', in)
    BY DEF RemoteStep
<1>3. in \in InputType
    BY InputsAssumption
<1> DEFINE pre == Preconditions(in)
           n == mgr'
<1>4. /\ pre \in ConditionType
      /\ ~pre.aClassFault /\ ~pre.autoRequestValid
      /\ pre.hydraulicStopped => hydraulicStopped
    <2>1. safety.aClassFault = FALSE /\ hydraulicStopped \in BOOLEAN
          /\ zeroSpeed \in BOOLEAN
        BY DEF TypeInv, SafetyType
    <2>2. PreHvWindow(in) \in BOOLEAN
        BY DEF PreHvWindow
    <2> DEFINE bench == Profile = "steer4_remote_90"
               still == IF Profile = "whole_vehicle" THEN PreHvWindow(in) \/ zeroSpeed
                        ELSE bench \/ zeroSpeed
               brake == IF Profile = "whole_vehicle" THEN still ELSE bench
    <2>3. still \in BOOLEAN /\ brake \in BOOLEAN
        BY <2>1, <2>2
    <2>4. pre = [zeroSpeed        |-> still,
                 brakeApplied     |-> brake,
                 aClassFault      |-> safety.aClassFault,
                 hydraulicStopped |-> hydraulicStopped,
                 can1Online       |-> TRUE,
                 autoRequestValid |-> FALSE]
        BY DEF Preconditions
    <2> HIDE DEF still, brake, pre
    <2> QED
        BY <2>1, <2>3, <2>4 DEF ConditionType
<1>5. pre.zeroSpeed => speed = 0 \/ ~cmd.hv
    BY <1>1, ImageAssumption DEF Preconditions, PreHvWindow, Rest
<1> HIDE DEF pre
<1>6. /\ n \in ManagerType /\ ManagerOK(n)
      /\ ReadyOf(mgr) /\ ~ReadyOf(n) => RankOf(n) = 0
      /\ ~ReadyOf(mgr) => RankOf(n) <= RankOf(mgr) + 1
      /\ ReadyOf(n) /\ ~ReadyOf(mgr) => RankOf(mgr) >= 3 /\ n.gear.active = "P"
      /\ n.power.hv /\ ~mgr.power.hv => ReadyOf(n) /\ n.gear.active = "P"
      /\ mgr.power.hv /\ ~n.power.hv => n.power.disable
      /\ n.power.disable => pre.zeroSpeed /\ pre.hydraulicStopped
      /\ mgr.power.shutdown => ~n.power.hv
      /\ n.gear.active # "P" => n.mode.motion = mgr.mode.motion
      /\ n.gear.active \notin {"P", mgr.gear.active} =>
           pre.zeroSpeed /\ in.throttle = "LOW"
      /\ mgr.adjust.state # "IDLE" => n.gear.active = "P"
      /\ ValvesOpen(mgr.adjust) /\ ValvesOpen(n.adjust) =>
           n.adjust.dir = mgr.adjust.dir
    <2>1. n = ManagerUpdate(mgr, in, pre, 1)
        BY <1>2 DEF pre
    <2>2. mgr \in ManagerType /\ ManagerOK(mgr)
        BY DEF TypeInv
    <2> HIDE DEF n
    <2> QED
        BY <1>3, <1>4, <2>1, <2>2, ManagerStep
<1> HIDE DEF n
<1>7. /\ ~contactor => target = 0 /\ speed = 0
      /\ RankOf(mgr) >= 3 => ~contactor
      /\ ReadyOf(n) /\ contactor => ReadyOf(mgr)
    <2>1. Reached = RankOf(mgr)
        BY <1>1, RankType DEF Reached
    <2> QED
        BY <1>1, <1>6, <2>1 DEF Rest, Quench
<1>8. PoweredOf(n) /\ n.gear.active # "P" => PoweredOf(mgr)
    BY <1>6 DEF PoweredOf
<1>9. PoweredOf(mgr) /\ pre.zeroSpeed => speed = 0
    BY <1>1, <1>5, <1>7 DEF CommandMatches
<1>10. TypeInv'
    BY <1>1, <1>6 DEF TypeInv, n
<1>11. ManagerOK(mgr)'
    BY <1>6 DEF n
<1>12. RequestMatches'
    BY <1>2 DEF RequestMatches
<1>13. SafetyFresh'
    BY <1>1, <1>6, <1>7 DEF SafetyFresh, n
<1>14. CommandMatches'
    BY <1>1 DEF CommandMatches
<1>15. Quench'
    <2>1. RankOf(mgr) \in Int /\ RankOf(n) \in Int
        BY RankType
    <2>2. ReadyOf(mgr) => RankOf(mgr) = -1
        BY DEF RankOf
    <2>3. ReadyOf(n) => RankOf(n) = -1
        BY DEF RankOf
    <2>4. \/ RankOf(n) - 1 <= RankOf(mgr) /\ ~ReadyOf(n)
          \/ RankOf(n) - 1 < 0
        BY <1>6, <2>1, <2>2, <2>3
    <2>5. Reached = RankOf(mgr) /\ Reached' = RankOf(n) - 1 /\ (SlowRan <=> SlowRan')
        BY <1>1, <2>1 DEF Reached, SlowRan, n
    <2> QED
        BY <1>1, <2>1, <2>4, <2>5 DEF Quench
<1>16. Rest'
    BY <1>1, <1>7 DEF Rest
<1>17. Reconnect'
    <2>1. in.throttle = "LOW" => request'.throttle = 0
        BY <1>2 DEF RequestOf
    <2> QED
        BY <1>1, <1>6, <1>8, <2>1 DEF Reconnect, n
<1>18. Unreported' /\ NoReversalTorque'
    BY <1>1 DEF Unreported, NoReversalTorque, Torque
<1>19. RollsForward'
    <2> SUFFICES ASSUME PoweredOf(n), n.gear.active # "P"
                 PROVE  speed \in {0, WantOf(n)}
        BY <1>1 DEF RollsForward, n
    <2>1. CASE n.gear.active = mgr.gear.active
        <3>1. WantOf(n) = WantOf(mgr)
            BY <2>1, <1>6 DEF WantOf
        <3> QED
            BY <2>1, <3>1, <1>8 DEF RollsForward
    <2>2. CASE n.gear.active # mgr.gear.active
        BY <2>2, <1>6, <1>8, <1>9
    <2> QED
        BY <2>1, <2>2
<1>20. ValvesParked'
    <2>1. valves # {} /\ ~late => n.gear.active = "P"
        BY <1>1, <1>6 DEF ValvesParked, CommandMatches
    <2>2. valves # {} /\ n.power.hv /\ ~ReadyOf(n) => Torque = 0
        BY <1>1, <1>6 DEF ValvesParked
    <2> QED
        BY <1>1, <2>1, <2>2 DEF ValvesParked, Torque, n
<1>21. KeyRelease'
    <2>1. relay /\ ReadyOf(n) /\ n.power.disable => speed = 0
        BY <1>1, <1>6, <1>7, <1>9 DEF CommandMatches, PoweredOf
    <2>2. n.power.disable => valves = {}
        BY <1>4, <1>6 DEF ValvesParked
    <2>3. relay /\ ReadyOf(n) /\ ~n.power.hv /\ contactor => n.power.disable
        BY <1>1, <1>6, <1>7 DEF CommandMatches
    <2> QED
        BY <1>1, <2>1, <2>2, <2>3 DEF KeyRelease, n
<1>22. ValvesFollow'
    <2> SUFFICES ASSUME ~late, ValvesOpen(n.adjust)
                 PROVE  valves \cap TrackSide(-n.adjust.dir) = {}
        BY <1>1 DEF ValvesFollow, n
    <2>1. /\ valves \subseteq cmd.valves
          /\ cmd.valves \cap TrackMask # {} =>
               /\ ValvesOpen(mgr.adjust)
               /\ cmd.valves = TrackSide(mgr.adjust.dir)
        BY <1>1 DEF ValvesFollow, TrackCommand
    <2>2. n.adjust.dir \in {-1, 1}
        BY <1>6 DEF ManagerOK, ManagerType, AdjustType
    <2>3. CASE cmd.valves \cap TrackMask = {}
        BY <2>1, <2>2, <2>3 DEF TrackSide, TrackMask
    <2>4. CASE cmd.valves \cap TrackMask # {}
        <3>1. cmd.valves = TrackSide(n.adjust.dir)
            BY <2>1, <2>4, <1>6
        <3> QED
            BY <3>1, <2>1, <2>2 DEF TrackSide, TrackExtend, TrackRetract
    <2> QED
        BY <2>3, <2>4
<1>23. AssistFollowsValve'
    BY <1>1 DEF AssistFollowsValve
<1> QED
    BY <1>10, <1>11, <1>12, <1>13, <1>14, <1>15, <1>16, <1>17, <1>18, <1>19, <1>20,
       <1>21, <1>22, <1>23

(* VehicleStep: the new command obeys the manager and the safety snapshot,  *)
(* and the battery key is released at a standstill.                        *)
LEMMA VehicleKeeps ==
    IInv /\ VehicleStep => IInv' /\ (relay /\ ~relay' => speed = 0 /\ valves = {})
<1> SUFFICES ASSUME IInv, VehicleStep
             PROVE  IInv' /\ (relay /\ ~relay' => speed = 0 /\ valves = {})
    OBVIOUS
<1> USE DEF IInv
<1>1. /\ turn = "vehicle"
      /\ \/ turn' = "slow" /\ late' = FALSE
         \/ turn' = "safety" /\ ~late /\ late' = TRUE
      /\ UNCHANGED <<mgr, request, safety, zeroSpeed, hydraulicStopped,
                     requested, bms, valves, contactor, target, current, speed>>
    BY DEF VehicleStep, slow, wheels
<1>2. PICK in \in Inputs : request = RequestOf(mgr, in)
    BY <1>1 DEF RequestMatches
<1>3. in \in InputType
    BY InputsAssumption
<1> DEFINE c == FinalCommand(request, safety)
<1>4. /\ c \in CommandType
      /\ ~ReadyOf(mgr) \/ Stopped(safety) => Inert(c) /\ ~c.hv /\ ~c.disable
      /\ ReadyOf(mgr) /\ ~Stopped(safety) =>
           /\ c.disable <=> mgr.power.disable
           /\ c.hv <=> mgr.power.hv /\ ~safety.shutdown
      /\ c.drive # 0 => /\ c.drive = WantOf(mgr) /\ mgr.gear.active # "P"
                        /\ in.throttle # "LOW" /\ ~SteerOnly
      /\ c.valves # {} => ReadyOf(mgr) /\ mgr.adjust.state # "IDLE"
      /\ c.hydraulic <=> c.valves # {}
      /\ TrackCommand(c, mgr)
    <2>1. c = FinalCommand(RequestOf(mgr, in), safety)
        BY <1>2
    <2>2. mgr \in ManagerType /\ ManagerOK(mgr) /\ safety \in SafetyType
        BY DEF TypeInv
    <2> HIDE DEF c
    <2> QED
        BY <1>3, <2>1, <2>2, CommandStep
<1> HIDE DEF c
<1>5. cmd' = [c EXCEPT !.hvReady = bms] /\ relay' = RelayLatch(relay, cmd')
    BY DEF VehicleStep, c
<1>6. bms \in BOOLEAN
    BY DEF TypeInv
<1>7. /\ cmd' \in CommandType /\ cmd'.hvReady = bms
      /\ cmd'.hv = c.hv /\ cmd'.disable = c.disable /\ cmd'.drive = c.drive
      /\ cmd'.valves = c.valves /\ cmd'.hydraulic = c.hydraulic
      /\ cmd'.assist = c.assist
      /\ (Inert(c) => Inert(cmd'))
    BY <1>4, <1>5, <1>6 DEF CommandType, Inert
<1>8. /\ ~ReadyOf(mgr) \/ Stopped(safety) => Inert(cmd') /\ ~cmd'.hv /\ ~cmd'.disable
      /\ ReadyOf(mgr) /\ ~Stopped(safety) =>
           /\ cmd'.disable <=> mgr.power.disable
           /\ cmd'.hv <=> mgr.power.hv /\ ~safety.shutdown
      /\ cmd'.drive # 0 => /\ cmd'.drive = WantOf(mgr) /\ mgr.gear.active # "P"
                           /\ request.throttle # 0 /\ ~SteerOnly
      /\ cmd'.valves # {} => ReadyOf(mgr) /\ mgr.adjust.state # "IDLE"
      /\ cmd'.hydraulic <=> cmd'.valves # {}
    <2>1. in.throttle # "LOW" => request.throttle # 0
        BY <1>2 DEF RequestOf
    <2> QED
        BY <1>4, <1>7, <2>1
<1>9. /\ relay' <=> ~cmd'.disable /\ (relay \/ cmd'.hv)
      /\ relay' \in BOOLEAN
    <2>1. relay \in BOOLEAN /\ cmd'.hv \in BOOLEAN
        BY <1>7 DEF TypeInv, CommandType
    <2> QED
        BY <1>5, <2>1 DEF RelayLatch
<1>10. cmd'.hv => PoweredOf(mgr)
    BY <1>8 DEF PoweredOf
<1>11. cmd'.disable => ReadyOf(mgr) /\ mgr.power.disable /\ ~cmd'.hv
    BY <1>8 DEF ManagerOK
<1>12. TypeInv'
    BY <1>1, <1>7, <1>9 DEF TypeInv
<1>13. ManagerOK(mgr)'
    BY <1>1
<1>14. RequestMatches'
    BY <1>1, <1>2 DEF RequestMatches
<1>15. SafetyFresh' /\ KeyRelease'
    BY <1>1 DEF SafetyFresh, KeyRelease
<1>16. CommandMatches'
    <2>1. /\ ~ReadyOf(mgr) => Inert(cmd') /\ ~cmd'.hv /\ ~cmd'.disable
          /\ cmd'.drive # 0 => cmd'.drive = WantOf(mgr) /\ mgr.gear.active # "P"
          /\ cmd'.valves # {} => ReadyOf(mgr) /\ mgr.adjust.state # "IDLE"
          /\ SteerOnly => cmd'.drive = 0
          /\ cmd'.hydraulic <=> cmd'.valves # {}
        BY <1>8
    <2>2. PoweredOf(mgr) /\ ~cmd'.hv => ~contactor
        BY <1>1, <1>8 DEF PoweredOf, SafetyFresh
    <2>3. cmd'.hv => relay'
        BY <1>9, <1>11
    <2>4. ReadyOf(mgr) /\ ~mgr.power.hv /\ contactor => ~relay'
        <3>1. SUFFICES ASSUME ReadyOf(mgr), ~mgr.power.hv, contactor, relay'
                       PROVE  FALSE
            OBVIOUS
        <3>2. ~Stopped(safety)
            BY <1>1, <3>1 DEF SafetyFresh
        <3>3. relay
            BY <1>9, <1>10, <3>1 DEF PoweredOf
        <3>4. mgr.power.disable
            BY <1>1, <3>1, <3>3 DEF KeyRelease
        <3> QED
            BY <1>8, <1>9, <3>1, <3>2, <3>4
    <2> QED
        BY <1>1, <1>7, <1>10, <1>11, <2>1, <2>2, <2>3, <2>4 DEF CommandMatches
<1>17. Quench'
    <2>1. RankOf(mgr) \in Int
        BY RankType
    <2>2. /\ Reached = RankOf(mgr) - 1 /\ (SlowRan <=> ~late)
          /\ turn' = "slow" => Reached' = RankOf(mgr) - 1
          /\ turn' = "safety" => Reached' = RankOf(mgr) /\ ~late
          /\ ~SlowRan'
        BY <1>1, <2>1 DEF Reached, SlowRan
    <2> QED
        BY <1>1, <2>1, <2>2 DEF Quench
<1>18. Rest'
    BY <1>1 DEF Rest
<1>19. Reconnect'
    BY <1>1, <1>8, <1>10 DEF Reconnect
<1>20. Unreported'
    BY <1>1, <1>7 DEF Unreported
<1>21. RollsForward' /\ NoReversalTorque'
    BY <1>1 DEF RollsForward, NoReversalTorque, Torque
<1>22. ValvesParked'
    <2>1. valves # {} /\ ~late => cmd'.drive = 0
        BY <1>1, <1>8 DEF ValvesParked
    <2>2. valves # {} /\ ~late /\ mgr.power.hv /\ ~ReadyOf(mgr) => Torque = 0
        BY <1>1 DEF ValvesParked
    <2>3. hydraulicStopped => valves = {}
        BY DEF ValvesParked
    <2> QED
        BY <1>1, <2>1, <2>2, <2>3 DEF ValvesParked, Torque
<1>23. relay /\ ~relay' => speed = 0 /\ valves = {}
    BY <1>1, <1>9, <1>11 DEF KeyRelease
<1>24. ValvesFollow'
    <2>1. TrackCommand(cmd', mgr)
        BY <1>4, <1>7 DEF TrackCommand
    <2>2. cmd'.assist \in -1..1 /\ mgr.adjust.dir \in -1..1
        BY <1>7 DEF TypeInv, CommandType, ManagerType, AdjustType
    <2>3. CASE cmd'.assist = 0
        <3>1. TrackSide(-cmd'.assist) = {}
            BY <2>3 DEF TrackSide
        <3> QED
            BY <3>1, <2>1, <1>1 DEF ValvesFollow
    <2>4. CASE cmd'.assist # 0
        <3>1. cmd'.valves = TrackSide(cmd'.assist) /\ cmd'.valves \cap TrackMask # {}
            BY <2>1, <2>2, <2>4
            DEF TrackCommand, TrackSide, TrackMask, TrackExtend, TrackRetract
        <3>2. ValvesOpen(mgr.adjust) /\ cmd'.valves = TrackSide(mgr.adjust.dir)
            BY <2>1, <3>1 DEF TrackCommand
        <3>3. cmd'.assist = mgr.adjust.dir
            BY <2>2, <2>4, <3>1, <3>2 DEF TrackSide, TrackExtend, TrackRetract
        <3> QED
            BY <3>2, <3>3, <2>1, <1>1 DEF ValvesFollow
    <2> QED
        BY <2>3, <2>4
<1>25. AssistFollowsValve'
    BY <1>1 DEF AssistFollowsValve
<1> QED
    BY <1>12, <1>13, <1>14, <1>15, <1>16, <1>17, <1>18, <1>19, <1>20, <1>21, <1>22,
       <1>23, <1>24, <1>25

(* SlowStep: the contactors follow the request within two runs of the 10 ms *)
(* tasks, and close on drives without a velocity.                          *)
LEMMA SlowKeeps == IInv /\ SlowStep => IInv'
<1> SUFFICES ASSUME IInv, SlowStep PROVE IInv'
    OBVIOUS
<1> USE DEF IInv
<1>1. /\ turn = "slow" /\ turn' = "safety" /\ ~late
      /\ valves' \in {cmd.valves, {}} /\ hydraulicStopped' = ~cmd.hydraulic
      /\ requested' = cmd.hv /\ bms' = contactor
      /\ UNCHANGED <<late, mgr, request, safety, cmd, relay, zeroSpeed,
                     target, current, speed>>
    BY DEF SlowStep, wheels, TypeInv
<1>2. /\ cmd.hv \in BOOLEAN /\ cmd.hydraulic \in BOOLEAN /\ cmd.valves \in SUBSET (1..6)
      /\ contactor \in BOOLEAN /\ relay \in BOOLEAN /\ requested \in BOOLEAN
    BY DEF TypeInv, CommandType
<1>3. /\ contactor' \in BOOLEAN
      /\ (contactor' <=> cmd.hv) \/ (contactor' = contactor /\ ~(requested <=> cmd.hv))
    <2>1. (cmd.hv /\ relay) <=> cmd.hv
        BY DEF CommandMatches
    <2>2. \/ contactor' = (cmd.hv /\ relay)
          \/ requested # cmd.hv /\ contactor' = contactor
        BY DEF SlowStep
    <2> QED
        BY <1>2, <2>1, <2>2
<1>4. /\ PoweredOf(mgr) /\ ~cmd.hv => ~contactor
      /\ cmd.hv => PoweredOf(mgr)
      /\ cmd.hvReady = bms
    BY <1>1 DEF CommandMatches
<1>5. TypeInv'
    BY <1>1, <1>2, <1>3 DEF TypeInv
<1>6. ManagerOK(mgr)'
    BY <1>1
<1>7. RequestMatches' /\ SafetyFresh' /\ KeyRelease'
    BY <1>1 DEF RequestMatches, SafetyFresh, KeyRelease
<1>8. CommandMatches'
    <2>1. PoweredOf(mgr) /\ ~cmd.hv => ~contactor'
        BY <1>3, <1>4
    <2>2. ReadyOf(mgr) /\ ~mgr.power.hv /\ contactor' => ~relay
        BY <1>1, <1>3, <1>4 DEF CommandMatches, PoweredOf
    <2> QED
        BY <1>1, <2>1, <2>2 DEF CommandMatches
<1>9. Quench'
    <2>1. RankOf(mgr) \in Int
        BY RankType
    <2>2. Reached = RankOf(mgr) - 1 /\ Reached' = RankOf(mgr)
        BY <1>1, <2>1 DEF Reached
    <2>3. RankOf(mgr) >= 0 => ~cmd.hv
        BY <1>1 DEF RankOf, CommandMatches
    <2>4. RankOf(mgr) >= 2 => ~requested
        BY <2>1, <2>2 DEF Quench
    <2>5. RankOf(mgr) >= 0 => ~requested'
        BY <1>1, <2>3
    <2>6. RankOf(mgr) >= 2 => ~contactor'
        BY <1>3, <2>1, <2>3, <2>4
    <2> QED
        BY <2>1, <2>2, <2>5, <2>6 DEF Quench
<1>10. Rest'
    BY <1>1 DEF Rest
<1>11. Reconnect'
    BY <1>1, <1>2, <1>3, <1>4 DEF Reconnect
<1>12. Unreported'
    <2>1. ~contactor => target = 0
        BY <1>1 DEF Rest
    <2>2. bms /\ ~contactor /\ cmd.hv => DriveVelocity(cmd) = 0
        BY <1>1 DEF Reconnect, DriveVelocity
    <2>3. contactor /\ ~bms => target = 0
        BY DEF Unreported
    <2>4. contactor' /\ ~contactor => cmd.hv
        BY <1>2, <1>3
    <2> QED
        BY <1>1, <1>4, <2>1, <2>2, <2>3, <2>4 DEF Unreported
<1>13. RollsForward'
    BY <1>1 DEF RollsForward
<1>14. NoReversalTorque'
    <2>1. ~contactor => target = 0
        BY <1>1 DEF Rest
    <2> QED
        BY <1>1, <2>1 DEF NoReversalTorque, Torque
<1>15. ValvesParked'
    BY <1>1 DEF ValvesParked, CommandMatches
<1>16. ValvesFollow' /\ AssistFollowsValve'
    BY <1>1 DEF ValvesFollow, TrackCommand, AssistFollowsValve
<1> QED
    BY <1>5, <1>6, <1>7, <1>8, <1>9, <1>10, <1>11, <1>12, <1>13, <1>14, <1>15, <1>16

(* Nothing happens in a stuttering step.                                    *)
LEMMA StutterKeeps == IInv /\ UNCHANGED vars => IInv'
<1> SUFFICES ASSUME IInv, UNCHANGED vars PROVE IInv'
    OBVIOUS
<1> USE DEF IInv
<1>1. UNCHANGED <<turn, late, mgr, request, safety, cmd, relay, zeroSpeed,
                  hydraulicStopped, requested, bms, valves, contactor, target, current, speed>>
    BY DEF vars, slow, wheels
<1>2. TypeInv' /\ ManagerOK(mgr)' /\ RequestMatches' /\ SafetyFresh'
    BY <1>1 DEF TypeInv, RequestMatches, SafetyFresh
<1>3. CommandMatches' /\ Quench'
    BY <1>1 DEF CommandMatches, Quench, Reached, SlowRan
<1>4. Rest' /\ Reconnect' /\ Unreported' /\ RollsForward'
    BY <1>1 DEF Rest, Reconnect, Unreported, RollsForward
<1>5. NoReversalTorque' /\ ValvesParked' /\ KeyRelease'
    BY <1>1 DEF NoReversalTorque, Torque, ValvesParked, KeyRelease
<1>6. ValvesFollow' /\ AssistFollowsValve'
    BY <1>1 DEF ValvesFollow, TrackCommand, AssistFollowsValve, Current
<1> QED
    BY <1>2, <1>3, <1>4, <1>5, <1>6

-----------------------------------------------------------------------------
(* Every state of the loop is as IInv says.                                 *)
THEOREM Invariance == Spec => []IInv
<1>1. IInv /\ [Next]_vars => IInv'
    BY SafetyKeeps, Can2Keeps, RemoteKeeps, VehicleKeeps, SlowKeeps, StutterKeeps
    DEF Next
<1> QED
    BY <1>1, InitKeeps, PTL DEF Spec

(* Once the vehicle task has run, the command of a round with a stop or a   *)
(* lost link is inert and asks for no high voltage.                        *)
THEOREM StopClearsCommandHolds == Spec => []StopClearsCommand
<1>1. IInv => StopClearsCommand
    <2> SUFFICES ASSUME IInv, turn \notin {"vehicle", "remote"},
                        mgr.estop.state # "CLEAR" \/ mgr.link.state # "ONLINE"
                 PROVE  Inert(cmd) /\ ~cmd.hv
        BY DEF StopClearsCommand
    <2>1. ~ReadyOf(mgr)
        BY DEF IInv, ManagerOK
    <2> QED
        BY <2>1 DEF IInv, CommandMatches
<1> QED
    BY <1>1, Invariance, PTL

(* The drives are never asked to turn against a rolling vehicle.            *)
THEOREM NoReversalTorqueHolds == Spec => []NoReversalTorque
<1>1. IInv => NoReversalTorque
    BY DEF IInv
<1> QED
    BY <1>1, Invariance, PTL

(* With high voltage asked for, no wheel velocity outlives the CAN2 period  *)
(* in which CAN3 opened a valve.                                           *)
THEOREM HydraulicsExcludeDriveHolds == Spec => []HydraulicsExcludeDrive
<1>1. IInv => HydraulicsExcludeDrive
    BY DEF IInv, ValvesParked, HydraulicsExcludeDrive
<1> QED
    BY <1>1, Invariance, PTL

(* The wheels only push the track the way its open valve moves it, although *)
(* any open track valve lets the current through.                          *)
THEOREM AssistFollowsValveHolds == Spec => []AssistFollowsValve
<1>1. IInv => AssistFollowsValve
    BY DEF IInv
<1> QED
    BY <1>1, Invariance, PTL

(* The battery key is only released at a standstill with the valves shut.   *)
THEOREM RelayReleasedAtRestHolds == Spec => RelayReleasedAtRest
<1>1. IInv /\ [Next]_vars => [relay /\ ~relay' => speed = 0 /\ valves = {}]_vars
    <2> SUFFICES ASSUME IInv, [Next]_vars, relay, ~relay'
                 PROVE  speed = 0 /\ valves = {}
        OBVIOUS
    <2>1. CASE VehicleStep
        BY <2>1, VehicleKeeps
    <2>2. CASE SafetyStep \/ Can2Step \/ RemoteStep \/ SlowStep \/ UNCHANGED vars
        BY <2>2 DEF SafetyStep, Can2Step, RemoteStep, SlowStep, vars
    <2> QED
        BY <2>1, <2>2 DEF Next
<1> QED
    BY <1>1, Invariance, PTL DEF Spec, RelayReleasedAtRest
=============================================================================
