------------------------ MODULE RemoteManager_proofs ------------------------
(***************************************************************************)
(* Proofs about RemoteManager, for every set of samples, preconditions and  *)
(* gaps between calls and every value of the durations.                     *)
(*                                                                         *)
(*   1. each FSM operator keeps its machine in its type, whence TypeCorrect *)
(*   2. the inductive invariant IInv relates the timers of the machines to  *)
(*      what the observer of the samples remembers                          *)
(*   3. the safety and action properties of RemoteManager follow from it    *)
(***************************************************************************)
EXTENDS RemoteManager, RemoteFsms_proofs

-----------------------------------------------------------------------------
(* The observer's counters stay within their caps.                         *)
SeenOK ==
    /\ seen.quiet \in Age(QuietCap)
    /\ seen.still \in Age(3)
    /\ seen.edges \in Age(B1Presses) \cup {Never}
    /\ seen.moving \in {"P", "D", "R"}

(* With no stop latched, a qualifying link has not run longer than the     *)
(* quiet time, and an online link has seen the whole settling time.        *)
LinkSettled ==
    mgr.estop.state = "CLEAR" =>
        /\ mgr.link.state = "QUALIFYING" => seen.quiet > mgr.link.age \/ seen.quiet > Settle
        /\ mgr.link.state = "ONLINE" => seen.quiet > Settle

(* CH13 has not been held in the centre for longer than it was quiet.      *)
HoldIsQuiet == mgr.estop.hold # Never => seen.quiet > mgr.estop.hold

(* Each reset state has cost one more standstill sample.                   *)
ResetProgress ==
    /\ mgr.estop.state = "RESET_REQUESTED" => seen.still >= 1
    /\ mgr.estop.state = "CLEAR_WAIT_NORMAL" => seen.still >= 2

(* Authority and the wait for it need the link and a clear stop, and the   *)
(* neutral timer adds to the settling time, but for one gap.               *)
ArmHolds ==
    /\ mgr.arm.state = "DISARMED" => mgr.arm.age = 0
    /\ mgr.arm.state = "READY" => mgr.arm.age = NeutralQualify
    /\ mgr.arm.state # "DISARMED" =>
          /\ mgr.link.state = "ONLINE" /\ mgr.estop.state = "CLEAR"
          /\ \E dt \in Gaps : seen.quiet + dt > Settle + mgr.arm.age

(* While motion in a drive gear is remembered, only that gear is engaged.  *)
MovingGear == seen.moving # "P" => mgr.gear.active \in {"P", seen.moving}

(* The mode FSM and the observer agree on HOME and on its age.             *)
HomeAgrees == seen.home = mgr.mode.reqDomain /\ seen.homeAge = mgr.mode.age

(* The gesture counter never runs ahead of the edges seen.                 *)
GestureCounted ==
    /\ mgr.b1.synced <=> seen.edges # Never
    /\ mgr.b1.synced => mgr.b1.count <= seen.edges
    /\ mgr.b1.requested # Never => seen.edges >= B1Presses

(* The inductive invariant.                                                *)
IInv == /\ TypeOK /\ SeenOK /\ LinkSettled /\ HoldIsQuiet /\ ResetProgress
        /\ ArmHolds /\ MovingGear /\ HomeAgrees /\ GestureCounted

-----------------------------------------------------------------------------
(* The FSMs start in their types (ecu_task_runtime_init).                   *)
LEMMA InitType == Init => TypeOK
BY ManagerInitType DEF Init, TypeOK, ManagerType

(* No call takes an FSM out of its type.                                    *)
LEMMA NextType == TypeOK /\ [Next]_vars => TypeOK'
BY ManagerUpdateType, InputsAssumption, ConditionsAssumption, GapsAssumption
   DEF Next, Update, vars, TypeOK, ManagerType

(* Every machine stays in its states and every timer within its cap.        *)
THEOREM TypeCorrect == Spec => []TypeOK
BY InitType, NextType, PTL DEF Spec

-----------------------------------------------------------------------------
(* A bad sample always latches the stop and ends a centre hold.             *)
LEMMA BadStops ==
    ASSUME NEW e, NEW in \in InputType, NEW pre, NEW dt, Bad(in)
    PROVE  /\ EstopUpdate(e, in, pre, dt).state = "LATCHED"
           /\ EstopUpdate(e, in, pre, dt).hold = Never
<1>1. in.ch13 \in Endpoint \/ SbusFlags(in) # {}
    <2>1. CASE SbusFlags(in) = {}
        <3>1. "timeout" \notin in.flags /\ PositionsValid(in)
            BY <2>1 DEF SbusFlags
        <3> QED
            BY <2>1, <3>1 DEF Bad, PositionsValid, InputType, Position, Endpoint
    <2> QED
        BY <2>1
<1> QED
    BY <1>1 DEF EstopUpdate

(* The durations and the cap of the quiet time are ordered.                 *)
LEMMA Bounds ==
    /\ Settle \in Nat /\ CenterHold \in Nat /\ LinkQualify \in Nat
    /\ NeutralQualify \in Nat /\ QuietCap \in Nat
    /\ Settle <= CenterHold /\ Settle <= LinkQualify
    /\ CenterHold < QuietCap /\ LinkQualify < QuietCap
    /\ Settle + NeutralQualify < QuietCap
BY DurationsAssumption DEF Settle, QuietCap

(* A centre hold is shorter than the quiet time it is part of.              *)
LEMMA HoldGrows ==
    ASSUME NEW e \in EstopType, NEW quiet \in Age(QuietCap), NEW in,
           NEW dt \in Nat \ {0}, e.hold # Never => quiet > e.hold
    PROVE  CenterHeld(e, in, dt) # Never =>
             Grow(quiet, dt, QuietCap) > CenterHeld(e, in, dt)
<1>1. CASE e.hold = Never
    BY <1>1, Bounds DEF CenterHeld, Grow, Age, Never
<1>2. CASE e.hold # Never
    <2>1. e.hold \in Age(CenterHold)
        BY <1>2 DEF EstopType
    <2> QED
        BY <1>2, <2>1, Bounds DEF CenterHeld, Grow, Age
<1> QED
    BY <1>1, <1>2

(* The invariant holds at boot.                                             *)
LEMMA InitInvariant == Init => IInv
<1> SUFFICES ASSUME Init
             PROVE  IInv
    OBVIOUS
<1>1. TypeOK
    BY InitType
<1>2. SeenOK
    BY DurationsAssumption DEF Init, SeenInit, SeenOK, Age, QuietCap, Never
<1>3. LinkSettled /\ HoldIsQuiet /\ ResetProgress
    BY DEF Init, ManagerInit, LinkInit, EstopInit, LinkSettled, HoldIsQuiet,
           ResetProgress
<1>4. ArmHolds /\ MovingGear /\ HomeAgrees
    BY DEF Init, ManagerInit, ArmInit, ModeInit, SeenInit, ArmHolds, MovingGear,
           HomeAgrees
<1>5. GestureCounted
    BY DEF Init, ManagerInit, B1Init, SeenInit, GestureCounted
<1> QED
    BY <1>1, <1>2, <1>3, <1>4, <1>5 DEF IInv

(* Every call of remote_manager_update keeps the invariant.                 *)
LEMMA StepInvariant == IInv /\ [Next]_vars => IInv'
<1> SUFFICES ASSUME IInv, [Next]_vars
             PROVE  IInv'
    OBVIOUS
<1>1. CASE UNCHANGED vars
    BY <1>1 DEF vars, IInv, TypeOK, ManagerType, SeenOK, LinkSettled, HoldIsQuiet,
        ResetProgress, ArmHolds, MovingGear, HomeAgrees, GestureCounted
<1>2. ASSUME NEW in \in Inputs, NEW pre \in Conditions, NEW dt \in Gaps,
             Update(in, pre, dt)
      PROVE  IInv'
    <2>1. in \in InputType /\ pre \in ConditionType /\ dt \in Nat \ {0}
        BY InputsAssumption, ConditionsAssumption, GapsAssumption
    <2>2. mgr' = ManagerUpdate(mgr, in, pre, dt)
        BY <1>2 DEF Update
    <2>3. seen' = Observe(seen, mgr', in, pre, dt)
        BY <1>2 DEF Update
    <2>4. TypeOK'
        BY <1>2, NextType DEF IInv, Next
    <2>5. /\ mgr.link \in LinkType /\ mgr.estop \in EstopType
          /\ mgr.arm \in ArmType /\ mgr.b1 \in B1Type /\ mgr.mode \in ModeType
          /\ mgr'.link \in LinkType /\ mgr'.estop \in EstopType
          /\ mgr'.gear \in GearType
        BY <2>4 DEF IInv, TypeOK, ManagerType
    <2>6. /\ mgr'.link = LinkUpdate(mgr.link, in, dt)
          /\ mgr'.estop = EstopUpdate(mgr.estop, in, pre, dt)
          /\ mgr'.arm = ArmUpdate(mgr.arm, in, Derive(in, pre, mgr'.link, mgr'.estop), dt)
          /\ mgr'.mode = ModeUpdate(mgr.mode, in, Shown(mgr, mgr', in, pre), dt)
          /\ mgr'.b1 = B1Update(mgr.b1, in,
                CalibrationGate(mgr'.link, mgr'.estop, mgr'.arm, mgr'.gear, in), dt)
        BY <2>2, UpdateParts
    <2>7. /\ seen'.quiet = IF Bad(in) THEN 0 ELSE Grow(seen.quiet, dt, QuietCap)
          /\ seen.quiet \in Age(QuietCap)
        BY <2>3 DEF Observe, IInv, SeenOK
    <2>8. SeenOK'
        <3>1. seen'.quiet \in Age(QuietCap)
            BY <2>1, <2>7, Bounds DEF Grow, Age
        <3>2. seen'.still \in Age(3)
            BY <2>3 DEF Observe, Grow, Age, IInv, SeenOK
        <3>3. seen'.edges \in Age(B1Presses) \cup {Never}
            <4>1. seen.edges # Never => Grow(seen.edges, 1, B1Presses) \in Age(B1Presses)
                BY DurationsAssumption, GrowBounds DEF IInv, SeenOK
            <4>2. 0 \in Age(B1Presses)
                BY DurationsAssumption DEF Age
            <4> QED
                BY <2>3, <4>1, <4>2 DEF Observe, IInv, SeenOK
        <3>4. seen'.moving \in {"P", "D", "R"}
            BY <2>3, <2>5 DEF Observe, GearType, IInv, SeenOK
        <3> QED
            BY <3>1, <3>2, <3>3, <3>4 DEF SeenOK
    <2>9. Bad(in) => mgr'.estop.state = "LATCHED" /\ mgr'.estop.hold = Never
        BY <2>1, <2>6, BadStops
    <2>10. ~Bad(in) => in.ch13 = "CENTER" /\ SbusFlags(in) = {}
        BY DEF Bad
    <2>11. CenterHeld(mgr.estop, in, dt) # Never =>
             Grow(seen.quiet, dt, QuietCap) > CenterHeld(mgr.estop, in, dt)
        BY <2>1, <2>5, <2>7, HoldGrows DEF IInv, HoldIsQuiet
    <2>12. HoldIsQuiet'
        <3>1. mgr'.estop.hold \in {Never, CenterHeld(mgr.estop, in, dt)}
            BY <2>6 DEF EstopUpdate, EstopInit
        <3> QED
            BY <2>7, <2>9, <2>11, <3>1 DEF HoldIsQuiet
    <2>13. ResetProgress'
        <3>1. CASE mgr'.estop.state \in {"RESET_REQUESTED", "CLEAR_WAIT_NORMAL"}
            <4>1. /\ mgr.estop.state # "CLEAR"
                  /\ ResetAllowed(CenterHeld(mgr.estop, in, dt), pre)
                  /\ mgr'.estop.state = ResetStep[mgr.estop.state]
                BY <2>6, <3>1 DEF EstopUpdate, EstopInit
            <4>2. seen'.still = Grow(seen.still, 1, 3)
                BY <2>3, <4>1 DEF Observe, Standstill, ResetAllowed
            <4>3. mgr'.estop.state = "CLEAR_WAIT_NORMAL"
                    => mgr.estop.state = "RESET_REQUESTED"
                BY <2>5, <4>1 DEF ResetStep, EstopType
            <4>4. seen.still \in Age(3)
                BY DEF IInv, SeenOK
            <4> QED
                BY <4>2, <4>3, <4>4 DEF ResetProgress, IInv, Grow, Age
        <3> QED
            BY <3>1 DEF ResetProgress
    <2>14. LinkSettled'
        <3> SUFFICES ASSUME mgr'.estop.state = "CLEAR"
                     PROVE  /\ mgr'.link.state = "QUALIFYING" =>
                                  seen'.quiet > mgr'.link.age \/ seen'.quiet > Settle
                            /\ mgr'.link.state = "ONLINE" => seen'.quiet > Settle
            BY DEF LinkSettled
        <3>1. ~Bad(in) /\ seen'.quiet = Grow(seen.quiet, dt, QuietCap)
            BY <2>7, <2>9
        <3>2. CASE mgr.estop.state # "CLEAR"
            <4>1. CenterHeld(mgr.estop, in, dt) # Never
                    /\ CenterHeld(mgr.estop, in, dt) >= CenterHold
                BY <2>6, <2>10, <3>1, <3>2 DEF EstopUpdate, ResetAllowed
            <4>2. CenterHeld(mgr.estop, in, dt) \in Nat
                BY <2>1, <2>5, <4>1, Bounds DEF CenterHeld, EstopType, Grow, Age
            <4>3. seen'.quiet > Settle
                BY <2>7, <2>8, <2>11, <3>1, <4>1, <4>2, Bounds DEF SeenOK, Age
            <4> QED
                BY <4>3
        <3>3. CASE mgr.estop.state = "CLEAR"
            <4>1. mgr.link.state = "ONLINE" => seen.quiet > Settle
                BY <3>3 DEF IInv, LinkSettled
            <4>2. mgr.link.state = "QUALIFYING" =>
                    seen.quiet > mgr.link.age \/ seen.quiet > Settle
                BY <3>3 DEF IInv, LinkSettled
            <4>3. seen.quiet > Settle => seen'.quiet > Settle
                BY <2>1, <2>7, <3>1, Bounds DEF Grow, Age
            <4>4. mgr.link.age \in Age(LinkQualify)
                BY <2>5 DEF LinkType
            <4>5. CASE mgr.link.state = "ONLINE"
                BY <2>6, <2>10, <3>1, <4>1, <4>3, <4>5 DEF LinkUpdate
            <4>6. CASE mgr.link.state # "ONLINE"
                <5> DEFINE since == IF mgr.link.state = "QUALIFYING"
                                    THEN Grow(mgr.link.age, dt, LinkQualify) ELSE 0
                <5>1. mgr'.link = [state |-> IF since >= LinkQualify THEN "ONLINE"
                                             ELSE "QUALIFYING", age |-> since]
                    BY <2>6, <2>10, <3>1, <4>6 DEF LinkUpdate
                <5>2. since \in Nat
                    BY <2>1, <4>4, Bounds DEF Grow, Age
                <5>3. seen'.quiet > since \/ seen'.quiet > Settle
                    <6>1. CASE mgr.link.state # "QUALIFYING"
                        BY <2>1, <2>7, <3>1, <6>1, Bounds DEF Grow, Age
                    <6>2. CASE mgr.link.state = "QUALIFYING" /\ seen.quiet > Settle
                        BY <4>3, <6>2
                    <6>3. CASE mgr.link.state = "QUALIFYING" /\ seen.quiet > mgr.link.age
                        BY <2>1, <2>7, <3>1, <4>4, <6>3, Bounds DEF Grow, Age
                    <6> QED
                        BY <4>2, <6>1, <6>2, <6>3
                <5>4. seen'.quiet \in Nat
                    BY <2>8, Bounds DEF SeenOK, Age
                <5> HIDE DEF since
                <5>5. mgr'.link.age = since
                    BY <5>1
                <5>6. mgr'.link.state = "ONLINE" => since >= LinkQualify
                    BY <5>1
                <5> QED
                    BY <5>2, <5>3, <5>4, <5>5, <5>6, Bounds
            <4> QED
                BY <4>5, <4>6
        <3> QED
            BY <3>2, <3>3
    <2>15. ArmHolds'
        <3> DEFINE d == Derive(in, pre, mgr'.link, mgr'.estop)
        <3>1. CASE ~ArmAllowed(d)
            <4>1. mgr'.arm = ArmInit
                BY <2>6, <3>1 DEF ArmUpdate
            <4> QED
                BY <4>1 DEF ArmInit, ArmHolds
        <3>2. CASE ArmAllowed(d)
            <4>1. mgr'.link.state = "ONLINE" /\ mgr'.estop.state = "CLEAR"
                BY <3>2 DEF ArmAllowed, Derive
            <4>2. seen'.quiet > Settle
                BY <2>14, <4>1 DEF LinkSettled
            <4>3. seen'.quiet = Grow(seen.quiet, dt, QuietCap)
                BY <2>7, <2>9, <4>1
            <4>4. mgr.arm.age \in Age(NeutralQualify)
                BY <2>5 DEF ArmType
            <4>5. seen'.quiet \in Nat /\ seen.quiet \in Nat
                BY <2>7, <2>8, Bounds DEF SeenOK, Age
            <4>6. CASE mgr.arm.state = "READY"
                <5>1. mgr'.arm = mgr.arm
                    BY <2>6, <3>2, <4>6 DEF ArmUpdate
                <5>2. PICK g \in Gaps : seen.quiet + g > Settle + mgr.arm.age
                    BY <4>6 DEF IInv, ArmHolds
                <5>3. g \in Nat \ {0} /\ mgr.arm.age \in 0..NeutralQualify
                    BY <4>4, GapsAssumption DEF Age
                <5>4. seen'.quiet + g > Settle + mgr.arm.age
                    BY <2>1, <4>3, <4>5, <5>2, <5>3, Bounds DEF Grow
                <5> QED
                    BY <4>1, <4>6, <5>1, <5>4 DEF ArmHolds, IInv
            <4>7. CASE mgr.arm.state # "READY" /\ ~NeutralEntry(in)
                <5>1. mgr'.arm = [state |-> "WAIT_NEUTRAL", age |-> 0]
                    BY <2>6, <3>2, <4>7 DEF ArmUpdate
                <5>2. seen'.quiet + dt > Settle + 0
                    BY <2>1, <4>2, <4>5, Bounds
                <5> QED
                    BY <4>1, <5>1, <5>2 DEF ArmHolds
            <4>8. CASE mgr.arm.state # "READY" /\ NeutralEntry(in)
                <5> DEFINE since == Grow(mgr.arm.age, dt, NeutralQualify)
                <5>1. mgr'.arm = [state |-> IF since >= NeutralQualify THEN "READY"
                                            ELSE "WAIT_NEUTRAL", age |-> since]
                    BY <2>6, <3>2, <4>8 DEF ArmUpdate
                <5>2. since \in 0..NeutralQualify
                    BY <2>1, <4>4, Bounds DEF Grow, Age
                <5>3. \E g \in Gaps : seen'.quiet + g > Settle + since
                    <6>1. CASE mgr.arm.state = "DISARMED"
                        <7>1. mgr.arm.age = 0
                            BY <6>1 DEF IInv, ArmHolds
                        <7>2. since <= dt
                            BY <2>1, <7>1, Bounds DEF Grow
                        <7>3. seen'.quiet + dt > Settle + since
                            BY <2>1, <4>2, <4>5, <5>2, <7>2, Bounds
                        <7> QED
                            BY <7>3
                    <6>2. CASE mgr.arm.state # "DISARMED"
                        <7>1. PICK g \in Gaps : seen.quiet + g > Settle + mgr.arm.age
                            BY <6>2 DEF IInv, ArmHolds
                        <7>2. seen'.quiet + g > Settle + since
                            BY <2>1, <4>3, <4>4, <4>5, <7>1, GapsAssumption,
                               Bounds
                               DEF Grow, Age
                        <7> QED
                            BY <7>2
                    <6> QED
                        BY <6>1, <6>2
                <5> HIDE DEF since
                <5>4. mgr'.arm.state = "READY" => mgr'.arm.age = NeutralQualify
                    BY <5>1, <5>2, Bounds
                <5>5. mgr'.arm.state # "DISARMED" /\ mgr'.arm.age = since
                    BY <5>1
                <5> QED
                    BY <4>1, <5>3, <5>4, <5>5 DEF ArmHolds
            <4> QED
                BY <4>6, <4>7, <4>8
        <3> QED
            BY <3>1, <3>2
    <2>16. MovingGear'
        BY <2>3, <2>5 DEF Observe, MovingGear, GearType, IInv
    <2>17. HomeAgrees'
        BY <2>3, <2>6 DEF Observe, HomeAgrees, ModeUpdate, IInv
    <2>18. GestureCounted'
        <3> DEFINE gate == CalibrationGate(mgr'.link, mgr'.estop, mgr'.arm, mgr'.gear, in)
        <3>1. seen'.edges = IF ~gate THEN Never ELSE IF seen.edges = Never THEN 0
                            ELSE IF in.b1Changed THEN Grow(seen.edges, 1, B1Presses)
                            ELSE seen.edges
            BY <2>3 DEF Observe
        <3>2. mgr'.b1 = B1Update(mgr.b1, in, gate, dt)
            BY <2>6
        <3> HIDE DEF gate
        <3>3. CASE ~gate
            BY <3>1, <3>2, <3>3 DEF B1Update, B1Init, GestureCounted
        <3>4. CASE gate /\ ~mgr.b1.synced
            BY <3>1, <3>2, <3>4, DurationsAssumption
               DEF B1Update, GestureCounted, IInv, Never
        <3>5. CASE gate /\ mgr.b1.synced /\ ~in.b1Changed
            BY <2>5, <3>1, <3>2, <3>5 DEF B1Update, GestureCounted, IInv,
               B1Type, Never
        <3>6. CASE gate /\ mgr.b1.synced /\ in.b1Changed
            <4> DEFINE b == mgr.b1
                       window == Grow(b.window, dt, B1Window + 1)
                       requested == IF b.requested = Never THEN Never
                                    ELSE Grow(b.requested, dt, B1Hold + 1)
                       fresh == b.count = 0 \/ window > B1Window
                       count == (IF fresh THEN 0 ELSE b.count) + 1
            <4>1. mgr'.b1 = IF count >= B1Presses
                       THEN [synced |-> TRUE, count |-> 0, window |-> 0, requested |-> 0]
                       ELSE [synced |-> TRUE, count |-> count,
                             window |-> IF fresh THEN 0 ELSE window,
                             requested |-> requested]
                BY <3>2, <3>6 DEF B1Update
            <4>2. /\ seen.edges # Never /\ b.count <= seen.edges
                  /\ b.requested # Never => seen.edges >= B1Presses
                BY <3>6 DEF GestureCounted, IInv
            <4>3. seen.edges \in 0..B1Presses
                BY <4>2 DEF IInv, SeenOK, Age
            <4>4. seen'.edges = Grow(seen.edges, 1, B1Presses)
                BY <3>1, <3>6, <4>2
            <4>5. b.count \in Nat /\ count \in Nat /\ count <= b.count + 1
                BY <2>5, DurationsAssumption DEF B1Type
            <4>6. requested # Never => b.requested # Never
                OBVIOUS
            <4> HIDE DEF b, window, requested, fresh, count
            <4>7. CASE count >= B1Presses
                <5>1. /\ mgr'.b1.synced /\ mgr'.b1.count = 0
                      /\ seen.edges + 1 >= B1Presses
                    BY <4>1, <4>2, <4>3, <4>5, <4>7, DurationsAssumption
                <5> QED
                    BY <4>3, <4>4, <5>1, DurationsAssumption
                       DEF GestureCounted, Grow, Never
            <4>8. CASE ~(count >= B1Presses)
                <5>1. /\ mgr'.b1.synced /\ mgr'.b1.count = count
                      /\ mgr'.b1.requested = requested
                    BY <4>1, <4>8
                <5>2. seen'.edges >= count /\ seen'.edges >= seen.edges
                      /\ seen'.edges \in Nat
                    BY <4>2, <4>3, <4>4, <4>5, <4>8, DurationsAssumption DEF
                       Grow
                <5> QED
                    BY <4>2, <4>3, <4>6, <5>1, <5>2, DurationsAssumption
                       DEF GestureCounted, Never
            <4> QED
                BY <4>7, <4>8
        <3> QED
            BY <3>3, <3>4, <3>5, <3>6
    <2> QED
        BY <2>4, <2>8, <2>12, <2>13, <2>14, <2>15, <2>16, <2>17, <2>18 DEF IInv
<1> QED
    BY <1>1, <1>2 DEF Next

(* The inductive invariant: what the timers of the link, the stop and the   *)
(* arming FSM know about the samples an observer has seen.                  *)
THEOREM Invariance == Spec => []IInv
BY InitInvariant, StepInvariant, PTL DEF Spec

-----------------------------------------------------------------------------
(* No order of link loss, stop, reset and re-arming shortens the quiet time *)
(* before drive authority (remote_arm_fsm_update).                          *)
THEOREM RearmDelayHolds == Spec => []RearmDelay
<1>1. IInv => RearmDelay
    BY DEF IInv, ArmHolds, RearmDelay, Earned
<1> QED
    BY <1>1, Invariance, PTL

(* HOME in the centre takes the vehicle out of gear before any adjustment   *)
(* function runs (remote_manager_update).                                   *)
THEOREM AdjustExcludesDriveHolds == Spec => []AdjustExcludesDrive
<1>1. Init => AdjustExcludesDrive
    BY DEF Init, ManagerInit, GearInit, AdjustInit, AdjustExcludesDrive
<1>2. AdjustExcludesDrive /\ [Next]_vars => AdjustExcludesDrive'
    <2> SUFFICES ASSUME NEW in \in Inputs, NEW pre \in Conditions,
                        NEW dt \in Gaps, Update(in, pre, dt)
                 PROVE  AdjustExcludesDrive'
        BY DEF Next, vars, AdjustExcludesDrive
    <2>1. /\ mgr'.gear = GearUpdate(mgr.gear, in, ShownGear(mgr, mgr', in, pre))
          /\ mgr'.adjust = AdjustUpdate(mgr.adjust, in,
                                        ShownAdjust(mgr, mgr', in, pre), dt)
        BY UpdateParts DEF Update
    <2>2. CASE in.home # "CENTER"
        BY <2>1, <2>2 DEF AdjustUpdate, Own, ClearTrack, AdjustExcludesDrive
    <2>3. CASE in.home = "CENTER"
        <3>1. ShownGear(mgr, mgr', in, pre).adjustmentActive
            BY <2>3 DEF ShownGear, Derive, AdjustmentWanted
        <3> QED
            BY <2>1, <3>1 DEF GearUpdate, AdjustExcludesDrive
    <2> QED
        BY <2>2, <2>3
<1> QED
    BY <1>1, <1>2, PTL DEF Spec

(* A zero calibration is only requested after the whole B1 gesture          *)
(* (remote_manager_update_b1_zero_calibration_request).                     *)
THEOREM CalibrationNeedsGestureHolds == Spec => []CalibrationNeedsGesture
<1>1. IInv => CalibrationNeedsGesture
    BY DEF IInv, GestureCounted, CalibrationNeedsGesture
<1> QED
    BY <1>1, Invariance, PTL

(* A latched stop is cleared after an undisturbed centre hold and three     *)
(* standstill samples in a row only (remote_estop_fsm_update).              *)
THEOREM EstopClearsSafelyHolds == Spec => EstopClearsSafely
<1>1. IInv /\ [Next]_vars =>
        [mgr.estop.state # "CLEAR" /\ mgr'.estop.state = "CLEAR"
           => seen'.quiet >= CenterHold /\ seen'.still = 3]_vars
    <2> SUFFICES ASSUME IInv, NEW in \in Inputs, NEW pre \in Conditions,
                        NEW dt \in Gaps, Update(in, pre, dt),
                        mgr.estop.state # "CLEAR", mgr'.estop.state = "CLEAR"
                 PROVE  seen'.quiet >= CenterHold /\ seen'.still = 3
        BY DEF Next
    <2>1. in \in InputType /\ dt \in Nat \ {0}
        BY InputsAssumption, GapsAssumption
    <2>2. /\ mgr'.estop = EstopUpdate(mgr.estop, in, pre, dt)
          /\ seen' = Observe(seen, mgr', in, pre, dt)
        BY UpdateParts DEF Update
    <2>3. mgr.estop \in EstopType
        BY DEF IInv, TypeOK, ManagerType
    <2>4. ~Bad(in)
        BY <2>1, <2>2, BadStops
    <2>5. /\ ResetAllowed(CenterHeld(mgr.estop, in, dt), pre)
          /\ mgr.estop.state = "CLEAR_WAIT_NORMAL"
        BY <2>2, <2>3, <2>4 DEF Bad, EstopUpdate, ResetStep, EstopType
    <2>6. seen'.still = 3
        <3>1. seen.still >= 2 /\ seen.still \in 0..3
            BY <2>5 DEF IInv, ResetProgress, SeenOK, Age
        <3>2. seen'.still = Grow(seen.still, 1, 3)
            BY <2>2, <2>5 DEF Observe, Standstill, ResetAllowed
        <3> QED
            BY <3>1, <3>2 DEF Grow
    <2>7. seen'.quiet >= CenterHold
        <3>1. seen'.quiet = Grow(seen.quiet, dt, QuietCap)
            BY <2>2, <2>4 DEF Observe
        <3>2. CenterHeld(mgr.estop, in, dt) # Never
                /\ CenterHeld(mgr.estop, in, dt) >= CenterHold
            BY <2>5 DEF ResetAllowed
        <3>3. seen'.quiet > CenterHeld(mgr.estop, in, dt)
            BY <2>1, <2>3, <3>1, <3>2, HoldGrows DEF IInv, HoldIsQuiet, SeenOK
        <3>4. CenterHeld(mgr.estop, in, dt) \in Nat /\ seen'.quiet \in Nat
            BY <2>1, <2>3, <3>1, <3>2, Bounds
               DEF CenterHeld, EstopType, Grow, Age, IInv, SeenOK
        <3> QED
            BY <3>2, <3>3, <3>4, Bounds
    <2> QED
        BY <2>6, <2>7
<1> QED
    BY <1>1, Invariance, PTL DEF Spec, EstopClearsSafely

(* Motion in one gear is followed by the other gear only after a sample at  *)
(* zero speed (remote_gear_fsm_update).                                     *)
THEOREM NoReversalWhileMovingHolds == Spec => NoReversalWhileMoving
<1>1. IInv /\ [Next]_vars =>
        [seen.moving # "P" /\ mgr'.gear.active = Opposite(seen.moving)
           => seen'.moving = "P"]_vars
    <2> SUFFICES ASSUME IInv, NEW in \in Inputs, NEW pre \in Conditions,
                        NEW dt \in Gaps, Update(in, pre, dt),
                        seen.moving # "P",
                        mgr'.gear.active = Opposite(seen.moving)
                 PROVE  seen'.moving = "P"
        BY DEF Next
    <2>1. /\ mgr'.gear = GearUpdate(mgr.gear, in, ShownGear(mgr, mgr', in, pre))
          /\ seen' = Observe(seen, mgr', in, pre, dt)
        BY UpdateParts DEF Update
    <2>2. ShownGear(mgr, mgr', in, pre).zeroSpeed = pre.zeroSpeed
        BY DEF ShownGear, Derive
    <2>3. mgr.gear.active \in {"P", seen.moving} /\ seen.moving \in {"D", "R"}
        BY DEF IInv, MovingGear, SeenOK
    <2>4. Opposite(seen.moving) \in {"D", "R"} \ {seen.moving}
        BY <2>3 DEF Opposite
    <2>5. pre.zeroSpeed
        BY <2>1, <2>2, <2>3, <2>4 DEF GearUpdate, ShiftRejected
    <2> QED
        BY <2>1, <2>5 DEF Observe
<1> QED
    BY <1>1, Invariance, PTL DEF Spec, NoReversalWhileMoving

(* Authority begins in P (remote_arm_fsm_update and remote_gear_fsm_update).*)
THEOREM ArmsOnlyInParkHolds == Spec => ArmsOnlyInPark
<1>1. [Next]_vars => [mgr.arm.state # "READY" /\ mgr'.arm.state = "READY"
                        => mgr'.gear.active = "P"]_vars
    <2> SUFFICES ASSUME NEW in \in Inputs, NEW pre \in Conditions,
                        NEW dt \in Gaps, Update(in, pre, dt),
                        mgr.arm.state # "READY", mgr'.arm.state = "READY"
                 PROVE  mgr'.gear.active = "P"
        BY DEF Next
    <2>1. /\ mgr'.arm = ArmUpdate(mgr.arm, in,
                                  Derive(in, pre, mgr'.link, mgr'.estop), dt)
          /\ mgr'.gear = GearUpdate(mgr.gear, in, ShownGear(mgr, mgr', in, pre))
        BY UpdateParts DEF Update
    <2>2. NeutralEntry(in)
        BY <2>1 DEF ArmUpdate, ArmInit
    <2> QED
        BY <2>1, <2>2 DEF NeutralEntry, GearUpdate, GearFromPosition
<1> QED
    BY <1>1, PTL DEF Spec, ArmsOnlyInPark

(* Mode and domain change at a standstill in P, no stop latched, after the  *)
(* guard time of HOME (remote_mode_fsm_update).                             *)
THEOREM ModeChangesParkedHolds == Spec => ModeChangesParked
<1>1. IInv /\ [Next]_vars =>
        [<<mgr.mode.motion, mgr.mode.domain>> # <<mgr'.mode.motion, mgr'.mode.domain>>
           => /\ mgr'.gear.active = "P" /\ mgr'.estop.state = "CLEAR"
              /\ seen'.moving = "P" /\ seen'.homeAge >= DomainGuard
              /\ mgr'.mode.domain = seen'.home]_vars
    <2> SUFFICES ASSUME IInv, NEW in \in Inputs, NEW pre \in Conditions,
                        NEW dt \in Gaps, Update(in, pre, dt),
                        mgr.mode.motion # mgr'.mode.motion
                          \/ mgr.mode.domain # mgr'.mode.domain
                 PROVE  /\ mgr'.gear.active = "P" /\ mgr'.estop.state = "CLEAR"
                        /\ seen'.moving = "P" /\ seen'.homeAge >= DomainGuard
                        /\ mgr'.mode.domain = seen'.home
        BY DEF Next
    <2> DEFINE d == Shown(mgr, mgr', in, pre)
    <2>1. /\ mgr'.mode = ModeUpdate(mgr.mode, in, d, dt)
          /\ seen' = Observe(seen, mgr', in, pre, dt)
        BY UpdateParts DEF Update
    <2>2. mgr.mode \in ModeType
        BY DEF IInv, TypeOK, ManagerType
    <2>3. /\ d.zeroSpeed = pre.zeroSpeed
          /\ d.estopLatched = (mgr'.estop.state # "CLEAR")
          /\ d.activeGear = mgr'.gear.active
        BY ShownFields
    <2> HIDE DEF d
    <2>4. /\ in.home # "INVALID" /\ DomainFromHome(in.home) = mgr.mode.reqDomain
          /\ Grow(mgr.mode.age, dt, DomainGuard) >= DomainGuard
          /\ ModeAllowed(d) /\ mgr'.mode.domain = DomainFromHome(in.home)
        BY <2>1, <2>2, DurationsAssumption DEF ModeUpdate, ModeType, Grow, Age
    <2>5. seen.home = mgr.mode.reqDomain /\ seen.homeAge = mgr.mode.age
        BY DEF IInv, HomeAgrees
    <2> QED
        BY <2>1, <2>3, <2>4, <2>5 DEF Observe, ModeAllowed
<1> QED
    BY <1>1, Invariance, PTL DEF Spec, ModeChangesParked

(* High voltage is only requested by a remote with drive authority, which   *)
(* has earned it by the quiet time (remote_power_fsm_update).               *)
THEOREM PowerOnAfterQuietHolds == Spec => PowerOnAfterQuiet
<1>1. IInv /\ IInv' /\ [Next]_vars =>
        [~mgr.power.hv /\ mgr'.power.hv => Earned(seen'.quiet)]_vars
    <2> SUFFICES ASSUME IInv, IInv', NEW in \in Inputs, NEW pre \in Conditions,
                        NEW dt \in Gaps, Update(in, pre, dt),
                        ~mgr.power.hv, mgr'.power.hv
                 PROVE  Earned(seen'.quiet)
        BY DEF Next
    <2>1. mgr'.power = PowerUpdate(mgr.power, in, Shown(mgr, mgr', in, pre), dt)
        BY UpdateParts DEF Update
    <2>2. mgr.power \in PowerType
        BY DEF IInv, TypeOK, ManagerType
    <2>3. PowerOnAllowed(Shown(mgr, mgr', in, pre))
        BY <2>1, <2>2 DEF PowerUpdate, PowerType
    <2>4. mgr'.arm.state = "READY"
        BY <2>3, ShownFields DEF PowerOnAllowed
    <2> QED
        BY <2>4 DEF IInv, ArmHolds, Earned
<1> QED
    BY <1>1, Invariance, PTL DEF Spec, PowerOnAfterQuiet

-----------------------------------------------------------------------------
(* The direction latched is the one the valves last moved in, and the other *)
(* one has not been pending for longer than the valves have been closed.    *)
WheelPaced ==
    /\ seen.closed \in Age(TrackStable)
    /\ mgr.adjust.dir \in {0, seen.track}
    /\ mgr.adjust.pending \notin {0, seen.track} => seen.closed >= mgr.adjust.since

(* Every call keeps the pace of the wheel, and opens the valves the other   *)
(* way only after the pause.                                               *)
LEMMA WheelStep ==
    ASSUME TypeOK, WheelPaced, NEW in \in Inputs, NEW pre \in Conditions,
           NEW dt \in Gaps, Update(in, pre, dt)
    PROVE  /\ WheelPaced'
           /\ TrackValve(mgr') \notin {0, seen.track} /\ seen.track # 0
                => seen.closed + dt >= TrackStable
<1> DEFINE a == mgr.adjust
           n == mgr'.adjust
           open == TrackValve(mgr') # 0
<1>1. /\ a \in AdjustType /\ in \in InputType /\ dt \in Nat /\ TrackStable \in Nat
      /\ 0 \in Age(TrackStable)
    BY InputsAssumption, GapsAssumption, DurationsAssumption DEF TypeOK, ManagerType, Age
<1>2. n = AdjustUpdate(a, in, ShownAdjust(mgr, mgr', in, pre), dt)
    BY UpdateParts DEF Update
<1>3. /\ seen'.track = IF open THEN TrackValve(mgr') ELSE seen.track
      /\ seen'.closed = IF open THEN 0 ELSE Grow(seen.closed, dt, TrackStable)
    BY DEF Update, Observe
<1>4. TrackValve(mgr') = IF ValvesOpen(n) THEN n.dir ELSE 0
    BY DEF TrackValve, ValvesOpen
<1>5. /\ a.since \in Age(TrackStable) /\ a.dir \in -1..1 /\ a.pending \in -1..1
    BY <1>1 DEF AdjustType
<1>6. seen'.closed \in Age(TrackStable)
    BY <1>1, <1>3, GrowBounds DEF WheelPaced
<1>7. seen.closed >= a.since =>
        Grow(seen.closed, dt, TrackStable) >= Grow(a.since, dt, TrackStable)
    BY <1>1, <1>5 DEF WheelPaced, Grow, Age
<1>8. Grow(a.since, dt, TrackStable) >= TrackStable => a.since + dt >= TrackStable
    BY <1>1, <1>5 DEF Grow, Age
<1> HIDE DEF a, n
<1>9. CASE /\ ~ValvesOpen(n)
           /\ n.dir \in {0, a.dir}
           /\ \/ n.pending = 0
              \/ n.since = 0
              \/ n.pending = a.pending /\ n.since = Grow(a.since, dt, TrackStable)
    <2>1. ~open /\ seen'.track = seen.track
          /\ seen'.closed = Grow(seen.closed, dt, TrackStable)
        BY <1>3, <1>4, <1>9
    <2>2. n.pending \notin {0, seen.track} => seen'.closed >= n.since
        <3>1. CASE n.since = 0
            BY <3>1, <1>6 DEF Age
        <3>2. CASE n.pending = a.pending /\ n.since = Grow(a.since, dt, TrackStable)
            BY <3>2, <2>1, <1>7 DEF WheelPaced, a
        <3> QED
            BY <1>9, <3>1, <3>2
    <2> QED
        BY <1>6, <1>9, <2>1, <2>2 DEF WheelPaced, a, n
<1>10. CASE /\ ValvesOpen(n)
            /\ n.dir # 0 /\ n.pending = n.dir
            /\ \/ n.dir = a.dir
               \/ /\ n.dir = a.pending
                  /\ Grow(a.since, dt, TrackStable) >= TrackStable
    <2>1. open /\ seen'.track = n.dir
        BY <1>3, <1>4, <1>10
    <2>2. WheelPaced'
        BY <1>6, <1>10, <2>1 DEF WheelPaced, n
    <2>3. ASSUME n.dir # seen.track, seen.track # 0
          PROVE  seen.closed + dt >= TrackStable
        <3>1. a.dir # n.dir
            BY <2>3, <1>10 DEF WheelPaced, a
        <3>2. a.pending \notin {0, seen.track} /\ a.since + dt >= TrackStable
            BY <3>1, <2>3, <1>8, <1>10
        <3>3. seen.closed >= a.since
            BY <3>2 DEF WheelPaced, a
        <3> QED
            BY <3>2, <3>3, <1>1, <1>5 DEF WheelPaced, Age
    <2> QED
        BY <2>1, <2>2, <2>3, <1>4, <1>10
<1> QED
    BY <1>1, <1>2, <1>9, <1>10, TrackStep

(* The valves never reverse without the pause (remote_adjust_fsm.c,        *)
(* update_stable_track_direction).                                         *)
THEOREM TrackReversalPauseHolds == Spec => TrackReversalPause
<1>1. Init => WheelPaced
    BY DurationsAssumption
    DEF Init, ManagerInit, SeenInit, AdjustInit, WheelPaced, Age
<1>2. TypeOK /\ WheelPaced /\ [Next]_vars => WheelPaced'
    BY WheelStep DEF Next, vars, WheelPaced
<1>3. TypeOK /\ WheelPaced /\ [Next]_vars =>
        [TrackValve(mgr') \notin {0, seen.track} /\ seen.track # 0
           => \E dt \in Gaps : seen.closed + dt >= TrackStable]_vars
    BY WheelStep DEF Next
<1> QED
    BY <1>1, <1>2, <1>3, TypeCorrect, PTL DEF Spec, TrackReversalPause
=============================================================================
