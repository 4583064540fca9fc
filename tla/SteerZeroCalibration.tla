------------------------- MODULE SteerZeroCalibration -------------------------
(***************************************************************************)
(* The steering zero calibration of the CAN2 task (motion_device.c): every  *)
(* axis is driven against its left and its right end stop, returned to the  *)
(* middle, and told by SDO that its position there is zero.  When HOME      *)
(* leaves the adjustment domain the coordinates from before are restored.   *)
(*                                                                         *)
(* One action is one call of steer_zero_calibration_step in one phase;      *)
(* the drives, the CANopen master (one group and one download at a time,    *)
(* see CanopenMaster), the operator and the clock act between calls.        *)
(* An axis stands at a place between its stops, a cell as wide as           *)
(* ECU_STEER_ZERO_MIDPOINT_TOLERANCE_COUNTS, and counts from its offset.    *)
(*                                                                         *)
(* X_Bug before X is X with a plausible mistake, used by nothing.           *)
(***************************************************************************)
EXTENDS Integers, FiniteSets, FiniteSetsExt

CONSTANTS
    Axes,           \* the steering drives, 1..n in the order of config->steer_nodes
    Stop,           \* the end stops are at -Stop and Stop
    OldOffset,      \* where an axis counted from before
    LastStep,       \* of the setup of one axis
    SetupRetries,   \* ECU_STEER_ZERO_SETUP_SDO_MAX_RETRIES
    StableSamples,  \* ECU_STEER_ZERO_MIDPOINT_STABLE_SAMPLES
    MaxGestures,    \* bound: gestures of the operator
    MaxTrouble      \* bound: axes misled, one more when something went unseen

ASSUME CalibrationAssumption ==
    /\ IsFiniteSet(Axes) /\ Axes = 1..Cardinality(Axes)
    /\ {Stop, LastStep, StableSamples} \subseteq Nat \ {0}
    /\ OldOffset \in Int /\ {SetupRetries, MaxGestures, MaxTrouble} \subseteq Nat

VARIABLES
    cal,        \* the calibration's part of motion_device_state_t
    axis,       \* where each axis is, its offset and the velocity it holds
    sdo,        \* the one download of the CANopen master
    lane,       \* the one velocity group of the CANopen master
    domain,     \* HOME has not left the adjustment domain
    gestures,   \* given so far
    unseen,     \* history: a lost group, a write the code never knew of or forgot
    misled      \* history: the axes taken for stopped, or for back, that were not

vars == <<cal, axis, sdo, lane, domain, gestures, unseen, misled>>

Trouble == Cardinality(misled) + (IF unseen THEN 1 ELSE 0)

-----------------------------------------------------------------------------
Preparing == {"setup", "retreat_left", "retreat_right"}
Searching == {"search_left", "search_right"}
Running == Preparing \cup Searching \cup {"return_mid", "write_zero", "verify_zero", "aborting"}

All(v) == [a \in Axes |-> v]
Last == Cardinality(Axes)
Actual(a) == axis[a].pos + axis[a].off
NoDownload == [state |-> "idle", axis |-> 0, position |-> FALSE, value |-> 0]

Rest ==
    [state |-> "idle", age |-> "early", requested |-> FALSE, done |-> {},
     node |-> 1, setup |-> 0, retry |-> 0, prepared |-> FALSE, settling |-> FALSE,
     left |-> All(0), right |-> All(0), mid |-> All(0), peak |-> {},
     stable |-> All(0), last |-> All(0), written |-> {}, write |-> 1, restore |-> 1,
     stopped |-> FALSE, synced |-> FALSE, waiting |-> FALSE, group |-> FALSE]

Init ==
    /\ cal = Rest
    /\ axis = All([pos |-> 0, off |-> OldOffset, vel |-> "none"])
    /\ sdo = NoDownload
    /\ lane = [state |-> "complete", vel |-> All("none")]
    /\ domain = TRUE /\ gestures = 0 /\ unseen = FALSE /\ misled = {}

-----------------------------------------------------------------------------
Enter(c, s) == [c EXCEPT !.state = s, !.age = "early", !.done = {}, !.peak = {}]

(* The search is over, and its measurements are not read any more: they are *)
(* reset here already, not at the next start.                               *)
Over(c) ==
    [Rest EXCEPT !.state = c.state, !.mid = c.mid, !.written = c.written,
                 !.restore = c.restore, !.stopped = c.stopped,
                 !.waiting = c.waiting, !.group = c.group]
Fault(c) == [Over(Enter(c, "fault")) EXCEPT !.waiting = FALSE, !.group = FALSE]
BeginPrepare(c) ==
    [c EXCEPT !.node = 1, !.setup = 0, !.retry = 0, !.waiting = FALSE,
              !.prepared = FALSE, !.settling = FALSE]

Late_Bug(c) == FALSE
Late(c) == c.age = "late"

(* The start of a call.  A second gesture restarts after a fault, and       *)
(* forgets which axes were given their new zero.                            *)
Restarts(c) == domain /\ c.requested /\ c.state \in {"idle", "complete", "fault"}
Started(c) ==
    CASE ~domain /\ c.state \in (Running \cup {"fault"}) \ {"aborting"} ->
            [Over(Enter(c, "aborting")) EXCEPT !.restore = 1, !.stopped = FALSE]
      [] Restarts(c) -> [Rest EXCEPT !.state = "setup", !.requested = TRUE]
      [] OTHER -> c
Forgets == Restarts(cal) /\ cal.written # {} /\ cal.state = "fault"

(* The velocity group: steer_zero_velocity_group_ready, and its queueing.   *)
Lost(c) == c.group /\ lane.state = "failed"
Pending(c) == c.group /\ lane.state = "pending"
Settle(c) == [c EXCEPT !.group = FALSE]

Queued(accepts) == accepts /\ lane.state # "pending"
Queue(c, v) == cal' = [c EXCEPT !.group = TRUE] /\ lane' = [state |-> "pending", vel |-> v]
KeepLane(c) == cal' = c /\ UNCHANGED lane

(* The download: steer_zero_queue_sdo and the look at its end.              *)
Free == sdo.state # "busy"
Ask(c, a, position, v) ==
    /\ cal' = [c EXCEPT !.waiting = TRUE]
    /\ sdo' = [state |-> "busy", axis |-> a, position |-> position, value |-> v]
KeepSdo(c) == cal' = c /\ UNCHANGED sdo
Unanswered(late) == sdo.state = "aborted" \/ (sdo.state = "busy" /\ late)

Overlooks == cal.waiting /\ sdo.position /\ sdo.state = "done" /\ cal'.state = "fault"
Keep == UNCHANGED <<axis, domain, gestures>> /\ unseen' = (unseen \/ Forgets \/ Overlooks)

-----------------------------------------------------------------------------
(* The phases that prepare a movement: every drive is set up, then one      *)
(* group of zero velocities, then a rest.                                   *)
AfterSetup(c) ==
    CASE c.setup < LastStep -> [c EXCEPT !.setup = @ + 1, !.retry = 0, !.waiting = FALSE]
      [] OTHER -> [c EXCEPT !.setup = 0, !.node = @ + 1, !.retry = 0, !.waiting = FALSE]

(* Step 0 clears the fault the drive has latched.                          *)
SetupStep(c, lost, latched) ==
    CASE c.setup = 0 /\ c.node \in lost -> KeepSdo(c)
      [] c.setup = 0 /\ c.node \notin lost \cup latched -> KeepSdo([c EXCEPT !.setup = 1, !.retry = 0])
      [] OTHER -> IF Free THEN Ask(c, c.node, FALSE, 0) ELSE KeepSdo(c)

Setup(c, lost, latched, late) ==
    CASE c.waiting /\ Unanswered(late) ->
            KeepSdo(IF c.retry < SetupRetries
                    THEN [c EXCEPT !.retry = @ + 1, !.waiting = FALSE] ELSE Fault(c))
      [] c.waiting /\ sdo.state = "done" ->
            IF c.setup = LastStep THEN KeepSdo(AfterSetup(c))
            ELSE SetupStep(AfterSetup(c), lost, latched)
      [] ~c.waiting -> SetupStep(c, lost, latched)
      [] OTHER -> KeepSdo(c)

NextPhase(c) == CHOOSE s \in Running :
    <<c.state, s>> \in {<<"setup", "search_left">>, <<"search_left", "retreat_left">>,
                        <<"retreat_left", "search_right">>, <<"search_right", "retreat_right">>,
                        <<"retreat_right", "return_mid">>}

Prepared(c, lost, accepts, rested) ==
    CASE ~c.prepared ->
            IF Queued(accepts)
            THEN Queue([c EXCEPT !.prepared = TRUE, !.settling = FALSE], All("none"))
            ELSE KeepLane(c)
      [] c.prepared /\ ~c.settling -> KeepLane([c EXCEPT !.settling = TRUE])
      [] c.prepared /\ c.settling /\ rested ->
            KeepLane(IF lost # {} /\ c.state # "retreat_right" THEN Fault(c)
                     ELSE [Enter(c, NextPhase(c)) EXCEPT
                               !.stable = IF c.state = "retreat_right" THEN All(0) ELSE @,
                               !.last = All(0)])
      [] OTHER -> KeepLane(c)

Prepare(lost, latched, accepts, late, rested) ==
    LET c == Started(cal)
    IN  /\ c.state \in Preparing
        /\ CASE Late(c) \/ Lost(c) -> cal' = Fault(c) /\ UNCHANGED <<sdo, lane>>
             [] ~Late(c) /\ Pending(c) -> cal' = c /\ UNCHANGED <<sdo, lane>>
             [] OTHER ->
                    IF c.node \in Axes
                    THEN Setup(Settle(c), lost, latched, late) /\ UNCHANGED lane
                    ELSE Prepared(Settle(c), lost, accepts, rested) /\ UNCHANGED sdo
        /\ Keep /\ UNCHANGED misled

-----------------------------------------------------------------------------
(* The search.  high: the current is at the stall limit; held: for as long  *)
(* as the dwell, or above the protection limit.                             *)
Hit_Bug(c, peak, held, latched) == held \cup (latched \cap peak)
Hit(c, peak, held, latched) == {a \in held : c.age # "early"} \cup (latched \cap peak)

Pressed(a) ==
    \/ axis[a].vel = "left" /\ axis[a].pos = -Stop
    \/ axis[a].vel = "right" /\ axis[a].pos = Stop

Half(n) == IF n >= 0 THEN n \div 2 ELSE -((-n) \div 2)
Noted(c, hit) ==
    LET at(f) == [a \in Axes |-> IF a \in hit THEN Actual(a) ELSE f[a]]
    IN  IF c.state = "search_left" THEN [c EXCEPT !.left = at(@), !.done = @ \cup hit]
        ELSE [c EXCEPT !.right = at(@), !.done = @ \cup hit]
Found(c) ==
    BeginPrepare(Enter(IF c.state = "search_left" THEN c
                       ELSE [c EXCEPT !.mid = [a \in Axes |-> Half(c.left[a] + c.right[a])],
                                        !.left = All(0), !.right = All(0)],
                       NextPhase(c)))

Search(lost, latched, high, held, accepts, due) ==
    LET c == Started(cal)
        open == Axes \ c.done
        peak == c.peak \cup (high \cap open)
        hit == Hit(c, peak, held, latched) \cap open
        d == Noted([Settle(c) EXCEPT !.peak = peak], hit)
        way == IF c.state = "search_left" THEN "left" ELSE "right"
    IN  /\ c.state \in Searching
        /\ CASE Late(c) \/ Lost(c) -> KeepLane(Fault(c))
             [] ~Late(c) /\ Pending(c) -> KeepLane(c)
             [] OTHER ->
                  CASE open \cap (lost \cup (latched \ hit)) # {} -> KeepLane(Fault(c))
                    [] open \cap (lost \cup (latched \ hit)) = {} /\ d.done = Axes ->
                           IF Queued(accepts) THEN Queue(Found(d), All("none"))
                           ELSE KeepLane(Fault(c))
                    [] OTHER ->
                           IF hit = {} /\ ~due THEN KeepLane(d)
                           ELSE IF Queued(accepts)
                           THEN Queue(d, [a \in Axes |-> IF a \in d.done THEN "none" ELSE way])
                           ELSE KeepLane(Fault(d))
        /\ misled' = IF Late(c) \/ Lost(c) \/ Pending(c) THEN misled
                     ELSE misled \cup {a \in hit \cap latched : ~Pressed(a)}
        /\ Keep /\ UNCHANGED sdo
        /\ misled' = misled \/ Trouble' <= MaxTrouble

(* The return to the middle.  error: the sign of what is left to go, which  *)
(* within the tolerance may be any.  An axis that went past the middle      *)
(* since the call before has arrived as well, however far it went.          *)
Errors(c) ==
    IF c.state # "return_mid" THEN {}
    ELSE {e \in [Axes -> {-1, 0, 1}] :
             \A a \in Axes : /\ Actual(a) < c.mid[a] => e[a] = 1
                            /\ Actual(a) > c.mid[a] => e[a] = -1}

ReturnMid(lost, latched, accepts, due, error) ==
    LET c == Started(cal)
        close == {a \in Axes : Actual(a) = c.mid[a]}
        crossed == {a \in Axes : c.last[a] # 0 /\ error[a] = -c.last[a]}
        arrived == close \cup crossed
        stable == [a \in Axes |-> IF a \in arrived THEN c.stable[a] + 1 ELSE 0]
        ready == {a \in Axes : stable[a] >= StableSamples}
        d == [Settle(c) EXCEPT !.stable = [a \in Axes |-> Min({stable[a], StableSamples})],
                               !.last = error]
    IN  /\ c.state = "return_mid"
        /\ CASE Late(c) \/ Lost(c) -> KeepLane(Fault(c))
             [] ~Late(c) /\ Pending(c) -> KeepLane(c)
             [] OTHER ->
                  CASE lost # {} \/ latched \ arrived # {} -> KeepLane(Fault(c))
                    [] lost = {} /\ latched \subseteq arrived /\ ready = Axes ->
                           IF Queued(accepts)
                           THEN Queue([Enter(d, "write_zero") EXCEPT !.write = 1, !.setup = 0,
                                                                !.last = All(0)], All("none"))
                           ELSE KeepLane(Fault(c))
                    [] OTHER ->
                           IF ~due THEN KeepLane(d)
                           ELSE IF Queued(accepts)
                           THEN Queue(d, [a \in Axes |-> IF a \in ready THEN "none" ELSE "back"])
                           ELSE KeepLane(Fault(d))
        /\ misled' = IF cal'.state = "write_zero" THEN misled \cup (Axes \ close) ELSE misled
        /\ Keep /\ UNCHANGED sdo
        /\ misled' = misled \/ Trouble' <= MaxTrouble

-----------------------------------------------------------------------------
(* The zero is written axis by axis, and then looked at.                   *)
WriteZero(late) ==
    LET c == Started(cal)
        d == IF c.waiting THEN [c EXCEPT !.waiting = FALSE, !.written = @ \cup {sdo.axis}] ELSE c
    IN  /\ c.state = "write_zero"
        /\ CASE c.waiting /\ Unanswered(late) -> KeepSdo(Fault(c))
             [] c.waiting /\ sdo.state = "busy" /\ ~late -> KeepSdo(c)
             [] OTHER ->
                  CASE d.write \notin Axes ->
                           KeepSdo(Enter([d EXCEPT !.synced = FALSE], "verify_zero"))
                    [] d.write \in Axes /\ Free -> Ask([d EXCEPT !.write = @ + 1], d.write, TRUE, 0)
                    [] OTHER -> KeepSdo(d)
        /\ Keep /\ UNCHANGED <<lane, misled>>

VerifyZero(lost, latched, accepts) ==
    LET c == Started(cal)
        d == Settle(c)
    IN  /\ c.state = "verify_zero"
        /\ CASE Late(c) \/ Lost(c) -> KeepLane(Fault(c))
             [] ~Late(c) /\ Pending(c) -> KeepLane(c)
             [] OTHER ->
                  CASE ~d.synced -> IF Queued(accepts) THEN Queue([d EXCEPT !.synced = TRUE], All("none"))
                                    ELSE KeepLane(d)
                    [] d.synced /\ \A a \in Axes \ (lost \cup latched) : Actual(a) = 0 ->
                           KeepLane(IF lost \cup latched = {}
                                    THEN [Enter(d, "complete") EXCEPT !.requested = FALSE] ELSE d)
                    [] OTHER -> KeepLane(d)
        /\ Keep /\ UNCHANGED <<sdo, misled>>

(* A calibration that failed keeps asking for zero velocity.               *)
FaultStep_Bug(accepts, due) ==
    /\ Started(cal).state = "fault" /\ KeepLane(Settle(Started(cal))) /\ Keep
    /\ UNCHANGED <<sdo, misled>>
FaultStep(accepts, due) ==
    LET c == Started(cal)
    IN  /\ c.state = "fault"
        /\ CASE Lost(c) -> KeepLane(Fault(c))
             [] Pending(c) -> KeepLane(c)
             [] OTHER -> IF due /\ Queued(accepts) THEN Queue(Settle(c), All("none"))
                         ELSE KeepLane(Settle(c))
        /\ Keep /\ UNCHANGED <<sdo, misled>>

(* The abort.  A download that is under way is waited for, and what it did  *)
(* to the axis is noted.                                                    *)
Rewritten_Bug(c) == c.written
Rewritten(c) ==
    CASE ~sdo.position -> c.written
      [] sdo.position /\ sdo.value = 0 /\ c.restore = 1 -> c.written \cup {sdo.axis}
      [] OTHER -> c.written \ {sdo.axis}
Answered(c) ==
    IF c.waiting
    THEN [c EXCEPT !.waiting = FALSE, !.written = IF sdo.state = "done" THEN Rewritten(c) ELSE @]
    ELSE c

Restore(c) ==
    LET due == {a \in c.written : a >= c.restore}
        a == Min(due)
    IN  CASE due # {} /\ Free -> Ask([c EXCEPT !.restore = a + 1], a, TRUE, c.mid[a])
          [] due # {} /\ ~Free -> KeepSdo([c EXCEPT !.restore = a])
          [] OTHER -> KeepSdo(IF c.written # {} THEN Fault([c EXCEPT !.restore = Last + 1])
                              ELSE [Rest EXCEPT !.requested = c.requested])

AbortStep(accepts, late) ==
    LET c == Started(cal)
        d == Answered(c)
    IN  /\ c.state = "aborting"
        /\ CASE Late(c) -> cal' = Fault(c) /\ UNCHANGED <<sdo, lane>>
             [] ~Late(c) /\ c.waiting /\ sdo.state = "busy" /\ ~late ->
                    cal' = c /\ UNCHANGED <<sdo, lane>>
             [] OTHER ->
                  CASE Pending(d) -> cal' = d /\ UNCHANGED <<sdo, lane>>
                    [] ~Pending(d) /\ ~d.stopped ->
                           /\ IF Queued(accepts) THEN Queue([d EXCEPT !.stopped = TRUE], All("none"))
                              ELSE KeepLane(Settle(d))
                           /\ UNCHANGED sdo
                    [] OTHER -> Restore(Settle(d)) /\ UNCHANGED lane
        /\ Keep /\ UNCHANGED misled

(* A gesture outside the domain is dropped, a complete calibration ends     *)
(* when HOME leaves or after a second.                                      *)
Dismiss ==
    /\ cal' = CASE cal.state = "complete" /\ (~domain \/ (~cal.requested /\ Late(cal))) ->
                       Rest
                [] cal.state = "idle" /\ cal.requested /\ ~domain -> [cal EXCEPT !.requested = FALSE]
                [] OTHER -> cal
    /\ UNCHANGED <<axis, sdo, lane, domain, gestures, unseen, misled>>

-----------------------------------------------------------------------------
(* The drives.  An axis on its way back was told the way at an earlier call, *)
(* and may be past the middle by now.  It creeps there: it does not leave    *)
(* the middle while a group is on its way.                                   *)
Toward(a) == IF Actual(a) > cal.mid[a] THEN -1 ELSE 1
Ways(a) ==
    CASE axis[a].vel = "left" -> {-1}
      [] axis[a].vel = "right" -> {1}
      [] axis[a].vel = "back" /\ ~(Actual(a) = cal.mid[a] /\ lane.state = "pending") ->
             IF cal.state = "return_mid" THEN {-1, 1} ELSE {Toward(a)}
      [] OTHER -> {}

Turn(a) ==
    /\ \E way \in Ways(a) :
           /\ axis[a].pos + way \in (-Stop)..Stop
           /\ axis' = [axis EXCEPT ![a].pos = @ + way]
    /\ UNCHANGED <<cal, sdo, lane, domain, gestures, unseen, misled>>

(* Only an end stop, or the start of a movement, draws the stall current.   *)
MayDraw == {a \in Axes : Pressed(a) \/ cal.age = "early"}

(* The CANopen master ends a group and a download.  A download needs an     *)
(* idle lane; one that was carried out may still be reported as aborted.    *)
LaneEnds(result, carried) ==
    /\ lane.state = "pending" /\ (result = "complete" => carried)
    /\ lane' = [state |-> result, vel |-> All("none")]
    /\ axis' = IF carried THEN [a \in Axes |-> [axis[a] EXCEPT !.vel = lane.vel[a]]] ELSE axis
    /\ unseen' = (unseen \/ result = "failed")
    /\ UNCHANGED <<cal, sdo, domain, gestures, misled>>
    /\ unseen' = unseen \/ Trouble' <= MaxTrouble

DownloadEnds(result, carried) ==
    /\ sdo.state = "busy" /\ lane.state # "pending" /\ (result = "done" => carried)
    /\ sdo' = IF cal.waiting THEN [sdo EXCEPT !.state = result] ELSE NoDownload
    /\ axis' = IF carried /\ sdo.position
               THEN [axis EXCEPT ![sdo.axis].off = sdo.value - axis[sdo.axis].pos] ELSE axis
    /\ unseen' = (unseen \/ (carried /\ sdo.position /\ (result = "aborted" \/ ~cal.waiting)))
    /\ UNCHANGED <<cal, lane, domain, gestures, misled>>

Gesture ==
    /\ gestures < MaxGestures
    /\ gestures' = gestures + 1 /\ cal' = [cal EXCEPT !.requested = TRUE]
    /\ UNCHANGED <<axis, sdo, lane, domain, unseen, misled>>

Home == domain' = ~domain /\ UNCHANGED <<cal, axis, sdo, lane, gestures, unseen, misled>>

(* The arm delay of a search, the timeout of any phase, the rest after it.  *)
Age ==
    /\ cal.state \in Running \cup {"complete"} /\ cal.age # "late"
    /\ cal' = [cal EXCEPT !.age =
                  IF cal.state \in Searching /\ @ = "early" THEN "armed" ELSE "late"]
    /\ UNCHANGED <<axis, sdo, lane, domain, gestures, unseen, misled>>

-----------------------------------------------------------------------------
(* Where it does not matter which axis it is that gives no feedback or has  *)
(* latched a fault.  A call that prepares looks at one only of: does the     *)
(* group find room, is the answer of the download late, is the rest over.   *)
AllOrNone == {{}, Axes}

Step ==
    \/ \E lost, latched \in AllOrNone, now \in BOOLEAN :
           Prepare(lost, latched, now, now, now)
    \/ \E lost \in AllOrNone, latched \in SUBSET Axes, high \in SUBSET MayDraw :
           \E held \in SUBSET high, accepts, due \in BOOLEAN :
               Search(lost, latched, high, held, accepts, due)
    \/ \E lost, latched \in AllOrNone, accepts, due \in BOOLEAN, error \in Errors(cal) :
           ReturnMid(lost, latched, accepts, due, error)
    \/ \E late \in BOOLEAN : WriteZero(late)
    \/ \E lost, latched \in AllOrNone, accepts \in BOOLEAN : VerifyZero(lost, latched, accepts)
    \/ \E accepts, due \in BOOLEAN : FaultStep(accepts, due)
    \/ \E accepts, late \in BOOLEAN : AbortStep(accepts, late)
    \/ Dismiss

Environment ==
    \/ \E a \in Axes : Turn(a)
    \/ \E carried \in BOOLEAN :
           \/ \E result \in {"complete", "failed"} : LaneEnds(result, carried)
           \/ \E result \in {"done", "aborted"} : DownloadEnds(result, carried)
    \/ Gesture \/ Home \/ Age

Next == Step \/ Environment

(* The task calls the step for ever, though it may get nothing done, and     *)
(* time passes.  The CANopen master decides every group (GroupsDecided      *)
(* there) and download, and a lane that is asked again and again is free at *)
(* last and sends a group.                                                  *)
IdleCall ==
    \/ Prepare({}, {}, FALSE, FALSE, FALSE) \/ Search({}, {}, {}, {}, FALSE, FALSE)
    \/ \E error \in Errors(cal) : ReturnMid({}, {}, FALSE, FALSE, error)
    \/ WriteZero(FALSE) \/ VerifyZero({}, {}, FALSE) \/ AbortStep(FALSE, FALSE)
Fairness ==
    /\ WF_vars(IdleCall) /\ WF_vars(Age)
    /\ WF_vars(\E result \in {"done", "aborted"} : DownloadEnds(result, TRUE))
    /\ SF_vars(LaneEnds("complete", TRUE)) /\ SF_vars(FaultStep(TRUE, TRUE))

Spec == Init /\ [][Next]_vars /\ Fairness

-----------------------------------------------------------------------------
(* An accepted zero is the middle between the stops: "A wrong zero survives  *)
(* into every later steering command" (motion_device.c:2577), whatever was   *)
(* aborted, restarted, lost or late on the way.  Not so for an axis that was *)
(* misled: any fault it latches counts as its stop once it drew the stall    *)
(* current (2451-2464), at the start as well, and an axis that went past the *)
(* middle counts as back however far it went (2598-2613).                    *)
ZeroIsCentre == cal.state = "complete" => \A a \in Axes \ misled : axis[a].off = 0

(* Ordinary steering (the calibration is idle) finds all axes in the same    *)
(* coordinates, all old or all new, whenever HOME left: also with a zero     *)
(* write under way, and with any number of refused writes - unless a group   *)
(* was lost, or a write was carried out and not known of or forgotten, and   *)
(* but for the axes misled: their old zero is given back off by as much.     *)
OneCoordinateSystem == \A a, b \in Axes \ misled : axis[a].off = axis[b].off
AbortRestores == cal.state = "idle" /\ ~unseen => OneCoordinateSystem

(* "Do not resume normal steering with mixed coordinate systems"             *)
(* (motion_device.c:2864), without that exception.                           *)
NoMixedCoordinates == cal.state = "idle" => OneCoordinateSystem

(* Every calibration ends: there is no phase in which a drive that does not  *)
(* answer, or never reaches its stop, holds CAN2 for ever.                   *)
CalibrationEnds == cal.state \in Running ~> cal.state \notin Running

(* A calibration that failed stops the axes, also when the groups that say   *)
(* so are refused or lost at first.                                          *)
FaultStops ==
    (cal.state = "fault") ~>
        (cal.state # "fault" \/ \A a \in Axes : axis[a].vel = "none")
=============================================================================
