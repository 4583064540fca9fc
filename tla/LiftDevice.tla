------------------------------ MODULE LiftDevice ------------------------------
(***************************************************************************)
(* The lift and hydraulic device of CAN3 (lift_hydraulic_device.c).  Every  *)
(* call of the CAN3 task (lift_hydraulic_device_apply) serves the pump and   *)
(* its valves first and then the four electric legs: set-up by SDO, enabling *)
(* in step, a few points that hold the measured positions, the common start  *)
(* of the interpolation, alignment of the legs, a stream of common points,   *)
(* and one group that disables them all.                                    *)
(*                                                                         *)
(* Between two calls groups and SDO writes are carried out or lost, the      *)
(* drives follow their points, fail and come back, and commands change.  One *)
(* group at a time is with the CANopen master (see CanopenMaster).  A height *)
(* is a position of a leg in coarse steps (but the first one past an end of   *)
(* the range is within the 3 mm of the target), and a point moves the common  *)
(* target by one step; the ramps between are left out.  Deadlines and        *)
(* back-off times are over when a call says so (done, late).                 *)
(*                                                                         *)
(* X_Bug before X is X with a plausible mistake, used by nothing.           *)
(***************************************************************************)
EXTENDS Integers, FiniteSets, FiniteSetsExt

CONSTANTS
    Legs,           \* the lift nodes, 1..n in the order of config->lift_nodes
    Retracted,      \* the ends of the safe range, and the legs' longest position
    Extended,
    Top,
    Masks,          \* the valve masks of the command
    Scenarios,      \* what may happen in one behaviour: its commands, the heights the
                    \* legs may start at (moved by hand), a bound on all that goes
                    \* wrong, and whether a leg creeps past the end it has reached
    Preload,        \* ECU_CANOPEN_LIFT_PRELOAD_POINTS
    Proof,          \* ECU_HYDRAULIC_PUMP_SPEED_READY_SAMPLES
    Flips           \* the command may change its direction while a group is under way

ASSUME LiftAssumption ==
    /\ IsFiniteSet(Legs) /\ Legs = 1..Cardinality(Legs) /\ Legs # {}
    /\ Retracted \in Nat /\ Extended \in (Retracted + 1)..Top /\ Top \in Nat
    /\ Preload \in Nat \ {0} /\ Proof \in Nat \ {0}
    /\ Flips \in BOOLEAN
    /\ \A s \in Scenarios :
          s.starts \subseteq 0..Top /\ s.faults \in Nat /\ s.creeps \in BOOLEAN

VARIABLES
    command,    \* the actuator command of the mailbox
    dev,        \* lift_hydraulic_device_state_t, its groups and SDO writes
    leg,        \* the drives of the legs
    motor,      \* the drive of the pump
    bus,        \* CAN3 is "normal" or "off"
    faults      \* so far

vars == <<command, dev, leg, motor, bus, faults>>

-----------------------------------------------------------------------------
None == "none"
Heights == 0..Top
Directions == {"extend", "retract"}
NoPoints == <<>>
NoGroup == [verdict |-> None, word |-> None]
NoWrites == [job |-> None, left |-> 0, clear |-> {}]

Init ==
    /\ command \in [scenario : Scenarios, request : {"safe"}, hv : {FALSE}]
    /\ dev = [state |-> "stopped", group |-> NoGroup, sdo |-> NoWrites,
              enable |-> FALSE, asked |-> 0, setup |-> "ask", prepared |-> FALSE,
              atTarget |-> FALSE, transport |-> FALSE, faulty |-> FALSE,
              want |-> None, goal |-> None, active |-> FALSE,
              preload |-> 0, filling |-> FALSE, align |-> FALSE, resume |-> None,
              level |-> 0, points |-> NoPoints, origin |-> 0, planned |-> 0, total |-> 0,
              pump |-> [group |-> NoGroup, last |-> None, ready |-> FALSE, setup |-> None,
                        proof |-> 0, pressure |-> FALSE, pending |-> None, valves |-> None]]
    /\ leg \in [Legs -> [height : command.scenario.starts, mode : {"off"}, goal : {0}, loaded : {0},
                         feedback : {"fresh"}]]
    /\ motor = [goal |-> "stop", speed |-> "still", feedback |-> "fresh"]
    /\ bus = "normal" /\ faults = 0

-----------------------------------------------------------------------------
(* The command: a stop, a direction for the legs, or the pump with a valve   *)
(* mask, which the track gate may have emptied ("gated").  hv: the feedback  *)
(* of the high voltage is there, or the executor replaced a stale command,   *)
(* or the voltage is lost.                                                  *)
Hold == ~command.hv \/ command.request \notin Directions
SafeStop == ~command.hv \/ command.request = "safe"
Direction == IF Hold THEN None ELSE command.request
Target == IF command.request = "extend" THEN Extended ELSE Retracted
PumpRequest == command.hv /\ command.request \in Masks \cup {"gated"}
Mask == IF command.request \in Masks THEN command.request ELSE None

Sign(dir) == IF dir = "extend" THEN 1 ELSE -1

(* What the drives report.                                                 *)
Fresh == \A l \in Legs : leg[l].feedback = "fresh"
Latched == {l \in Legs : leg[l].feedback = "fault"}
Refreshed(d) == [d EXCEPT !.faulty = Latched # {}]

(* All are within the window around the end; the range is judged before, and *)
(* without a margin: a leg just past the end is at the target, but refused.  *)
AtTarget == \A l \in Legs : (leg[l].height - Target) * Sign(command.request) \in {0, 1}
Allowed(dir) ==
    /\ (\E l \in Legs : leg[l].height < Retracted) => dir = "extend"
    /\ (\E l \in Legs : leg[l].height > Extended) => dir = "retract"
Leading(dir) ==
    LET heights == {leg[l].height : l \in Legs}
    IN  IF dir = "extend" THEN Max(heights) ELSE Min(heights)

-----------------------------------------------------------------------------
(* The groups of the legs.  A failed group is noted when it is looked at.    *)
Over(d) == d.group.verdict \in {None, "complete"}
Taken(d) ==
    CASE d.group.verdict = "failed" ->
            [d EXCEPT !.group = NoGroup, !.transport = TRUE, !.state = "fault"]
      [] d.group.verdict = "complete" -> [d EXCEPT !.group = NoGroup]
      [] OTHER -> d
LaneIdle(d) == "pending" \notin {d.group.verdict, d.pump.group.verdict}
HandOver(d, word) == [d EXCEPT !.group = [verdict |-> "pending", word |-> word]]

(* queue_lift_interpolation_trigger: one control word for all legs.        *)
Trigger(d, word, next) ==
    IF Over(d) /\ LaneIdle(d) THEN [HandOver(Taken(d), word) EXCEPT !.state = next]
    ELSE Taken(d)
Disable(d) == Trigger(d, "off", "stopping")
Fault(d) == [d EXCEPT !.state = "fault"]

NoStream(d) ==
    [d EXCEPT !.points = NoPoints, !.origin = 0, !.planned = 0, !.total = 0]
ResetLift(d) ==
    [NoStream(d) EXCEPT
        !.state = "stopped", !.group = NoGroup, !.asked = 0, !.setup = "ask",
        !.active = FALSE, !.preload = 0, !.filling = FALSE, !.atTarget = FALSE,
        !.transport = FALSE, !.align = FALSE, !.resume = None, !.prepared = FALSE]
RecoverTransport(d) ==
    [ResetLift(d) EXCEPT !.pump =
        [@ EXCEPT !.group = NoGroup, !.last = None, !.ready = FALSE, !.setup = None,
                  !.proof = 0, !.pressure = FALSE, !.valves = None]]

-----------------------------------------------------------------------------
(* The pump and its valves.                                                *)
Close(d) == [d EXCEPT !.pump.valves = None]
Unproven(d) == [Close(d) EXCEPT !.pump.pressure = FALSE, !.pump.proof = 0]

(* queue_hydraulic_pump_velocity: a word that was carried out is not sent    *)
(* again.  A group that failed takes the whole transport with it.           *)
PumpTaken(d) ==
    [d EXCEPT !.pump.group = NoGroup,
              !.pump.last = IF d.pump.group.verdict = "complete" THEN d.pump.group.word ELSE @]
PumpQueued(d, word) ==
    LET taken == PumpTaken(d)
    IN  IF taken.pump.last = word \/ ~LaneIdle(taken) THEN taken
        ELSE [taken EXCEPT !.pump.group = [verdict |-> "pending", word |-> word]]
PumpSubmit(d, word) ==
    CASE d.pump.group.verdict = "failed" -> RecoverTransport(d)
      [] d.pump.group.verdict = "pending" -> d
      [] OTHER -> PumpQueued(d, word)

StopConfirmed(d) == d.pump.group = NoGroup /\ d.pump.last = "stop"
StopPump(d) ==
    LET closed == [Unproven(d) EXCEPT !.pump.pending = None]
    IN  IF StopConfirmed(d) THEN closed ELSE PumpSubmit(closed, "stop")

SetUpPump(d, late) ==
    CASE d.pump.ready -> d
      [] ~d.pump.ready /\ d.pump.setup = None ->
            IF d.sdo.job # None THEN d
            ELSE [d EXCEPT !.pump.setup = "wait",
                           !.sdo = [job |-> "pump", left |-> 1,
                                    clear |-> IF motor.feedback = "fault" THEN {1} ELSE {}]]
      [] ~d.pump.ready /\ d.pump.setup = "wait" /\ d.sdo.job # "pump"
                       /\ motor.feedback # "fault" ->
            [Unproven(d) EXCEPT !.pump.ready = TRUE, !.pump.setup = None]
      [] OTHER -> IF late \/ d.pump.setup = "aborted" THEN [d EXCEPT !.pump.setup = None]
                  ELSE d

(* read_hydraulic_pump_feedback: a fault that is latched asks for the set-up *)
(* again, and pressure is not believed without feedback.                    *)
PumpSeen == motor.feedback = "fresh"
ReadPump(d) ==
    [IF d.pump.pressure /\ ~PumpSeen THEN Unproven(d) ELSE d
     EXCEPT !.pump.ready = motor.feedback # "fault"]

(* Pressure is proved by the speed of the pump, seen by some calls in a row; *)
(* it is lost with the feedback, with a wrong direction, or when the speed   *)
(* stays away.                                                              *)
Proved_Bug(d, done) ==                       \* the last word is not sent again
    LET reverse == PumpSeen /\ motor.speed = "reverse"
        samples == Min({d.pump.proof + 1, Proof})
    IN  CASE d.pump.pressure /\ ~reverse /\ done -> Unproven(d)
          [] ~d.pump.pressure /\ reverse ->
                [d EXCEPT !.pump.proof = samples, !.pump.pressure = samples = Proof]
          [] OTHER -> IF d.pump.pressure THEN d ELSE Unproven(d)
Proved(d, done) ==
    LET seen == PumpSeen
        reverse == seen /\ motor.speed = "reverse"
        samples == Min({d.pump.proof + 1, Proof})
    IN  CASE d.pump.pressure /\ seen /\ ~reverse /\ done ->
                [Unproven(d) EXCEPT !.pump.last = None]
          [] d.pump.pressure /\ ~(seen /\ ~reverse /\ done) -> d
          [] ~d.pump.pressure /\ reverse ->
                [d EXCEPT !.pump.proof = samples, !.pump.pressure = samples = Proof]
          [] OTHER -> [Unproven(d) EXCEPT !.pump.last = IF done THEN None ELSE @]

Opened(d, unchanged) ==
    IF d.pump.pressure /\ unchanged THEN [d EXCEPT !.pump.valves = Mask] ELSE Close(d)

RunPump(d, done) ==
    LET changed == d.pump.pending # Mask
        masked == IF changed THEN [Close(d) EXCEPT !.pump.pending = Mask] ELSE d
        read == ReadPump(masked)
    IN  IF PumpSeen /\ motor.speed = "positive"
        THEN PumpSubmit([Close(read) EXCEPT !.pump.pressure = FALSE], "stop")
        ELSE Opened(PumpSubmit(Proved(read, done), "run"),
                    ~changed /\ (done \/ d.pump.valves = Mask))

ServePump(d, done, late) ==
    LET set == SetUpPump(d, late)
    IN  CASE ~PumpRequest -> StopPump(d)
          [] PumpRequest /\ ~set.pump.ready -> Close(set)
          [] OTHER -> RunPump(set, done)

-----------------------------------------------------------------------------
(* The set-up of the legs: every node is asked to start, then all are        *)
(* configured while disabled.                                              *)
BeginSetup(d, dir, enable) ==
    [NoStream(d) EXCEPT
        !.state = "configuring", !.asked = 0, !.setup = "ask", !.enable = enable,
        !.prepared = FALSE, !.transport = FALSE, !.want = dir, !.active = FALSE,
        !.preload = 0, !.filling = FALSE]
BeginPrepared(d, dir) ==
    [NoStream(d) EXCEPT
        !.state = "ready", !.enable = TRUE, !.prepared = FALSE, !.want = dir,
        !.active = FALSE, !.preload = 0, !.filling = FALSE, !.align = FALSE]

SetupStep(d, late) ==
    CASE d.asked # Cardinality(Legs) ->
            IF late THEN Fault(d) ELSE [d EXCEPT !.asked = @ + 1]
      [] d.asked = Cardinality(Legs) /\ d.setup = "ask" ->
            IF d.sdo.job # None THEN d
            ELSE [d EXCEPT !.setup = "wait",
                           !.sdo = [job |-> "legs", left |-> Cardinality(Legs),
                                    clear |-> Latched]]
      [] d.setup = "aborted" -> Fault(d)
      [] d.setup = "wait" /\ d.sdo.job # "legs" ->
            [d EXCEPT !.asked = 0, !.setup = "ask",
                      !.state = IF d.enable THEN "ready" ELSE "stopped",
                      !.prepared = ~d.enable]
      [] OTHER -> IF late THEN Fault(d) ELSE d

-----------------------------------------------------------------------------
(* queue_lift_interpolation_group: the next point of the stream, or, before  *)
(* the start, one that holds every leg where it is.                         *)
TotalDistance(from) ==
    Max({Target - from[l] : l \in Legs} \cup {from[l] - Target : l \in Legs})
Captured(d) ==
    LET here == [l \in Legs |-> leg[l].height]
    IN  IF d.points # NoPoints THEN d
        ELSE [d EXCEPT !.points = here, !.origin = here[1], !.planned = 0,
                       !.total = TotalDistance(here)]

(* No leg moves although some leg is behind: the interpolation buffers ran   *)
(* dry.                                                                     *)
Dry_Bug(d, dir) ==                           \* every leg has to be behind
    /\ \A l \in Legs : (d.points[1] - leg[l].height) * Sign(dir) > 0
    /\ \A l \in Legs : leg[l].mode # "running" \/ leg[l].height = leg[l].goal
Dry(d, dir) ==
    /\ \E l \in Legs : (d.points[1] - leg[l].height) * Sign(dir) > 0
    /\ \A l \in Legs : leg[l].mode # "running" \/ leg[l].height = leg[l].goal

Clamped(dir, height) ==
    IF dir = "extend" THEN Min({height, Target}) ELSE Max({height, Target})
(* The speed ramps up to a limit and down before the end; all of a ramp is   *)
(* one coarse step here, and nothing is left to step at the end.            *)
StepCounts(d) == Min({1, d.total - d.planned})
Advanced(d, dir) ==
    LET planned == d.planned + StepCounts(d)
        common == Clamped(dir, d.origin + Sign(dir) * planned)
    IN  [d EXCEPT !.planned = planned, !.points = [l \in Legs |-> common]]

Point(d, dir, done) ==
    CASE dir = None -> HandOver(d, "point")
      [] dir # None /\ Dry(d, dir) /\ done ->
            Trigger([d EXCEPT !.resume = dir, !.align = TRUE], "enable", "clearing")
      [] OTHER -> HandOver(Advanced(d, dir), "point")

Sampled(d, dir, done, late) ==
    CASE ~Fresh /\ d.faulty -> Disable([d EXCEPT !.atTarget = FALSE])
      [] ~Fresh /\ ~d.faulty ->
            IF late THEN RecoverTransport(d) ELSE [d EXCEPT !.atTarget = FALSE]
      [] Fresh /\ dir # None /\ ~Allowed(dir) -> Disable(d)
      [] Fresh /\ (dir # None => Allowed(dir)) /\ AtTarget /\ done ->
            Disable([NoStream(d) EXCEPT !.atTarget = TRUE])
      [] OTHER -> Point(Captured(d), dir, done)

Stream(d, dir, due, done, late) ==
    IF due /\ Over(d) /\ LaneIdle(d) THEN Sampled(Refreshed(Taken(d)), dir, done, late)
    ELSE IF due THEN Taken(d) ELSE d

-----------------------------------------------------------------------------
(* process_lift_interpolation, one action for each of its states.          *)
Call(d) == dev' = d

Stopping(d, done) ==
    /\ d.state = "stopping"
    /\ \E taken \in {Taken([d EXCEPT !.want = Direction])} :
       \E stopped \in {[NoStream(taken) EXCEPT
              !.state = "stopped", !.active = FALSE, !.align = FALSE, !.resume = None,
              !.prepared = command.hv /\ ~d.faulty /\ ~d.transport,
              !.goal = Target]} :
          Call(CASE ~Over(d) -> taken
                 [] Over(d) /\ (Hold \/ (d.atTarget /\ d.goal = Target) \/ ~done) -> stopped
                 [] OTHER -> BeginSetup([stopped EXCEPT !.atTarget = FALSE], Direction, TRUE))

Clearing(d) ==
    /\ d.state = "clearing"
    /\ Call(CASE ~Over(d) -> Taken(d)
              [] Over(d) /\ SafeStop -> Disable(d)
              [] Over(d) /\ ~SafeStop /\ ~Fresh -> Refreshed(Taken(d))
              [] OTHER -> [NoStream(Refreshed(Taken(d))) EXCEPT
                              !.state = "preloading", !.preload = 0, !.filling = FALSE,
                              !.active = FALSE, !.want = Direction, !.resume = Direction,
                              !.align = TRUE])

(* The legs are brought to the one that leads, and then move together.     *)
BeginLeveling(d) ==
    [d EXCEPT !.state = "leveling", !.align = FALSE, !.resume = Direction,
              !.level = Leading(Direction), !.points = [l \in Legs |-> leg[l].height]]
Resumed_Bug(d) ==                            \* the origin is still that of the preload
    [d EXCEPT !.state = "running", !.planned = 0, !.level = 0,
              !.total = TotalDistance([l \in Legs |-> d.level]),
              !.resume = None, !.want = Direction, !.goal = Target]
Resumed(d) ==
    [d EXCEPT !.state = "running", !.origin = d.level, !.planned = 0, !.level = 0,
              !.total = TotalDistance([l \in Legs |-> d.level]),
              !.resume = None, !.want = Direction, !.goal = Target]
Closer(d) ==
    [d EXCEPT !.points = [l \in Legs |->
        IF d.points[l] = d.level THEN d.level ELSE d.points[l] + Sign(d.resume)]]

Leveling(d, due) ==
    /\ d.state = "leveling"
    /\ IF Hold \/ Direction # d.resume
       THEN Call(Disable([d EXCEPT !.resume = None, !.atTarget = FALSE]))
       ELSE Call(CASE ~due -> d
                   [] due /\ ~Over(d) -> Taken(d)
                   [] due /\ Over(d) /\ (\A l \in Legs : d.points[l] = d.level) ->
                         Resumed(Taken(d))
                   [] OTHER -> IF ~LaneIdle(d) THEN Taken(d)
                               ELSE IF ~Fresh THEN Refreshed(Taken(d))
                               ELSE HandOver(Closer(Refreshed(Taken(d))), "point"))

(* Neutral, a safe stop, or no high voltage.                               *)
Held_Bug(d, late) ==                         \* only a stream is stopped
    /\ d.state \notin {"stopping", "clearing", "leveling"} /\ Hold
    /\ \E h \in {[d EXCEPT !.want = None, !.atTarget = FALSE]} : \E s \in {SetupStep(h, late)} :
          Call(CASE d.state = "configuring" ->
                        IF s.state = "ready" THEN BeginSetup(s, None, FALSE) ELSE s
                 [] d.state = "fault" -> BeginSetup(h, None, FALSE)
                 [] d.state \in {"preloading", "triggering", "running"} -> Disable(h)
                 [] OTHER -> h)
Held(d, late) ==
    /\ d.state \notin {"stopping", "clearing", "leveling"} /\ Hold
    /\ \E h \in {[d EXCEPT !.want = None, !.atTarget = FALSE]} : \E s \in {SetupStep(h, late)} :
          Call(CASE d.state = "configuring" ->
                        IF s.state = "ready" THEN BeginSetup(s, None, FALSE) ELSE s
                 [] d.state = "stopped" -> h
                 [] d.state = "fault" -> BeginSetup(h, None, FALSE)
                 [] OTHER -> Disable(h))

Moving(d, state) == d.state = state /\ ~Hold

Faulted(d) ==
    /\ Moving(d, "fault")
    /\ Call([IF d.transport THEN RecoverTransport(d) ELSE ResetLift(d) EXCEPT !.goal = Target])

Configuring(d, late) == Moving(d, "configuring") /\ Call(SetupStep(d, late))

Ready(d, late) ==
    /\ Moving(d, "ready")
    /\ Call(CASE Fresh -> Trigger(Refreshed(d), "on", "switching")
              [] ~Fresh /\ late -> Fault(Refreshed(d))
              [] OTHER -> Refreshed(d))

Switching(d) == Moving(d, "switching") /\ Call(Trigger(d, "enable", "enabling"))

Enabling(d) ==
    /\ Moving(d, "enabling")
    /\ Call(IF Over(d) THEN [Taken(d) EXCEPT !.state = "settling"] ELSE Taken(d))

(* The legs have come to rest after their brakes opened (done), and their    *)
(* feedback is there.                                                      *)
Settled(done) == done /\ Fresh
Uneven ==
    \/ \E l, k \in Legs : leg[l].height # leg[k].height
    \/ \E l \in Legs : leg[l].height \notin Retracted..Extended
Settling(d, done, late) ==
    /\ Moving(d, "settling")
    /\ \E r \in {Refreshed(d)} :
          Call(CASE Settled(done) /\ Allowed(d.want) ->
                        [NoStream(r) EXCEPT
                            !.state = "preloading", !.preload = 0, !.filling = FALSE,
                            !.active = FALSE, !.align = Uneven]
                 [] Settled(done) /\ ~Allowed(d.want) -> Disable(r)
                 [] OTHER -> IF late THEN Fault(r) ELSE r)

Stopped(d, done) ==
    /\ Moving(d, "stopped")
    /\ \E r \in {Refreshed(d)} : \E s \in {[r EXCEPT !.atTarget = FALSE, !.goal = Target]} :
          Call(CASE ~(Fresh /\ Allowed(Direction)) -> r
                 [] Fresh /\ Allowed(Direction) /\ AtTarget ->
                        [r EXCEPT !.atTarget = TRUE, !.goal = Target]
                 [] OTHER -> IF ~done THEN r
                             ELSE IF d.prepared THEN BeginPrepared(s, Direction)
                             ELSE BeginSetup(s, Direction, TRUE))

(* The command changed: stop, and start again from there.                  *)
Streaming(d) == ~Hold /\ d.state \in {"preloading", "triggering", "running"}
Changed(d) == d.want # Direction \/ d.goal # Target
Redirected(d) ==
    /\ Streaming(d) /\ Changed(d)
    /\ Call(Disable([d EXCEPT !.want = Direction, !.goal = Target]))

Counted(d) ==
    [Taken(d) EXCEPT !.preload = IF d.filling THEN @ + 1 ELSE @, !.filling = FALSE]
Preloading(d, due, done, late) ==
    /\ Streaming(d) /\ d.state = "preloading" /\ ~Changed(d)
    /\ \E c \in {IF d.group = NoGroup THEN d ELSE Counted(d)} :
       \E s \in {Stream(c, None, due, done, late)} :
          Call(CASE ~Over(d) -> Taken(d)
                 [] Over(d) /\ d.group # NoGroup /\ c.preload >= Preload ->
                        [c EXCEPT !.state = "triggering"]
                 [] OTHER -> [s EXCEPT !.filling = s.group # NoGroup])

Triggering(d, due, done, late) ==
    /\ Streaming(d) /\ d.state = "triggering" /\ ~Changed(d)
    /\ Call(CASE ~Over(d) -> Taken(d)
              [] Over(d) /\ ~d.active ->
                    [Trigger(d, "start", "triggering") EXCEPT !.active = TRUE]
              [] Over(d) /\ d.active /\ d.align -> BeginLeveling(Taken(d))
              [] OTHER -> Stream([Taken(d) EXCEPT !.state = "running"],
                                 Direction, due, done, late))

Running(d, due, done, late) ==
    /\ Streaming(d) /\ d.state = "running" /\ ~Changed(d)
    /\ Call(Stream(d, Direction, due, done, late))

ProcessLegs(d, due, done, late) ==
    \/ Stopping(d, done) \/ Clearing(d) \/ Leveling(d, due)
    \/ Held(d, late) \/ Faulted(d) \/ Configuring(d, late)
    \/ Ready(d, late) \/ Switching(d) \/ Enabling(d)
    \/ Settling(d, done, late) \/ Stopped(d, done) \/ Redirected(d)
    \/ Preloading(d, due, done, late) \/ Triggering(d, due, done, late)
    \/ Running(d, due, done, late)

(* lift_hydraulic_device_apply: the pump first, then the legs.  Without a    *)
(* bus everything is forgotten.                                             *)
Offline == bus = "off" /\ Call(RecoverTransport(dev))
Apply(due, done, pumpLate, legsLate) ==
    \/ Offline
    \/ bus = "normal" /\ \E d \in {ServePump(dev, done, pumpLate)} :
                              ProcessLegs(d, due, done, legsLate)

(* A deadline that passes is a fault, or due to a fault that stays latched. *)
Stuck(device) == IF device = "pump" THEN motor.feedback = "fault" ELSE Latched # {}
Hopeless == Stuck("pump") \/ Stuck("legs")
Cycle(due, done, overdue) ==
    /\ Apply(due, done, overdue /\ (Hopeless => Stuck("pump")),
                        overdue /\ (Hopeless => Stuck("legs")))
    /\ faults' = IF overdue /\ ~Hopeless THEN faults + 1 ELSE faults
    /\ faults' <= command.scenario.faults
    /\ UNCHANGED <<command, leg, motor, bus>>

-----------------------------------------------------------------------------
(* The drives.  A leg keeps to its place until it is started, and then       *)
(* follows its points; a disabled drive forgets them.                       *)
At(n, mode) == [n EXCEPT !.mode = mode, !.goal = 0, !.loaded = 0]
Obeys(n, word, point) ==
    CASE word = "off" -> At(n, "off")
      [] word = "on" /\ n.mode = "off" -> At(n, "on")
      [] word = "enable" /\ n.mode \in {"on", "running", "starved"} -> At(n, "enabled")
      [] word = "start" /\ n.mode = "enabled" -> [n EXCEPT !.mode = "running"]
      [] word = "point" /\ n.mode = "enabled" ->
            [n EXCEPT !.goal = point, !.loaded = Min({@ + 1, Preload})]
      [] word = "point" /\ n.mode \in {"running", "starved"} -> [n EXCEPT !.goal = point]
      [] OTHER -> n

Delivered(reached) ==
    [l \in Legs |-> IF l \in reached
                    THEN Obeys(leg[l], dev.group.word,
                               IF dev.points = NoPoints THEN 0 ELSE dev.points[l])
                    ELSE leg[l]]

GroupDone ==
    /\ bus = "normal"
    /\ \/ /\ dev.group.verdict = "pending"
          /\ dev' = [dev EXCEPT !.group.verdict = "complete"]
          /\ leg' = Delivered(Legs) /\ UNCHANGED motor
       \/ /\ dev.pump.group.verdict = "pending"
          /\ dev' = [dev EXCEPT !.pump.group.verdict = "complete"]
          /\ motor' = [motor EXCEPT !.goal = dev.pump.group.word]
          /\ UNCHANGED leg
    /\ UNCHANGED <<command, bus, faults>>

LegMoves(l) ==
    /\ leg[l].mode = "running" /\ leg[l].goal # leg[l].height
    /\ leg' = [leg EXCEPT ![l].height = IF leg[l].goal > @ THEN @ + 1 ELSE @ - 1]
    /\ UNCHANGED <<command, dev, motor, bus, faults>>

(* At an end of the range a controlled leg may get a little past it.       *)
LegCreeps(l) ==
    /\ command.scenario.creeps
    /\ leg[l].mode = "running" /\ leg[l].goal = leg[l].height
    /\ \/ /\ leg[l].height = Extended
          /\ leg' = [leg EXCEPT ![l].height = Extended + 1]
       \/ /\ leg[l].height = Retracted
          /\ leg' = [leg EXCEPT ![l].height = Retracted - 1]
    /\ leg'[l].height \in Heights
    /\ UNCHANGED <<command, dev, motor, bus, faults>>

MotorTurns ==
    /\ motor.speed # IF motor.goal = "run" THEN "reverse" ELSE "still"
    /\ motor' = [motor EXCEPT !.speed = IF motor.goal = "run" THEN "reverse" ELSE "still"]
    /\ UNCHANGED <<command, dev, leg, bus, faults>>

(* The SDO writes of one node: it is disabled and configured, and a fault    *)
(* that was latched when the writes were queued is cleared.                 *)
Cleared(n, job) == [n EXCEPT !.feedback = IF @ = "fault" /\ job THEN "fresh" ELSE @]
Written(writes) ==
    IF writes.left = 1 THEN NoWrites ELSE [writes EXCEPT !.left = @ - 1]
NodeWritten ==
    /\ bus = "normal" /\ dev.sdo.job # None
    /\ dev' = [dev EXCEPT !.sdo = Written(@)]
    /\ LET l == Cardinality(Legs) + 1 - dev.sdo.left
       IN  IF dev.sdo.job = "legs"
           THEN /\ leg' = [leg EXCEPT ![l] = Cleared(At(@, "off"), l \in dev.sdo.clear)]
                /\ UNCHANGED motor
           ELSE /\ motor' = Cleared(motor, dev.sdo.clear # {})
                /\ UNCHANGED leg
    /\ UNCHANGED <<command, bus, faults>>

FeedbackReturns ==
    /\ \/ /\ \E l \in Legs : /\ leg[l].feedback = "late"
                             /\ leg' = [leg EXCEPT ![l].feedback = "fresh"]
          /\ UNCHANGED motor
       \/ /\ motor.feedback = "late" /\ motor' = [motor EXCEPT !.feedback = "fresh"]
          /\ UNCHANGED leg
    /\ UNCHANGED <<command, dev, bus, faults>>

BusReturns ==
    /\ bus = "off" /\ bus' = "normal"
    /\ UNCHANGED <<command, dev, leg, motor, faults>>

-----------------------------------------------------------------------------
(* What goes wrong.                                                        *)
Goes == faults < command.scenario.faults /\ faults' = faults + 1

GroupLost ==
    /\ Goes /\ ~LaneIdle(dev)
    /\ IF dev.group.verdict = "pending"
       THEN /\ \E n \in 0..Cardinality(Legs) : leg' = Delivered(1..n)
            /\ dev' = [dev EXCEPT !.group.verdict = "failed"]
       ELSE /\ dev' = [dev EXCEPT !.pump.group.verdict = "failed"]
            /\ UNCHANGED leg
    /\ UNCHANGED <<command, motor, bus>>

WriteAborted ==
    /\ Goes /\ dev.sdo.job # None
    /\ dev' = [dev EXCEPT !.sdo = Written(@),
                          !.setup = IF @ = "wait" THEN "aborted" ELSE @,
                          !.pump.setup = IF @ = "wait" THEN "aborted" ELSE @]
    /\ UNCHANGED <<command, leg, motor, bus>>

BusOff ==
    /\ Goes /\ bus = "normal" /\ bus' = "off"
    /\ UNCHANGED <<command, dev, leg, motor>>

LegFails(l) ==
    /\ Goes
    /\ leg' \in {[leg EXCEPT ![l].feedback = IF @ = "fresh" THEN "late" ELSE @],
                 [leg EXCEPT ![l] = [At(@, "off") EXCEPT !.feedback = "fault"]],
                 [leg EXCEPT ![l].mode = IF @ = "running" THEN "starved" ELSE @]}
    /\ leg' # leg
    /\ UNCHANGED <<command, dev, motor, bus>>

MotorFails ==
    /\ Goes
    /\ motor' \in {[motor EXCEPT !.feedback = "late"],
                   [goal |-> "stop", speed |-> "still", feedback |-> "fault"],
                   [motor EXCEPT !.speed = "positive"],
                   [motor EXCEPT !.goal = "stop", !.speed = "still"]}
    /\ motor' # motor
    /\ UNCHANGED <<command, dev, leg, bus>>

(* The vehicle task publishes another command, or the high voltage is lost,  *)
(* with or without the torque of the drives; it comes back after the legs    *)
(* were stopped.                                                            *)
Calm(dir) ==
    \/ Flips \/ dev.want = dir \/ (LaneIdle(dev) /\ dev.pump.last = "stop")
    \/ dev.state \notin {"preloading", "triggering", "running"}

Publish ==
    /\ command.hv
    /\ \E r \in command.scenario.requests \ {command.request} :
          /\ r \in Directions => Calm(r)
          /\ command' = [command EXCEPT !.request = r]
    /\ UNCHANGED <<dev, leg, motor, bus, faults>>

PowerReturns ==
    /\ ~command.hv /\ dev.state \in {"stopped", "configuring"}
    /\ command' = [command EXCEPT !.hv = TRUE]
    /\ UNCHANGED <<dev, leg, motor, bus, faults>>

PowerLost ==
    /\ command.hv /\ command' = [command EXCEPT !.request = "safe", !.hv = FALSE]
    /\ \/ /\ leg' = [l \in Legs |-> At(leg[l], "off")]
          /\ motor' = [motor EXCEPT !.goal = "stop"]
       \/ UNCHANGED <<leg, motor>>
    /\ UNCHANGED <<dev, bus, faults>>

Environment ==
    \/ GroupDone \/ (\E l \in Legs : LegMoves(l) \/ LegCreeps(l)) \/ MotorTurns \/ NodeWritten
    \/ FeedbackReturns \/ BusReturns
    \/ GroupLost \/ WriteAborted \/ BusOff \/ (\E l \in Legs : LegFails(l)) \/ MotorFails
    \/ Publish \/ PowerReturns \/ PowerLost

Next ==
    \/ \E waited \in 0..3 : Cycle(waited >= 1, waited >= 2, waited >= 3)
    \/ Environment

(* The CAN3 task runs every few ms, what waits for a time gets it, and what  *)
(* waits for a latched fault runs into its deadline.  Groups and writes are  *)
(* carried out, started legs and a running pump turn, feedback and the bus   *)
(* come back.                                                               *)
Fairness ==
    /\ SF_vars(Cycle(TRUE, TRUE, FALSE))
    /\ WF_vars(Hopeless /\ Cycle(TRUE, TRUE, TRUE))
    /\ WF_vars(GroupDone) /\ WF_vars(NodeWritten)
    /\ \A l \in Legs : WF_vars(LegMoves(l))
    /\ WF_vars(MotorTurns) /\ WF_vars(FeedbackReturns) /\ WF_vars(BusReturns)

Spec == Init /\ [][Next]_vars /\ Fairness

-----------------------------------------------------------------------------
Handed(word) ==
    dev'.group = [verdict |-> "pending", word |-> word] /\ dev.group.verdict # "pending"

(* What the legs are given is one coherent stream: it begins where every leg *)
(* is, it starts when all have the points that hold them there, and then no  *)
(* point asks a leg for more than one step, or for one against the direction *)
(* of the command, but back to the end it was past: "a direction change       *)
(* cancels the complete four-axis group and applies the brakes"              *)
(* (lift_hydraulic_device.c:2089).                                          *)
CoherentStream ==
    [][/\ Handed("point") /\ dev.points = NoPoints =>
              \A l \in Legs : dev'.points[l] = leg[l].height
       /\ Handed("point") /\ dev.points # NoPoints =>
              \A l \in Legs : \/ (dev'.points[l] - dev.points[l]) * Sign(Direction) \in {0, 1}
                             \/ /\ dev.points[l] = Target + Sign(Direction)
                                /\ dev'.points[l] = Target
       /\ Handed("start") =>
              \A l \in Legs : leg[l].mode = "off"
                                 \/ (leg[l].mode = "enabled" /\ leg[l].loaded = Preload)]_vars

(* After a neutral stick, a safe stop or a loss of high voltage all legs are *)
(* disabled for good, whatever set-up, enabling or stream was under way:     *)
(* "synchronously disable the four axes" (lift_hydraulic_device.c:2163).     *)
(* Only without faults: see the README.                                     *)
StopDisables ==
    <>[](Hold /\ faults = 0) => <>[](\A l \in Legs : leg[l].mode = "off")

(* Held up, the stick brings all legs to their end in the end, across lost   *)
(* groups, refused set-ups, dry buffers, late feedback and a bus that was    *)
(* off; but not past a fault that stays latched, and not while some leg is   *)
(* past the end again and again: then every step up is refused to all of     *)
(* them, within the window of 3 mm too (lift_hydraulic_device.c:1432 before  *)
(* 1444), and set-up, settling and disable repeat.                          *)
LiftArrives ==
    <>[](Direction = "extend" /\ Latched = {}) =>
        \/ <>[](\A l \in Legs : leg[l].height = Extended)
        \/ []<>(\E l \in Legs : leg[l].height > Extended)

(* A valve that is asked for opens and stays open, whatever the pump did.   *)
ValvesServed ==
    \A m \in Masks : <>[](PumpRequest /\ Mask = m) => <>[](dev.pump.valves = m)
=============================================================================
