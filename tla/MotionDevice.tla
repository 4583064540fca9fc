----------------------------- MODULE MotionDevice -----------------------------
(***************************************************************************)
(* The motion device of CAN2 (motion_device.c): every call of the CAN2 task *)
(* takes the newest command (motion_device_apply) and hands the CANopen     *)
(* master at most one realtime group (motion_device_flush_realtime), a      *)
(* steering group for all steering drives or a velocity group for all wheel *)
(* drives.  Lost groups, silent and restarted nodes and split steering      *)
(* groups are repaired on the way: zero first, then the nodes, then one     *)
(* steering group for all axes, then traction.                              *)
(*                                                                         *)
(* Between two calls frames leave, groups end, nodes fail and answer, time  *)
(* passes and commands change.  One group at a time is with the CANopen     *)
(* master (see CanopenMaster); a steering group is the row of its trigger   *)
(* frames.  A pose is one coherent set of steering angles, the steps of a   *)
(* steering ramp are poses of their own; a velocity is "run", or an enabled *)
(* "zero", or "off": zero with the drives disabled.  The wheel drives are   *)
(* always treated alike, and are one node here.                             *)
(*                                                                         *)
(* X_Bug before X is X with a plausible mistake, used by nothing.           *)
(***************************************************************************)
EXTENDS Integers, FiniteSets, FiniteSetsExt

CONSTANTS
    Steers,         \* the steering nodes, 1..n in the order of config->steer_nodes
    Poses,          \* the steering targets
    MaxFaults       \* bound: lost groups, failing nodes, lost requests, and times
                    \* the permission to move is withdrawn, together

ASSUME MotionAssumption ==
    /\ IsFiniteSet(Steers) /\ Steers = 1..Cardinality(Steers) /\ Steers # {}
    /\ MaxFaults \in Nat

VARIABLES
    command,    \* the actuator command of the mailbox
    dev,        \* motion_device_state_t, and its groups at the CANopen master
    node,       \* what the nodes show: "ok", "late" feedback, "down", "asked" to
                \* start, just "booted"
    held,       \* the target each steering axis was last triggered to
    wheel,      \* the velocity the wheel drives last received
    faults,     \* so far
    cut         \* history: the brake cut a steering group off, and left the axes apart

vars == <<command, dev, node, held, wheel, faults, cut>>

-----------------------------------------------------------------------------
None == "none"
Initial == "initial"
Unknown == "unknown"
Drive == 0
Nodes == Steers \cup {Drive}
Velocities == {"run", "zero", "off"}

NoSteer == [verdict |-> None, pose |-> None, out |-> 0]
NoDrive == [verdict |-> None, value |-> "off"]

Init ==
    /\ \E p \in Poses : command = [power |-> "off", moving |-> FALSE, pose |-> p]
    /\ dev = [latest |-> "off", pendingVelocity |-> FALSE, last |-> None, next |-> None,
              stop |-> FALSE, drive |-> NoDrive,
              target |-> None, pendingTarget |-> FALSE, pose |-> None, nextPose |-> None,
              steer |-> NoSteer, pending |-> {}, entry |-> FALSE, degraded |-> FALSE,
              partial |-> FALSE, stable |-> FALSE, resync |-> FALSE, recorded |-> FALSE,
              setup |-> "request"]
    /\ node = [n \in Nodes |-> IF n = Drive THEN "down" ELSE "ok"]
    /\ held = [i \in Steers |-> Initial]
    /\ wheel = "off" /\ faults = 0 /\ cut = FALSE

-----------------------------------------------------------------------------
(* The command.  "off": no high voltage is asked for; "shut": the brake is   *)
(* on, nothing may be steered or driven; "stale": the executor's substitute  *)
(* for a command that is too old, or one of the safety manager, which keep   *)
(* the high voltage.                                                        *)
HvReady_Bug(c) == c.power \in {"on", "shut"}
HvReady(c) == c.power # "off"
Permitted(c) == c.power \in {"on", "shut"}
ZeroFor(c) == IF Permitted(c) THEN "zero" ELSE "off"

Live(g) == g.verdict \in {"pending", "cancelling"}
LaneBusy(d) == Live(d.drive) \/ Live(d.steer)
Retarget(d) == [d EXCEPT !.pendingTarget = @ \/ d.target # None]

(* A zero instead of whatever the wheels were to do.                        *)
ForceZero(d, v) ==
    LET new == d.last # v \/ d.latest # v
    IN  [d EXCEPT !.stop = IF v = "off" THEN @ \/ new ELSE FALSE, !.next = None,
                  !.latest = v, !.pendingVelocity = @ \/ new]

(* A group was lost: forget both groups, ask for a resynchronisation, and   *)
(* latch the steering if only some axes may have got their trigger.         *)
Recover_Bug(d, latch) ==
    ForceZero(Retarget([d EXCEPT
        !.steer = NoSteer, !.drive = NoDrive, !.nextPose = None, !.recorded = FALSE,
        !.partial = @ \/ latch, !.stable = @ /\ ~latch, !.degraded = latch]), "off")
Recover(d, latch) ==
    ForceZero(Retarget([d EXCEPT
        !.steer = NoSteer, !.drive = NoDrive, !.nextPose = None,
        !.resync = TRUE, !.recorded = FALSE,
        !.partial = @ \/ latch, !.stable = @ /\ ~latch, !.degraded = latch]), "off")

(* trigger: a trigger frame was the last to fail, now or at an earlier time. *)
FailSteer(d, trigger) == Recover(d, d.steer.out > 0 \/ trigger)

-----------------------------------------------------------------------------
(* motion_device_apply.                                                    *)
Reset(d) ==
    [d EXCEPT !.steer = NoSteer, !.drive = NoDrive, !.nextPose = None, !.next = None,
              !.degraded = FALSE, !.partial = FALSE, !.resync = FALSE,
              !.recorded = FALSE, !.entry = FALSE, !.stable = FALSE,
              !.pendingVelocity = TRUE, !.latest = "off", !.last = None,
              !.pendingTarget = FALSE, !.pose = None]

SteerAllowed(d, c) == c.power = "on" /\ d.pending = {} /\ ~d.degraded
DriveAllowed(d, c) == c.moving /\ SteerAllowed(d, c) /\ ~d.partial /\ ~d.resync

(* The closing gate cancels the steering group; a trigger frame of it that  *)
(* is in flight (trigger) still leaves, and fails the group.                *)
Cancelled(g, trigger) ==
    CASE g.verdict = "pending" ->
            [g EXCEPT !.verdict = IF trigger THEN "cancelling" ELSE "cancelled"]
      [] g.verdict = "complete" -> [g EXCEPT !.verdict = "cancelled"]
      [] OTHER -> g

CacheVelocity(d, v) == [d EXCEPT !.pendingVelocity = @ \/ d.latest # v, !.latest = v]
CachePose(d, p) == [d EXCEPT !.pendingTarget = @ \/ d.target # p, !.target = p]

Apply(d, c, trigger) ==
    LET ready == IF c.power \in {"off", "stale"} THEN Reset(d) ELSE d
        allowed == SteerAllowed(ready, c)
        gated == IF allowed THEN ready
                 ELSE [ready EXCEPT !.nextPose = None, !.steer = Cancelled(@, trigger)]
    IN  CachePose(CacheVelocity(gated, IF DriveAllowed(ready, c) THEN "run" ELSE ZeroFor(c)),
                  c.pose)

-----------------------------------------------------------------------------
(* observe_can2_node_recovery_state.                                       *)
Observe(d, c) ==
    LET booted == {n \in Nodes : node[n] = "booted"}
        fallen == booted \cup {n \in Nodes : node[n] \in {"down", "asked"}}
                         \cup {n \in Steers : node[n] = "late" /\ HvReady(c)}
        pending == (d.pending \cup fallen) \ {n \in Nodes : node[n] = "ok"}
        seen == [d EXCEPT !.pending = pending,
                          !.entry = @ \/ booted # {} \/ pending \ d.pending # {}]
    IN  IF d.pending # {} /\ pending = {}
        THEN Retarget([seen EXCEPT !.resync = TRUE, !.recorded = FALSE])
        ELSE seen

-----------------------------------------------------------------------------
(* flush_drive_velocity_realtime.  The service refuses a group while         *)
(* another is active, and the device asks before it hands one over.         *)
QueueDrive(d, v) == [d EXCEPT !.drive = [verdict |-> "pending", value |-> v]]
FinishDrive(d) ==
    [d EXCEPT !.last = d.drive.value, !.pendingVelocity = d.drive.value # d.latest,
              !.drive = NoDrive]
SafeStop(d) ==
    LET due == d.stop \/ d.last # "off"
    IN  IF due /\ ~LaneBusy(d) THEN [QueueDrive(d, "off") EXCEPT !.stop = FALSE]
        ELSE [d EXCEPT !.stop = due]

Recovering(d) == d.pending # {} \/ d.partial \/ d.resync
Shaped(d, done) == IF d.latest = "zero" /\ d.last = "run" /\ ~done THEN "run" ELSE d.latest
DriveChanged(d, v, refresh) ==
    d.pendingVelocity \/ d.last # v \/ (refresh /\ v = "run")

(* done: what takes time is over: the period of the groups, which a reset    *)
(* ends at once, the ramp, a refresh time.                                  *)
BuildDrive(d, done) ==
    LET v == Shaped(d, done)
    IN  CASE ~DriveChanged(d, v, done) -> d
          [] DriveChanged(d, v, done) /\ LaneBusy(d) -> [d EXCEPT !.next = v]
          [] OTHER -> QueueDrive(d, v)

SendDrive(d, c, done) ==
    CASE d.next # None ->
            IF LaneBusy(d) THEN d ELSE [QueueDrive(d, d.next) EXCEPT !.next = None]
      [] d.next = None /\ ~(done \/ c.power = "stale") -> d
      [] d.next = None /\ (done \/ c.power = "stale") /\ Recovering(d) ->
            IF LaneBusy(d) \/ d.last = ZeroFor(c) THEN d ELSE QueueDrive(d, ZeroFor(c))
      [] OTHER -> IF node[Drive] = "ok" THEN BuildDrive(d, done) ELSE SafeStop(d)

FlushDrive(d, c, done) ==
    CASE d.drive.verdict = "failed" -> Recover(d, FALSE)
      [] Live(d.drive) -> d
      [] d.drive.verdict = "complete" -> SendDrive(FinishDrive(d), c, done)
      [] OTHER -> SendDrive(d, c, done)

ZeroReached(d, c) == d.drive = NoDrive /\ d.last = ZeroFor(c)

-----------------------------------------------------------------------------
(* motion_device_flush_realtime, one action for each of its ways.           *)
Allowed == SteerAllowed(dev, command)

(* The brake takes hold of a steering group that is not through, which leaves *)
(* the axes apart, and the device does not know that it owes a whole one.   *)
Coherent == \E p \in Poses \cup {Initial} : \A i \in Steers : held[i] = p
Interrupted ==
    command.power = "shut" /\ dev.steer.verdict \in {"pending", "cancelling", "failed"}
Owed(d) == d.partial \/ d.resync \/ command.power \in {"off", "stale"}

Call(d, asked) ==
    /\ dev' = d
    /\ node' = [n \in Nodes |-> CASE n \in asked -> "asked"
                                 [] n \notin asked /\ node[n] = "booted" -> "down"
                                 [] OTHER -> node[n]]
    /\ cut' = ((cut \/ Interrupted) /\ ~Coherent /\ ~Owed(d))
    /\ UNCHANGED <<command, held, wheel, faults>>

(* No high voltage: nothing is sent.                                       *)
Unpowered(d) == ~HvReady(command) /\ Call(d, {})

(* A node is being repaired, once the wheels have their zero and the lane   *)
(* is idle: the first one that is not asked yet.  done: what came before it  *)
(* in the queue of the downloads is over.                                   *)
Serviced(d, done) ==
    LET open == {n \in d.pending : node[n] # "asked"}
    IN  IF ZeroReached(d, command) /\ ~LaneBusy(d) /\ done /\ open # {} THEN {Min(open)} ELSE {}

Entered(d, trigger) ==
    CASE ~d.entry -> d
      [] d.entry /\ d.steer # NoSteer -> [FailSteer(d, trigger) EXCEPT !.entry = FALSE]
      [] OTHER -> [Recover(d, FALSE) EXCEPT !.entry = FALSE]

Repair(d, trigger, done) ==
    /\ HvReady(command) /\ d.pending # {}
    /\ \E z \in {ForceZero(Entered(d, trigger), ZeroFor(command))} :
       \E e \in {FlushDrive(z, command, done)} : Call(e, Serviced(e, done))

(* A steering group was split: everything must be quiet and ready for a     *)
(* while.  done: it was.                                                    *)
Release(d) ==
    Retarget([d EXCEPT !.partial = FALSE, !.stable = FALSE, !.degraded = FALSE,
                       !.resync = TRUE, !.recorded = FALSE])
ServicePartial(d, done) ==
    CASE ~(/\ d.partial /\ d.pending = {} /\ d.steer = NoSteer /\ ZeroReached(d, command)
           /\ ~LaneBusy(d) /\ \A n \in Nodes : node[n] = "ok") -> [d EXCEPT !.stable = FALSE]
      [] d.stable /\ done -> Release(d)
      [] OTHER -> [d EXCEPT !.stable = TRUE]

RepairSplit(d, done) ==
    /\ HvReady(command) /\ d.pending = {} /\ d.partial
    /\ \E z \in {ForceZero(d, ZeroFor(command))} :
       \E e \in {FlushDrive(z, command, done)} : Call(ServicePartial(e, done), {})

(* The wheels get their zero before the steering is resynchronised.        *)
ZeroDue(d) == d.resync /\ ~ZeroReached(d, command)
Repaired(d) == HvReady(command) /\ d.pending = {} /\ ~d.partial

ZeroFirst(d, done) ==
    /\ Repaired(d) /\ ZeroDue(d)
    /\ Call(FlushDrive(d, command, done), {})

(* The profile of the steering drives is written and read back before       *)
(* anything moves, but not before a resynchronisation.                      *)
SetupDue(d) == d.setup # "complete" /\ ~d.resync
SetupStep(d) ==
    IF ZeroReached(d, command) /\ ~LaneBusy(d)
    THEN [d EXCEPT !.setup = IF @ = "request" THEN "wait" ELSE "complete"] ELSE d

Setup(d, done) ==
    /\ Repaired(d) /\ ~ZeroDue(d) /\ SetupDue(d)
    /\ \E z \in {ForceZero(d, ZeroFor(command))} :
       \E e \in {FlushDrive(z, command, done)} : Call(SetupStep(e), {})

Ordinary(d) == Repaired(d) /\ ~ZeroDue(d) /\ ~SetupDue(d)

Inhibited(d, done) ==
    /\ Ordinary(d) /\ ~Allowed
    /\ Call(FlushDrive([d EXCEPT !.nextPose = None], command, done), {})

(* The next steering group: one that waits, or else the newest target.     *)
(* It is due with the period (due), and at once after a reset.              *)
Due(d, due) == due \/ d.pose = None
PoseChanged(d) == d.pendingTarget \/ d.pose # d.target
QueueSteer(d, p) ==
    [d EXCEPT !.steer = [verdict |-> "pending", pose |-> p, out |-> 0],
              !.nextPose = None, !.degraded = FALSE, !.recorded = d.resync]

Produce(d, due, done) ==
    CASE d.nextPose # None ->
            IF LaneBusy(d) THEN FlushDrive(d, command, done) ELSE QueueSteer(d, d.nextPose)
      [] d.nextPose = None /\ ~(Due(d, due) /\ PoseChanged(d)) -> FlushDrive(d, command, done)
      [] OTHER ->
            IF LaneBusy(d) THEN FlushDrive([d EXCEPT !.nextPose = d.target], command, done)
            ELSE QueueSteer(d, d.target)

FinishSteer(d) ==
    LET answered == d.resync /\ d.recorded
    IN  [d EXCEPT !.pose = d.steer.pose, !.pendingTarget = d.steer.pose # d.target,
                  !.steer = NoSteer, !.resync = @ /\ ~answered, !.recorded = @ /\ ~answered]

Steer(d, due, done) ==
    /\ Ordinary(d) /\ Allowed /\ d.steer = NoSteer
    /\ Call(Produce(d, due, done), {})

SteerPending(d, due, done) ==
    /\ Ordinary(d) /\ Allowed /\ Live(d.steer)
    /\ Call(FlushDrive([d EXCEPT !.nextPose =
                            IF Due(d, due) /\ PoseChanged(d) THEN d.target ELSE @],
                       command, done), {})

SteerEnded_Bug(d, trigger, due, done) ==
    /\ Ordinary(d) /\ Allowed
    /\ \/ /\ d.steer.verdict = "failed"
          /\ Call(FlushDrive(FailSteer(d, trigger), command, done), {})
       \/ /\ d.steer.verdict = "cancelled"
          /\ Call([d EXCEPT !.steer = NoSteer], {})
       \/ /\ d.steer.verdict = "complete"
          /\ Call(Produce(FinishSteer(d), due, done), {})
SteerEnded(d, trigger, due, done) ==
    /\ Ordinary(d) /\ Allowed
    /\ \/ /\ d.steer.verdict = "failed"
          /\ \E lost \in {FailSteer(d, trigger)} :
                Call(IF lost.degraded THEN lost ELSE FlushDrive(lost, command, done), {})
       \/ /\ d.steer.verdict = "cancelled"
          /\ Call([d EXCEPT !.steer = NoSteer], {})
       \/ /\ d.steer.verdict = "complete"
          /\ \E e \in {FinishSteer(d)} : \E next \in {FlushDrive(e, command, done)} :
                Call(IF LaneBusy(next) THEN next ELSE Produce(next, due, done), {})

(* A velocity group is through before the next one is due.                  *)
Elapsed == dev.drive.verdict # "complete"

(* One call of the task.  due: the period of the steering groups is over.   *)
Cycle(trigger, due, done) ==
    \E a \in {Apply(dev, command, trigger)} : \E d \in {Observe(a, command)} :
        \/ Unpowered(d) \/ Repair(d, trigger, done)
        \/ RepairSplit(d, done) \/ ZeroFirst(d, done)
        \/ Setup(d, done) \/ Inhibited(d, done)
        \/ Steer(d, due, done) \/ SteerPending(d, due, done)
        \/ SteerEnded(d, trigger, due, done)

-----------------------------------------------------------------------------
(* The CANopen master and the drives.  A node that is not up ignores what   *)
(* it is sent, one that is starting may or may not take it.                 *)
Takes(n, old, new) ==
    CASE node[n] \in {"ok", "late"} -> {new} [] node[n] = "asked" -> {old, new} [] OTHER -> {old}

SteerFrame ==
    LET i == dev.steer.out + 1
        verdict == CASE dev.steer.verdict = "cancelling" -> "failed"
                     [] dev.steer.verdict = "pending" /\ i + 1 \notin Steers -> "complete"
                     [] OTHER -> "pending"
    IN  /\ Live(dev.steer)
        /\ held' \in {[held EXCEPT ![i] = p] : p \in Takes(i, held[i], dev.steer.pose)}
        /\ dev' = [dev EXCEPT !.steer.out = i, !.steer.verdict = verdict]
        /\ cut' = (cut /\ ~Coherent')
    /\ UNCHANGED <<command, node, wheel, faults>>

(* A disabled wheel drive is not operational any more.                     *)
DriveEnds ==
    /\ Live(dev.drive)
    /\ dev' = [dev EXCEPT !.drive.verdict = "complete"]
    /\ wheel' \in Takes(Drive, wheel, dev.drive.value)
    /\ node' = [node EXCEPT ![Drive] = IF wheel' = "off" /\ @ # "booted" THEN "down" ELSE @]
    /\ UNCHANGED <<command, held, faults, cut>>

(* A group fails at one of its frames; the recovery of the bus may wipe the *)
(* evidence of how far it came before the device has looked.                *)
GroupFails(wiped) ==
    /\ faults < MaxFaults /\ faults' = faults + 1
    /\ LaneBusy(dev)
    /\ dev' = IF Live(dev.steer)
              THEN [dev EXCEPT !.steer.verdict = "failed", !.steer.out = IF wiped THEN 0 ELSE @]
              ELSE [dev EXCEPT !.drive.verdict = "failed"]
    /\ wheel' \in IF Live(dev.drive) THEN {wheel} \cup Takes(Drive, wheel, dev.drive.value)
                  ELSE {wheel}
    /\ UNCHANGED <<command, node, held, cut>>

NodeFails(n) ==
    /\ faults < MaxFaults /\ faults' = faults + 1
    /\ node[n] # "booted"
    /\ \/ node[n] = "ok" /\ node' = [node EXCEPT ![n] = "late"] /\ UNCHANGED <<held, wheel>>
       \/ /\ \E s \in {"down", "booted"} : s # node[n] /\ node' = [node EXCEPT ![n] = s]
          /\ held' = IF n = Drive THEN held ELSE [held EXCEPT ![n] = Unknown]
          /\ wheel' = IF n = Drive THEN "off" ELSE wheel
    /\ UNCHANGED <<command, dev, cut>>

NodeAnswers(n) ==
    /\ node[n] = "asked" /\ node' = [node EXCEPT ![n] = "ok"]
    /\ UNCHANGED <<command, dev, held, wheel, faults, cut>>

LateEnds(n) ==
    /\ node[n] = "late" /\ node' = [node EXCEPT ![n] = "ok"]
    /\ UNCHANGED <<command, dev, held, wheel, faults, cut>>

(* A repair request (of a node that has taken nothing yet), or an answer of  *)
(* the profile set-up, is lost, and is tried again after its retry time.    *)
RequestLost ==
    /\ faults < MaxFaults /\ faults' = faults + 1
    /\ \/ /\ \E n \in Nodes :
                node[n] = "asked" /\ (n = Drive => wheel = "off")
                /\ node' = [node EXCEPT ![n] = "down"]
          /\ UNCHANGED dev
       \/ /\ dev.setup = "wait" /\ dev' = [dev EXCEPT !.setup = "request"]
          /\ UNCHANGED node
    /\ UNCHANGED <<command, held, wheel, cut>>

(* The vehicle task publishes another command, or none.                    *)
Powers == [off |-> {"off", "on"}, on |-> {"off", "on", "shut", "stale"},
           shut |-> {"off", "on", "shut", "stale"}, stale |-> {"off", "on", "stale"}]
Publish ==
    /\ \E power \in Powers[command.power], moving \in BOOLEAN, p \in Poses :
           /\ power = "on" \/ (~moving /\ p = command.pose)
           /\ command' = [power |-> power, moving |-> moving, pose |-> p]
    /\ command' # command
    /\ faults' = IF command.power = "on" /\ command'.power # "on" THEN faults + 1 ELSE faults
    /\ faults' <= MaxFaults
    /\ UNCHANGED <<dev, node, held, wheel, cut>>

Environment ==
    \/ SteerFrame \/ DriveEnds
    \/ \E wiped \in BOOLEAN : GroupFails(wiped)
    \/ \E n \in Nodes : NodeFails(n) \/ NodeAnswers(n) \/ LateEnds(n)
    \/ RequestLost \/ Publish

Next ==
    \/ \E due \in BOOLEAN, done \in {FALSE, Elapsed},
          trigger \in {FALSE, dev.steer # NoSteer} : Cycle(trigger, due, done)
    \/ Environment

(* The CAN2 task runs every 2 ms, its frames leave, and a node that is asked *)
(* answers at last.  The velocity groups have a shorter period than the      *)
(* steering groups, so that now and then only theirs is over.                *)
Fairness ==
    /\ WF_vars(Cycle(FALSE, TRUE, Elapsed)) /\ SF_vars(Cycle(FALSE, FALSE, Elapsed))
    /\ WF_vars(SteerFrame) /\ WF_vars(DriveEnds)
    /\ \A n \in Nodes : WF_vars(NodeAnswers(n)) /\ WF_vars(LateEnds(n))

Spec == Init /\ [][Next]_vars /\ Fairness

-----------------------------------------------------------------------------
HandsOver(v) == dev'.drive = [verdict |-> "pending", value |-> v] /\ ~Live(dev.drive)

(* Traction is only handed to the bus while all steering axes have been     *)
(* triggered to one pose, whatever group was lost or split by a fault and    *)
(* whatever node restarted before: "prevents a recovered drive axis from     *)
(* moving against a steering axis that retained a different pre-fault target" *)
(* (motion_device.c:3762).  The exception is what the brake splits: a group  *)
(* it cancelled counts as never sent (motion_device.c:4328), and a velocity   *)
(* that waits for the lane leaves although the brake is on (4150); it lasts   *)
(* until the axes are together again, or the device owes a whole group.      *)
NoTractionOverSplit == [][HandsOver("run") => Coherent \/ cut']_vars

(* What a repair needs never waits for what needs the repair: with bounded  *)
(* faults traction comes back by itself, set-up, resynchronisation, split   *)
(* groups and an ever changing steering target notwithstanding.  What the    *)
(* brake split is made whole too, unless the pose that is wanted is the one  *)
(* of the last group that was through: then nothing seems to be left to send *)
(* (motion_device.c:4303, 1660).                                            *)
RecoveryCompletes ==
    <>[](command.power = "on" /\ command.moving) =>
        <>[](wheel = "run") /\ []<>(~cut \/ dev.pose = command.pose)

(* When the commands stop, CAN2 stops and disables the wheels, although     *)
(* every call cancels the group of the call before.                         *)
StaleStops == <>[](command.power = "stale") => <>[](wheel = "off")
=============================================================================
