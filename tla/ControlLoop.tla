----------------------------- MODULE ControlLoop -----------------------------
(***************************************************************************)
(* How old may a command be?  Each task of CPU0 notes the time when it is   *)
(* started, reads what other tasks have published, judges by the timestamps *)
(* whether it is fresh, and publishes its own result stamped with the time  *)
(* it noted.  Tasks may be preempted in the middle or stall for long:       *)
(*     safety 31 > CAN2 30 > remote 28 > vehicle 27 > CAN3 24.              *)
(* CAN2 may meet the vehicle task in the middle of its copy, and then does  *)
(* nothing at all; CAN3 may be overtaken by a copy, and then stops.         *)
(*                                                                         *)
(* Timestamps are uint32_t and are only ever subtracted from each other, so *)
(* a timestamp is kept as its age, and the difference of two of them is the *)
(* difference of their ages modulo Wrap.  Of the data only one thing is     *)
(* kept: does it demand motion?                                            *)
(* X_Bug before X is X with a plausible mistake, used by nothing.           *)
(***************************************************************************)
EXTENDS Integers

CONSTANTS
    Wrap,           \* 2^32
    RequestStale,   \* ECU_REMOTE_REQUEST_STALE_TIMEOUT_MS
    SafetyStale,    \* ECU_SAFETY_SNAPSHOT_STALE_TIMEOUT_MS
    CommandStale,   \* ECU_CAN2_/ECU_CAN3_COMMAND_STALE_TIMEOUT_MS
    FutureSkew,     \* ECU_CONTROL_SNAPSHOT_MAX_FUTURE_SKEW_MS
    BusLag,         \* how long a step of a bus task may be preempted
    MaxStall        \* the longest stall of the other tasks that is modelled

ASSUME DurationsAssumption ==
    {Wrap, RequestStale, SafetyStale, CommandStale, FutureSkew, BusLag, MaxStall}
        \subseteq Nat
ASSUME StallAssumption ==
    /\ 2 * MaxStall < Wrap
    /\ MaxStall > RequestStale + CommandStale + BusLag
(* A step of a bus task is not held up for longer than a timestamp may seem *)
(* to lie in the future.                                                    *)
ASSUME SkewAssumption == BusLag <= FutureSkew

Lanes == {"can2", "can3"}

VARIABLES
    demand,     \* the operator, as the receiver shows him, demands motion
    quiet,      \* ms since he last did
    request,    \* the mailboxes: published, the age of the timestamp, live
    safety,
    command,    \* one for both lanes: CAN3 sees them only when both are written
    remote,     \* the tasks: step, the age of the time noted, result so far
    vehicle,
    bus,        \* by lane: running, the age of the time noted, overtaken
    applied,    \* by lane: what the drives have is a live command
    unjudged    \* ms since CAN2 last judged the one that its drives have

vars == <<demand, quiet, request, safety, command, remote, vehicle, bus, applied,
          unjudged>>

Unpublished == [published |-> FALSE, age |-> 0, live |-> FALSE]
Waiting == [step |-> "idle", lag |-> 0, live |-> FALSE]
Resting == [running |-> FALSE, lag |-> 0, crossed |-> FALSE]

Init ==
    /\ demand = FALSE /\ quiet = MaxStall
    /\ request = Unpublished /\ safety = Unpublished /\ command = Unpublished
    /\ remote = Waiting /\ vehicle = Waiting
    /\ bus = [l \in Lanes |-> Resting]
    /\ applied = [l \in Lanes |-> FALSE] /\ unjudged = 0

(* control_snapshot_timestamp_is_fresh and its twin in the executor: the    *)
(* reader noted its time lag ms ago, box was stamped box.age ms ago.        *)
Fresh_Bug(box, lag, stale) == (box.age - lag) % Wrap <= stale
Fresh(box, lag, stale) ==
    LET age == (box.age - lag) % Wrap
    IN IF 2 * age < Wrap THEN age <= stale
       ELSE (lag - box.age) % Wrap <= FutureSkew

Accepts(box, lag, stale) == box.published /\ Fresh(box, lag, stale)

Stamped_Bug(task) == [published |-> TRUE, age |-> 0, live |-> task.live]
Stamped(task) == [published |-> TRUE, age |-> task.lag, live |-> task.live]

(* A task runs when no task of a higher priority is in its step.            *)
RemoteRuns == ~bus["can2"].running
VehicleRuns == RemoteRuns /\ remote.step = "idle"
Can3Runs == VehicleRuns /\ vehicle.step = "idle"
BusRuns(l) == l = "can3" => Can3Runs

-----------------------------------------------------------------------------
Operator ==
    /\ demand' = ~demand
    /\ quiet' = 0
    /\ UNCHANGED <<request, safety, command, remote, vehicle, bus,
                   applied, unjudged>>

(* The safety task is never preempted.  Without a fresh request it latches. *)
SafetyStep ==
    /\ safety' = [published |-> TRUE, age |-> 0,
                  live |-> Accepts(request, 0, RequestStale)]
    /\ UNCHANGED <<demand, quiet, request, command, remote, vehicle, bus,
                   applied, unjudged>>

RemoteStart ==
    /\ RemoteRuns /\ remote.step = "idle"
    /\ remote' = [step |-> "read", lag |-> 0, live |-> FALSE]
    /\ UNCHANGED <<demand, quiet, request, safety, command, vehicle, bus,
                   applied, unjudged>>

(* Without a fresh safety snapshot the manager sees a fault and disarms.    *)
RemoteRead ==
    /\ RemoteRuns /\ remote.step = "read"
    /\ remote' = [remote EXCEPT !.step = "publish",
                    !.live = demand /\ Accepts(safety, remote.lag, SafetyStale)]
    /\ UNCHANGED <<demand, quiet, request, safety, command, vehicle, bus,
                   applied, unjudged>>

RemotePublish ==
    /\ RemoteRuns /\ remote.step = "publish"
    /\ request' = Stamped(remote)
    /\ remote' = Waiting
    /\ UNCHANGED <<demand, quiet, safety, command, vehicle, bus, applied, unjudged>>

VehicleStart ==
    /\ VehicleRuns /\ vehicle.step = "idle"
    /\ vehicle' = [step |-> "read", lag |-> 0, live |-> FALSE]
    /\ UNCHANGED <<demand, quiet, request, safety, command, remote, bus,
                   applied, unjudged>>

CommandLive_Bug ==
    /\ Accepts(request, vehicle.lag, RequestStale) /\ request.live
    /\ safety.published /\ safety.live
CommandLive ==
    /\ Accepts(request, vehicle.lag, RequestStale) /\ request.live
    /\ Accepts(safety, vehicle.lag, SafetyStale) /\ safety.live

VehicleRead ==
    /\ VehicleRuns /\ vehicle.step = "read"
    /\ vehicle' = [vehicle EXCEPT !.step = "publish", !.live = CommandLive]
    /\ UNCHANGED <<demand, quiet, request, safety, command, remote, bus,
                   applied, unjudged>>

(* publish_motion_command_snapshot: the sequence number of CAN2's mailbox is *)
(* odd from here on, and even again when both mailboxes are written.        *)
VehicleOpen ==
    /\ VehicleRuns /\ vehicle.step = "publish"
    /\ vehicle' = [vehicle EXCEPT !.step = "copy"]
    /\ UNCHANGED <<demand, quiet, request, safety, command, remote, bus,
                   applied, unjudged>>

VehiclePublish ==
    /\ VehicleRuns /\ vehicle.step = "copy"
    /\ command' = Stamped(vehicle)
    /\ vehicle' = Waiting
    /\ bus' = [bus EXCEPT !["can3"].crossed = bus["can3"].running]
    /\ UNCHANGED <<demand, quiet, request, safety, remote, applied, unjudged>>

BusStart(l) ==
    /\ BusRuns(l) /\ ~bus[l].running
    /\ bus' = [bus EXCEPT ![l] = [Resting EXCEPT !.running = TRUE]]
    /\ UNCHANGED <<demand, quiet, request, safety, command, remote, vehicle,
                   applied, unjudged>>

(* CAN2 finds an odd sequence number and returns: the drives keep what they *)
(* have, and nobody looks at its age.  CAN3 may find that the number has    *)
(* changed when the vehicle task published since it started.                *)
Held(l) == l = "can2" /\ vehicle.step = "copy"

(* Without a fresh command, or one read whole, the safe default is applied. *)
BusApply(l, missed) ==
    /\ BusRuns(l) /\ bus[l].running /\ (missed => bus[l].crossed)
    /\ applied' = [applied EXCEPT ![l] =
                     IF Held(l) THEN @
                     ELSE /\ ~missed
                          /\ Accepts(command, bus[l].lag, CommandStale)
                          /\ command.live]
    /\ unjudged' = IF l = "can2" /\ ~Held(l) THEN 0 ELSE unjudged
    /\ bus' = [bus EXCEPT ![l] = Resting]
    /\ UNCHANGED <<demand, quiet, request, safety, command, remote, vehicle>>

Applies(l) == \E missed \in BOOLEAN : BusApply(l, missed)

Older(age) == IF age < MaxStall THEN age + 1 ELSE age

Aged(box) == IF box.published THEN [box EXCEPT !.age = Older(@)] ELSE box
Delayed(task) == IF task.step = "idle" THEN task ELSE [task EXCEPT !.lag = Older(@)]

Tick ==
    /\ \A l \in Lanes : bus[l].lag < BusLag \/ ~bus[l].running
    /\ quiet' = IF demand THEN 0 ELSE Older(quiet)
    /\ request' = Aged(request) /\ safety' = Aged(safety) /\ command' = Aged(command)
    /\ remote' = Delayed(remote) /\ vehicle' = Delayed(vehicle)
    /\ bus' = [l \in Lanes |->
                 IF bus[l].running THEN [bus[l] EXCEPT !.lag = @ + 1] ELSE bus[l]]
    /\ unjudged' = IF applied["can2"] THEN Older(unjudged) ELSE 0
    /\ UNCHANGED <<demand, applied>>

Next ==
    \/ Operator \/ Tick \/ SafetyStep
    \/ RemoteStart \/ RemoteRead \/ RemotePublish
    \/ VehicleStart \/ VehicleRead \/ VehicleOpen \/ VehiclePublish
    \/ \E l \in Lanes : BusStart(l) \/ Applies(l)

Spec == Init /\ [][Next]_vars

-----------------------------------------------------------------------------
Mailbox == [published : BOOLEAN, age : 0..MaxStall, live : BOOLEAN]
Task == [step : {"idle", "read", "publish", "copy"}, lag : 0..MaxStall, live : BOOLEAN]

TypeOK ==
    /\ demand \in BOOLEAN /\ quiet \in 0..MaxStall
    /\ request \in Mailbox /\ safety \in Mailbox /\ command \in Mailbox
    /\ remote \in Task /\ vehicle \in Task
    /\ bus \in [Lanes -> [running : BOOLEAN, lag : 0..BusLag, crossed : BOOLEAN]]
    /\ applied \in [Lanes -> BOOLEAN] /\ unjudged \in 0..MaxStall

(* What a bus task leaves at the drives is the command of an operator who   *)
(* let go two stale times and a delay of the task ago at most, whichever    *)
(* task stalls and wherever in its step it does.  Only when CAN2 meets the  *)
(* vehicle task in its copy (vehicle_command_executor.c:69) does the time   *)
(* count on from when CAN2 last judged: it has no bound of its own.         *)
Unjudged(l) == IF Held(l) THEN unjudged ELSE 0
BoundedAuthority ==
    [][\A l \in Lanes : Applies(l) /\ applied'[l] =>
          quiet <= RequestStale + CommandStale + BusLag + Unjudged(l)]_vars

(* Nor, with the same exception, is it a command that was made while the    *)
(* safety task had been silent for longer than that.                        *)
NoDriveWithoutSafety ==
    [][\A l \in Lanes : Applies(l) /\ applied'[l] =>
          safety.age <= SafetyStale + CommandStale + BusLag + Unjudged(l)]_vars

(* A bus task that has read the mailbox whole does not stop what is fresh:  *)
(* only a command really older than the stale time is given up, even if it  *)
(* was stamped after the time the bus task noted for itself.                *)
FreshIsKept ==
    [][\A l \in Lanes :
          /\ BusApply(l, FALSE) /\ ~Held(l)
          /\ command.published /\ command.age <= CommandStale
          => applied'[l] = command.live]_vars
=============================================================================
