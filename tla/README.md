# TLA+ verification of the agri 4WIS chassis controller (ECU CPU0)

The firmware under `src/ecu` drives a four-wheel independent-steering
agricultural chassis. CPU0 of an HPM6750 runs FreeRTOS (1 ms tick, one core,
fixed priorities): a radio remote comes in over SBUS, finite-state machines
decide what the operator may do, an arbiter turns that into one actuator
command, and bus tasks apply it to CAN2 (steering and drive), CAN3 (lift,
hydraulics) and CAN1 (BMS, DCDC).

This directory holds TLA+ modules of that control path down to the frames of the
CANopen master, TLC runs that check them on small instances, and TLAPS proofs for
all values of the constants. `PROJECT.json` lists components, runs, mutants, the
source lines of every definition, findings, hazards and theorems.

## Inventory

Tasks (`os/src/ecu_tasks_cpu0.c`, priority/period): safety 31 / 1 ms, can2_motion
30 / 2 ms, remote 28 / 5 ms, vehicle 27 / 5 ms, can3_lift 24 / 10 ms, can1_power
22 / 10 ms, io 16 / 10 ms, diag 8 / 100 ms. Each wrapper (`main_cpu0.c`,
`run_periodic_task`) notes the time at entry and hands it to the step.

| Component | State | Operations | Talks to | Hard part | What makes it correct |
|---|---|---|---|---|---|
| SBUS receiver (`drivers/sbus`, `protocol/sbus`) | frame buffer, snapshot, counters | byte and idle interrupt, poll, get_snapshot | remote task, by shared memory | lost bytes, interrupt against poll, clock wrap | silence is noticed; a sample is one frame; a loss costs one frame |
| Remote FSMs (`remote`) | link, E-stop, arm, gear, adjust, mode, power, authority, B1 | `remote_manager_update`, 5 ms | reads sample and preconditions, gives a request | timers of nine machines in one call, late calls, sequences | authority, gears, modes, power only after their times and at a standstill |
| Snapshot mailboxes (`os`, `vehicle/..executor.c`) | double buffers, two sequence locks | publish, read | all tasks | preemption between two words | whole values only; never older than before |
| Staleness (`os`, executor) | timestamps | freshness checks | all tasks | stalls, preemption, wrap, future stamps | a dead or silent writer is noticed in bounded time |
| Arbiter, safety manager (`vehicle`) | command, last snapshots | `command_arbiter_update`, `safety_manager_apply` | mailboxes | one round of lag between the safety task and the command | a stop clears the command; drive velocity and valves exclude each other, track-assist current and the open valve agree |
| CANopen master (`drivers/canopen`) | PDO queue and active group, SDO queue, transport health | process_realtime_pdo, process_background, queue, cancel, recover | CAN controller and its interrupt, both devices | one transmit buffer, lost and stale events, bus-off, cancellation half way | groups leave in order, "complete" is true, every group is decided |
| Motion device, CAN2 (`devices/motion_device.c`) | latest command, groups in flight, node recovery, set-up | apply, flush | CANopen master, drives | groups that reach some axes only, restarted nodes, a stop that cancels itself | no traction over split steering; traction comes back; wheels stop |
| Steering zero calibration (same file) | phase, measured stops, which axes are written | one step per call, HOME, gesture | SDO and velocity groups | lost answers, abort half way | an accepted zero is the centre; an abort restores; it ends |
| Lift device, CAN3 (`lift_hydraulic_device.c`) | stream of points, group in flight, pump and valves | apply | CANopen master, drives | one lane for legs and pump, start edge, dry buffers, commands that change any time | coherent points; a stop disables; the legs arrive; valves open |
| Track-assist interlock (executor 346-407) | gate session, presteer stamp | the two gates | CAN2 and CAN3 | stamps of different tasks, a command CAN2 has and CAN3 has not | the wheels push the way the open valve moves |
| Power device, CAN1 (`power_device.c`) | snapshots, periods | send/receive frames | BMS, DCDC | silent BMS | contactor request and report only |
| Local I/O (`local_io_device.c`) | relay latch, lamps | apply | MOS6 battery key | a request of one cycle | the relay opens at rest only |
| Modbus master, analog inputs | request in flight | poll | UART ISR | answer after timeout | not modelled |
| Kinematics, shaper, planner (`control`) | angles, ramps | pure functions | motion device | floating point | not modelled |
| IPC, CPU1, diagnostics, board, object dictionary, tools | | | | | not modelled: idle core, reports, registers, generated tables |

Interaction: SBUS ISR → snapshot → **remote** → request mailbox → **vehicle**
(arbiter, safety manager) → two command mailboxes → **CAN2** (motion device,
CANopen master of CAN2), **CAN3** (lift device, CANopen master of CAN3);
**safety** reads the request and publishes a safety snapshot to remote and
vehicle. Feedback (wheel speeds, contactors, last command) returns to the
remote task's preconditions through `hardware_feedback`.

## Modules

| Module | Models |
|---|---|
| `RemoteFsms` | every `*_fsm_update` of `remote/src` that grants or withdraws something as an operator on a record, `remote_manager_update` as `ManagerUpdate`, which calls them in the order of the code |
| `RemoteManager` | the remote task around it; `seen` is an observer of the samples, not firmware state |
| `VehicleCommand` | arbiter, safety manager, relay latch, safety snapshot: operators |
| `VehicleLoop` | the tasks in priority order inside one 5 ms round, and a vehicle that obeys the bus; composes the two above |
| `ControlHandoff` | the mailboxes word by word, with preemption by priority |
| `ControlPipeline` | the abstract specification of the hand-off: what a lane applies is one whole offered command, or a safe stop |
| `ControlLoop` | timestamps and stale times along remote → safety → vehicle → bus |
| `SbusService` | bytes, FIFO, interrupt, frame assembly, poll and snapshot |
| `CanopenMaster` | `canopen_master_service.c`: PDO groups frame by frame, the SDO write queue, NMT, the recovery of the transport; the controller and its interrupt between any two steps |
| `PdoTransfer` | the abstract specification of a group: its frames leave in order, one at a time, and "complete" is said of a group that has left |
| `MotionDevice` | `motion_device_apply` and `_flush_realtime`: steering and velocity groups, their loss and repair, node recovery, set-up |
| `SteerZeroCalibration` | `steer_zero_calibration_step`, one action for each phase |
| `LiftDevice` | `lift_hydraulic_device_apply`: pump and valves, then one action for each state of `process_lift_interpolation` |
| `MC…` | values of the constants for TLC |
| `…_proofs` | theorems and proofs |

How state and actions correspond to the code:

* A timestamp `x_since_ms` is an *age* that stops growing at the longest
  duration it is compared with; `Never` is a cleared timer. Ticks stand for
  calls of the remote task. The wrap of the 32-bit clock therefore is only
  modelled where a module says so: `ControlLoop` (differences modulo `Wrap`)
  and `SbusService` (times modulo `Wrap`). In the device modules a call says
  itself whether a deadline or a back-off is over.
* Sticks and switches are positions (LOW, CENTER, HIGH, INVALID); the track
  wheel is a level −2..2 around its engage and release thresholds; the vehicle's
  speed is its sign; valves are their numbers.
* `ManagerUpdate` is one call: all machines, in order, each seeing what the
  earlier ones left, as in `remote_manager.c`.
* `VehicleLoop!VehicleStep` is the whole `ecu_task_vehicle_control_step`:
  request and snapshot, arbiter, safety manager, publication, local I/O latch.
  `SlowStep` joins the 10 ms tasks, due every second round (`late`).
  Track assistance is a wheel current beside the velocity: the command asks for
  it together with a track valve, CAN2 lets it through while *any* track valve
  is open, and whether its other conditions (presteer, feedback limits) hold is a
  choice of the step (`AssistCurrents`).
  What lies outside the firmware (drives, brakes, contactors) is external:
  powered drives run at the velocity they last received; without power a drive
  forgets it and its holding brake stops the vehicle; the BMS obeys in the same
  or the next round and needs the battery key to connect.
* In `ControlHandoff` a value is a function on `Words`; each word carries the
  number of the request or command it came from, so that a torn copy shows.
  A task steps only while no task of a higher priority is in the middle of its
  own step; the sequence numbers, `publish_sequence`, are unbounded naturals.
* In `ControlLoop` the only datum is whether a result demands motion (`live`).
  The vehicle task publishes in two steps, because CAN2 may meet it between them:
  the sequence number is odd, and `can2_motion` returns without looking at the age
  of anything (`Held`). CAN3 that is overtaken falls back to the safe default.
* In `CanopenMaster` a frame is its group and its place in the group's plan.
  `process_realtime_pdo` is cut where the code reads the controller or waits for
  it: `PollHealth`, `ProcessQueue`, and for every frame of a burst `SendFrame` and
  `AfterFrame`. `TxDone(counted)` is the interrupt: the SDK's handler may clear
  the flag of an event before the service's own code has looked (`FALSE`). What a
  submission returns (`ok`, `busy`, `error`, or `late`: the buffer empties
  between two reads) is an input of the step.
* The devices see the CANopen master as one lane: a group is pending, and then
  complete, failed or cancelled. `GroupsDecided` and `TransferSpec` of
  `CanopenMaster` justify that view. In `MotionDevice` the trigger frames of a
  steering group leave one by one, because a group that failed half way is what
  the device has to repair.
* `MotionDevice!Cycle` and `LiftDevice!Cycle` are one call of the task's step,
  whole; a pose, a velocity or a height is a small value, the steps of a ramp are
  values of their own.
* `MotionDevice!cut` is history, not firmware state: the brake cut a steering
  group off between two triggers and left the axes apart. The device does not note
  it.
* `SteerZeroCalibration!misled` is history as well: the axes that the code took
  for stopped, or for back in the middle, and that were not.
* `SteerZeroCalibration` has the position of every axis and the offset from which
  the drive counts, so that "the same coordinates" can be said.

Every mapped definition of which a plausible bug was tried has a twin
`X_Bug` before it: the same operator with a dropped guard, a missing reset, an
off-by-one or a swapped order. Nothing uses the twins. A mutant replaces `X` by
`X_Bug` and must break the property named beside it, which shows that the
property depends on that code.

## Runs

All bounds are constants in the `.cfg` files.

| Run | States | Question, and what the run shows |
|---|---|---|
| `remote` | 107 524 | An operator who drives (link loss, E-stop, gear and mode changes, late calls) and one who adjusts (track wheel, B1, power switch): authority, gears, modes, valves and power only come after their times and at rest |
| `vehicle_loop` | 338 319 | The tasks around one vehicle, feedback and high voltage coming and going: a stop reaches both buses' command in its round, no drive velocity against a rolling vehicle, valves exclude drive velocity while high voltage is asked for, the track-assist current pushes the way the open track valve moves, the relay opens at rest, the interlocks do not deadlock |
| `control_handoff` | 535 326 | Word-by-word hand-off: no torn value is used, CAN3 misses only for a newer command, and the whole implements `ControlPipeline` |
| `sbus_service` | 4 894 288 | Lost bytes, marker-like payloads, interrupt between any two steps of the poll, wrapping clock |
| `control_loop` | 7 794 240 | Any stall and preemption, in the middle of a publication too: how old an obeyed demand can be, up to the time CAN2 could not judge, and that nothing fresh that was read whole is dropped |
| `canopen_master` | 174 528 | Two groups, foreign frames and SDO writes on one buffer with bus-off, stuck frames, lost and stale events, cancellations: the groups implement `PdoTransfer`, every group is decided, the transport comes back |
| `steer_zero_calibration` | 202 090 | Two axes, refused, lost and late groups and writes, faults latched anywhere, an overshot middle, HOME at any moment: a zero is the centre of every axis that was not misled, an abort restores, the calibration ends, a failed one stops the axes |
| `motion_device` | 257 554 | Two steering axes and the wheels with one lost group, failing node, lost request or withdrawn permission (the brake) at any moment, between two triggers too: no traction over steering that a fault split, and what the brake cut off, the stated exception, is made whole; traction comes back, stale commands stop the wheels |
| `lift_device` | 640 320 | Two legs and the pump with one fault at any moment, legs below, within and past the safe range: coherent points, a stop disables, the legs arrive unless one is past the end again and again, valves open |
| `sbus_false_timeout` | violation | finding 1 |
| `steer_zero_mixed` | violation | finding 2 |
| `lift_reversal` | violation | finding 3 |

Why the bounds are enough:

* *Durations* of the code (1000, 300, 350, 5000 ms, …) are 1 to 3 ticks. What
  matters is whether an age has reached its limit and which of two limits comes
  first; `remote` has two ticks and gaps of one and two so that timers can
  be half-way and calls late. The theorems hold for all durations and gaps.
  For `TrackReversalPause` gaps of one and two ticks are thin: there it is the
  theorem that carries the property.
* *Inputs* of `remote`: the driving operator changes one thing at a time beside
  the sticks, so that every switch still meets every state of the machines; the
  adjusting one holds the sticks and moves the track wheel, the power switch and
  B1.
* `control_handoff`: two words give every kind of torn copy; three requests and
  three commands let both slots be reused and CAN3 be overtaken twice.
* `sbus_service`: frames of three bytes whose middle byte is both payload and
  flag byte; payload 0 looks like an end marker, 15 like a header and carries
  the failsafe bit. `Wrap` = 7 lets the clock wrap within a silence.
* `control_loop`: every stale time, the tolerated skew and a preemption of a bus
  task last one ms; `MaxStall` = 4 exceeds every sum of them, so that an age at the
  cap is older than anything that may be accepted. The theorems hold for all
  durations. `MaxStall` below half of `Wrap` is the limit of
  signed differences: 24 days.
* `canopen_master`: a steering group with arm, SYNC, trigger, SYNC and a drive
  group of one frame and SYNC are the two shapes the devices use; a history of one
  result, a burst of two and two retries make every one of these limits bite. Two
  requests in all (groups and writes) let a second group meet the remains of the
  first and a write the one before; a third adds no pair.
* `steer_zero_calibration`: two axes can differ; stops one cell from the middle and
  an old offset of one cell tell old from new coordinates. One gesture; the
  violation has two, because a restart forgets. `MaxTrouble` = 1: one axis misled,
  or any number of things gone unseen (a group lost, a write carried out and not
  known of), but not both; the theorems have no such bound.
* `motion_device`, `lift_device`: two axes can be split, and one fault may come in
  any state of every sequence. `motion_device` counts a withdrawn permission to
  move, which is the brake, as a fault; so a group is split either by a fault or by
  the brake. See "Limits" for what two faults do.
* `lift_device` has the heights 0 to 3 with a safe range of 1 to 2, so a leg may be
  one step past either end: there it is within the 3 mm of the target that the code
  calls arrived, and outside the range it moves in. It
  chooses one of four scenarios at the start: raising with every kind of fault, also
  with legs past the end, from end to end without faults and with legs that creep
  past their end while they are held there, hydraulics with every kind of fault,
  and both on one lane; their state spaces add up instead of multiplying.
* Deadlock is checked in every run.

`VehicleLoop` does not let tasks be late: that is the subject of `ControlLoop`
and `ControlHandoff`. All periods except "every second round" are equal in it;
the safety task may run again between the remote and the vehicle task.

### Fairness

Every module with liveness states the fairness of its own tasks; nothing is
assumed of the operator beyond a property's premise.

* `VehicleLoop`: `WF_vars(Next)`. FreeRTOS starts every task in every period and
  no step blocks, so a round is always finished. Wheel feedback may stay
  missing for ever, and the drive remote still becomes ready: that is the purpose
  of the pre-HV window of `build_remote_preconditions`.
* `CanopenMaster`: the task of the bus runs its call for ever (`step` is idle and
  in the queue again and again), the clock goes on between calls, and a
  controller that is initialised again and again starts at last. Nothing is
  assumed of the interrupt or of the wire: events and frames may be lost for ever.
* `SteerZeroCalibration`: the call is made for ever, time passes, every group
  and download of the CANopen master ends (`GroupsDecided`), and of the groups
  that are sent again and again one arrives. Groups may be refused and answers
  lost on the way.
* `MotionDevice`: the call is made for ever, frames leave, a node that is asked to
  start answers at last, late feedback returns. The velocity groups have a shorter
  period (20 ms) than the steering groups (50 ms), hence the second, strong
  condition: now and then only theirs is over.
* `LiftDevice`: the call is made for ever, and a wait that is over is seen by a
  call (strong, since the call that meets its moment may be interrupted by another
  state); a deadline that a latched fault keeps open passes; groups and writes are
  carried out, started legs and the pump turn, feedback and the bus return.

### Findings

1. `NoFalseTimeout` — `sbus_service.c:84`. A frame that completes after the
   remote task has noted its time makes the unsigned age nearly 2^32; the link is
   dropped and an E-stop latched. The mailboxes guard against the same skew
   (`ecu_tasks_cpu0.c:73`).
2. `NoMixedCoordinates` — `motion_device.c:2967`. The set of axes whose zero was
   written is reset by a restart, and does not learn of a write whose answer was
   lost. HOME then aborts without restoring, and steering resumes with axes in two
   coordinate systems, which `motion_device.c:2864` rules out.
3. `CoherentStream` — `lift_hydraulic_device.c:2381`. When the stick goes to the
   other side while a group is under way, the branch for a changed command notes
   the new direction and returns because the group is pending; at the next call
   nothing has changed any more and the stream goes on from its old origin with
   the other sign. `lift_hydraulic_device.c:2089` says that the group is cancelled
   and the brakes applied, `:2309` that this branch handles it. `lift_device` checks
   the same property with `Flips = FALSE`, a stick that reverses only between groups.

## Proofs

`tlapm` proves every theorem below from the named assumptions on the constants,
with no unproved leaf (about 9,600 obligations).

| Module | Theorems | From |
|---|---|---|
| `RemoteFsms_proofs` | lemmas only: every machine and the manager keep their types | `DurationsAssumption` (naturals; at least two B1 presses) |
| `RemoteManager_proofs` | `TypeCorrect`, `Invariance`, and `RearmDelay`, `AdjustExcludesDrive`, `CalibrationNeedsGesture`, `EstopClearsSafely`, `NoReversalWhileMoving`, `ArmsOnlyInPark`, `ModeChangesParked`, `PowerOnAfterQuiet`, `TrackReversalPause` | the same, `InputsAssumption`, `ConditionsAssumption`, `GapsAssumption` (positive gaps) |
| `VehicleLoop_proofs` | `Invariance`, `StopClearsCommand`, `NoReversalTorque`, `HydraulicsExcludeDrive`, `AssistFollowsValve`, `RelayReleasedAtRest` | `DurationsAssumption`, `HoldAssumption` (the sticks are held for at least one tick), `ProfileAssumption`, `ImageAssumption` (only the whole vehicle drives), `InputsAssumption` |
| `ControlHandoff_proofs` | `TypeCorrect`, `Invariance`, `Coherence`, `Can3MissesOnlyForNewer`, and `ImplementsPipeline`: `Spec => PipelineSpec` | `WordsAssumption` (at least one word), `BoundsAssumption` |
| `ControlLoop_proofs` | `TypeCorrect`, `Invariance`, `BoundedAuthority`, `NoDriveWithoutSafety`, `FreshIsKept` | `DurationsAssumption`, `StallAssumption` (stalls below half the clock's range and longer than the stale times), `SkewAssumption` (a bus step is not held up for longer than the tolerated skew) |
| `SbusService_proofs` | `Invariance`, `SilenceDetected`, `SampleIsOneFrame`, `LossConfined` | `LengthAssumption` (a header, an end and at least one byte between), `TimeAssumption`, `ErrorAssumption` |
| `CanopenMaster_proofs` | `Invariance`, `LaneConsistent`, `WritesKept`, and `TransferHolds`: `Spec => TransferSpec` | `GroupAssumption` (groups are numbered, have an arm frame, and a SYNC after the trigger only with a trigger), `LimitAssumption` (positive capacities and limits) |
| `SteerZeroCalibration_proofs` | `Invariance`, `ZeroIsCentre`, `AbortRestores` | `CalibrationAssumption` |

`TypeCorrect` states the type invariant `TypeOK` of its module; `XHolds` is the
theorem of property `X`.

**Remote manager.** None of the properties is inductive: they compare what the
machines grant with what the samples showed, and the machines only remember
timers. `IInv` ties each timer to the observer: the link's age is no more than
the quiet time (`LinkSettled`), so is the centre hold of the E-stop
(`HoldIsQuiet`) and the progress of its reset counts standstill samples
(`ResetProgress`); an arming timer implies link or hold plus its own age, but for
one gap (`ArmHolds`); an active drive gear is the one in which motion was seen
(`MovingGear`); HOME's guard age is the observer's (`HomeAgrees`); the press
count never exceeds the edges seen (`GestureCounted`). The gap in `RearmDelay` is
real: the neutral timer is set at the last call that refuses authority, so the
time to the next call counts.

**Vehicle loop.** A stop travels through the round, and the invariant says how
far it has come. The way back to authority has steps (`RankOf`): each takes a call
of the remote task, so that after one round the request to the BMS is gone and
after two the contactors are open (`Quench`), and drives without power have
forgotten their velocity (`Rest`). `SafetyFresh` and `CommandMatches` say how old
the snapshot and the command are that each task reads, `Reconnect` and
`Unreported` cover contactors that open and close faster than their report,
`ValvesParked` and `KeyRelease` the round in which valves open or the key is
released. With this a vehicle in gear stands or rolls its own way
(`RollsForward`), which is what `NoReversalTorque` needs. For the track-assist current `ValvesFollow`
says that no track valve is open against the command: the debounce of the adjust FSM
closes the track for long enough between two directions that CAN3 has run.

**Hand-off.** A torn copy is possible in each mailbox; that it is never *used*
needs the whole protocol: the slot readers use is complete and belongs to the
newest request (`SlotsInv`), a sequence number is odd exactly while the vehicle
task copies into that lane (`LockInv`), words already copied belong to the
command at work and all others to older ones (`BoxInv`), and while the number
stands still CAN3's partial copy equals the mailbox (`CopyInv`). The refinement
maps a lane's offer to the last completely published command.

**Staleness.** The chain invariant follows a demand from hop to hop: a live
request is at most as fresh as the operator's last demand, a live command at most
one stale time older than that, and so on. What a bus task applies is bounded at
the moment it judges; where CAN2 does not judge, the invariant keeps the bound of
its last judgement and adds the time since (`unjudged`). `FreshIsAge` reduces the modular
comparison of the code to a comparison of ages, which needs stalls below half of
`Wrap`.

**SBUS.** `LineInv` says whose bytes are where: those in the FIFO belong to the
frame on the line, the buffer is empty or the beginning of one frame, and a frame
that lost nothing is in buffer and FIFO as far as it was sent. `SilenceInv` bounds
the age of a connected link by what the modular difference of the two times can
show. `Drain` is a recursive function over the FIFO; what it keeps is proved by a
minimal counterexample (lemma `UpTo`, from the library's `WFMin`).

**CANopen master.** An idle lane is empty and an active one has the counts, the
state and the retries that its frames out imply; every group ever accepted is
queued, active or on record with its verdict (`Verdicts`), and the wire holds
the frames given, in the order of the plan (`Wire`). Each operation of the source
is shown to be one of a few effects on the lane: it goes on with its group, or the
group ends with a verdict and the next may start. The effects are composed along
the calls, and each step is then mapped to a step of `PdoTransfer` (a decision, a
frame that leaves, a frame given, a group accepted) or to a stutter. The SDO
writes need an invariant of their own (`SdoInv`): writes are numbered as they are
accepted, and of an unordered object at most one waits, so that coalescing puts the
newest number where no later write of its object stands.

**Calibration.** `IInv` says for every phase what the lane, the download and the
drives may still do. The centre: an axis that is "hit" presses against its stop
(`Lanes`), so that half of the two measurements is its old offset (`Measured`),
and a zero is written only where the axes rest in the middle, or after a lost
halt, which the next phase sees (`Zeroed`). All of this is said of the axes that
were not misled, and what holds of them holds of fewer (lemma `Fewer`); an axis is
only misled by a fault it latched away from its stop or by an overshot middle,
which is what `Search` and `ReturnMid` decide. The coordinates: as long as nothing
went unseen, the axes in `New` (those noted as written, corrected by an answer
not looked at yet) count from the new zero and all others from the old one, and
as soon as they differ every axis rests (`Known`). `New` is empty when the
calibration is idle.

The invariants `IInv` were checked by TLC on the instances of the runs before
they were proved.

Model-checked only: everything of `MotionDevice` and `LiftDevice`, and all
liveness (`RecoversWhenNeutral`, `GroupsDecided`, `TransportRecovers`,
`CalibrationEnds`, `FaultStops`, `RecoveryCompletes`, `StaleStops`,
`StopDisables`, `LiftArrives`, `ValvesServed`), which is out of the prover's
reach together with ENABLED.

## Limits

What the models show and no property forbids, because it is bounded, intended or
needs a decision of the designers:

* *Staleness.* CAN2 that finds the sequence number odd or changed returns and
  leaves the drives what they have (`vehicle_command_executor.c:510`, `:69`): a
  vehicle task stalled in the middle of its copy leaves the last command in force
  for as long, however silent the safety task is. `unjudged` counts that time and
  nothing in the firmware bounds it; CAN3 falls back to the safe default (`:572`).
* *Motion device.* A steering group that the brake cancels between two triggers
  counts as never sent (`motion_device.c:4328`), so traction may be handed over
  split steering until the next group has left: the exception `cut` of
  `NoTractionOverSplit`, which `RecoveryCompletes` says is closed again. With
  `MaxFaults = 2` TLC violates `NoTractionOverSplit`: a bus-off recovery wipes the
  evidence of triggers (`canopen_master_service.c:2813`) that a second fault needs.
  "The zero was sent" is believed of a velocity group that reached some wheels only
  (`:3530`, `:3379`). A velocity group that waits for the lane is handed over as it
  was computed, although the command is zero or the brake is on meanwhile (`:4150`),
  for one cycle. The end of a velocity group is one step of the model, as on a bus
  that drains a burst between two calls; a slower one, on which repeated resets
  restart the group at its first frame, is not seen. An E-stop withdraws high
  voltage in the command that carries the zero, so that CAN2 returns before it
  produces a group (`:5242`; the manual `遥控操作逻辑说明书.md:69` promises a zero
  speed); the drives lose their target with their power.
* *Lift device.* `StopDisables` asks for behaviours without faults: an axis that
  latches a fault while the device is STOPPED or enabling is not cleared; STOPPED
  after a recovery leaves drives enabled that were (`:2154`); a drive that
  restarts silently stays disabled while the others move; LEVELING does not look
  at missing feedback or latched faults; the fast path of a prepared start does
  not clear the drives' buffers. The set-up of the pump, once queued, is
  completed after the request has ended and enables it at zero speed; pressure is
  proved by calls, not by distinct samples; `prepared` and `ready` outlive a
  cycle of high voltage. The safe range has no margin: one count past 490 mm, the
  target itself, refuses every step up to all legs (`lift_hydraulic_device.c:329`,
  `:361`, `:1432`) before the window of 3 mm is looked at (`:1444`). Set-up,
  settling and disable then repeat while the stick is held, and a leg that lags
  behind never arrives: the exception of `LiftArrives`.
* *Vehicle.* `HydraulicsExcludeDrive` speaks of wheel *velocity* and is asked
  while high voltage is: in an orderly power-down CAN2 sends nothing any more, and a
  drive that was told to turn in the round before keeps that velocity until the
  contactor opens. So does a wheel current after a stop, whatever CAN3 does to the
  valves; `AssistFollowsValve` therefore speaks of rounds in which CAN2 sends. That a
  wheel turned sideways for track assistance does not move the vehicle is an
  assumption of `VehicleLoop`, and `NoReversalTorque` speaks of velocity.
  Every stop of the command layer clears high voltage (`command_arbiter.c:448-455`,
  `safety_manager.c:29`), so CAN1 asks the BMS to open the contactors while the
  vehicle still rolls. "Keep HV while moving" (`remote_power_fsm.c:59-63`) only
  holds of the remote's own latch and of the battery-key relay; no run speaks of it.
  With a vehicle that
  coasts without power `RelayReleasedAtRest` does not hold, and a stop is cleared
  while it rolls: a low throttle counts as standstill again after every E-stop
  (`ecu_tasks_cpu0.c:260`). CAN1 power-down is
  accepted while the pump runs out (`:363`, an echo of the command) and on contactor
  feedback without regard to the age of the BMS's report (`:350`).
* *Calibration.* A latched fault counts as the end stop once the axis drew the
  stall current, which it may have done at the start (`motion_device.c:2369-2385`,
  `:2451-2464`), and an axis that crossed the middle since the last call counts as
  back however far it went (`:2598-2617`): such an axis is `misled`, and its zero is
  not the centre. The model assumes that the stall current is drawn at a stop or at
  the start only, and that an axis in the middle cell stays there while a group is
  pending.
* *Remote.* A power switch held through a stop completes its long press
  afterwards (`remote_power_fsm.c:120`); decode errors are counted since the start,
  so that ten in any time make the link faulty (`remote_sbus_mapper.c:247`); a byte
  with a parity error is used (`sbus_uart_hw.c:51`) and SBUS has no checksum.
* The presteer gate uses time 0 as "no request" (executor 374), which is not
  modelled.

## Not modelled

* The automatic mode: `s_runtime.auto_request` has no writer in this commit, so
  the arbiter's automatic branch is unreachable; only the authority FSM is modelled.
* Lights, horn, lamps, diagnostic codes, steering angles and the numeric part of
  kinematics, ramps and shaping: data and floating point without control of its own.
* SDO uploads, the TPDO cache and the debug commands of the CANopen master; the
  feedback SYNC of the motion device; the presteer-ready gate and the limits of
  track assistance, whose verdicts are choices of `VehicleLoop`, and the current
  frames in `MotionDevice`; levelling without a direction, which nothing enters; the
  mechanical range of the legs and the condition on their spread.
* BMS and DCDC frames, the Modbus master and analog inputs: self-contained, and
  read by no modelled part beyond what is modelled of them.
* CPU1, diagnostics, board support, object dictionary, host tools.
* The whole-vehicle image is checked. The `safe` and `steer4_remote` images never
  confirm a standstill; a latched E-stop stays latched in them.
* The sequence number of a mailbox does not wrap in `ControlHandoff`.

## Plan

What is left, most important first:

1. Proofs of the step properties of `MotionDevice` and `LiftDevice`
   (`NoTractionOverSplit`, `CoherentStream`).
2. The presteer gate of track assistance with its stamps, and the current mode of
   `MotionDevice`, across the CAN2 and CAN3 tasks.
3. `PowerDevice` and the Modbus master: request, answer, timeout.
4. The discrete part of the transition planner and of the setpoint shaper as
   operators against a reference definition.
