---------------------------- MODULE CanopenMaster ----------------------------
(***************************************************************************)
(* The CANopen master of one bus (canopen_master_service.c): realtime PDO   *)
(* groups and background SDO writes share the one primary transmit buffer   *)
(* of the controller.  The task of the bus calls the service; the           *)
(* controller, its interrupt and the bus act between any two of its steps.  *)
(*                                                                         *)
(* A group is sent as arm frames, SYNC, trigger frames, SYNC.  A frame is   *)
(* named by its group and its place in the group's plan; every other frame  *)
(* (feedback SYNC, NMT, SDO) is Other.  Times are ages in ticks of the task *)
(* clock, which stands still during a call: the code passes one now_ms.     *)
(*                                                                         *)
(* X_Bug before X is X with a plausible mistake, used by nothing.           *)
(***************************************************************************)
EXTENDS Integers, Sequences, FiniteSets

CONSTANTS
    Groups,             \* the sequence numbers, 1..n, in the order of use
    Descriptor,         \* canopen_master_pdo_group_descriptor_t of each group
    QueueCapacity,      \* CANOPEN_MASTER_PDO_QUEUE_CAPACITY
    HistoryCapacity,    \* CANOPEN_MASTER_PDO_RESULT_HISTORY_CAPACITY
    BurstLimit,         \* CANOPEN_MASTER_PDO_TX_BURST_LIMIT
    MaxRetries,         \* CANOPEN_MASTER_PDO_TX_MAX_RETRIES
    TxTimeout,          \* CANOPEN_MASTER_PDO_TX_TIMEOUT_MS
    Backoff,            \* ECU_CANOPEN_TRANSPORT_RECOVERY_BACKOFF_MS
    Keys,               \* the objects of the drives that are written by SDO
    OrderedKeys,        \* those whose writes may not be coalesced
    CommandCapacity,    \* CANOPEN_MASTER_COMMAND_QUEUE_CAPACITY
    MaxRequests         \* bound: groups and SDO writes together

ASSUME GroupAssumption ==
    /\ IsFiniteSet(Groups) /\ Groups = 1..Cardinality(Groups)
    /\ Descriptor \in [Groups -> [arm : Nat \ {0}, trigger : Nat,
                                  syncAfterArm : BOOLEAN, syncAfterTrigger : BOOLEAN]]
    /\ \A g \in Groups : Descriptor[g].syncAfterTrigger => Descriptor[g].trigger # 0
ASSUME LimitAssumption ==
    /\ {QueueCapacity, HistoryCapacity, BurstLimit, MaxRetries, TxTimeout,
        Backoff, CommandCapacity} \subseteq Nat \ {0}
    /\ MaxRequests \in Nat /\ OrderedKeys \subseteq Keys

VARIABLES
    svc,        \* canopen_master_service_t, its PDO side and its transport
    bus,        \* the controller, and what it was given and what left it
    sdo,        \* its SDO side, and what was asked and sent
    step,       \* where a call of process_realtime_pdo is
    requests    \* the groups and SDO writes accepted so far

vars == <<svc, bus, sdo, step, requests>>

-----------------------------------------------------------------------------
(* Groups and frames.                                                      *)
NoFrame == [group |-> 0, at |-> 0]
Other == [group |-> 0, at |-> 1]

Repeat(x, n) == [i \in 1..n |-> x]
Plan ==
    [g \in Groups |->
        LET d == Descriptor[g]
        IN  Repeat("arm", d.arm) \o Repeat("sync", IF d.syncAfterArm THEN 1 ELSE 0)
            \o Repeat("trigger", d.trigger)
            \o Repeat("sync", IF d.syncAfterTrigger THEN 1 ELSE 0)]
Frame(g, i) == [group |-> g, at |-> i]
IsTrigger(f) == f.group # 0 /\ Plan[f.group][f.at] = "trigger"

(* The requests of a batch: the frames of the plan without its SYNCs.      *)
Batch ==
    [g \in Groups |->
        LET gap == IF Descriptor[g].syncAfterArm THEN 1 ELSE 0
            arm == Descriptor[g].arm
        IN  [i \in 1..(arm + Descriptor[g].trigger) |->
                Frame(g, IF i <= arm THEN i ELSE i + gap)]]

Init ==
    /\ svc = [queue |-> <<>>, retries |-> 0, tried |-> FALSE,
              inFlight |-> NoFrame, sync |-> FALSE, age |-> 0, seen |-> FALSE,
              group |-> 0, state |-> "idle", arms |-> 0, triggers |-> 0,
              armSync |-> FALSE, triggerSync |-> FALSE,
              cancel |-> FALSE, started |-> FALSE,
              history |-> Repeat([group |-> 0, result |-> "unknown"], HistoryCapacity),
              slot |-> 1, lastFailed |-> 0,
              normal |-> TRUE, busy |-> -1, wait |-> 0]
    /\ bus = [tx |-> NoFrame, off |-> FALSE, given |-> Repeat(<<>>, Cardinality(Groups)),
              out |-> Repeat(<<>>, Cardinality(Groups))]
    /\ sdo = [queue |-> <<>>, active |-> FALSE, accepted |-> <<>>, sent |-> <<>>]
    /\ step = [at |-> "idle", burst |-> 0]
    /\ requests = [groups |-> 0, writes |-> 0]

-----------------------------------------------------------------------------
(* The state of the active group.                                          *)
(* Nothing is awaited any more: no PDO and no SYNC (they exclude each other *)
(* and share age and seen, the count against the baseline).                 *)
Awaiting(s) == s.sync \/ s.inFlight # NoFrame
Landed(s) == [s EXCEPT !.inFlight = NoFrame, !.sync = FALSE, !.age = 0, !.seen = FALSE]

Active(s) == s.state \in {"queued", "arm", "trigger"}
RealtimeIdle(s) == s.queue = <<>> /\ s.inFlight = NoFrame /\ ~Active(s)

Record(s, g, v) ==
    LET known == {i \in DOMAIN s.history : s.history[i].group = g}
        at == IF known # {} THEN CHOOSE i \in known : TRUE ELSE s.slot
    IN  [s EXCEPT !.history[at] = [group |-> g, result |-> v],
                  !.slot = IF known # {} THEN @ ELSE 1 + (@ % HistoryCapacity)]

(* What was counted of a group is not looked at after its end.             *)
Ended(s) == [s EXCEPT !.arms = 0, !.triggers = 0, !.armSync = FALSE, !.triggerSync = FALSE,
                      !.cancel = FALSE, !.started = FALSE]
Conclude(s, v) == Record([Ended(s) EXCEPT !.state = v], s.group, v)

(* cancel_queued_pdo_group: of the group only the frame in flight stays.    *)
Filtered(q, stays) ==
    [n \in 1..Cardinality(stays) |->
        q[CHOOSE i \in stays : Cardinality({j \in stays : j <= i}) = n]]

DropGroup(s, g) ==
    LET stays == {i \in DOMAIN s.queue : \/ s.queue[i].group # g
                                         \/ i = 1 /\ s.queue[i] = s.inFlight}
        queue == Filtered(s.queue, stays)
        same == queue # <<>> /\ Head(queue) = Head(s.queue)
    IN  [s EXCEPT !.queue = queue,
                  !.retries = IF same THEN @ ELSE 0, !.tried = @ /\ same]

NoteFailure(s, g) == [s EXCEPT !.lastFailed = g]
FailGroup(s, g) ==
    Conclude([NoteFailure(DropGroup(Landed(s), g), g) EXCEPT !.group = g], "failed")

FailWithoutRequest(s) == FailGroup(s, s.group)

AllFramesDone(s) ==
    /\ s.arms + s.triggers = Descriptor[s.group].arm + Descriptor[s.group].trigger
    /\ s.inFlight = NoFrame
ArmSyncDue(s) ==
    /\ Active(s) /\ Descriptor[s.group].syncAfterArm /\ ~s.armSync
    /\ s.arms >= Descriptor[s.group].arm /\ s.inFlight = NoFrame /\ ~s.sync
TriggerSyncDue(s) ==
    /\ Active(s) /\ Descriptor[s.group].syncAfterTrigger /\ ~s.triggerSync
    /\ AllFramesDone(s) /\ ~s.sync
SyncsDone(s) ==
    /\ ~s.sync
    /\ IF Descriptor[s.group].syncAfterTrigger THEN s.triggerSync
       ELSE Descriptor[s.group].syncAfterArm => s.armSync

Finalize(s) ==
    IF Active(s) /\ AllFramesDone(s) /\ SyncsDone(s) THEN Conclude(s, "complete") ELSE s

(* drop_current_pdo_queue_item; the tries were those of the head.          *)
DropHead(s) == [s EXCEPT !.queue = Tail(@), !.retries = 0, !.tried = FALSE]

(* complete_in_flight_pdo: a cancelled group ends here, as failed when one  *)
(* of its triggers is out.                                                  *)
CompletePdo(s) ==
    LET trigger == IsTrigger(s.inFlight)
        d == [DropHead(Landed(s)) EXCEPT
                       !.arms = IF trigger THEN @ ELSE @ + 1,
                       !.triggers = IF trigger THEN @ + 1 ELSE @,
                       !.started = @ \/ trigger]
    IN  CASE ~d.cancel -> Finalize(d)
          [] d.cancel /\ d.started -> Conclude(NoteFailure(d, d.group), "failed")
          [] OTHER -> Conclude(d, "cancelled")

(* process_pdo_tx_complete_events: the buffer must be empty, whatever the   *)
(* count of the interrupt says.                                             *)
Reap_Bug(s, b) ==
    CASE s.seen /\ s.sync -> Landed(s)
      [] s.seen /\ ~s.sync /\ s.inFlight # NoFrame -> CompletePdo(s)
      [] OTHER -> s
Reap(s, b) ==
    CASE b.tx = NoFrame /\ s.seen /\ s.sync -> Landed(s)
      [] b.tx = NoFrame /\ s.seen /\ ~s.sync /\ s.inFlight # NoFrame -> CompletePdo(s)
      [] OTHER -> s

-----------------------------------------------------------------------------
(* The controller.                                                         *)
Leave(b) ==
    IF b.tx.group = 0 THEN [b EXCEPT !.tx = NoFrame]
    ELSE [b EXCEPT !.tx = NoFrame, !.out[b.tx.group] = Append(@, b.tx.at)]

(* hpm_can_send.  "late": the frame in the buffer leaves after the caller   *)
(* has read the event count and before it tests the buffer.                 *)
Results(b) == (IF b.off THEN {} ELSE IF b.tx = NoFrame THEN {"ok"} ELSE {"busy", "late"})
              \cup {"error"}
Sent(r) == r \in {"ok", "late"}
Give(b, f, r) ==
    LET c == IF r = "late" THEN Leave(b) ELSE b
    IN  IF f.group = 0 THEN [c EXCEPT !.tx = f]
        ELSE [c EXCEPT !.tx = f, !.given[f.group] = Append(@, f.at)]

(* The interrupt counts the event, unless the SDK's handler clears the flag *)
(* of an event that comes after note_canopen_tx_flags_from_isr has looked.  *)
TxDone(counted) ==
    /\ bus.tx # NoFrame /\ ~bus.off
    /\ bus' = Leave(bus)
    /\ svc' = [svc EXCEPT !.seen = @ \/ (counted /\ Awaiting(svc))]
    /\ UNCHANGED <<sdo, step, requests>>

BusOff == ~bus.off /\ bus' = [bus EXCEPT !.off = TRUE] /\ UNCHANGED <<svc, sdo, step, requests>>
BusBack == bus.off /\ bus' = [bus EXCEPT !.off = FALSE] /\ UNCHANGED <<svc, sdo, step, requests>>

-----------------------------------------------------------------------------
(* Recovery of the transport.                                              *)
Clear(s) ==
    [Landed(Ended(IF Active(s) THEN Record(s, s.group, "cancelled") ELSE s))
        EXCEPT !.queue = <<>>, !.retries = 0, !.tried = FALSE, !.busy = -1,
               !.group = 0, !.state = "idle"]

Rebuilt(s, ok) ==
    [Landed(s) EXCEPT !.busy = -1, !.wait = Backoff, !.normal = ok]
Reset(b) == [b EXCEPT !.tx = NoFrame, !.off = FALSE]

FailActive_Bug(s) == s
FailActive(s) ==
    IF s.inFlight # NoFrame THEN FailGroup(s, s.inFlight.group)
    ELSE IF Active(s) THEN FailWithoutRequest(s) ELSE s

(* poll_transport_health, the first half of process_realtime_pdo.          *)
Watched(s, b) ==
    CASE b.tx = NoFrame -> [s EXCEPT !.busy = -1]
      [] b.tx # NoFrame /\ s.busy = -1 -> [s EXCEPT !.busy = 0]
      [] b.tx # NoFrame /\ s.busy >= TxTimeout -> [FailActive(s) EXCEPT !.normal = FALSE]
      [] OTHER -> s
Polled(s, b) ==
    IF b.off THEN [FailActive(Watched(s, b)) EXCEPT !.normal = FALSE] ELSE Watched(s, b)
RecoveryDue_Bug(s) == ~s.normal /\ s.state = "idle" /\ s.wait = 0
RecoveryDue(s) == ~s.normal /\ RealtimeIdle(s) /\ s.wait = 0

PollHealth(ok) ==
    LET s == Polled(svc, bus)
        r == IF RecoveryDue(s) THEN Rebuilt(Clear(s), ok) ELSE s
    IN  /\ step.at = "idle"
        /\ svc' = r
        /\ bus' = IF RecoveryDue(s) THEN Reset(bus) ELSE bus
        /\ step' = [step EXCEPT !.at = "queue"]
        /\ UNCHANGED <<sdo, requests>>

(* cancel_realtime_pdo, as the motion device resets its state, and followed *)
(* by recover_transport, as both devices do after a failed group.           *)
CancelRealtime ==
    /\ step.at = "idle"
    /\ svc' = Clear(svc)
    /\ UNCHANGED <<bus, sdo, step, requests>>

RecoverTransport(ok) ==
    /\ step.at = "idle"
    /\ svc' = Rebuilt(Clear(svc), ok)
    /\ bus' = Reset(bus)
    /\ UNCHANGED <<sdo, step, requests>>

-----------------------------------------------------------------------------
(* process_pdo_tx_queue.                                                   *)
(* start_required_pdo_group_sync.  A group is active only while can_normal  *)
(* holds (ActiveIsNormal), so send_sync_frame does not refuse.              *)
StartSync(s, b, r) ==
    LET arm == ArmSyncDue(s)
        at == IF arm THEN Descriptor[s.group].arm + 1 ELSE Len(Plan[s.group])
    IN  CASE ~arm /\ ~TriggerSyncDue(s) -> [s |-> s, b |-> b, sent |-> FALSE]
          [] (arm \/ TriggerSyncDue(s)) /\ Sent(r) ->
                [s |-> [s EXCEPT !.sync = TRUE, !.age = 0, !.seen = r = "late",
                                 !.armSync = @ \/ arm, !.triggerSync = @ \/ ~arm],
                 b |-> Give(b, Frame(s.group, at), r), sent |-> TRUE]
          [] (arm \/ TriggerSyncDue(s)) /\ r = "busy" -> [s |-> s, b |-> b, sent |-> FALSE]
          [] OTHER -> [s |-> FailWithoutRequest(s), b |-> b, sent |-> FALSE]

TimedOut_Bug(s) == FALSE
TimedOut(s) == s.age >= TxTimeout

(* The part before the burst.                                              *)
ProcessQueue(r) ==
    LET s == Reap(svc, bus)
        late == s.sync /\ TimedOut(s)
        t == IF late THEN Landed(s) ELSE s
        x == StartSync(Finalize(t), bus, r)
    IN  /\ step.at = "queue"
        /\ UNCHANGED <<sdo, requests>>
        /\ CASE ~svc.normal -> step' = [step EXCEPT !.at = "idle"] /\ UNCHANGED <<svc, bus>>
             [] svc.normal /\ late /\ Active(t) ->
                    /\ svc' = FailWithoutRequest(t) /\ step' = [step EXCEPT !.at = "idle"]
                    /\ UNCHANGED bus
             [] svc.normal /\ ~(late /\ Active(t)) /\ t.inFlight # NoFrame /\ TimedOut(t) ->
                    /\ svc' = FailGroup(t, t.inFlight.group) /\ step' = [step EXCEPT !.at = "idle"]
                    /\ UNCHANGED bus
             [] OTHER ->
                    /\ svc' = x.s /\ bus' = x.b
                    /\ step' = IF x.sent \/ x.s.sync \/ x.s.state = "failed"
                               THEN [step EXCEPT !.at = "idle"]
                               ELSE [at |-> "burst", burst |-> 0]

(* start_next_pdo_frame.  The head of the queue belongs to the active group *)
(* (QueueIsActive).                                                         *)
MayStart(s) == s.inFlight = NoFrame /\ ~s.sync /\ s.queue # <<>> /\ ~s.tried
TooEarly(s) ==
    LET f == Head(s.queue)
    IN  IsTrigger(f) /\ Descriptor[f.group].syncAfterArm /\ ~s.armSync
OutOfOrder(s) ==
    LET f == Head(s.queue)
    IN  IsTrigger(f) /\ s.arms < Descriptor[f.group].arm

Submitted(s, r) ==
    LET f == Head(s.queue)
    IN  [s EXCEPT !.inFlight = f, !.age = 0, !.seen = r = "late",
                  !.state = IF IsTrigger(f) THEN "trigger" ELSE "arm",
                  !.started = @ \/ IsTrigger(f)]

Refused(s, r) ==
    LET t == [s EXCEPT !.tried = TRUE, !.retries = IF r = "error" THEN @ + 1 ELSE @]
    IN  IF r = "error" /\ t.retries >= MaxRetries THEN FailGroup(t, Head(s.queue).group)
        ELSE t

(* No frame was started: the last tries of the burst, and the call ends.   *)
EndBurst(s, r) ==
    LET x == StartSync(s, bus, r)
    IN  /\ svc' = IF x.sent THEN x.s ELSE Finalize(x.s)
        /\ bus' = x.b
        /\ step' = [step EXCEPT !.at = "idle"]

SendFrame(r) ==
    /\ step.at = "burst"
    /\ UNCHANGED <<sdo, requests>>
    /\ CASE ~MayStart(svc) -> EndBurst(svc, r)
         [] MayStart(svc) /\ OutOfOrder(svc) ->
                EndBurst(FailGroup(svc, Head(svc.queue).group), r)
         [] MayStart(svc) /\ ~OutOfOrder(svc) /\ TooEarly(svc) -> EndBurst(svc, r)
         [] OTHER ->
                IF Sent(r)
                THEN /\ svc' = Submitted(svc, r) /\ bus' = Give(bus, Head(svc.queue), r)
                     /\ step' = [step EXCEPT !.at = "wait"]
                ELSE EndBurst(Refused(svc, r), r)

(* wait_briefly_for_pdo_tx_complete ends, and the burst goes on or not.    *)
AfterFrame(r) ==
    LET s == Reap(svc, bus)
        x == StartSync(s, bus, r)
        on == s.inFlight = NoFrame /\ ~s.sync /\ s.state \notin {"failed", "cancelled"}
    IN  /\ step.at = "wait"
        /\ svc' = IF ~on THEN s ELSE IF x.sent THEN x.s ELSE Finalize(x.s)
        /\ bus' = IF on THEN x.b ELSE bus
        /\ step' = IF on /\ ~x.sent /\ step.burst + 1 < BurstLimit
                   THEN [at |-> "burst", burst |-> step.burst + 1]
                   ELSE [step EXCEPT !.at = "idle"]
        /\ UNCHANGED <<sdo, requests>>

-----------------------------------------------------------------------------
(* What the devices ask for, between the calls of process_realtime_pdo.    *)
(* queue_pdo_batch_with_descriptor: begins the group.                      *)
Begun(s, g) ==
    [Ended(s) EXCEPT !.queue = @ \o Batch[g], !.group = g, !.state = "queued"]

CanAccept(s) == ~Active(s)
QueueGroup(g) ==
    /\ step.at = "idle" /\ svc.normal /\ CanAccept(svc)
    /\ Len(svc.queue) + Len(Batch[g]) <= QueueCapacity
    /\ g = requests.groups + 1 /\ requests.groups + requests.writes < MaxRequests
    /\ requests' = [requests EXCEPT !.groups = g]
    /\ svc' = Begun(svc, g)
    /\ UNCHANGED <<bus, sdo, step>>

(* cancel_pdo_group                                                        *)
Cancelled(s, g) ==
    LET c == IF s.group # g THEN s
             ELSE [s EXCEPT !.cancel = TRUE,
                            !.started = s.triggers > 0 \/ IsTrigger(s.inFlight)]
        d == DropGroup(c, g)
    IN  IF s.group = g /\ s.inFlight = NoFrame THEN Conclude(d, "cancelled") ELSE d

CancelGroup(g) ==
    /\ step.at = "idle" /\ g <= requests.groups
    /\ svc' = Cancelled(svc, g)
    /\ UNCHANGED <<bus, sdo, step, requests>>

(* pdo_group_result                                                        *)
Pending(g) == (svc.group = g /\ Active(svc)) \/ \E i \in DOMAIN svc.queue : svc.queue[i].group = g
Recorded(g) == {svc.history[i].result : i \in {j \in 1..HistoryCapacity : svc.history[j].group = g}}
Result(g) ==
    CASE Pending(g) -> "pending"
      [] ~Pending(g) /\ svc.lastFailed = g -> "failed"
      [] ~Pending(g) /\ svc.lastFailed # g /\ svc.group = g -> svc.state
      [] OTHER -> IF Recorded(g) = {} THEN "unknown" ELSE CHOOSE v \in Recorded(g) : TRUE

(* Frames of no group.  send_feedback_sync, request_nmt, and send_sync,     *)
(* whose SYNC is waited for.                                                *)
LaneFree(s) == s.normal /\ s.inFlight = NoFrame /\ s.queue = <<>> /\ ~Active(s)

SendFeedbackSync(r) ==
    /\ step.at = "idle" /\ LaneFree(svc) /\ Sent(r)
    /\ bus' = Give(bus, Other, r)
    /\ svc' = [svc EXCEPT !.seen = @ \/ (r = "late" /\ svc.sync)]
    /\ UNCHANGED <<sdo, step, requests>>

SendSync(r) ==
    /\ step.at = "idle" /\ LaneFree(svc) /\ ~svc.sync /\ Sent(r)
    /\ bus' = Give(bus, Other, r)
    /\ svc' = [svc EXCEPT !.sync = TRUE, !.age = 0, !.seen = r = "late"]
    /\ UNCHANGED <<sdo, step, requests>>

BufferIdle(b) == b.tx = NoFrame
NmtSent(b) == Give(b, Other, "ok")
RequestNmt ==
    /\ step.at = "idle" /\ RealtimeIdle(svc) /\ BufferIdle(bus) /\ "ok" \in Results(bus)
    /\ bus' = NmtSent(bus)
    /\ UNCHANGED <<svc, sdo, step, requests>>

-----------------------------------------------------------------------------
(* SDO writes.  A write is the object and its number among all writes.     *)
(* request_sdo_write_impl                                                  *)
Ordered(k) == k \in OrderedKeys
Coalesced_Bug(queue, w) ==
    LET at == {i \in DOMAIN queue : queue[i].key = w.key}
    IN  IF at = {} THEN Append(queue, w)
        ELSE [i \in DOMAIN queue |-> IF i \in at THEN w ELSE queue[i]]
Coalesced(queue, w) ==
    LET at == {i \in DOMAIN queue : queue[i].key = w.key /\ ~Ordered(w.key)}
    IN  IF at = {} THEN Append(queue, w)
        ELSE [i \in DOMAIN queue |-> IF i \in at THEN w ELSE queue[i]]

RequestWrite(k) ==
    LET w == [key |-> k, number |-> requests.writes + 1]
        queue == Coalesced(sdo.queue, w)
    IN  /\ step.at = "idle" /\ Len(queue) <= CommandCapacity
        /\ requests.groups + requests.writes < MaxRequests
        /\ requests' = [requests EXCEPT !.writes = w.number]
        /\ sdo' = [sdo EXCEPT !.queue = queue, !.accepted = Append(@, w)]
        /\ UNCHANGED <<svc, bus, step>>

(* process_background, when it gets the lock.  A write that could not be    *)
(* started, or that the drive aborted, is not tried again.                  *)
SdoPopped(s) == [s EXCEPT !.queue = Tail(@)]
SdoStarted(s, w, ends) == [s EXCEPT !.active = ~ends, !.sent = Append(@, w)]
SdoFinished(s, ends) == [s EXCEPT !.active = ~ends]
Background(ends, f) ==
    /\ step.at = "idle" /\ RealtimeIdle(svc) /\ ~svc.sync /\ BufferIdle(bus)
    /\ f = NoFrame \/ "ok" \in Results(bus)
    /\ bus' = [bus EXCEPT !.tx = f]
    /\ sdo' = CASE sdo.active -> SdoFinished(sdo, ends)
                [] ~sdo.active /\ sdo.queue # <<>> ->
                       SdoStarted(SdoPopped(sdo), Head(sdo.queue), ends)
                [] OTHER -> sdo
    /\ UNCHANGED <<svc, step, requests>>

-----------------------------------------------------------------------------
Tick ==
    /\ step.at = "idle"
    /\ svc' = [svc EXCEPT !.tried = FALSE,
                 !.age = IF Awaiting(svc) /\ @ < TxTimeout THEN @ + 1 ELSE @,
                 !.busy = IF @ \in 0..(TxTimeout - 1) THEN @ + 1 ELSE @,
                 !.wait = IF @ > 0 THEN @ - 1 ELSE 0]
    /\ UNCHANGED <<bus, sdo, step, requests>>

Call ==
    \/ \E ok \in BOOLEAN : PollHealth(ok)
    \/ \E r \in Results(bus) : ProcessQueue(r) \/ SendFrame(r) \/ AfterFrame(r)

Device ==
    \/ \E r \in Results(bus) : SendFeedbackSync(r) \/ SendSync(r)
    \/ CancelRealtime
    \/ \E ok \in BOOLEAN : RecoverTransport(ok)
    \/ \E g \in Groups : QueueGroup(g) \/ CancelGroup(g)
    \/ RequestNmt
    \/ \E k \in Keys : RequestWrite(k)
    \/ \E ends \in BOOLEAN, f \in {NoFrame, Other} : Background(ends, f)

Controller == (\E counted \in BOOLEAN : TxDone(counted)) \/ BusOff \/ BusBack

Next == Call \/ Device \/ Controller \/ Tick

(* The task runs its cycle for ever (a call is always possible, and none of *)
(* its steps waits), the clock goes on between the calls, and a controller  *)
(* that is initialised again and again starts at last.                      *)
Fairness ==
    /\ []<>(step.at = "idle") /\ []<>(step.at = "queue")
    /\ SF_vars(Tick)
    /\ SF_vars(step.at = "idle" /\ RecoveryDue(Polled(svc, bus)) /\ PollHealth(TRUE))

Spec == Init /\ [][Next]_vars /\ Fairness

-----------------------------------------------------------------------------
(* What the scheduler relies on without a test: while a group is active the *)
(* transport is usable; the queue holds frames of the active group only,    *)
(* and its head is the frame in flight (canopen_master_service.c:1753).     *)
LaneConsistent ==
    /\ Active(svc) => svc.normal
    /\ \A i \in DOMAIN svc.queue : svc.queue[i].group = svc.group
    /\ svc.queue # <<>> => Active(svc)
    /\ svc.inFlight # NoFrame => svc.queue # <<>> /\ svc.inFlight = Head(svc.queue)
    /\ ~(svc.sync /\ svc.inFlight # NoFrame)

(* Whatever the interrupt counts and whichever other frames use the buffer, *)
(* the groups are sent in the order of their plans, and "complete" is said  *)
(* of a group that is on the wire to its last SYNC.                         *)
Transfer == INSTANCE PdoTransfer WITH
    Length <- [g \in Groups |-> Len(Plan[g])],
    given <- bus.given, out <- bus.out,
    verdict <- [g \in Groups |-> Result(g)]
TransferSpec == Transfer!Spec

(* Writes of the ordered objects ("must reach the drive exactly in that     *)
(* order", canopen_master_service.c:429) are all sent, as they were accepted; *)
(* of the writes of another object none is overtaken by an older one, and    *)
(* the last accepted is not lost.                                           *)
Outgoing == sdo.sent \o sdo.queue
WritesKept ==
    /\ \A i, j \in DOMAIN Outgoing :
           /\ i < j
           /\ \/ Outgoing[i].key = Outgoing[j].key
              \/ {Outgoing[i].key, Outgoing[j].key} \subseteq OrderedKeys
           => Outgoing[i].number < Outgoing[j].number
    /\ \A n \in DOMAIN sdo.accepted :
           \/ \E i \in DOMAIN Outgoing : Outgoing[i] = sdo.accepted[n]
           \/ /\ ~Ordered(sdo.accepted[n].key)
              /\ \E m \in DOMAIN sdo.accepted :
                     m > n /\ sdo.accepted[m].key = sdo.accepted[n].key
    /\ \A i \in DOMAIN Outgoing :
           \E n \in DOMAIN sdo.accepted : Outgoing[i] = sdo.accepted[n]

(* A group that is pending is decided: no stuck frame, lost event or refused *)
(* submission holds the lane for ever.                                       *)
GroupsDecided == Active(svc) ~> ~Active(svc)

(* A transport that was given up comes back.                               *)
TransportRecovers == ~svc.normal ~> svc.normal
=============================================================================
