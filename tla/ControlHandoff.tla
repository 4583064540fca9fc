--------------------------- MODULE ControlHandoff ---------------------------
(***************************************************************************)
(* The shared memory between the tasks of CPU0.  The remote task publishes  *)
(* its request through a double buffer (ecu_control_snapshot_mailbox.c);    *)
(* the vehicle task turns the newest request into a command and publishes   *)
(* it through two sequence locks (vehicle_command_executor.c), one for CAN2 *)
(* and one for CAN3.  A copy is made word by word, in the order the         *)
(* compiler likes, and any task of a higher priority may run between two    *)
(* words:                                                                   *)
(*     safety 31 > CAN2 30 > remote 28 > vehicle 27 > CAN3 24.              *)
(*                                                                         *)
(* Requests are numbered, commands too, and a word of a command says which  *)
(* request it was made from, so that a torn copy can be told from a whole   *)
(* one.  The timestamp of a mailbox is one of the words.                   *)
(*                                                                         *)
(* X_Bug before X is X with a plausible mistake, used by nothing.           *)
(***************************************************************************)
EXTENDS Integers

CONSTANTS
    Words,          \* the words of a request and of a command
    MaxRequests,    \* bounds of the runs: requests and
    MaxCommands     \* commands that are made

ASSUME WordsAssumption == Words # {}
ASSUME BoundsAssumption == MaxRequests \in Nat /\ MaxCommands \in Nat

Lanes == {"can2", "can3"}
Value == [cmd : Nat, from : Nat]
None == [cmd |-> 0, from |-> 0]
AnyWord == CHOOSE w \in Words : TRUE

VARIABLES
    reqSeq,     \* remote_request_mailbox.publish_sequence
    reqSlot,    \* its two slots
    remote,     \* the words the remote task still has to copy, NotCopying
    seen,       \* the request the safety task has read last
    inHand,     \* the request the vehicle task works with
    vehicle,    \* the vehicle task: step, lane, words still to copy
    commands,   \* commands made so far: the number of the one at work
    seq,        \* by lane: publish_sequence, odd while being written
    box,        \* by lane: the words of the mailbox
    can3,       \* the CAN3 task: sequence read before, words to copy, copy
    applied     \* by lane: the words the bus task has applied last

vars == <<reqSeq, reqSlot, remote, seen, inHand, vehicle, commands, seq, box,
          can3, applied>>

remoteVars  == <<reqSeq, reqSlot, remote>>
vehicleVars == <<inHand, vehicle, commands>>
boxVars     == <<seq, box>>

-----------------------------------------------------------------------------
Slot_Bug(n) == 0
Slot(n) == n % 2
Writing(n) == n % 2 = 1

Idle == [step |-> "idle", lane |-> "can2", left |-> {}]

Init ==
    /\ reqSeq = 0 /\ reqSlot = [s \in 0..1 |-> [w \in Words |-> 0]]
    /\ remote = [copying |-> FALSE, left |-> {}]
    /\ seen = [w \in Words |-> 0]
    /\ inHand = [w \in Words |-> 0] /\ vehicle = Idle /\ commands = 0
    /\ seq = [l \in Lanes |-> 0]
    /\ box = [l \in Lanes |-> [w \in Words |-> None]]
    /\ can3 = [step |-> "idle", before |-> 0, left |-> {},
               copy |-> [w \in Words |-> None]]
    /\ applied = [l \in Lanes |-> [w \in Words |-> None]]

(* A task runs when no task of a higher priority is in the middle of a step.*)
VehicleRuns == ~remote.copying
Can3Runs_Bug == ~remote.copying
Can3Runs == ~remote.copying /\ vehicle.step = "idle"

-----------------------------------------------------------------------------
(* remote_request_mailbox_publish: the request goes into the slot that is   *)
(* not being read, the sequence number follows.                             *)
RemoteBegin ==
    /\ ~remote.copying /\ reqSeq < MaxRequests
    /\ remote' = [copying |-> TRUE, left |-> Words]
    /\ UNCHANGED <<reqSeq, reqSlot, seen, vehicleVars, boxVars, can3, applied>>

RemoteCopy(w) ==
    /\ remote.copying /\ w \in remote.left
    /\ reqSlot' = [reqSlot EXCEPT ![Slot(reqSeq + 1)][w] = reqSeq + 1]
    /\ remote' = [remote EXCEPT !.left = @ \ {w}]
    /\ UNCHANGED <<reqSeq, seen, vehicleVars, boxVars, can3, applied>>

RemoteEnd ==
    /\ remote.copying /\ remote.left = {}
    /\ reqSeq' = reqSeq + 1
    /\ remote' = [remote EXCEPT !.copying = FALSE]
    /\ UNCHANGED <<reqSlot, seen, vehicleVars, boxVars, can3, applied>>

(* remote_request_mailbox_read: one critical section.                      *)
ReadRequest ==
    IF reqSeq = 0 THEN [w \in Words |-> 0] ELSE reqSlot[Slot(reqSeq)]

(* The safety task may interrupt the remote task between any two words.    *)
SafetyRead ==
    /\ seen' = ReadRequest
    /\ UNCHANGED <<remoteVars, vehicleVars, boxVars, can3, applied>>

-----------------------------------------------------------------------------
(* The vehicle task: reads the request, rebuilds the command, publishes it  *)
(* for CAN2 and then for CAN3.                                             *)
VehicleRead ==
    /\ VehicleRuns /\ vehicle.step = "idle" /\ commands < MaxCommands
    /\ inHand' = ReadRequest
    /\ commands' = commands + 1
    /\ vehicle' = [step |-> "open", lane |-> "can2", left |-> {}]
    /\ UNCHANGED <<remoteVars, seen, boxVars, can3, applied>>

OpenMailbox ==
    /\ VehicleRuns /\ vehicle.step = "open"
    /\ seq' = [seq EXCEPT ![vehicle.lane] = @ + 1]
    /\ vehicle' = [vehicle EXCEPT !.step = "copy", !.left = Words]
    /\ UNCHANGED <<remoteVars, seen, inHand, commands, box, can3, applied>>

CopyWord(w) ==
    /\ VehicleRuns /\ vehicle.step = "copy" /\ w \in vehicle.left
    /\ box' = [box EXCEPT ![vehicle.lane][w] =
                 [cmd |-> commands, from |-> inHand[w]]]
    /\ vehicle' = [vehicle EXCEPT !.left = @ \ {w}]
    /\ UNCHANGED <<remoteVars, seen, inHand, commands, seq, can3, applied>>

CloseMailbox ==
    /\ VehicleRuns /\ vehicle.step = "copy" /\ vehicle.left = {}
    /\ seq' = [seq EXCEPT ![vehicle.lane] = @ + 1]
    /\ vehicle' = IF vehicle.lane = "can2"
                  THEN [step |-> "open", lane |-> "can3", left |-> {}] ELSE Idle
    /\ UNCHANGED <<remoteVars, seen, inHand, commands, box, can3, applied>>

-----------------------------------------------------------------------------
(* vehicle_command_executor_flush_can2_motion: nothing can interrupt the    *)
(* copy, but it may interrupt the writer; then the cycle is skipped.       *)
Can2Apply ==
    /\ seq["can2"] > 0 /\ ~Writing(seq["can2"])
    /\ applied' = [applied EXCEPT !["can2"] = box["can2"]]
    /\ UNCHANGED <<remoteVars, seen, vehicleVars, boxVars, can3>>

(* vehicle_command_executor_flush_can3_lift_hydraulic: the copy may be      *)
(* interrupted by a whole publication; without a coherent copy the safe     *)
(* default is applied.                                                     *)
Can3Safe ==
    applied' = [applied EXCEPT !["can3"] = [w \in Words |-> None]]

Can3Begin ==
    /\ Can3Runs /\ can3.step = "idle"
    /\ IF seq["can3"] = 0 \/ Writing(seq["can3"])
       THEN Can3Safe /\ UNCHANGED can3
       ELSE /\ can3' = [can3 EXCEPT !.step = "copy", !.before = seq["can3"],
                                    !.left = Words]
            /\ UNCHANGED applied
    /\ UNCHANGED <<remoteVars, seen, vehicleVars, boxVars>>

Can3Copy(w) ==
    /\ Can3Runs /\ can3.step = "copy" /\ w \in can3.left
    /\ can3' = [can3 EXCEPT !.copy[w] = box["can3"][w], !.left = @ \ {w}]
    /\ UNCHANGED <<remoteVars, seen, vehicleVars, boxVars, applied>>

SequenceUnchanged_Bug == ~Writing(seq["can3"])
SequenceUnchanged == seq["can3"] = can3.before

Can3End ==
    /\ Can3Runs /\ can3.step = "copy" /\ can3.left = {}
    /\ IF SequenceUnchanged
       THEN applied' = [applied EXCEPT !["can3"] = can3.copy]
       ELSE Can3Safe
    /\ can3' = [can3 EXCEPT !.step = "idle"]
    /\ UNCHANGED <<remoteVars, seen, vehicleVars, boxVars>>

-----------------------------------------------------------------------------
Remote == RemoteBegin \/ RemoteEnd \/ \E w \in Words : RemoteCopy(w)
Vehicle == VehicleRead \/ OpenMailbox \/ CloseMailbox \/ \E w \in Words : CopyWord(w)
Can3 == Can3Begin \/ Can3End \/ \E w \in Words : Can3Copy(w)

Next == Remote \/ SafetyRead \/ Vehicle \/ Can2Apply \/ Can3

Spec == Init /\ [][Next]_vars

-----------------------------------------------------------------------------
TypeOK ==
    /\ reqSeq \in Nat /\ reqSlot \in [0..1 -> [Words -> Nat]]
    /\ remote \in [copying : BOOLEAN, left : SUBSET Words]
    /\ seen \in [Words -> Nat] /\ inHand \in [Words -> Nat] /\ commands \in Nat
    /\ vehicle \in [step : {"idle", "open", "copy"}, lane : Lanes,
                    left : SUBSET Words]
    /\ seq \in [Lanes -> Nat] /\ box \in [Lanes -> [Words -> Value]]
    /\ can3 \in [step : {"idle", "copy"}, before : Nat, left : SUBSET Words,
                 copy : [Words -> Value]]
    /\ applied \in [Lanes -> [Words -> Value]]

Whole(f) == \A v, w \in Words : f[v] = f[w]

(* No task ever works with a mixture of two requests or of two commands,    *)
(* whoever interrupts whom while it copies.                                *)
Coherence ==
    /\ Whole(seen) /\ Whole(inHand)
    /\ \A l \in Lanes : Whole(applied[l])

(* CAN3 only gives up a copy, and stops the hydraulics for a cycle, because *)
(* a newer command was published meanwhile, all of it: it never stumbles    *)
(* over a mailbox that is being written.                                   *)
Can3MissesOnlyForNewer ==
    [][applied["can3"] # applied'["can3"] /\ applied'["can3"] = [w \in Words |-> None]
         => /\ can3.step = "copy" /\ ~Writing(seq["can3"])
            /\ seq["can3"] >= can3.before + 2]_vars

(* The tasks together do what ControlPipeline promises.  A mailbox that is  *)
(* being written already offers the new command: no bus task reads it then. *)
Offered(l) ==
    CASE seq[l] = 0 -> None
      [] Writing(seq[l]) -> [cmd |-> commands, from |-> inHand[AnyWord]]
      [] OTHER -> box[l][AnyWord]

Pipeline == INSTANCE ControlPipeline WITH
    Lanes   <- Lanes,
    newest  <- reqSeq,
    offered <- [l \in Lanes |-> Offered(l)],
    applied <- [l \in Lanes |-> applied[l][AnyWord]]

PipelineSpec == Pipeline!Spec
=============================================================================
