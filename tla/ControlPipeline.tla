--------------------------- MODULE ControlPipeline ---------------------------
(***************************************************************************)
(* What the tasks promise each other, without words, slots and sequence     *)
(* numbers: requests come in order; a lane (CAN2 motion, CAN3 hydraulics)   *)
(* is offered one command after the other, each made from a request that    *)
(* existed and never from an older one than the command before; and what a  *)
(* lane applies is the command it is offered, whole, or a safe stop.        *)
(***************************************************************************)
EXTENDS Naturals

CONSTANT Lanes

VARIABLES
    newest,     \* the number of the newest request
    offered,    \* by lane: the command that may be applied
    applied     \* by lane: the command being applied

vars == <<newest, offered, applied>>

Command == [cmd : Nat, from : Nat]
None == [cmd |-> 0, from |-> 0]    \* the safe default

Init ==
    /\ newest = 0
    /\ offered = [l \in Lanes |-> None]
    /\ applied = [l \in Lanes |-> None]

NewRequest == newest' = newest + 1 /\ UNCHANGED <<offered, applied>>

(* Any newer command, made from a request at least as new.                 *)
Offer(l) ==
    /\ offered' \in [Lanes -> Command]
    /\ offered'[l].cmd > offered[l].cmd
    /\ offered'[l].from \in offered[l].from..newest
    /\ \A other \in Lanes \ {l} : offered'[other] = offered[other]
    /\ UNCHANGED <<newest, applied>>

Apply(l) ==
    /\ applied' = [applied EXCEPT ![l] = offered[l]]
    /\ UNCHANGED <<newest, offered>>

SafeStop(l) ==
    /\ applied' = [applied EXCEPT ![l] = None]
    /\ UNCHANGED <<newest, offered>>

Next == NewRequest \/ \E l \in Lanes : Offer(l) \/ Apply(l) \/ SafeStop(l)

Spec == Init /\ [][Next]_vars
=============================================================================
