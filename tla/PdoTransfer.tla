----------------------------- MODULE PdoTransfer -----------------------------
(***************************************************************************)
(* What a device may expect of the CANopen master when it hands over a      *)
(* group of realtime PDO frames: the frames and SYNCs of the group reach    *)
(* the bus in the order of its plan, one at a time; "complete" is said only *)
(* when the last one has left; and once a verdict is out, no other frame    *)
(* of the group follows, except the one the controller already holds.       *)
(* CanopenMaster is shown to implement this.                                *)
(***************************************************************************)
EXTENDS Naturals, Sequences

CONSTANTS
    Groups,     \* the sequence numbers of the groups
    Length      \* how many frames and SYNCs each group has

VARIABLES
    given,      \* the places in the plan of what the controller was given
    out,        \* of what left on the wire
    verdict     \* what the device is told

vars == <<given, out, verdict>>

Verdicts == {"unknown", "pending", "complete", "failed", "cancelled"}
Decided == {"complete", "failed", "cancelled"}

Init ==
    /\ given = [g \in Groups |-> <<>>]
    /\ out = [g \in Groups |-> <<>>]
    /\ verdict = [g \in Groups |-> "unknown"]

(* One group at a time, and no number twice.                               *)
Accept(g) ==
    /\ verdict[g] = "unknown" /\ given[g] = <<>>
    /\ \A h \in Groups : verdict[h] # "pending"
    /\ verdict' = [verdict EXCEPT ![g] = "pending"]
    /\ UNCHANGED <<given, out>>

(* The next frame or SYNC of the plan, when the one before is out.         *)
Given(g) == [given EXCEPT ![g] = Append(@, Len(@) + 1)]
MayGive(g) == verdict[g] = "pending" /\ Len(given[g]) < Length[g]

Give(g) ==
    /\ MayGive(g) /\ out[g] = given[g]
    /\ given' = Given(g)
    /\ UNCHANGED <<out, verdict>>

Left(g) == [out EXCEPT ![g] = Append(@, given[g][Len(@) + 1])]

Leave(g) ==
    /\ Len(out[g]) < Len(given[g])
    /\ out' = Left(g)
    /\ UNCHANGED <<given, verdict>>

(* The last frame of one group leaves as the next group's is given.        *)
LeaveAndGive(g, h) ==
    /\ Len(out[g]) < Len(given[g]) /\ verdict[g] # "pending"
    /\ MayGive(h) /\ out[h] = given[h]
    /\ out' = Left(g) /\ given' = Given(h)
    /\ UNCHANGED verdict

(* Verdicts.  A failure takes the place of an older one in the record, and  *)
(* a verdict is forgotten after some more groups, so deciding one group may *)
(* change what is told of others; a late cancellation revises a verdict.    *)
Allowed(g, v) ==
    \/ v = verdict[g]
    \/ verdict[g] = "pending" /\ v \in Decided /\ (v = "complete" => Len(out[g]) = Length[g])
    \/ verdict[g] \in Decided /\ v \in {"cancelled", "unknown"}

Decide ==
    /\ verdict' \in [Groups -> Verdicts]
    /\ \A g \in Groups : Allowed(g, verdict'[g])
    /\ UNCHANGED <<given, out>>

Next ==
    \/ \E g \in Groups : Accept(g) \/ Give(g) \/ Leave(g)
    \/ \E g, h \in Groups : LeaveAndGive(g, h)
    \/ Decide

Spec == Init /\ [][Next]_vars
=============================================================================
