---------------------------- MODULE MCLiftDevice ----------------------------
(* Two legs, four scenarios: the state spaces add up instead of multiplying. *)
EXTENDS LiftDevice

Lifting ==                                   \* the legs, with every kind of fault
    [requests |-> {"safe", "neutral", "extend"}, starts |-> {0, 2, 3},
     faults |-> 1, creeps |-> FALSE]
Reversing ==                                 \* the stick from end to end
    [requests |-> {"safe", "extend", "retract"}, starts |-> Heights,
     faults |-> 0, creeps |-> TRUE]
Hydraulics ==                                \* the pump, with every kind of fault
    [requests |-> {"safe", "gated", "extend track"}, starts |-> {1},
     faults |-> 1, creeps |-> FALSE]
Both ==                                      \* the legs and the pump share the lane
    [requests |-> {"extend", "extend track"}, starts |-> {1},
     faults |-> 0, creeps |-> FALSE]

Scenes == {Lifting, Reversing, Hydraulics, Both}
OnlyReversing == {Reversing}
=============================================================================
