------------------------------- MODULE MCRemote -------------------------------
(* Two kinds of operator, chosen once at the start.                         *)
(* "drive": link, stop, arming, gear, mode and power under good and bad     *)
(*   samples, calls that may be late; the track wheel, the clearance stick  *)
(*   and B1 stay at rest.                                                   *)
(* "adjust": the adjustment domain and high voltage: the track wheel, the   *)
(*   suspension and clearance functions, the B1 gesture and the power       *)
(*   switch, with link losses and a vehicle that may be seen moving.        *)
EXTENDS RemoteManager

VARIABLE operator

DriveInputs ==
    {in \in [flags : {{}, {"timeout"}}, ch13 : {"CENTER", "HIGH"},
             gear : {"LOW", "CENTER", "HIGH"}, home : {"LOW", "HIGH", "CENTER"},
             power : {"CENTER"}, throttle : {"LOW", "HIGH"},
             steering : {"CENTER"}, clearance : {"CENTER"},
             authority : {"LOW"}, track : {0},
             r1Changed : {FALSE}, r2Changed : BOOLEAN, b1Changed : {FALSE}] :
        (* one disturbance at a time *)
        \/ in.flags = {} /\ in.ch13 = "CENTER" /\ ~in.r2Changed
        \/ in.flags = {} /\ in.ch13 = "CENTER" /\ in.throttle = "LOW" /\ in.gear # "LOW"
        \/ /\ in.flags = {} \/ in.ch13 = "CENTER"
           /\ in.home = "LOW" /\ in.throttle = "LOW" /\ ~in.r2Changed}

DriveConditions ==
    {[zeroSpeed |-> z, brakeApplied |-> z, aClassFault |-> f,
      hydraulicStopped |-> TRUE, can1Online |-> TRUE,
      autoRequestValid |-> FALSE] : z \in BOOLEAN, f \in {FALSE}}

Rest ==
    [flags |-> {}, ch13 |-> "CENTER", gear |-> "CENTER", home |-> "LOW",
     power |-> "CENTER", throttle |-> "LOW", steering |-> "CENTER",
     clearance |-> "CENTER", authority |-> "LOW", track |-> 0,
     r1Changed |-> FALSE, r2Changed |-> FALSE, b1Changed |-> FALSE]

Adjusting == [Rest EXCEPT !.home = "CENTER"]

AdjustInputs ==
    {Rest, [Rest EXCEPT !.flags = {"timeout"}], [Rest EXCEPT !.gear = "HIGH"],
     [Rest EXCEPT !.power = "LOW"], [Rest EXCEPT !.power = "HIGH"],
     [Adjusting EXCEPT !.gear = "HIGH"], [Adjusting EXCEPT !.power = "LOW"],
     [Adjusting EXCEPT !.clearance = "HIGH"],
     [Adjusting EXCEPT !.throttle = "HIGH"]}
    \cup {[Adjusting EXCEPT !.track = t] : t \in -2..2}
    \cup {[Adjusting EXCEPT !.b1Changed = TRUE]}

AdjustConditions ==
    {[zeroSpeed |-> z, brakeApplied |-> z, aClassFault |-> FALSE,
      hydraulicStopped |-> TRUE, can1Online |-> TRUE,
      autoRequestValid |-> FALSE] : z \in BOOLEAN}

MCInputs == DriveInputs \cup AdjustInputs
MCConditions == DriveConditions \cup AdjustConditions
MCGaps == {1, 2}

MCInit == Init /\ operator \in {"drive", "adjust"}

Drive ==
    /\ operator = "drive"
    /\ \E in \in DriveInputs, pre \in DriveConditions, dt \in Gaps : Update(in, pre, dt)

Adjust ==
    /\ operator = "adjust"
    /\ \E in \in AdjustInputs, pre \in AdjustConditions : Update(in, pre, 1)

MCNext == (Drive \/ Adjust) /\ UNCHANGED operator

MCSpec == MCInit /\ [][MCNext]_<<vars, operator>>
=============================================================================
