---------------------------- MODULE MCVehicleLoop ----------------------------
(* One operator who drives both ways, stops, loses the link, switches the  *)
(* power and uses the suspension and the track, in the whole-vehicle image. *)
EXTENDS VehicleLoop

Rest ==
    [flags |-> {}, ch13 |-> "CENTER", gear |-> "CENTER", home |-> "LOW",
     power |-> "CENTER", throttle |-> "LOW", steering |-> "CENTER",
     clearance |-> "CENTER", authority |-> "LOW", track |-> 0,
     r1Changed |-> FALSE, r2Changed |-> FALSE, b1Changed |-> FALSE]

LoopInputs ==
    {Rest, [Rest EXCEPT !.ch13 = "HIGH"],
     [Rest EXCEPT !.power = "LOW"], [Rest EXCEPT !.power = "HIGH"],
     [Rest EXCEPT !.home = "CENTER", !.gear = "HIGH"]}
    \cup {[Rest EXCEPT !.gear = g, !.throttle = t] :
            g \in {"LOW", "HIGH"}, t \in {"LOW", "HIGH"}}
    \cup {[Rest EXCEPT !.home = "CENTER", !.track = 2],
          [Rest EXCEPT !.home = "CENTER", !.track = -2],
          [Rest EXCEPT !.gear = "HIGH", !.throttle = "HIGH", !.power = "LOW"],
          [Rest EXCEPT !.home = "CENTER", !.gear = "HIGH", !.power = "LOW"],
          [Rest EXCEPT !.r2Changed = TRUE]}
=============================================================================
