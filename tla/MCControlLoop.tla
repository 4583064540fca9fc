---------------------------- MODULE MCControlLoop ----------------------------
(* One ms for each stale time, for the tolerated skew and for a preemption; *)
(* a stall may last longer than all of them in a row, and a timestamp may   *)
(* lie ahead of a reader's clock or behind it without wrapping.             *)
EXTENDS ControlLoop
=============================================================================
