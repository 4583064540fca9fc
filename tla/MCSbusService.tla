---------------------------- MODULE MCSbusService ----------------------------
(* Frames of three bytes: the middle one is payload and flag byte at once.  *)
(* 15 looks like a header and carries the failsafe bit, 0 looks like an end.*)
EXTENDS SbusService

MCPayload == {0, 15}
=============================================================================
