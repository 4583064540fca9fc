-------------------------- MODULE MCControlHandoff --------------------------
(* Requests and commands of two words: one word more adds interleavings,    *)
(* no new kind of mixture.                                                  *)
EXTENDS ControlHandoff

CONSTANTS w1, w2
MCWords == {w1, w2}
=============================================================================
