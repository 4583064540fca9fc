--------------------------- MODULE MCCanopenMaster ---------------------------
(* Two groups: a steering group, its arm and trigger frames each closed by  *)
(* a SYNC, and a drive group of one frame.                                  *)
EXTENDS CanopenMaster

MCDescriptor == <<[arm |-> 1, trigger |-> 1, syncAfterArm |-> TRUE, syncAfterTrigger |-> TRUE],
                  [arm |-> 1, trigger |-> 0, syncAfterArm |-> TRUE, syncAfterTrigger |-> FALSE]>>
=============================================================================
