--------------------------- MODULE MCOutboxRelay ---------------------------
(* Instances of OutboxRelay for TLC; the values of the constants are in the *)
(* .cfg files.  There is no symmetry set: a liveness property is checked.   *)
EXTENDS OutboxRelay
=============================================================================
