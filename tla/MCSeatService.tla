--------------------------- MODULE MCSeatService ---------------------------
(* Instances of SeatService for TLC; the .cfg files choose the sets.  No     *)
(* symmetry: one of the properties is a liveness property.                   *)
EXTENDS SeatService, TLC
=============================================================================
