-------------------------- MODULE MCPaymentService --------------------------
(* Instances of PaymentService for TLC; the .cfg files choose the sets.  No  *)
(* symmetry: one of the properties is a liveness property.                   *)
EXTENDS PaymentService, TLC
=============================================================================
