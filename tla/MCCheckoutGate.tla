--------------------------- MODULE MCCheckoutGate --------------------------
(* Instances of CheckoutGate for TLC. *)
EXTENDS CheckoutGate, TLC

\* Requests are interchangeable.
Symmetry == Permutations(Req)
=============================================================================
