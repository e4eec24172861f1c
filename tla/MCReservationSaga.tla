------------------------- MODULE MCReservationSaga -------------------------
(* Instances of ReservationSaga for TLC. *)
EXTENDS ReservationSaga, TLC

Symmetry == Permutations(Seat) \union Permutations(User) \union Permutations(HoldId)
            \union Permutations(Key) \union Permutations(WebhookId)
=============================================================================
