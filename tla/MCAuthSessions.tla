--------------------------- MODULE MCAuthSessions ---------------------------
(* Instances of AuthSessions for TLC. *)
EXTENDS AuthSessions, TLC

\* Users, token ids and requests are interchangeable.
Symmetry == Permutations(User) \union Permutations(TokenId) \union Permutations(Request)
=============================================================================
