---------------------------- MODULE LoginSession ----------------------------
(***************************************************************************)
(* What refresh-token rotation, reuse detection and logout promise of a    *)
(* login session, a family of tokens named by its first one: it starts at  *)
(* a login with one valid token, exchanges it for a fresh one, and is over *)
(* for good once no token of it is valid and nothing is under way on it.   *)
(*                                                                         *)
(* One thing goes wrong, and is part of the promise: an exchange that      *)
(* overlaps another one or a logout does not notice and adds a token.      *)
(* From then on the session is forked.                                     *)
(***************************************************************************)
CONSTANTS User, TokenId

VARIABLES
    owner,       \* [TokenId -> its user, or NoOne if it was never issued]
    valid,       \* [TokenId -> valid tokens of the session of that name]
    forked,      \* sessions that may have several valid tokens
    ended        \* sessions that are over

svars == <<owner, valid, forked, ended>>

NoOne == "nobody"

SessionInit ==
    /\ owner = [t \in TokenId |-> NoOne]
    /\ valid = [f \in TokenId |-> {}]
    /\ forked = {}
    /\ ended = {}

Login(u, t) ==
    /\ owner[t] = NoOne
    /\ owner' = [owner EXCEPT ![t] = u]
    /\ valid' = [valid EXCEPT ![t] = {t}]
    /\ UNCHANGED forked

\* The valid token o is exchanged for n.
Exchange(f, o, n) ==
    /\ o \in valid[f] /\ owner[n] = NoOne
    /\ owner' = [owner EXCEPT ![n] = owner[f]]
    /\ valid' = [valid EXCEPT ![f] = (@ \ {o}) \union {n}]
    /\ UNCHANGED forked

\* A token that has become invalid is exchanged all the same.
LateExchange(f, n) ==
    /\ owner[f] # NoOne /\ owner[n] = NoOne
    /\ owner' = [owner EXCEPT ![n] = owner[f]]
    /\ valid' = [valid EXCEPT ![f] = @ \union {n}]
    /\ forked' = forked \union {f}

\* A token, a session, or all the sessions of a user are revoked.
Logout(f, t) ==
    /\ valid' = [valid EXCEPT ![f] = @ \ {t}]
    /\ UNCHANGED <<owner, forked>>
Close(f) ==
    /\ valid' = [valid EXCEPT ![f] = {}]
    /\ UNCHANGED <<owner, forked>>
CloseAll(u) ==
    /\ valid' = [f \in TokenId |-> IF owner[f] = u THEN {} ELSE valid[f]]
    /\ UNCHANGED <<owner, forked>>

\* A session that has no valid token left may be over; then it stays so.
Finish ==
    /\ ended \subseteq ended'
    /\ \A f \in ended' : owner'[f] # NoOne /\ valid'[f] = {}

SessionNext ==
    /\ Finish
    /\ \/ \E u \in User, t \in TokenId : Login(u, t)
       \/ \E f, o, n \in TokenId : Exchange(f, o, n)
       \/ \E f, n \in TokenId : LateExchange(f, n) \/ Logout(f, n)
       \/ \E f \in TokenId : Close(f)
       \/ \E u \in User : CloseAll(u)
       \/ UNCHANGED <<owner, valid, forked>>

SessionSpec == SessionInit /\ [][SessionNext]_svars
=============================================================================
