---------------------------- MODULE AuthSessions ----------------------------
(***************************************************************************)
(* Refresh tokens of the auth service (auth_db.refresh_tokens): login,     *)
(* refresh with rotation, the grace window for retries, reuse detection,   *)
(* logout and logout-all.                                                  *)
(*                                                                         *)
(* A request reads the row of the token it was sent (findByRaw), decides,  *)
(* and writes in a later statement or transaction: what interleaves are    *)
(* the reads and the writes of concurrent requests.  Unknown and expired   *)
(* tokens, bad credentials and the retry inside the grace window end       *)
(* without a write and are stuttering steps.  users.token_version is only  *)
(* copied into access tokens, where no code compares it, and is left out.  *)
(***************************************************************************)
EXTENDS Naturals

CONSTANTS
    User,     \* registered users
    TokenId,  \* refresh_tokens.id values a run may draw (bound of the model)
    Request   \* HTTP requests being served at a time

\* Ids are UUIDs; the two names stand for their absence.
ASSUME AuthSessionsAssumption == "null" \notin TokenId /\ "nobody" \notin User

VARIABLES
    tokens,   \* refresh_tokens by id (NoToken if absent)
    reqs,     \* what a request, having read its row, will do (Idle: none)
    late      \* families in which a token was rotated that had been revoked
              \* after the rotating request read it (history)

vars == <<tokens, reqs, late>>

\* A family is named by its first token; "null" is an empty rotated_to.
NoToken == [grace |-> "absent"]
TokenRow == [user : User, family : TokenId, rotated_to : TokenId \union {"null"},
             revoked : BOOLEAN, grace : {"none", "open", "over"}]
Idle == [op |-> "idle"]
Busy == [op : {"rotate", "revokeFamily", "revoke", "revokeAll"}, token : TokenId]

Exists(t) == tokens[t] # NoToken
Active(t) == Exists(t) /\ ~tokens[t].revoked
RowOf(q) == tokens[reqs[q].token]

Init ==
    /\ tokens = [t \in TokenId |-> NoToken]
    /\ reqs = [q \in Request |-> Idle]
    /\ late = {}

Fresh(u, f) == [user |-> u, family |-> f, rotated_to |-> "null",
                revoked |-> FALSE, grace |-> "none"]

\* Faulty variant: the user's sessions share one family.
IssueIntoUserFamily(u, t) ==
    /\ ~Exists(t)
    /\ tokens' = [tokens EXCEPT ![t] = Fresh(u, u)]
    /\ UNCHANGED <<reqs, late>>

\* POST /login with good credentials: the first token of a new family.
issueNewFamily(u, t) ==
    /\ ~Exists(t)
    /\ tokens' = [tokens EXCEPT ![t] = Fresh(u, t)]
    /\ UNCHANGED <<reqs, late>>

\* The clock passes grace_until.
GraceEnds(t) ==
    /\ Exists(t) /\ tokens[t].grace = "open"
    /\ tokens' = [tokens EXCEPT ![t].grace = "over"]
    /\ UNCHANGED <<reqs, late>>

----------------------------------------------------------------------------
(* POST /refresh *)

\* Faulty variant: a retry inside the grace window rotates again.
GraceRotates(row) ==
    IF ~row.revoked \/ row.grace = "open" THEN "rotate" ELSE "revokeFamily"

\* The three branches, decided on the row as findByRaw returned it.
RefreshBranch(row) ==
    IF ~row.revoked THEN "rotate"
    ELSE IF row.grace = "open" THEN "idle" ELSE "revokeFamily"

refresh(q, t) ==
    /\ reqs[q] = Idle /\ Exists(t)
    /\ RefreshBranch(tokens[t]) # "idle"
    /\ reqs' = [reqs EXCEPT ![q] = [op |-> RefreshBranch(tokens[t]), token |-> t]]
    /\ UNCHANGED <<tokens, late>>

\* Faulty variants: the new token starts a family; the old row is not
\* updated.
RotateIntoNewFamily(q, t) ==
    /\ reqs[q].op = "rotate" /\ ~Exists(t)
    /\ tokens' = [tokens EXCEPT
          ![t] = Fresh(RowOf(q).user, t),
          ![reqs[q].token] = [@ EXCEPT !.revoked = TRUE, !.rotated_to = t, !.grace = "open"]]
    /\ late' = IF RowOf(q).revoked THEN late \union {RowOf(q).family} ELSE late
    /\ reqs' = [reqs EXCEPT ![q] = Idle]
RotateKeepsOld(q, t) ==
    /\ reqs[q].op = "rotate" /\ ~Exists(t)
    /\ tokens' = [tokens EXCEPT ![t] = Fresh(RowOf(q).user, RowOf(q).family)]
    /\ reqs' = [reqs EXCEPT ![q] = Idle]
    /\ UNCHANGED late

\* The rotation, one transaction that locks the row.  It does not ask whether
\* the row has been revoked since findByRaw: such a rotation is late.
rotate(q, t) ==
    /\ reqs[q].op = "rotate" /\ ~Exists(t)
    /\ tokens' = [tokens EXCEPT
          ![t] = Fresh(RowOf(q).user, RowOf(q).family),
          ![reqs[q].token] = [@ EXCEPT !.revoked = TRUE, !.rotated_to = t, !.grace = "open"]]
    /\ late' = IF RowOf(q).revoked THEN late \union {RowOf(q).family} ELSE late
    /\ reqs' = [reqs EXCEPT ![q] = Idle]

\* The writes of every revocation: the tokens T lose their validity.
RevokeTokens(q, T) ==
    /\ tokens' = [t \in TokenId |-> IF t \in T THEN [tokens[t] EXCEPT !.revoked = TRUE]
                                               ELSE tokens[t]]
    /\ reqs' = [reqs EXCEPT ![q] = Idle]
    /\ UNCHANGED late

\* Reuse past the grace window: all active tokens of the family.
revokeFamily(q) ==
    /\ reqs[q].op = "revokeFamily"
    /\ RevokeTokens(q, {t \in TokenId : Active(t) /\ tokens[t].family = RowOf(q).family})

----------------------------------------------------------------------------
(* POST /logout and /logout-all *)

logout(q, t, op) ==
    /\ reqs[q] = Idle /\ Exists(t)
    /\ reqs' = [reqs EXCEPT ![q] = [op |-> op, token |-> t]]
    /\ UNCHANGED <<tokens, late>>

revoke(q) ==
    /\ reqs[q].op = "revoke"
    /\ RevokeTokens(q, {reqs[q].token})

revokeAllForUser(q) ==
    /\ reqs[q].op = "revokeAll"
    /\ RevokeTokens(q, {t \in TokenId : Active(t) /\ tokens[t].user = RowOf(q).user})

\* A crash, or a query that throws, between a request's read and its write.
RequestLost(q) ==
    /\ reqs[q] # Idle
    /\ reqs' = [reqs EXCEPT ![q] = Idle]
    /\ UNCHANGED <<tokens, late>>

----------------------------------------------------------------------------

Next ==
    \/ \E u \in User, t \in TokenId : issueNewFamily(u, t)
    \/ \E t \in TokenId : GraceEnds(t)
    \/ \E q \in Request :
          \/ \E t \in TokenId : refresh(q, t) \/ rotate(q, t)
          \/ \E t \in TokenId, op \in {"revoke", "revokeAll"} : logout(q, t, op)
          \/ revokeFamily(q) \/ revoke(q) \/ revokeAllForUser(q) \/ RequestLost(q)

Spec == Init /\ [][Next]_vars

----------------------------------------------------------------------------
(***************************************************************************)
(* Properties.                                                             *)
(***************************************************************************)

\* The table holds what its columns allow, and a request works on a token
\* that was in the table when it read it and still is.
TypeOK ==
    /\ tokens \in [TokenId -> TokenRow \union {NoToken}]
    /\ reqs \in [Request -> Busy \union {Idle}]
    /\ late \subseteq TokenId
    /\ \A q \in Request : reqs[q] # Idle => Exists(reqs[q].token)

\* The rotated_to links are what reuse detection rests on: a rotated token is
\* spent and its grace window has been set, its successor belongs to the same
\* family and user, no two tokens have the same successor, and a family
\* belongs to one user, however many rotations and revocations overlapped.
ChainsWellFormed ==
    /\ \A t \in TokenId : Exists(t) =>
          /\ Exists(tokens[t].family)
          /\ tokens[tokens[t].family].user = tokens[t].user
          /\ tokens[t].grace = "none" <=> tokens[t].rotated_to = "null"
          /\ tokens[t].rotated_to # "null" =>
                /\ tokens[t].revoked
                /\ Exists(tokens[t].rotated_to)
                /\ tokens[tokens[t].rotated_to].family = tokens[t].family
                /\ tokens[tokens[t].rotated_to].user = tokens[t].user
    /\ \A t, s \in TokenId :
          /\ Exists(t) /\ Exists(s)
          /\ tokens[t].rotated_to # "null"
          /\ tokens[t].rotated_to = tokens[s].rotated_to
          => t = s

\* A session has one valid token: two tokens of a family are active together
\* only if a refresh rotated a token that another request had revoked since.
OneLiveToken ==
    \A s, t \in TokenId :
        /\ Active(s) /\ Active(t)
        /\ tokens[s].family = tokens[t].family
        /\ tokens[s].family \notin late
        => s = t

\* A family with no active token, and with no rotation under way, never gets
\* one again: after logout, logout-all or reuse detection neither a retry in
\* the grace window nor any other use of its old tokens revives the session.
Dead(f) ==
    /\ Exists(f)
    /\ \A t \in TokenId : Active(t) => tokens[t].family # f
    /\ \A q \in Request : reqs[q].op = "rotate" => RowOf(q).family # f
DeadFamiliesStayDead == [][\A f \in TokenId : Dead(f) => Dead(f)']_vars

\* A family is a login session: whatever reads and writes of concurrent
\* requests overlap, each family starts with one valid token, passes it on,
\* loses it to logout, logout-all (every session of that user, no other's) or
\* reuse detection (the whole family), and once dead is never revived.
Session == INSTANCE LoginSession WITH
    owner <- [t \in TokenId |-> IF Exists(t) THEN tokens[t].user ELSE "nobody"],
    valid <- [f \in TokenId |-> {t \in TokenId : Active(t) /\ tokens[t].family = f}],
    forked <- late,
    ended <- {f \in TokenId : Dead(f) /\ tokens[f].family = f}
FamiliesAreSessions == Session!SessionSpec
=============================================================================
