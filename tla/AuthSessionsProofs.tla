------------------------- MODULE AuthSessionsProofs -------------------------
(***************************************************************************)
(* Machine-checked proofs about AuthSessions, for any users, any number of *)
(* tokens and any number of concurrent requests.                           *)
(***************************************************************************)
EXTENDS AuthSessions, TLAPS

\* An absent row is told apart from a stored one by one field.
LEMMA StoredRows ==
  ASSUME NEW r \in TokenRow
  PROVE  r # NoToken
  BY DEF TokenRow, NoToken

\* What a stored token looks like.
LEMMA RowType ==
  ASSUME TypeOK, NEW t \in TokenId, Exists(t)
  PROVE  /\ tokens[t] \in TokenRow
         /\ tokens[t].user \in User /\ tokens[t].family \in TokenId
         /\ tokens[t].revoked \in BOOLEAN
  BY DEF TypeOK, Exists, TokenRow

\* A request that is about to write works on a stored token.
LEMMA RequestType ==
  ASSUME TypeOK, NEW q \in Request, reqs[q].op # "idle"
  PROVE  reqs[q] # Idle /\ reqs[q].token \in TokenId /\ Exists(reqs[q].token)
  <1>1. reqs[q] # Idle
    BY DEF Idle
  <1> QED BY <1>1 DEF TypeOK, Busy

----------------------------------------------------------------------------
(* What each write does to the table, row by row and field by field *)

\* A login adds the first token of a family.
Issued(u, t) ==
    /\ ~Exists(t) /\ tokens'[t] \in TokenRow
    /\ tokens'[t].user = u /\ tokens'[t].family = t
    /\ tokens'[t].rotated_to = "null" /\ tokens'[t].grace = "none"
    /\ tokens'[t].revoked = FALSE
    /\ \A s \in TokenId \ {t} : tokens'[s] = tokens[s]
    /\ tokens' \in [TokenId -> TokenRow \union {NoToken}]
    /\ reqs' = reqs /\ late' = late

\* issueNewFamily has that effect.
LEMMA IssueEffect ==
  ASSUME TypeOK, NEW u \in User, NEW t \in TokenId, issueNewFamily(u, t)
  PROVE  Issued(u, t)
  <1>1. /\ tokens \in [TokenId -> TokenRow \union {NoToken}]
        /\ tokens' = [tokens EXCEPT ![t] = Fresh(u, t)]
    BY DEF issueNewFamily, TypeOK
  <1>2. /\ Fresh(u, t) \in TokenRow /\ Fresh(u, t).user = u /\ Fresh(u, t).family = t
        /\ Fresh(u, t).rotated_to = "null" /\ Fresh(u, t).grace = "none"
        /\ Fresh(u, t).revoked = FALSE
    BY DEF Fresh, TokenRow
  <1>3. /\ tokens'[t] = Fresh(u, t)
        /\ \A s \in TokenId \ {t} : tokens'[s] = tokens[s]
        /\ tokens' \in [TokenId -> TokenRow \union {NoToken}]
    BY <1>1, <1>2
  <1> QED BY <1>2, <1>3 DEF issueNewFamily, Issued

\* A rotation spends the old token o and adds its successor t.
Rotated(o, t) ==
    /\ o # t /\ Exists(o) /\ ~Exists(t)
    /\ tokens'[t] \in TokenRow
    /\ tokens'[t].user = tokens[o].user /\ tokens'[t].family = tokens[o].family
    /\ tokens'[t].rotated_to = "null" /\ tokens'[t].grace = "none"
    /\ tokens'[t].revoked = FALSE
    /\ tokens'[o] \in TokenRow
    /\ tokens'[o].user = tokens[o].user /\ tokens'[o].family = tokens[o].family
    /\ tokens'[o].revoked = TRUE /\ tokens'[o].rotated_to = t /\ tokens'[o].grace = "open"
    /\ \A s \in TokenId \ {o, t} : tokens'[s] = tokens[s]
    /\ tokens' \in [TokenId -> TokenRow \union {NoToken}]
    /\ late' = IF tokens[o].revoked THEN late \union {tokens[o].family} ELSE late

\* rotate has that effect on the token its request read.
LEMMA RotateEffect ==
  ASSUME TypeOK, NEW q \in Request, NEW t \in TokenId, rotate(q, t)
  PROVE  /\ reqs[q].op = "rotate"
         /\ \E o \in TokenId : o = reqs[q].token /\ Rotated(o, t)
         /\ reqs' = [reqs EXCEPT ![q] = Idle]
  <1>0. reqs[q].op = "rotate" /\ reqs' = [reqs EXCEPT ![q] = Idle]
    BY DEF rotate
  <1>1. PICK o \in TokenId : o = reqs[q].token /\ Exists(o)
    BY <1>0, RequestType
  <1>2. ~Exists(t) /\ o # t
    BY <1>1 DEF rotate
  <1>3. tokens[o] \in TokenRow /\ tokens[o].user \in User /\ tokens[o].family \in TokenId
    BY <1>1, RowType
  <1> DEFINE row == [tokens[o] EXCEPT !.revoked = TRUE, !.rotated_to = t, !.grace = "open"]
             new == Fresh(tokens[o].user, tokens[o].family)
  <1>4. /\ row \in TokenRow /\ row.user = tokens[o].user /\ row.family = tokens[o].family
        /\ row.revoked = TRUE /\ row.rotated_to = t /\ row.grace = "open"
    BY <1>3 DEF TokenRow
  <1>5. tokens' = [tokens EXCEPT ![t] = new, ![o] = row]
    BY <1>1, <1>2 DEF rotate, RowOf, TypeOK
  <1>6. /\ new \in TokenRow /\ new.user = tokens[o].user /\ new.family = tokens[o].family
        /\ new.rotated_to = "null" /\ new.grace = "none" /\ new.revoked = FALSE
    BY <1>3 DEF Fresh, TokenRow
  <1> HIDE DEF row, new
  <1>7. /\ tokens'[t] = new /\ tokens'[o] = row
        /\ \A s \in TokenId \ {o, t} : tokens'[s] = tokens[s]
        /\ tokens' \in [TokenId -> TokenRow \union {NoToken}]
    BY <1>2, <1>4, <1>5, <1>6 DEF TypeOK
  <1>8. late' = IF tokens[o].revoked THEN late \union {tokens[o].family} ELSE late
    BY <1>1 DEF rotate, RowOf
  <1>9. Rotated(o, t)
    BY <1>1, <1>2, <1>4, <1>6, <1>7, <1>8 DEF Rotated
  <1> QED BY <1>0, <1>1, <1>9

\* The tokens T, and only they, are revoked; nothing else about them changes.
Revoked(T) ==
    /\ \A s \in T : /\ Exists(s) /\ tokens'[s] \in TokenRow
                    /\ tokens'[s].user = tokens[s].user
                    /\ tokens'[s].family = tokens[s].family
                    /\ tokens'[s].rotated_to = tokens[s].rotated_to
                    /\ tokens'[s].grace = tokens[s].grace
                    /\ tokens'[s].revoked = TRUE
    /\ \A s \in TokenId \ T : tokens'[s] = tokens[s]
    /\ tokens' \in [TokenId -> TokenRow \union {NoToken}]
    /\ late' = late

\* Setting revoked_at changes no other column.
LEMMA RevokedRow ==
  ASSUME NEW r \in TokenRow, NEW n, n = [r EXCEPT !.revoked = TRUE]
  PROVE  /\ n \in TokenRow /\ n.user = r.user /\ n.family = r.family
         /\ n.rotated_to = r.rotated_to /\ n.grace = r.grace /\ n.revoked = TRUE
  BY DEF TokenRow

\* The three revocations change nothing but revoked_at.
LEMMA RevokeEffect ==
  ASSUME TypeOK, NEW q \in Request, NEW T \in SUBSET TokenId, \A s \in T : Exists(s),
         RevokeTokens(q, T)
  PROVE  Revoked(T) /\ reqs' = [reqs EXCEPT ![q] = Idle]
  <1>1. \A s \in T : tokens[s] \in TokenRow
    BY RowType
  <1>2. \A s \in T : tokens'[s] = [tokens[s] EXCEPT !.revoked = TRUE]
    BY DEF RevokeTokens
  <1>3. \A s \in TokenId \ T : tokens'[s] = tokens[s]
    BY DEF RevokeTokens
  <1>4. \A s \in T : /\ tokens'[s] \in TokenRow
                     /\ tokens'[s].user = tokens[s].user
                     /\ tokens'[s].family = tokens[s].family
                     /\ tokens'[s].rotated_to = tokens[s].rotated_to
                     /\ tokens'[s].grace = tokens[s].grace
                     /\ tokens'[s].revoked = TRUE
    BY <1>1, <1>2, RevokedRow
  <1>5. tokens' \in [TokenId -> TokenRow \union {NoToken}]
    <2>1. \A s \in TokenId : tokens'[s] \in TokenRow \union {NoToken}
      BY <1>3, <1>4 DEF TypeOK
    <2> QED BY <2>1 DEF RevokeTokens
  <1> QED BY <1>3, <1>4, <1>5 DEF Revoked, RevokeTokens

\* The end of a grace window changes nothing but that.
GraceOver(t) ==
    /\ Exists(t) /\ tokens[t].grace = "open"
    /\ tokens'[t] \in TokenRow
    /\ tokens'[t].user = tokens[t].user /\ tokens'[t].family = tokens[t].family
    /\ tokens'[t].rotated_to = tokens[t].rotated_to
    /\ tokens'[t].revoked = tokens[t].revoked /\ tokens'[t].grace = "over"
    /\ \A s \in TokenId \ {t} : tokens'[s] = tokens[s]
    /\ tokens' \in [TokenId -> TokenRow \union {NoToken}]
    /\ reqs' = reqs /\ late' = late

\* GraceEnds has that effect.
LEMMA GraceEffect ==
  ASSUME TypeOK, NEW t \in TokenId, GraceEnds(t)
  PROVE  GraceOver(t)
  <1>1. Exists(t) /\ tokens[t].grace = "open" /\ tokens[t] \in TokenRow
    BY RowType DEF GraceEnds
  <1>2. tokens' = [tokens EXCEPT ![t] = [tokens[t] EXCEPT !.grace = "over"]]
    BY DEF GraceEnds
  <1>3. tokens'[t] = [tokens[t] EXCEPT !.grace = "over"]
    BY <1>2 DEF TypeOK
  <1>4. /\ tokens'[t] \in TokenRow
        /\ tokens'[t].user = tokens[t].user /\ tokens'[t].family = tokens[t].family
        /\ tokens'[t].rotated_to = tokens[t].rotated_to
        /\ tokens'[t].revoked = tokens[t].revoked /\ tokens'[t].grace = "over"
    BY <1>1, <1>3 DEF TokenRow
  <1>5. \A s \in TokenId \ {t} : tokens'[s] = tokens[s]
    BY <1>2 DEF TypeOK
  <1>6. tokens' \in [TokenId -> TokenRow \union {NoToken}]
    BY <1>2, <1>3, <1>4 DEF TypeOK
  <1> QED BY <1>1, <1>4, <1>5, <1>6 DEF GraceEnds, GraceOver

\* A request has read its row and knows what to do with it.
ReadsRow(q, t) ==
    /\ Exists(t) /\ tokens' = tokens /\ late' = late
    /\ \E op \in {"rotate", "revokeFamily", "revoke", "revokeAll"} :
          /\ op = "rotate" => Active(t)
          /\ reqs' = [reqs EXCEPT ![q] = [op |-> op, token |-> t]]

\* All steps: four effects on the table, a read, a lost request, or nothing.
LEMMA StepCases ==
  ASSUME TypeOK, [Next]_vars
  PROVE  \/ \E u \in User, t \in TokenId : Issued(u, t)
         \/ \E t \in TokenId : GraceOver(t)
         \/ \E q \in Request, o, t \in TokenId :
               /\ reqs[q].op = "rotate" /\ o = reqs[q].token /\ Rotated(o, t)
               /\ reqs' = [reqs EXCEPT ![q] = Idle]
         \/ \E q \in Request, T \in SUBSET TokenId :
               Revoked(T) /\ reqs' = [reqs EXCEPT ![q] = Idle]
         \/ \E q \in Request, t \in TokenId : ReadsRow(q, t)
         \/ \E q \in Request : /\ tokens' = tokens /\ late' = late
                               /\ reqs' = [reqs EXCEPT ![q] = Idle]
         \/ UNCHANGED vars
  <1>1. ASSUME NEW q \in Request, NEW t \in TokenId, refresh(q, t)
        PROVE  ReadsRow(q, t)
    <2>1. tokens[t].revoked \in BOOLEAN /\ Exists(t)
      BY <1>1, RowType DEF refresh
    <2>2. CASE ~tokens[t].revoked
      BY <1>1, <2>1, <2>2 DEF refresh, RefreshBranch, ReadsRow, Active
    <2>3. CASE tokens[t].revoked
      BY <1>1, <2>1, <2>3 DEF refresh, RefreshBranch, ReadsRow, Active
    <2> QED BY <2>1, <2>2, <2>3
  <1>2. ASSUME NEW q \in Request, NEW t \in TokenId, NEW op \in {"revoke", "revokeAll"},
               logout(q, t, op)
        PROVE  ReadsRow(q, t)
    BY <1>2 DEF logout, ReadsRow
  <1>3. ASSUME NEW q \in Request, revokeFamily(q) \/ revoke(q) \/ revokeAllForUser(q)
        PROVE  \E T \in SUBSET TokenId : Revoked(T) /\ reqs' = [reqs EXCEPT ![q] = Idle]
    <2>1. reqs[q].token \in TokenId /\ Exists(reqs[q].token)
      BY <1>3, RequestType DEF revokeFamily, revoke, revokeAllForUser
    <2>2. PICK T \in SUBSET TokenId : (\A s \in T : Exists(s)) /\ RevokeTokens(q, T)
      BY <1>3, <2>1 DEF revokeFamily, revoke, revokeAllForUser, Active
    <2> QED BY <2>2, RevokeEffect
  <1>4. ASSUME NEW q \in Request, RequestLost(q)
        PROVE  tokens' = tokens /\ late' = late /\ reqs' = [reqs EXCEPT ![q] = Idle]
    BY <1>4 DEF RequestLost
  <1>5. ASSUME NEW q \in Request, NEW t \in TokenId, rotate(q, t)
        PROVE  \E o \in TokenId : /\ reqs[q].op = "rotate" /\ o = reqs[q].token /\ Rotated(o, t)
                                   /\ reqs' = [reqs EXCEPT ![q] = Idle]
    BY <1>5, RotateEffect
  <1>6. ASSUME NEW u \in User, NEW t \in TokenId, issueNewFamily(u, t) PROVE Issued(u, t)
    BY <1>6, IssueEffect
  <1>7. ASSUME NEW t \in TokenId, GraceEnds(t) PROVE GraceOver(t)
    BY <1>7, GraceEffect
  <1> QED BY <1>1, <1>2, <1>3, <1>4, <1>5, <1>6, <1>7 DEF Next

----------------------------------------------------------------------------
(* Type correctness *)

\* Stored tokens stay in the table, with their user and family.
LEMMA TokensPersist ==
  ASSUME TypeOK, [Next]_vars, NEW t \in TokenId, Exists(t)
  PROVE  /\ tokens'[t] # NoToken
         /\ tokens'[t].user = tokens[t].user /\ tokens'[t].family = tokens[t].family
         /\ tokens[t].revoked => tokens'[t].revoked
  <1> DEFINE Kept == /\ tokens'[t] # NoToken
                     /\ tokens'[t].user = tokens[t].user
                     /\ tokens'[t].family = tokens[t].family
                     /\ tokens[t].revoked => tokens'[t].revoked
  <1>0. ASSUME tokens'[t] = tokens[t] PROVE Kept
    BY <1>0 DEF Exists
  <1>1. ASSUME NEW u \in User, NEW s \in TokenId, Issued(u, s) PROVE Kept
    BY <1>0, <1>1 DEF Issued
  <1>2. ASSUME NEW s \in TokenId, GraceOver(s) PROVE Kept
    BY <1>0, <1>2, StoredRows DEF GraceOver
  <1>3. ASSUME NEW o \in TokenId, NEW s \in TokenId, Rotated(o, s) PROVE Kept
    BY <1>0, <1>3, StoredRows DEF Rotated
  <1>4. ASSUME NEW T \in SUBSET TokenId, Revoked(T) PROVE Kept
    BY <1>0, <1>4, StoredRows DEF Revoked
  <1>5. ASSUME tokens' = tokens PROVE Kept
    BY <1>0, <1>5
  <1> HIDE DEF Kept
  <1>6. Kept
    BY <1>1, <1>2, <1>3, <1>4, <1>5, StepCases DEF ReadsRow, vars
  <1> QED BY <1>6 DEF Kept

\* Requests keep working on stored tokens.
LEMMA RequestsStep ==
  ASSUME TypeOK, [Next]_vars
  PROVE  /\ reqs' \in [Request -> Busy \union {Idle}]
         /\ \A q \in Request : reqs'[q] # Idle =>
               /\ reqs'[q].token \in TokenId /\ tokens[reqs'[q].token] # NoToken
               /\ tokens'[reqs'[q].token] # NoToken
  <1> DEFINE Good == /\ reqs' \in [Request -> Busy \union {Idle}]
                     /\ \A q \in Request : reqs'[q] # Idle =>
                           reqs'[q].token \in TokenId /\ tokens[reqs'[q].token] # NoToken
  <1>0. /\ reqs \in [Request -> Busy \union {Idle}]
        /\ \A q \in Request : reqs[q] # Idle =>
              reqs[q].token \in TokenId /\ tokens[reqs[q].token] # NoToken
    BY DEF TypeOK, Busy, Exists
  <1>1. ASSUME reqs' = reqs PROVE Good
    BY <1>0, <1>1
  <1>2. ASSUME NEW q \in Request, reqs' = [reqs EXCEPT ![q] = Idle] PROVE Good
    BY <1>0, <1>2
  <1>3. ASSUME NEW q \in Request, NEW t \in TokenId, ReadsRow(q, t) PROVE Good
    <2>1. PICK op \in {"rotate", "revokeFamily", "revoke", "revokeAll"} :
             tokens[t] # NoToken /\ reqs' = [reqs EXCEPT ![q] = [op |-> op, token |-> t]]
      BY <1>3 DEF ReadsRow, Exists
    <2>2. [op |-> op, token |-> t] \in Busy
      BY DEF Busy
    <2> QED BY <1>0, <2>1, <2>2
  <1> HIDE DEF Good
  <1>4. Good
    BY <1>1, <1>2, <1>3, StepCases DEF Issued, GraceOver, vars
  <1> QED BY <1>4, TokensPersist DEF Exists, Good

\* Every login, refresh, logout and revocation keeps the state well typed.
LEMMA TypeStep == TypeOK /\ [Next]_vars => TypeOK'
  <1> SUFFICES ASSUME TypeOK, [Next]_vars PROVE TypeOK'
    OBVIOUS
  <1> DEFINE Typed == /\ tokens' \in [TokenId -> TokenRow \union {NoToken}]
                      /\ late' \subseteq TokenId
  <1>0. tokens \in [TokenId -> TokenRow \union {NoToken}] /\ late \subseteq TokenId
    BY DEF TypeOK
  <1>1. ASSUME NEW o \in TokenId, NEW t \in TokenId, Rotated(o, t) PROVE Typed
    <2>1. tokens[o].family \in TokenId
      BY <1>1, RowType DEF Rotated
    <2> QED BY <1>0, <1>1, <2>1 DEF Rotated
  <1>2. ASSUME tokens' = tokens, late' = late PROVE Typed
    BY <1>0, <1>2
  <1>4. ASSUME \/ \E u \in User, t \in TokenId : Issued(u, t)
               \/ \E t \in TokenId : GraceOver(t)
               \/ \E T \in SUBSET TokenId : Revoked(T)
        PROVE  Typed
    BY <1>0, <1>4 DEF Issued, GraceOver, Revoked
  <1> HIDE DEF Typed
  <1>3. Typed
    BY <1>1, <1>2, <1>4, StepCases DEF ReadsRow, vars
  <1> QED BY <1>3, RequestsStep DEF TypeOK, Exists, Typed

\* Every reachable state of the session store is well typed.
THEOREM TypeCorrect == Spec => []TypeOK
  <1>1. Init => TypeOK
    BY DEF Init, TypeOK, Exists
  <1> QED BY <1>1, TypeStep, PTL DEF Spec

----------------------------------------------------------------------------
(* The properties *)

\* Whatever is done with the tokens of a dead family, none becomes valid.
LEMMA DeadStep ==
  ASSUME TypeOK, [Next]_vars, NEW f \in TokenId, Dead(f)
  PROVE  Dead(f)'
  <1> DEFINE NoneActive == \A t \in TokenId :
                tokens'[t] # NoToken /\ ~tokens'[t].revoked => tokens'[t].family # f
             NoneRotating == \A q \in Request :
                reqs'[q].op = "rotate" => tokens[reqs'[q].token].family # f
  <1>0. /\ Exists(f)
        /\ \A t \in TokenId : tokens[t] # NoToken /\ ~tokens[t].revoked => tokens[t].family # f
        /\ \A q \in Request : reqs[q].op = "rotate" => tokens[reqs[q].token].family # f
    BY DEF Dead, Active, Exists, RowOf
  <1>1. ASSUME NEW u \in User, NEW t \in TokenId, Issued(u, t)
        PROVE  NoneActive /\ NoneRotating
    <2>1. t # f
      BY <1>0, <1>1 DEF Issued
    <2> QED BY <1>0, <1>1, <2>1 DEF Issued
  <1>2. ASSUME NEW t \in TokenId, GraceOver(t) PROVE NoneActive /\ NoneRotating
    BY <1>0, <1>2 DEF GraceOver, Exists
  <1>3. ASSUME NEW q \in Request, NEW o \in TokenId, NEW t \in TokenId,
               reqs[q].op = "rotate", o = reqs[q].token, Rotated(o, t)
        PROVE  NoneActive
    <2>1. tokens[o].family # f
      BY <1>0, <1>3
    <2> QED BY <1>0, <1>3, <2>1 DEF Rotated
  <1>4. ASSUME NEW q \in Request, reqs' = [reqs EXCEPT ![q] = Idle] PROVE NoneRotating
    <2>1. Idle.op # "rotate"
      BY DEF Idle
    <2> QED BY <1>0, <1>4, <2>1 DEF TypeOK
  <1>5. ASSUME NEW T \in SUBSET TokenId, Revoked(T) PROVE NoneActive
    BY <1>0, <1>5 DEF Revoked
  <1>6. ASSUME NEW q \in Request, NEW t \in TokenId, ReadsRow(q, t)
        PROVE  NoneActive /\ NoneRotating
    <2>1. PICK op \in {"rotate", "revokeFamily", "revoke", "revokeAll"} :
             /\ op = "rotate" => Active(t)
             /\ reqs' = [reqs EXCEPT ![q] = [op |-> op, token |-> t]]
      BY <1>6 DEF ReadsRow
    <2>2. op = "rotate" => tokens[t].family # f
      BY <1>0, <2>1 DEF Active, Exists
    <2>3. NoneRotating
      BY <1>0, <2>1, <2>2 DEF TypeOK
    <2> QED BY <1>0, <1>6, <2>3 DEF ReadsRow
  <1>7. ASSUME tokens' = tokens PROVE NoneActive
    BY <1>0, <1>7
  <1>8. ASSUME UNCHANGED vars PROVE NoneActive /\ NoneRotating
    BY <1>0, <1>8 DEF vars
  <1> HIDE DEF NoneActive, NoneRotating
  <1>9. NoneActive /\ NoneRotating
    BY <1>1, <1>2, <1>3, <1>4, <1>5, <1>6, <1>7, <1>8, StepCases
  <1>10. ASSUME NEW q \in Request, reqs'[q].op = "rotate"
         PROVE  tokens'[reqs'[q].token].family # f
    <2>1. reqs'[q] # Idle
      BY <1>10 DEF Idle
    <2>2. reqs'[q].token \in TokenId /\ Exists(reqs'[q].token)
      BY <2>1, RequestsStep DEF Exists
    <2> QED BY <1>9, <1>10, <2>2, TokensPersist DEF NoneRotating
  <1> QED BY <1>0, <1>9, <1>10, TokensPersist DEF Dead, Active, Exists, RowOf, NoneActive

\* A session that has ended stays ended: whatever is done with the tokens of a
\* dead family, at any time and by any number of requests, none becomes valid.
THEOREM DeadFamiliesFinal == Spec => DeadFamiliesStayDead
  <1>1. TypeOK /\ [Next]_vars => [\A f \in TokenId : Dead(f) => Dead(f)']_vars
    BY DeadStep
  <1> QED BY <1>1, TypeCorrect, PTL DEF Spec, DeadFamiliesStayDead

\* The links between tokens survive every step.
LEMMA ChainsStep ==
  ASSUME TypeOK, ChainsWellFormed, [Next]_vars
  PROVE  ChainsWellFormed'
  <1> USE AuthSessionsAssumption
  <1>0. \A t \in TokenId : Exists(t) =>
           /\ tokens[t].family \in TokenId
           /\ tokens[t].rotated_to # "null" => tokens[t].rotated_to \in TokenId
    BY DEF TypeOK, Exists, TokenRow
  <1>1. ASSUME NEW u \in User, NEW n \in TokenId, Issued(u, n) PROVE ChainsWellFormed'
    BY <1>0, <1>1, StoredRows DEF Issued, ChainsWellFormed, Exists
  <1>2. ASSUME NEW o \in TokenId, GraceOver(o) PROVE ChainsWellFormed'
    BY <1>0, <1>2, StoredRows DEF GraceOver, ChainsWellFormed, Exists
  <1>3. ASSUME NEW o \in TokenId, NEW n \in TokenId, Rotated(o, n) PROVE ChainsWellFormed'
    BY <1>0, <1>3, StoredRows DEF Rotated, ChainsWellFormed, Exists
  <1>4. ASSUME NEW T \in SUBSET TokenId, Revoked(T) PROVE ChainsWellFormed'
    BY <1>0, <1>4, StoredRows DEF Revoked, ChainsWellFormed, Exists
  <1>5. ASSUME tokens' = tokens PROVE ChainsWellFormed'
    BY <1>5 DEF ChainsWellFormed, Exists
  <1> QED BY <1>1, <1>2, <1>3, <1>4, <1>5, StepCases DEF ReadsRow, vars

\* However many rotations of a token overlap, the rotated_to links form chains
\* inside one family of one user, and every linked token is spent.
THEOREM ChainsCorrect == Spec => []ChainsWellFormed
  <1>1. Init => ChainsWellFormed
    BY DEF Init, ChainsWellFormed, Exists
  <1>2. TypeOK /\ ChainsWellFormed /\ [Next]_vars => ChainsWellFormed'
    BY ChainsStep
  <1> QED BY <1>1, <1>2, TypeCorrect, PTL DEF Spec

\* Only a late rotation makes a second valid token.
LEMMA OneLiveStep ==
  ASSUME TypeOK, ChainsWellFormed, OneLiveToken, [Next]_vars
  PROVE  OneLiveToken'
  <1>1. ASSUME NEW u \in User, NEW n \in TokenId, Issued(u, n) PROVE OneLiveToken'
    <2>1. \A s \in TokenId : Exists(s) => tokens[s].family # n
      BY <1>1 DEF Issued, ChainsWellFormed
    <2> QED BY <1>1, <2>1 DEF Issued, OneLiveToken, Active, Exists
  <1>2. ASSUME NEW o \in TokenId, GraceOver(o) PROVE OneLiveToken'
    BY <1>2, StoredRows DEF GraceOver, OneLiveToken, Active, Exists
  <1>3. ASSUME NEW o \in TokenId, NEW n \in TokenId, Rotated(o, n) PROVE OneLiveToken'
    <2>1. CASE tokens[o].revoked
      BY <1>3, <2>1, StoredRows DEF Rotated, OneLiveToken, Active, Exists
    <2>2. CASE ~tokens[o].revoked
      BY <1>3, <2>2, StoredRows DEF Rotated, OneLiveToken, Active, Exists
    <2> QED BY <2>1, <2>2
  <1>4. ASSUME NEW T \in SUBSET TokenId, Revoked(T) PROVE OneLiveToken'
    BY <1>4, StoredRows DEF Revoked, OneLiveToken, Active, Exists
  <1>5. ASSUME tokens' = tokens, late' = late PROVE OneLiveToken'
    BY <1>5 DEF OneLiveToken, Active, Exists
  <1> QED BY <1>1, <1>2, <1>3, <1>4, <1>5, StepCases DEF ReadsRow, vars

\* A session has one valid token unless a refresh rotated a token revoked
\* under its hands: the missing re-check in rotate is the only cause.
THEOREM OneLiveTokenPerFamily == Spec => []OneLiveToken
  <1>1. Init => OneLiveToken
    BY DEF Init, OneLiveToken, Active, Exists
  <1>2. TypeOK /\ ChainsWellFormed /\ OneLiveToken /\ [Next]_vars => OneLiveToken'
    BY OneLiveStep
  <1> QED BY <1>1, <1>2, TypeCorrect, ChainsCorrect, PTL DEF Spec

----------------------------------------------------------------------------
(* Families as login sessions *)

\* The user a token was issued to, and the tokens of a family that are valid.
Owner(t) == IF Exists(t) THEN tokens[t].user ELSE "nobody"
Valid(f) == {t \in TokenId : Active(t) /\ tokens[t].family = f}
Over == {f \in TokenId : Dead(f) /\ tokens[f].family = f}

\* A step that leaves every row alone leaves every session alone.
LEMMA SessionsKept ==
  ASSUME tokens' = tokens
  PROVE  \A f \in TokenId : Owner(f)' = Owner(f) /\ Valid(f)' = Valid(f)
  BY DEF Owner, Valid, Active, Exists

\* The end of a grace window changes no session.
LEMMA GraceKeepsSessions ==
  ASSUME TypeOK, NEW t \in TokenId, GraceOver(t)
  PROVE  \A f \in TokenId : Owner(f)' = Owner(f) /\ Valid(f)' = Valid(f)
  <1>1. /\ tokens[t] # NoToken /\ tokens'[t] # NoToken
        /\ tokens'[t].user = tokens[t].user /\ tokens'[t].family = tokens[t].family
        /\ tokens'[t].revoked = tokens[t].revoked
        /\ \A s \in TokenId \ {t} : tokens'[s] = tokens[s]
    BY StoredRows DEF GraceOver, Exists
  <1>2. \A f \in TokenId : Owner(f)' = Owner(f)
    BY <1>1 DEF Owner, Exists
  <1>3. \A s \in TokenId : /\ Active(s)' <=> Active(s)
                           /\ Active(s) => tokens'[s].family = tokens[s].family
    BY <1>1 DEF Active, Exists
  <1>4. \A f \in TokenId : Valid(f)' = Valid(f)
    BY <1>3 DEF Valid
  <1> QED BY <1>2, <1>4

\* A login opens a session: no token of a family precedes the first.
LEMMA IssueLogsIn ==
  ASSUME TypeOK, ChainsWellFormed, NEW u \in User, NEW t \in TokenId, Issued(u, t)
  PROVE  Session!Login(u, t)
  <1>1. /\ tokens[t] = NoToken /\ tokens'[t] # NoToken /\ tokens'[t].user = u
        /\ tokens'[t].family = t /\ ~tokens'[t].revoked
        /\ \A s \in TokenId \ {t} : tokens'[s] = tokens[s]
    BY StoredRows DEF Issued, Exists
  <1>2. /\ Owner(t) = "nobody" /\ Owner(t)' = u
        /\ \A s \in TokenId \ {t} : Owner(s)' = Owner(s)
    BY <1>1 DEF Owner, Exists
  <1>3. \A s \in TokenId : Exists(s) => tokens[s].family # t
    BY <1>1 DEF ChainsWellFormed, Exists
  <1>4. Valid(t)' = {t}
    BY <1>1, <1>3 DEF Valid, Active, Exists
  <1>5. ASSUME NEW f \in TokenId \ {t} PROVE Valid(f)' = Valid(f)
    BY <1>1 DEF Valid, Active, Exists
  <1>6. late' = late BY DEF Issued
  <1> QED BY <1>2, <1>4, <1>5, <1>6 DEF Session!Login, Session!NoOne, Owner, Valid

\* A rotation exchanges a token of its family, late if it had been revoked.
LEMMA RotationExchanges ==
  ASSUME TypeOK, ChainsWellFormed, NEW o \in TokenId, NEW n \in TokenId, Rotated(o, n)
  PROVE  \E f \in TokenId : Session!Exchange(f, o, n) \/ Session!LateExchange(f, n)
  <1>1. PICK f \in TokenId : f = tokens[o].family
    BY RowType DEF Rotated
  <1>2. /\ o # n /\ tokens[o] # NoToken /\ tokens[n] = NoToken /\ tokens'[n] # NoToken
        /\ tokens'[n].user = tokens[o].user /\ tokens'[n].family = f /\ ~tokens'[n].revoked
        /\ tokens'[o] # NoToken /\ tokens'[o].user = tokens[o].user
        /\ tokens'[o].family = f /\ tokens'[o].revoked
        /\ \A s \in TokenId \ {o, n} : tokens'[s] = tokens[s]
    BY <1>1, StoredRows DEF Rotated, Exists
  <1>3. Exists(f) /\ tokens[f].user = tokens[o].user /\ f # n
    BY <1>1, <1>2 DEF ChainsWellFormed, Exists
  <1>4. /\ Owner(f) = tokens[o].user /\ Owner(n) = "nobody" /\ Owner(n)' = tokens[o].user
        /\ \A s \in TokenId \ {n} : Owner(s)' = Owner(s)
    BY <1>2, <1>3 DEF Owner, Exists
  <1>5. Owner(f) # "nobody"
    BY <1>2, <1>4, RowType, AuthSessionsAssumption DEF Exists
  <1>6. Valid(f)' = (Valid(f) \ {o}) \union {n}
    BY <1>1, <1>2 DEF Valid, Active, Exists
  <1>7. ASSUME NEW g \in TokenId \ {f} PROVE Valid(g)' = Valid(g)
    BY <1>1, <1>2 DEF Valid, Active, Exists
  <1>8. CASE ~tokens[o].revoked
    <2>1. late' = late BY <1>8 DEF Rotated
    <2>2. o \in Valid(f) BY <1>1, <1>2, <1>8 DEF Valid, Active, Exists
    <2>3. Session!Exchange(f, o, n)
      BY <1>4, <1>6, <1>7, <2>1, <2>2 DEF Session!Exchange, Session!NoOne, Owner, Valid
    <2> QED BY <2>3
  <1>9. CASE tokens[o].revoked
    <2>1. late' = late \union {f} BY <1>1, <1>9 DEF Rotated
    <2>2. o \notin Valid(f) BY <1>9 DEF Valid, Active
    <2>3. Valid(f)' = Valid(f) \union {n} BY <1>6, <2>2
    <2>4. Session!LateExchange(f, n)
      BY <1>4, <1>5, <1>7, <2>1, <2>3 DEF Session!LateExchange, Session!NoOne, Owner, Valid
    <2> QED BY <2>4
  <1> QED BY <1>8, <1>9

\* A revocation takes its tokens from every session.
LEMMA RevokedTokens ==
  ASSUME TypeOK, NEW T \in SUBSET TokenId, Revoked(T)
  PROVE  /\ \A t \in TokenId : Owner(t)' = Owner(t)
         /\ \A f \in TokenId : Valid(f)' = Valid(f) \ T
         /\ late' = late
  <1>1. /\ \A s \in T : /\ tokens[s] # NoToken /\ tokens'[s] # NoToken
                         /\ tokens'[s].user = tokens[s].user /\ tokens'[s].revoked
        /\ \A s \in TokenId \ T : tokens'[s] = tokens[s]
    BY StoredRows DEF Revoked, Exists
  <1>2. \A t \in TokenId : Owner(t)' = Owner(t)
    BY <1>1 DEF Owner, Exists
  <1>3. \A f \in TokenId : Valid(f)' = Valid(f) \ T
    BY <1>1 DEF Valid, Active, Exists
  <1> QED BY <1>2, <1>3 DEF Revoked

\* Reuse detection closes the session, logout-all those of the user, and logout
\* takes one token.
LEMMA RevocationCloses ==
  ASSUME TypeOK, ChainsWellFormed, NEW q \in Request,
         revokeFamily(q) \/ revoke(q) \/ revokeAllForUser(q)
  PROVE  \/ \E f, t \in TokenId : Session!Logout(f, t)
         \/ \E f \in TokenId : Session!Close(f)
         \/ \E u \in User : Session!CloseAll(u)
  <1>1. PICK o \in TokenId : o = reqs[q].token /\ Exists(o)
    BY RequestType DEF revokeFamily, revoke, revokeAllForUser
  <1>2. PICK f \in TokenId : f = tokens[o].family
    BY <1>1, RowType
  <1>3. PICK u \in User : u = tokens[o].user
    BY <1>1, RowType
  <1>4. CASE revokeFamily(q)
    <2>1. PICK T \in SUBSET TokenId : T = Valid(f) /\ RevokeTokens(q, T)
      BY <1>1, <1>2, <1>4 DEF revokeFamily, RowOf, Valid
    <2>2. \A t \in T : Exists(t) BY <2>1 DEF Valid, Active
    <2>3. \A g \in TokenId \ {f} : Valid(g) \intersect T = {} BY <2>1 DEF Valid
    <2>4. /\ \A g \in TokenId : Owner(g)' = Owner(g) /\ Valid(g)' = Valid(g) \ T
          /\ late' = late
      BY <2>1, <2>2, RevokeEffect, RevokedTokens
    <2>5. Valid(f)' = {} /\ \A g \in TokenId \ {f} : Valid(g)' = Valid(g)
      BY <2>1, <2>3, <2>4
    <2>6. [g \in TokenId |-> Valid(g)]' = [[g \in TokenId |-> Valid(g)] EXCEPT ![f] = {}]
      BY <2>5
    <2>7. Session!Close(f)
      BY <2>4, <2>6 DEF Session!Close, Owner, Valid
    <2> QED BY <2>7
  <1>5. CASE revoke(q)
    <2>1. {o} \in SUBSET TokenId /\ (\A t \in {o} : Exists(t)) /\ RevokeTokens(q, {o})
      BY <1>1, <1>5 DEF revoke
    <2>2. \A g \in TokenId \ {f} : o \notin Valid(g) BY <1>2 DEF Valid
    <2>3. /\ \A g \in TokenId : Owner(g)' = Owner(g) /\ Valid(g)' = Valid(g) \ {o}
          /\ late' = late
      BY <2>1, RevokeEffect, RevokedTokens
    <2>4. \A g \in TokenId \ {f} : Valid(g)' = Valid(g)
      BY <2>2, <2>3
    <2>5. Session!Logout(f, o)
      BY <2>3, <2>4 DEF Session!Logout, Owner, Valid
    <2> QED BY <2>5
  <1>6. CASE revokeAllForUser(q)
    <2>1. PICK T \in SUBSET TokenId : /\ T = {t \in TokenId : Active(t) /\ tokens[t].user = u}
                                     /\ RevokeTokens(q, T)
      BY <1>1, <1>3, <1>6 DEF revokeAllForUser, RowOf
    <2>2. \A t \in T : Exists(t) BY <2>1 DEF Active
    <2>3. ASSUME NEW g \in TokenId, NEW t \in Valid(g)
          PROVE  t \in T <=> Owner(g) = u
      <3>1. Exists(t) /\ Active(t) /\ tokens[t].family = g BY DEF Valid, Active
      <3>2. Exists(g) /\ tokens[g].user = tokens[t].user BY <3>1 DEF ChainsWellFormed, Valid
      <3> QED BY <2>1, <3>1, <3>2 DEF Owner, Valid
    <2>4. \A g \in TokenId : Valid(g) \ T = IF Owner(g) = u THEN {} ELSE Valid(g)
      BY <2>3
    <2>5. Session!CloseAll(u)
      BY <2>1, <2>2, <2>4, RevokeEffect, RevokedTokens DEF Session!CloseAll, Owner, Valid
    <2> QED BY <2>5
  <1> QED BY <1>4, <1>5, <1>6

\* What is over has no valid token, and stays over.
LEMMA FinishStep ==
  ASSUME TypeOK, TypeOK', [Next]_vars
  PROVE  Session!Finish
  <1>1. ASSUME NEW f \in Over PROVE f \in Over'
    <2>1. f \in TokenId /\ Dead(f) /\ Exists(f) /\ tokens[f].family = f
      BY DEF Over, Dead
    <2> QED BY <2>1, DeadStep, TokensPersist DEF Over
  <1>2. ASSUME NEW f \in Over' PROVE Owner(f)' # "nobody" /\ Valid(f)' = {}
    <2>1. f \in TokenId /\ Dead(f)' BY DEF Over
    <2>2. Exists(f)' /\ \A t \in TokenId : Active(t)' => tokens'[t].family # f
      BY <2>1 DEF Dead
    <2>3. tokens'[f].user \in User
      BY <2>1, <2>2 DEF TypeOK, Exists, TokenRow
    <2> QED BY <2>2, <2>3, AuthSessionsAssumption DEF Owner, Valid
  <1> QED BY <1>1, <1>2 DEF Session!Finish, Session!NoOne, Over, Owner, Valid

\* Every write of a request is one step of a session, every read none.
LEMMA SessionStep ==
  ASSUME TypeOK, TypeOK', ChainsWellFormed, [Next]_vars
  PROVE  [Session!SessionNext]_(Session!svars)
  <1> DEFINE Step == [Session!SessionNext]_(Session!svars)
  <1>0. Session!Finish BY FinishStep
  <1>1. ASSUME \A f \in TokenId : Owner(f)' = Owner(f) /\ Valid(f)' = Valid(f), late' = late
        PROVE  Step
    BY <1>0, <1>1 DEF Session!SessionNext, Owner, Valid
  <1>2. ASSUME NEW u \in User, NEW t \in TokenId, issueNewFamily(u, t) PROVE Step
    BY <1>0, <1>2, IssueEffect, IssueLogsIn DEF Session!SessionNext
  <1>3. ASSUME NEW t \in TokenId, GraceEnds(t) PROVE Step
    <2>1. GraceOver(t) /\ late' = late BY <1>3, GraceEffect DEF GraceOver
    <2> HIDE DEF Step
    <2> QED BY <1>1, <2>1, GraceKeepsSessions
  <1>4. ASSUME NEW q \in Request, NEW t \in TokenId, rotate(q, t) PROVE Step
    <2>1. PICK o \in TokenId : Rotated(o, t) BY <1>4, RotateEffect
    <2> QED BY <1>0, <2>1, RotationExchanges DEF Session!SessionNext
  <1>5. ASSUME NEW q \in Request, revokeFamily(q) \/ revoke(q) \/ revokeAllForUser(q) PROVE Step
    BY <1>0, <1>5, RevocationCloses DEF Session!SessionNext
  <1>6. ASSUME tokens' = tokens, late' = late PROVE Step
    <2> HIDE DEF Step
    <2> QED BY <1>1, <1>6, SessionsKept
  <1> HIDE DEF Step
  <1>7. Step
    BY <1>2, <1>3, <1>4, <1>5, <1>6 DEF Next, refresh, logout, RequestLost, vars
  <1> QED BY <1>7 DEF Step

\* The table of refresh tokens implements login sessions, for any number of
\* users, tokens and concurrent requests: a session has one valid token until
\* it is forked, a revocation reaches the tokens it is meant for and no others,
\* and what is over stays over.
THEOREM SessionsImplemented == Spec => FamiliesAreSessions
  <1>1. Init => Session!SessionInit
    BY DEF Init, Session!SessionInit, Session!NoOne, Exists, Active, Dead
  <1>2. TypeOK /\ TypeOK' /\ ChainsWellFormed /\ [Next]_vars
        => [Session!SessionNext]_(Session!svars)
    BY SessionStep
  <1> QED BY <1>1, <1>2, TypeCorrect, ChainsCorrect, PTL
          DEF Spec, FamiliesAreSessions, Session!SessionSpec
=============================================================================
