---------------------------- MODULE RelayClaims -----------------------------
(***************************************************************************)
(* OutboxRelay with a history variable: the claims that are under five     *)
(* minutes old.  The table itself does not know the age of a claim, since  *)
(* the claim writes only outbox.state; the recovery statement goes by      *)
(* next_attempt_at.  The history says how old the claim really was when    *)
(* the recovery took a row.                                                *)
(***************************************************************************)
EXTENDS OutboxRelay

VARIABLE recent \* PROCESSING rows whose claim is under five minutes old

ClaimInit == Init /\ recent = {}

\* A row that a step of the worker turns PROCESSING has a new claim, and one that
\* is PROCESSING no more has none.
StillClaimed == {r \in Row : state'[r] = "PROCESSING" /\ (r \in recent \/ state[r] # "PROCESSING")}

\* Five minutes after the claim.  next_attempt_at had come before the claim, so it
\* is at least as old.
ClaimGetsOld(r) ==
    /\ r \in recent /\ due[r] = "stuck"
    /\ recent' = recent \ {r}
    /\ UNCHANGED vars

ClaimNext ==
    \/ Next /\ recent' = StillClaimed
    \/ \E r \in Row : ClaimGetsOld(r)

ClaimSpec == ClaimInit /\ [][ClaimNext]_<<vars, recent>>

\* "Recovery: re-queue PROCESSING rows that have been stuck for > 5 min"
\* (outbox.worker.ts:59): the recovery takes no row whose claim is under five
\* minutes old.  The run's replicas do not crash, so that such a row is taken
\* from a live replica that is publishing it.
RequeueOnlyOldClaims ==
    [][(\E w \in Worker : Recover(w)) => recent \intersect Stuck = {}]_<<vars, recent>>
=============================================================================
