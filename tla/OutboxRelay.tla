---------------------------- MODULE OutboxRelay ----------------------------
(***************************************************************************)
(* The outbox worker (the seat and the payment service run the same code)  *)
(* in several replicas over one outbox table: recovery of rows that a      *)
(* crashed replica left PROCESSING, the claim of a batch, publication with *)
(* broker confirms, deletion, retry with backoff, and DEAD rows.  A        *)
(* replica may crash, or lose its database connection, at any point; what  *)
(* it holds in memory is gone and the timer starts a new tick.             *)
(*                                                                         *)
(* The clock appears through two predicates of a row's next_attempt_at:    *)
(* whether it has come (<= NOW()) and whether it is over five minutes old. *)
(***************************************************************************)
EXTENDS Naturals, FiniteSets

CONSTANTS
    Row,         \* outbox rows a run may insert (bound of the model)
    Worker,      \* replicas
    BatchLimit,  \* LIMIT 100
    MaxAttempts, \* MAX_ATTEMPTS
    MaxCrashes   \* bound of the model: how often a replica may crash

ASSUME OutboxRelayAssumption ==
    /\ BatchLimit \in Nat \ {0}
    /\ MaxAttempts \in Nat \ {0}
    /\ MaxCrashes \in Nat

VARIABLES
    state,      \* outbox.state; "ABSENT" before the insert, "DELETED" after
    attempts,   \* outbox.attempts
    due,        \* next_attempt_at: "future", "due" or "stuck" (> 5 min old)
    pc,         \* where a replica's tick is
    batch,      \* rows it claimed and has not dealt with
    snap,       \* row.attempts of the rows in batch, as the claim read it
    cur,        \* the row being processed and whether the broker confirmed it
    published,  \* rows the broker accepted at least once
    failures,   \* failed publications of a row, counted up to MaxAttempts
    crashes

rowVars == <<state, attempts, due>>
workerVars == <<pc, batch, snap, cur>>
vars == <<state, attempts, due, pc, batch, snap, cur, published, failures, crashes>>

NoRow == [row |-> "none", ok |-> FALSE]
States == {"ABSENT", "PENDING", "PROCESSING", "DEAD", "DELETED"}
Ages == {"future", "due", "stuck"}

Init ==
    /\ state = [r \in Row |-> "ABSENT"]
    /\ attempts = [r \in Row |-> 0]
    /\ due = [r \in Row |-> "due"]
    /\ pc = [w \in Worker |-> "idle"]
    /\ batch = [w \in Worker |-> {}]
    /\ snap = [w \in Worker |-> [r \in Row |-> 0]]
    /\ cur = [w \in Worker |-> NoRow]
    /\ published = {}
    /\ failures = [r \in Row |-> 0]
    /\ crashes = 0

----------------------------------------------------------------------------

\* appendOutbox, inside the business transaction: PENDING, due at once.
Append(r) ==
    /\ state[r] = "ABSENT"
    /\ state' = [state EXCEPT ![r] = "PENDING"]
    /\ UNCHANGED <<attempts, due, workerVars, published, failures, crashes>>

\* Time passes over next_attempt_at, and over the five minutes after it.
Age(r) ==
    /\ state[r] \in {"PENDING", "PROCESSING"}
    /\ \/ due[r] = "future" /\ due' = [due EXCEPT ![r] = "due"]
       \/ due[r] = "due" /\ due' = [due EXCEPT ![r] = "stuck"]
    /\ UNCHANGED <<state, attempts, workerVars, published, failures, crashes>>

\* Faulty variant: no recovery of PROCESSING rows.
NothingStuck == {}

\* First statement of tick(), committed by itself: every PROCESSING row whose
\* next_attempt_at is over five minutes old is due again.
Stuck == {r \in Row : state[r] = "PROCESSING" /\ due[r] = "stuck"}

Recover(w) ==
    /\ pc[w] = "idle"
    /\ state' = [r \in Row |-> IF r \in Stuck THEN "PENDING" ELSE state[r]]
    /\ due' = [r \in Row |-> IF r \in Stuck THEN "due" ELSE due[r]]
    /\ pc' = [pc EXCEPT ![w] = "claiming"]
    /\ UNCHANGED <<attempts, batch, snap, cur, published, failures, crashes>>

\* Rows a claiming transaction has locked and not yet committed.
Locked(w) == IF pc[w] = "marking" THEN batch[w] ELSE {}
LockedByOthers(w) == UNION {Locked(v) : v \in Worker \ {w}}

\* The claiming transaction, SELECT ... FOR UPDATE SKIP LOCKED: the BatchLimit
\* oldest PENDING rows whose time has come, without those another replica is
\* just claiming.  With no such row the tick is over.
Claimable(w) == {r \in Row : state[r] = "PENDING" /\ due[r] # "future"} \ LockedByOthers(w)

OldestBatch(w, R) ==
    /\ R \subseteq Claimable(w)
    /\ Cardinality(R) <= BatchLimit
    /\ R = Claimable(w) \/ Cardinality(R) = BatchLimit
    /\ \A r \in R, q \in Claimable(w) \ R : due[q] = "stuck" => due[r] = "stuck"

LockBatch(w) ==
    /\ pc[w] = "claiming"
    /\ \E R \in SUBSET Row :
        /\ OldestBatch(w, R)
        /\ batch' = [batch EXCEPT ![w] = R]
        /\ snap' = [snap EXCEPT ![w] = [r \in Row |-> IF r \in R THEN attempts[r] ELSE 0]]
        /\ pc' = [pc EXCEPT ![w] = IF R = {} THEN "idle" ELSE "marking"]
    /\ UNCHANGED <<rowVars, cur, published, failures, crashes>>

\* UPDATE and COMMIT: the rows turn PROCESSING; next_attempt_at keeps its value.
MarkProcessing(w) ==
    /\ pc[w] = "marking"
    /\ state' = [r \in Row |-> IF r \in batch[w] THEN "PROCESSING" ELSE state[r]]
    /\ pc' = [pc EXCEPT ![w] = "publishing"]
    /\ UNCHANGED <<attempts, due, batch, snap, cur, published, failures, crashes>>

\* Faulty variant: publish resolves to true without waiting for the confirm.
PublishUnconfirmed(w, r) ==
    /\ pc[w] = "publishing" /\ cur[w] = NoRow /\ r \in batch[w]
    /\ \E taken \in BOOLEAN :
        /\ cur' = [cur EXCEPT ![w] = [row |-> r, ok |-> TRUE]]
        /\ published' = IF taken THEN published \union {r} ELSE published
    /\ UNCHANGED <<rowVars, pc, batch, snap, failures, crashes>>

\* rabbit.publish: the broker takes the message or not, and the publisher
\* hears of it or not; a confirm is only sent for a message that was taken.
Publish(w, r) ==
    /\ pc[w] = "publishing" /\ cur[w] = NoRow /\ r \in batch[w]
    /\ \E taken, ok \in BOOLEAN :
        /\ ok => taken
        /\ cur' = [cur EXCEPT ![w] = [row |-> r, ok |-> ok]]
        /\ published' = IF taken THEN published \union {r} ELSE published
        /\ failures' = [failures EXCEPT ![r] =
                           IF ok \/ @ = MaxAttempts THEN @ ELSE @ + 1]
    /\ UNCHANGED <<rowVars, pc, batch, snap, crashes>>

\* Faulty variants: a state the worker never queries, one retry too few,
\* a row that is deleted after its last attempt, an upsert for the UPDATE.
RetryUnknownState(n) == IF n >= MaxAttempts THEN "FAILED" ELSE "PENDING"
RetryOnceLess(n) == IF n + 1 >= MaxAttempts THEN "DEAD" ELSE "PENDING"
RetryThenDelete(r, n) ==
    IF state[r] = "DELETED" THEN UNCHANGED rowVars
    ELSE /\ state' = [state EXCEPT ![r] = IF n >= MaxAttempts THEN "DELETED" ELSE "PENDING"]
         /\ attempts' = [attempts EXCEPT ![r] = n]
         /\ due' = [due EXCEPT ![r] = "future"]
RetryUpsert(r, n) ==
    /\ state' = [state EXCEPT ![r] = IF n >= MaxAttempts THEN "DEAD" ELSE "PENDING"]
    /\ attempts' = [attempts EXCEPT ![r] = n]
    /\ due' = [due EXCEPT ![r] = "future"]

\* The UPDATE after a failed publication.  It counts from the attempts the
\* claim read, names the row by id only, and finds nothing if the row was
\* deleted in the meantime.
RetryState(n) == IF n >= MaxAttempts THEN "DEAD" ELSE "PENDING"

RetryOrGiveUp(r, n) ==
    IF state[r] = "DELETED" THEN UNCHANGED rowVars
    ELSE /\ state' = [state EXCEPT ![r] = RetryState(n)]
         /\ attempts' = [attempts EXCEPT ![r] = n]
         /\ due' = [due EXCEPT ![r] = "future"]

DeleteRow(r) ==
    /\ state' = [state EXCEPT ![r] = "DELETED"]
    /\ attempts' = [attempts EXCEPT ![r] = 0]
    /\ due' = [due EXCEPT ![r] = "due"]

\* The rest of processRow, for the row just published; then the next one.  The
\* statement waits while another replica has the row locked to claim it.
processRow(w) ==
    /\ cur[w] # NoRow /\ cur[w].row \notin LockedByOthers(w)
    /\ LET r == cur[w].row IN
        /\ IF cur[w].ok THEN DeleteRow(r) ELSE RetryOrGiveUp(r, snap[w][r] + 1)
        /\ snap' = [snap EXCEPT ![w][r] = 0]
        /\ batch' = [batch EXCEPT ![w] = @ \ {r}]
        /\ pc' = [pc EXCEPT ![w] = IF batch[w] = {r} THEN "idle" ELSE "publishing"]
    /\ cur' = [cur EXCEPT ![w] = NoRow]
    /\ UNCHANGED <<published, failures, crashes>>

\* The replica crashes, or a query of its tick throws: the batch is forgotten, and
\* a claim that was not committed is rolled back.
Crash(w) ==
    /\ pc[w] # "idle"
    /\ crashes < MaxCrashes
    /\ crashes' = crashes + 1
    /\ pc' = [pc EXCEPT ![w] = "idle"]
    /\ batch' = [batch EXCEPT ![w] = {}]
    /\ cur' = [cur EXCEPT ![w] = NoRow]
    /\ snap' = [snap EXCEPT ![w] = [r \in Row |-> 0]]
    /\ UNCHANGED <<rowVars, published, failures>>

Tick(w) ==
    \/ Recover(w) \/ LockBatch(w) \/ MarkProcessing(w)
    \/ (\E r \in Row : Publish(w, r)) \/ processRow(w)

Next ==
    \/ \E r \in Row : Append(r) \/ Age(r)
    \/ \E w \in Worker : Tick(w) \/ Crash(w)

\* Time passes and a running replica's timer and event loop make progress.
\* Nothing is assumed of the broker: a publication may fail every time.
Fairness ==
    /\ \A r \in Row : WF_vars(Age(r))
    /\ \A w \in Worker : WF_vars(Tick(w))

Spec == Init /\ [][Next]_vars
FairSpec == Spec /\ Fairness

----------------------------------------------------------------------------
(***************************************************************************)
(* Properties.                                                             *)
(***************************************************************************)

\* The table holds the states that appendOutbox and the worker write, and a replica
\* is idle, in its claiming transaction, or publishing rows of the table.
TypeOK ==
    /\ state \in [Row -> States]
    /\ attempts \in [Row -> Nat]
    /\ due \in [Row -> Ages]
    /\ pc \in [Worker -> {"idle", "claiming", "marking", "publishing"}]
    /\ batch \in [Worker -> SUBSET Row]
    /\ snap \in [Worker -> [Row -> Nat]]
    /\ cur \in [Worker -> [row : Row, ok : BOOLEAN] \union {NoRow}]
    /\ published \subseteq Row
    /\ failures \in [Row -> 0..MaxAttempts]
    /\ crashes \in 0..MaxCrashes

\* A row leaves the table only after the broker accepted its event, whichever
\* replicas crashed, overlapped or recovered it on the way.
NoEventLost == \A r \in Row : state[r] = "DELETED" => r \in published

\* A row is given up only after MaxAttempts publications of it really failed,
\* even when two replicas work on it from the same stale attempts count.
DeadOnlyAfterRetries == \A r \in Row : state[r] = "DEAD" => failures[r] = MaxAttempts

(***************************************************************************)
(* The inductive strengthening the proofs use: what a replica remembers    *)
(* from before its last await is still true of the table.                  *)
(***************************************************************************)
Honest(n, r) == n <= failures[r] \/ failures[r] = MaxAttempts

LocksExclude ==
    \A w \in Worker : \A r \in Locked(w) : state[r] = "PENDING" /\ r \notin LockedByOthers(w)

\* A replica deletes only rows the broker has, works only on inserted rows, two
\* claiming transactions never hold the same row, a row one of them holds is
\* still PENDING, and no remembered attempts count exceeds the failures that
\* happened.
MemoryIsSound ==
    /\ \A w \in Worker :
          /\ cur[w] # NoRow => pc[w] = "publishing" /\ state[cur[w].row] # "ABSENT"
          /\ cur[w].ok => cur[w].row \in published
          /\ cur[w] # NoRow /\ ~cur[w].ok => Honest(snap[w][cur[w].row] + 1, cur[w].row)
          /\ \A r \in batch[w] : state[r] # "ABSENT"
          /\ \A r \in Row : Honest(snap[w][r], r)
    /\ \A r \in Row : Honest(attempts[r], r)
    /\ LocksExclude

\* The refinement: the worker implements at-least-once delivery.
CustodyOf(st) == IF st = "ABSENT" THEN "none"
                 ELSE IF st = "DELETED" THEN "discharged"
                 ELSE IF st = "DEAD" THEN "dead" ELSE "stored"
custody == [r \in Row |-> CustodyOf(state[r])]
Abstract == INSTANCE EventDelivery
AtLeastOnce == Abstract!DeliverySpec

\* Every event is eventually accepted by the broker or parked as DEAD, also
\* when the replica that had claimed it crashed.
EventuallySettled ==
    \A r \in Row : state[r] = "PENDING" ~> (r \in published \/ state[r] = "DEAD")
=============================================================================
