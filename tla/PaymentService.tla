--------------------------- MODULE PaymentService ---------------------------
(***************************************************************************)
(* The payment service over its database (payment_db): payment_intents,    *)
(* webhook_inbox and outbox; the checkout request, the PSP's webhooks, the *)
(* background processing of an acknowledged webhook, the reprocessor that  *)
(* picks up what a crash left behind, and the consumer of seat.released.   *)
(*                                                                         *)
(* Each database transaction is one action.  What interleaves are the      *)
(* steps of a checkout (look the key up, call the PSP, insert) and those   *)
(* of a webhook (acknowledge, apply, mark processed), which a crash may    *)
(* cut anywhere.  The PSP derives its intent id from the idempotency key,  *)
(* so a key names the row, the PSP intent and, since an intent leaves      *)
(* PENDING at most once, the events about it.                              *)
(***************************************************************************)
EXTENDS Naturals, FiniteSets

CONSTANTS
    Seat,        \* seats with a row in seat_prices
    HoldId,      \* hold ids a client may send
    Key,         \* idempotency keys
    WebhookId,   \* stripe_event_id values
    MaxFailures  \* bound of the model: webhook tasks lost to a crash or error

ASSUME PaymentServiceAssumption == MaxFailures \in Nat

VARIABLES
    intents,     \* payment_intents by idempotency key (NoIntent if absent)
    checkouts,   \* checkout requests between the PSP call and their INSERT
    inbox,       \* webhook_inbox by stripe_event_id (NoHook if absent)
    tasks,       \* running processEvent / reprocess calls
    payOutbox,   \* every row ever appended to payment_db.outbox
    lostTasks    \* number of tasks lost so far

vars == <<intents, checkouts, inbox, tasks, payOutbox, lostTasks>>

NoIntent == [status |-> "NONE"]
Intent == [status : {"PENDING", "COMPLETED", "FAILED"}, seat : Seat, hold : HoldId]
Checkout == [key : Key, seat : Seat, hold : HoldId]

NoHook == [type |-> "none"]
HookType == {"succeeded", "payment_failed", "other"}
Hook == [type : HookType, key : Key, processed : BOOLEAN]

\* A task applies the event (step "apply"), then marks the inbox row ("mark").
\* A task of the reprocessor tags its events with a trace id of its own.
Task == [id : WebhookId, trace : {"uuid", "reprocess-uuid"}, step : {"apply", "mark"}]

\* nth stands for the row's own id: it tells a second event about an intent from
\* the first one.
PayEvent == [type : {"payment.succeeded", "payment.failed"}, key : Key, nth : {"first", "again"},
             hold : HoldId, trace : {"uuid", "reprocess-uuid"}]

Init ==
    /\ intents = [k \in Key |-> NoIntent]
    /\ checkouts = {}
    /\ inbox = [i \in WebhookId |-> NoHook]
    /\ tasks = {}
    /\ payOutbox = {}
    /\ lostTasks = 0

IsPending(k) == intents[k].status = "PENDING"
Nth(k) == IF \E m \in payOutbox : m.key = k THEN "again" ELSE "first"

\* Faulty variant: the payload carries the seat where the hold belongs.
AnnounceSeatAsHold(k, type, trace) ==
    payOutbox' = payOutbox \union
        {[type |-> type, key |-> k, nth |-> Nth(k), hold |-> intents[k].seat, trace |-> trace]}

\* appendOutbox, for the row the UPDATE returned.
Announce(k, type, trace) ==
    payOutbox' = payOutbox \union
        {[type |-> type, key |-> k, nth |-> Nth(k), hold |-> intents[k].hold, trace |-> trace]}

----------------------------------------------------------------------------
(* POST /payment/checkout *)

\* The key is unknown, the seat has a price and the PSP created (or, for a
\* retried key, returned) its intent.  Whether the hold exists, is active, or
\* is on that seat is not asked.  A PSP error, a timeout and an open circuit
\* end the request without a write.
StartCheckout(k, s, h) ==
    /\ intents[k] = NoIntent
    /\ checkouts' = checkouts \union {[key |-> k, seat |-> s, hold |-> h]}
    /\ checkouts' # checkouts
    /\ UNCHANGED <<intents, inbox, tasks, payOutbox, lostTasks>>

\* Faulty variant: an upsert (ON CONFLICT DO UPDATE) for the INSERT.
UpsertIntent(c) ==
    /\ c \in checkouts
    /\ checkouts' = checkouts \ {c}
    /\ intents' = [intents EXCEPT ![c.key] =
                      [status |-> "PENDING", seat |-> c.seat, hold |-> c.hold]]
    /\ UNCHANGED <<inbox, tasks, payOutbox, lostTasks>>

\* The INSERT.  A concurrent request with the same key may have been faster:
\* the unique violation is answered with the existing row.
createIntent(c) ==
    /\ c \in checkouts
    /\ checkouts' = checkouts \ {c}
    /\ intents' = IF intents[c.key] = NoIntent
                  THEN [intents EXCEPT ![c.key] =
                           [status |-> "PENDING", seat |-> c.seat, hold |-> c.hold]]
                  ELSE intents
    /\ UNCHANGED <<inbox, tasks, payOutbox, lostTasks>>

----------------------------------------------------------------------------
(* Webhooks *)

\* Faulty variant: the inbox row counts as processed once it is acknowledged.
AcknowledgedIsProcessed(i, type, k) ==
    /\ intents[k] # NoIntent
    /\ inbox[i] = NoHook
    /\ inbox' = [inbox EXCEPT ![i] = [type |-> type, key |-> k, processed |-> TRUE]]
    /\ tasks' = tasks \union {[id |-> i, trace |-> "uuid", step |-> "apply"]}
    /\ UNCHANGED <<intents, checkouts, payOutbox, lostTasks>>

\* POST /payment/webhook: the event is verified, stored once and acknowledged;
\* its processing is left to setImmediate.  A known id is acknowledged and
\* dropped.  The PSP reports on an intent whose client secret was handed out.
webhook(i, type, k) ==
    /\ intents[k] # NoIntent
    /\ inbox[i] = NoHook
    /\ inbox' = [inbox EXCEPT ![i] = [type |-> type, key |-> k, processed |-> FALSE]]
    /\ tasks' = tasks \union {[id |-> i, trace |-> "uuid", step |-> "apply"]}
    /\ UNCHANGED <<intents, checkouts, payOutbox, lostTasks>>

\* Faulty variant: only successful payments are picked up again.
ReprocessSucceededOnly(i) ==
    /\ inbox[i].type = "succeeded"
    /\ ~inbox[i].processed
    /\ tasks' = tasks \union {[id |-> i, trace |-> "reprocess-uuid", step |-> "apply"]}
    /\ tasks' # tasks
    /\ UNCHANGED <<intents, checkouts, inbox, payOutbox, lostTasks>>

\* One row of a WebhookReprocessor tick: any inbox row not marked processed,
\* also one whose setImmediate task is still running.  ORDER BY received_at LIMIT 50
\* is left out: a tick takes any of the rows.
reprocess(i) ==
    /\ inbox[i] # NoHook
    /\ ~inbox[i].processed
    /\ tasks' = tasks \union {[id |-> i, trace |-> "reprocess-uuid", step |-> "apply"]}
    /\ tasks' # tasks
    /\ UNCHANGED <<intents, checkouts, inbox, payOutbox, lostTasks>>

\* markCompleted and markFailed: an intent that is no longer PENDING is left
\* alone; the outbox row commits with the status.
markCompleted(k, trace) ==
    IF IsPending(k)
    THEN /\ intents' = [intents EXCEPT ![k].status = "COMPLETED"]
         /\ Announce(k, "payment.succeeded", trace)
    ELSE UNCHANGED <<intents, payOutbox>>

\* Faulty variant: the UPDATE lacks AND status = 'PENDING'.
FailAnyIntent(k, trace) ==
    /\ intents' = [intents EXCEPT ![k].status = "FAILED"]
    /\ Announce(k, "payment.failed", trace)

markFailed(k, trace) ==
    IF IsPending(k)
    THEN /\ intents' = [intents EXCEPT ![k].status = "FAILED"]
         /\ Announce(k, "payment.failed", trace)
    ELSE UNCHANGED <<intents, payOutbox>>

NextTaskStep(t) == (tasks \ {t}) \union {[t EXCEPT !.step = "mark"]}

\* Faulty variant: every type but payment_failed counts as a success.
ProcessElseSucceeded(t) ==
    /\ t \in tasks /\ t.step = "apply"
    /\ IF inbox[t.id].type = "payment_failed"
       THEN markFailed(inbox[t.id].key, t.trace)
       ELSE markCompleted(inbox[t.id].key, t.trace)
    /\ tasks' = NextTaskStep(t)
    /\ UNCHANGED <<checkouts, inbox, lostTasks>>

\* processEvent and reprocess, up to their await of markWebhookProcessed.
processEvent(t) ==
    /\ t \in tasks /\ t.step = "apply"
    /\ LET hook == inbox[t.id] IN
          CASE hook.type = "succeeded" -> markCompleted(hook.key, t.trace)
            [] hook.type = "payment_failed" -> markFailed(hook.key, t.trace)
            [] hook.type = "other" -> UNCHANGED <<intents, payOutbox>>
    /\ tasks' = NextTaskStep(t)
    /\ UNCHANGED <<checkouts, inbox, lostTasks>>

markWebhookProcessed(t) ==
    /\ t \in tasks /\ t.step = "mark"
    /\ inbox' = [inbox EXCEPT ![t.id].processed = TRUE]
    /\ tasks' = tasks \ {t}
    /\ UNCHANGED <<intents, checkouts, payOutbox, lostTasks>>

\* A crash, or a query that throws: the task is gone, the inbox row remains.
TaskLost(t) ==
    /\ t \in tasks
    /\ lostTasks < MaxFailures
    /\ tasks' = tasks \ {t}
    /\ lostTasks' = lostTasks + 1
    /\ UNCHANGED <<intents, checkouts, inbox, payOutbox>>

----------------------------------------------------------------------------
(* seat.released *)

\* SeatEventsConsumer: every PENDING intent of the seat fails, whatever its
\* hold; payment.failed is appended for the first row the UPDATE returned.
PendingOn(s) == {k \in Key : IsPending(k) /\ intents[k].seat = s}

markFailedBySeatId(s) ==
    \E first \in PendingOn(s) :
        /\ intents' = [k \in Key |-> IF k \in PendingOn(s)
                                     THEN [intents[k] EXCEPT !.status = "FAILED"]
                                     ELSE intents[k]]
        /\ Announce(first, "payment.failed", "uuid")
        /\ UNCHANGED <<checkouts, inbox, tasks, lostTasks>>

----------------------------------------------------------------------------

Next ==
    \/ \E k \in Key, s \in Seat, h \in HoldId : StartCheckout(k, s, h)
    \/ \E c \in checkouts : createIntent(c)
    \/ \E i \in WebhookId, type \in HookType, k \in Key : webhook(i, type, k)
    \/ \E i \in WebhookId : reprocess(i)
    \/ \E t \in tasks : processEvent(t) \/ markWebhookProcessed(t) \/ TaskLost(t)
    \/ \E s \in Seat : markFailedBySeatId(s)

\* The reprocessor's timer keeps firing and a task that is not lost goes on.
Fairness ==
    /\ \A i \in WebhookId : WF_vars(reprocess(i))
    /\ \A t \in Task : WF_vars(processEvent(t)) /\ WF_vars(markWebhookProcessed(t))

Spec == Init /\ [][Next]_vars
FairSpec == Spec /\ Fairness

----------------------------------------------------------------------------
(***************************************************************************)
(* Properties.                                                             *)
(***************************************************************************)

\* The status and type columns (plain text) hold the values the code writes, and
\* the in-memory tasks and requests are about known keys, seats and webhooks.
TypeOK ==
    /\ intents \in [Key -> Intent \union {NoIntent}]
    /\ checkouts \subseteq Checkout
    /\ inbox \in [WebhookId -> Hook \union {NoHook}]
    /\ tasks \subseteq Task
    /\ payOutbox \subseteq PayEvent
    /\ lostTasks \in 0..MaxFailures

\* What the service announces about an intent is final and true: there is one
\* event at most about a key, payment.succeeded exactly for the COMPLETED
\* intents, payment.failed only for FAILED ones, each with the intent's hold.
EventsMatchIntents ==
    /\ \A m \in payOutbox :
          /\ intents[m.key].status =
                IF m.type = "payment.succeeded" THEN "COMPLETED" ELSE "FAILED"
          /\ intents[m.key].hold = m.hold
    /\ \A m, n \in payOutbox : m.key = n.key => m = n
    /\ \A k \in Key : intents[k].status = "COMPLETED" => \E m \in payOutbox : m.key = k

\* An inbox row is marked processed only when the PSP's report has taken
\* effect: its intent is settled, whichever task, crash or retry did it.
Settled(k) == intents[k].status \in {"COMPLETED", "FAILED"}
ProcessedMeansSettled ==
    \A i \in WebhookId :
        /\ inbox[i] # NoHook
        /\ inbox[i].processed
        /\ inbox[i].type # "other"
        => Settled(inbox[i].key)

\* An intent completes only on the PSP's word: some stored webhook says so.
CompletedOnlyIfPaid ==
    \A k \in Key : intents[k].status = "COMPLETED" =>
        \E i \in WebhookId : inbox[i].type = "succeeded" /\ inbox[i].key = k

\* Settled intents never change: neither a duplicate or contradicting webhook,
\* nor the reprocessor, nor a seat.released, nor a repeated checkout reopens
\* or rewrites one.
SettledIntentsNeverChange ==
    [][\A k \in Key : Settled(k) => intents'[k] = intents[k]]_vars

\* Every acknowledged webhook is eventually processed, although it lives only
\* in memory when it is acknowledged and tasks may be lost.
WebhooksEventuallyProcessed ==
    \A i \in WebhookId : inbox[i] # NoHook ~> (inbox[i] # NoHook /\ inbox[i].processed)
=============================================================================
