--------------------------- MODULE ReservationSaga ---------------------------
(***************************************************************************)
(* The reservation saga: the seat and the payment service, each over its   *)
(* own database, joined by two RabbitMQ queues.  A row committed to either *)
(* outbox is delivered at least once (module OutboxRelay), in no           *)
(* particular order, and a consumer may see it again after it has          *)
(* acknowledged it or while it is retried.  A message that does not parse  *)
(* goes to the dead-letter queue, which nothing reads.                     *)
(*                                                                         *)
(* Clients follow the web application: they check out with a hold that     *)
(* exists and with the seat that hold is on.                               *)
(***************************************************************************)
EXTENDS Naturals, FiniteSets

CONSTANTS Seat, User, HoldId, SweepLimit,   \* see SeatService
          Key, WebhookId, MaxFailures       \* see PaymentService

\* What the two services assume of them.
ASSUME SagaAssumption ==
    /\ IsFiniteSet(HoldId)
    /\ IsFiniteSet(Key)
    /\ SweepLimit \in Nat \ {0}
    /\ MaxFailures \in Nat

VARIABLES
    seats, holds, expired, outbox, consumed, cancelling,       \* SeatService
    intents, checkouts, inbox, tasks, payOutbox, lostTasks,    \* PaymentService
    delivered,  \* payment events the seat service has acknowledged or rejected
    dlq         \* payment events rejected by the seat service

seatVars == <<seats, holds, expired, outbox, consumed, cancelling>>
payVars == <<intents, checkouts, inbox, tasks, payOutbox, lostTasks>>
queueVars == <<delivered, dlq>>
vars == <<seatVars, payVars, queueVars>>

\* An intent is settled once, so its key names the one payment.succeeded event
\* about it: consumed_events.event_id ranges over the keys.
S == INSTANCE SeatService WITH EventId <- Key
P == INSTANCE PaymentService

Init == S!Init /\ P!Init /\ delivered = {} /\ dlq = {}

----------------------------------------------------------------------------
(* Steps of one service alone *)

SeatStep ==
    /\ \/ \E h \in HoldId : S!HoldExpires(h) \/ S!CancelHold(h)
       \/ \E s \in Seat, u \in User : S!FindHoldToCancel(s, u)
       \/ \E s \in Seat, u \in User, h \in HoldId : S!insertHoldTx(s, u, h)
       \/ S!Sweep
    /\ UNCHANGED <<payVars, queueVars>>

\* The client posts the seat and the hold it got from POST /seats/:id/hold.
ClientCheckout(k, h) ==
    /\ holds[h] # S!NoRow
    /\ P!StartCheckout(k, holds[h].seat, h)

PaymentStep ==
    /\ \/ \E k \in Key, h \in HoldId : ClientCheckout(k, h)
       \/ \E c \in checkouts : P!createIntent(c)
       \/ \E i \in WebhookId, type \in P!HookType, k \in Key : P!webhook(i, type, k)
       \/ \E i \in WebhookId : P!reprocess(i)
       \/ \E t \in tasks : P!processEvent(t) \/ P!markWebhookProcessed(t) \/ P!TaskLost(t)
    /\ UNCHANGED <<seatVars, queueVars>>

----------------------------------------------------------------------------
(* Deliveries *)

Acknowledge(m) == delivered' = delivered \union {m} /\ UNCHANGED dlq

\* The contract of every event: traceId is a UUID.
Valid(m) == m.trace = "uuid"

OnInvalid(m) ==
    /\ m \in payOutbox /\ ~Valid(m)
    /\ delivered' = delivered \union {m}
    /\ dlq' = dlq \union {m}
    /\ UNCHANGED <<seatVars, payVars>>

\* Faulty variants: every payment event reserves; the seat is marked RESERVED
\* although its hold is gone; failed payments are acknowledged and ignored.
ReserveOnAnyPayment(m) ==
    /\ m \in payOutbox /\ Valid(m)
    /\ S!reserveHold(m.hold, m.key)
    /\ Acknowledge(m)
    /\ UNCHANGED payVars
ReserveSeatAnyway(m) ==
    /\ m \in payOutbox /\ Valid(m) /\ m.type = "payment.succeeded"
    /\ seats' = [seats EXCEPT ![holds[m.hold].seat] = "RESERVED"]
    /\ Acknowledge(m)
    /\ UNCHANGED <<holds, expired, outbox, consumed, cancelling, payVars>>
IgnoreFailedPayment(m) ==
    /\ m \in payOutbox /\ Valid(m) /\ m.type = "payment.failed"
    /\ Acknowledge(m)
    /\ UNCHANGED <<seatVars, payVars>>

\* PaymentEventsConsumer.  reserveHold and releaseHold change nothing when
\* the hold is no longer HELD or the event id is known; the message is
\* acknowledged all the same.
OnPaymentSucceeded(m) ==
    /\ m \in payOutbox /\ Valid(m) /\ m.type = "payment.succeeded"
    /\ IF S!IsHeld(m.hold) /\ m.key \notin consumed
       THEN S!reserveHold(m.hold, m.key)
       ELSE UNCHANGED seatVars
    /\ Acknowledge(m)
    /\ UNCHANGED payVars

OnPaymentFailed(m) ==
    /\ m \in payOutbox /\ Valid(m) /\ m.type = "payment.failed"
    /\ IF S!IsHeld(m.hold) THEN S!OnPaymentFailed(m.hold) ELSE UNCHANGED seatVars
    /\ Acknowledge(m)
    /\ UNCHANGED payVars

\* SeatEventsConsumer: the message names the seat, not the hold, and nothing
\* remembers that it was consumed before.  With no PENDING intent on the seat
\* the delivery changes nothing.
OnSeatReleased(m) ==
    /\ m \in outbox /\ m.type = "seat.released"
    /\ P!markFailedBySeatId(m.seat)
    /\ UNCHANGED <<seatVars, queueVars>>

----------------------------------------------------------------------------

Next ==
    \/ SeatStep
    \/ PaymentStep
    \/ \E m \in payOutbox : OnInvalid(m) \/ OnPaymentSucceeded(m) \/ OnPaymentFailed(m)
    \/ \E m \in outbox : OnSeatReleased(m)

Spec == Init /\ [][Next]_vars

----------------------------------------------------------------------------
(***************************************************************************)
(* Properties.                                                             *)
(***************************************************************************)

\* Both databases are well typed, and the seat service has seen only events the
\* payment service has committed to its outbox.
TypeOK ==
    /\ S!TypeOK
    /\ P!TypeOK
    /\ delivered \subseteq payOutbox
    /\ dlq \subseteq payOutbox

\* Across the two databases: a hold is RESERVED only if a payment for that very
\* hold is COMPLETED, and each reservation has used up a payment of its own,
\* however the events were duplicated, reordered or delayed.
ReservedOnlyIfPaid ==
    \A h \in HoldId : holds[h].status = "RESERVED" =>
        \E k \in consumed : intents[k].status = "COMPLETED" /\ intents[k].hold = h

\* A payment event the seat service has acknowledged has taken effect for good:
\* its hold is settled, and nothing that arrives later makes it HELD again.
AcknowledgedMeansApplied ==
    \A m \in delivered \ dlq : ~S!IsHeld(m.hold)

\* What each service sees of the other is a behaviour its own specification
\* allows, so what is proved of the services alone holds in the saga.
ServicesImplemented == S!Spec /\ P!Spec

\* What a customer sees, with the two databases read as one: the queues, the
\* outboxes, the inbox and the tasks leave no trace in it.
Contract == INSTANCE BookingContract WITH
    stage <- [h \in HoldId |-> holds[h].status],
    payment <- [k \in Key |-> IF intents[k] = P!NoIntent
                               THEN [status |-> "NONE"]
                               ELSE [status |-> intents[k].status, hold |-> intents[k].hold]],
    spent <- consumed

\* The saga keeps the customers' contract: although each database knows of the
\* other only by messages, no hold, payment or reservation ever makes a step
\* that a single party seeing both would not have allowed.
ContractKept == Contract!ContractSpec

\* "Successfully reserve the seat upon payment completion": the hold of a
\* completed payment is not RELEASED (from where it can no longer be reserved).
PaidHoldsNotReleased ==
    \A k \in Key : intents[k].status = "COMPLETED" =>
        holds[intents[k].hold].status # "RELEASED"

\* "cancel any pending payment intent for that hold": consuming seat.released
\* of a hold cancels no intent of another hold.
CancelsOnlyThatHold ==
    [][\A m \in outbox : OnSeatReleased(m) =>
          \A k \in Key : intents'[k] # intents[k] => intents[k].hold = m.hold]_vars

\* "makes the ack-fast pattern durable": no successful payment ends in the
\* dead-letter queue.
NoPaymentDeadLettered == \A m \in dlq : m.type # "payment.succeeded"
=============================================================================
