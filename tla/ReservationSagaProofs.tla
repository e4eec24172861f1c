----------------------- MODULE ReservationSagaProofs -----------------------
(***************************************************************************)
(* Proofs about the saga, for any sets of seats, users, holds, keys and    *)
(* webhooks.                                                               *)
(*                                                                         *)
(* A reservation goes back to an event, the event to a COMPLETED intent of *)
(* the same hold (EventsBacked), and none of these is ever taken back.  An *)
(* acknowledged event is settled because its hold existed before the event *)
(* did (HoldsKnown) and because a key that is used up has reserved its     *)
(* hold (ConsumedReserved).                                                *)
(***************************************************************************)
EXTENDS ReservationSaga, TLAPS

\* A task works on a stored webhook.
TasksBacked == \A t \in tasks : inbox[t.id] # P!NoHook

\* An event tells of an existing intent, of its hold and, if it says so, of its
\* success.
EventsBacked ==
    \A m \in payOutbox :
        /\ intents[m.key] # P!NoIntent
        /\ intents[m.key].hold = m.hold
        /\ m.type = "payment.succeeded" => intents[m.key].status = "COMPLETED"

\* Whatever names a hold names one that has a row.
HoldsKnown ==
    /\ \A c \in checkouts : holds[c.hold] # S!NoRow
    /\ \A k \in Key : intents[k] # P!NoIntent => holds[intents[k].hold] # S!NoRow

ConsumedReserved ==
    \A k \in consumed :
        /\ intents[k].status = "COMPLETED"
        /\ holds[intents[k].hold].status = "RESERVED"

SagaInv ==
    /\ TypeOK /\ TasksBacked /\ EventsBacked /\ HoldsKnown /\ ConsumedReserved
    /\ ReservedOnlyIfPaid /\ AcknowledgedMeansApplied

----------------------------------------------------------------------------
(* Rows *)

\* Absent rows have a status and a type of their own.
LEMMA AbsentRows ==
    S!NoRow.status = "NONE" /\ P!NoIntent.status = "NONE" /\ P!NoHook.type = "none"
  BY DEF S!NoRow, P!NoIntent, P!NoHook

\* What a present hold looks like.
LEMMA HoldType ==
    ASSUME S!TypeOK, NEW h \in HoldId, holds[h] # S!NoRow
    PROVE  /\ holds[h] \in S!HoldRow
           /\ holds[h].seat \in Seat /\ holds[h].user \in User
           /\ holds[h].status \in {"HELD", "RESERVED", "RELEASED"}
  BY DEF S!TypeOK, S!HoldRow

\* What a present intent looks like.
LEMMA IntentType ==
    ASSUME P!TypeOK, NEW k \in Key, intents[k] # P!NoIntent
    PROVE  /\ intents[k] \in P!Intent
           /\ intents[k].seat \in Seat /\ intents[k].hold \in HoldId
           /\ intents[k].status \in {"PENDING", "COMPLETED", "FAILED"}
  BY DEF P!TypeOK, P!Intent

\* What a stored webhook looks like.
LEMMA HookTypes ==
    ASSUME P!TypeOK, NEW i \in WebhookId, inbox[i] # P!NoHook
    PROVE  inbox[i] \in P!Hook /\ inbox[i].key \in Key /\ inbox[i].type \in P!HookType
  BY DEF P!TypeOK, P!Hook

----------------------------------------------------------------------------
(***************************************************************************)
(* The seat service: what its steps do to holds and consumed.              *)
(***************************************************************************)

\* The types and the effect of a step that reserves nothing.
SeatChange ==
    /\ S!TypeOK'
    /\ consumed' = consumed
    /\ \A h \in HoldId : holds[h] # S!NoRow /\ holds[h].status # "HELD" => holds'[h] = holds[h]
    /\ \A h \in HoldId : holds[h] # S!NoRow => holds'[h] # S!NoRow
    /\ \A h \in HoldId : holds'[h].status = "RESERVED" => holds[h].status = "RESERVED"

\* A release, whoever asks for it, turns HELD rows into RELEASED ones.
LEMMA ReleaseChanges ==
    ASSUME S!TypeOK, NEW Rel \in SUBSET HoldId, \A h \in Rel : S!IsHeld(h),
           S!ReleaseRows(Rel), cancelling' \subseteq HoldId
    PROVE  SeatChange
  <1>1. \A h \in Rel : holds[h] \in S!HoldRow /\ holds[h].seat \in Seat /\ holds[h].status = "HELD"
    BY HoldType, AbsentRows DEF S!IsHeld
  <1>2. \A h \in Rel : /\ [holds[h] EXCEPT !.status = "RELEASED"] \in S!HoldRow
                       /\ [holds[h] EXCEPT !.status = "RELEASED"].status = "RELEASED"
    BY <1>1 DEF S!HoldRow
  <1>3. \A h \in HoldId : holds'[h] = IF h \in Rel THEN [holds[h] EXCEPT !.status = "RELEASED"]
                                                   ELSE holds[h]
    BY DEF S!ReleaseRows
  <1>4. holds' \in [HoldId -> S!HoldRow \union {S!NoRow}]
    BY <1>2 DEF S!ReleaseRows, S!TypeOK
  <1>5. seats' \in [Seat -> S!SeatStatus]
    BY DEF S!ReleaseRows, S!TypeOK, S!SeatStatus
  <1>6. \A h \in Rel : S!Released(h) \in S!OutboxRow
    BY <1>1 DEF S!Released, S!OutboxRow
  <1>7. S!TypeOK'
    BY <1>4, <1>5, <1>6 DEF S!ReleaseRows, S!TypeOK
  <1> QED BY <1>1, <1>2, <1>3, <1>7, AbsentRows DEF SeatChange, S!ReleaseRows

\* insertHoldTx adds a row and releases expired ones of the same seat.
LEMMA InsertChanges ==
    ASSUME S!TypeOK, NEW s \in Seat, NEW u \in User, NEW h \in HoldId, S!insertHoldTx(s, u, h)
    PROVE  SeatChange
  <1> DEFINE C == S!LazilyCleaned(s)
             row == [status |-> "HELD", seat |-> s, user |-> u]
  <1>1. \A g \in C : /\ g \in HoldId /\ holds[g].status = "HELD"
                     /\ [holds[g] EXCEPT !.status = "RELEASED"] \in S!HoldRow
                     /\ [holds[g] EXCEPT !.status = "RELEASED"].status = "RELEASED"
    BY HoldType, AbsentRows DEF S!LazilyCleaned, S!HeldOn, S!IsHeld, S!HoldRow
  <1>2. row \in S!HoldRow /\ row.status = "HELD" /\ holds[h] = S!NoRow
    BY DEF S!HoldRow, S!insertHoldTx
  <1>3. holds' = [g \in HoldId |-> IF g = h THEN row
                                   ELSE IF g \in C THEN [holds[g] EXCEPT !.status = "RELEASED"]
                                   ELSE holds[g]]
    BY DEF S!insertHoldTx
  <1> HIDE DEF C, row
  <1>4. holds' \in [HoldId -> S!HoldRow \union {S!NoRow}]
    BY <1>1, <1>2, <1>3 DEF S!TypeOK
  <1>5. holds'[h] = row /\ row.seat = s
    BY <1>3 DEF row
  <1>6. S!Held(h) \in S!OutboxRow
    BY <1>5 DEF S!Held, S!OutboxRow
  <1>7. seats' \in [Seat -> S!SeatStatus]
    BY DEF S!insertHoldTx, S!TypeOK, S!SeatStatus
  <1>8. S!TypeOK'
    BY <1>4, <1>6, <1>7 DEF S!insertHoldTx, S!TypeOK
  <1>9. consumed' = consumed BY DEF S!insertHoldTx
  <1> QED BY <1>1, <1>2, <1>3, <1>8, <1>9, AbsentRows DEF SeatChange

\* A step of the seat service alone reserves nothing (SeatsController, the
\* sweeper and the clock).
LEMMA SeatStepChanges ==
    ASSUME S!TypeOK, SeatStep
    PROVE  SeatChange
  <1>1. ASSUME NEW h \in HoldId, S!releaseHold(h), cancelling' \subseteq HoldId PROVE SeatChange
    BY <1>1, ReleaseChanges, {h} \in SUBSET HoldId DEF S!releaseHold
  <1>2. ASSUME UNCHANGED <<seats, holds, outbox, consumed>>, expired' \subseteq HoldId,
               cancelling' \subseteq HoldId
        PROVE  SeatChange
    BY <1>2 DEF SeatChange, S!TypeOK
  <1>3. ASSUME NEW h \in HoldId, S!HoldExpires(h) PROVE SeatChange
    BY <1>2, <1>3 DEF S!HoldExpires, S!TypeOK
  <1>4. ASSUME NEW h \in HoldId, S!CancelHold(h) PROVE SeatChange
    <2>1. cancelling' \subseteq HoldId BY <1>4 DEF S!CancelHold, S!TypeOK
    <2>2. expired \subseteq HoldId BY DEF S!TypeOK
    <2> QED BY <1>1, <1>2, <1>4, <2>1, <2>2 DEF S!CancelHold
  <1>5. ASSUME NEW s \in Seat, NEW u \in User, S!FindHoldToCancel(s, u) PROVE SeatChange
    BY <1>2, <1>5 DEF S!FindHoldToCancel, S!TypeOK, S!HeldOn
  <1>6. CASE S!Sweep
    <2>1. PICK Rel \in SUBSET {h \in expired : S!IsHeld(h)} :
             S!ReleaseRows(Rel) /\ UNCHANGED cancelling
      BY <1>6 DEF S!Sweep
    <2>2. Rel \in SUBSET HoldId /\ (\A h \in Rel : S!IsHeld(h)) /\ cancelling' \subseteq HoldId
      BY <2>1 DEF S!TypeOK
    <2> QED BY <2>1, <2>2, ReleaseChanges
  <1> QED BY <1>3, <1>4, <1>5, <1>6, InsertChanges DEF SeatStep

\* reserveHold writes one HELD row and one event id.
LEMMA ReserveChanges ==
    ASSUME S!TypeOK, NEW h \in HoldId, NEW k \in Key, S!reserveHold(h, k)
    PROVE  /\ S!TypeOK'
           /\ consumed' = consumed \union {k} /\ k \notin consumed
           /\ holds[h].status = "HELD" /\ holds'[h].status = "RESERVED"
           /\ \A g \in HoldId \ {h} : holds'[g] = holds[g]
  <1>1. holds[h] \in S!HoldRow /\ holds[h].seat \in Seat /\ holds[h].status = "HELD"
    BY HoldType, AbsentRows DEF S!reserveHold, S!IsHeld
  <1>2. holds' = [holds EXCEPT ![h].status = "RESERVED"]
    BY DEF S!reserveHold
  <1>3. [holds[h] EXCEPT !.status = "RESERVED"] \in S!HoldRow
    BY <1>1 DEF S!HoldRow
  <1>4. holds' \in [HoldId -> S!HoldRow \union {S!NoRow}]
    BY <1>2, <1>3 DEF S!TypeOK
  <1>5. holds'[h].status = "RESERVED" /\ \A g \in HoldId \ {h} : holds'[g] = holds[g]
    BY <1>1, <1>2 DEF S!TypeOK, S!HoldRow
  <1>6. seats' \in [Seat -> S!SeatStatus]
    BY DEF S!reserveHold, S!TypeOK, S!SeatStatus
  <1>7. S!Reserved(h) \in S!OutboxRow
    BY <1>1 DEF S!Reserved, S!OutboxRow
  <1>8. S!TypeOK'
    BY <1>4, <1>6, <1>7 DEF S!reserveHold, S!TypeOK
  <1> QED BY <1>1, <1>5, <1>8 DEF S!reserveHold

----------------------------------------------------------------------------
(***************************************************************************)
(* The payment service: what its steps do to intents and payOutbox.        *)
(***************************************************************************)

PayRest == <<intents, payOutbox>>

\* The intents of the keys in F leave PENDING with status st and m tells of one
\* of them, the only one if it is completed.
Settles(F, st, m) ==
    /\ F # {} /\ m \in P!PayEvent /\ m.key \in F /\ m.hold = intents[m.key].hold
    /\ m.type = "payment.succeeded" => st = "COMPLETED"
    /\ st = "COMPLETED" => F = {m.key}
    /\ \A k \in F : intents[k].status = "PENDING"
    /\ intents' = [k \in Key |-> IF k \in F THEN [intents[k] EXCEPT !.status = st]
                                            ELSE intents[k]]
    /\ payOutbox' = payOutbox \union {m}

\* Each step writes the two tables in one of three ways.
IntentChange ==
    \/ UNCHANGED PayRest
    \/ /\ payOutbox' = payOutbox
       /\ \E c \in checkouts :
             /\ intents[c.key] = P!NoIntent
             /\ intents' = [intents EXCEPT ![c.key] =
                               [status |-> "PENDING", seat |-> c.seat, hold |-> c.hold]]
    \/ \E F \in SUBSET Key, st \in {"COMPLETED", "FAILED"}, m \in P!PayEvent : Settles(F, st, m)

\* markCompleted and markFailed settle one PENDING intent or do nothing.
LEMMA MarkSettles ==
    ASSUME P!TypeOK, NEW k \in Key, NEW tr \in {"uuid", "reprocess-uuid"},
           P!markCompleted(k, tr) \/ P!markFailed(k, tr)
    PROVE  IntentChange
  <1>1. CASE ~P!IsPending(k)
    BY <1>1 DEF P!markCompleted, P!markFailed, IntentChange, PayRest
  <1>2. CASE P!IsPending(k)
    <2>1. intents[k].hold \in HoldId BY <1>2, IntentType, AbsentRows DEF P!IsPending
    <2>2. PICK st \in {"COMPLETED", "FAILED"}, type \in {"payment.succeeded", "payment.failed"} :
             /\ type = "payment.succeeded" => st = "COMPLETED"
             /\ intents' = [intents EXCEPT ![k].status = st]
             /\ payOutbox' = payOutbox \union
                    {[type |-> type, key |-> k, nth |-> P!Nth(k), hold |-> intents[k].hold, trace |-> tr]}
      BY <1>2 DEF P!markCompleted, P!markFailed, P!Announce
    <2> DEFINE m == [type |-> type, key |-> k, nth |-> P!Nth(k), hold |-> intents[k].hold, trace |-> tr]
    <2>3. m \in P!PayEvent BY <2>1 DEF P!PayEvent, P!Nth
    <2>4. intents' = [j \in Key |-> IF j \in {k} THEN [intents[j] EXCEPT !.status = st]
                                               ELSE intents[j]]
      BY <2>2 DEF P!TypeOK
    <2>5. Settles({k}, st, m) BY <1>2, <2>2, <2>3, <2>4 DEF Settles, P!IsPending
    <2> QED BY <2>3, <2>5 DEF IntentChange
  <1> QED BY <1>1, <1>2

\* markFailedBySeatId settles every PENDING intent of the seat and tells of one.
LEMMA SeatReleasedSettles ==
    ASSUME P!TypeOK, NEW s, P!markFailedBySeatId(s)
    PROVE  IntentChange
  <1>1. PICK f \in P!PendingOn(s) :
          /\ intents' = [k \in Key |-> IF k \in P!PendingOn(s)
                                       THEN [intents[k] EXCEPT !.status = "FAILED"]
                                       ELSE intents[k]]
          /\ P!Announce(f, "payment.failed", "uuid")
    BY DEF P!markFailedBySeatId
  <1> DEFINE m == [type |-> "payment.failed", key |-> f,
                   nth |-> P!Nth(f), hold |-> intents[f].hold, trace |-> "uuid"]
  <1>2. /\ f \in Key /\ intents[f].status = "PENDING"
        /\ \A k \in P!PendingOn(s) : intents[k].status = "PENDING"
    BY DEF P!PendingOn, P!IsPending
  <1>3. m \in P!PayEvent BY <1>2, IntentType, AbsentRows DEF P!PayEvent, P!Nth
  <1>4. Settles(P!PendingOn(s), "FAILED", m)
    BY <1>1, <1>2, <1>3 DEF Settles, P!Announce
  <1>5. P!PendingOn(s) \in SUBSET Key BY DEF P!PendingOn
  <1> QED BY <1>3, <1>4, <1>5 DEF IntentChange

\* What the payment service does on its own, including the client's checkout.
LEMMA PaymentStepChanges ==
    ASSUME P!TypeOK, TasksBacked, PaymentStep
    PROVE  IntentChange
  <1>1. ASSUME NEW c \in checkouts, P!createIntent(c) PROVE IntentChange
    BY <1>1 DEF P!createIntent, IntentChange, PayRest
  <1>2. ASSUME NEW t \in tasks, P!processEvent(t) PROVE IntentChange
    <2>1. t.id \in WebhookId /\ t.trace \in {"uuid", "reprocess-uuid"}
      BY DEF P!TypeOK, P!Task
    <2>2. inbox[t.id].key \in Key /\ inbox[t.id].type \in P!HookType
      BY <2>1, HookTypes DEF TasksBacked
    <2>3. CASE inbox[t.id].type = "succeeded"
      BY <1>2, <2>1, <2>2, <2>3, MarkSettles DEF P!processEvent
    <2>4. CASE inbox[t.id].type = "payment_failed"
      BY <1>2, <2>1, <2>2, <2>4, MarkSettles DEF P!processEvent
    <2>5. CASE inbox[t.id].type = "other"
      BY <1>2, <2>5 DEF P!processEvent, IntentChange, PayRest
    <2> QED BY <2>2, <2>3, <2>4, <2>5 DEF P!HookType
  <1> QED BY <1>1, <1>2 DEF PaymentStep, ClientCheckout, P!StartCheckout, P!webhook, P!reprocess,
                            P!markWebhookProcessed, P!TaskLost, IntentChange, PayRest

\* Whichever way it was, intents keep their types, holds and final statuses, and
\* a new event is about an intent that has just been settled.
IntentsKept ==
    /\ intents' \in [Key -> P!Intent \union {P!NoIntent}]
    /\ payOutbox' \subseteq P!PayEvent
    /\ \A k \in Key : intents[k] # P!NoIntent =>
          intents'[k] # P!NoIntent /\ intents'[k].hold = intents[k].hold
    /\ \A k \in Key : intents[k].status = "COMPLETED" => intents'[k] = intents[k]
    /\ \A k \in Key : intents'[k] # P!NoIntent =>
          \/ intents[k] # P!NoIntent
          \/ \E c \in checkouts : intents'[k].hold = c.hold
    /\ payOutbox \subseteq payOutbox'
    /\ \A m \in payOutbox' \ payOutbox :
          /\ m.key \in Key /\ intents'[m.key] # P!NoIntent /\ intents'[m.key].hold = m.hold
          /\ m.type = "payment.succeeded" => intents'[m.key].status = "COMPLETED"

\* Each of the three kinds of change keeps them.
LEMMA IntentEffect ==
    ASSUME P!TypeOK, IntentChange
    PROVE  IntentsKept
  <1>1. CASE UNCHANGED PayRest
    BY <1>1 DEF PayRest, P!TypeOK, IntentsKept
  <1>2. ASSUME NEW c \in checkouts, payOutbox' = payOutbox, intents[c.key] = P!NoIntent,
               intents' = [intents EXCEPT ![c.key] =
                             [status |-> "PENDING", seat |-> c.seat, hold |-> c.hold]]
        PROVE  IntentsKept
    <2>1. c.key \in Key /\ c.seat \in Seat /\ c.hold \in HoldId BY DEF P!TypeOK, P!Checkout
    <2>2. [status |-> "PENDING", seat |-> c.seat, hold |-> c.hold] \in P!Intent
      BY <2>1 DEF P!Intent
    <2>3. /\ intents' \in [Key -> P!Intent \union {P!NoIntent}]
          /\ \A k \in Key \ {c.key} : intents'[k] = intents[k]
          /\ intents'[c.key].hold = c.hold
      BY <1>2, <2>1, <2>2 DEF P!TypeOK
    <2> QED BY <1>2, <2>1, <2>3, AbsentRows DEF P!TypeOK, IntentsKept
  <1>3. ASSUME NEW F \in SUBSET Key, NEW st \in {"COMPLETED", "FAILED"}, NEW m \in P!PayEvent,
               Settles(F, st, m)
        PROVE  IntentsKept
    <2>1. \A k \in F : /\ intents[k].status = "PENDING" /\ intents[k] # P!NoIntent
                       /\ intents[k] \in P!Intent
      BY <1>3, IntentType, AbsentRows DEF Settles
    <2>2. \A k \in F : intents'[k] = [intents[k] EXCEPT !.status = st]
      BY <1>3 DEF Settles
    <2>3. \A k \in F : /\ intents'[k] \in P!Intent
                       /\ intents'[k].hold = intents[k].hold /\ intents'[k].status = st
      BY <2>1, <2>2 DEF P!Intent
    <2>4. \A k \in Key \ F : intents'[k] = intents[k]
      BY <1>3 DEF Settles
    <2>5. intents' \in [Key -> P!Intent \union {P!NoIntent}]
      BY <1>3, <2>1, <2>2, <2>3 DEF Settles, P!TypeOK
    <2>6. /\ m.key \in F /\ m.hold = intents[m.key].hold /\ payOutbox' = payOutbox \union {m}
          /\ m.type = "payment.succeeded" => st = "COMPLETED"
      BY <1>3 DEF Settles
    <2>7. payOutbox \subseteq P!PayEvent BY DEF P!TypeOK
    <2>8. \A k \in F : intents'[k] # P!NoIntent BY <2>3, AbsentRows
    <2>9. \A k \in Key : \/ k \in F /\ intents[k].status # "COMPLETED"
                         \/ intents'[k] = intents[k]
      BY <2>1, <2>4
    <2> QED BY <2>1, <2>3, <2>5, <2>6, <2>7, <2>8, <2>9 DEF IntentsKept
  <1> QED BY <1>1, <1>2, <1>3 DEF IntentChange

\* The other tables of the payment service, and where its checkouts come from.
RestKept ==
    /\ checkouts' \subseteq P!Checkout
    /\ inbox' \in [WebhookId -> P!Hook \union {P!NoHook}]
    /\ tasks' \subseteq P!Task
    /\ lostTasks' \in 0..MaxFailures
    /\ TasksBacked'
    /\ \A c \in checkouts' \ checkouts : holds[c.hold] # S!NoRow

\* Checkouts, webhooks and tasks stay well formed, and a task keeps its webhook.
LEMMA PaymentRestEffect ==
    ASSUME S!TypeOK, P!TypeOK, TasksBacked, PaymentStep
    PROVE  RestKept
  <1>1. ASSUME NEW k \in Key, NEW h \in HoldId, ClientCheckout(k, h) PROVE RestKept
    <2>1. holds[h].seat \in Seat BY <1>1, HoldType DEF ClientCheckout
    <2>2. [key |-> k, seat |-> holds[h].seat, hold |-> h] \in P!Checkout
      BY <2>1 DEF P!Checkout
    <2> QED BY <1>1, <2>2 DEF ClientCheckout, P!StartCheckout, RestKept, TasksBacked, P!TypeOK
  <1>2. ASSUME NEW c \in checkouts, P!createIntent(c) PROVE RestKept
    BY <1>2 DEF P!createIntent, RestKept, TasksBacked, P!TypeOK
  <1>3. ASSUME NEW i \in WebhookId, NEW type \in P!HookType, NEW k \in Key, P!webhook(i, type, k)
        PROVE  RestKept
    <2>1. [id |-> i, trace |-> "uuid", step |-> "apply"] \in P!Task BY DEF P!Task
    <2> DEFINE hook == [type |-> type, key |-> k, processed |-> FALSE]
    <2>2. hook \in P!Hook /\ hook # P!NoHook BY DEF P!Hook, P!NoHook, P!HookType
    <2> HIDE DEF hook
    <2>3. inbox' = [inbox EXCEPT ![i] = hook] BY <1>3 DEF P!webhook, hook
    <2>4. inbox'[i] # P!NoHook /\ \A j \in WebhookId \ {i} : inbox'[j] = inbox[j]
      BY <2>2, <2>3 DEF P!TypeOK
    <2>5. \A t \in tasks : t.id \in WebhookId BY DEF P!TypeOK, P!Task
    <2>6. tasks' = tasks \union {[id |-> i, trace |-> "uuid", step |-> "apply"]}
      BY <1>3 DEF P!webhook
    <2>7. TasksBacked' BY <2>4, <2>5, <2>6 DEF TasksBacked
    <2> QED BY <1>3, <2>1, <2>2, <2>3, <2>6, <2>7 DEF P!webhook, RestKept, P!TypeOK
  <1>4. ASSUME NEW i \in WebhookId, P!reprocess(i) PROVE RestKept
    <2>1. [id |-> i, trace |-> "reprocess-uuid", step |-> "apply"] \in P!Task BY DEF P!Task
    <2> QED BY <1>4, <2>1 DEF P!reprocess, RestKept, TasksBacked, P!TypeOK
  <1>5. ASSUME NEW t \in tasks, P!processEvent(t) PROVE RestKept
    <2>1. t \in P!Task BY DEF P!TypeOK
    <2>2. [t EXCEPT !.step = "mark"] \in P!Task /\ [t EXCEPT !.step = "mark"].id = t.id
      BY <2>1 DEF P!Task
    <2> QED BY <1>5, <2>2 DEF P!processEvent, P!NextTaskStep, RestKept, TasksBacked, P!TypeOK
  <1>6. ASSUME NEW t \in tasks, P!markWebhookProcessed(t) PROVE RestKept
    <2>1. t.id \in WebhookId /\ inbox[t.id] \in P!Hook
      BY HookTypes DEF P!TypeOK, P!Task, TasksBacked
    <2>2. /\ [inbox[t.id] EXCEPT !.processed = TRUE] \in P!Hook
          /\ [inbox[t.id] EXCEPT !.processed = TRUE] # P!NoHook
      BY <2>1 DEF P!Hook, P!HookType, P!NoHook
    <2>3. inbox' = [inbox EXCEPT ![t.id] = [inbox[t.id] EXCEPT !.processed = TRUE]]
      BY <1>6 DEF P!markWebhookProcessed
    <2>4. /\ inbox' \in [WebhookId -> P!Hook \union {P!NoHook}]
          /\ \A i \in WebhookId : inbox[i] # P!NoHook => inbox'[i] # P!NoHook
      BY <2>1, <2>2, <2>3 DEF P!TypeOK
    <2>5. \A u \in tasks : u.id \in WebhookId BY DEF P!TypeOK, P!Task
    <2> QED BY <1>6, <2>4, <2>5 DEF P!markWebhookProcessed, RestKept, TasksBacked, P!TypeOK
  <1>7. ASSUME NEW t \in tasks, P!TaskLost(t) PROVE RestKept
    BY <1>7, SagaAssumption DEF P!TaskLost, RestKept, TasksBacked, P!TypeOK
  <1> QED BY <1>1, <1>2, <1>3, <1>4, <1>5, <1>6, <1>7 DEF PaymentStep

----------------------------------------------------------------------------
(***************************************************************************)
(* The invariant                                                           *)
(***************************************************************************)

\* A step of the seat service that reserves nothing, with at most one more
\* acknowledged event, whose hold is settled.
LEMMA SeatSideKeeps ==
    ASSUME SagaInv, SeatChange, UNCHANGED payVars,
           delivered' \subseteq payOutbox, dlq' \subseteq payOutbox,
           \A m \in delivered' \ dlq' : m \in delivered \ dlq \/ ~S!IsHeld(m.hold)'
    PROVE  SagaInv'
  <1> USE DEF SagaInv
  <1>1. TypeOK' BY DEF TypeOK, SeatChange, payVars, P!TypeOK
  <1>2. TasksBacked' /\ EventsBacked' BY DEF TasksBacked, EventsBacked, payVars
  <1>3. /\ \A c \in checkouts : c.hold \in HoldId
        /\ \A k \in Key : intents[k] # P!NoIntent => intents[k].hold \in HoldId
        /\ \A m \in payOutbox : m.key \in Key /\ m.hold \in HoldId
    BY IntentType DEF TypeOK, P!TypeOK, P!Checkout, P!PayEvent
  <1>4. HoldsKnown' BY <1>3 DEF HoldsKnown, SeatChange, payVars
  <1>5. ConsumedReserved'
    <2>1. ASSUME NEW k \in consumed
          PROVE  holds'[intents[k].hold] = holds[intents[k].hold]
      <3>1. k \in Key /\ intents[k].status = "COMPLETED" /\ holds[intents[k].hold].status = "RESERVED"
        BY DEF ConsumedReserved, TypeOK, S!TypeOK
      <3> QED BY <1>3, <3>1, AbsentRows DEF SeatChange
    <2> QED BY <2>1 DEF ConsumedReserved, SeatChange, payVars
  <1>6. ReservedOnlyIfPaid' BY DEF ReservedOnlyIfPaid, SeatChange, payVars
  <1>7. AcknowledgedMeansApplied'
    <2>1. ASSUME NEW m \in delivered \ dlq PROVE ~S!IsHeld(m.hold)'
      <3>1. m \in payOutbox /\ ~S!IsHeld(m.hold) BY DEF AcknowledgedMeansApplied, TypeOK
      <3>2. m.hold \in HoldId /\ holds[m.hold] # S!NoRow
        BY <1>3, <3>1 DEF EventsBacked, HoldsKnown
      <3> QED BY <3>1, <3>2 DEF SeatChange, S!IsHeld
    <2> QED BY <2>1 DEF AcknowledgedMeansApplied
  <1> QED BY <1>1, <1>2, <1>4, <1>5, <1>6, <1>7

\* A step of the payment service.
LEMMA PaymentSideKeeps ==
    ASSUME SagaInv, IntentsKept, RestKept, UNCHANGED <<seatVars, queueVars>>
    PROVE  SagaInv'
  <1> USE DEF SagaInv, seatVars, queueVars
  <1>1. TypeOK'
    <2>1. P!TypeOK' BY DEF IntentsKept, RestKept, P!TypeOK
    <2>2. S!TypeOK' BY DEF TypeOK, S!TypeOK
    <2> QED BY <2>1, <2>2 DEF TypeOK, IntentsKept
  <1>2. TasksBacked' BY DEF RestKept
  <1>3. \A m \in payOutbox : m.key \in Key BY DEF TypeOK, P!TypeOK, P!PayEvent
  <1>4. EventsBacked'
    <2>1. ASSUME NEW m \in payOutbox
          PROVE  /\ intents'[m.key] # P!NoIntent /\ intents'[m.key].hold = m.hold
                 /\ m.type = "payment.succeeded" => intents'[m.key].status = "COMPLETED"
      BY <1>3 DEF EventsBacked, IntentsKept
    <2> QED BY <2>1 DEF EventsBacked, IntentsKept
  <1>5. HoldsKnown' BY DEF HoldsKnown, IntentsKept, RestKept
  <1>6. ConsumedReserved' BY DEF ConsumedReserved, IntentsKept, TypeOK, S!TypeOK
  <1>7. ReservedOnlyIfPaid' BY DEF ReservedOnlyIfPaid, IntentsKept, TypeOK, S!TypeOK
  <1>8. AcknowledgedMeansApplied' BY DEF AcknowledgedMeansApplied, S!IsHeld
  <1> QED BY <1>1, <1>2, <1>4, <1>5, <1>6, <1>7, <1>8

\* The first delivery of payment.succeeded to a hold that is still HELD.
LEMMA ReservationKeeps ==
    ASSUME SagaInv, NEW m \in payOutbox, m.type = "payment.succeeded",
           S!reserveHold(m.hold, m.key), Acknowledge(m), UNCHANGED payVars
    PROVE  SagaInv'
  <1> USE DEF SagaInv
  <1> DEFINE h == m.hold
  <1>1. h \in HoldId /\ m.key \in Key BY DEF TypeOK, P!TypeOK, P!PayEvent
  <1>2. intents[m.key].status = "COMPLETED" /\ intents[m.key].hold = h
    BY DEF EventsBacked
  <1>3. /\ S!TypeOK'
        /\ consumed' = consumed \union {m.key}
        /\ holds[h].status = "HELD" /\ holds'[h].status = "RESERVED"
        /\ \A g \in HoldId \ {h} : holds'[g] = holds[g]
    BY <1>1, ReserveChanges DEF TypeOK
  <1> HIDE DEF h
  <1>4. delivered' = delivered \union {m} /\ dlq' = dlq BY DEF Acknowledge
  <1>5. TypeOK' BY <1>3, <1>4 DEF TypeOK, payVars, P!TypeOK
  <1>6. TasksBacked' /\ EventsBacked' BY DEF TasksBacked, EventsBacked, payVars
  <1>7. \A g \in HoldId : holds[g] # S!NoRow => holds'[g] # S!NoRow BY <1>3, AbsentRows
  <1>8. /\ \A c \in checkouts : c.hold \in HoldId
        /\ \A k \in Key : intents[k] # P!NoIntent => intents[k].hold \in HoldId
        /\ \A n \in payOutbox : n.hold \in HoldId
    BY IntentType DEF TypeOK, P!TypeOK, P!Checkout, P!PayEvent
  <1>9. HoldsKnown' BY <1>7, <1>8 DEF HoldsKnown, payVars
  <1>10. ConsumedReserved'
    <2>1. ASSUME NEW k \in consumed
          PROVE  intents[k].status = "COMPLETED" /\ holds'[intents[k].hold].status = "RESERVED"
      <3>1. /\ k \in Key /\ intents[k].status = "COMPLETED"
            /\ holds[intents[k].hold].status = "RESERVED"
        BY DEF ConsumedReserved, TypeOK, S!TypeOK
      <3>2. intents[k].hold \in HoldId BY <1>8, <3>1, AbsentRows
      <3> QED BY <1>3, <3>1, <3>2
    <2> QED BY <1>2, <1>3, <2>1 DEF ConsumedReserved, payVars
  <1>11. ReservedOnlyIfPaid'
    <2>1. ASSUME NEW g \in HoldId, holds'[g].status = "RESERVED"
          PROVE  \E k \in consumed' : intents[k].status = "COMPLETED" /\ intents[k].hold = g
      <3>1. CASE g = h BY <1>2, <1>3, <3>1
      <3>2. CASE g # h BY <1>3, <2>1, <3>2 DEF ReservedOnlyIfPaid
      <3> QED BY <3>1, <3>2
    <2> QED BY <2>1 DEF ReservedOnlyIfPaid, payVars
  <1>12. AcknowledgedMeansApplied'
    <2>1. ASSUME NEW n \in delivered \ dlq PROVE holds'[n.hold].status # "HELD"
      <3>1. holds[n.hold].status # "HELD" /\ n.hold \in HoldId
        BY <1>8 DEF AcknowledgedMeansApplied, S!IsHeld, TypeOK
      <3> QED BY <1>3, <3>1
    <2> QED BY <1>3, <1>4, <2>1 DEF AcknowledgedMeansApplied, S!IsHeld, h
  <1> QED BY <1>5, <1>6, <1>9, <1>10, <1>11, <1>12

\* A delivery that leaves the seat service alone reserves nothing.
LEMMA NoSeatChange ==
    ASSUME S!TypeOK, UNCHANGED seatVars
    PROVE  SeatChange
  BY DEF SeatChange, seatVars, S!TypeOK

\* Every step of the saga, one case for each kind of delivery.
LEMMA SagaStep ==
    ASSUME SagaInv, [Next]_vars
    PROVE  SagaInv'
  <1> USE DEF SagaInv
  <1>0. /\ S!TypeOK /\ P!TypeOK
        /\ delivered \subseteq payOutbox /\ dlq \subseteq payOutbox
        /\ \A m \in payOutbox : m.hold \in HoldId
    BY DEF TypeOK, P!TypeOK, P!PayEvent
  <1>1. CASE SeatStep
    <2>1. UNCHANGED payVars /\ delivered' = delivered /\ dlq' = dlq
      BY <1>1 DEF SeatStep, queueVars
    <2> QED BY <1>0, <1>1, <2>1, SeatStepChanges, SeatSideKeeps
  <1>2. CASE PaymentStep
    <2>1. UNCHANGED <<seatVars, queueVars>> BY <1>2 DEF PaymentStep
    <2> QED BY <1>0, <1>2, <2>1, PaymentStepChanges, IntentEffect, PaymentRestEffect,
               PaymentSideKeeps
  <1>3. ASSUME NEW m \in payOutbox, OnInvalid(m) PROVE SagaInv'
    BY <1>0, <1>3, NoSeatChange, SeatSideKeeps DEF OnInvalid
  <1>4. ASSUME NEW m \in payOutbox, OnPaymentSucceeded(m) PROVE SagaInv'
    <2>1. m.type = "payment.succeeded" /\ Acknowledge(m) /\ UNCHANGED payVars
      BY <1>4 DEF OnPaymentSucceeded
    <2>2. CASE S!IsHeld(m.hold) /\ m.key \notin consumed
      BY <1>4, <2>1, <2>2, ReservationKeeps DEF OnPaymentSucceeded
    <2>3. CASE ~(S!IsHeld(m.hold) /\ m.key \notin consumed)
      <3>1. UNCHANGED seatVars BY <1>4, <2>3 DEF OnPaymentSucceeded
      <3>2. ~S!IsHeld(m.hold)
        BY <2>3 DEF ConsumedReserved, EventsBacked, S!IsHeld
      <3>3. ~S!IsHeld(m.hold)' BY <3>1, <3>2 DEF S!IsHeld, seatVars
      <3>4. /\ delivered' \subseteq payOutbox /\ dlq' \subseteq payOutbox
            /\ \A n \in delivered' \ dlq' : n \in delivered \ dlq \/ n = m
        BY <1>0, <2>1 DEF Acknowledge
      <3>5. \A n \in delivered' \ dlq' : n \in delivered \ dlq \/ ~S!IsHeld(n.hold)'
        BY <3>3, <3>4
      <3> QED BY <1>0, <2>1, <3>1, <3>4, <3>5, NoSeatChange, SeatSideKeeps
    <2> QED BY <2>2, <2>3
  <1>5. ASSUME NEW m \in payOutbox, OnPaymentFailed(m) PROVE SagaInv'
    <2>1. Acknowledge(m) /\ UNCHANGED payVars BY <1>5 DEF OnPaymentFailed
    <2>2. SeatChange /\ ~S!IsHeld(m.hold)'
      <3>1. CASE S!IsHeld(m.hold)
        <4>1. S!IsHeld(m.hold) /\ S!ReleaseRows({m.hold}) /\ cancelling' = cancelling
          BY <1>5, <3>1 DEF OnPaymentFailed, S!OnPaymentFailed, S!releaseHold
        <4>2. cancelling' \subseteq HoldId /\ {m.hold} \in SUBSET HoldId
          BY <1>0, <4>1 DEF S!TypeOK
        <4>3. SeatChange BY <1>0, <4>1, <4>2, ReleaseChanges
        <4>4. holds[m.hold] \in S!HoldRow
          BY <1>0, <4>1, HoldType, AbsentRows DEF S!IsHeld
        <4>5. holds'[m.hold] = [holds[m.hold] EXCEPT !.status = "RELEASED"]
          BY <1>0, <4>1 DEF S!ReleaseRows
        <4> QED BY <4>3, <4>4, <4>5 DEF S!IsHeld, S!HoldRow
      <3>2. CASE ~S!IsHeld(m.hold)
        <4>1. UNCHANGED seatVars BY <1>5, <3>2 DEF OnPaymentFailed
        <4> QED BY <1>0, <3>2, <4>1, NoSeatChange DEF S!IsHeld, seatVars
      <3> QED BY <3>1, <3>2
    <2>3. /\ delivered' \subseteq payOutbox /\ dlq' \subseteq payOutbox
          /\ \A n \in delivered' \ dlq' : n \in delivered \ dlq \/ n = m
      BY <1>0, <2>1 DEF Acknowledge
    <2>4. \A n \in delivered' \ dlq' : n \in delivered \ dlq \/ ~S!IsHeld(n.hold)'
      BY <2>2, <2>3
    <2> QED BY <2>1, <2>2, <2>3, <2>4, SeatSideKeeps
  <1>6. ASSUME NEW m \in outbox, OnSeatReleased(m) PROVE SagaInv'
    <2>1. P!markFailedBySeatId(m.seat) /\ UNCHANGED <<seatVars, queueVars>>
      BY <1>6 DEF OnSeatReleased
    <2>2. IntentsKept BY <1>0, <2>1, SeatReleasedSettles, IntentEffect
    <2>3. RestKept
      BY <1>0, <2>1 DEF P!markFailedBySeatId, RestKept, TasksBacked, P!TypeOK
    <2> QED BY <2>1, <2>2, <2>3, PaymentSideKeeps
  <1>7. CASE UNCHANGED vars
    BY <1>0, <1>7, NoSeatChange, SeatSideKeeps DEF vars, queueVars
  <1> QED BY <1>1, <1>2, <1>3, <1>4, <1>5, <1>6, <1>7 DEF Next

\* Both databases start empty.
LEMMA SagaInit ==
    ASSUME Init
    PROVE  SagaInv
  <1> USE DEF Init, S!Init, P!Init
  <1>1. TypeOK
    <2>1. S!TypeOK BY DEF S!TypeOK, S!SeatStatus
    <2>2. P!TypeOK BY SagaAssumption DEF P!TypeOK
    <2> QED BY <2>1, <2>2 DEF TypeOK
  <1>2. /\ \A h \in HoldId : holds[h].status # "RESERVED"
        /\ \A k \in Key : intents[k] = P!NoIntent
    BY AbsentRows
  <1> QED BY <1>1, <1>2 DEF SagaInv, TasksBacked, EventsBacked, HoldsKnown, ConsumedReserved,
                            ReservedOnlyIfPaid, AcknowledgedMeansApplied

\* The invariant holds in every behaviour of the saga.
LEMMA SagaInvariant == Spec => []SagaInv
  <1>1. SagaInv /\ [Next]_vars => SagaInv' BY SagaStep
  <1> QED BY <1>1, SagaInit, PTL DEF Spec

----------------------------------------------------------------------------
(* Each service, seen alone *)

\* The other service and the queues appear to the seat service as the payment
\* events its own specification already allows.
LEMMA SeatServiceStep ==
    ASSUME TypeOK, [Next]_vars
    PROVE  [S!Next]_(S!vars)
  <1>1. \A m \in payOutbox : m.hold \in HoldId /\ m.key \in Key
    BY DEF TypeOK, P!TypeOK, P!PayEvent
  <1>2. UNCHANGED seatVars => UNCHANGED S!vars BY DEF seatVars, S!vars
  <1>3. CASE SeatStep BY <1>3 DEF SeatStep, S!Next
  <1>4. CASE PaymentStep BY <1>2, <1>4 DEF PaymentStep
  <1>5. ASSUME NEW m \in payOutbox, OnInvalid(m) \/ OnPaymentSucceeded(m) \/ OnPaymentFailed(m)
        PROVE  [S!Next]_(S!vars)
    BY <1>1, <1>2, <1>5 DEF OnInvalid, OnPaymentSucceeded, OnPaymentFailed, S!Next
  <1>6. ASSUME NEW m \in outbox, OnSeatReleased(m) PROVE [S!Next]_(S!vars)
    BY <1>2, <1>6 DEF OnSeatReleased
  <1>7. CASE UNCHANGED vars BY <1>2, <1>7 DEF vars
  <1> QED BY <1>3, <1>4, <1>5, <1>6, <1>7 DEF Next

\* The clients' checkouts and seat.released messages are among those the
\* payment service's own specification allows.
LEMMA PaymentServiceStep ==
    ASSUME TypeOK, [Next]_vars
    PROVE  [P!Next]_(P!vars)
  <1>1. UNCHANGED payVars => UNCHANGED P!vars BY DEF payVars, P!vars
  <1>2. CASE SeatStep BY <1>1, <1>2 DEF SeatStep
  <1>3. CASE PaymentStep
    <2>1. ASSUME NEW k \in Key, NEW h \in HoldId, ClientCheckout(k, h) PROVE P!Next
      <3>1. holds[h].seat \in Seat BY <2>1, HoldType DEF ClientCheckout, TypeOK
      <3> QED BY <2>1, <3>1 DEF ClientCheckout, P!Next
    <2> QED BY <1>3, <2>1 DEF PaymentStep, P!Next
  <1>4. ASSUME NEW m \in payOutbox, OnInvalid(m) \/ OnPaymentSucceeded(m) \/ OnPaymentFailed(m)
        PROVE  [P!Next]_(P!vars)
    BY <1>1, <1>4 DEF OnInvalid, OnPaymentSucceeded, OnPaymentFailed
  <1>5. ASSUME NEW m \in outbox, OnSeatReleased(m) PROVE [P!Next]_(P!vars)
    <2>1. m.seat \in Seat BY DEF TypeOK, S!TypeOK, S!OutboxRow
    <2> QED BY <1>5, <2>1 DEF OnSeatReleased, P!Next
  <1>6. CASE UNCHANGED vars BY <1>1, <1>6 DEF vars
  <1> QED BY <1>2, <1>3, <1>4, <1>5, <1>6 DEF Next

----------------------------------------------------------------------------
(***************************************************************************)
(* The contract: each transaction of either service is one step of a party *)
(* that sees both databases.                                               *)
(***************************************************************************)

\* A release is a hold given up.
LEMMA ReleaseGivesUp ==
    ASSUME S!TypeOK, UNCHANGED payVars, NEW R \in SUBSET HoldId, \A h \in R : S!IsHeld(h),
           S!ReleaseRows(R)
    PROVE  Contract!GiveUp(R)
  <1>1. \A h \in R : [holds[h] EXCEPT !.status = "RELEASED"].status = "RELEASED"
    BY HoldType, AbsentRows DEF S!IsHeld, S!HoldRow
  <1>2. \A h \in HoldId : holds'[h].status = IF h \in R THEN "RELEASED" ELSE holds[h].status
    BY <1>1 DEF S!ReleaseRows
  <1>3. \A h \in R : h \in HoldId /\ holds[h].status = "HELD" BY DEF S!IsHeld
  <1>4. UNCHANGED <<intents, consumed>> BY DEF S!ReleaseRows, payVars
  <1> QED BY <1>2, <1>3, <1>4 DEF Contract!GiveUp

\* A hold request places a hold, and the expired one of that seat makes room.
LEMMA InsertPlacesHold ==
    ASSUME S!TypeOK, UNCHANGED payVars, NEW s \in Seat, NEW u \in User, NEW h \in HoldId,
           S!insertHoldTx(s, u, h)
    PROVE  \E R \in SUBSET HoldId : Contract!PlaceHold(h, R)
  <1>1. PICK C \in SUBSET HoldId : C = S!LazilyCleaned(s)
    BY DEF S!LazilyCleaned, S!HeldOn
  <1>2. \A g \in C : /\ g \in HoldId /\ holds[g].status = "HELD"
                     /\ [holds[g] EXCEPT !.status = "RELEASED"].status = "RELEASED"
    BY <1>1, HoldType, AbsentRows DEF S!LazilyCleaned, S!HeldOn, S!IsHeld, S!HoldRow
  <1>3. holds[h].status = "NONE" BY AbsentRows DEF S!insertHoldTx
  <1>4. \A g \in HoldId : holds'[g].status = IF g = h THEN "HELD"
                                            ELSE IF g \in C THEN "RELEASED" ELSE holds[g].status
    BY <1>1, <1>2 DEF S!insertHoldTx
  <1>5. UNCHANGED <<intents, consumed>> BY DEF S!insertHoldTx, payVars
  <1>6. Contract!PlaceHold(h, C) BY <1>2, <1>3, <1>4, <1>5 DEF Contract!PlaceHold
  <1> QED BY <1>6

\* The seat service alone places holds and gives them up.
LEMMA SeatStepContract ==
    ASSUME S!TypeOK, SeatStep
    PROVE  [Contract!ContractNext]_(Contract!cvars)
  <1> USE DEF Contract!ContractNext
  <1>0. UNCHANGED payVars BY DEF SeatStep
  <1>1. ASSUME UNCHANGED <<holds, consumed>> PROVE UNCHANGED Contract!cvars
    BY <1>0, <1>1 DEF Contract!cvars, payVars
  <1>2. ASSUME NEW h \in HoldId, S!HoldExpires(h) PROVE UNCHANGED Contract!cvars
    BY <1>1, <1>2 DEF S!HoldExpires
  <1>3. ASSUME NEW h \in HoldId, S!CancelHold(h) PROVE [Contract!ContractNext]_(Contract!cvars)
    <2>1. CASE S!releaseHold(h)
      <3>1. {h} \in SUBSET HoldId /\ (\A g \in {h} : S!IsHeld(g)) /\ S!ReleaseRows({h})
        BY <2>1 DEF S!releaseHold
      <3> QED BY <1>0, <3>1, ReleaseGivesUp
    <2>2. CASE UNCHANGED <<holds, consumed>> BY <1>1, <2>2
    <2> QED BY <1>3, <2>1, <2>2 DEF S!CancelHold
  <1>4. ASSUME NEW s \in Seat, NEW u \in User, S!FindHoldToCancel(s, u)
        PROVE  UNCHANGED Contract!cvars
    BY <1>1, <1>4 DEF S!FindHoldToCancel
  <1>5. ASSUME NEW s \in Seat, NEW u \in User, NEW h \in HoldId, S!insertHoldTx(s, u, h)
        PROVE  Contract!ContractNext
    BY <1>0, <1>5, InsertPlacesHold
  <1>6. CASE S!Sweep
    <2>1. PICK R \in SUBSET {h \in expired : S!IsHeld(h)} : S!ReleaseRows(R)
      BY <1>6 DEF S!Sweep
    <2>2. R \in SUBSET HoldId /\ \A h \in R : S!IsHeld(h) BY DEF S!TypeOK
    <2> QED BY <1>0, <2>1, <2>2, ReleaseGivesUp
  <1> QED BY <1>2, <1>3, <1>4, <1>5, <1>6 DEF SeatStep

\* The payment service orders, completes and cancels payments.
LEMMA IntentContract ==
    ASSUME SagaInv, IntentChange, UNCHANGED seatVars
    PROVE  [Contract!ContractNext]_(Contract!cvars)
  <1> USE DEF SagaInv
  <1>0. P!TypeOK /\ S!TypeOK /\ UNCHANGED <<holds, consumed>> BY DEF TypeOK, seatVars
  <1>1. CASE UNCHANGED PayRest BY <1>0, <1>1 DEF PayRest, Contract!cvars
  <1>2. ASSUME NEW c \in checkouts, intents[c.key] = P!NoIntent,
               intents' = [intents EXCEPT ![c.key] =
                             [status |-> "PENDING", seat |-> c.seat, hold |-> c.hold]]
        PROVE  Contract!ContractNext
    <2>1. c.key \in Key /\ c.hold \in HoldId /\ holds[c.hold] # S!NoRow
      BY <1>0 DEF P!TypeOK, P!Checkout, HoldsKnown
    <2>2. holds[c.hold].status # "NONE" BY <1>0, <2>1, HoldType
    <2>3. \A k \in Key : intents'[k] = IF k = c.key
                                      THEN [status |-> "PENDING", seat |-> c.seat, hold |-> c.hold]
                                      ELSE intents[k]
      BY <1>0, <1>2 DEF P!TypeOK
    <2>4. [status |-> "PENDING", seat |-> c.seat, hold |-> c.hold] # P!NoIntent
      BY AbsentRows
    <2>5. Contract!Order(c.key, c.hold)
      BY <1>0, <1>2, <2>1, <2>2, <2>3, <2>4 DEF Contract!Order, Contract!NoPayment
    <2> QED BY <2>1, <2>5 DEF Contract!ContractNext
  <1>3. ASSUME NEW F \in SUBSET Key, NEW st \in {"COMPLETED", "FAILED"},
               NEW m \in P!PayEvent, Settles(F, st, m)
        PROVE  Contract!ContractNext
    <2>1. \A k \in F : /\ k \in Key /\ intents[k].status = "PENDING"
                       /\ intents[k] # P!NoIntent /\ intents[k] \in P!Intent
      BY <1>0, <1>3, IntentType, AbsentRows DEF Settles
    <2>2. \A k \in F : /\ intents'[k].status = st /\ intents'[k].hold = intents[k].hold
                       /\ intents'[k] # P!NoIntent
      BY <1>3, <2>1, AbsentRows DEF Settles, P!Intent
    <2>3. \A k \in Key \ F : intents'[k] = intents[k] BY <1>3 DEF Settles
    <2>4. Contract!Settle(F, st)
      BY <1>0, <2>1, <2>2, <2>3 DEF Contract!Settle
    <2>5. CASE st = "COMPLETED"
      <3>1. F = {m.key} /\ m.key \in Key BY <1>3, <2>5 DEF Settles
      <3> QED BY <2>4, <2>5, <3>1 DEF Contract!ContractNext, Contract!Pay
    <2>6. CASE st = "FAILED" BY <2>4, <2>6 DEF Contract!ContractNext, Contract!Cancel
    <2> QED BY <2>5, <2>6
  <1> QED BY <1>1, <1>2, <1>3 DEF IntentChange

\* The first delivery of payment.succeeded to a hold that is still HELD is the
\* reservation: what the message says is still so.
LEMMA ReserveContract ==
    ASSUME SagaInv, NEW m \in payOutbox, m.type = "payment.succeeded",
           S!reserveHold(m.hold, m.key), UNCHANGED payVars
    PROVE  Contract!Reserve(m.key) /\ m.key \in Key
  <1> USE DEF SagaInv
  <1>1. m.hold \in HoldId /\ m.key \in Key BY DEF TypeOK, P!TypeOK, P!PayEvent
  <1>2. /\ intents[m.key].status = "COMPLETED" /\ intents[m.key].hold = m.hold
        /\ intents[m.key] # P!NoIntent
    BY DEF EventsBacked
  <1>3. /\ consumed' = consumed \union {m.key} /\ m.key \notin consumed
        /\ holds[m.hold].status = "HELD" /\ holds'[m.hold].status = "RESERVED"
        /\ \A g \in HoldId \ {m.hold} : holds'[g] = holds[g]
    BY <1>1, ReserveChanges DEF TypeOK
  <1>4. intents' = intents BY DEF payVars
  <1> QED BY <1>1, <1>2, <1>3, <1>4 DEF Contract!Reserve

\* Every step of the saga, as the customer sees it.
LEMMA ContractStep ==
    ASSUME SagaInv, [Next]_vars
    PROVE  [Contract!ContractNext]_(Contract!cvars)
  <1>0. TypeOK /\ S!TypeOK /\ P!TypeOK /\ TasksBacked BY DEF SagaInv, TypeOK
  <1>1. ASSUME UNCHANGED seatVars, UNCHANGED payVars PROVE UNCHANGED Contract!cvars
    BY <1>1 DEF seatVars, payVars, Contract!cvars
  <1>2. CASE SeatStep BY <1>0, <1>2, SeatStepContract
  <1>3. CASE PaymentStep
    <2>1. UNCHANGED seatVars BY <1>3 DEF PaymentStep
    <2> QED BY <1>0, <1>3, <2>1, PaymentStepChanges, IntentContract
  <1>4. ASSUME NEW m \in payOutbox, OnInvalid(m) PROVE UNCHANGED Contract!cvars
    BY <1>1, <1>4 DEF OnInvalid
  <1>5. ASSUME NEW m \in payOutbox, OnPaymentSucceeded(m)
        PROVE  [Contract!ContractNext]_(Contract!cvars)
    <2>1. m.type = "payment.succeeded" /\ UNCHANGED payVars BY <1>5 DEF OnPaymentSucceeded
    <2>2. CASE S!reserveHold(m.hold, m.key)
      BY <2>1, <2>2, ReserveContract DEF Contract!ContractNext
    <2>3. CASE UNCHANGED seatVars BY <1>1, <2>1, <2>3
    <2> QED BY <1>5, <2>2, <2>3 DEF OnPaymentSucceeded
  <1>6. ASSUME NEW m \in payOutbox, OnPaymentFailed(m)
        PROVE  [Contract!ContractNext]_(Contract!cvars)
    <2>1. UNCHANGED payVars /\ m.hold \in HoldId
      BY <1>0, <1>6 DEF OnPaymentFailed, P!TypeOK, P!PayEvent
    <2>2. CASE S!OnPaymentFailed(m.hold)
      <3>1. /\ {m.hold} \in SUBSET HoldId /\ (\A g \in {m.hold} : S!IsHeld(g))
            /\ S!ReleaseRows({m.hold})
        BY <2>1, <2>2 DEF S!OnPaymentFailed, S!releaseHold
      <3> QED BY <1>0, <2>1, <3>1, ReleaseGivesUp DEF Contract!ContractNext
    <2>3. CASE UNCHANGED seatVars BY <1>1, <2>1, <2>3
    <2> QED BY <1>6, <2>2, <2>3 DEF OnPaymentFailed
  <1>7. ASSUME NEW m \in outbox, OnSeatReleased(m)
        PROVE  [Contract!ContractNext]_(Contract!cvars)
    BY <1>0, <1>7, SeatReleasedSettles, IntentContract DEF OnSeatReleased
  <1>8. CASE UNCHANGED vars BY <1>1, <1>8 DEF vars
  <1> QED BY <1>2, <1>3, <1>4, <1>5, <1>6, <1>7, <1>8 DEF Next

----------------------------------------------------------------------------
(* Theorems *)

\* Both databases keep their types, and the seat service acknowledges and rejects
\* nothing that was not committed to the payment outbox.
THEOREM TypeCorrect == Spec => []TypeOK
  BY SagaInvariant, PTL DEF SagaInv

\* Across the two databases, whatever the queues duplicate, delay or reorder: a
\* RESERVED hold has a COMPLETED payment of its own.
THEOREM ReservedIsPaid == Spec => []ReservedOnlyIfPaid
  BY SagaInvariant, PTL DEF SagaInv

\* An acknowledged payment event has settled its hold, for good.
THEOREM AcknowledgedIsApplied == Spec => []AcknowledgedMeansApplied
  BY SagaInvariant, PTL DEF SagaInv

\* Seen from either database, the saga is a run of that service's specification:
\* what is proved of a service alone holds of it in the saga.
THEOREM ServicesCarryOver == Spec => ServicesImplemented
  <1>1. Init => S!Init /\ P!Init BY DEF Init
  <1>2. TypeOK /\ [Next]_vars => [S!Next]_(S!vars) BY SeatServiceStep
  <1>3. TypeOK /\ [Next]_vars => [P!Next]_(P!vars) BY PaymentServiceStep
  <1> QED BY <1>1, <1>2, <1>3, TypeCorrect, PTL DEF Spec, ServicesImplemented, S!Spec, P!Spec

\* The saga implements the contract: whatever the queues do and wherever a task
\* dies, customers see holds, payments and reservations move as if one party
\* held both databases.
THEOREM ContractIsKept == Spec => ContractKept
  <1>1. Init => Contract!ContractInit
    BY DEF Init, S!Init, P!Init, S!NoRow, Contract!ContractInit, Contract!NoPayment
  <1>2. SagaInv /\ [Next]_vars => [Contract!ContractNext]_(Contract!cvars) BY ContractStep
  <1> QED BY <1>1, <1>2, SagaInvariant, PTL DEF Spec, ContractKept, Contract!ContractSpec
----------------------------------------------------------------------------
(***************************************************************************)
(* The theorems of the two services, in the saga.  Their proofs speak of   *)
(* the services' own specifications, here instantiated a second time with  *)
(* the saga's variables; both instances say the same.                      *)
(***************************************************************************)
SeatProofs == INSTANCE SeatServiceProofs WITH EventId <- Key
PayProofs == INSTANCE PaymentServiceProofs

\* The saga's constants are as the seat service wants them.
LEMMA SeatConstants == SeatProofs!SeatServiceAssumption
  BY SagaAssumption DEF SeatProofs!SeatServiceAssumption, IsFiniteSet, SeatProofs!IsFiniteSet

\* The saga's constants are as the payment service wants them.
LEMMA PaymentConstants == PayProofs!PaymentServiceAssumption
  BY SagaAssumption DEF PayProofs!PaymentServiceAssumption

\* A cardinality is the same in both instances.
LEMMA SameCardinality == \A X : S!Cardinality(X) = SeatProofs!Cardinality(X)
  BY DEF S!Cardinality, SeatProofs!Cardinality

\* A step of the saga is one of the seat service its proofs are about.
LEMMA SeatSpecAgrees == S!Spec => SeatProofs!Spec
  <1>1. S!Init => SeatProofs!Init
    BY DEF S!Init, SeatProofs!Init, S!NoRow, SeatProofs!NoRow
  <1>2. S!Next => SeatProofs!Next
    BY SameCardinality
       DEF S!Next, S!HoldExpires, S!CancelHold, S!OnPaymentFailed, S!FindHoldToCancel,
           S!insertHoldTx, S!reserveHold, S!Sweep, S!releaseHold, S!ReleaseRows, S!FreedSeats,
           S!HeldOn, S!HeldBy, S!IsHeld, S!LazilyCleaned, S!uniq_active_hold_per_seat,
           S!uniq_active_hold_per_user, S!Held, S!Reserved, S!Released, S!NoRow,
           SeatProofs!Next, SeatProofs!HoldExpires, SeatProofs!CancelHold,
           SeatProofs!OnPaymentFailed, SeatProofs!FindHoldToCancel, SeatProofs!insertHoldTx,
           SeatProofs!reserveHold, SeatProofs!Sweep, SeatProofs!releaseHold,
           SeatProofs!ReleaseRows, SeatProofs!FreedSeats, SeatProofs!HeldOn, SeatProofs!HeldBy,
           SeatProofs!IsHeld, SeatProofs!LazilyCleaned, SeatProofs!uniq_active_hold_per_seat,
           SeatProofs!uniq_active_hold_per_user, SeatProofs!Held, SeatProofs!Reserved,
           SeatProofs!Released, SeatProofs!NoRow
  <1>3. [S!Next]_(S!vars) => [SeatProofs!Next]_(SeatProofs!vars)
    BY <1>2 DEF S!vars, SeatProofs!vars
  <1> QED BY <1>1, <1>3, PTL DEF S!Spec, SeatProofs!Spec

\* And of the payment service.
LEMMA PaymentSpecAgrees == P!Spec => PayProofs!Spec
  <1>1. P!Init => PayProofs!Init
    BY DEF P!Init, PayProofs!Init, P!NoIntent, PayProofs!NoIntent, P!NoHook, PayProofs!NoHook
  <1>2. P!Next => PayProofs!Next
    BY DEF P!Next, P!StartCheckout, P!createIntent, P!webhook, P!reprocess, P!processEvent,
           P!markWebhookProcessed, P!TaskLost, P!markFailedBySeatId, P!NoIntent, P!NoHook,
           P!HookType, P!markCompleted, P!markFailed, P!Announce, P!Nth, P!NextTaskStep, P!PendingOn,
           P!IsPending,
           PayProofs!Next, PayProofs!StartCheckout, PayProofs!createIntent, PayProofs!webhook,
           PayProofs!reprocess, PayProofs!processEvent, PayProofs!markWebhookProcessed,
           PayProofs!TaskLost, PayProofs!markFailedBySeatId, PayProofs!NoIntent,
           PayProofs!NoHook, PayProofs!HookType, PayProofs!markCompleted, PayProofs!markFailed,
           PayProofs!Announce, PayProofs!Nth, PayProofs!NextTaskStep, PayProofs!PendingOn,
           PayProofs!IsPending
  <1>3. [P!Next]_(P!vars) => [PayProofs!Next]_(PayProofs!vars)
    BY <1>2 DEF P!vars, PayProofs!vars
  <1> QED BY <1>1, <1>3, PTL DEF P!Spec, PayProofs!Spec

\* The invariants of seat_db, proved of the seat service alone.
SeatInvariants ==
    /\ S!OneActiveHold /\ S!SeatMirrorsHolds /\ S!OutboxTellsTheTruth
    /\ S!SilentReleaseIsTakeover /\ S!OneEventPerReservation

\* The invariants of payment_db, proved of the payment service alone.
PaymentInvariants ==
    P!EventsMatchIntents /\ P!ProcessedMeansSettled /\ P!CompletedOnlyIfPaid

\* In the saga, with real messages for the arbitrary ones of the seat service's
\* own specification: one active hold per seat and user, a truthful seat map and
\* outbox, one payment per reservation, and finished holds that never change.
THEOREM SeatTheoremsCarryOver == Spec => []SeatInvariants /\ S!FinishedHoldsNeverChange
  <1>1. SeatProofs!OneActiveHold => S!OneActiveHold
    BY DEF S!OneActiveHold, SeatProofs!OneActiveHold, S!IsHeld, SeatProofs!IsHeld
  <1>2. SeatProofs!SeatMirrorsHolds => S!SeatMirrorsHolds
    BY DEF S!SeatMirrorsHolds, SeatProofs!SeatMirrorsHolds, S!HeldOn, SeatProofs!HeldOn,
           S!IsHeld, SeatProofs!IsHeld
  <1>3. SeatProofs!OutboxTellsTheTruth => S!OutboxTellsTheTruth
    BY DEF S!OutboxTellsTheTruth, SeatProofs!OutboxTellsTheTruth, S!Reserved, SeatProofs!Reserved
  <1>4. SeatProofs!SilentReleaseIsTakeover => S!SilentReleaseIsTakeover
    BY DEF S!SilentReleaseIsTakeover, SeatProofs!SilentReleaseIsTakeover,
           S!Released, SeatProofs!Released
  <1>5. SeatProofs!OneEventPerReservation => S!OneEventPerReservation
    BY SameCardinality DEF S!OneEventPerReservation, SeatProofs!OneEventPerReservation,
           S!ReservedHolds, SeatProofs!ReservedHolds
  <1>6. SeatProofs!FinishedHoldsNeverChange => S!FinishedHoldsNeverChange
    <2>1. [\A h \in HoldId : holds[h].status \in {"RESERVED", "RELEASED"} =>
                                 holds'[h] = holds[h]]_(SeatProofs!vars)
          => [\A h \in HoldId : holds[h].status \in {"RESERVED", "RELEASED"} =>
                                    holds'[h] = holds[h]]_(S!vars)
      BY DEF S!vars, SeatProofs!vars
    <2> QED BY <2>1, PTL DEF S!FinishedHoldsNeverChange, SeatProofs!FinishedHoldsNeverChange
  <1>7. SeatProofs!Spec => /\ []SeatProofs!OneActiveHold /\ []SeatProofs!SeatMirrorsHolds
                           /\ []SeatProofs!OutboxTellsTheTruth
                           /\ []SeatProofs!SilentReleaseIsTakeover
                           /\ []SeatProofs!OneEventPerReservation
                           /\ SeatProofs!FinishedHoldsNeverChange
    BY SeatConstants, SeatProofs!ActiveHoldsUnique, SeatProofs!SeatMapCorrect,
       SeatProofs!EventsTruthful, SeatProofs!SilentReleases, SeatProofs!ReservationsIdempotent,
       SeatProofs!FinishedHoldsFinal, PTL
  <1>8. Spec => S!Spec BY ServicesCarryOver DEF ServicesImplemented
  <1> QED BY <1>1, <1>2, <1>3, <1>4, <1>5, <1>6, <1>7, <1>8, SeatSpecAgrees, PTL DEF SeatInvariants

\* In the saga, with real holds: every intent is settled once, announced once and
\* truthfully, and completed or marked processed only on the PSP's word.
THEOREM PaymentTheoremsCarryOver ==
    Spec => []PaymentInvariants /\ P!SettledIntentsNeverChange
  <1>1. PayProofs!EventsMatchIntents => P!EventsMatchIntents
    BY DEF P!EventsMatchIntents, PayProofs!EventsMatchIntents
  <1>2. PayProofs!ProcessedMeansSettled => P!ProcessedMeansSettled
    BY DEF P!ProcessedMeansSettled, PayProofs!ProcessedMeansSettled, P!Settled,
           PayProofs!Settled, P!NoHook, PayProofs!NoHook
  <1>3. PayProofs!CompletedOnlyIfPaid => P!CompletedOnlyIfPaid
    BY DEF P!CompletedOnlyIfPaid, PayProofs!CompletedOnlyIfPaid
  <1>4. PayProofs!SettledIntentsNeverChange => P!SettledIntentsNeverChange
    <2>1. [\A k \in Key : PayProofs!Settled(k) => intents'[k] = intents[k]]_(PayProofs!vars)
          => [\A k \in Key : P!Settled(k) => intents'[k] = intents[k]]_(P!vars)
      BY DEF P!vars, PayProofs!vars, P!Settled, PayProofs!Settled
    <2> QED BY <2>1, PTL DEF P!SettledIntentsNeverChange, PayProofs!SettledIntentsNeverChange
  <1>5. PayProofs!Spec => /\ []PayProofs!EventsMatchIntents /\ []PayProofs!ProcessedMeansSettled
                          /\ []PayProofs!CompletedOnlyIfPaid
                          /\ PayProofs!SettledIntentsNeverChange
    BY PaymentConstants, PayProofs!EventsTruthful, PayProofs!ProcessedIsSettled,
       PayProofs!CompletedIsPaid, PayProofs!SettledIntentsFinal, PTL
  <1>6. Spec => P!Spec BY ServicesCarryOver DEF ServicesImplemented
  <1> QED BY <1>1, <1>2, <1>3, <1>4, <1>5, <1>6, PaymentSpecAgrees, PTL DEF PaymentInvariants

\* From end to end: behind every seat the browsers see as RESERVED there is one
\* hold, one payment for that hold, the event that told of it, and a webhook of
\* the PSP that reported its success.
ReservationsTraceBack ==
    \A s \in Seat : seats[s] = "RESERVED" =>
        \E h \in HoldId, k \in consumed :
            /\ holds[h].status = "RESERVED" /\ holds[h].seat = s
            /\ intents[k].status = "COMPLETED" /\ intents[k].hold = h
            /\ \E m \in payOutbox : m.type = "payment.succeeded" /\ m.key = k /\ m.hold = h
            /\ \E i \in WebhookId : inbox[i].type = "succeeded" /\ inbox[i].key = k

\* A seat shown as RESERVED goes back, through two databases and a queue, to a
\* success the PSP reported: neither a duplicate, an expiry, a crash nor a late
\* message can make one without the other.
THEOREM SeatsTraceToPayments == Spec => []ReservationsTraceBack
  <1>1. ASSUME TypeOK, SeatInvariants, PaymentInvariants, ReservedOnlyIfPaid
        PROVE  ReservationsTraceBack
    <2> SUFFICES ASSUME NEW s \in Seat, seats[s] = "RESERVED"
                 PROVE  \E h \in HoldId, k \in consumed :
                           /\ holds[h].status = "RESERVED" /\ holds[h].seat = s
                           /\ intents[k].status = "COMPLETED" /\ intents[k].hold = h
                           /\ \E m \in payOutbox : /\ m.type = "payment.succeeded"
                                                  /\ m.key = k /\ m.hold = h
                           /\ \E i \in WebhookId : inbox[i].type = "succeeded" /\ inbox[i].key = k
      BY DEF ReservationsTraceBack
    <2>1. PICK h \in HoldId : holds[h].status = "RESERVED" /\ holds[h].seat = s
      BY <1>1 DEF SeatInvariants, S!SeatMirrorsHolds
    <2>2. PICK k \in consumed : intents[k].status = "COMPLETED" /\ intents[k].hold = h
      BY <1>1, <2>1 DEF ReservedOnlyIfPaid
    <2>3. k \in Key BY <1>1 DEF TypeOK, S!TypeOK
    <2>4. PICK m \in payOutbox : m.key = k
      BY <1>1, <2>2, <2>3 DEF PaymentInvariants, P!EventsMatchIntents
    <2>5. m.type = "payment.succeeded" /\ m.hold = h
      BY <1>1, <2>2, <2>4 DEF PaymentInvariants, P!EventsMatchIntents
    <2>6. \E i \in WebhookId : inbox[i].type = "succeeded" /\ inbox[i].key = k
      BY <1>1, <2>2, <2>3 DEF PaymentInvariants, P!CompletedOnlyIfPaid
    <2> QED BY <2>1, <2>2, <2>4, <2>5, <2>6
  <1> QED BY <1>1, TypeCorrect, ReservedIsPaid, SeatTheoremsCarryOver,
             PaymentTheoremsCarryOver, PTL
=============================================================================
