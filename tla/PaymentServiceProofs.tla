------------------------ MODULE PaymentServiceProofs ------------------------
(***************************************************************************)
(* Machine-checked proofs about PaymentService, for any sets of seats,     *)
(* holds, idempotency keys and webhooks and any number of lost tasks.      *)
(***************************************************************************)
EXTENDS PaymentService, TLAPS

\* An absent row is told apart from a present one by one field.
LEMMA AbsentRows == NoIntent.status = "NONE" /\ NoHook.type = "none"
  BY DEF NoIntent, NoHook

\* What a present intent looks like.
LEMMA IntentType ==
  ASSUME TypeOK, NEW k \in Key, intents[k] # NoIntent
  PROVE  /\ intents[k] \in Intent
         /\ intents[k].seat \in Seat /\ intents[k].hold \in HoldId
         /\ intents[k].status \in {"PENDING", "COMPLETED", "FAILED"}
  BY DEF TypeOK, Intent

\* What a stored webhook looks like.
LEMMA HookTypes ==
  ASSUME TypeOK, NEW i \in WebhookId, inbox[i] # NoHook
  PROVE  /\ inbox[i] \in Hook
         /\ inbox[i].key \in Key /\ inbox[i].type \in HookType
  BY DEF TypeOK, Hook

----------------------------------------------------------------------------
(***************************************************************************)
(* The inductive strengthening: what links a task to the webhook it works  *)
(* on and the webhook to its intent.                                       *)
(***************************************************************************)
\* A webhook in the inbox is about an existing intent; a task is about a
\* stored webhook, and one that has only the mark to make has had its effect.
TasksAreBacked ==
    /\ \A i \in WebhookId : inbox[i] # NoHook => intents[inbox[i].key] # NoIntent
    /\ \A t \in tasks : inbox[t.id] # NoHook
    /\ \A t \in tasks : t.step = "mark" /\ inbox[t.id].type # "other"
                           => Settled(inbox[t.id].key)

(***************************************************************************)
(* Every step changes intents and payOutbox in one of four ways.           *)
(***************************************************************************)
\* The keys in F leave PENDING with status st, and m is announced about one.
Settle(F, st, m) ==
    /\ \A k \in F : IsPending(k)
    /\ intents' = [k \in Key |-> IF k \in F THEN [intents[k] EXCEPT !.status = st]
                                            ELSE intents[k]]
    /\ payOutbox' = payOutbox \union {m}
    /\ m.key \in F
    /\ m.hold = intents[m.key].hold
    /\ m.type = IF st = "COMPLETED" THEN "payment.succeeded" ELSE "payment.failed"
    /\ st = "COMPLETED" => F = {m.key}

\* A settling step seen field by field.
LEMMA SettleEffect ==
  ASSUME TypeOK, NEW F \in SUBSET Key, NEW st \in {"COMPLETED", "FAILED"},
         NEW m, Settle(F, st, m)
  PROVE  /\ \A k \in F : /\ intents'[k].status = st
                         /\ intents'[k].seat = intents[k].seat
                         /\ intents'[k].hold = intents[k].hold
                         /\ intents'[k] \in Intent
         /\ \A k \in Key \ F : intents'[k] = intents[k]
  <1>1. \A k \in F : intents[k] \in Intent
    BY IntentType, AbsentRows DEF Settle, IsPending
  <1>2. \A k \in F : intents'[k] = [intents[k] EXCEPT !.status = st]
    BY DEF Settle
  <1>3. \A k \in Key \ F : intents'[k] = intents[k]
    BY DEF Settle
  <1> QED BY <1>1, <1>2, <1>3 DEF Intent

\* Only PENDING intents are settled.
LEMMA SettlePending ==
  ASSUME NEW F, NEW st, NEW m, Settle(F, st, m)
  PROVE  \A k \in F : intents[k].status = "PENDING"
  BY DEF Settle, IsPending

\* markCompleted on a PENDING intent is a settling step.
LEMMA CompletedSettles ==
  ASSUME TypeOK, NEW k \in Key, NEW tr \in {"uuid", "reprocess-uuid"},
         IsPending(k), markCompleted(k, tr)
  PROVE  \E m \in PayEvent : Settle({k}, "COMPLETED", m)
  <1> DEFINE m == [type |-> "payment.succeeded", key |-> k,
                   nth |-> Nth(k), hold |-> intents[k].hold, trace |-> tr]
  <1>1. intents[k] \in Intent /\ intents[k].hold \in HoldId
    BY IntentType, AbsentRows DEF IsPending
  <1>2. m \in PayEvent
    BY <1>1 DEF PayEvent, Nth
  <1>3. intents' = [intents EXCEPT ![k].status = "COMPLETED"] /\ payOutbox' = payOutbox \union {m}
    BY DEF markCompleted, Announce
  <1>4. intents' = [j \in Key |-> IF j \in {k} THEN [intents[j] EXCEPT !.status = "COMPLETED"]
                                             ELSE intents[j]]
    BY <1>3 DEF TypeOK
  <1>5. Settle({k}, "COMPLETED", m)
    BY <1>3, <1>4 DEF Settle
  <1> QED BY <1>2, <1>5

\* markFailed on a PENDING intent is a settling step.
LEMMA FailedSettles ==
  ASSUME TypeOK, NEW k \in Key, NEW tr \in {"uuid", "reprocess-uuid"},
         IsPending(k), markFailed(k, tr)
  PROVE  \E m \in PayEvent : Settle({k}, "FAILED", m)
  <1> DEFINE m == [type |-> "payment.failed", key |-> k,
                   nth |-> Nth(k), hold |-> intents[k].hold, trace |-> tr]
  <1>1. intents[k] \in Intent /\ intents[k].hold \in HoldId
    BY IntentType, AbsentRows DEF IsPending
  <1>2. m \in PayEvent
    BY <1>1 DEF PayEvent, Nth
  <1>3. intents' = [intents EXCEPT ![k].status = "FAILED"] /\ payOutbox' = payOutbox \union {m}
    BY DEF markFailed, Announce
  <1>4. intents' = [j \in Key |-> IF j \in {k} THEN [intents[j] EXCEPT !.status = "FAILED"]
                                             ELSE intents[j]]
    BY <1>3 DEF TypeOK
  <1>5. Settle({k}, "FAILED", m)
    BY <1>3, <1>4 DEF Settle
  <1> QED BY <1>2, <1>5

\* A seat.released that finds PENDING intents is a settling step.
LEMMA SeatReleasedSettles ==
  ASSUME TypeOK, NEW s \in Seat, markFailedBySeatId(s)
  PROVE  \E m \in PayEvent : Settle(PendingOn(s), "FAILED", m)
  <1>1. PICK f \in PendingOn(s) :
          /\ intents' = [k \in Key |-> IF k \in PendingOn(s)
                                       THEN [intents[k] EXCEPT !.status = "FAILED"]
                                       ELSE intents[k]]
          /\ Announce(f, "payment.failed", "uuid")
    BY DEF markFailedBySeatId
  <1> DEFINE m == [type |-> "payment.failed", key |-> f,
                   nth |-> Nth(f), hold |-> intents[f].hold, trace |-> "uuid"]
  <1>2. f \in Key /\ IsPending(f) /\ \A k \in PendingOn(s) : IsPending(k)
    BY DEF PendingOn
  <1>3. intents[f] \in Intent /\ intents[f].hold \in HoldId
    BY <1>2, IntentType, AbsentRows DEF IsPending
  <1>4. m \in PayEvent
    BY <1>2, <1>3 DEF PayEvent, Nth
  <1>5. Settle(PendingOn(s), "FAILED", m)
    BY <1>1, <1>2 DEF Settle, Announce
  <1> QED BY <1>4, <1>5

\* processEvent settles its webhook's intent or leaves the tables alone, and
\* afterwards the intent of a report is settled.
LEMMA ProcessCases ==
  ASSUME TypeOK, TasksAreBacked, NEW t \in tasks, processEvent(t)
  PROVE  /\ \/ \E m \in PayEvent : /\ Settle({inbox[t.id].key}, "COMPLETED", m)
                                  /\ inbox[t.id].type = "succeeded"
            \/ \E m \in PayEvent : Settle({inbox[t.id].key}, "FAILED", m)
            \/ UNCHANGED <<intents, payOutbox>>
         /\ inbox[t.id].type # "other" =>
               intents'[inbox[t.id].key].status \in {"COMPLETED", "FAILED"}
  <1> DEFINE k == inbox[t.id].key
  <1>1. t.id \in WebhookId /\ t.trace \in {"uuid", "reprocess-uuid"}
    BY DEF TypeOK, Task
  <1>2. k \in Key /\ inbox[t.id].type \in HookType /\ intents[k] # NoIntent
    BY <1>1, HookTypes DEF TasksAreBacked
  <1>3. intents[k].status \in {"PENDING", "COMPLETED", "FAILED"}
    BY <1>2, IntentType
  <1>4. ASSUME NEW st \in {"COMPLETED", "FAILED"}, NEW m, Settle({k}, st, m)
        PROVE  intents'[k].status \in {"COMPLETED", "FAILED"}
    <2>1. {k} \in SUBSET Key
      BY <1>2
    <2>2. intents'[k].status = st
      BY <1>4, <2>1, SettleEffect
    <2> QED BY <2>2
  <1>5. CASE inbox[t.id].type = "succeeded"
    <2>1. markCompleted(k, t.trace)
      BY <1>5 DEF processEvent
    <2>2. CASE IsPending(k)
      BY <1>1, <1>2, <1>4, <1>5, <2>1, <2>2, CompletedSettles
    <2>3. CASE ~IsPending(k)
      BY <1>3, <2>1, <2>3 DEF markCompleted, IsPending
    <2> QED BY <2>2, <2>3
  <1>6. CASE inbox[t.id].type = "payment_failed"
    <2>1. markFailed(k, t.trace)
      BY <1>6 DEF processEvent
    <2>2. CASE IsPending(k)
      BY <1>1, <1>2, <1>4, <2>1, <2>2, FailedSettles
    <2>3. CASE ~IsPending(k)
      BY <1>3, <2>1, <2>3 DEF markFailed, IsPending
    <2> QED BY <2>2, <2>3
  <1>7. CASE inbox[t.id].type = "other"
    BY <1>7 DEF processEvent
  <1> QED BY <1>2, <1>5, <1>6, <1>7 DEF HookType

\* The steps that write payment_intents or the outbox.
LEMMA StepCases ==
  ASSUME TypeOK, TasksAreBacked, [Next]_vars
  PROVE  \/ \E F \in SUBSET Key, m \in PayEvent :
               /\ Settle(F, "COMPLETED", m)
               /\ \E i \in WebhookId : inbox[i].type = "succeeded" /\ inbox[i].key = m.key
               /\ UNCHANGED <<inbox, checkouts>>
         \/ \E F \in SUBSET Key, m \in PayEvent :
               Settle(F, "FAILED", m) /\ UNCHANGED <<inbox, checkouts>>
         \/ \E c \in checkouts : createIntent(c)
         \/ UNCHANGED <<intents, payOutbox>>
  <1>1. ASSUME NEW t \in tasks, processEvent(t)
        PROVE  \/ \E F \in SUBSET Key, m \in PayEvent :
                     /\ Settle(F, "COMPLETED", m)
                     /\ \E i \in WebhookId : inbox[i].type = "succeeded" /\ inbox[i].key = m.key
                     /\ UNCHANGED <<inbox, checkouts>>
               \/ \E F \in SUBSET Key, m \in PayEvent :
                     Settle(F, "FAILED", m) /\ UNCHANGED <<inbox, checkouts>>
               \/ UNCHANGED <<intents, payOutbox>>
    <2>1. t.id \in WebhookId
      BY DEF TypeOK, Task
    <2>2. inbox[t.id].key \in Key
      BY <2>1, HookTypes DEF TasksAreBacked
    <2>3. {inbox[t.id].key} \in SUBSET Key
      BY <2>2
    <2>4. UNCHANGED <<inbox, checkouts>>
      BY <1>1 DEF processEvent
    <2>5. ASSUME NEW m, Settle({inbox[t.id].key}, "COMPLETED", m)
          PROVE  inbox[t.id].key = m.key
      BY <2>5 DEF Settle
    <2> QED BY <1>1, <2>1, <2>3, <2>4, <2>5, ProcessCases
  <1>2. ASSUME NEW s \in Seat, markFailedBySeatId(s)
        PROVE  \E F \in SUBSET Key, m \in PayEvent :
                     Settle(F, "FAILED", m) /\ UNCHANGED <<inbox, checkouts>>
    <2>1. PendingOn(s) \in SUBSET Key
      BY DEF PendingOn
    <2>2. UNCHANGED <<inbox, checkouts>>
      BY <1>2 DEF markFailedBySeatId
    <2> QED BY <1>2, <2>1, <2>2, SeatReleasedSettles
  <1>3. CASE \/ \E k \in Key, s \in Seat, h \in HoldId : StartCheckout(k, s, h)
             \/ \E i \in WebhookId, type \in HookType, k \in Key : webhook(i, type, k)
             \/ \E i \in WebhookId : reprocess(i)
             \/ \E t \in tasks : markWebhookProcessed(t) \/ TaskLost(t)
             \/ UNCHANGED vars
    BY <1>3 DEF StartCheckout, webhook, reprocess, markWebhookProcessed, TaskLost, vars
  <1> QED BY <1>1, <1>2, <1>3 DEF Next

----------------------------------------------------------------------------
(* Type correctness, together with the strengthening it needs *)

\* A settling step keeps intents and payOutbox well typed.
LEMMA SettleType ==
  ASSUME TypeOK, NEW F \in SUBSET Key, NEW st \in {"COMPLETED", "FAILED"},
         NEW m \in PayEvent, Settle(F, st, m)
  PROVE  intents' \in [Key -> Intent \union {NoIntent}] /\ payOutbox' \subseteq PayEvent
  <1>1. \A k \in Key : intents'[k] \in Intent \union {NoIntent}
    BY SettleEffect DEF TypeOK
  <1>2. intents' \in [Key -> Intent \union {NoIntent}]
    BY <1>1 DEF Settle
  <1> QED BY <1>2 DEF Settle, TypeOK

\* Every step that writes intents or payOutbox writes well-typed rows.
LEMMA WritesTyped ==
  ASSUME TypeOK, TasksAreBacked, [Next]_vars
  PROVE  intents' \in [Key -> Intent \union {NoIntent}] /\ payOutbox' \subseteq PayEvent
  <1>1. ASSUME NEW c \in checkouts, createIntent(c)
        PROVE  intents' \in [Key -> Intent \union {NoIntent}] /\ payOutbox' \subseteq PayEvent
    <2>1. c.key \in Key /\ c.seat \in Seat /\ c.hold \in HoldId
      BY DEF TypeOK, Checkout
    <2>2. [status |-> "PENDING", seat |-> c.seat, hold |-> c.hold] \in Intent
      BY <2>1 DEF Intent
    <2> QED BY <1>1, <2>1, <2>2 DEF createIntent, TypeOK
  <1>2. CASE UNCHANGED <<intents, payOutbox>>
    BY <1>2 DEF TypeOK
  <1> QED BY <1>1, <1>2, StepCases, SettleType

\* The other tables and the running tasks stay well typed.
LEMMA RestTyped ==
  ASSUME TypeOK, TasksAreBacked, [Next]_vars
  PROVE  /\ checkouts' \subseteq Checkout
         /\ inbox' \in [WebhookId -> Hook \union {NoHook}]
         /\ tasks' \subseteq Task
         /\ lostTasks' \in 0..MaxFailures
  <1> DEFINE Rest == /\ checkouts' \subseteq Checkout
                     /\ inbox' \in [WebhookId -> Hook \union {NoHook}]
                     /\ tasks' \subseteq Task
                     /\ lostTasks' \in 0..MaxFailures
  <1>1. ASSUME NEW k \in Key, NEW s \in Seat, NEW h \in HoldId, StartCheckout(k, s, h)
        PROVE  Rest
    BY <1>1 DEF StartCheckout, TypeOK, Checkout
  <1>2. ASSUME NEW c \in checkouts, createIntent(c) PROVE Rest
    BY <1>2 DEF createIntent, TypeOK
  <1>3. ASSUME NEW i \in WebhookId, NEW type \in HookType, NEW k \in Key, webhook(i, type, k)
        PROVE  Rest
    <2>1. [type |-> type, key |-> k, processed |-> FALSE] \in Hook
      BY DEF Hook
    <2>2. [id |-> i, trace |-> "uuid", step |-> "apply"] \in Task
      BY DEF Task
    <2> QED BY <1>3, <2>1, <2>2 DEF webhook, TypeOK
  <1>4. ASSUME NEW i \in WebhookId, reprocess(i) PROVE Rest
    <2>1. [id |-> i, trace |-> "reprocess-uuid", step |-> "apply"] \in Task
      BY DEF Task
    <2> QED BY <1>4, <2>1 DEF reprocess, TypeOK
  <1>5. ASSUME NEW t \in tasks, processEvent(t) PROVE Rest
    <2>1. [t EXCEPT !.step = "mark"] \in Task
      BY DEF TypeOK, Task
    <2> QED BY <1>5, <2>1 DEF processEvent, NextTaskStep, TypeOK
  <1>6. ASSUME NEW t \in tasks, markWebhookProcessed(t) PROVE Rest
    <2>1. t.id \in WebhookId /\ inbox[t.id] \in Hook
      BY HookTypes DEF TypeOK, Task, TasksAreBacked
    <2>2. [inbox[t.id] EXCEPT !.processed = TRUE] \in Hook
      BY <2>1 DEF Hook
    <2>3. inbox' = [inbox EXCEPT ![t.id] = [inbox[t.id] EXCEPT !.processed = TRUE]]
      BY <1>6 DEF markWebhookProcessed
    <2>4. inbox' \in [WebhookId -> Hook \union {NoHook}]
      BY <2>1, <2>2, <2>3 DEF TypeOK
    <2> QED BY <1>6, <2>4 DEF markWebhookProcessed, TypeOK
  <1>7. ASSUME NEW t \in tasks, TaskLost(t) PROVE Rest
    BY <1>7, PaymentServiceAssumption DEF TaskLost, TypeOK
  <1>8. ASSUME NEW s \in Seat, markFailedBySeatId(s) PROVE Rest
    BY <1>8 DEF markFailedBySeatId, TypeOK
  <1>9. CASE UNCHANGED vars
    BY <1>9 DEF vars, TypeOK
  <1> QED BY <1>1, <1>2, <1>3, <1>4, <1>5, <1>6, <1>7, <1>8, <1>9 DEF Next

----------------------------------------------------------------------------
(* What never goes away *)

\* Intents stay, and settled ones stay as they are.
LEMMA IntentsPersist ==
  ASSUME TypeOK, TasksAreBacked, [Next]_vars, NEW k \in Key, intents[k] # NoIntent
  PROVE  /\ intents'[k] # NoIntent
         /\ Settled(k) => intents'[k] = intents[k]
  <1>1. ASSUME NEW F \in SUBSET Key, NEW st \in {"COMPLETED", "FAILED"}, NEW m, Settle(F, st, m)
        PROVE  intents'[k] # NoIntent /\ (Settled(k) => intents'[k] = intents[k])
    <2>1. k \in F => intents'[k].status = st
      BY <1>1, SettleEffect
    <2>3. k \in F => intents[k].status = "PENDING"
      BY <1>1, SettlePending
    <2>2. k \notin F => intents'[k] = intents[k]
      BY <1>1, SettleEffect
    <2> QED BY <2>1, <2>2, <2>3, AbsentRows DEF Settled
  <1>2. ASSUME NEW c \in checkouts, createIntent(c)
        PROVE  intents'[k] = intents[k]
    BY <1>2 DEF createIntent, TypeOK
  <1> QED BY <1>1, <1>2, StepCases

\* Inbox rows stay, about the same intent and of the same type.
LEMMA HooksPersist ==
  ASSUME TypeOK, TasksAreBacked, [Next]_vars, NEW i \in WebhookId, inbox[i] # NoHook
  PROVE  inbox'[i] # NoHook /\ inbox'[i].type = inbox[i].type /\ inbox'[i].key = inbox[i].key
  <1>1. ASSUME NEW t \in tasks, markWebhookProcessed(t)
        PROVE  inbox'[i].type = inbox[i].type /\ inbox'[i].key = inbox[i].key
    <2>1. t.id \in WebhookId /\ inbox[t.id] \in Hook /\ inbox \in [WebhookId -> Hook \union {NoHook}]
      BY HookTypes DEF TypeOK, Task, TasksAreBacked
    <2>2. inbox' = [inbox EXCEPT ![t.id] = [inbox[t.id] EXCEPT !.processed = TRUE]]
      BY <1>1 DEF markWebhookProcessed
    <2> QED BY <2>1, <2>2 DEF Hook
  <1>2. ASSUME NEW j \in WebhookId, NEW type \in HookType, NEW k \in Key, webhook(j, type, k)
        PROVE  inbox'[i] = inbox[i]
    BY <1>2 DEF webhook, TypeOK
  <1>3. CASE UNCHANGED inbox
    BY <1>3
  <1>4. \/ UNCHANGED inbox
        \/ \E t \in tasks : markWebhookProcessed(t)
        \/ \E j \in WebhookId, type \in HookType, k \in Key : webhook(j, type, k)
    BY DEF Next, StartCheckout, createIntent, reprocess, processEvent, TaskLost,
           markFailedBySeatId, vars
  <1>5. inbox[i].type \in HookType
    BY HookTypes
  <1> QED BY <1>1, <1>2, <1>3, <1>4, <1>5, AbsentRows DEF HookType

\* A task that exists after a step existed before, or is new and at "apply",
\* or has just had its effect.
LEMMA TasksStep ==
  ASSUME TypeOK, TasksAreBacked, [Next]_vars, NEW t \in tasks'
  PROVE  \/ t \in tasks
         \/ t.step = "apply" /\ t.id \in WebhookId /\ inbox'[t.id] # NoHook
         \/ \E u \in tasks : processEvent(u) /\ t.id = u.id
  <1>1. ASSUME NEW i \in WebhookId, NEW type \in HookType, NEW k \in Key, webhook(i, type, k),
               t \notin tasks
        PROVE  t.step = "apply" /\ t.id \in WebhookId /\ inbox'[t.id] # NoHook
    <2>1. t = [id |-> i, trace |-> "uuid", step |-> "apply"]
      BY <1>1 DEF webhook
    <2>2. inbox'[i] = [type |-> type, key |-> k, processed |-> FALSE]
      BY <1>1 DEF webhook, TypeOK
    <2> QED BY <2>1, <2>2, AbsentRows DEF HookType
  <1>2. ASSUME NEW i \in WebhookId, reprocess(i), t \notin tasks
        PROVE  t.step = "apply" /\ t.id \in WebhookId /\ inbox'[t.id] # NoHook
    BY <1>2 DEF reprocess
  <1>3. ASSUME NEW u \in tasks, processEvent(u), t \notin tasks
        PROVE  t.id = u.id
    BY <1>3 DEF processEvent, NextTaskStep, TypeOK, Task
  <1>4. CASE \/ UNCHANGED tasks
             \/ \E u \in tasks : markWebhookProcessed(u) \/ TaskLost(u)
    BY <1>4 DEF markWebhookProcessed, TaskLost
  <1>5. \/ UNCHANGED tasks
        \/ \E u \in tasks : markWebhookProcessed(u) \/ TaskLost(u) \/ processEvent(u)
        \/ \E i \in WebhookId, type \in HookType, k \in Key : webhook(i, type, k)
        \/ \E i \in WebhookId : reprocess(i)
    BY DEF Next, StartCheckout, createIntent, markFailedBySeatId, vars
  <1> QED BY <1>1, <1>2, <1>3, <1>4, <1>5

\* The strengthening is preserved.
LEMMA BackedStep ==
  ASSUME TypeOK, TasksAreBacked, [Next]_vars
  PROVE  TasksAreBacked'
  <1>1. ASSUME NEW i \in WebhookId, inbox'[i] # NoHook
        PROVE  intents'[inbox'[i].key] # NoIntent
    <2>1. CASE inbox[i] # NoHook
      <3>1. inbox[i].key \in Key /\ intents[inbox[i].key] # NoIntent
        BY <2>1, HookTypes DEF TasksAreBacked
      <3> QED BY <2>1, <3>1, HooksPersist, IntentsPersist
    <2>2. CASE inbox[i] = NoHook
      <3>1. PICK j \in WebhookId, type \in HookType, k \in Key : webhook(j, type, k)
        <4>1. ASSUME NEW t \in tasks, markWebhookProcessed(t) PROVE inbox'[i] = inbox[i]
          BY <2>2, <4>1 DEF markWebhookProcessed, TypeOK, Task, TasksAreBacked
        <4> QED BY <1>1, <2>2, <4>1 DEF Next, StartCheckout, createIntent, reprocess,
                   processEvent, TaskLost, markFailedBySeatId, vars
      <3>2. i = j /\ inbox'[i].key = k /\ intents' = intents /\ intents[k] # NoIntent
        BY <1>1, <2>2, <3>1 DEF webhook, TypeOK
      <3> QED BY <3>2
    <2> QED BY <2>1, <2>2
  <1>2. ASSUME NEW t \in tasks, inbox[t.id] # NoHook
        PROVE  inbox'[t.id] # NoHook
    BY <1>2, HooksPersist DEF TypeOK, Task
  <1>3. ASSUME NEW t \in tasks' PROVE inbox'[t.id] # NoHook
    BY <1>3, <1>2, TasksStep DEF TasksAreBacked
  <1>4. ASSUME NEW t \in tasks', t.step = "mark", inbox'[t.id].type # "other"
        PROVE  intents'[inbox'[t.id].key].status \in {"COMPLETED", "FAILED"}
    <2>1. CASE t \in tasks
      <3>1. t.id \in WebhookId /\ inbox[t.id] # NoHook
        BY <2>1 DEF TypeOK, Task, TasksAreBacked
      <3>2. inbox'[t.id].type = inbox[t.id].type /\ inbox'[t.id].key = inbox[t.id].key
        BY <3>1, HooksPersist
      <3>3. inbox[t.id].key \in Key /\ intents[inbox[t.id].key] # NoIntent
        BY <3>1, HookTypes DEF TasksAreBacked
      <3>4. Settled(inbox[t.id].key)
        BY <1>4, <2>1, <3>2 DEF TasksAreBacked
      <3> QED BY <3>2, <3>3, <3>4, IntentsPersist DEF Settled
    <2>2. ASSUME NEW u \in tasks, processEvent(u), t.id = u.id
          PROVE  intents'[inbox'[t.id].key].status \in {"COMPLETED", "FAILED"}
      <3>1. inbox' = inbox
        BY <2>2 DEF processEvent
      <3> QED BY <1>4, <2>2, <3>1, ProcessCases
    <2> QED BY <1>4, <2>1, <2>2, TasksStep
  <1> QED BY <1>1, <1>3, <1>4 DEF TasksAreBacked, Settled

\* Type correctness and the strengthening are inductive together.
LEMMA CoreInvariant == Spec => [](TypeOK /\ TasksAreBacked)
  <1>1. Init => TypeOK /\ TasksAreBacked
    BY PaymentServiceAssumption DEF Init, TypeOK, TasksAreBacked
  <1>2. TypeOK /\ TasksAreBacked /\ [Next]_vars => TypeOK' /\ TasksAreBacked'
    <2> SUFFICES ASSUME TypeOK, TasksAreBacked, [Next]_vars
                 PROVE  TypeOK' /\ TasksAreBacked'
      OBVIOUS
    <2>1. TypeOK'
      BY WritesTyped, RestTyped DEF TypeOK
    <2> QED BY <2>1, BackedStep
  <1> QED BY <1>1, <1>2, PTL DEF Spec

\* Every reachable state of the payment service is well typed.
THEOREM TypeCorrect == Spec => []TypeOK
  BY CoreInvariant, PTL

----------------------------------------------------------------------------
(* The properties *)

\* For any number of webhooks, tasks and releases, an intent that has been
\* settled is never written again: the WHERE status = 'PENDING' of the three
\* UPDATEs and the unique key of the INSERT are enough.
THEOREM SettledIntentsFinal == Spec => SettledIntentsNeverChange
  <1>1. TypeOK /\ TasksAreBacked /\ [Next]_vars
          => [\A k \in Key : Settled(k) => intents'[k] = intents[k]]_vars
    <2> SUFFICES ASSUME TypeOK, TasksAreBacked, [Next]_vars, NEW k \in Key, Settled(k)
                 PROVE  intents'[k] = intents[k]
      OBVIOUS
    <2>1. intents[k] # NoIntent
      BY AbsentRows DEF Settled
    <2> QED BY <2>1, IntentsPersist
  <1> QED BY <1>1, CoreInvariant, PTL DEF Spec, SettledIntentsNeverChange

\* Each conjunct of EventsMatchIntents survives a settling step.
LEMMA MatchSettle ==
  ASSUME TypeOK, EventsMatchIntents, NEW F \in SUBSET Key, NEW st \in {"COMPLETED", "FAILED"},
         NEW m \in PayEvent, Settle(F, st, m)
  PROVE  EventsMatchIntents'
  <1>1. \A n \in payOutbox : n.key \in Key /\ n.key \notin F
    <2>1. \A k \in F : intents[k].status = "PENDING"
      BY SettlePending
    <2> QED BY <2>1 DEF EventsMatchIntents, TypeOK, PayEvent
  <1>7. /\ \A k \in F : intents'[k].status = st /\ intents'[k].hold = intents[k].hold
        /\ \A k \in Key \ F : intents'[k] = intents[k]
    BY SettleEffect
  <1>2. /\ payOutbox' = payOutbox \union {m} /\ m.key \in F
        /\ m.hold = intents[m.key].hold
        /\ m.type = (IF st = "COMPLETED" THEN "payment.succeeded" ELSE "payment.failed")
        /\ st = "COMPLETED" => F = {m.key}
    BY DEF Settle
  <1>3. \A n \in payOutbox : intents'[n.key] = intents[n.key]
    BY <1>1, <1>7
  <1>4. \A n \in payOutbox' :
           /\ intents'[n.key].status = IF n.type = "payment.succeeded" THEN "COMPLETED" ELSE "FAILED"
           /\ intents'[n.key].hold = n.hold
    <2>1. ASSUME NEW n \in payOutbox
          PROVE  /\ intents'[n.key].status =
                       IF n.type = "payment.succeeded" THEN "COMPLETED" ELSE "FAILED"
                 /\ intents'[n.key].hold = n.hold
      BY <1>3 DEF EventsMatchIntents
    <2>2. /\ intents'[m.key].status =
                IF m.type = "payment.succeeded" THEN "COMPLETED" ELSE "FAILED"
          /\ intents'[m.key].hold = m.hold
      BY <1>2, <1>7
    <2> QED BY <1>2, <2>1, <2>2
  <1>5. \A n, o \in payOutbox' : n.key = o.key => n = o
    BY <1>1, <1>2 DEF EventsMatchIntents
  <1>6. \A k \in Key : intents'[k].status = "COMPLETED" => \E n \in payOutbox' : n.key = k
    <2> SUFFICES ASSUME NEW k \in Key, intents'[k].status = "COMPLETED"
                 PROVE  \E n \in payOutbox' : n.key = k
      OBVIOUS
    <2>1. CASE k \in F
      BY <1>2, <1>7, <2>1
    <2>2. CASE k \notin F
      BY <1>2, <1>7, <2>2 DEF EventsMatchIntents
    <2> QED BY <2>1, <2>2
  <1> QED BY <1>4, <1>5, <1>6 DEF EventsMatchIntents

\* There is one event at most about an intent, it names the intent's hold and
\* final status, and a completed payment has one: exactly-once bookkeeping on
\* the way into the outbox, whatever duplicates come in.
THEOREM EventsTruthful == Spec => []EventsMatchIntents
  <1>1. Init => EventsMatchIntents
    BY AbsentRows DEF Init, EventsMatchIntents
  <1>2. TypeOK /\ TasksAreBacked /\ EventsMatchIntents /\ [Next]_vars => EventsMatchIntents'
    <2> SUFFICES ASSUME TypeOK, TasksAreBacked, EventsMatchIntents, [Next]_vars
                 PROVE  EventsMatchIntents'
      OBVIOUS
    <2>1. ASSUME NEW c \in checkouts, createIntent(c) PROVE EventsMatchIntents'
      <3>1. c.key \in Key
        BY DEF TypeOK, Checkout
      <3>2. payOutbox' = payOutbox /\ \A k \in Key : intents[k] # NoIntent => intents'[k] = intents[k]
        BY <2>1, <3>1 DEF createIntent, TypeOK
      <3>3. \A k \in Key : intents'[k] = intents[k] \/ intents'[k].status = "PENDING"
        BY <2>1, <3>1 DEF createIntent, TypeOK
      <3>4. \A n \in payOutbox : n.key \in Key /\ intents[n.key] # NoIntent
        BY AbsentRows DEF EventsMatchIntents, TypeOK, PayEvent
      <3> QED BY <3>2, <3>3, <3>4 DEF EventsMatchIntents
    <2>2. CASE UNCHANGED <<intents, payOutbox>>
      BY <2>2 DEF EventsMatchIntents
    <2> QED BY <2>1, <2>2, StepCases, MatchSettle
  <1> QED BY <1>1, <1>2, CoreInvariant, PTL DEF Spec

\* A webhook marked processed has taken effect: the mark never overtakes the
\* settling of the intent, in whatever order tasks and crashes come.
THEOREM ProcessedIsSettled == Spec => []ProcessedMeansSettled
  <1>1. Init => ProcessedMeansSettled
    BY DEF Init, ProcessedMeansSettled
  <1>2. TypeOK /\ TasksAreBacked /\ ProcessedMeansSettled /\ [Next]_vars => ProcessedMeansSettled'
    <2> SUFFICES ASSUME TypeOK, TasksAreBacked, ProcessedMeansSettled, [Next]_vars,
                        NEW i \in WebhookId,
                        inbox'[i] # NoHook, inbox'[i].processed, inbox'[i].type # "other"
                 PROVE  intents'[inbox'[i].key].status \in {"COMPLETED", "FAILED"}
      BY DEF ProcessedMeansSettled, Settled
    <2>1. ASSUME inbox[i] # NoHook, Settled(inbox[i].key)
          PROVE  intents'[inbox'[i].key].status \in {"COMPLETED", "FAILED"}
      <3>1. inbox[i].key \in Key /\ intents[inbox[i].key] # NoIntent
        BY <2>1, HookTypes DEF TasksAreBacked
      <3> QED BY <2>1, <3>1, HooksPersist, IntentsPersist DEF Settled
    <2>2. CASE inbox'[i] = inbox[i]
      BY <2>1, <2>2 DEF ProcessedMeansSettled
    <2>3. ASSUME NEW t \in tasks, markWebhookProcessed(t), inbox'[i] # inbox[i]
          PROVE  intents'[inbox'[i].key].status \in {"COMPLETED", "FAILED"}
      <3>1. i = t.id /\ t.step = "mark"
        BY <2>3 DEF markWebhookProcessed, TypeOK
      <3>2. inbox[i] # NoHook /\ inbox'[i].type = inbox[i].type
        BY <3>1, HooksPersist DEF TasksAreBacked
      <3> QED BY <2>1, <3>1, <3>2 DEF TasksAreBacked
    <2>4. ASSUME NEW j \in WebhookId, NEW type \in HookType, NEW k \in Key, webhook(j, type, k),
                 inbox'[i] # inbox[i]
          PROVE  ~inbox'[i].processed
      BY <2>4 DEF webhook, TypeOK
    <2> QED BY <2>2, <2>3, <2>4 DEF Next, StartCheckout, createIntent, reprocess,
               processEvent, TaskLost, markFailedBySeatId, vars
  <1> QED BY <1>1, <1>2, CoreInvariant, PTL DEF Spec

\* A payment is COMPLETED only if the PSP reported its success.
THEOREM CompletedIsPaid == Spec => []CompletedOnlyIfPaid
  <1>1. Init => CompletedOnlyIfPaid
    BY AbsentRows DEF Init, CompletedOnlyIfPaid
  <1>2. TypeOK /\ TasksAreBacked /\ CompletedOnlyIfPaid /\ [Next]_vars => CompletedOnlyIfPaid'
    <2> SUFFICES ASSUME TypeOK, TasksAreBacked, CompletedOnlyIfPaid, [Next]_vars,
                        NEW k \in Key, intents'[k].status = "COMPLETED"
                 PROVE  \E i \in WebhookId : inbox'[i].type = "succeeded" /\ inbox'[i].key = k
      BY DEF CompletedOnlyIfPaid
    <2>1. ASSUME NEW i \in WebhookId, inbox[i].type = "succeeded", inbox[i].key = k
          PROVE  inbox'[i].type = "succeeded" /\ inbox'[i].key = k
      BY <2>1, HooksPersist, AbsentRows
    <2>2. CASE intents[k].status = "COMPLETED"
      BY <2>1, <2>2 DEF CompletedOnlyIfPaid
    <2>3. ASSUME NEW F \in SUBSET Key, NEW m \in PayEvent, Settle(F, "COMPLETED", m),
                 NEW i \in WebhookId, inbox[i].type = "succeeded", inbox[i].key = m.key,
                 intents[k].status # "COMPLETED"
          PROVE  inbox[i].key = k
      <3>1. F = {m.key}
        BY <2>3 DEF Settle
      <3> QED BY <2>3, <3>1, SettleEffect
    <2>4. ASSUME NEW F \in SUBSET Key, NEW m \in PayEvent, Settle(F, "FAILED", m)
          PROVE  intents[k].status = "COMPLETED"
      BY <2>4, SettleEffect
    <2>5. ASSUME NEW c \in checkouts, createIntent(c) PROVE intents[k].status = "COMPLETED"
      BY <2>5 DEF createIntent, TypeOK, Checkout
    <2> QED BY <2>1, <2>2, <2>3, <2>4, <2>5, StepCases
  <1> QED BY <1>1, <1>2, CoreInvariant, PTL DEF Spec
=============================================================================
