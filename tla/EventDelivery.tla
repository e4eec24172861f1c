--------------------------- MODULE EventDelivery ---------------------------
(***************************************************************************)
(* What the transactional outbox promises of an event (DECISIONS.md #4):   *)
(* at-least-once delivery.  Once the business transaction has committed,   *)
(* the event stays in the service's custody until the broker has it, or    *)
(* until the service gives up on it visibly (a DEAD row an operator can    *)
(* see).  It may be delivered several times, it is never dropped.          *)
(***************************************************************************)
CONSTANT Row         \* events, one outbox row each

VARIABLES
    custody,         \* [Row -> "none" | "stored" | "dead" | "discharged"]
    published        \* events the broker has accepted at least once

dvars == <<custody, published>>

DeliveryInit ==
    /\ custody = [r \in Row |-> "none"]
    /\ published = {}

Accept(r) ==         \* the business transaction commits
    /\ custody[r] = "none"
    /\ custody' = [custody EXCEPT ![r] = "stored"]
    /\ UNCHANGED published

Deliver(r) ==        \* a copy reaches the broker, possibly not the first
    /\ custody[r] # "none"
    /\ published' = published \union {r}
    /\ UNCHANGED custody

Discharge(r) ==      \* the row goes away: only after delivery
    /\ custody[r] \in {"stored", "dead"}
    /\ r \in published
    /\ custody' = [custody EXCEPT ![r] = "discharged"]
    /\ UNCHANGED published

GiveUp(r) ==         \* the row is parked, still in the table
    /\ custody[r] = "stored"
    /\ custody' = [custody EXCEPT ![r] = "dead"]
    /\ UNCHANGED published

Resume(r) ==         \* a slower replica puts a parked row back
    /\ custody[r] = "dead"
    /\ custody' = [custody EXCEPT ![r] = "stored"]
    /\ UNCHANGED published

DeliveryNext == \E r \in Row :
    Accept(r) \/ Deliver(r) \/ Discharge(r) \/ GiveUp(r) \/ Resume(r)

DeliverySpec == DeliveryInit /\ [][DeliveryNext]_dvars
=============================================================================
