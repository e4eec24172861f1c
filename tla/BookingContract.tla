-------------------------- MODULE BookingContract --------------------------
(***************************************************************************)
(* What the whole system promises a customer, as if one party saw both     *)
(* databases at once: no queues, no outboxes, no inbox, no retries.        *)
(* A hold is placed once and ends once, reserved or released; a payment is *)
(* ordered for one hold and settled once; a reservation is made in a       *)
(* single step that spends a completed payment for that very hold.         *)
(*                                                                         *)
(* What it does not promise is the refund nobody wrote: a payment may      *)
(* complete for a hold that has been released.                             *)
(***************************************************************************)
CONSTANTS HoldId, Key

VARIABLES
    stage,       \* [HoldId -> "NONE" | "HELD" | "RESERVED" | "RELEASED"]
    payment,     \* by key: NoPayment, or its status and the hold it is for
    spent        \* keys whose payment has bought a reservation

cvars == <<stage, payment, spent>>

NoPayment == [status |-> "NONE"]

ContractInit ==
    /\ stage = [h \in HoldId |-> "NONE"]
    /\ payment = [k \in Key |-> NoPayment]
    /\ spent = {}

\* A new hold; those of Lapsed make room for it.
PlaceHold(h, Lapsed) ==
    /\ stage[h] = "NONE"
    /\ \A g \in Lapsed : stage[g] = "HELD"
    /\ stage' = [g \in HoldId |-> IF g = h THEN "HELD"
                                  ELSE IF g \in Lapsed THEN "RELEASED" ELSE stage[g]]
    /\ UNCHANGED <<payment, spent>>

\* Holds end without a reservation.
GiveUp(R) ==
    /\ \A h \in R : stage[h] = "HELD"
    /\ stage' = [h \in HoldId |-> IF h \in R THEN "RELEASED" ELSE stage[h]]
    /\ UNCHANGED <<payment, spent>>

\* A payment is ordered for a hold the customer has been given.
Order(k, h) ==
    /\ stage[h] # "NONE"
    /\ payment[k] = NoPayment
    /\ payment' = [payment EXCEPT ![k] = [status |-> "PENDING", hold |-> h]]
    /\ UNCHANGED <<stage, spent>>

\* Payments settle, all of them the same way.
Settle(K, st) ==
    /\ \A k \in K : payment[k].status = "PENDING"
    /\ payment' = [k \in Key |-> IF k \in K THEN [status |-> st, hold |-> payment[k].hold]
                                 ELSE payment[k]]
    /\ UNCHANGED <<stage, spent>>

Pay(k) == Settle({k}, "COMPLETED")
Cancel(K) == Settle(K, "FAILED")

\* The reservation: a completed payment, not spent yet, for a hold still HELD.
Reserve(k) ==
    /\ payment[k].status = "COMPLETED"
    /\ k \notin spent
    /\ stage[payment[k].hold] = "HELD"
    /\ stage' = [stage EXCEPT ![payment[k].hold] = "RESERVED"]
    /\ spent' = spent \union {k}
    /\ UNCHANGED payment

ContractNext ==
    \/ \E h \in HoldId, R \in SUBSET HoldId : PlaceHold(h, R)
    \/ \E R \in SUBSET HoldId : GiveUp(R)
    \/ \E k \in Key, h \in HoldId : Order(k, h)
    \/ \E k \in Key : Pay(k) \/ Reserve(k)
    \/ \E K \in SUBSET Key : Cancel(K)

ContractSpec == ContractInit /\ [][ContractNext]_cvars
=============================================================================
