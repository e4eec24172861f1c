---------------------------- MODULE SeatService ----------------------------
(***************************************************************************)
(* The seat-reservation service over its database (seat_db): the tables    *)
(* seats, holds, outbox and consumed_events, and every transaction that    *)
(* writes them.                                                            *)
(*                                                                         *)
(* Each database transaction is one action.  They are serialisable: every  *)
(* transaction on a hold takes the row lock of that hold, the partial      *)
(* unique indexes make an INSERT wait for the transaction that owns the    *)
(* conflicting row, and insertHoldTx runs SERIALIZABLE, so a transaction   *)
(* that would see a torn state is aborted instead.  An aborted             *)
(* transaction, a crashed request, a 409 and an idempotent no-op all       *)
(* leave the tables as they were: they are stuttering steps.  What does    *)
(* interleave is the HTTP handler that looks a hold up and releases it in  *)
(* two statements, the sweeper, the message consumer and the clock.        *)
(*                                                                         *)
(* The clock appears only through the predicate held_until < NOW() of a    *)
(* hold, which once true stays true; `expired' is the set of holds it is   *)
(* true of.  held_until is computed from the application's clock before    *)
(* a connection is obtained and is compared with the database's, so a      *)
(* hold may expire at any moment after its insertion.                      *)
(***************************************************************************)
EXTENDS Integers, FiniteSets

CONSTANTS
    Seat,       \* rows of seats, seeded by the migrations, never added to
    User,       \* authenticated users
    HoldId,     \* the UUIDs a run may draw for holds.id (bound of the model)
    EventId,    \* the eventIds of payment.succeeded.v1 messages
    SweepLimit  \* SWEEP_BATCH_LIMIT

ASSUME SeatServiceAssumption ==
    /\ IsFiniteSet(HoldId)
    /\ IsFiniteSet(EventId)
    /\ SweepLimit \in Nat \ {0}

VARIABLES
    seats,      \* seats.status, by seat
    holds,      \* rows of holds, by id (NoRow when there is none)
    expired,    \* holds whose held_until lies in the past
    outbox,     \* every row ever appended to seat_db.outbox
    consumed,   \* event ids in consumed_events
    cancelling  \* holds found by a release request that has not written yet

vars == <<seats, holds, expired, outbox, consumed, cancelling>>

SeatStatus == {"AVAILABLE", "HELD", "RESERVED"}
HoldRow == [status : {"HELD", "RESERVED", "RELEASED"}, seat : Seat, user : User]
NoRow == [status |-> "NONE"]

\* A row of outbox: aggregate_id is the hold, the payload names the seat.
OutboxRow == [type : {"seat.held", "seat.reserved", "seat.released"},
              hold : HoldId, seat : Seat]

\* Faulty variant: the payload carries the user where the seat belongs.
HeldWrongColumn(h) == [type |-> "seat.held", hold |-> h, seat |-> holds'[h].user]
Held(h) == [type |-> "seat.held", hold |-> h, seat |-> holds'[h].seat]
Reserved(h) == [type |-> "seat.reserved", hold |-> h, seat |-> holds[h].seat]
Released(h) == [type |-> "seat.released", hold |-> h, seat |-> holds[h].seat]

IsHeld(h) == holds[h].status = "HELD"
HeldOn(s) == {h \in HoldId : IsHeld(h) /\ holds[h].seat = s}
HeldBy(u) == {h \in HoldId : IsHeld(h) /\ holds[h].user = u}

----------------------------------------------------------------------------

Init ==
    /\ seats = [s \in Seat |-> "AVAILABLE"]
    /\ holds = [h \in HoldId |-> NoRow]
    /\ expired = {}
    /\ outbox = {}
    /\ consumed = {}
    /\ cancelling = {}

\* The clock passes the held_until of hold h.
HoldExpires(h) ==
    /\ IsHeld(h)
    /\ h \notin expired
    /\ expired' = expired \union {h}
    /\ UNCHANGED <<seats, holds, outbox, consumed, cancelling>>

(***************************************************************************)
(* POST /seats/:id/hold.  The lazy cleanup releases the expired hold of    *)
(* this seat, and appends no outbox row for it.  The two partial unique    *)
(* indexes cover HELD rows only; a violation rolls the cleanup back too.   *)
(* seats.status is written without being read: a RESERVED seat can be      *)
(* held again.                                                             *)
(***************************************************************************)
\* Faulty variant: the cleanup lacks held_until < NOW().
CleanAnyHold(s) == HeldOn(s)
LazilyCleaned(s) == HeldOn(s) \intersect expired
uniq_active_hold_per_seat(s) == HeldOn(s) \subseteq LazilyCleaned(s)
\* Faulty variant: no partial unique index on user_id.
NoUserIndex(s, u) == TRUE
uniq_active_hold_per_user(s, u) == HeldBy(u) \subseteq LazilyCleaned(s)

insertHoldTx(s, u, h) ==
    /\ holds[h] = NoRow
    /\ uniq_active_hold_per_seat(s)
    /\ uniq_active_hold_per_user(s, u)
    /\ holds' = [g \in HoldId |->
                    IF g = h THEN [status |-> "HELD", seat |-> s, user |-> u]
                    ELSE IF g \in LazilyCleaned(s)
                         THEN [holds[g] EXCEPT !.status = "RELEASED"]
                         ELSE holds[g]]
    /\ seats' = [seats EXCEPT ![s] = "HELD"]
    /\ outbox' = outbox \union {Held(h)}
    /\ UNCHANGED <<expired, consumed, cancelling>>

(***************************************************************************)
(* The writes a release makes for the holds R, whoever asks for it: the    *)
(* holds turn RELEASED, a seat without a HELD row becomes AVAILABLE (its   *)
(* status is not read), and each hold gets an outbox row.                  *)
(***************************************************************************)
\* Faulty variant: the seat is reopened only if it has no hold at all left.
FreedIfNoHoldRow(R) ==
    {s \in {holds[h].seat : h \in R} :
        \A g \in HoldId \ R : holds[g] # NoRow => holds[g].seat # s}
FreedSeats(R) == {s \in {holds[h].seat : h \in R} : HeldOn(s) \subseteq R}

ReleaseRows(R) ==
    /\ holds' = [h \in HoldId |-> IF h \in R
                                  THEN [holds[h] EXCEPT !.status = "RELEASED"]
                                  ELSE holds[h]]
    /\ seats' = [s \in Seat |-> IF s \in FreedSeats(R) THEN "AVAILABLE" ELSE seats[s]]
    /\ outbox' = outbox \union {Released(h) : h \in R}
    /\ UNCHANGED <<expired, consumed>>

\* Faulty variant: the UPDATE lacks AND status = 'HELD'.
ReleaseAnyHold(h) == holds[h] # NoRow /\ ReleaseRows({h})

\* HoldsRepository.releaseHold, when its UPDATE finds the row still HELD.
releaseHold(h) == IsHeld(h) /\ ReleaseRows({h})

\* POST /seats/:id/release, first statement: findActiveHoldForSeat, kept
\* when the hold belongs to the requester u.
FindHoldToCancel(s, u) ==
    \E h \in HeldOn(s) :
        /\ holds[h].user = u
        /\ h \notin cancelling
        /\ cancelling' = cancelling \union {h}
        /\ UNCHANGED <<seats, holds, expired, outbox, consumed>>

\* ... second statement: releaseHold with the id read before.
CancelHold(h) ==
    /\ h \in cancelling
    /\ cancelling' = cancelling \ {h}
    /\ \/ releaseHold(h)
       \/ ~IsHeld(h) /\ UNCHANGED <<seats, holds, expired, outbox, consumed>>

\* Faulty variant: an off-by-one in the batch limit.
SweepBelowLimit ==
    \E R \in SUBSET {h \in expired : IsHeld(h)} :
        /\ R # {}
        /\ Cardinality(R) < SweepLimit
        /\ ReleaseRows(R)
        /\ UNCHANGED cancelling

\* One tick of HoldSweeper: any SweepLimit (or fewer, when fewer exist or
\* others are locked by a concurrent transaction) of the expired HELD rows.
Sweep ==
    \E R \in SUBSET {h \in expired : IsHeld(h)} :
        /\ R # {}
        /\ Cardinality(R) <= SweepLimit
        /\ ReleaseRows(R)
        /\ UNCHANGED cancelling

\* Faulty variants: the hold's status is not checked; a no-op commits the
\* consumed_events row instead of rolling it back.
ReserveAnyHold(h, e) ==
    /\ e \notin consumed
    /\ holds[h] # NoRow
    /\ consumed' = consumed \union {e}
    /\ holds' = [holds EXCEPT ![h].status = "RESERVED"]
    /\ seats' = [seats EXCEPT ![holds[h].seat] = "RESERVED"]
    /\ outbox' = outbox \union {Reserved(h)}
    /\ UNCHANGED <<expired, cancelling>>
ReserveBurnsEventId(h, e) ==
    /\ e \notin consumed
    /\ consumed' = consumed \union {e}
    /\ \/ /\ IsHeld(h)
          /\ holds' = [holds EXCEPT ![h].status = "RESERVED"]
          /\ seats' = [seats EXCEPT ![holds[h].seat] = "RESERVED"]
          /\ outbox' = outbox \union {Reserved(h)}
       \/ ~IsHeld(h) /\ UNCHANGED <<holds, seats, outbox>>
    /\ UNCHANGED <<expired, cancelling>>

\* PaymentEventsConsumer on payment.succeeded.v1: HoldsRepository.reserveHold.
\* A known event id, or a hold that is no longer HELD, rolls back: nothing is
\* written, the event id is not recorded, and the message is acknowledged.
reserveHold(h, e) ==
    /\ e \notin consumed
    /\ IsHeld(h)
    /\ consumed' = consumed \union {e}
    /\ holds' = [holds EXCEPT ![h].status = "RESERVED"]
    /\ seats' = [seats EXCEPT ![holds[h].seat] = "RESERVED"]
    /\ outbox' = outbox \union {Reserved(h)}
    /\ UNCHANGED <<expired, cancelling>>

\* PaymentEventsConsumer on payment.failed.v1: releaseHold, with no dedupe.
OnPaymentFailed(h) == releaseHold(h) /\ UNCHANGED cancelling

Next ==
    \/ \E h \in HoldId : \/ HoldExpires(h)
                         \/ CancelHold(h)
                         \/ OnPaymentFailed(h)
    \/ \E s \in Seat, u \in User : FindHoldToCancel(s, u)
    \/ \E s \in Seat, u \in User, h \in HoldId : insertHoldTx(s, u, h)
    \/ \E h \in HoldId, e \in EventId : reserveHold(h, e)
    \/ Sweep

\* Time passes, and the sweeper's timer keeps firing.  Users and the payment
\* service promise nothing.
Fairness ==
    /\ \A h \in HoldId : WF_vars(HoldExpires(h))
    /\ WF_vars(Sweep)

Spec == Init /\ [][Next]_vars
FairSpec == Spec /\ Fairness

----------------------------------------------------------------------------
(***************************************************************************)
(* Properties.                                                             *)
(***************************************************************************)

\* The four tables hold the values the code writes (the status columns are plain
\* text, no constraint limits them), through every transaction.
TypeOK ==
    /\ seats \in [Seat -> SeatStatus]
    /\ holds \in [HoldId -> HoldRow \union {NoRow}]
    /\ expired \subseteq HoldId
    /\ outbox \subseteq OutboxRow
    /\ consumed \subseteq EventId
    /\ cancelling \subseteq HoldId

\* However the hold requests, the sweeper, the cancellations and the payment
\* events interleave, a seat and a user have at most one HELD row each
\* (README "one active hold per seat", "one active hold per user").
OneActiveHold ==
    \A g, h \in HoldId :
        /\ IsHeld(g) /\ IsHeld(h)
        /\ holds[g].seat = holds[h].seat \/ holds[g].user = holds[h].user
        => g = h

\* The status column of seats, which the browser shows and which five
\* different statements write, agrees with the holds table: it says HELD
\* exactly while a HELD row exists, and RESERVED only if the seat was paid.
SeatMirrorsHolds ==
    \A s \in Seat :
        /\ seats[s] = "HELD" <=> HeldOn(s) # {}
        /\ seats[s] = "RESERVED" =>
              \E h \in HoldId : holds[h].status = "RESERVED" /\ holds[h].seat = s

\* The rows committed to the outbox tell the true story of every hold: a
\* seat.reserved row exists exactly for the RESERVED holds, a seat.released
\* row only for RELEASED ones (so never both), and each hold was announced.
OutboxTellsTheTruth ==
    /\ \A m \in outbox :
          /\ holds[m.hold].status # "NONE"
          /\ holds[m.hold].seat = m.seat
          /\ m.type = "seat.reserved" => holds[m.hold].status = "RESERVED"
          /\ m.type = "seat.released" => holds[m.hold].status = "RELEASED"
    /\ \A h \in HoldId :
          /\ holds[h].status # "NONE" => \E m \in outbox : m.type = "seat.held" /\ m.hold = h
          /\ holds[h].status = "RESERVED" => Reserved(h) \in outbox

\* A hold can disappear without a seat.released row in one way only: it had
\* expired, and another hold has since been placed on its seat (lazy cleanup).
SilentReleaseIsTakeover ==
    \A h \in HoldId :
        holds[h].status = "RELEASED" /\ Released(h) \notin outbox =>
            /\ h \in expired
            /\ \E g \in HoldId \ {h} :
                  holds[g].status # "NONE" /\ holds[g].seat = holds[h].seat

\* Redelivered, duplicated and concurrent payment.succeeded messages reserve
\* once: there are as many RESERVED holds as rows in consumed_events, so each
\* reservation used up an event id of its own and no id was burnt for nothing.
ReservedHolds == {h \in HoldId : holds[h].status = "RESERVED"}
OneEventPerReservation == Cardinality(ReservedHolds) = Cardinality(consumed)

\* Once a hold is RESERVED or RELEASED no late cancel, sweep, duplicate
\* payment.failed or new hold ever changes its row again.
FinishedHoldsNeverChange ==
    [][\A h \in HoldId : holds[h].status \in {"RESERVED", "RELEASED"} =>
                            holds'[h] = holds[h]]_vars

\* Four tables and five writers behave as one lease per seat: no interleaving of
\* hold requests, cancellations, sweeps and payment events ever gives a seat or
\* a user a second tenant, takes a seat from a tenant before the time is over,
\* reopens it under one, or leaves it shown as held without one.
Lease == INSTANCE SeatLease WITH
    tenant <- [s \in Seat |-> {[hold |-> h, user |-> holds[h].user] : h \in HeldOn(s)}],
    over <- expired,
    used <- {h \in HoldId : holds[h] # NoRow},
    shown <- seats
SeatsAreLeased == Lease!LeaseSpec

\* Every hold ends: it is paid, cancelled or, once it expired, swept, even
\* when it is one of more expired holds than a sweeper batch takes.
EveryHoldEnds ==
    \A h \in HoldId : IsHeld(h) ~> ~IsHeld(h)

\* "Successfully reserve the seat upon payment completion": a seat that one
\* user has reserved is not reserved for another one too.
OneReservationPerSeat ==
    \A g, h \in ReservedHolds :
        holds[g].seat = holds[h].seat => holds[g].user = holds[h].user
=============================================================================
