----------------------------- MODULE SeatLease -----------------------------
(***************************************************************************)
(* What the holds table, its two partial unique indexes, the status column *)
(* of seats and five transactions are there for: every seat is a lease.    *)
(* It has one tenant at most, a user is the tenant of one seat at most, a  *)
(* new tenant can only take over from one whose time is over, and the seat *)
(* map shows HELD from the moment a lease starts to the moment it ends.    *)
(*                                                                         *)
(* A sold seat can be let again: nothing in the service prevents it.       *)
(***************************************************************************)
CONSTANTS Seat, User, HoldId

VARIABLES
    tenant,      \* [Seat -> set of leases [hold, user] that run on the seat]
    over,        \* leases whose time is over, ended or not
    used,        \* hold ids given out so far
    shown        \* [Seat -> what the seat map says]

lvars == <<tenant, over, used, shown>>

LeaseInit ==
    /\ tenant = [s \in Seat |-> {}]
    /\ over = {}
    /\ used = {}
    /\ shown = [s \in Seat |-> "AVAILABLE"]

TimeOver(s) ==
    /\ \E l \in tenant[s] : l.hold \notin over /\ over' = over \union {l.hold}
    /\ UNCHANGED <<tenant, used, shown>>

\* The seat is free, or the time of its tenant is over; the user rents no other.
Let(s, u, h) ==
    /\ h \notin used
    /\ \A l \in tenant[s] : l.hold \in over
    /\ \A t \in Seat \ {s} : \A l \in tenant[t] : l.user # u
    /\ tenant' = [tenant EXCEPT ![s] = {[hold |-> h, user |-> u]}]
    /\ used' = used \union {h}
    /\ shown' = [shown EXCEPT ![s] = "HELD"]
    /\ UNCHANGED over

\* The leases on the seats Z end: cancelled, unpaid or out of time.
Vacate(Z) ==
    /\ \A s \in Z : tenant[s] # {}
    /\ tenant' = [s \in Seat |-> IF s \in Z THEN {} ELSE tenant[s]]
    /\ shown' = [s \in Seat |-> IF s \in Z THEN "AVAILABLE" ELSE shown[s]]
    /\ UNCHANGED <<over, used>>

\* The tenant has paid.
Sell(s) ==
    /\ tenant[s] # {}
    /\ tenant' = [tenant EXCEPT ![s] = {}]
    /\ shown' = [shown EXCEPT ![s] = "RESERVED"]
    /\ UNCHANGED <<over, used>>

LeaseNext ==
    \/ \E s \in Seat : TimeOver(s) \/ Sell(s)
    \/ \E s \in Seat, u \in User, h \in HoldId : Let(s, u, h)
    \/ \E Z \in SUBSET Seat : Vacate(Z)

LeaseSpec == LeaseInit /\ [][LeaseNext]_lvars
=============================================================================
