------------------------- MODULE SeatServiceProofs -------------------------
(***************************************************************************)
(* Machine-checked proofs about SeatService, for any sets of seats, users, *)
(* hold ids and event ids and any batch limit.                             *)
(***************************************************************************)
EXTENDS SeatService, FiniteSetTheorems, TLAPS

\* The rows of two statuses are told apart from an absent row.
LEMMA NoRowStatus == NoRow.status = "NONE"
  BY DEF NoRow

\* What a present row looks like.
LEMMA RowType ==
  ASSUME TypeOK, NEW h \in HoldId, holds[h].status # "NONE"
  PROVE  /\ holds[h] \in HoldRow
         /\ holds[h].seat \in Seat /\ holds[h].user \in User
         /\ holds[h].status \in {"HELD", "RESERVED", "RELEASED"}
  BY NoRowStatus DEF TypeOK, HoldRow

----------------------------------------------------------------------------
(* Type correctness *)

\* A release writes well-typed rows, whoever asks for it.
LEMMA ReleaseRowsType ==
  ASSUME TypeOK, NEW R \in SUBSET HoldId, \A h \in R : IsHeld(h), ReleaseRows(R)
  PROVE  /\ seats' \in [Seat -> SeatStatus]
         /\ holds' \in [HoldId -> HoldRow \union {NoRow}]
         /\ outbox' \subseteq OutboxRow
         /\ UNCHANGED <<expired, consumed>>
  <1>1. \A h \in R : holds[h] \in HoldRow /\ holds[h].seat \in Seat
    BY RowType DEF IsHeld
  <1>2. \A h \in R : [holds[h] EXCEPT !.status = "RELEASED"] \in HoldRow
    BY <1>1 DEF HoldRow
  <1>3. holds' \in [HoldId -> HoldRow \union {NoRow}]
    BY <1>2 DEF ReleaseRows, TypeOK
  <1>4. seats' \in [Seat -> SeatStatus]
    BY DEF ReleaseRows, TypeOK, SeatStatus
  <1>5. \A h \in R : Released(h) \in OutboxRow
    BY <1>1 DEF Released, OutboxRow
  <1>6. outbox' \subseteq OutboxRow
    BY <1>5 DEF ReleaseRows, TypeOK
  <1> QED BY <1>3, <1>4, <1>6 DEF ReleaseRows

\* Every transaction, sweep and message keeps the tables well typed.
LEMMA TypeStep == TypeOK /\ [Next]_vars => TypeOK'
  <1> SUFFICES ASSUME TypeOK, [Next]_vars PROVE TypeOK'
    OBVIOUS
  <1>1. ASSUME NEW h \in HoldId, HoldExpires(h) PROVE TypeOK'
    BY <1>1 DEF HoldExpires, TypeOK
  <1>2. ASSUME NEW h \in HoldId, releaseHold(h), cancelling' \subseteq HoldId
        PROVE TypeOK'
    BY <1>2, ReleaseRowsType, {h} \in SUBSET HoldId DEF releaseHold, TypeOK
  <1>3. ASSUME NEW h \in HoldId, CancelHold(h) PROVE TypeOK'
    <2>1. cancelling' \subseteq HoldId
      BY <1>3 DEF CancelHold, TypeOK
    <2>2. CASE releaseHold(h)
      BY <1>2, <2>1, <2>2
    <2>3. CASE UNCHANGED <<seats, holds, expired, outbox, consumed>>
      BY <2>1, <2>3 DEF TypeOK
    <2> QED BY <1>3, <2>2, <2>3 DEF CancelHold
  <1>4. ASSUME NEW h \in HoldId, OnPaymentFailed(h) PROVE TypeOK'
    <2>1. cancelling' \subseteq HoldId
      BY <1>4 DEF OnPaymentFailed, TypeOK
    <2> QED BY <1>2, <1>4, <2>1 DEF OnPaymentFailed
  <1>5. ASSUME NEW s \in Seat, NEW u \in User, FindHoldToCancel(s, u) PROVE TypeOK'
    BY <1>5 DEF FindHoldToCancel, TypeOK, HeldOn
  <1>6. ASSUME NEW s \in Seat, NEW u \in User, NEW h \in HoldId, insertHoldTx(s, u, h)
        PROVE TypeOK'
    <2>1. \A g \in LazilyCleaned(s) :
             g \in HoldId /\ [holds[g] EXCEPT !.status = "RELEASED"] \in HoldRow
      BY RowType DEF LazilyCleaned, HeldOn, IsHeld, HoldRow
    <2>2. holds' \in [HoldId -> HoldRow \union {NoRow}]
      BY <1>6, <2>1 DEF insertHoldTx, TypeOK, HoldRow
    <2>3. holds'[h].seat = s
      BY <1>6 DEF insertHoldTx
    <2>4. Held(h) \in OutboxRow
      BY <2>3 DEF Held, OutboxRow
    <2>5. seats' \in [Seat -> SeatStatus]
      BY <1>6 DEF insertHoldTx, TypeOK, SeatStatus
    <2> QED BY <1>6, <2>2, <2>4, <2>5 DEF insertHoldTx, TypeOK
  <1>7. ASSUME NEW h \in HoldId, NEW e \in EventId, reserveHold(h, e) PROVE TypeOK'
    <2>1. holds[h] \in HoldRow /\ holds[h].seat \in Seat
      BY <1>7, RowType DEF reserveHold, IsHeld
    <2>2. holds' \in [HoldId -> HoldRow \union {NoRow}]
      BY <1>7, <2>1 DEF reserveHold, TypeOK, HoldRow
    <2>3. seats' \in [Seat -> SeatStatus]
      BY <1>7 DEF reserveHold, TypeOK, SeatStatus
    <2>4. Reserved(h) \in OutboxRow
      BY <2>1 DEF Reserved, OutboxRow
    <2> QED BY <1>7, <2>2, <2>3, <2>4 DEF reserveHold, TypeOK
  <1>8. CASE Sweep
    <2>1. PICK R \in SUBSET {h \in expired : IsHeld(h)} :
             ReleaseRows(R) /\ UNCHANGED cancelling
      BY <1>8 DEF Sweep
    <2>2. R \in SUBSET HoldId /\ \A h \in R : IsHeld(h)
      BY <2>1 DEF TypeOK
    <2> QED BY <2>1, <2>2, ReleaseRowsType DEF TypeOK
  <1>9. CASE UNCHANGED vars
    BY <1>9 DEF vars, TypeOK
  <1> QED BY <1>1, <1>3, <1>4, <1>5, <1>6, <1>7, <1>8, <1>9 DEF Next

\* Every reachable state of the seat service is well typed.
THEOREM TypeCorrect == Spec => []TypeOK
  <1>1. Init => TypeOK
    BY DEF Init, TypeOK, SeatStatus
  <1> QED BY <1>1, TypeStep, PTL DEF Spec

----------------------------------------------------------------------------
(* What each kind of write does to the rows of holds, field by field. *)

\* What insertHoldTx does to each row of holds.
LEMMA InsertEffect ==
  ASSUME TypeOK, NEW s \in Seat, NEW u \in User, NEW h \in HoldId, insertHoldTx(s, u, h)
  PROVE  /\ holds[h].status = "NONE"
         /\ holds'[h].status = "HELD" /\ holds'[h].seat = s /\ holds'[h].user = u
         /\ \A g \in HeldOn(s) : g \in expired /\ g # h
         /\ \A g \in HeldOn(s) : /\ holds'[g].status = "RELEASED"
                                 /\ holds'[g].seat = holds[g].seat
                                 /\ holds'[g].user = holds[g].user
         /\ \A g \in HoldId : g # h /\ g \notin HeldOn(s) => holds'[g] = holds[g]
         /\ HeldBy(u) \subseteq HeldOn(s)
  <1>1. holds[h].status = "NONE"
    BY NoRowStatus DEF insertHoldTx
  <1>2. HeldOn(s) = LazilyCleaned(s) /\ HeldOn(s) \subseteq expired
    BY DEF insertHoldTx, uniq_active_hold_per_seat, LazilyCleaned
  <1>3. \A g \in HeldOn(s) : g \in HoldId /\ IsHeld(g) /\ g # h
    BY <1>1 DEF HeldOn, IsHeld
  <1>4. holds'[h].status = "HELD" /\ holds'[h].seat = s /\ holds'[h].user = u
    BY DEF insertHoldTx
  <1>5. \A g \in HeldOn(s) : holds'[g] = [holds[g] EXCEPT !.status = "RELEASED"]
    BY <1>2, <1>3 DEF insertHoldTx
  <1>6. \A g \in HeldOn(s) : holds[g] \in HoldRow
    BY <1>3, RowType DEF IsHeld
  <1>7. \A g \in HeldOn(s) : /\ holds'[g].status = "RELEASED"
                             /\ holds'[g].seat = holds[g].seat
                             /\ holds'[g].user = holds[g].user
    BY <1>5, <1>6 DEF HoldRow
  <1>8. \A g \in HoldId : g # h /\ g \notin HeldOn(s) => holds'[g] = holds[g]
    BY <1>2 DEF insertHoldTx
  <1>9. HeldBy(u) \subseteq HeldOn(s)
    BY <1>2 DEF insertHoldTx, uniq_active_hold_per_user
  <1> QED BY <1>1, <1>2, <1>3, <1>4, <1>7, <1>8, <1>9

\* What a release does to each row of holds.
LEMMA ReleaseEffect ==
  ASSUME TypeOK, NEW R \in SUBSET HoldId, \A h \in R : IsHeld(h), ReleaseRows(R)
  PROVE  /\ \A g \in R : /\ holds'[g].status = "RELEASED"
                         /\ holds'[g].seat = holds[g].seat
                         /\ holds'[g].user = holds[g].user
         /\ \A g \in HoldId \ R : holds'[g] = holds[g]
  <1>1. \A g \in R : holds[g] \in HoldRow
    BY RowType DEF IsHeld
  <1>2. \A g \in R : holds'[g] = [holds[g] EXCEPT !.status = "RELEASED"]
    BY DEF ReleaseRows
  <1>3. \A g \in HoldId \ R : holds'[g] = holds[g]
    BY DEF ReleaseRows
  <1> QED BY <1>1, <1>2, <1>3 DEF HoldRow

\* What reserveHold does to each row of holds.
LEMMA ReserveEffect ==
  ASSUME TypeOK, NEW h \in HoldId, NEW e \in EventId, reserveHold(h, e)
  PROVE  /\ holds'[h].status = "RESERVED"
         /\ holds'[h].seat = holds[h].seat
         /\ holds'[h].user = holds[h].user
         /\ \A g \in HoldId \ {h} : holds'[g] = holds[g]
  <1>1. holds[h] \in HoldRow
    BY RowType DEF reserveHold, IsHeld
  <1>2. holds' = [holds EXCEPT ![h] = [holds[h] EXCEPT !.status = "RESERVED"]]
    BY DEF reserveHold
  <1> QED BY <1>1, <1>2 DEF HoldRow, TypeOK

(***************************************************************************)
(* Every step of the service changes the rows in one of four ways.         *)
(***************************************************************************)
LEMMA StepCases ==
  ASSUME TypeOK, [Next]_vars
  PROVE  \/ \E s \in Seat, u \in User, h \in HoldId : insertHoldTx(s, u, h)
         \/ \E R \in SUBSET HoldId : (\A h \in R : IsHeld(h)) /\ ReleaseRows(R)
         \/ \E h \in HoldId, e \in EventId : reserveHold(h, e)
         \/ /\ UNCHANGED <<seats, holds, outbox, consumed>> /\ expired \subseteq expired'
            /\ UNCHANGED expired \/ \E h \in HoldId : HoldExpires(h)
  <1>1. ASSUME NEW h \in HoldId, releaseHold(h)
        PROVE \E R \in SUBSET HoldId : (\A g \in R : IsHeld(g)) /\ ReleaseRows(R)
    <2>1. {h} \in SUBSET HoldId /\ (\A g \in {h} : IsHeld(g)) /\ ReleaseRows({h})
      BY <1>1 DEF releaseHold
    <2> QED BY <2>1
  <1>2. CASE Sweep
    <2>1. PICK R \in SUBSET {h \in expired : IsHeld(h)} : ReleaseRows(R)
      BY <1>2 DEF Sweep
    <2>2. R \in SUBSET HoldId /\ \A h \in R : IsHeld(h)
      BY <2>1 DEF TypeOK
    <2> QED BY <2>1, <2>2
  <1>3. CASE \E h \in HoldId : CancelHold(h) \/ OnPaymentFailed(h)
    BY <1>1, <1>3 DEF CancelHold, OnPaymentFailed
  <1>4. CASE \E h \in HoldId : HoldExpires(h)
    BY <1>4 DEF HoldExpires
  <1>5. CASE \E s \in Seat, u \in User : FindHoldToCancel(s, u)
    BY <1>5 DEF FindHoldToCancel
  <1>6. CASE UNCHANGED vars
    BY <1>6 DEF vars
  <1> QED BY <1>2, <1>3, <1>4, <1>5, <1>6 DEF Next

----------------------------------------------------------------------------
(* At most one active hold per seat and per user *)

\* The partial unique indexes keep HELD rows unique over every step.
LEMMA OneActiveHoldStep ==
  ASSUME TypeOK, OneActiveHold, [Next]_vars
  PROVE  OneActiveHold'
  <1> SUFFICES ASSUME NEW g \in HoldId, NEW h \in HoldId, IsHeld(g)', IsHeld(h)',
                      holds'[g].seat = holds'[h].seat \/ holds'[g].user = holds'[h].user
               PROVE  g = h
    BY DEF OneActiveHold
  <1>1. ASSUME NEW s \in Seat, NEW u \in User, NEW i \in HoldId, insertHoldTx(s, u, i)
        PROVE  g = h
    <2>1. \A f \in HoldId \ {i} : IsHeld(f)' => /\ f \notin HeldOn(s) /\ holds'[f] = holds[f]
                                               /\ IsHeld(f) /\ holds[f].seat # s
                                               /\ holds[f].user # u
      BY <1>1, InsertEffect DEF IsHeld, HeldOn, HeldBy
    <2>2. holds'[i].seat = s /\ holds'[i].user = u
      BY <1>1, InsertEffect
    <2> QED BY <2>1, <2>2 DEF OneActiveHold
  <1>2. ASSUME NEW R \in SUBSET HoldId, \A f \in R : IsHeld(f), ReleaseRows(R)
        PROVE  g = h
    BY <1>2, ReleaseEffect DEF OneActiveHold, IsHeld
  <1>3. ASSUME NEW i \in HoldId, NEW e \in EventId, reserveHold(i, e)
        PROVE  g = h
    BY <1>3, ReserveEffect DEF OneActiveHold, IsHeld
  <1>4. CASE UNCHANGED holds
    BY <1>4 DEF OneActiveHold, IsHeld
  <1> QED BY <1>1, <1>2, <1>3, <1>4, StepCases

\* For any number of replicas, users and messages, a seat and a user have at
\* most one HELD row each: what the two partial unique indexes are for.
THEOREM ActiveHoldsUnique == Spec => []OneActiveHold
  <1>1. Init => OneActiveHold
    BY NoRowStatus DEF Init, OneActiveHold, IsHeld
  <1> QED BY <1>1, TypeCorrect, OneActiveHoldStep, PTL DEF Spec

----------------------------------------------------------------------------
(* The status column of seats *)

\* The five statements that write seats.status keep it in step with holds.
LEMMA SeatMirrorsHoldsStep ==
  ASSUME TypeOK, OneActiveHold, SeatMirrorsHolds, [Next]_vars
  PROVE  SeatMirrorsHolds'
  <1> SUFFICES ASSUME NEW t \in Seat
               PROVE  /\ seats'[t] = "HELD" <=> \E h \in HoldId : IsHeld(h)' /\ holds'[h].seat = t
                      /\ seats'[t] = "RESERVED" =>
                           \E h \in HoldId : holds'[h].status = "RESERVED" /\ holds'[h].seat = t
    BY DEF SeatMirrorsHolds, HeldOn
  <1>0. /\ seats[t] = "HELD" <=> \E h \in HoldId : IsHeld(h) /\ holds[h].seat = t
        /\ seats[t] = "RESERVED" =>
             \E h \in HoldId : holds[h].status = "RESERVED" /\ holds[h].seat = t
    BY DEF SeatMirrorsHolds, HeldOn
  <1>1. ASSUME NEW s \in Seat, NEW u \in User, NEW i \in HoldId, insertHoldTx(s, u, i)
        PROVE  /\ seats'[t] = "HELD" <=> \E h \in HoldId : IsHeld(h)' /\ holds'[h].seat = t
               /\ seats'[t] = "RESERVED" =>
                    \E h \in HoldId : holds'[h].status = "RESERVED" /\ holds'[h].seat = t
    <2>1. seats' = [seats EXCEPT ![s] = "HELD"]
      BY <1>1 DEF insertHoldTx
    <2>2. IsHeld(i)' /\ holds'[i].seat = s
      BY <1>1, InsertEffect DEF IsHeld
    <2>3. CASE t = s
      BY <2>1, <2>2, <2>3 DEF TypeOK
    <2>4. CASE t # s
      <3>1. seats'[t] = seats[t]
        BY <2>1, <2>4 DEF TypeOK
      <3>2. \A h \in HoldId : IsHeld(h)' /\ holds'[h].seat = t <=> IsHeld(h) /\ holds[h].seat = t
        BY <1>1, <2>4, InsertEffect DEF IsHeld, HeldOn
      <3>3. \A h \in HoldId : holds[h].status = "RESERVED" /\ holds[h].seat = t =>
                                 holds'[h].status = "RESERVED" /\ holds'[h].seat = t
        BY <1>1, InsertEffect DEF IsHeld, HeldOn
      <3> QED BY <1>0, <3>1, <3>2, <3>3
    <2> QED BY <2>3, <2>4
  <1>2. ASSUME NEW R \in SUBSET HoldId, \A h \in R : IsHeld(h), ReleaseRows(R)
        PROVE  /\ seats'[t] = "HELD" <=> \E h \in HoldId : IsHeld(h)' /\ holds'[h].seat = t
               /\ seats'[t] = "RESERVED" =>
                    \E h \in HoldId : holds'[h].status = "RESERVED" /\ holds'[h].seat = t
    <2>1. \A h \in HoldId : IsHeld(h)' <=> IsHeld(h) /\ h \notin R
      BY <1>2, ReleaseEffect DEF IsHeld
    <2>2. \A h \in HoldId : holds'[h].seat = holds[h].seat
      BY <1>2, ReleaseEffect
    <2>3. CASE \E h \in R : holds[h].seat = t
      <3>1. PICK h \in R : holds[h].seat = t
        BY <2>3
      <3>2. HeldOn(t) \subseteq R
        BY <1>2, <3>1 DEF HeldOn, OneActiveHold
      <3>3. t \in FreedSeats(R)
        BY <3>1, <3>2 DEF FreedSeats
      <3>4. seats'[t] = "AVAILABLE"
        BY <1>2, <3>3 DEF ReleaseRows
      <3> QED BY <2>1, <2>2, <3>2, <3>4 DEF HeldOn
    <2>4. CASE ~ \E h \in R : holds[h].seat = t
      <3>1. seats'[t] = seats[t]
        BY <1>2, <2>4 DEF ReleaseRows, FreedSeats
      <3>2. \A h \in HoldId : holds[h].status = "RESERVED" => holds'[h] = holds[h]
        BY <1>2, ReleaseEffect DEF IsHeld
      <3> QED BY <1>0, <2>1, <2>2, <2>4, <3>1, <3>2
    <2> QED BY <2>3, <2>4
  <1>3. ASSUME NEW i \in HoldId, NEW e \in EventId, reserveHold(i, e)
        PROVE  /\ seats'[t] = "HELD" <=> \E h \in HoldId : IsHeld(h)' /\ holds'[h].seat = t
               /\ seats'[t] = "RESERVED" =>
                    \E h \in HoldId : holds'[h].status = "RESERVED" /\ holds'[h].seat = t
    <2>1. IsHeld(i) /\ seats' = [seats EXCEPT ![holds[i].seat] = "RESERVED"]
      BY <1>3 DEF reserveHold
    <2>2. \A h \in HoldId : IsHeld(h)' <=> IsHeld(h) /\ h # i
      BY <1>3, ReserveEffect DEF IsHeld
    <2>3. \A h \in HoldId : holds'[h].seat = holds[h].seat
      BY <1>3, ReserveEffect
    <2>4. CASE t = holds[i].seat
      <3>1. seats'[t] = "RESERVED"
        BY <2>1, <2>4 DEF TypeOK
      <3>2. ~ \E h \in HoldId : IsHeld(h)' /\ holds'[h].seat = t
        BY <2>1, <2>2, <2>3, <2>4 DEF OneActiveHold
      <3> QED BY <1>3, <2>4, <3>1, <3>2, ReserveEffect
    <2>5. CASE t # holds[i].seat
      <3>1. seats'[t] = seats[t]
        BY <2>1, <2>5 DEF TypeOK
      <3>2. \A h \in HoldId : holds[h].status = "RESERVED" => holds'[h] = holds[h]
        BY <1>3, <2>1, ReserveEffect DEF IsHeld
      <3> QED BY <1>0, <2>2, <2>3, <2>5, <3>1, <3>2
    <2> QED BY <2>4, <2>5
  <1>4. CASE UNCHANGED <<seats, holds>>
    BY <1>0, <1>4 DEF IsHeld
  <1> QED BY <1>1, <1>2, <1>3, <1>4, StepCases

\* The seat map the browsers read never disagrees with the holds table.  The
\* uniqueness of active holds is what makes it inductive: a release or a
\* reservation may reset the seat because no second HELD row can be on it.
THEOREM SeatMapCorrect == Spec => []SeatMirrorsHolds
  <1>1. Init => SeatMirrorsHolds
    BY NoRowStatus DEF Init, SeatMirrorsHolds, HeldOn, IsHeld
  <1> QED BY <1>1, TypeCorrect, ActiveHoldsUnique, SeatMirrorsHoldsStep, PTL DEF Spec

----------------------------------------------------------------------------
(* The outbox agrees with the rows *)

\* Every outbox row stays true of its hold over every step.
LEMMA OutboxTruthStep ==
  ASSUME TypeOK, OutboxTellsTheTruth, [Next]_vars
  PROVE  OutboxTellsTheTruth'
  <1> DEFINE MsgOK(f, m) == /\ f[m.hold].status # "NONE"
                            /\ f[m.hold].seat = m.seat
                            /\ m.type = "seat.reserved" => f[m.hold].status = "RESERVED"
                            /\ m.type = "seat.released" => f[m.hold].status = "RELEASED"
             RowOK(g) == /\ holds[g].status # "NONE" =>
                               \E m \in outbox : m.type = "seat.held" /\ m.hold = g
                         /\ holds[g].status = "RESERVED" => Reserved(g) \in outbox
  <1>0. /\ \A m \in outbox : m.hold \in HoldId /\ MsgOK(holds, m)
        /\ \A g \in HoldId : RowOK(g)
    BY DEF OutboxTellsTheTruth, TypeOK, OutboxRow
  <1> SUFFICES (\A m \in outbox' : MsgOK(holds', m)) /\ (\A g \in HoldId : RowOK(g)')
    BY DEF OutboxTellsTheTruth
  <1>1. ASSUME NEW s \in Seat, NEW u \in User, NEW h \in HoldId, insertHoldTx(s, u, h)
        PROVE  (\A m \in outbox' : MsgOK(holds', m)) /\ (\A g \in HoldId : RowOK(g)')
    <2>1. outbox' = outbox \union {Held(h)}
      BY <1>1 DEF insertHoldTx
    <2>2. Held(h).type = "seat.held" /\ Held(h).hold = h /\ Held(h).seat = s
      BY <1>1, InsertEffect DEF Held
    <2>3. MsgOK(holds', Held(h))
      BY <1>1, <2>2, InsertEffect DEF Held
    <2>4. \A m \in outbox : MsgOK(holds', m)
      BY <1>0, <1>1, InsertEffect DEF HeldOn, IsHeld
    <2>5. \A g \in HoldId \ {h} : holds'[g].seat = holds[g].seat
                                  /\ (holds'[g].status = "RESERVED" => holds[g].status = "RESERVED")
                                  /\ (holds'[g].status # "NONE" => holds[g].status # "NONE")
      BY <1>1, InsertEffect DEF HeldOn, IsHeld
    <2>6. \A g \in HoldId \ {h} : RowOK(g)'
      BY <1>0, <2>1, <2>5 DEF Reserved
    <2>7. RowOK(h)'
      BY <1>1, <2>1, <2>2, InsertEffect
    <2> QED BY <2>1, <2>3, <2>4, <2>6, <2>7
  <1>2. ASSUME NEW R \in SUBSET HoldId, \A h \in R : IsHeld(h), ReleaseRows(R)
        PROVE  (\A m \in outbox' : MsgOK(holds', m)) /\ (\A g \in HoldId : RowOK(g)')
    <2>1. outbox' = outbox \union {Released(h) : h \in R}
      BY <1>2 DEF ReleaseRows
    <2>2. \A h \in R : MsgOK(holds', Released(h))
      BY <1>2, ReleaseEffect DEF Released
    <2>3. \A m \in outbox : MsgOK(holds', m)
      BY <1>0, <1>2, ReleaseEffect DEF IsHeld
    <2>4. \A g \in HoldId : holds'[g].seat = holds[g].seat
                            /\ (holds'[g].status = "RESERVED" => holds[g].status = "RESERVED")
                            /\ (holds'[g].status # "NONE" => holds[g].status # "NONE")
      BY <1>2, ReleaseEffect DEF IsHeld
    <2>5. \A g \in HoldId : RowOK(g)'
      BY <1>0, <2>1, <2>4 DEF Reserved
    <2> QED BY <2>1, <2>2, <2>3, <2>5
  <1>3. ASSUME NEW h \in HoldId, NEW e \in EventId, reserveHold(h, e)
        PROVE  (\A m \in outbox' : MsgOK(holds', m)) /\ (\A g \in HoldId : RowOK(g)')
    <2>1. outbox' = outbox \union {Reserved(h)} /\ IsHeld(h)
      BY <1>3 DEF reserveHold
    <2>2. MsgOK(holds', Reserved(h))
      BY <1>3, ReserveEffect DEF Reserved
    <2>3. \A m \in outbox : MsgOK(holds', m)
      BY <1>0, <1>3, <2>1, ReserveEffect DEF IsHeld
    <2>4. \A g \in HoldId : holds'[g].seat = holds[g].seat
                            /\ (g # h => holds'[g].status = holds[g].status)
      BY <1>3, ReserveEffect
    <2>5. \A g \in HoldId : RowOK(g)'
      BY <1>0, <2>1, <2>4 DEF Reserved, IsHeld
    <2> QED BY <2>1, <2>2, <2>3, <2>5
  <1>4. CASE UNCHANGED <<holds, outbox>>
    BY <1>0, <1>4 DEF Reserved
  <1> QED BY <1>1, <1>2, <1>3, <1>4, StepCases

\* What the service publishes about a hold is what happened to it: a hold is
\* never announced both as reserved and as released.
THEOREM EventsTruthful == Spec => []OutboxTellsTheTruth
  <1>1. Init => OutboxTellsTheTruth
    BY NoRowStatus DEF Init, OutboxTellsTheTruth
  <1> QED BY <1>1, TypeCorrect, OutboxTruthStep, PTL DEF Spec

----------------------------------------------------------------------------
(* Releases without an event *)

\* Only the lazy cleanup releases a hold without an outbox row.
LEMMA SilentReleaseStep ==
  ASSUME TypeOK, SilentReleaseIsTakeover, [Next]_vars
  PROVE  SilentReleaseIsTakeover'
  <1> DEFINE Silent(h) == holds[h].status = "RELEASED" /\ Released(h) \notin outbox
             Taken(h) == /\ h \in expired
                         /\ \E g \in HoldId \ {h} :
                               holds[g].status # "NONE" /\ holds[g].seat = holds[h].seat
  <1> SUFFICES ASSUME NEW h \in HoldId, Silent(h)' PROVE Taken(h)'
    BY DEF SilentReleaseIsTakeover
  <1>0. Silent(h) => Taken(h)
    BY DEF SilentReleaseIsTakeover
  <1>1. ASSUME NEW s \in Seat, NEW u \in User, NEW i \in HoldId, insertHoldTx(s, u, i)
        PROVE  Taken(h)'
    <2>1. outbox \subseteq outbox' /\ expired' = expired
      BY <1>1 DEF insertHoldTx
    <2>2. h # i /\ holds'[i].status = "HELD" /\ holds'[i].seat = s
      BY <1>1, InsertEffect
    <2>3. CASE h \in HeldOn(s)
      <3>1. h \in expired /\ holds'[h].seat = s
        BY <1>1, <2>3, InsertEffect DEF HeldOn
      <3> QED BY <2>1, <2>2, <3>1
    <2>4. CASE h \notin HeldOn(s)
      <3>1. holds'[h] = holds[h]
        BY <1>1, <2>2, <2>4, InsertEffect
      <3>2. Silent(h)
        BY <2>1, <3>1 DEF Released
      <3>3. PICK g \in HoldId \ {h} : holds[g].status # "NONE" /\ holds[g].seat = holds[h].seat
        BY <1>0, <3>2
      <3>4. holds'[g].status # "NONE" /\ holds'[g].seat = holds[g].seat
        BY <1>1, <3>3, InsertEffect
      <3> QED BY <1>0, <2>1, <3>1, <3>2, <3>3, <3>4
    <2> QED BY <2>3, <2>4
  <1>2. ASSUME NEW R \in SUBSET HoldId, \A g \in R : IsHeld(g), ReleaseRows(R)
        PROVE  Taken(h)'
    <2>1. outbox' = outbox \union {Released(g) : g \in R} /\ expired' = expired
      BY <1>2 DEF ReleaseRows
    <2>2. \A g \in HoldId : holds'[g].seat = holds[g].seat
      BY <1>2, ReleaseEffect
    <2>3. h \notin R
      BY <2>1, <2>2 DEF Released
    <2>4. Silent(h)
      BY <1>2, <2>1, <2>3, ReleaseEffect DEF Released
    <2>5. \A g \in HoldId : holds[g].status # "NONE" => holds'[g].status # "NONE"
      BY <1>2, ReleaseEffect
    <2> QED BY <1>0, <2>1, <2>2, <2>4, <2>5
  <1>3. ASSUME NEW i \in HoldId, NEW e \in EventId, reserveHold(i, e)
        PROVE  Taken(h)'
    <2>1. outbox \subseteq outbox' /\ expired' = expired
      BY <1>3 DEF reserveHold
    <2>2. Silent(h)
      BY <1>3, <2>1, ReserveEffect DEF Released
    <2>3. \A g \in HoldId : /\ holds'[g].seat = holds[g].seat
                            /\ holds[g].status # "NONE" => holds'[g].status # "NONE"
      BY <1>3, ReserveEffect
    <2> QED BY <1>0, <2>1, <2>2, <2>3
  <1>4. CASE UNCHANGED <<holds, outbox>> /\ expired \subseteq expired'
    BY <1>0, <1>4 DEF Released
  <1> QED BY <1>1, <1>2, <1>3, <1>4, StepCases

\* The lazy cleanup of a hold request is the only release that the payment
\* service does not hear of.
THEOREM SilentReleases == Spec => []SilentReleaseIsTakeover
  <1>1. Init => SilentReleaseIsTakeover
    BY NoRowStatus DEF Init, SilentReleaseIsTakeover
  <1> QED BY <1>1, TypeCorrect, SilentReleaseStep, PTL DEF Spec

----------------------------------------------------------------------------
(* One event id per reservation *)

\* Reservations and consumed event ids grow together.
LEMMA OneEventStep ==
  ASSUME TypeOK, OneEventPerReservation, [Next]_vars
  PROVE  OneEventPerReservation'
  <1>0. IsFiniteSet(ReservedHolds) /\ IsFiniteSet(consumed)
    BY FS_Subset, SeatServiceAssumption DEF TypeOK, ReservedHolds
  <1>1. ASSUME NEW s \in Seat, NEW u \in User, NEW h \in HoldId, insertHoldTx(s, u, h)
        PROVE  OneEventPerReservation'
    <2>1. ReservedHolds' = ReservedHolds
      BY <1>1, InsertEffect DEF ReservedHolds, HeldOn, IsHeld
    <2> QED BY <1>1, <2>1 DEF insertHoldTx, OneEventPerReservation
  <1>2. ASSUME NEW R \in SUBSET HoldId, \A h \in R : IsHeld(h), ReleaseRows(R)
        PROVE  OneEventPerReservation'
    <2>1. ReservedHolds' = ReservedHolds
      BY <1>2, ReleaseEffect DEF ReservedHolds, IsHeld
    <2> QED BY <1>2, <2>1 DEF ReleaseRows, OneEventPerReservation
  <1>3. ASSUME NEW h \in HoldId, NEW e \in EventId, reserveHold(h, e)
        PROVE  OneEventPerReservation'
    <2>1. e \notin consumed /\ consumed' = consumed \union {e} /\ IsHeld(h)
      BY <1>3 DEF reserveHold
    <2>2. h \notin ReservedHolds
      BY <2>1 DEF ReservedHolds, IsHeld
    <2>3. ReservedHolds' = ReservedHolds \union {h}
      BY <1>3, ReserveEffect DEF ReservedHolds
    <2>4. Cardinality(consumed') = Cardinality(consumed) + 1
      BY <1>0, <2>1, FS_AddElement
    <2>5. Cardinality(ReservedHolds') = Cardinality(ReservedHolds) + 1
      BY <1>0, <2>2, <2>3, FS_AddElement
    <2> QED BY <2>4, <2>5 DEF OneEventPerReservation
  <1>4. CASE UNCHANGED <<holds, consumed>>
    BY <1>4 DEF OneEventPerReservation, ReservedHolds
  <1> QED BY <1>1, <1>2, <1>3, <1>4, StepCases

\* However often payment.succeeded messages are redelivered, each reservation
\* costs exactly one event id and each recorded id made one reservation.
THEOREM ReservationsIdempotent == Spec => []OneEventPerReservation
  <1>1. Init => OneEventPerReservation
    <2>1. ASSUME Init PROVE ReservedHolds = {} /\ consumed = {}
      BY <2>1, NoRowStatus DEF Init, ReservedHolds
    <2> QED BY <2>1 DEF OneEventPerReservation
  <1> QED BY <1>1, TypeCorrect, OneEventStep, PTL DEF Spec

----------------------------------------------------------------------------
(* Finished holds *)

\* RESERVED and RELEASED are final: every writer of a row checks for HELD.
THEOREM FinishedHoldsFinal == Spec => FinishedHoldsNeverChange
  <1>1. ASSUME TypeOK, [Next]_vars
        PROVE  [\A h \in HoldId : holds[h].status \in {"RESERVED", "RELEASED"} =>
                                     holds'[h] = holds[h]]_vars
    <2> SUFFICES ASSUME NEW h \in HoldId, holds[h].status \in {"RESERVED", "RELEASED"}
                 PROVE  holds'[h] = holds[h]
      OBVIOUS
    <2>1. ASSUME NEW s \in Seat, NEW u \in User, NEW i \in HoldId, insertHoldTx(s, u, i)
          PROVE  holds'[h] = holds[h]
      BY <1>1, <2>1, InsertEffect DEF HeldOn, IsHeld
    <2>2. ASSUME NEW R \in SUBSET HoldId, \A g \in R : IsHeld(g), ReleaseRows(R)
          PROVE  holds'[h] = holds[h]
      BY <1>1, <2>2, ReleaseEffect DEF IsHeld
    <2>3. ASSUME NEW i \in HoldId, NEW e \in EventId, reserveHold(i, e)
          PROVE  holds'[h] = holds[h]
      BY <1>1, <2>3, ReserveEffect DEF reserveHold, IsHeld
    <2> QED BY <1>1, <2>1, <2>2, <2>3, StepCases
  <1> QED BY <1>1, TypeCorrect, PTL DEF Spec, FinishedHoldsNeverChange
----------------------------------------------------------------------------
(* Seats as leases *)

\* The leases that run on seat s.
Tenant(s) == {[hold |-> h, user |-> holds[h].user] : h \in HeldOn(s)}

\* A step that leaves the HELD rows of a seat alone leaves its lease alone.
LEMMA TenantKept ==
  ASSUME NEW s \in Seat, HeldOn(s)' = HeldOn(s), \A g \in HeldOn(s) : holds'[g] = holds[g]
  PROVE  Tenant(s)' = Tenant(s)
  BY DEF Tenant

\* A hold request lets the seat.
LEMMA InsertLets ==
  ASSUME TypeOK, NEW s \in Seat, NEW u \in User, NEW h \in HoldId, insertHoldTx(s, u, h)
  PROVE  Lease!Let(s, u, h)
  <1>1. holds[h] = NoRow /\ seats' = [seats EXCEPT ![s] = "HELD"] /\ expired' = expired
    BY DEF insertHoldTx
  <1>2. \A l \in Tenant(s) : l.hold \in expired
    BY InsertEffect DEF Tenant
  <1>3. \A t \in Seat \ {s} : \A l \in Tenant(t) : l.user # u
    <2>1. HeldBy(u) \subseteq HeldOn(s) BY InsertEffect
    <2> QED BY <2>1 DEF Tenant, HeldBy, HeldOn
  <1>4. HeldOn(s)' = {h} /\ holds'[h].user = u
    BY InsertEffect DEF HeldOn, IsHeld
  <1>5. Tenant(s)' = {[hold |-> h, user |-> u]}
    BY <1>4 DEF Tenant
  <1>6. ASSUME NEW t \in Seat \ {s} PROVE Tenant(t)' = Tenant(t)
    <2>1. HeldOn(t)' = HeldOn(t) /\ \A g \in HeldOn(t) : holds'[g] = holds[g]
      BY InsertEffect DEF HeldOn, IsHeld
    <2> QED BY <2>1, TenantKept
  <1>7. \A g \in HoldId : holds'[g] # NoRow <=> holds[g] # NoRow \/ g = h
    <2>1. \A g \in HeldOn(s) : holds[g].status = "HELD" BY DEF HeldOn, IsHeld
    <2> QED BY <2>1, InsertEffect, NoRowStatus
  <1>8. {g \in HoldId : holds'[g] # NoRow} = {g \in HoldId : holds[g] # NoRow} \union {h}
    BY <1>7
  <1> QED BY <1>1, <1>2, <1>3, <1>5, <1>6, <1>8 DEF Lease!Let, Tenant

\* A release, whoever asks for it, vacates the seats of the holds it ends: no
\* other HELD row can be on them.
LEMMA ReleaseVacates ==
  ASSUME TypeOK, OneActiveHold, NEW R \in SUBSET HoldId, \A h \in R : IsHeld(h), ReleaseRows(R)
  PROVE  \E Z \in SUBSET Seat : Lease!Vacate(Z)
  <1>1. PICK Z \in SUBSET Seat : Z = {holds[h].seat : h \in R}
    BY RowType DEF IsHeld
  <1>2. \A s \in Z : HeldOn(s) # {} /\ HeldOn(s) \subseteq R
    BY <1>1 DEF HeldOn, OneActiveHold
  <1>3. Z = FreedSeats(R)
    BY <1>1, <1>2 DEF FreedSeats
  <1>4. seats' = [s \in Seat |-> IF s \in Z THEN "AVAILABLE" ELSE seats[s]] /\ expired' = expired
    BY <1>3 DEF ReleaseRows
  <1>5. \A s \in Seat : HeldOn(s)' = HeldOn(s) \ R
    BY ReleaseEffect DEF HeldOn, IsHeld
  <1>6. \A s \in Z : Tenant(s) # {} /\ Tenant(s)' = {}
    BY <1>2, <1>5 DEF Tenant
  <1>7. ASSUME NEW s \in Seat \ Z PROVE Tenant(s)' = Tenant(s)
    <2>1. HeldOn(s) \subseteq HoldId \ R BY <1>1, <1>7 DEF HeldOn
    <2>2. HeldOn(s)' = HeldOn(s) BY <1>5, <2>1
    <2>3. \A g \in HeldOn(s) : holds'[g] = holds[g] BY <2>1, ReleaseEffect
    <2> QED BY <2>2, <2>3, TenantKept
  <1>8. \A g \in HoldId : holds'[g] # NoRow <=> holds[g] # NoRow
    BY ReleaseEffect, NoRowStatus DEF IsHeld
  <1>9. {g \in HoldId : holds'[g] # NoRow} = {g \in HoldId : holds[g] # NoRow}
    BY <1>8
  <1>10. Lease!Vacate(Z)
    BY <1>4, <1>6, <1>7, <1>9 DEF Lease!Vacate, Tenant
  <1> QED BY <1>10

\* A reservation sells the seat to its tenant.
LEMMA ReserveSells ==
  ASSUME TypeOK, OneActiveHold, NEW h \in HoldId, NEW e \in EventId, reserveHold(h, e)
  PROVE  \E s \in Seat : Lease!Sell(s)
  <1>0. IsHeld(h) BY DEF reserveHold
  <1>1. PICK s \in Seat : s = holds[h].seat
    BY <1>0, RowType DEF IsHeld
  <1>2. HeldOn(s) = {h}
    BY <1>0, <1>1 DEF HeldOn, OneActiveHold
  <1>3. seats' = [seats EXCEPT ![s] = "RESERVED"] /\ expired' = expired
    BY <1>1 DEF reserveHold
  <1>4. \A t \in Seat : HeldOn(t)' = HeldOn(t) \ {h}
    BY ReserveEffect DEF HeldOn, IsHeld
  <1>5. Tenant(s) # {} /\ Tenant(s)' = {}
    BY <1>2, <1>4 DEF Tenant
  <1>6. ASSUME NEW t \in Seat \ {s} PROVE Tenant(t)' = Tenant(t)
    <2>1. h \notin HeldOn(t) BY <1>1 DEF HeldOn
    <2>2. HeldOn(t)' = HeldOn(t) BY <1>4, <2>1
    <2>3. \A g \in HeldOn(t) : holds'[g] = holds[g] BY <2>1, ReserveEffect DEF HeldOn
    <2> QED BY <2>2, <2>3, TenantKept
  <1>7. \A g \in HoldId : holds'[g] # NoRow <=> holds[g] # NoRow
    BY <1>0, ReserveEffect, NoRowStatus DEF IsHeld
  <1>8. {g \in HoldId : holds'[g] # NoRow} = {g \in HoldId : holds[g] # NoRow}
    BY <1>7
  <1>9. Lease!Sell(s)
    BY <1>3, <1>5, <1>6, <1>8 DEF Lease!Sell, Tenant
  <1> QED BY <1>9

\* The clock can only run out on a lease that runs.
LEMMA ExpiryIsTimeOver ==
  ASSUME TypeOK, NEW h \in HoldId, HoldExpires(h)
  PROVE  \E s \in Seat : Lease!TimeOver(s)
  <1>1. PICK s \in Seat : s = holds[h].seat
    BY RowType DEF HoldExpires, IsHeld
  <1>2. [hold |-> h, user |-> holds[h].user] \in Tenant(s)
    BY <1>1 DEF Tenant, HeldOn, HoldExpires
  <1>3. \E l \in Tenant(s) : l.hold \notin expired /\ expired' = expired \union {l.hold}
    BY <1>2 DEF HoldExpires
  <1>4. UNCHANGED <<seats, holds>> BY DEF HoldExpires
  <1>5. \A t \in Seat : Tenant(t)' = Tenant(t) BY <1>4 DEF Tenant, HeldOn, IsHeld
  <1>6. Lease!TimeOver(s)
    BY <1>3, <1>4, <1>5 DEF Lease!TimeOver, Tenant
  <1> QED BY <1>6

\* Every transaction is one step of the lease book, or none.
LEMMA LeaseStep ==
  ASSUME TypeOK, OneActiveHold, [Next]_vars
  PROVE  [Lease!LeaseNext]_(Lease!lvars)
  <1> USE DEF Lease!LeaseNext
  <1>1. ASSUME NEW s \in Seat, NEW u \in User, NEW h \in HoldId, insertHoldTx(s, u, h)
        PROVE  Lease!LeaseNext
    BY <1>1, InsertLets
  <1>2. ASSUME NEW R \in SUBSET HoldId, \A h \in R : IsHeld(h), ReleaseRows(R)
        PROVE  Lease!LeaseNext
    BY <1>2, ReleaseVacates
  <1>3. ASSUME NEW h \in HoldId, NEW e \in EventId, reserveHold(h, e)
        PROVE  Lease!LeaseNext
    BY <1>3, ReserveSells
  <1>4. ASSUME NEW h \in HoldId, HoldExpires(h) PROVE Lease!LeaseNext
    BY <1>4, ExpiryIsTimeOver
  <1>5. CASE UNCHANGED <<seats, holds, expired>>
    BY <1>5 DEF Lease!lvars, HeldOn, IsHeld
  <1> QED BY <1>1, <1>2, <1>3, <1>4, <1>5, StepCases

\* The service implements the lease book, for any number of replicas, users and
\* messages: nobody ever loses a seat before the time is over or finds a second
\* tenant on it.  That a release may reopen the seat, and a reservation close
\* it, rests on the uniqueness of active holds.
THEOREM LeasesImplemented == Spec => SeatsAreLeased
  <1>1. Init => Lease!LeaseInit
    BY NoRowStatus DEF Init, Lease!LeaseInit, HeldOn, IsHeld
  <1>2. TypeOK /\ OneActiveHold /\ [Next]_vars => [Lease!LeaseNext]_(Lease!lvars)
    BY LeaseStep
  <1> QED BY <1>1, <1>2, TypeCorrect, ActiveHoldsUnique, PTL DEF Spec, SeatsAreLeased, Lease!LeaseSpec
=============================================================================
