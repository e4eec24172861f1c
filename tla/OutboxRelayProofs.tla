------------------------- MODULE OutboxRelayProofs -------------------------
(***************************************************************************)
(* Proofs about OutboxRelay for any number of rows and replicas, any batch *)
(* limit, any retry limit and any number of crashes.                       *)
(***************************************************************************)
EXTENDS OutboxRelay, TLAPS

USE DEF rowVars, workerVars

\* The failure counter stays within its cap.
LEMMA CapStep ==
  ASSUME NEW n \in 0..MaxAttempts, n # MaxAttempts
  PROVE  n + 1 \in 0..MaxAttempts
  BY OutboxRelayAssumption

\* An honest count that reaches the limit means the failures did.
LEMMA CapReached ==
  ASSUME NEW n \in Nat, NEW f \in 0..MaxAttempts, n <= f \/ f = MaxAttempts, n >= MaxAttempts
  PROVE  f = MaxAttempts
  BY OutboxRelayAssumption

\* Every step of a replica, a writer or the clock keeps the state well typed.
LEMMA TypeStep == TypeOK /\ [Next]_vars => TypeOK'
  <1> SUFFICES ASSUME TypeOK, [Next]_vars PROVE TypeOK'
    OBVIOUS
  <1> USE OutboxRelayAssumption DEF TypeOK
  <1>1. ASSUME NEW r \in Row, Append(r) PROVE TypeOK'
    BY <1>1 DEF Append, States
  <1>2. ASSUME NEW r \in Row, Age(r) PROVE TypeOK'
    BY <1>2 DEF Age, Ages
  <1>4. ASSUME NEW w \in Worker, Recover(w) PROVE TypeOK'
    BY <1>4 DEF Recover, States, Ages
  <1>3. ASSUME NEW w \in Worker, MarkProcessing(w) PROVE TypeOK'
    BY <1>3 DEF MarkProcessing, States
  <1>5. ASSUME NEW w \in Worker, LockBatch(w) PROVE TypeOK'
    <2>1. PICK R \in SUBSET Row :
             /\ batch' = [batch EXCEPT ![w] = R]
             /\ snap' = [snap EXCEPT ![w] = [r \in Row |-> IF r \in R THEN attempts[r] ELSE 0]]
             /\ pc' = [pc EXCEPT ![w] = IF R = {} THEN "idle" ELSE "marking"]
      BY <1>5 DEF LockBatch
    <2> QED BY <1>5, <2>1 DEF LockBatch
  <1>6. ASSUME NEW w \in Worker, NEW r \in Row, Publish(w, r) PROVE TypeOK'
    <2>1. PICK ok \in BOOLEAN :
             /\ cur' = [cur EXCEPT ![w] = [row |-> r, ok |-> ok]]
             /\ published' \subseteq published \union {r}
             /\ failures' = [failures EXCEPT ![r] =
                                IF ok \/ failures[r] = MaxAttempts THEN failures[r]
                                ELSE failures[r] + 1]
      BY <1>6 DEF Publish
    <2>2. cur' \in [Worker -> [row : Row, ok : BOOLEAN] \union {NoRow}]
      <3> DEFINE CurType == [row : Row, ok : BOOLEAN] \union {NoRow}
                 new == [row |-> r, ok |-> ok]
      <3>1. new \in CurType
        BY Zenon
      <3>2. cur \in [Worker -> CurType] /\ cur' = [cur EXCEPT ![w] = new]
        BY <2>1
      <3> HIDE DEF CurType, new
      <3>3. cur' \in [Worker -> CurType]
        BY <3>1, <3>2
      <3> QED BY <3>3 DEF CurType
    <2>3. failures' \in [Row -> 0..MaxAttempts]
      <3>1. (IF ok \/ failures[r] = MaxAttempts THEN failures[r] ELSE failures[r] + 1)
               \in 0..MaxAttempts
        <4>1. failures[r] \in 0..MaxAttempts
          OBVIOUS
        <4>2. failures[r] # MaxAttempts => failures[r] + 1 \in 0..MaxAttempts
          BY <4>1, CapStep, Zenon
        <4> QED BY <4>1, <4>2, Zenon
      <3> QED BY <2>1, <3>1
    <2> QED BY <1>6, <2>1, <2>2, <2>3 DEF Publish
  <1>7. ASSUME NEW w \in Worker, processRow(w) PROVE TypeOK'
    <2> DEFINE r == cur[w].row
    <2>1. r \in Row /\ snap[w][r] + 1 \in Nat
      BY <1>7 DEF processRow
    <2>2. /\ pc' \in [Worker -> {"idle", "claiming", "marking", "publishing"}]
          /\ batch' \in [Worker -> SUBSET Row]
          /\ cur' \in [Worker -> [row : Row, ok : BOOLEAN] \union {NoRow}]
          /\ snap' \in [Worker -> [Row -> Nat]]
      BY <1>7 DEF processRow
    <2>3. /\ state' \in [Row -> States]
          /\ attempts' \in [Row -> Nat]
          /\ due' \in [Row -> Ages]
      <3>1. DeleteRow(r) \/ RetryOrGiveUp(r, snap[w][r] + 1)
        BY <1>7 DEF processRow
      <3>2. RetryState(snap[w][r] + 1) \in States
        BY DEF RetryState, States
      <3> HIDE DEF r
      <3>3. CASE DeleteRow(r)
        BY <2>1, <3>3 DEF DeleteRow, States, Ages
      <3>4. CASE RetryOrGiveUp(r, snap[w][r] + 1)
        BY <2>1, <3>2, <3>4 DEF RetryOrGiveUp, Ages
      <3> QED BY <3>1, <3>3, <3>4
    <2> QED BY <1>7, <2>2, <2>3 DEF processRow
  <1>8. ASSUME NEW w \in Worker, Crash(w) PROVE TypeOK'
    BY <1>8 DEF Crash
  <1>9. CASE UNCHANGED vars
    BY <1>9 DEF vars
  <1> QED BY <1>1, <1>2, <1>3, <1>4, <1>5, <1>6, <1>7, <1>8, <1>9 DEF Next, Tick

\* Every reachable state of the relay is well typed.
THEOREM TypeCorrect == Spec => []TypeOK
  <1>1. Init => TypeOK
    BY OutboxRelayAssumption DEF Init, TypeOK, States, Ages
  <1> QED BY <1>1, TypeStep, PTL DEF Spec

----------------------------------------------------------------------------
(* The inductive invariant *)

IInv == TypeOK /\ MemoryIsSound /\ NoEventLost /\ DeadOnlyAfterRetries

\* A replica with no row in hand holds no confirm.
LEMMA NoRowNotOk == NoRow.ok = FALSE
  BY DEF NoRow

\* Honest, of the failure counters after a step.
HonestNext(n, r) == n <= failures'[r] \/ failures'[r] = MaxAttempts

\* A remembered count stays honest while the failure counters only grow.
LEMMA HonestMonotone ==
  ASSUME TypeOK, TypeOK', NEW r \in Row, failures'[r] = failures[r] \/ failures'[r] = failures[r] + 1,
         NEW n \in Nat, Honest(n, r)
  PROVE  HonestNext(n, r)
  BY OutboxRelayAssumption DEF Honest, HonestNext, TypeOK

\* One more failure makes the incremented count honest.
LEMMA HonestIncrement ==
  ASSUME TypeOK, NEW r \in Row, NEW n \in Nat, Honest(n, r),
         failures'[r] = IF failures[r] = MaxAttempts THEN failures[r] ELSE failures[r] + 1
  PROVE  HonestNext(n + 1, r)
  BY OutboxRelayAssumption DEF Honest, HonestNext, TypeOK

\* A replica that remembers nothing of a row remembers nothing false.
LEMMA ZeroHonest ==
  ASSUME TypeOK
  PROVE  \A r \in Row : Honest(0, r)
  BY OutboxRelayAssumption DEF Honest, TypeOK

\* The locks replica by replica: no two replicas are marking the same row.
LEMMA LocksApart ==
  ASSUME LocksExclude, NEW w \in Worker, pc[w] = "marking", NEW r \in batch[w]
  PROVE  /\ state[r] = "PENDING"
         /\ \A v \in Worker \ {w} : pc[v] = "marking" => r \notin batch[v]
  BY DEF LocksExclude, Locked, LockedByOthers

\* Two claiming transactions never hold the same row, and nobody writes a row that
\* one of them holds.
LEMMA LockStep == IInv /\ [Next]_vars => LocksExclude'
  <1> SUFFICES ASSUME IInv, [Next]_vars,
                      NEW v \in Worker, pc'[v] = "marking", NEW r \in batch'[v]
               PROVE  /\ state'[r] = "PENDING"
                      /\ \A u \in Worker \ {v} : pc'[u] = "marking" => r \notin batch'[u]
    BY DEF LocksExclude, Locked, LockedByOthers
  <1>0. TypeOK /\ MemoryIsSound /\ LocksExclude
    BY DEF IInv, MemoryIsSound
  <1>p. \A u \in Worker : \A q \in batch[u] : pc[u] = "marking" =>
           /\ state[q] = "PENDING" /\ q \in Row
           /\ \A x \in Worker \ {u} : pc[x] = "marking" => q \notin batch[x]
    BY <1>0, LocksApart DEF TypeOK
  <1>1. CASE pc' = pc /\ batch' = batch /\ \A q \in Row : state[q] = "PENDING" => state'[q] = "PENDING"
    BY <1>p, <1>1
  <1>2. ASSUME NEW q \in Row, Append(q) \/ Age(q)
        PROVE  pc' = pc /\ batch' = batch /\ \A x \in Row : state[x] = "PENDING" => state'[x] = "PENDING"
    BY <1>0, <1>2 DEF Append, Age, TypeOK
  <1>3. ASSUME NEW w \in Worker, NEW q \in Row, Publish(w, q)
        PROVE  pc' = pc /\ batch' = batch /\ \A x \in Row : state[x] = "PENDING" => state'[x] = "PENDING"
    BY <1>3 DEF Publish
  <1>4. ASSUME NEW w \in Worker, pc'[w] # "marking",
               \A u \in Worker \ {w} : pc'[u] = pc[u] /\ batch'[u] = batch[u],
               \A q \in Row : state[q] = "PENDING" => state'[q] = "PENDING" \/ q \notin batch'[v]
        PROVE  /\ state'[r] = "PENDING"
               /\ \A u \in Worker \ {v} : pc'[u] = "marking" => r \notin batch'[u]
    BY <1>p, <1>4
  <1>5. ASSUME NEW w \in Worker, Recover(w) \/ Crash(w)
        PROVE  /\ pc'[w] # "marking"
               /\ \A u \in Worker \ {w} : pc'[u] = pc[u] /\ batch'[u] = batch[u]
               /\ \A q \in Row : state[q] = "PENDING" => state'[q] = "PENDING" \/ q \notin batch'[v]
    BY <1>0, <1>5 DEF Recover, Stuck, Crash, TypeOK
  <1>6. ASSUME NEW w \in Worker, MarkProcessing(w)
        PROVE  /\ pc'[w] # "marking"
               /\ \A u \in Worker \ {w} : pc'[u] = pc[u] /\ batch'[u] = batch[u]
               /\ \A q \in Row : state[q] = "PENDING" => state'[q] = "PENDING" \/ q \notin batch'[v]
    <2>1. /\ pc'[w] = "publishing" /\ batch' = batch /\ pc[w] = "marking"
          /\ \A u \in Worker \ {w} : pc'[u] = pc[u]
          /\ \A q \in Row : q \in batch[w] \/ state'[q] = state[q]
      BY <1>0, <1>6 DEF MarkProcessing, TypeOK
    <2>2. v # w /\ pc[v] = "marking"
      BY <2>1
    <2> QED BY <1>p, <2>1, <2>2
  <1>7. ASSUME NEW w \in Worker, processRow(w)
        PROVE  /\ pc'[w] # "marking"
               /\ \A u \in Worker \ {w} : pc'[u] = pc[u] /\ batch'[u] = batch[u]
               /\ \A q \in Row : state[q] = "PENDING" => state'[q] = "PENDING" \/ q \notin batch'[v]
    <2>1. /\ pc'[w] # "marking" /\ cur[w].row \in Row
          /\ \A u \in Worker \ {w} : pc'[u] = pc[u] /\ batch'[u] = batch[u]
      BY <1>0, <1>7 DEF processRow, TypeOK
    <2>2. v # w /\ pc[v] = "marking" /\ batch'[v] = batch[v]
      BY <2>1
    <2>3. cur[w].row \notin batch[v]
      BY <1>7, <2>2 DEF processRow, LockedByOthers, Locked
    <2>4. \A q \in Row : q = cur[w].row \/ state'[q] = state[q]
      BY <1>0, <1>7 DEF processRow, DeleteRow, RetryOrGiveUp, TypeOK
    <2> QED BY <2>1, <2>2, <2>3, <2>4
  <1>8. ASSUME NEW w \in Worker, LockBatch(w)
        PROVE  /\ state'[r] = "PENDING"
               /\ \A u \in Worker \ {v} : pc'[u] = "marking" => r \notin batch'[u]
    <2>1. PICK R \in SUBSET Row :
             /\ R \subseteq Claimable(w)
             /\ batch' = [batch EXCEPT ![w] = R]
             /\ pc' = [pc EXCEPT ![w] = IF R = {} THEN "idle" ELSE "marking"]
      BY <1>8 DEF LockBatch, OldestBatch
    <2>2. state' = state /\ batch'[w] = R
          /\ \A u \in Worker \ {w} : pc'[u] = pc[u] /\ batch'[u] = batch[u]
      BY <1>0, <1>8, <2>1 DEF LockBatch, TypeOK
    <2>3. \A q \in R : /\ state[q] = "PENDING"
                        /\ \A u \in Worker \ {w} : pc[u] = "marking" => q \notin batch[u]
      BY <2>1 DEF Claimable, LockedByOthers, Locked
    <2> QED BY <1>p, <2>2, <2>3
  <1>9. CASE UNCHANGED vars
    BY <1>p, <1>9 DEF vars
  <1> QED BY <1>1, <1>2, <1>3, <1>4, <1>5, <1>6, <1>7, <1>8, <1>9 DEF Next, Tick

\* What a replica remembers stays true over every step of every other one.
LEMMA MemoryStep == IInv /\ [Next]_vars => MemoryIsSound'
  <1> SUFFICES ASSUME IInv, [Next]_vars PROVE MemoryIsSound'
    OBVIOUS
  <1>0. TypeOK /\ TypeOK' /\ MemoryIsSound /\ LocksExclude'
    BY TypeStep, LockStep DEF IInv
  <1> USE DEF MemoryIsSound
  <1>1. ASSUME NEW r \in Row, Append(r) PROVE MemoryIsSound'
    BY <1>0, <1>1 DEF Append, Honest, TypeOK
  <1>2. ASSUME NEW r \in Row, Age(r) PROVE MemoryIsSound'
    BY <1>0, <1>2 DEF Age, Honest
  <1>3. ASSUME NEW w \in Worker, Recover(w) PROVE MemoryIsSound'
    <2>1. \A r \in Row : state'[r] = "ABSENT" => state[r] = "ABSENT"
      BY <1>0, <1>3 DEF Recover, Stuck, TypeOK
    <2>2. \A v \in Worker : cur[v] # NoRow => v # w /\ pc'[v] = pc[v]
      BY <1>0, <1>3 DEF Recover, TypeOK
    <2>3. \A v \in Worker : cur[v] # NoRow => cur[v].row \in Row
      BY <1>0 DEF TypeOK
    <2>4. UNCHANGED <<attempts, batch, snap, cur, published, failures>>
      BY <1>3 DEF Recover
    <2>5. \A v \in Worker : \A r \in batch[v] : r \in Row
      BY <1>0 DEF TypeOK
    <2> QED BY <1>0, <2>1, <2>2, <2>3, <2>4, <2>5 DEF Honest
  <1>9. ASSUME NEW w \in Worker, MarkProcessing(w) PROVE MemoryIsSound'
    <2>1. \A r \in Row : state'[r] = "ABSENT" => state[r] = "ABSENT"
      BY <1>9 DEF MarkProcessing
    <2>2. \A v \in Worker : cur[v] # NoRow => cur[v].row \in Row /\ v # w /\ pc'[v] = pc[v]
      BY <1>0, <1>9 DEF MarkProcessing, TypeOK
    <2>3. UNCHANGED <<attempts, batch, snap, cur, published, failures>>
      BY <1>9 DEF MarkProcessing
    <2>4. \A v \in Worker : \A r \in batch[v] : r \in Row
      BY <1>0 DEF TypeOK
    <2> QED BY <1>0, <2>1, <2>2, <2>3, <2>4 DEF Honest
  <1>4. ASSUME NEW w \in Worker, LockBatch(w) PROVE MemoryIsSound'
    <2>1. PICK R \in SUBSET Row :
             /\ R \subseteq Claimable(w)
             /\ batch' = [batch EXCEPT ![w] = R]
             /\ snap' = [snap EXCEPT ![w] = [r \in Row |-> IF r \in R THEN attempts[r] ELSE 0]]
             /\ pc' = [pc EXCEPT ![w] = IF R = {} THEN "idle" ELSE "marking"]
      BY <1>4 DEF LockBatch, OldestBatch
    <2>2. /\ pc[w] = "claiming"
          /\ UNCHANGED <<state, attempts, cur, published, failures>>
      BY <1>4 DEF LockBatch
    <2>3. cur[w] = NoRow
      BY <1>0, <2>2
    <2>4. \A r \in R : r \in Row /\ state[r] # "ABSENT"
      BY <2>1 DEF Claimable
    <2>5. \A v \in Worker \ {w} : pc'[v] = pc[v] /\ batch'[v] = batch[v] /\ snap'[v] = snap[v]
      BY <1>0, <2>1 DEF TypeOK
    <2>6. batch'[w] = R /\ snap'[w] = [r \in Row |-> IF r \in R THEN attempts[r] ELSE 0]
      BY <1>0, <2>1 DEF TypeOK
    <2>7. \A v \in Worker :
             /\ cur'[v] # NoRow => pc'[v] = "publishing" /\ state'[cur'[v].row] # "ABSENT"
             /\ cur'[v].ok => cur'[v].row \in published'
             /\ cur'[v] # NoRow /\ ~cur'[v].ok => Honest(snap[v][cur[v].row] + 1, cur[v].row)
                                                 /\ snap'[v] = snap[v]
      BY <1>0, <2>2, <2>3, <2>5, NoRowNotOk
    <2>8. \A v \in Worker : \A r \in batch'[v] : state'[r] # "ABSENT"
      BY <1>0, <2>2, <2>4, <2>5, <2>6
    <2>9. \A v \in Worker : \A r \in Row : Honest(snap'[v][r], r)
      BY <1>0, <2>5, <2>6, ZeroHonest
    <2> QED BY <1>0, <2>2, <2>7, <2>8, <2>9 DEF Honest
  <1>5. ASSUME NEW w \in Worker, NEW r \in Row, Publish(w, r) PROVE MemoryIsSound'
    <2>1. PICK taken \in BOOLEAN, ok \in BOOLEAN :
             /\ ok => taken
             /\ cur' = [cur EXCEPT ![w] = [row |-> r, ok |-> ok]]
             /\ published' = IF taken THEN published \union {r} ELSE published
             /\ failures' = [failures EXCEPT ![r] =
                                IF ok \/ failures[r] = MaxAttempts THEN failures[r]
                                ELSE failures[r] + 1]
      BY <1>5 DEF Publish
    <2>2. pc[w] = "publishing" /\ r \in batch[w]
          /\ UNCHANGED <<state, attempts, pc, batch, snap>>
      BY <1>5 DEF Publish
    <2>3. cur'[w].row = r /\ cur'[w].ok = ok /\ \A v \in Worker \ {w} : cur'[v] = cur[v]
      BY <1>0, <2>1 DEF TypeOK
    <2>4. \A q \in Row : failures'[q] = failures[q] \/ failures'[q] = failures[q] + 1
      BY <1>0, <2>1 DEF TypeOK
    <2>5. \A q \in Row : \A n \in Nat : Honest(n, q) => HonestNext(n, q)
      BY <1>0, <2>4, HonestMonotone
    <2>6. ~ok => HonestNext(snap[w][r] + 1, r)
      <3>1. snap[w][r] \in Nat /\ Honest(snap[w][r], r)
        BY <1>0 DEF TypeOK
      <3>2. ~ok => failures'[r] = IF failures[r] = MaxAttempts THEN failures[r]
                                  ELSE failures[r] + 1
        BY <1>0, <2>1 DEF TypeOK
      <3> QED BY <1>0, <3>1, <3>2, HonestIncrement
    <2>7. /\ \A q \in Row : attempts[q] \in Nat
          /\ \A v \in Worker : \A q \in Row : snap[v][q] \in Nat /\ snap[v][q] + 1 \in Nat
          /\ \A v \in Worker : cur[v] # NoRow => cur[v].row \in Row
      BY <1>0 DEF TypeOK
    <2>8. /\ \A v \in Worker : \A q \in Row : HonestNext(snap[v][q], q)
          /\ \A q \in Row : HonestNext(attempts[q], q)
      <3>1. \A v \in Worker : \A q \in Row : Honest(snap[v][q], q) /\ Honest(attempts[q], q)
        BY <1>0
      <3> QED BY <2>5, <2>7, <3>1
    <2>9. ASSUME NEW v \in Worker
          PROVE  /\ cur'[v] # NoRow => pc'[v] = "publishing" /\ state'[cur'[v].row] # "ABSENT"
                 /\ cur'[v].ok => cur'[v].row \in published'
                 /\ cur'[v] # NoRow /\ ~cur'[v].ok => HonestNext(snap[v][cur'[v].row] + 1, cur'[v].row)
      <3>1. CASE v = w
        BY <1>0, <2>1, <2>2, <2>3, <2>6, <3>1
      <3>2. CASE v # w
        BY <1>0, <2>1, <2>2, <2>3, <2>5, <2>7, <3>2
      <3> QED BY <3>1, <3>2
    <2> QED BY <1>0, <2>2, <2>8, <2>9 DEF Honest, HonestNext
  <1>6. ASSUME NEW w \in Worker, processRow(w) PROVE MemoryIsSound'
    <2> DEFINE r == cur[w].row
    <2>1. cur[w] # NoRow /\ r \in Row /\ state[r] # "ABSENT"
      BY <1>0, <1>6 DEF processRow, TypeOK
    <2>2. /\ batch' = [batch EXCEPT ![w] = batch[w] \ {r}]
          /\ pc' = [pc EXCEPT ![w] = IF batch[w] = {r} THEN "idle" ELSE "publishing"]
          /\ cur' = [cur EXCEPT ![w] = NoRow]
          /\ snap' = [snap EXCEPT ![w][r] = 0]
          /\ UNCHANGED <<published, failures>>
      BY <1>6 DEF processRow
    <2>3. cur'[w] = NoRow /\ \A v \in Worker \ {w} : cur'[v] = cur[v] /\ pc'[v] = pc[v]
                                                    /\ snap'[v] = snap[v]
      BY <1>0, <2>2 DEF TypeOK
    <2>8. \A v \in Worker : \A q \in Row : snap'[v][q] = snap[v][q] \/ snap'[v][q] = 0
      BY <1>0, <2>2 DEF TypeOK
    <2>9. \A v \in Worker : \A q \in Row : Honest(snap'[v][q], q)
      BY <1>0, <2>8, ZeroHonest
    <2>4. \A v \in Worker : \A q \in batch'[v] : q \in batch[v] /\ q \in Row
      BY <1>0, <2>2 DEF TypeOK
    <2>5. /\ \A q \in Row : state'[q] = "ABSENT" => state[q] = "ABSENT"
          /\ \A q \in Row : Honest(attempts'[q], q)
      <3>1. CASE cur[w].ok
        <4>1. DeleteRow(r)
          BY <1>6, <3>1 DEF processRow
        <4>2. \A q \in Row : attempts'[q] = attempts[q] \/ attempts'[q] = 0
          BY <1>0, <4>1 DEF DeleteRow, TypeOK
        <4>3. \A q \in Row : state'[q] = "ABSENT" => state[q] = "ABSENT"
          BY <1>0, <4>1 DEF DeleteRow, TypeOK
        <4> QED BY <1>0, <4>2, <4>3, ZeroHonest
      <3>2. CASE ~cur[w].ok
        <4>1. RetryOrGiveUp(r, snap[w][r] + 1) /\ Honest(snap[w][r] + 1, r)
          BY <1>0, <1>6, <2>1, <3>2 DEF processRow
        <4> HIDE DEF r
        <4>2. CASE state[r] = "DELETED"
          BY <1>0, <4>1, <4>2 DEF RetryOrGiveUp
        <4>3. CASE state[r] # "DELETED"
          BY <1>0, <2>1, <4>1, <4>3 DEF RetryOrGiveUp, RetryState, TypeOK
        <4> QED BY <4>2, <4>3
      <3> QED BY <3>1, <3>2
    <2>6. \A v \in Worker : cur[v] # NoRow => cur[v].row \in Row
      BY <1>0 DEF TypeOK
    <2>7. \A v \in Worker :
             /\ cur'[v] # NoRow => pc'[v] = "publishing" /\ state'[cur'[v].row] # "ABSENT"
             /\ cur'[v].ok => cur'[v].row \in published'
             /\ cur'[v] # NoRow /\ ~cur'[v].ok => Honest(snap'[v][cur'[v].row] + 1, cur'[v].row)
             /\ \A q \in batch'[v] : state'[q] # "ABSENT"
      BY <1>0, <2>2, <2>3, <2>4, <2>5, <2>6, NoRowNotOk
    <2> QED BY <1>0, <2>2, <2>5, <2>7, <2>9 DEF Honest
  <1>7. ASSUME NEW w \in Worker, Crash(w) PROVE MemoryIsSound'
    <2>1. cur'[w] = NoRow /\ batch'[w] = {}
          /\ \A v \in Worker \ {w} : cur'[v] = cur[v] /\ batch'[v] = batch[v] /\ pc'[v] = pc[v]
      BY <1>0, <1>7 DEF Crash, TypeOK
    <2>2. UNCHANGED <<state, attempts, published, failures>>
      BY <1>7 DEF Crash
    <2>3. /\ snap'[w] = [r \in Row |-> 0]
          /\ \A v \in Worker \ {w} : snap'[v] = snap[v]
      BY <1>0, <1>7 DEF Crash, TypeOK
    <2>4. \A v \in Worker : \A r \in Row : Honest(snap'[v][r], r)
      BY <1>0, <2>3, ZeroHonest
    <2> QED BY <1>0, <2>1, <2>2, <2>3, <2>4, NoRowNotOk DEF Honest
  <1>8. CASE UNCHANGED vars
    BY <1>0, <1>8 DEF vars, Honest
  <1> QED BY <1>1, <1>2, <1>3, <1>4, <1>5, <1>6, <1>7, <1>8, <1>9 DEF Next, Tick

\* No step deletes a row whose event the broker has not got.
LEMMA NoEventLostStep == IInv /\ [Next]_vars => NoEventLost'
  <1> SUFFICES ASSUME IInv, [Next]_vars, NEW r \in Row, state'[r] = "DELETED"
               PROVE  r \in published'
    BY DEF NoEventLost
  <1>0. TypeOK /\ MemoryIsSound /\ (state[r] = "DELETED" => r \in published)
    BY DEF IInv, NoEventLost
  <1>1. ASSUME NEW q \in Row, Append(q) \/ Age(q) PROVE r \in published'
    BY <1>0, <1>1 DEF Append, Age, TypeOK
  <1>2. ASSUME NEW w \in Worker, Recover(w) \/ LockBatch(w) \/ MarkProcessing(w) \/ Crash(w) PROVE r \in published'
    BY <1>0, <1>2 DEF Recover, LockBatch, MarkProcessing, Crash
  <1>3. ASSUME NEW w \in Worker, NEW q \in Row, Publish(w, q) PROVE r \in published'
    <2>1. state' = state /\ published \subseteq published'
      BY <1>3 DEF Publish
    <2> QED BY <1>0, <2>1
  <1>4. ASSUME NEW w \in Worker, processRow(w) PROVE r \in published'
    <2>1. published' = published
      BY <1>4 DEF processRow
    <2>2. CASE cur[w].ok
      <3>1. state' = [state EXCEPT ![cur[w].row] = "DELETED"] /\ cur[w].row \in published
        BY <1>0, <1>4, <2>2 DEF processRow, DeleteRow, MemoryIsSound
      <3> QED BY <1>0, <2>1, <3>1 DEF TypeOK
    <2>3. CASE ~cur[w].ok
      BY <1>0, <1>4, <2>1, <2>3 DEF processRow, RetryOrGiveUp, RetryState, TypeOK
    <2> QED BY <2>2, <2>3
  <1>5. CASE UNCHANGED vars
    BY <1>0, <1>5 DEF vars
  <1> QED BY <1>1, <1>2, <1>3, <1>4, <1>5 DEF Next, Tick

\* No step gives a row up before its publications failed MaxAttempts times.
LEMMA DeadStep == IInv /\ [Next]_vars => DeadOnlyAfterRetries'
  <1> SUFFICES ASSUME IInv, [Next]_vars, NEW r \in Row, state'[r] = "DEAD"
               PROVE  failures'[r] = MaxAttempts
    BY DEF DeadOnlyAfterRetries
  <1>0. TypeOK /\ MemoryIsSound /\ (state[r] = "DEAD" => failures[r] = MaxAttempts)
    BY DEF IInv, DeadOnlyAfterRetries
  <1>1. ASSUME NEW q \in Row, Append(q) \/ Age(q)
        PROVE  failures'[r] = MaxAttempts
    BY <1>0, <1>1 DEF Append, Age, TypeOK
  <1>2. ASSUME NEW w \in Worker, Recover(w) \/ LockBatch(w) \/ MarkProcessing(w) \/ Crash(w)
        PROVE  failures'[r] = MaxAttempts
    BY <1>0, <1>2 DEF Recover, LockBatch, MarkProcessing, Crash
  <1>3. ASSUME NEW w \in Worker, NEW q \in Row, Publish(w, q)
        PROVE  failures'[r] = MaxAttempts
    <2>1. state' = state /\ (failures[r] = MaxAttempts => failures'[r] = failures[r])
      BY <1>0, <1>3 DEF Publish, TypeOK
    <2> QED BY <1>0, <2>1
  <1>4. ASSUME NEW w \in Worker, processRow(w) PROVE failures'[r] = MaxAttempts
    <2> DEFINE q == cur[w].row
               n == snap[w][q] + 1
    <2>1. failures' = failures /\ q \in Row /\ n \in Nat
      BY <1>0, <1>4 DEF processRow, TypeOK
    <2>2. CASE cur[w].ok \/ r # q \/ state[q] = "DELETED"
      <3>1. state[r] = "DEAD"
        BY <1>0, <1>4, <2>1, <2>2 DEF processRow, DeleteRow, RetryOrGiveUp, TypeOK
      <3> QED BY <1>0, <2>1, <3>1
    <2>3. CASE ~cur[w].ok /\ r = q /\ state[q] # "DELETED"
      <3>1. Honest(n, q) /\ RetryOrGiveUp(q, n)
        BY <1>0, <1>4, <2>3 DEF processRow, MemoryIsSound
      <3> HIDE DEF q, n
      <3>2. n >= MaxAttempts
        BY <1>0, <2>1, <2>3, <3>1 DEF RetryOrGiveUp, RetryState, TypeOK
      <3>3. failures[q] \in 0..MaxAttempts /\ (n <= failures[q] \/ failures[q] = MaxAttempts)
        BY <1>0, <2>1, <3>1 DEF Honest, TypeOK
      <3>4. failures[q] = MaxAttempts
        BY <2>1, <3>2, <3>3, CapReached
      <3> QED BY <2>1, <2>3, <3>4
    <2> QED BY <2>2, <2>3
  <1>5. CASE UNCHANGED vars
    BY <1>0, <1>5 DEF vars
  <1> QED BY <1>1, <1>2, <1>3, <1>4, <1>5 DEF Next, Tick

\* The empty table and idle replicas satisfy the invariant.
LEMMA InvInit == Init => IInv
  BY OutboxRelayAssumption, NoRowNotOk
     DEF Init, IInv, TypeOK, MemoryIsSound, LocksExclude, Locked, NoEventLost, DeadOnlyAfterRetries, Honest, States, Ages

\* The inductive invariant of the relay: types, sound memory, no event lost, no
\* row given up early.
THEOREM Invariance == Spec => []IInv
  <1>1. IInv /\ [Next]_vars => IInv'
    BY TypeStep, MemoryStep, NoEventLostStep, DeadStep DEF IInv
  <1> QED BY <1>1, InvInit, PTL DEF Spec

\* What a replica remembers from before its last await is true of the table.
THEOREM MemoryStaysSound == Spec => []MemoryIsSound
  BY Invariance, PTL DEF IInv

\* No crash, overlap or recovery of replicas makes an event vanish.
THEOREM EventsNotLost == Spec => []NoEventLost
  BY Invariance, PTL DEF IInv

\* No replica gives up on a row before MAX_ATTEMPTS publications failed.
THEOREM DeadRowsWereTried == Spec => []DeadOnlyAfterRetries
  BY Invariance, PTL DEF IInv

----------------------------------------------------------------------------
(* The relay implements at-least-once delivery *)

\* Custody changes as the state column does: not at all, or of one row.
LEMMA CustodySame ==
  ASSUME \A r \in Row : CustodyOf(state'[r]) = CustodyOf(state[r])
  PROVE  custody' = custody
  BY DEF custody

\* Writing one row's state changes the custody of that event only.
LEMMA CustodyUpdate ==
  ASSUME TypeOK, NEW r \in Row, NEW st \in States, state' = [state EXCEPT ![r] = st]
  PROVE  custody' = [custody EXCEPT ![r] = CustodyOf(st)] /\ custody[r] = CustodyOf(state[r])
  <1>1. \A q \in Row : custody'[q] = CustodyOf(IF q = r THEN st ELSE state[q])
    BY DEF custody, TypeOK
  <1> QED BY <1>1 DEF custody

\* An empty outbox is the abstract initial state.
LEMMA RefinedInit == Init => Abstract!DeliveryInit
  BY DEF Init, Abstract!DeliveryInit, custody, CustodyOf

\* Every step of the worker is a step of at-least-once delivery or a stutter.
LEMMA RefinedStep == IInv /\ [Next]_vars => [Abstract!DeliveryNext]_(Abstract!dvars)
  <1> SUFFICES ASSUME IInv, [Next]_vars
               PROVE  \/ UNCHANGED <<custody, published>>
                      \/ \E r \in Row : \/ Abstract!Accept(r) \/ Abstract!Deliver(r)
                                        \/ Abstract!Discharge(r) \/ Abstract!GiveUp(r)
                                        \/ Abstract!Resume(r)
    BY DEF Abstract!DeliveryNext, Abstract!dvars
  <1>0. TypeOK /\ MemoryIsSound
    BY DEF IInv
  <1>1. ASSUME NEW r \in Row, Append(r) PROVE Abstract!Accept(r)
    BY <1>0, <1>1, CustodyUpdate DEF Append, Abstract!Accept, CustodyOf, States
  <1>2. ASSUME NEW r \in Row, Age(r) PROVE UNCHANGED <<custody, published>>
    BY <1>2, CustodySame DEF Age
  <1>3. ASSUME NEW w \in Worker, Recover(w) PROVE UNCHANGED <<custody, published>>
    <2>1. \A r \in Row : (state'[r] = state[r]) \/ (state[r] = "PROCESSING" /\ state'[r] = "PENDING")
      <3>1. state' = [r \in Row |-> IF r \in Stuck THEN "PENDING" ELSE state[r]]
        BY <1>3 DEF Recover
      <3> QED BY <3>1 DEF Stuck
    <2>2. \A r \in Row : CustodyOf(state'[r]) = CustodyOf(state[r])
      BY <2>1 DEF CustodyOf
    <2> QED BY <1>3, <2>2, CustodySame DEF Recover
  <1>9. ASSUME NEW w \in Worker, LockBatch(w) PROVE UNCHANGED <<custody, published>>
    BY <1>9, CustodySame DEF LockBatch
  <1>4. ASSUME NEW w \in Worker, MarkProcessing(w) PROVE UNCHANGED <<custody, published>>
    <2>1. \A r \in Row : (state'[r] = state[r]) \/ (state[r] = "PENDING" /\ state'[r] = "PROCESSING")
      <3>1. pc[w] = "marking" /\ LocksExclude
        BY <1>0, <1>4 DEF MarkProcessing, MemoryIsSound
      <3>2. \A r \in batch[w] : state[r] = "PENDING"
        BY <3>1, LocksApart
      <3>3. state' = [r \in Row |-> IF r \in batch[w] THEN "PROCESSING" ELSE state[r]]
        BY <1>4 DEF MarkProcessing
      <3> QED BY <3>2, <3>3
    <2>2. \A r \in Row : CustodyOf(state'[r]) = CustodyOf(state[r])
      BY <2>1 DEF CustodyOf
    <2> QED BY <1>4, <2>2, CustodySame DEF MarkProcessing
  <1>5. ASSUME NEW w \in Worker, NEW r \in Row, Publish(w, r)
        PROVE  UNCHANGED <<custody, published>> \/ Abstract!Deliver(r)
    <2>1. state' = state /\ state[r] # "ABSENT"
      BY <1>0, <1>5 DEF Publish, MemoryIsSound
    <2>2. custody' = custody /\ custody[r] # "none"
      BY <2>1 DEF custody, CustodyOf
    <2>3. published' = published \/ published' = published \union {r}
      BY <1>5 DEF Publish
    <2> QED BY <2>2, <2>3 DEF Abstract!Deliver
  <1>6. ASSUME NEW w \in Worker, processRow(w)
        PROVE  UNCHANGED <<custody, published>>
               \/ \E r \in Row : \/ Abstract!Discharge(r) \/ Abstract!GiveUp(r)
                                 \/ Abstract!Resume(r)
    <2> DEFINE r == cur[w].row
               n == snap[w][r] + 1
    <2>1. r \in Row /\ state[r] # "ABSENT" /\ published' = published /\ state[r] \in States
      BY <1>0, <1>6 DEF processRow, MemoryIsSound, TypeOK
    <2>2. \/ state' = [state EXCEPT ![r] = "DELETED"] /\ r \in published
          \/ RetryOrGiveUp(r, n)
      BY <1>0, <1>6 DEF processRow, DeleteRow, MemoryIsSound
    <2>3. PICK q \in Row : q = r
      BY <2>1
    <2> HIDE DEF r, n
    <2>4. CASE state' = [state EXCEPT ![q] = "DELETED"] /\ q \in published
      <3>1. custody' = [custody EXCEPT ![q] = "discharged"] /\ custody[q] = CustodyOf(state[q])
        BY <1>0, <2>4, CustodyUpdate DEF CustodyOf, States
      <3>2. CASE state[q] = "DELETED"
        <4>1. custody' = custody
          BY <3>1, <3>2 DEF custody, CustodyOf
        <4> QED BY <2>1, <4>1
      <3>3. CASE state[q] # "DELETED"
        <4>1. Abstract!Discharge(q)
          BY <2>1, <2>3, <2>4, <3>1, <3>3 DEF CustodyOf, Abstract!Discharge
        <4> QED BY <4>1
      <3> QED BY <3>2, <3>3
    <2>5. CASE RetryOrGiveUp(q, n) /\ state[q] = "DELETED"
      BY <2>1, <2>5, CustodySame DEF RetryOrGiveUp
    <2>6. CASE state' = [state EXCEPT ![q] = "PENDING"] /\ state[q] # "DELETED"
      <3>1. custody' = [custody EXCEPT ![q] = "stored"] /\ custody[q] = CustodyOf(state[q])
        BY <1>0, <2>6, CustodyUpdate DEF CustodyOf, States
      <3>2. CASE state[q] = "DEAD"
        <4>1. Abstract!Resume(q)
          BY <2>1, <3>1, <3>2 DEF CustodyOf, Abstract!Resume
        <4> QED BY <4>1
      <3>3. CASE state[q] # "DEAD"
        <4>1. custody' = custody
          BY <2>1, <2>3, <2>6, <3>1, <3>3 DEF custody, CustodyOf
        <4> QED BY <2>1, <4>1
      <3> QED BY <3>2, <3>3
    <2>7. CASE state' = [state EXCEPT ![q] = "DEAD"] /\ state[q] # "DELETED"
      <3>1. custody' = [custody EXCEPT ![q] = "dead"] /\ custody[q] = CustodyOf(state[q])
        BY <1>0, <2>7, CustodyUpdate DEF CustodyOf, States
      <3>2. CASE state[q] = "DEAD"
        <4>1. custody' = custody
          BY <3>1, <3>2 DEF custody, CustodyOf
        <4> QED BY <2>1, <4>1
      <3>3. CASE state[q] # "DEAD"
        <4>1. Abstract!GiveUp(q)
          BY <2>1, <2>3, <2>7, <3>1, <3>3 DEF CustodyOf, Abstract!GiveUp
        <4> QED BY <4>1
      <3> QED BY <3>2, <3>3
    <2>8. RetryOrGiveUp(q, n) /\ state[q] # "DELETED" =>
             \/ state' = [state EXCEPT ![q] = "PENDING"]
             \/ state' = [state EXCEPT ![q] = "DEAD"]
      BY DEF RetryOrGiveUp, RetryState
    <2> QED BY <2>2, <2>3, <2>4, <2>5, <2>6, <2>7, <2>8
  <1>7. ASSUME NEW w \in Worker, Crash(w) PROVE UNCHANGED <<custody, published>>
    BY <1>7, CustodySame DEF Crash
  <1>8. CASE UNCHANGED vars
    BY <1>8, CustodySame DEF vars
  <1> QED BY <1>1, <1>2, <1>3, <1>4, <1>5, <1>6, <1>7, <1>8, <1>9 DEF Next, Tick

\* The worker, with its crashes, overlapping replicas, stale retry counts and
\* five-minute recovery, implements the at-least-once promise of EventDelivery.
THEOREM RelayImplementsDelivery == Spec => AtLeastOnce
  BY RefinedInit, RefinedStep, Invariance, PTL
     DEF Spec, AtLeastOnce, Abstract!DeliverySpec
=============================================================================
