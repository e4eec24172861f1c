------------------------- MODULE ServiceBootProofs -------------------------
(***************************************************************************)
(* Proofs about ServiceBoot, for any number of replicas, migration files   *)
(* and attempts to reach the broker.                                       *)
(*                                                                         *)
(* The migrations: what a replica has still to do contains every file that *)
(* is not recorded (MigrationInv), however old the list is, so that the    *)
(* first file of the list has all its predecessors recorded, and an empty  *)
(* list means a complete schema.  The connection: doConnect has run once   *)
(* exactly when the promise is set, and a promise resolves only after the  *)
(* queue was bound (ConnectionInv).  bootstrap() goes on only after each   *)
(* of these (SequenceInv).  Together they show that the boot implements    *)
(* SchemaRollout.                                                          *)
(***************************************************************************)
EXTENDS ServiceBoot, TLAPS

MigrationType ==
    /\ mig \in [Replica -> MigPhase]
    /\ todo \in [Replica -> SUBSET File]
    /\ tableExists \in BOOLEAN
    /\ recorded \subseteq File
    /\ effects \in [File -> Nat]

RabbitType ==
    /\ conn \in [Client -> {"null", "open", "lost", "closed"}]
    /\ pubChannel \in [Client -> BOOLEAN]
    /\ connecting \in [Client -> Stages]
    /\ attempt \in [Client -> 0..(DialAttempts - 1)]
    /\ dials \in [Client -> Nat]
    /\ brokerUp \in BOOLEAN /\ declared \in BOOLEAN /\ bound \in BOOLEAN

BootType ==
    /\ boot \in [Replica -> {"off", "migrating", "connecting", "subscribing", "listening", "exited"}]
    /\ pub \in [Replica -> {"idle", "waiting"}]
    /\ probe \in [Replica -> {"idle", "waiting"}]
    /\ starts \in 0..MaxStarts
    /\ outages \in 0..MaxOutages

MigrationInv ==
    /\ \A p \in Replica :
        /\ mig[p] \in {"apply", "commit", "done"} => File \ recorded \subseteq todo[p]
        /\ mig[p] = "done" => todo[p] = {}
    /\ MigrationsAtomic
    /\ AppliedInOrder

ConnectionInv ==
    \A c \in Client :
        /\ dials[c] = IF connecting[c] = "null" THEN 0 ELSE 1
        /\ connecting[c] = "resolved" => bound

SequenceInv ==
    \A p \in Replica :
        /\ Running(p) => mig[p] = "done"
        /\ boot[p] \in {"subscribing", "listening"} => bound

BootInv ==
    /\ MigrationType /\ RabbitType /\ BootType
    /\ MigrationInv /\ ConnectionInv /\ SequenceInv

----------------------------------------------------------------------------
(***************************************************************************)
(* What a step of the whole does to each part.                             *)
(***************************************************************************)

MigrationChange(p) ==
    \/ StartMigrations(p) \/ MigrationStep(p) \/ MigrationFails(p) \/ ForgetMigrations(p)

ConnectionChange(c) == doConnect(c) \/ ConnectionCloses(c)

\* A caller of connect(): only the promise and the count of dials can change.
ConnectCall(c) ==
    connect(c) /\ UNCHANGED <<conn, pubChannel, attempt, brokerUp, declared, bound>>

\* The broker's state changes, and of the clients' at most that open connections
\* are lost.
BrokerChange ==
    /\ \/ conn' = conn
       \/ conn' = [c \in Client |-> IF conn[c] = "open" THEN "lost" ELSE conn[c]]
    /\ UNCHANGED <<pubChannel, connecting, attempt, dials, declared, bound>>
    /\ brokerUp' \in BOOLEAN

\* A step of the system is, for the migrations, a step of one replica's runner
\* or none (the calls of run.ts in bootstrap()).
LEMMA MigrationSteps ==
    ASSUME Next
    PROVE  UNCHANGED migVars \/ \E p \in Replica : MigrationChange(p)
  <1>1. ASSUME NEW p \in Replica, Exit(p) PROVE MigrationChange(p)
    BY <1>1 DEF Exit, MigrationChange
  <1>2. ASSUME NEW p \in Replica, NEW c, LoseConnection(p, c)
        PROVE  UNCHANGED migVars \/ MigrationChange(p)
    BY <1>1, <1>2 DEF LoseConnection
  <1>3. CASE BrokerStops \/ BrokerStarts
    BY <1>3 DEF BrokerStops, BrokerStarts
  <1>4. ASSUME NEW p \in Replica, Start(p) \/ bootstrap(p) \/ DatabaseFails(p) \/ Stop(p)
        PROVE  UNCHANGED migVars \/ MigrationChange(p)
    BY <1>1, <1>4 DEF Start, bootstrap, DatabaseFails, Stop, Migrate, StartWorkers,
                      ConsumerConnected, Subscribe, BootFails, MigrationChange
  <1>5. ASSUME NEW p \in Replica,
               publish(p) \/ PublishResumes(p) \/ ready(p) \/ ProbeResumes(p) \/ NetworkAnswers(p)
        PROVE  UNCHANGED migVars \/ MigrationChange(p)
    BY <1>2, <1>5 DEF publish, PublishResumes, ready, ProbeResumes, NetworkAnswers,
                      Connecting, OutageNoticed
  <1> QED BY <1>3, <1>4, <1>5 DEF Next

\* A step of the system is, for RabbitService, one step of one instance, the end
\* of a process with its instances, or a change of the broker.
LEMMA ConnectionSteps ==
    ASSUME Next
    PROVE  \/ UNCHANGED rabbitVars
           \/ BrokerChange
           \/ \E c \in Client : ConnectionChange(c) \/ ConnectCall(c)
           \/ \E p \in Replica : ForgetClients({App(p), Health(p)})
  <1> DEFINE Changes(p) == \/ UNCHANGED rabbitVars
                           \/ \E c \in Client : ConnectionChange(c) \/ ConnectCall(c)
                           \/ ForgetClients({App(p), Health(p)})
  <1>0. \A p \in Replica : App(p) \in Client /\ Health(p) \in Client
    BY BootAssumption DEF App, Health
  <1>1. ASSUME NEW p \in Replica, Exit(p) PROVE Changes(p)
    BY <1>1 DEF Exit
  <1>2. ASSUME NEW p \in Replica, NEW c \in Client, LoseConnection(p, c) PROVE Changes(p)
    BY <1>1, <1>2 DEF LoseConnection, ConnectionChange
  <1>3. CASE BrokerStops \/ BrokerStarts
    BY <1>3 DEF BrokerStops, BrokerStarts, BrokerChange, clientVars
  <1>4. ASSUME NEW p \in Replica, Start(p) \/ bootstrap(p) \/ DatabaseFails(p) \/ Stop(p)
        PROVE  Changes(p)
    <2>1. CASE StartWorkers(p) BY <1>0, <2>1 DEF StartWorkers, ConnectCall
    <2>2. CASE BootFails(p) \/ Stop(p) BY <1>1, <2>2 DEF BootFails, Stop
    <2> QED BY <1>4, <2>1, <2>2 DEF Start, bootstrap, DatabaseFails, Migrate,
                                    ConsumerConnected, Subscribe
  <1>5. ASSUME NEW p \in Replica,
               publish(p) \/ PublishResumes(p) \/ ready(p) \/ ProbeResumes(p) \/ NetworkAnswers(p)
        PROVE  Changes(p)
    <2>1. CASE publish(p) BY <1>0, <1>2, <2>1 DEF publish, ConnectCall
    <2>2. CASE ready(p) BY <1>0, <2>2 DEF ready, ConnectCall
    <2>3. CASE NetworkAnswers(p)
      BY <1>0, <1>2, <2>3 DEF NetworkAnswers, Connecting, OutageNoticed, ConnectionChange
    <2> QED BY <1>5, <2>1, <2>2, <2>3 DEF PublishResumes, ProbeResumes
  <1> QED BY <1>3, <1>4, <1>5 DEF Next

----------------------------------------------------------------------------
(***************************************************************************)
(* The migrations.                                                         *)
(***************************************************************************)

\* Each step of run.ts keeps the types of the migration state.
LEMMA MigrationTypeStep ==
    ASSUME MigrationType, Next
    PROVE  MigrationType'
  <1> USE DEF MigrationType, MigPhase
  <1>1. CASE UNCHANGED migVars BY <1>1 DEF migVars
  <1>2. ASSUME NEW p \in Replica, MigrationChange(p) PROVE MigrationType'
    <2>1. CASE StartMigrations(p) BY <2>1 DEF StartMigrations
    <2>2. CASE ForgetMigrations(p) BY <2>2 DEF ForgetMigrations
    <2>3. CASE Abort(p) BY <2>3 DEF Abort
    <2>4. CASE CheckTable(p) BY <2>4 DEF CheckTable
    <2>5. CASE CreateTable(p) BY <2>3, <2>5 DEF CreateTable
    <2>6. CASE ReadApplied(p) BY <2>6 DEF ReadApplied, Continue
    <2>7. CASE runSqlBlock(p) BY <2>7 DEF runSqlBlock
    <2>8. CASE RecordAndCommit(p)
      <3>1. PICK f \in File :
               \/ Abort(p)
               \/ /\ recorded' = recorded \union {f}
                  /\ effects' = [effects EXCEPT ![f] = @ + 1]
                  /\ Continue(p, todo[p] \ {f})
                  /\ UNCHANGED tableExists
        BY <2>8 DEF RecordAndCommit
      <3> QED BY <2>3, <3>1 DEF Continue
    <2> QED BY <1>2, <2>1, <2>2, <2>3, <2>4, <2>5, <2>6, <2>7, <2>8
            DEF MigrationChange, MigrationStep, MigrationFails
  <1> QED BY <1>1, <1>2, MigrationSteps

\* A step that records nothing and leaves a replica's list alone or resets it
\* keeps the invariant.
LEMMA MigrationFrame ==
    ASSUME MigrationInv, NEW p \in Replica, MigrationType,
           UNCHANGED <<recorded, effects>>,
           \A q \in Replica \ {p} : mig'[q] = mig[q] /\ todo'[q] = todo[q],
           mig'[p] \in {"apply", "commit", "done"} => File \ recorded \subseteq todo'[p],
           mig'[p] = "done" => todo'[p] = {}
    PROVE  MigrationInv'
  BY DEF MigrationInv, MigrationsAtomic, AppliedInOrder

\* run.ts applies a file at most once and in order, also from an old list: the
\* first file of the list is recorded only if the primary key allows it, and
\* what is not on the list is already recorded.
LEMMA MigrationInvStep ==
    ASSUME MigrationType, MigrationInv, Next
    PROVE  MigrationInv'
  <1>1. CASE UNCHANGED migVars
    BY <1>1 DEF migVars, MigrationInv, MigrationsAtomic, AppliedInOrder
  <1>2. ASSUME NEW p \in Replica, MigrationChange(p) PROVE MigrationInv'
    <2> USE DEF MigrationType
    <2>1. CASE StartMigrations(p) BY <2>1, MigrationFrame DEF StartMigrations
    <2>2. CASE ForgetMigrations(p) BY <2>2, MigrationFrame DEF ForgetMigrations
    <2>3. CASE Abort(p) BY <2>3, MigrationFrame DEF Abort
    <2>4. CASE CheckTable(p) BY <2>4, MigrationFrame DEF CheckTable
    <2>5. CASE CreateTable(p) BY <2>3, <2>5, MigrationFrame DEF CreateTable
    <2>6. CASE ReadApplied(p) BY <2>6, MigrationFrame DEF ReadApplied, Continue
    <2>7. CASE runSqlBlock(p)
      <3>1. File \ recorded \subseteq todo[p] BY <2>7 DEF runSqlBlock, MigrationInv
      <3> QED BY <2>7, <3>1, MigrationFrame DEF runSqlBlock
    <2>8. CASE RecordAndCommit(p)
      <3>1. PICK f \in File :
               /\ IsCurrent(p, f)
               /\ \/ Abort(p)
                  \/ /\ f \notin recorded
                     /\ recorded' = recorded \union {f}
                     /\ effects' = [effects EXCEPT ![f] = @ + 1]
                     /\ Continue(p, todo[p] \ {f})
        BY <2>8 DEF RecordAndCommit
      <3>2. SUFFICES ASSUME f \notin recorded,
                            recorded' = recorded \union {f},
                            effects' = [effects EXCEPT ![f] = @ + 1],
                            Continue(p, todo[p] \ {f})
                     PROVE  MigrationInv'
        BY <2>3, <3>1
      <3>3. mig[p] = "commit" /\ File \ recorded \subseteq todo[p]
        BY <2>8 DEF RecordAndCommit, MigrationInv
      <3>4. \A g \in File : g < f => g \in recorded
        BY <3>1, <3>3 DEF IsCurrent, File
      <3>5. MigrationsAtomic' BY <3>2 DEF MigrationInv, MigrationsAtomic
      <3>6. AppliedInOrder' BY <3>2, <3>4 DEF MigrationInv, AppliedInOrder
      <3>7. ASSUME NEW q \in Replica
            PROVE  /\ mig'[q] \in {"apply", "commit", "done"} => File \ recorded' \subseteq todo'[q]
                   /\ mig'[q] = "done" => todo'[q] = {}
        <4>1. CASE q = p BY <3>2, <3>3, <4>1 DEF Continue
        <4>2. CASE q # p BY <3>2, <4>2 DEF Continue, MigrationInv
        <4> QED BY <4>1, <4>2
      <3> QED BY <3>5, <3>6, <3>7 DEF MigrationInv
    <2> QED BY <1>2, <2>1, <2>2, <2>3, <2>4, <2>5, <2>6, <2>7, <2>8
            DEF MigrationChange, MigrationStep, MigrationFails
  <1> QED BY <1>1, <1>2, MigrationSteps

----------------------------------------------------------------------------
(***************************************************************************)
(* The connection.                                                         *)
(***************************************************************************)

\* Each step of RabbitService keeps the types of its fields; the loop gives up
\* before attempt leaves its range.
LEMMA RabbitTypeStep ==
    ASSUME RabbitType, Next
    PROVE  RabbitType'
  <1> USE RabbitAssumption DEF RabbitType, Stages
  <1>1. CASE UNCHANGED rabbitVars BY <1>1 DEF rabbitVars
  <1>2. CASE BrokerChange BY <1>2 DEF BrokerChange
  <1>3. ASSUME NEW c \in Client, ConnectCall(c) PROVE RabbitType'
    BY <1>3 DEF ConnectCall, connect
  <1>4. ASSUME NEW c \in Client, ConnectionChange(c) PROVE RabbitType'
    <2>1. CASE DialFails(c) BY <2>1 DEF DialFails
    <2>2. CASE Dial(c) BY <2>2 DEF Dial
    <2>3. CASE CreateChannel(c) BY <2>3 DEF CreateChannel
    <2>4. CASE AssertExchanges(c) BY <2>4 DEF AssertExchanges
    <2>5. CASE BindQueue(c) BY <2>5 DEF BindQueue
    <2>6. CASE ConnectionCloses(c) BY <2>6 DEF ConnectionCloses
    <2> QED BY <1>4, <2>1, <2>2, <2>3, <2>4, <2>5, <2>6 DEF ConnectionChange, doConnect
  <1>5. ASSUME NEW p \in Replica, ForgetClients({App(p), Health(p)}) PROVE RabbitType'
    <2> DEFINE C == {App(p), Health(p)}
    <2>1. ForgetClients(C) BY <1>5
    <2> HIDE DEF C
    <2>2. conn' \in [Client -> {"null", "open", "lost", "closed"}] /\ pubChannel' \in [Client -> BOOLEAN]
      BY <2>1 DEF ForgetClients
    <2>3. connecting' \in [Client -> Stages] BY <2>1 DEF ForgetClients
    <2>4. attempt' \in [Client -> 0..(DialAttempts - 1)] /\ dials' \in [Client -> Nat]
      BY <2>1 DEF ForgetClients
    <2> QED BY <2>1, <2>2, <2>3, <2>4 DEF ForgetClients
  <1> QED BY <1>1, <1>2, <1>3, <1>4, <1>5, ConnectionSteps

\* connect() starts doConnect only when there is no promise, nothing but the end
\* of the process takes the promise away, and it resolves only after bindQueue.
LEMMA ConnectionInvStep ==
    ASSUME RabbitType, ConnectionInv, Next
    PROVE  ConnectionInv'
  <1> USE DEF RabbitType, ConnectionInv
  <1>1. CASE UNCHANGED rabbitVars BY <1>1 DEF rabbitVars
  <1>2. CASE BrokerChange BY <1>2 DEF BrokerChange
  <1>3. ASSUME NEW c \in Client, ConnectCall(c) PROVE ConnectionInv'
    BY <1>3 DEF ConnectCall, connect
  <1>4. ASSUME NEW c \in Client, ConnectionChange(c) PROVE ConnectionInv'
    <2>1. CASE DialFails(c) BY <2>1 DEF DialFails
    <2>2. CASE Dial(c) BY <2>2 DEF Dial
    <2>3. CASE CreateChannel(c) BY <2>3 DEF CreateChannel
    <2>4. CASE AssertExchanges(c) BY <2>4 DEF AssertExchanges
    <2>5. CASE BindQueue(c) BY <2>5 DEF BindQueue
    <2>6. CASE ConnectionCloses(c) BY <2>6 DEF ConnectionCloses, Pending
    <2> QED BY <1>4, <2>1, <2>2, <2>3, <2>4, <2>5, <2>6 DEF ConnectionChange, doConnect
  <1>5. ASSUME NEW p \in Replica, ForgetClients({App(p), Health(p)}) PROVE ConnectionInv'
    BY <1>5 DEF ForgetClients
  <1> QED BY <1>1, <1>2, <1>3, <1>4, <1>5, ConnectionSteps

\* The topology a durable broker keeps: a bound queue stays bound.
LEMMA BoundStays ==
    ASSUME RabbitType, Next, bound
    PROVE  bound'
  BY ConnectionSteps
     DEF rabbitVars, BrokerChange, ConnectCall, ConnectionChange, ConnectionCloses, ForgetClients,
         doConnect, DialFails, Dial, CreateChannel, AssertExchanges, BindQueue

----------------------------------------------------------------------------
(***************************************************************************)
(* The order of bootstrap().                                               *)
(***************************************************************************)

\* Each step keeps the types of the boot state.
LEMMA BootTypeStep ==
    ASSUME BootType, Next
    PROVE  BootType'
  <1> USE BootAssumption DEF BootType
  <1>1. ASSUME NEW p \in Replica, Exit(p) PROVE BootType'
    BY <1>1 DEF Exit
  <1>2. ASSUME NEW p \in Replica, NEW c, LoseConnection(p, c) PROVE BootType'
    BY <1>1, <1>2 DEF LoseConnection, bootVars
  <1>3. CASE BrokerStops BY <1>3 DEF BrokerStops
  <1>4. CASE BrokerStarts BY <1>4 DEF BrokerStarts, bootVars
  <1>5. ASSUME NEW p \in Replica, Start(p) PROVE BootType'
    BY <1>5 DEF Start
  <1>6. ASSUME NEW p \in Replica, bootstrap(p) \/ DatabaseFails(p) \/ Stop(p) PROVE BootType'
    BY <1>1, <1>6 DEF bootstrap, DatabaseFails, Stop, Migrate, StartWorkers, ConsumerConnected,
                      Subscribe, BootFails, bootVars
  <1>7. ASSUME NEW p \in Replica,
               publish(p) \/ PublishResumes(p) \/ ready(p) \/ ProbeResumes(p) \/ NetworkAnswers(p)
        PROVE  BootType'
    BY <1>2, <1>7 DEF publish, PublishResumes, ready, ProbeResumes, NetworkAnswers, Connecting,
                      OutageNoticed, bootVars
  <1> QED BY <1>3, <1>4, <1>5, <1>6, <1>7 DEF Next

\* A step that leaves every process where it is, or ends one, and does not take
\* back a finished migration run.
LEMMA SequenceFrame ==
    ASSUME BootInv, Next, boot' = boot,
           \A q \in Replica : mig[q] = "done" => mig'[q] = "done"
    PROVE  SequenceInv'
  BY BoundStays DEF BootInv, SequenceInv, Running

\* bootstrap() starts the workers only after runMigrations and subscribes only
\* after connect(); a running process keeps both facts until it ends.
LEMMA SequenceInvStep ==
    ASSUME BootInv, Next
    PROVE  SequenceInv'
  <1> USE DEF BootInv
  <1>0. \A q \in Replica : App(q) \in Client BY BootAssumption DEF App
  <1>b. bound => bound' BY BoundStays
  <1>1. ASSUME NEW p \in Replica, Exit(p) PROVE SequenceInv'
    BY <1>1, <1>b DEF Exit, ForgetMigrations, SequenceInv, Running, BootType, MigrationType
  <1>2. ASSUME NEW p \in Replica, NEW c, LoseConnection(p, c) PROVE SequenceInv'
    BY <1>1, <1>2, SequenceFrame DEF LoseConnection, bootVars, migVars
  <1>3. CASE BrokerStops \/ BrokerStarts
    BY <1>3, SequenceFrame DEF BrokerStops, BrokerStarts, bootVars, migVars
  <1>4. ASSUME NEW p \in Replica, Start(p) PROVE SequenceInv'
    BY <1>4, <1>b DEF Start, StartMigrations, SequenceInv, Running, BootType, MigrationType
  <1>5. ASSUME NEW p \in Replica, Migrate(p) \/ DatabaseFails(p) PROVE SequenceInv'
    <2>1. boot' = boot BY <1>5 DEF Migrate, DatabaseFails, bootVars
    <2>2. \A q \in Replica : mig[q] = "done" => mig'[q] = "done"
      BY <1>5 DEF Migrate, DatabaseFails, MigrationStep, MigrationFails, Migrating, Abort,
                  CheckTable, CreateTable, ReadApplied, runSqlBlock, RecordAndCommit, Continue,
                  MigrationType
    <2> QED BY <2>1, <2>2, SequenceFrame
  <1>6. ASSUME NEW p \in Replica, StartWorkers(p) PROVE SequenceInv'
    BY <1>6, <1>b DEF StartWorkers, migVars, SequenceInv, Running, BootType
  <1>7. ASSUME NEW p \in Replica, ConsumerConnected(p) PROVE SequenceInv'
    BY <1>0, <1>7, <1>b DEF ConsumerConnected, migVars, SequenceInv, ConnectionInv, Running, BootType
  <1>8. ASSUME NEW p \in Replica, Subscribe(p) PROVE SequenceInv'
    BY <1>8, <1>b DEF Subscribe, migVars, SequenceInv, Running, BootType
  <1>9. ASSUME NEW p \in Replica, BootFails(p) \/ Stop(p) PROVE SequenceInv'
    BY <1>1, <1>9 DEF BootFails, Stop
  <1>10. ASSUME NEW p \in Replica,
               publish(p) \/ PublishResumes(p) \/ ready(p) \/ ProbeResumes(p) \/ NetworkAnswers(p)
         PROVE  SequenceInv'
    BY <1>2, <1>10, SequenceFrame
       DEF publish, PublishResumes, ready, ProbeResumes, NetworkAnswers, Connecting,
           OutageNoticed, bootVars, migVars
  <1> QED BY <1>3, <1>4, <1>5, <1>6, <1>7, <1>8, <1>9, <1>10 DEF Next, bootstrap

----------------------------------------------------------------------------
(***************************************************************************)
(* The theorems.                                                           *)
(***************************************************************************)

\* The invariant of the boot, from its parts.
THEOREM BootInvariant == Spec => []BootInv
  <1> USE DEF BootInv
  <1>1. Init => BootInv
    <2> SUFFICES ASSUME Init PROVE BootInv
      OBVIOUS
    <2> USE DEF Init, MigInit, RabbitInit
    <2>1. MigrationType BY DEF MigrationType, MigPhase
    <2>2. RabbitType
      <3>1. 0 \in 0..(DialAttempts - 1) BY RabbitAssumption
      <3>2. attempt \in [Client -> 0..(DialAttempts - 1)] BY <3>1
      <3> QED BY <3>2 DEF RabbitType, Stages
    <2>3. BootType BY BootAssumption DEF BootType
    <2>4. MigrationInv BY DEF MigrationInv, MigrationsAtomic, AppliedInOrder
    <2>5. ConnectionInv BY DEF ConnectionInv
    <2>6. SequenceInv BY DEF SequenceInv, Running
    <2> QED BY <2>1, <2>2, <2>3, <2>4, <2>5, <2>6
  <1>2. BootInv /\ [Next]_vars => BootInv'
    <2> SUFFICES ASSUME BootInv, [Next]_vars PROVE BootInv'
      OBVIOUS
    <2>1. CASE Next
      BY <2>1, MigrationTypeStep, RabbitTypeStep, BootTypeStep, MigrationInvStep,
         ConnectionInvStep, SequenceInvStep
    <2>2. CASE UNCHANGED vars
      <3> USE <2>2 DEF vars
      <3>1. MigrationType' /\ MigrationInv'
        BY DEF migVars, MigrationType, MigrationInv, MigrationsAtomic, AppliedInOrder
      <3>2. RabbitType' /\ ConnectionInv' BY DEF rabbitVars, RabbitType, ConnectionInv
      <3>3. BootType' BY DEF bootVars, BootType
      <3>4. SequenceInv' BY DEF migVars, rabbitVars, bootVars, SequenceInv, Running
      <3> QED BY <3>1, <3>2, <3>3, <3>4
    <2> QED BY <2>1, <2>2
  <1> QED BY <1>1, <1>2, PTL DEF Spec

\* The database, the broker and the processes stay in states the code knows; in
\* particular the loop around amqp.connect never counts past its bound.
THEOREM TypeCorrect == Spec => []TypeOK
  <1>1. BootInv => TypeOK BY DEF BootInv, MigrationType, RabbitType, BootType, TypeOK
  <1> QED BY <1>1, BootInvariant, PTL

\* run.ts applies a file exactly once, whatever replicas race for it or die.
THEOREM MigrationsStayAtomic == Spec => []MigrationsAtomic
  <1>1. BootInv => MigrationsAtomic BY DEF BootInv, MigrationInv
  <1> QED BY <1>1, BootInvariant, PTL

\* run.ts applies the files in the order of their names.
THEOREM MigrationsStayInOrder == Spec => []AppliedInOrder
  <1>1. BootInv => AppliedInOrder BY DEF BootInv, MigrationInv
  <1> QED BY <1>1, BootInvariant, PTL

\* bootstrap() starts nothing before the schema is complete, whichever replica
\* completed it.
THEOREM SchemaComplete == Spec => []ServesMigratedSchema
  <1>1. BootInv => ServesMigratedSchema
    <2> SUFFICES ASSUME BootInv, NEW p \in Replica, Running(p) PROVE recorded = File
      BY DEF ServesMigratedSchema
    <2>1. mig[p] = "done" BY DEF BootInv, SequenceInv
    <2>2. File \ recorded \subseteq {} BY <2>1 DEF BootInv, MigrationInv
    <2> QED BY <2>2 DEF BootInv, MigrationType
  <1> QED BY <1>1, BootInvariant, PTL

\* connect() opens one connection for all its callers.
THEOREM OneConnection == Spec => []SingleConnection
  <1>1. BootInv => SingleConnection BY DEF BootInv, ConnectionInv, SingleConnection
  <1> QED BY <1>1, BootInvariant, PTL

\* A process subscribes and serves only when its queue is bound.
THEOREM QueueBound == Spec => []BoundBeforeServing
  <1>1. BootInv => BoundBeforeServing BY DEF BootInv, SequenceInv, BoundBeforeServing
  <1> QED BY <1>1, BootInvariant, PTL

----------------------------------------------------------------------------
(***************************************************************************)
(* The refinement of SchemaRollout.                                        *)
(***************************************************************************)

Open == {p \in Replica : Running(p)}

Recorded(f) ==
    /\ recorded = 1..(f - 1)
    /\ recorded' = 1..f
    /\ effects' = [effects EXCEPT ![f] = @ + 1]

\* Of everything a replica does in runMigrations only the COMMIT is seen in the
\* schema, and what it commits is the successor of what is recorded.
LEMMA OnlyCommitsShow ==
    ASSUME BootInv, NEW p \in Replica, MigrationChange(p)
    PROVE  \/ UNCHANGED <<recorded, effects>>
           \/ MigrationStep(p) /\ \E f \in File : Recorded(f)
  <1>1. CASE RecordAndCommit(p)
    <2>1. PICK f \in File :
             /\ IsCurrent(p, f)
             /\ \/ Abort(p)
                \/ /\ f \notin recorded
                   /\ recorded' = recorded \union {f}
                   /\ effects' = [effects EXCEPT ![f] = @ + 1]
      BY <1>1 DEF RecordAndCommit
    <2>2. CASE Abort(p) BY <2>2 DEF Abort
    <2>3. CASE /\ f \notin recorded
               /\ recorded' = recorded \union {f}
               /\ effects' = [effects EXCEPT ![f] = @ + 1]
      <3>1. File \ recorded \subseteq todo[p]
        BY <1>1 DEF RecordAndCommit, BootInv, MigrationInv
      <3>2. \A g \in File : g < f => g \in recorded BY <2>1, <3>1 DEF IsCurrent, File
      <3>3. \A g \in File : f < g => g \notin recorded
        BY <2>3 DEF BootInv, MigrationInv, AppliedInOrder
      <3>4. recorded \subseteq File BY DEF BootInv, MigrationType
      <3>5. recorded = 1..(f - 1)
        <4>1. \A g \in File : g \in recorded <=> g < f
          BY <2>3, <3>2, <3>3, MigrationAssumption DEF File
        <4>2. \A g : g \in 1..(f - 1) <=> g \in File /\ g < f
          BY MigrationAssumption DEF File
        <4> QED BY <3>4, <4>1, <4>2
      <3>6. recorded' = 1..f BY <2>3, <3>5, MigrationAssumption DEF File
      <3>7. MigrationStep(p) BY <1>1 DEF MigrationStep
      <3> QED BY <2>3, <3>5, <3>6, <3>7 DEF Recorded
    <2> QED BY <2>1, <2>2, <2>3
  <1>2. CASE ~RecordAndCommit(p)
    BY <1>2 DEF MigrationChange, MigrationStep, MigrationFails, StartMigrations,
                ForgetMigrations, Abort, CheckTable, CreateTable, ReadApplied, runSqlBlock
  <1> QED BY <1>1, <1>2

\* A process that ends leaves the schema as it is and its work to the others.
LEMMA ExitCloses ==
    ASSUME BootType, NEW p \in Replica, Exit(p)
    PROVE  UNCHANGED <<recorded, effects>> /\ Open' = Open \ {p}
  BY DEF Exit, ForgetMigrations, Open, Running, BootType

\* The workers start when the replica's list is empty, and then nothing is missing.
LEMMA WorkersFindSchema ==
    ASSUME BootInv, NEW p \in Replica, StartWorkers(p)
    PROVE  recorded = File /\ UNCHANGED <<recorded, effects>> /\ Open' = Open \union {p}
  <1>1. recorded = File
    <2>1. File \ recorded \subseteq {} BY DEF StartWorkers, BootInv, MigrationInv
    <2> QED BY <2>1 DEF BootInv, MigrationType
  <1>2. Open' = Open \union {p} BY DEF StartWorkers, Open, Running, BootInv, BootType
  <1> QED BY <1>1, <1>2 DEF StartWorkers, migVars

\* A step that neither ends a process nor starts its workers opens nothing.
LEMMA OthersKeepOpen ==
    ASSUME BootType, NEW p \in Replica,
           \/ Start(p) \/ DatabaseFails(p) \/ Migrate(p) \/ ConsumerConnected(p) \/ Subscribe(p)
           \/ PublishResumes(p) \/ ready(p) \/ ProbeResumes(p)
    PROVE  Open' = Open
  BY DEF Start, DatabaseFails, Migrate, ConsumerConnected, Subscribe, PublishResumes, ready,
         ProbeResumes, bootVars, Open, Running, BootType

\* Every step of the boot is a step of SchemaRollout or none.
LEMMA RolloutStep ==
    ASSUME BootInv, Next
    PROVE  Rollout!RolloutNext \/ UNCHANGED Rollout!rvars
  <1> DEFINE Same == UNCHANGED <<recorded, effects>>
             Goal == \/ \E f \in File : Recorded(f) /\ Open' = Open
                     \/ \E p \in Replica : /\ Same
                                           /\ \/ recorded = File /\ Open' = Open \union {p}
                                              \/ Open' = Open \ {p}
                     \/ Same /\ Open' = Open
  <1>0. BootType BY DEF BootInv
  <1>1. Goal => Rollout!RolloutNext \/ UNCHANGED Rollout!rvars
    BY DEF Recorded, Open, File, Rollout!RolloutNext, Rollout!Apply, Rollout!Open,
           Rollout!Close, Rollout!rvars
  <1>s. UNCHANGED <<migVars, boot>> => Goal BY DEF migVars, Open, Running
  <1> HIDE DEF Goal
  <1>2. ASSUME NEW p \in Replica, Exit(p) PROVE Goal
    BY <1>0, <1>2, ExitCloses DEF Goal
  <1>3. ASSUME NEW p \in Replica, NEW c, LoseConnection(p, c) PROVE Goal
    BY <1>s, <1>2, <1>3 DEF LoseConnection, bootVars
  <1>4. ASSUME BrokerStops \/ BrokerStarts PROVE Goal
    <2>1. UNCHANGED <<migVars, boot>> BY <1>4 DEF BrokerStops, BrokerStarts, bootVars
    <2> QED BY <1>s, <2>1
  <1>5. ASSUME NEW p \in Replica, Migrate(p) PROVE Goal
    <2>1. MigrationChange(p) /\ Open' = Open
      BY <1>0, <1>5, OthersKeepOpen DEF Migrate, MigrationChange
    <2> QED BY <2>1, OnlyCommitsShow DEF Goal
  <1>6. ASSUME NEW p \in Replica, Start(p) \/ DatabaseFails(p) PROVE Goal
    <2>1. Same
      BY <1>6 DEF Start, DatabaseFails, StartMigrations, MigrationFails, Abort
    <2> QED BY <1>0, <1>6, <2>1, OthersKeepOpen DEF Goal
  <1>7. ASSUME NEW p \in Replica, StartWorkers(p) PROVE Goal
    BY <1>7, WorkersFindSchema DEF Goal
  <1>8. ASSUME NEW p \in Replica,
               \/ ConsumerConnected(p) \/ Subscribe(p) \/ PublishResumes(p) \/ ready(p)
               \/ ProbeResumes(p)
        PROVE  Goal
    <2>1. Same
      BY <1>8 DEF ConsumerConnected, Subscribe, PublishResumes, ready, ProbeResumes, migVars
    <2> QED BY <1>0, <1>8, <2>1, OthersKeepOpen DEF Goal
  <1>9. ASSUME NEW p \in Replica, BootFails(p) \/ Stop(p) PROVE Goal
    BY <1>2, <1>9 DEF BootFails, Stop
  <1>10. ASSUME NEW p \in Replica, publish(p) \/ NetworkAnswers(p) PROVE Goal
    BY <1>s, <1>3, <1>10 DEF publish, NetworkAnswers, Connecting, OutageNoticed, bootVars
  <1>11. ASSUME NEW p \in Replica,
                \/ Start(p) \/ bootstrap(p) \/ DatabaseFails(p) \/ Stop(p)
                \/ publish(p) \/ PublishResumes(p) \/ ready(p) \/ ProbeResumes(p)
                \/ NetworkAnswers(p)
         PROVE  Goal
    BY <1>5, <1>6, <1>7, <1>8, <1>9, <1>10, <1>11 DEF bootstrap
  <1> QED BY <1>1, <1>4, <1>11 DEF Next

\* Whatever replicas start, race, fail or are killed, the schema has one history:
\* run.ts applies each file once, in order, with its row, and bootstrap() opens a
\* process for work on the complete schema only.
THEOREM RolloutImplemented == Spec => OneSchemaHistory
  <1>1. Init => Rollout!RolloutInit
    BY DEF Init, MigInit, File, Running, Rollout!RolloutInit
  <1>2. BootInv /\ [Next]_vars => [Rollout!RolloutNext]_(Rollout!rvars)
    <2>1. UNCHANGED vars => UNCHANGED Rollout!rvars
      BY DEF vars, migVars, bootVars, Running, Rollout!rvars
    <2> QED BY <2>1, RolloutStep
  <1> QED BY <1>1, <1>2, BootInvariant, PTL DEF Spec, OneSchemaHistory, Rollout!RolloutSpec
=============================================================================
