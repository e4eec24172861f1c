---------------------------- MODULE ServiceBoot ----------------------------
(***************************************************************************)
(* bootstrap() of a service in several replicas over one database and one  *)
(* broker: the migrations, the start of the timers, the consumer's         *)
(* connection and subscription, then the HTTP port.  Whatever throws ends  *)
(* the process with exit(1), and nothing restarts it but an operator.      *)
(*                                                                         *)
(* A process has two instances of RabbitService, because HealthModule      *)
(* provides its own: "app", used by the consumer and the outbox worker,    *)
(* and "health", connected by the first readiness probe.                   *)
(***************************************************************************)
EXTENDS MigrationRunner, RabbitConnection

CONSTANTS
    MaxStarts,   \* bound of the model: how many processes are started
    MaxOutages   \* bound of the model: how often the broker stops

ASSUME BootAssumption ==
    /\ MaxStarts \in Nat /\ MaxOutages \in Nat
    /\ Client = Replica \X {"app", "health"}

VARIABLES
    boot,        \* where bootstrap() of a process is
    pub,         \* whether the outbox worker's publish() waits in connect()
    probe,       \* whether GET /health/ready waits in connect()
    starts,
    outages

bootVars == <<boot, pub, probe, starts, outages>>
vars == <<migVars, rabbitVars, bootVars>>

App(p) == <<p, "app">>
Health(p) == <<p, "health">>
Running(p) == boot[p] \in {"connecting", "subscribing", "listening"}

Init ==
    /\ MigInit
    /\ RabbitInit
    /\ boot = [p \in Replica |-> "off"]
    /\ pub = [p \in Replica |-> "idle"]
    /\ probe = [p \in Replica |-> "idle"]
    /\ starts = 0
    /\ outages = 0

----------------------------------------------------------------------------
\* The process ends and takes everything it had in memory with it.
Exit(p) ==
    /\ boot' = [boot EXCEPT ![p] = "exited"]
    /\ pub' = [pub EXCEPT ![p] = "idle"]
    /\ probe' = [probe EXCEPT ![p] = "idle"]
    /\ ForgetMigrations(p)
    /\ ForgetClients({App(p), Health(p)})
    /\ UNCHANGED <<starts, outages>>

\* docker compose up, or an operator after an exit.
Start(p) ==
    /\ boot[p] \in {"off", "exited"}
    /\ starts < MaxStarts
    /\ starts' = starts + 1
    /\ boot' = [boot EXCEPT ![p] = "migrating"]
    /\ StartMigrations(p)
    /\ UNCHANGED <<rabbitVars, pub, probe, outages>>

Migrate(p) == MigrationStep(p) /\ UNCHANGED <<rabbitVars, bootVars>>
DatabaseFails(p) == MigrationFails(p) /\ UNCHANGED <<rabbitVars, bootVars>>

\* After the migrations: outbox.start() and consumer.start() run without an
\* await between them, so that the consumer is the first caller of connect().
StartWorkers(p) ==
    /\ boot[p] = "migrating" /\ mig[p] = "done"
    /\ boot' = [boot EXCEPT ![p] = "connecting"]
    /\ connect(App(p))
    /\ UNCHANGED <<migVars, conn, pubChannel, attempt, brokerUp, declared, bound,
                   pub, probe, starts, outages>>

\* Faulty variant: the consumer goes on as soon as there is a connection.
ConsumerOnConnection(p) ==
    /\ boot[p] = "connecting" /\ conn[App(p)] # "null"
    /\ boot' = [boot EXCEPT ![p] = "subscribing"]
    /\ UNCHANGED <<migVars, rabbitVars, pub, probe, starts, outages>>

\* await rabbit.connect() in the consumer, which waits for all of doConnect.
ConsumerConnected(p) ==
    /\ boot[p] = "connecting" /\ connecting[App(p)] = "resolved"
    /\ boot' = [boot EXCEPT ![p] = "subscribing"]
    /\ UNCHANGED <<migVars, rabbitVars, pub, probe, starts, outages>>

\* rabbit.consume on a live connection, then app.listen.
Subscribe(p) ==
    /\ boot[p] = "subscribing" /\ conn[App(p)] = "open"
    /\ boot' = [boot EXCEPT ![p] = "listening"]
    /\ UNCHANGED <<migVars, rabbitVars, pub, probe, starts, outages>>

\* Faulty variant: a connection that cannot be made is logged, not thrown.
BootFailsQuietly(p) ==
    /\ \/ boot[p] = "migrating" /\ mig[p] = "failed"
       \/ boot[p] = "subscribing" /\ conn[App(p)] = "closed"
    /\ Exit(p)

\* Whatever bootstrap() awaits throws: bootstrap_failed, exit(1).
BootFails(p) ==
    /\ \/ boot[p] = "migrating" /\ mig[p] = "failed"
       \/ boot[p] = "connecting" /\ connecting[App(p)] = "rejected"
       \/ boot[p] = "subscribing" /\ conn[App(p)] = "closed"
    /\ Exit(p)

\* SIGTERM, or any uncaught exception.
Stop(p) == boot[p] \notin {"off", "exited"} /\ Exit(p)

----------------------------------------------------------------------------
\* A connection ends.  Nobody listens for its 'error' event, which ends the
\* process; an orderly close by the broker goes unnoticed.
LoseConnection(p, c) ==
    \/ Exit(p)
    \/ /\ ConnectionCloses(c)
       /\ UNCHANGED <<migVars, bootVars>>

\* A channel whose exchange does not exist yet is closed by the broker with an
\* error.
ChannelTooEarly(p) == conn[App(p)] = "open" /\ pubChannel[App(p)] /\ ~declared

\* publish(), called by the outbox worker's timer: it waits if there is neither a
\* channel nor a connection.  If there is one the call is over at once: the
\* channel takes the message, or it is null or closed and using it throws (what
\* the worker does with the result is in OutboxRelay).
publish(p) ==
    /\ Running(p) /\ pub[p] = "idle"
    /\ \/ /\ ~pubChannel[App(p)] /\ conn[App(p)] = "null"
          /\ connect(App(p))
          /\ pub' = [pub EXCEPT ![p] = "waiting"]
          /\ UNCHANGED <<migVars, conn, pubChannel, attempt, brokerUp, declared, bound,
                         boot, probe, starts, outages>>
       \/ ChannelTooEarly(p) /\ LoseConnection(p, App(p))

PublishResumes(p) ==
    /\ pub[p] = "waiting" /\ connecting[App(p)] \in {"resolved", "rejected"}
    /\ pub' = [pub EXCEPT ![p] = "idle"]
    /\ UNCHANGED <<migVars, rabbitVars, boot, probe, starts, outages>>

\* GET /health/ready: it waits if the instance has no connection yet, and answers
\* at once if it has one, also one that has been closed since.
ready(p) ==
    /\ boot[p] = "listening" /\ conn[Health(p)] = "null"
    /\ connect(Health(p))
    /\ probe' = [probe EXCEPT ![p] = "waiting"]
    /\ UNCHANGED <<migVars, conn, pubChannel, attempt, brokerUp, declared, bound,
                   boot, pub, starts, outages>>

ProbeResumes(p) ==
    /\ probe[p] = "waiting" /\ connecting[Health(p)] \in {"resolved", "rejected"}
    /\ probe' = [probe EXCEPT ![p] = "idle"]
    /\ UNCHANGED <<migVars, rabbitVars, boot, pub, starts, outages>>

Connecting(c) == doConnect(c) /\ UNCHANGED <<migVars, bootVars>>

\* The broker stops, and with it every connection.  It may be back before a
\* client has noticed; it does not know the connections from before.
BrokerStops ==
    /\ brokerUp /\ outages < MaxOutages
    /\ brokerUp' = FALSE
    /\ outages' = outages + 1
    /\ conn' = [c \in Client |-> IF conn[c] = "open" THEN "lost" ELSE conn[c]]
    /\ UNCHANGED <<migVars, pubChannel, connecting, attempt, dials, declared, bound,
                   boot, pub, probe, starts>>

BrokerStarts ==
    /\ ~brokerUp
    /\ brokerUp' = TRUE
    /\ UNCHANGED <<migVars, clientVars, declared, bound, bootVars>>

OutageNoticed(p) ==
    \E c \in {App(p), Health(p)} : conn[c] = "lost" /\ LoseConnection(p, c)

\* What a process hears from the broker or from amqplib.
NetworkAnswers(p) == Connecting(App(p)) \/ Connecting(Health(p)) \/ OutageNoticed(p)

----------------------------------------------------------------------------
bootstrap(p) ==
    Migrate(p) \/ StartWorkers(p) \/ ConsumerConnected(p) \/ Subscribe(p) \/ BootFails(p)

Next ==
    \/ \E p \in Replica :
          \/ Start(p) \/ bootstrap(p) \/ DatabaseFails(p) \/ Stop(p)
          \/ publish(p) \/ PublishResumes(p) \/ ready(p) \/ ProbeResumes(p)
          \/ NetworkAnswers(p)
    \/ BrokerStops \/ BrokerStarts

\* The database answers, timers fire, a lost connection is noticed in the end
\* and the event loop resumes what was awaited.  Nothing is assumed of the
\* broker, of the operator or of the callers of the probe.
Fairness ==
    /\ \A p \in Replica :
          /\ WF_vars(bootstrap(p)) /\ WF_vars(NetworkAnswers(p))
          /\ WF_vars(PublishResumes(p)) /\ WF_vars(ProbeResumes(p))

Spec == Init /\ [][Next]_vars
FairSpec == Spec /\ Fairness

----------------------------------------------------------------------------
(***************************************************************************)
(* Properties.                                                             *)
(***************************************************************************)

\* The database, the broker and the processes are in states the code knows.
TypeOK ==
    /\ mig \in [Replica -> MigPhase]
    /\ todo \in [Replica -> SUBSET File]
    /\ tableExists \in BOOLEAN
    /\ recorded \subseteq File
    /\ effects \in [File -> Nat]
    /\ conn \in [Client -> {"null", "open", "lost", "closed"}]
    /\ pubChannel \in [Client -> BOOLEAN]
    /\ connecting \in [Client -> Stages]
    /\ attempt \in [Client -> 0..(DialAttempts - 1)]
    /\ dials \in [Client -> Nat]
    /\ brokerUp \in BOOLEAN /\ declared \in BOOLEAN /\ bound \in BOOLEAN
    /\ boot \in [Replica -> {"off", "migrating", "connecting", "subscribing", "listening", "exited"}]
    /\ pub \in [Replica -> {"idle", "waiting"}]
    /\ probe \in [Replica -> {"idle", "waiting"}]
    /\ starts \in 0..MaxStarts
    /\ outages \in 0..MaxOutages

\* A file took effect exactly once if _migrations lists it and not at all
\* otherwise, whatever replicas raced for it, failed or were killed on the way.
MigrationsAtomic == \A f \in File : effects[f] = IF f \in recorded THEN 1 ELSE 0

\* A file is applied only after all the files before it, also when a replica
\* works from a list that another one has overtaken.
AppliedInOrder == \A f \in recorded : \A g \in File : g < f => g \in recorded

\* No process starts its workers or serves requests on an incomplete schema.
ServesMigratedSchema == \A p \in Replica : Running(p) => recorded = File

\* The replicas, whatever of them race, fail or are killed, write one history of the
\* schema: each file takes effect once, in order and together with its row, and a
\* process starts its workers on the complete schema only.
Rollout == INSTANCE SchemaRollout WITH
    done <- recorded, open <- {p \in Replica : Running(p)}

OneSchemaHistory == Rollout!RolloutSpec

\* All callers of an instance share one doConnect, so that an instance never opens
\* a second connection and leaks the first.  (A process has two instances.)
SingleConnection == \A c \in Client : dials[c] <= 1

\* The consumer subscribes, and the service takes requests that cause events,
\* only when the queue is bound: an event published before that would be
\* confirmed by the broker and dropped.
BoundBeforeServing ==
    \A p \in Replica : boot[p] \in {"subscribing", "listening"} => bound

\* A started process ends up serving or exits: it does not hang in the migration
\* locks of another replica or on a promise that is never settled.
BootEnds ==
    \A p \in Replica :
        boot[p] \in {"migrating", "connecting", "subscribing"}
            ~> boot[p] \in {"listening", "exited"}

\* No publication and no probe waits for a connection for ever, although a
\* rejected promise and a closed connection are never replaced.
NoCallWaitsForever ==
    \A p \in Replica :
        /\ pub[p] = "waiting" ~> pub[p] = "idle"
        /\ probe[p] = "waiting" ~> probe[p] = "idle"
=============================================================================
