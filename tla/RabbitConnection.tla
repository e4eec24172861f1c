------------------------- MODULE RabbitConnection --------------------------
(***************************************************************************)
(* RabbitService: one connection and one confirm channel, made on the      *)
(* first call of connect() and shared by every caller.  The fields conn,   *)
(* pubChannel and connecting are the service's own; connecting stands for  *)
(* the promise and for how far the doConnect behind it has come.  Nothing  *)
(* resets a field: after a lost connection, conn and pubChannel refer to   *)
(* closed objects until the process ends.                                  *)
(*                                                                         *)
(* External, as RabbitService uses them: amqplib reports a lost connection *)
(* to the calls in flight, and a durable broker keeps its topology.        *)
(***************************************************************************)
EXTENDS Naturals

CONSTANTS
    Client,      \* instances of RabbitService
    DialAttempts \* 10

ASSUME RabbitAssumption == DialAttempts \in Nat \ {0}

VARIABLES
    conn,        \* "null", "open", "lost" (dead, not noticed yet) or "closed"
    pubChannel,  \* whether pubChannel is set
    connecting,  \* the promise of doConnect
    attempt,     \* attempts of amqp.connect that failed, while doConnect's loop runs
    dials,       \* calls of doConnect, each of which opens a connection of its own
    brokerUp,
    declared,    \* the exchange the service publishes to exists
    bound        \* the queue the service consumes exists and is bound

clientVars == <<conn, pubChannel, connecting, attempt, dials>>
rabbitVars == <<conn, pubChannel, connecting, attempt, dials, brokerUp, declared, bound>>

Stages == {"null", "dialing", "channel", "exchanges", "queue", "resolved", "rejected"}
Pending(c) == connecting[c] \in {"dialing", "channel", "exchanges", "queue"}

RabbitInit ==
    /\ conn = [c \in Client |-> "null"]
    /\ pubChannel = [c \in Client |-> FALSE]
    /\ connecting = [c \in Client |-> "null"]
    /\ attempt = [c \in Client |-> 0]
    /\ dials = [c \in Client |-> 0]
    /\ brokerUp = TRUE
    /\ declared = FALSE
    /\ bound = FALSE

\* Faulty variant: every caller that finds no connection dials.
ConnectAlways(c) ==
    IF conn[c] = "null"
    THEN /\ connecting' = [connecting EXCEPT ![c] = "dialing"]
         /\ dials' = [dials EXCEPT ![c] = @ + 1]
    ELSE UNCHANGED <<connecting, dials>>

\* connect(), up to its await: it starts doConnect unless there is a connection
\* or a promise of one.  A caller that finds conn set goes on at once; another
\* one awaits the promise.
connect(c) ==
    IF conn[c] = "null" /\ connecting[c] = "null"
    THEN /\ connecting' = [connecting EXCEPT ![c] = "dialing"]
         /\ dials' = [dials EXCEPT ![c] = @ + 1]
    ELSE UNCHANGED <<connecting, dials>>

\* Faulty variants: one attempt too many; doConnect tries for ever.
DialOnceMore(c) ==
    /\ connecting[c] = "dialing" /\ ~brokerUp
    /\ IF attempt[c] = DialAttempts
       THEN /\ connecting' = [connecting EXCEPT ![c] = "rejected"]
            /\ UNCHANGED attempt
       ELSE /\ attempt' = [attempt EXCEPT ![c] = @ + 1]
            /\ UNCHANGED connecting
    /\ UNCHANGED <<conn, pubChannel, dials, brokerUp, declared, bound>>
DialForever(c) ==
    /\ connecting[c] = "dialing" /\ ~brokerUp
    /\ UNCHANGED <<conn, pubChannel, connecting, attempt, dials, brokerUp, declared, bound>>

\* The loop around amqp.connect: the last attempt rejects the promise, for good.
DialFails(c) ==
    /\ connecting[c] = "dialing" /\ ~brokerUp
    /\ IF attempt[c] + 1 = DialAttempts
       THEN /\ connecting' = [connecting EXCEPT ![c] = "rejected"]
            /\ attempt' = [attempt EXCEPT ![c] = 0]
       ELSE /\ attempt' = [attempt EXCEPT ![c] = @ + 1]
            /\ UNCHANGED connecting
    /\ UNCHANGED <<conn, pubChannel, dials, brokerUp, declared, bound>>

Dial(c) ==
    /\ connecting[c] = "dialing" /\ brokerUp
    /\ conn' = [conn EXCEPT ![c] = "open"]
    /\ connecting' = [connecting EXCEPT ![c] = "channel"]
    /\ attempt' = [attempt EXCEPT ![c] = 0]
    /\ UNCHANGED <<pubChannel, dials, brokerUp, declared, bound>>

\* The rest of doConnect, one awaited answer of the broker each.  pubChannel is
\* set before the exchanges are asserted.
CreateChannel(c) ==
    /\ connecting[c] = "channel" /\ conn[c] = "open"
    /\ pubChannel' = [pubChannel EXCEPT ![c] = TRUE]
    /\ connecting' = [connecting EXCEPT ![c] = "exchanges"]
    /\ UNCHANGED <<conn, attempt, dials, brokerUp, declared, bound>>

AssertExchanges(c) ==
    /\ connecting[c] = "exchanges" /\ conn[c] = "open"
    /\ declared' = TRUE
    /\ connecting' = [connecting EXCEPT ![c] = "queue"]
    /\ UNCHANGED <<conn, pubChannel, attempt, dials, brokerUp, bound>>

BindQueue(c) ==
    /\ connecting[c] = "queue" /\ conn[c] = "open"
    /\ bound' = TRUE
    /\ connecting' = [connecting EXCEPT ![c] = "resolved"]
    /\ UNCHANGED <<conn, pubChannel, attempt, dials, brokerUp, declared>>

doConnect(c) ==
    DialFails(c) \/ Dial(c) \/ CreateChannel(c) \/ AssertExchanges(c) \/ BindQueue(c)

\* The client hears that its connection is closed, in an orderly way: conn and
\* pubChannel keep their references, and a doConnect in progress throws.
ConnectionCloses(c) ==
    /\ conn[c] \in {"open", "lost"}
    /\ conn' = [conn EXCEPT ![c] = "closed"]
    /\ connecting' = [connecting EXCEPT ![c] = IF Pending(c) THEN "rejected" ELSE @]
    /\ UNCHANGED <<pubChannel, attempt, dials, brokerUp, declared, bound>>

\* The fields of a process that ended are gone.
ForgetClients(C) ==
    /\ conn' = [c \in Client |-> IF c \in C THEN "null" ELSE conn[c]]
    /\ pubChannel' = [c \in Client |-> IF c \in C THEN FALSE ELSE pubChannel[c]]
    /\ connecting' = [c \in Client |-> IF c \in C THEN "null" ELSE connecting[c]]
    /\ attempt' = [c \in Client |-> IF c \in C THEN 0 ELSE attempt[c]]
    /\ dials' = [c \in Client |-> IF c \in C THEN 0 ELSE dials[c]]
    /\ UNCHANGED <<brokerUp, declared, bound>>
=============================================================================
