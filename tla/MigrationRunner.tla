-------------------------- MODULE MigrationRunner --------------------------
(***************************************************************************)
(* The forward-only SQL migration runner every service runs before it      *)
(* starts (three copies of run.ts).  Nothing coordinates the replicas of a *)
(* service: they share the database and may all find the same file         *)
(* missing.  A file's statements and its row in _migrations are one        *)
(* transaction; the primary key and PostgreSQL's wait for uncommitted rows *)
(* decide between two replicas.                                            *)
(***************************************************************************)
EXTENDS Naturals

CONSTANTS
    Replica,     \* replicas of one service, over one database
    NFiles       \* .sql files, in the order of their names

ASSUME MigrationAssumption == NFiles \in Nat

File == 1..NFiles

VARIABLES
    mig,         \* where a replica's runMigrations is
    todo,        \* files it found missing and has not dealt with
    tableExists, \* the _migrations table has been created
    recorded,    \* rows of _migrations
    effects      \* how often a file's statements took effect

migVars == <<mig, todo, tableExists, recorded, effects>>

MigPhase == {"off", "create", "creating", "select", "apply", "commit", "done", "failed"}
Migrating(p) == mig[p] \in {"create", "creating", "select", "apply", "commit"}

MigInit ==
    /\ mig = [p \in Replica |-> "off"]
    /\ todo = [p \in Replica |-> {}]
    /\ tableExists = FALSE
    /\ recorded = {}
    /\ effects = [f \in File |-> 0]

\* files.sort(): the first of the remaining files.
IsCurrent(p, f) == f \in todo[p] /\ \A g \in todo[p] : f <= g

\* The next iteration of the loop, or the end of it.
Continue(p, rest) ==
    /\ todo' = [todo EXCEPT ![p] = rest]
    /\ mig' = [mig EXCEPT ![p] = IF rest = {} THEN "done" ELSE "apply"]

\* Faulty variant: the transaction is committed.
AbortCommits(p) ==
    /\ mig' = [mig EXCEPT ![p] = "failed"]
    /\ todo' = [todo EXCEPT ![p] = {}]
    /\ effects' = [f \in File |-> IF mig[p] = "commit" /\ IsCurrent(p, f)
                                  THEN effects[f] + 1 ELSE effects[f]]
    /\ UNCHANGED <<tableExists, recorded>>

\* ROLLBACK, and the error is thrown: the statements of this file leave nothing.
Abort(p) ==
    /\ mig' = [mig EXCEPT ![p] = "failed"]
    /\ todo' = [todo EXCEPT ![p] = {}]
    /\ UNCHANGED <<tableExists, recorded, effects>>

StartMigrations(p) ==
    /\ mig[p] = "off"
    /\ mig' = [mig EXCEPT ![p] = "create"]
    /\ UNCHANGED <<todo, tableExists, recorded, effects>>

\* CREATE TABLE IF NOT EXISTS looks first ...
CheckTable(p) ==
    /\ mig[p] = "create"
    /\ mig' = [mig EXCEPT ![p] = IF tableExists THEN "select" ELSE "creating"]
    /\ UNCHANGED <<todo, tableExists, recorded, effects>>

\* ... and fails on the catalog's unique index if another replica has created
\* the table in the meantime.
CreateTable(p) ==
    /\ mig[p] = "creating"
    /\ \/ tableExists /\ Abort(p)
       \/ /\ ~tableExists
          /\ tableExists' = TRUE
          /\ mig' = [mig EXCEPT ![p] = "select"]
          /\ UNCHANGED <<todo, recorded, effects>>

\* SELECT filename FROM _migrations: read once, before the loop.
ReadApplied(p) ==
    /\ mig[p] = "select"
    /\ Continue(p, File \ recorded)
    /\ UNCHANGED <<tableExists, recorded, effects>>

\* BEGIN and the statements of the file; they wait while another replica has
\* run the same statements and not finished its transaction.
runSqlBlock(p) ==
    /\ mig[p] = "apply"
    /\ \A q \in Replica, f \in File :
          IsCurrent(p, f) /\ IsCurrent(q, f) => mig[q] # "commit"
    /\ mig' = [mig EXCEPT ![p] = "commit"]
    /\ UNCHANGED <<todo, tableExists, recorded, effects>>

\* INSERT INTO _migrations and COMMIT; the primary key stops a replica whose
\* list was read before another one applied the file.
RecordAndCommit(p) ==
    /\ mig[p] = "commit"
    /\ \E f \in File :
        /\ IsCurrent(p, f)
        /\ \/ f \in recorded /\ Abort(p)
           \/ /\ f \notin recorded
              /\ recorded' = recorded \union {f}
              /\ effects' = [effects EXCEPT ![f] = @ + 1]
              /\ Continue(p, todo[p] \ {f})
              /\ UNCHANGED tableExists

\* A statement fails, or the connection to the database is lost.
MigrationFails(p) == Migrating(p) /\ Abort(p)

MigrationStep(p) ==
    CheckTable(p) \/ CreateTable(p) \/ ReadApplied(p) \/ runSqlBlock(p) \/ RecordAndCommit(p)

\* The process ends: PostgreSQL rolls its open transaction back.
ForgetMigrations(p) ==
    /\ mig' = [mig EXCEPT ![p] = "off"]
    /\ todo' = [todo EXCEPT ![p] = {}]
    /\ UNCHANGED <<tableExists, recorded, effects>>
=============================================================================
