--------------------------- MODULE SchemaRollout ---------------------------
(***************************************************************************)
(* What the migration runners and the order of bootstrap() are there for:  *)
(* the database has one history, whoever writes it.  The files take effect *)
(* one after the other, each once and together with its row in             *)
(* _migrations, and a process opens for work on the complete schema only.  *)
(***************************************************************************)
EXTENDS Naturals

CONSTANTS Replica, NFiles

VARIABLES
    done,        \* files _migrations lists
    effects,     \* how often a file's statements took effect
    open         \* processes that work on the schema

rvars == <<done, effects, open>>

RolloutInit ==
    /\ done = {}
    /\ effects = [f \in 1..NFiles |-> 0]
    /\ open = {}

\* All the files before f are there and f is not.
Apply(f) ==
    /\ done = 1..(f - 1)
    /\ done' = 1..f
    /\ effects' = [effects EXCEPT ![f] = @ + 1]
    /\ UNCHANGED open

Open(p) ==
    /\ done = 1..NFiles
    /\ open' = open \union {p}
    /\ UNCHANGED <<done, effects>>

Close(p) ==
    /\ open' = open \ {p}
    /\ UNCHANGED <<done, effects>>

RolloutNext ==
    \/ \E f \in 1..NFiles : Apply(f)
    \/ \E p \in Replica : Open(p) \/ Close(p)

RolloutSpec == RolloutInit /\ [][RolloutNext]_rvars
=============================================================================
