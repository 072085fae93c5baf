------------------------------ MODULE Lifespan ------------------------------
(***************************************************************************)
(* Start and stop of the API process: services are connected one after the *)
(* other, each may fail without stopping the start, tasks are started on   *)
(* those that are there, and shutdown ends the tasks before it closes what *)
(* they use.  At each start the vector index is looked for and made on an  *)
(* empty graph only, legacy data is migrated, and the length of the stored *)
(* vectors is compared with the configured one.                            *)
(*                                                                         *)
(* Source: backend/app/main.py (lifespan, run_graph_migrations,            *)
(* check_embedding_dimension_consistency) and initialize of graph_service.py. *)
(***************************************************************************)
EXTENDS Naturals, Sequences, FiniteSets

CONSTANTS
    Lengths,        \* embedding_dimensions an operator may configure, 0 is none
    OldEdges,       \* relations of the graph
    MaxBoots,       \* bound: starts of the process
    MaxBootFaults   \* bound: failures of a service

VARIABLES
    at,             \* the step of lifespan that comes next
    clients,        \* clients that are open: "graph", "redis", "kafka", "analytics"
    tasks,          \* running: "scheduler", "hibernation", "listener", "mcp"
    configured,     \* embedding_dimensions of this process
    index,          \* length of the vector index, 0 if there is none
    searchable,     \* vector_index_available
    lengths,        \* lengths of the stored vectors
    weight,         \* utility_weight of an edge: "none", "default", "learned"
    reported,       \* history: a start has logged the mismatch
    excused,        \* history: a start could not look, or the length was changed
                    \* under an index of an empty graph, where no start looks
    boots, bootFaults

process == <<at, clients, tasks, configured, searchable>>
stored  == <<index, lengths, weight>>
history == <<reported, excused>>
vars    == <<process, stored, history, boots, bootFaults>>

StartSteps == <<"graph", "migrate", "check", "redis", "kafka", "analytics", "tasks", "listener", "mcp">>
StopStepsClientsFirst == <<"mcp", "redis", "listener", "scheduler", "analytics", "kafka", "replay", "graph">>
StopSteps  == <<"mcp", "listener", "scheduler", "analytics", "kafka", "replay", "redis", "graph">>

TypeOK ==
    /\ at \in {<<"off", 0>>, <<"on", 0>>} \cup ({"start"} \X (1 .. Len(StartSteps))) \cup ({"stop"} \X (1 .. Len(StopSteps)))
    /\ clients \subseteq {"graph", "redis", "kafka", "analytics"}
    /\ tasks \subseteq {"scheduler", "hibernation", "listener", "mcp"}
    /\ configured \in Lengths /\ index \in Lengths \cup {0} /\ searchable \in BOOLEAN
    /\ lengths \subseteq Lengths /\ weight \in [OldEdges -> {"none", "default", "learned"}]
    /\ reported \in BOOLEAN /\ excused \in BOOLEAN
    /\ boots \in 0 .. MaxBoots /\ bootFaults \in 0 .. MaxBootFaults

Init ==
    /\ at = <<"off", 0>> /\ clients = {} /\ tasks = {} /\ configured \in Lengths /\ searchable = FALSE
    /\ index \in Lengths \cup {0} /\ lengths = {}
    /\ weight \in [OldEdges -> {"none", "learned"}]
    /\ reported = FALSE /\ excused = FALSE /\ boots = 0 /\ bootFaults = 0

Fault   == bootFaults < MaxBootFaults /\ bootFaults' = bootFaults + 1
NoFault == UNCHANGED bootFaults
Starting(step) == \E n \in 1 .. Len(StartSteps) : at = <<"start", n>> /\ StartSteps[n] = step
Stopping(step) == \E n \in 1 .. Len(StopSteps) : at = <<"stop", n>> /\ StopSteps[n] = step
NextStep == at' = IF at[1] = "start" THEN IF at[2] = Len(StartSteps) THEN <<"on", 0>> ELSE <<"start", at[2] + 1>>
                  ELSE IF at[2] = Len(StopSteps) THEN <<"off", 0>> ELSE <<"stop", at[2] + 1>>

Start ==
    /\ at = <<"off", 0>> /\ boots < MaxBoots /\ boots' = boots + 1
    /\ at' = <<"start", 1>> /\ configured' \in Lengths
    /\ clients' = {} /\ tasks' = {} /\ searchable' = FALSE
    /\ excused' = (excused \/ (lengths = {} /\ index \notin {0, configured'}))
    /\ UNCHANGED <<stored, reported, bootFaults>>

-----------------------------------------------------------------------------
\* initialize: an index on a graph that has none is made only if that is empty.
Indexed ==
    \/ index # 0 /\ UNCHANGED index /\ searchable' = TRUE
    \/ index = 0 /\ lengths = {} /\ index' = configured /\ searchable' = TRUE
    \/ index = 0 /\ UNCHANGED index /\ searchable' = FALSE

\* The client of a graph that could not be initialised is kept.
ConnectGraph ==
    /\ Starting("graph") /\ NextStep
    /\ \/ clients' = {"graph"} /\ Indexed /\ NoFault
       \/ /\ \E c \in {{}, {"graph"}} : clients' = c
          /\ Fault /\ UNCHANGED <<index, searchable>>
    /\ UNCHANGED <<tasks, configured, lengths, weight, history, boots>>

BackfilledAll(e) == "default"
Backfilled(e)    == IF weight[e] = "none" THEN "default" ELSE weight[e]

Migrate ==
    /\ Starting("migrate") /\ NextStep
    /\ \/ "graph" \in clients /\ weight' = [e \in OldEdges |-> Backfilled(e)] /\ NoFault
       \/ "graph" \in clients /\ UNCHANGED weight /\ Fault
       \/ "graph" \notin clients /\ UNCHANGED weight /\ NoFault
    /\ UNCHANGED <<clients, tasks, configured, searchable, index, lengths, history, boots>>

MismatchWithIndex(d) == d # index
Mismatch(d)          == d # configured

\* One of the lengths that are stored is compared, and a mismatch logged.
Check ==
    /\ Starting("check") /\ NextStep
    /\ \/ /\ "graph" \in clients /\ lengths # {} /\ NoFault
          /\ \E d \in lengths : reported' = (reported \/ Mismatch(d))
          /\ UNCHANGED excused
       \/ "graph" \in clients /\ excused' = TRUE /\ Fault /\ UNCHANGED reported
       \/ /\ "graph" \notin clients \/ lengths = {}
          /\ UNCHANGED <<reported, excused>> /\ NoFault
    /\ UNCHANGED <<clients, tasks, configured, searchable, stored, boots>>

\* Redis with its stream group, the Kafka producer, ClickHouse.
Connect(c) ==
    /\ Starting(c) /\ NextStep
    /\ \/ clients' = clients \cup {c} /\ NoFault
       \/ UNCHANGED clients /\ Fault
    /\ UNCHANGED <<tasks, configured, searchable, stored, history, boots>>

StartTasks ==
    /\ Starting("tasks") /\ NextStep
    /\ tasks' = {"scheduler"} \cup IF "graph" \in clients THEN {"hibernation"} ELSE {}
    /\ UNCHANGED <<clients, configured, searchable, stored, history, boots, bootFaults>>

StartListener ==
    /\ Starting("listener") /\ NextStep
    /\ tasks' = IF {"graph", "redis"} \subseteq clients THEN tasks \cup {"listener"} ELSE tasks
    /\ UNCHANGED <<clients, configured, searchable, stored, history, boots, bootFaults>>

StartMcp ==
    /\ Starting("mcp") /\ NextStep
    /\ \/ tasks' = tasks \cup {"mcp"} /\ NoFault
       \/ UNCHANGED tasks /\ Fault
    /\ UNCHANGED <<clients, configured, searchable, stored, history, boots>>

-----------------------------------------------------------------------------
\* While it runs: vectors are stored, feedback sets a weight, and an operator
\* makes the missing index, which this process does not look for again.
Store ==
    /\ at = <<"on", 0>> /\ "graph" \in clients /\ lengths' = lengths \cup {configured}
    /\ UNCHANGED <<process, index, weight, history, boots, bootFaults>>

Learn(e) ==
    /\ at = <<"on", 0>> /\ "graph" \in clients /\ weight' = [weight EXCEPT ![e] = "learned"]
    /\ UNCHANGED <<process, index, lengths, history, boots, bootFaults>>

OperatorIndexes ==
    /\ at = <<"on", 0>> /\ "graph" \in clients /\ index = 0 /\ index' = configured
    /\ UNCHANGED <<process, lengths, weight, history, boots, bootFaults>>

-----------------------------------------------------------------------------
Stop ==
    /\ at = <<"on", 0>> /\ at' = <<"stop", 1>>
    /\ UNCHANGED <<clients, tasks, configured, searchable, stored, history, boots, bootFaults>>

\* A task is cancelled and awaited.  Nobody ends the hibernation task.
EndTask(t) ==
    /\ Stopping(t) /\ NextStep /\ tasks' = tasks \ {t}
    /\ UNCHANGED <<clients, configured, searchable, stored, history, boots, bootFaults>>

\* An error on closing is logged; the client is not used again.
Close(c) ==
    /\ Stopping(c) /\ NextStep /\ clients' = clients \ {c}
    /\ UNCHANGED <<tasks, configured, searchable, stored, history, boots, bootFaults>>

Kill ==
    /\ at # <<"off", 0>> /\ Fault /\ at' = <<"off", 0>>
    /\ clients' = {} /\ tasks' = {}
    /\ UNCHANGED <<configured, searchable, stored, history, boots>>

Next ==
    \/ Start \/ ConnectGraph \/ Migrate \/ Check \/ StartTasks \/ StartListener \/ StartMcp
    \/ \E c \in {"redis", "kafka", "analytics"} : Connect(c)
    \/ Store \/ OperatorIndexes \/ \E e \in OldEdges : Learn(e)
    \/ Stop \/ Kill \/ \E t \in {"mcp", "listener", "scheduler"} : EndTask(t)
    \/ \E c \in {"analytics", "kafka", "replay", "redis", "graph"} : Close(c)

-----------------------------------------------------------------------------
(* The listener never runs on a client that is closed or was never there,  *)
(* whatever failed at the start and in whatever order things are stopped.  *)
(* Hibernation has the graph until the shutdown, which does not end it, has*)
(* closed that as its last step; only from then on does it run without.    *)
TasksHaveClients ==
    /\ "listener" \in tasks => {"graph", "redis"} \subseteq clients
    /\ "hibernation" \in tasks => "graph" \in clients \/ at = <<"off", 0>>

(* Semantic search is offered only if the index holds every stored vector, *)
(* or a start has logged that it may not.  It is not logged when the length*)
(* was changed while the graph was empty and had an index already.         *)
SearchIsCovered == searchable => lengths \subseteq {index} \/ reported \/ excused

(* A weight that feedback has set is not put back by the migration of a later *)
(* start, nor by one that comes after a start whose migration failed.      *)
LearnedKept == \A e \in OldEdges : weight[e] = "learned" => weight'[e] = "learned"
LearnedStays == [][LearnedKept]_vars
=============================================================================
