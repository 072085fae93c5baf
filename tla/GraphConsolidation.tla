------------------------- MODULE GraphConsolidation -------------------------
(***************************************************************************)
(* Duplicate fusion over one agent's graph.  A run is started by the       *)
(* REMSleepWorker of any API process when the agent's cadence has elapsed, *)
(* by POST .../consolidate-now, by the maintenance DAG or from the command *)
(* line, with nothing that keeps two of them apart; meanwhile the ingest   *)
(* paths write to the same graph.  When a run starts is left open.         *)
(*                                                                         *)
(* Source: backend/app/lib/consolidation.py and                            *)
(* backend/app/workers/rem_sleep_worker.py.  The passes around the fusion  *)
(* do not touch what is modelled: decay changes weights, the proposal of   *)
(* edges is off by default, and neither prune statement ever selects a     *)
(* node (created_at is stored as an ISO string, and Cypher's comparison of *)
(* a string with the integer cutoff is null).                              *)
(***************************************************************************)
EXTENDS Integers, Sequences, FiniteSets

CONSTANTS
    Nodes,      \* ids of the agent's embedded SpaiderNodes
    Similar,    \* pairs whose cosine similarity reaches _SIMILARITY_THRESHOLD
    ClusterOf,  \* a cluster of nodes for each node, similar nodes in the same
    Runners,    \* whatever can be in a consolidation run
    MaxEdges,   \* bound: edges of the initial graph
    MaxWrites,  \* bound: writes of other parties in one behaviour
    MaxStarts,  \* bound: runs in one behaviour
    MaxFaults   \* bound: infrastructure faults in one behaviour

ASSUME SimilarAssumption ==
    /\ IsFiniteSet(Nodes)
    /\ Similar \subseteq Nodes \X Nodes
    /\ \A a, b \in Nodes : <<a, b>> \in Similar => <<b, a>> \in Similar
ASSUME ClusterAssumption ==
    \A a, b \in Nodes : <<a, b>> \in Similar => ClusterOf[a] = ClusterOf[b]
ASSUME ConsolidationBoundAssumption ==
    MaxEdges \in Nat /\ MaxWrites \in Nat /\ MaxStarts \in Nat /\ MaxFaults \in Nat

VARIABLES
    \* Neo4j
    nodes,      \* the agent's nodes
    edges,      \* <<type, source, target>>
    \* each runner
    pc,
    ids,        \* the nodes in the order the query returned them
    degree,     \* number of edges each of them had then
    cursor,     \* pair of positions being compared
    merged,     \* merged_ids
    failed,     \* the fusion was cut short by an error
    \* history
    everEdges,  \* clusters every edge ever written connected
    overlapped, \* two runs were active at once
    writes, starts, faults

graphVars   == <<nodes, edges>>
runnerVars  == <<pc, ids, degree, cursor, merged, failed>>
historyVars == <<everEdges, overlapped>>
vars == <<graphVars, runnerVars, historyVars, writes, starts, faults>>

EdgeType == {"RELATION", "RELATED_TO"}
PcValues == {"idle", "snapshot", "compare", "out", "in", "delete", "rest"}
Pairs    == {p \in Nodes \X Nodes : p[1] # p[2]}

Touches(e, n) == e[2] = n \/ e[3] = n
DegreeOf(n) == Cardinality({e \in edges : Touches(e, n)})
Orders(S) == {s \in [1 .. Cardinality(S) -> S] : \A i, j \in DOMAIN s : s[i] = s[j] => i = j}

Fault == faults < MaxFaults /\ faults' = faults + 1

TypeOK ==
    /\ nodes \subseteq Nodes
    /\ edges \subseteq EdgeType \X nodes \X nodes
    /\ pc \in [Runners -> PcValues]
    /\ ids \in [Runners -> Seq(Nodes)]
    /\ degree \in [Runners -> [Nodes -> Nat]]
    /\ cursor \in [Runners -> Nat \X Nat]
    /\ merged \in [Runners -> SUBSET Nodes]
    /\ failed \in [Runners -> BOOLEAN]
    /\ overlapped \in BOOLEAN
    /\ writes \in 0 .. MaxWrites
    /\ starts \in 0 .. MaxStarts
    /\ faults \in 0 .. MaxFaults

ClusterPair(a, b) == <<ClusterOf[a], ClusterOf[b]>>

Init ==
    /\ nodes \in SUBSET Nodes
    /\ \E E \in SUBSET {p \in Pairs : p[1] \in nodes /\ p[2] \in nodes} :
        /\ Cardinality(E) <= MaxEdges
        /\ edges = {<<"RELATION", p[1], p[2]>> : p \in E}
        /\ everEdges = {ClusterPair(p[1], p[2]) : p \in E}
    /\ pc = [r \in Runners |-> "idle"]
    /\ ids = [r \in Runners |-> <<>>]
    /\ degree = [r \in Runners |-> [n \in Nodes |-> 0]]
    /\ cursor = [r \in Runners |-> <<0, 0>>]
    /\ merged = [r \in Runners |-> {}]
    /\ failed = [r \in Runners |-> FALSE]
    /\ overlapped = FALSE
    /\ writes = 0
    /\ starts = 0
    /\ faults = 0

-----------------------------------------------------------------------------
(* The rest of the system: ingestion (MERGE by id) and deletions           *)

Write == writes < MaxWrites /\ writes' = writes + 1

WriteNode(n) ==
    /\ Write
    /\ nodes' = nodes \cup {n}
    /\ UNCHANGED <<edges, runnerVars, historyVars, starts, faults>>

WriteEdge(a, b) ==
    /\ Write
    /\ a \in nodes /\ b \in nodes
    /\ edges' = edges \cup {<<"RELATION", a, b>>}
    /\ everEdges' = everEdges \cup {ClusterPair(a, b)}
    /\ UNCHANGED <<nodes, runnerVars, overlapped, starts, faults>>

WithoutLoosely(n) ==
    /\ nodes' = nodes \ {n}
    /\ UNCHANGED edges

\* DETACH DELETE
Without(n) ==
    /\ nodes' = nodes \ {n}
    /\ edges' = {e \in edges : ~Touches(e, n)}

DeleteNode(n) ==
    /\ Write
    /\ n \in nodes
    /\ Without(n)
    /\ UNCHANGED <<runnerVars, historyVars, starts, faults>>

-----------------------------------------------------------------------------
(* _fuse_agent_duplicates                                                  *)

Start(r) ==
    /\ pc[r] = "idle"
    /\ starts < MaxStarts
    /\ starts' = starts + 1
    /\ pc' = [pc EXCEPT ![r] = "snapshot"]
    /\ overlapped' = (overlapped \/ \E q \in Runners \ {r} : pc[q] # "idle")
    /\ UNCHANGED <<graphVars, ids, degree, cursor, merged, failed, everEdges, writes, faults>>

\* One query, without an order; degrees are not read again.  A node that is
\* similar to no other takes no part in what follows.
Candidates == {n \in nodes : \E m \in Nodes : <<n, m>> \in Similar}

Snapshot(r) ==
    /\ pc[r] = "snapshot"
    /\ \E s \in Orders(Candidates) : ids' = [ids EXCEPT ![r] = s]
    /\ degree' = [degree EXCEPT ![r] =
                     [n \in Nodes |-> IF n \in Candidates THEN DegreeOf(n) ELSE 0]]
    /\ pc' = [pc EXCEPT ![r] = "compare"]
    /\ UNCHANGED <<graphVars, cursor, merged, failed, historyVars,
                   writes, starts, faults>>

\* Whether the inner loop still compares position i: merged_ids is looked at
\* when i comes up, and not again when i itself is dropped.
RowOpen(r, i) == i = cursor[r][1] \/ (i > cursor[r][1] /\ ids[r][i] \notin merged[r])

Before(p, q) == p[1] < q[1] \/ (p[1] = q[1] /\ p[2] < q[2])

\* The pairs of positions the two loops have yet to merge.
MatchesNeighboursOnly(r) ==
    {p \in (DOMAIN ids[r]) \X (DOMAIN ids[r]) :
        /\ p[2] = p[1] + 1 /\ Before(cursor[r], p)
        /\ RowOpen(r, p[1]) /\ ids[r][p[2]] \notin merged[r]
        /\ <<ids[r][p[1]], ids[r][p[2]]>> \in Similar}

Matches(r) ==
    {p \in (DOMAIN ids[r]) \X (DOMAIN ids[r]) :
        /\ p[1] < p[2] /\ Before(cursor[r], p)
        /\ RowOpen(r, p[1]) /\ ids[r][p[2]] \notin merged[r]
        /\ <<ids[r][p[1]], ids[r][p[2]]>> \in Similar}

FindMatch(r) ==
    /\ pc[r] = "compare"
    /\ \E p \in Matches(r) :
        /\ \A q \in Matches(r) : q = p \/ Before(p, q)
        /\ cursor' = [cursor EXCEPT ![r] = p]
    /\ pc' = [pc EXCEPT ![r] = "out"]
    /\ UNCHANGED <<graphVars, ids, degree, merged, failed, historyVars,
                   writes, starts, faults>>

Left(r)  == ids[r][cursor[r][1]]
Right(r) == ids[r][cursor[r][2]]

\* The node with more relationships in the snapshot is kept, the first on a tie.
LeftWins(r) == degree[r][Left(r)] >= degree[r][Right(r)]

Keep(r) == IF LeftWins(r) THEN Left(r) ELSE Right(r)
Drop(r) == IF LeftWins(r) THEN Right(r) ELSE Left(r)

(* _merge_node_pair: three auto-committed statements.  MATCH (keep) finds  *)
(* nothing when the kept node is no longer there, which is no error.       *)

Targets(r) ==
    {n \in Nodes \ {Keep(r)} : Keep(r) \in nodes /\ \E k \in EdgeType : <<k, Drop(r), n>> \in edges}

RedirectOut(r) ==
    /\ pc[r] = "out"
    /\ edges' = edges \cup {<<"RELATED_TO", Keep(r), t>> : t \in Targets(r)}
    /\ pc' = [pc EXCEPT ![r] = "in"]
    /\ UNCHANGED <<nodes, ids, degree, cursor, merged, failed, historyVars,
                   writes, starts, faults>>

SourcesBackwards(r) ==
    {n \in Nodes \ {Keep(r)} : Keep(r) \in nodes /\ \E k \in EdgeType : <<k, Drop(r), n>> \in edges}

Sources(r) ==
    {n \in Nodes \ {Keep(r)} : Keep(r) \in nodes /\ \E k \in EdgeType : <<k, n, Drop(r)>> \in edges}

RedirectIn(r) ==
    /\ pc[r] = "in"
    /\ edges' = edges \cup {<<"RELATED_TO", s, Keep(r)>> : s \in Sources(r)}
    /\ pc' = [pc EXCEPT ![r] = "delete"]
    /\ UNCHANGED <<nodes, ids, degree, cursor, merged, failed, historyVars,
                   writes, starts, faults>>

DeleteDropped(r) ==
    /\ pc[r] = "delete"
    /\ Without(Drop(r))
    /\ merged' = [merged EXCEPT ![r] = @ \cup {Drop(r)}]
    /\ pc' = [pc EXCEPT ![r] = "compare"]
    /\ UNCHANGED <<ids, degree, cursor, failed, historyVars,
                   writes, starts, faults>>

EndFusion(r) ==
    /\ pc[r] = "compare"
    /\ Matches(r) = {}
    /\ pc' = [pc EXCEPT ![r] = "rest"]
    /\ UNCHANGED <<graphVars, ids, degree, cursor, merged, failed, historyVars,
                   writes, starts, faults>>

\* Any statement may raise.  The error is logged and the run carries on with
\* its other passes.  (A statement that was committed although it raised is the
\* same as an error in the statement after it.)
FusionError(r) ==
    /\ pc[r] \in {"snapshot", "out", "in", "delete"}
    /\ Fault
    /\ failed' = [failed EXCEPT ![r] = TRUE]
    /\ pc' = [pc EXCEPT ![r] = "rest"]
    /\ UNCHANGED <<graphVars, ids, degree, cursor, merged, historyVars,
                   writes, starts>>

-----------------------------------------------------------------------------
(* The end of a run                                                        *)

Forget(r) ==
    /\ pc' = [pc EXCEPT ![r] = "idle"]
    /\ ids' = [ids EXCEPT ![r] = <<>>]
    /\ degree' = [degree EXCEPT ![r] = [n \in Nodes |-> 0]]
    /\ cursor' = [cursor EXCEPT ![r] = <<0, 0>>]
    /\ merged' = [merged EXCEPT ![r] = {}]
    /\ failed' = [failed EXCEPT ![r] = FALSE]
    /\ UNCHANGED <<graphVars, historyVars, writes, starts>>

\* The passes after the fusion, whether it failed or not.
Finish(r) ==
    /\ pc[r] = "rest"
    /\ Forget(r)
    /\ UNCHANGED faults

Crash(r) ==
    /\ pc[r] # "idle"
    /\ Fault
    /\ Forget(r)

-----------------------------------------------------------------------------
RunStep(r) ==
    \/ Start(r) \/ Snapshot(r) \/ FindMatch(r)
    \/ RedirectOut(r) \/ RedirectIn(r) \/ DeleteDropped(r)
    \/ EndFusion(r) \/ FusionError(r) \/ Finish(r) \/ Crash(r)

Next ==
    \/ \E n \in Nodes : WriteNode(n) \/ DeleteNode(n)
    \/ \E p \in Pairs : WriteEdge(p[1], p[2])
    \/ \E r \in Runners : RunStep(r)

Spec == Init /\ [][Next]_vars

-----------------------------------------------------------------------------
(* Properties                                                              *)

\* Fusion never makes a relation up: whatever runs, writes and failures overlap,
\* an edge joins two clusters of similar nodes that some written edge joined, in
\* the same direction.
EdgesAreEarned ==
    \A e \in edges : ClusterPair(e[2], e[3]) \in everEdges

\* Merging a pair whose kept node is there keeps every relation of the dropped
\* one, in its direction, in spite of being three separate statements and of what
\* an earlier run that failed half-way left behind.  Other runs and writers are
\* not kept out, so the promise is for a run that meets none.
MergeKeepsRelations ==
    [][\A r \in Runners :
          DeleteDropped(r) /\ Keep(r) \in nodes /\ ~overlapped /\ writes = 0 =>
              \A e \in edges :
                  /\ e[2] = Drop(r) /\ e[3] \notin {Keep(r), Drop(r)} =>
                         <<"RELATED_TO", Keep(r), e[3]>> \in edges'
                  /\ e[3] = Drop(r) /\ e[2] \notin {Keep(r), Drop(r)} =>
                         <<"RELATED_TO", e[2], Keep(r)>> \in edges']_vars

\* A run that ended without an error leaves no two nodes that it saw and did not
\* drop and that are similar: skipping dropped nodes skips no pair that matters.
LeftoversDiffer ==
    \A r \in Runners :
        pc[r] = "rest" /\ ~failed[r] =>
            \A i, j \in DOMAIN ids[r] :
                i < j /\ {ids[r][i], ids[r][j]} \cap merged[r] = {} =>
                    <<ids[r][i], ids[r][j]>> \notin Similar

\* Claimed at consolidation.py:289 and :12: before a duplicate is deleted its
\* edges are redirected to the node that is kept.
EdgesRedirected ==
    [][\A r \in Runners, n \in Nodes :
          DeleteDropped(r) /\ n \in nodes \ {Keep(r), Drop(r)}
            /\ (\E e \in edges : Touches(e, n) /\ Touches(e, Drop(r)))
          => \E e \in edges' : Touches(e, n) /\ Touches(e, Keep(r))]_vars
=============================================================================
