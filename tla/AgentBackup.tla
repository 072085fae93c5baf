----------------------------- MODULE AgentBackup -----------------------------
(***************************************************************************)
(* An agent's graph exported to a file while it is written to, and the file*)
(* imported: under its own identifiers (restore), which MERGE makes        *)
(* repeatable, or with new ones into another agent (copy).  Lines are      *)
(* flushed in batches; an import that fails is tried again.                *)
(*                                                                         *)
(* Source: backend/app/api/v1/agents.py (_ndjson_export_generator and      *)
(* import_agent_graph), write_graph_batch of services/graph_service.py.    *)
(* Interactions are exported and skipped by the import; they are left out. *)
(* Agent records and keys are those of AgentRegistry.                      *)
(***************************************************************************)
EXTENDS Naturals, FiniteSets

CONSTANTS
    Items,            \* nodes of the exported agent
    Ties,             \* its relations: pairs of Items
    BatchSize,        \* _IMPORT_BATCH_SIZE
    MaxAttempts,      \* bound: imports of the file
    MaxErased         \* bound: nodes erased at the target

VARIABLES
    source,           \* the exported agent's graph
    exporting, file,
    moved,            \* the source changed while it was exported
    import,           \* the import of the moment
    target,           \* the target's nodes and relations, each with the attempt
                      \* that minted its identifier (0: the file's own)
    exists,           \* the target agent has a record
    erased            \* target nodes deleted meanwhile

vars == <<source, exporting, file, moved, import, target, exists, erased>>

Attempts == 1 .. MaxAttempts
Empty    == [nodes |-> {}, edges |-> {}]
NodeIds  == Items \X (0 .. MaxAttempts)
EdgeIds  == Ties \X (0 .. MaxAttempts)
Within(es, ns) == {e \in es : e[1] \in ns /\ e[2] \in ns}
Idle == [pc |-> "idle", attempt |-> 0, copy |-> FALSE, nodes |-> {}, edges |-> {},
         nodeBatch |-> {}, edgeBatch |-> {}, restored |-> 0, joined |-> 0, skipped |-> 0]

TypeOK ==
    /\ source \in [nodes : SUBSET Items, edges : SUBSET Ties] /\ file \in [nodes : SUBSET Items, edges : SUBSET Ties]
    /\ exporting \in {"no", "nodes", "edges", "done"} /\ moved \in BOOLEAN /\ exists \in BOOLEAN
    /\ target \in [nodes : SUBSET NodeIds, edges : SUBSET EdgeIds] /\ erased \subseteq NodeIds
    /\ import.pc \in {"idle", "lines", "last", "ok", "failed", "conflict"}
    /\ Cardinality(import.nodeBatch) <= BatchSize /\ Cardinality(import.edgeBatch) <= BatchSize

Init ==
    /\ source \in {g \in [nodes : {Items, Items \ {CHOOSE n \in Items : TRUE}}, edges : SUBSET Ties] :
                      g.edges = Within(g.edges, g.nodes)}
    /\ exporting = "no" /\ file = Empty /\ moved = FALSE
    /\ import = Idle /\ target = Empty /\ exists \in BOOLEAN /\ erased = {}

-----------------------------------------------------------------------------
\* The graph is written to during the export: each kind of line is a read of
\* its own.
Busy == exporting \in {"nodes", "edges"}

Change ==
    /\ Busy /\ moved' = TRUE
    /\ \/ \E n \in Items \ source.nodes : source' = [source EXCEPT !.nodes = @ \cup {n}]
       \/ \E n \in source.nodes :
             source' = [nodes |-> source.nodes \ {n}, edges |-> Within(source.edges, source.nodes \ {n})]
       \/ \E e \in Within(Ties, source.nodes) \ source.edges : source' = [source EXCEPT !.edges = @ \cup {e}]
    /\ UNCHANGED <<exporting, file, import, target, exists, erased>>

BeginExport ==
    /\ exporting = "no" /\ exporting' = "nodes"
    /\ UNCHANGED <<source, file, moved, import, target, exists, erased>>

ExportNodes ==
    /\ exporting = "nodes" /\ exporting' = "edges"
    /\ file' = [file EXCEPT !.nodes = source.nodes]
    /\ UNCHANGED <<source, moved, import, target, exists, erased>>

ExportEdges ==
    /\ exporting = "edges" /\ exporting' = "done"
    /\ file' = [file EXCEPT !.edges = source.edges]
    /\ UNCHANGED <<source, moved, import, target, exists, erased>>

-----------------------------------------------------------------------------
Tag == IF import.copy THEN import.attempt ELSE 0
Nid(n) == <<n, Tag>>

\* The metadata line.  A copy needs the agent, a restore without merge needs
\* it away, and writes its record before any line of the graph.
BeginImport(copy, merge) ==
    /\ exporting = "done" /\ import.pc \in {"idle", "failed", "conflict", "ok"} /\ import.attempt < MaxAttempts
    /\ LET refused == IF copy THEN ~exists ELSE exists /\ ~merge
       IN  import' = [Idle EXCEPT !.pc = IF refused THEN "conflict" ELSE "lines", !.attempt = import.attempt + 1,
                                  !.copy = copy, !.nodes = file.nodes, !.edges = file.edges]
    /\ exists' = (exists \/ ~copy)
    /\ UNCHANGED <<source, exporting, file, moved, target, erased>>

\* write_graph_batch, for nodes and for relations: MERGE by identifier, and a
\* relation only between nodes that are there.
NodesWritten(ns) == [target EXCEPT !.nodes = @ \cup {Nid(n) : n \in ns}]
Joinable(es)     == {e \in es : Nid(e[1]) \in target.nodes /\ Nid(e[2]) \in target.nodes}
EdgesWritten(es) == [target EXCEPT !.edges = @ \cup {<<e, Tag>> : e \in Joinable(es)}]

FlushNodes(next) ==
    /\ target' = NodesWritten(import.nodeBatch)
    /\ import' = [next EXCEPT !.nodeBatch = {}, !.restored = @ + Cardinality(import.nodeBatch)]

FlushEdges(next) ==
    /\ target' = EdgesWritten(import.edgeBatch)
    /\ import' = [next EXCEPT !.edgeBatch = {}, !.joined = @ + Cardinality(Joinable(import.edgeBatch))]

\* A batch that is full is written before the next line is taken.
HasRoomLate(batch) == Cardinality(batch) <= BatchSize
HasRoom(batch)     == Cardinality(batch) < BatchSize

NodeLine ==
    /\ import.pc = "lines" /\ HasRoom(import.nodeBatch)
    /\ \E n \in import.nodes :
          import' = [import EXCEPT !.nodes = @ \ {n}, !.nodeBatch = @ \cup {n}]
    /\ UNCHANGED <<source, exporting, file, moved, target, exists, erased>>

FlushesNodesOnlyFull == Cardinality(import.nodeBatch) = BatchSize
\* A full batch, and before the first relation the rest.
FlushesNodes ==
    \/ Cardinality(import.nodeBatch) = BatchSize
    \/ import.nodes = {} /\ import.edges # {} /\ import.nodeBatch # {}

NodeFlush ==
    /\ import.pc = "lines" /\ FlushesNodes /\ FlushNodes(import)
    /\ UNCHANGED <<source, exporting, file, moved, exists, erased>>

\* A copy skips a relation whose ends were not among the lines.
EdgeLine ==
    /\ import.pc = "lines" /\ import.nodes = {} /\ ~FlushesNodes /\ HasRoom(import.edgeBatch)
    /\ \E e \in import.edges :
          import' = IF import.copy /\ ~({e[1], e[2]} \subseteq file.nodes)
                    THEN [import EXCEPT !.edges = @ \ {e}, !.skipped = @ + 1]
                    ELSE [import EXCEPT !.edges = @ \ {e}, !.edgeBatch = @ \cup {e}]
    /\ UNCHANGED <<source, exporting, file, moved, target, exists, erased>>

EdgeFlush ==
    /\ import.pc = "lines" /\ Cardinality(import.edgeBatch) = BatchSize /\ FlushEdges(import)
    /\ UNCHANGED <<source, exporting, file, moved, exists, erased>>

\* The end of the file: what is left, nodes first.
LastNodes ==
    /\ import.pc = "lines" /\ import.nodes = {} /\ import.edges = {}
    /\ FlushNodes([import EXCEPT !.pc = "last"])
    /\ UNCHANGED <<source, exporting, file, moved, exists, erased>>

LastEdges ==
    /\ import.pc = "last" /\ FlushEdges([import EXCEPT !.pc = "ok"])
    /\ UNCHANGED <<source, exporting, file, moved, exists, erased>>

\* A write that fails, before or after its first statement, fails the request.
ImportFails ==
    /\ import.pc \in {"lines", "last"}
    /\ import' = [import EXCEPT !.pc = "failed"]
    /\ target' \in {target, NodesWritten(import.nodeBatch), EdgesWritten(import.edgeBatch)}
    /\ UNCHANGED <<source, exporting, file, moved, exists, erased>>

\* A node of the target is deleted, its relations with it.
Erase(i) ==
    /\ i \in target.nodes /\ Cardinality(erased) < MaxErased
    /\ erased' = erased \cup {i}
    /\ target' = [nodes |-> target.nodes \ {i},
                  edges |-> {e \in target.edges : e[2] # i[2] \/ i[1] \notin {e[1][1], e[1][2]}}]
    /\ UNCHANGED <<source, exporting, file, moved, import, exists>>

Next ==
    \/ Change \/ BeginExport \/ ExportNodes \/ ExportEdges
    \/ \E copy, merge \in BOOLEAN : BeginImport(copy, merge)
    \/ NodeLine \/ NodeFlush \/ EdgeLine \/ EdgeFlush \/ LastNodes \/ LastEdges \/ ImportFails
    \/ \E i \in NodeIds : Erase(i)

-----------------------------------------------------------------------------
(* An import that answers success has restored every node of the file and  *)
(* every relation between them, whatever the sizes of the batches and however *)
(* many attempts failed before, except what was deleted at the target; an  *)
(* export nobody wrote during is the whole graph.                          *)
ImportIsComplete ==
    import.pc = "ok" =>
        /\ {Nid(n) : n \in file.nodes} \subseteq target.nodes \cup erased
        /\ \A e \in Within(file.edges, file.nodes) :
              <<e, Tag>> \in target.edges \/ {Nid(e[1]), Nid(e[2])} \cap erased # {}
        /\ moved \/ file = source

(* The numbers of the answer account for every line of the file: restored, *)
(* skipped, or a relation with an end that is neither in the file nor at the *)
(* target.                                                                 *)
CountsAccount ==
    import.pc = "ok" /\ erased = {} =>
        /\ import.restored = Cardinality(file.nodes)
        /\ import.joined + import.skipped + Cardinality(file.edges \ Within(file.edges, file.nodes))
              >= Cardinality(file.edges)
        /\ import.copy => import.joined + import.skipped = Cardinality(file.edges)
=============================================================================
