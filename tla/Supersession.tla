---------------------------- MODULE Supersession ----------------------------
(***************************************************************************)
(* Ingest-time supersession for one agent.  POST /ingest/sync resolves the *)
(* entities of a payload against the graph, writes them with one FACT node *)
(* (the verbatim text) and the edges, and starts resolve_supersession as a *)
(* task nobody waits for: for each new edge that asserts a state it        *)
(* queries candidate edges, asks an LLM which are outdated, marks those    *)
(* and the FACT nodes that contain their text, and clears the roles that   *)
(* came from them.  Other ingest paths only resolve and write entities and *)
(* edges.                                                                  *)
(*                                                                         *)
(* Source: backend/app/services/supersession.py, entity_resolver.py and    *)
(* graph_service.py (write_graph), ingest_text_sync and _attach_fact_node  *)
(* in backend/app/api/v1/ingest.py, run_graph_migrations in main.py.       *)
(*                                                                         *)
(* The entities are nodes the graph already has, so that what a payload    *)
(* says of one of them resolves to that node.                              *)
(* The LLM is assumed careful, as its prompt asks: it never takes an event *)
(* for a state and never calls a fact outdated that does not conflict with *)
(* the new one.  It may miss any of them.                                  *)
(***************************************************************************)
EXTENDS Integers, Sequences, FiniteSets

CONSTANTS
    Payloads,       \* ingest requests
    SyncPayloads,   \* those of POST /ingest/sync
    Edges,          \* knowledge edges (MENTIONS edges are not in here)
    PayloadOf,      \* the payload an edge is part of
    Src, Tgt,       \* entities an edge joins
    Text,           \* sentence an edge was extracted from
    FactTexts,      \* sentences in a payload's text
    Conflicts,      \* <<e, f>>: the same attribute of an entity both join, two values
    Entities,
    Roles,
    NoRole,
    Describes,      \* the role a payload gives an entity, or NoRole
    RolesIn,        \* roles a sentence contains
    NoEdge,
    DefaultEnabled, \* settings.default_supersession
    MaxCandidates,  \* settings.supersession_max_candidates
    MaxFaults       \* bound: infrastructure faults in one behaviour

ASSUME PayloadAssumption ==
    /\ SyncPayloads \subseteq Payloads
    /\ PayloadOf \in [Edges -> Payloads]
    /\ Src \in [Edges -> Entities] /\ Tgt \in [Edges -> Entities]
    /\ Describes \in [Payloads -> [Entities -> Roles \cup {NoRole}]]
    /\ NoEdge \notin Edges
    /\ NoRole \notin Roles /\ \A e \in Edges : NoRole \notin RolesIn[Text[e]]
ASSUME ConflictAssumption ==
    /\ Conflicts \subseteq Edges \X Edges
    /\ \A e, f \in Edges : <<e, f>> \in Conflicts =>
           e # f /\ <<f, e>> \in Conflicts /\ {Src[e], Tgt[e]} \cap {Src[f], Tgt[f]} # {}
ASSUME SupersessionBoundAssumption ==
    DefaultEnabled \in BOOLEAN /\ MaxCandidates \in Nat \ {0} /\ MaxFaults \in Nat

VARIABLES
    \* Neo4j
    enabled,        \* SystemAgent.supersede
    stage,          \* how far a payload has come
    supersededBy,   \* superseded_by of each edge, NoEdge if it is current
    hidden,         \* payloads whose FACT node is superseded
    role,           \* column description of each entity
    props,          \* description inside the column properties
    seen,           \* <<role, props>> of its entities as a payload was resolved
    \* resolve_supersession, one pass for each edge
    pc,
    items,          \* candidates, then those the judge called outdated
    \* history
    order,          \* payloads in the order their edges were written
    newest,         \* payload that was resolved last
    missed,         \* edges whose pass was cut short or overlooked something
    overlapped,     \* a payload was begun while another was in the works
    faults

graphVars   == <<enabled, stage, supersededBy, hidden, role, props, seen>>
passVars    == <<pc, items>>
historyVars == <<order, newest, missed, overlapped>>
vars == <<graphVars, passVars, historyVars, faults>>

StageValues == {"new", "resolved", "failed", "nodes", "written", "gated", "done"}
Description == [Entities -> Roles \cup {NoRole}]
NothingSeen == [x \in Entities |-> <<NoRole, NoRole>>]
PcValues    == {"none", "query", "judge", "mark", "neutralize", "done"}
Running     == {"query", "judge", "mark", "neutralize"}

EdgesOf(p) == {e \in Edges : PayloadOf[e] = p}

\* A FACT mentions every entity of its payload.
EntitiesOf(p) ==
    {x \in Entities : Describes[p][x] # NoRole \/ \E e \in EdgesOf(p) : x \in {Src[e], Tgt[e]}}

HasFact  == {p \in SyncPayloads : stage[p] \notin {"new", "resolved", "failed"}}
HasEdges == {order[i] : i \in DOMAIN order}
Stored   == {e \in Edges : PayloadOf[e] \in HasEdges}
Current  == {e \in Stored : supersededBy[e] = NoEdge}

\* The request, or the task it started, is not finished.
Active(p) == stage[p] \notin {"new", "failed", "done"} \/ \E e \in EdgesOf(p) : pc[e] \in Running

Fault == faults < MaxFaults /\ faults' = faults + 1

TypeOK ==
    /\ enabled \in BOOLEAN
    /\ stage \in [Payloads -> StageValues]
    /\ supersededBy \in [Edges -> Stored \cup {NoEdge}]
    /\ hidden \subseteq HasFact
    /\ role \in Description /\ props \in Description
    /\ seen \in [Payloads -> [Entities -> (Roles \cup {NoRole}) \X (Roles \cup {NoRole})]]
    /\ pc \in [Edges -> PcValues]
    /\ items \in [Edges -> SUBSET Stored]
    /\ order \in Seq(Payloads)
    /\ newest \in Payloads
    /\ missed \subseteq Edges
    /\ overlapped \in BOOLEAN
    /\ faults \in 0 .. MaxFaults

Init ==
    /\ enabled \in BOOLEAN
    /\ stage = [p \in Payloads |-> "new"]
    /\ supersededBy = [e \in Edges |-> NoEdge]
    /\ hidden = {}
    /\ role = [x \in Entities |-> NoRole]
    /\ props = [x \in Entities |-> NoRole]
    /\ seen = [p \in Payloads |-> NothingSeen]
    /\ pc = [e \in Edges |-> "none"]
    /\ items = [e \in Edges |-> {}]
    /\ order = <<>>
    /\ newest \in Payloads
    /\ missed = {}
    /\ overlapped = FALSE
    /\ faults = 0

-----------------------------------------------------------------------------
(* One request: resolve, then write_graph with a statement for the nodes and *)
(* one for the edges                                                       *)

Resolve(p) ==
    /\ stage[p] = "new"
    /\ stage' = [stage EXCEPT ![p] = "resolved"]
    /\ seen' = [seen EXCEPT ![p] = [x \in Entities |->
                   IF x \in EntitiesOf(p) THEN <<role[x], props[x]>> ELSE <<NoRole, NoRole>>]]
    /\ newest' = p
    /\ overlapped' = (overlapped \/ \E q \in Payloads \ {p} : Active(q))
    /\ UNCHANGED <<enabled, supersededBy, hidden, role, props, passVars, order, missed, faults>>

\* d where it says something, and else what c says.
Coalesce(d, c) == IF d = NoRole THEN c ELSE d

\* The properties of a known node are merged with the extracted ones; its
\* description is written back as it was read, and taken from the properties
\* only if there was none.
MergedProps(p, x) == Coalesce(Describes[p][x], seen[p][x][2])
RowDescription(p, x) == Coalesce(seen[p][x][1], MergedProps(p, x))

WriteNodes(p) ==
    /\ stage[p] = "resolved"
    /\ stage' = [stage EXCEPT ![p] = "nodes"]
    /\ props' = [x \in Entities |-> IF x \in EntitiesOf(p) THEN MergedProps(p, x) ELSE props[x]]
    /\ role' = [x \in Entities |->
                   IF x \in EntitiesOf(p) THEN Coalesce(RowDescription(p, x), role[x]) ELSE role[x]]
    /\ seen' = [seen EXCEPT ![p] = NothingSeen]
    /\ UNCHANGED <<enabled, supersededBy, hidden, passVars, historyVars, faults>>

WriteEdges(p) ==
    /\ stage[p] = "nodes"
    /\ stage' = [stage EXCEPT ![p] = IF p \in SyncPayloads THEN "written" ELSE "done"]
    /\ order' = Append(order, p)
    /\ UNCHANGED <<enabled, supersededBy, hidden, role, props, seen, passVars, newest, missed,
                   overlapped, faults>>

\* How a payload ends that got no further.
Abandoned(p) == IF stage[p] = "resolved" THEN "failed" ELSE "done"

\* The request ends with an error; nodes that were written stay without edges.
WriteError(p) ==
    /\ stage[p] \in {"resolved", "nodes"}
    /\ Fault
    /\ stage' = [stage EXCEPT ![p] = Abandoned(p)]
    /\ seen' = [seen EXCEPT ![p] = NothingSeen]
    /\ UNCHANGED <<enabled, supersededBy, hidden, role, props, passVars, historyVars>>

SetSupersession ==
    /\ enabled' = ~enabled
    /\ UNCHANGED <<stage, supersededBy, hidden, role, props, seen, passVars, historyVars, faults>>

-----------------------------------------------------------------------------
(* resolve_supersession                                                    *)

\* The agent's flag is read once; on an error the default counts.
Gate(p) ==
    /\ stage[p] = "written"
    /\ \E on \in BOOLEAN :
        /\ \/ on = enabled /\ UNCHANGED faults
           \/ on = DefaultEnabled /\ Fault
        /\ stage' = [stage EXCEPT ![p] = IF on THEN "gated" ELSE "done"]
        /\ missed' = IF on THEN missed ELSE missed \cup EdgesOf(p)
    /\ UNCHANGED <<enabled, supersededBy, hidden, role, props, seen, passVars, order, newest,
                   overlapped>>

\* An edge that conflicts with nothing asserts no state that matters here.
StateTexts(p) == {Text[e] : e \in {d \in EdgesOf(p) : \E f \in Edges : <<d, f>> \in Conflicts}}

\* One classification per distinct text; then all passes start.
Classify(p) ==
    /\ stage[p] = "gated"
    /\ \E states \in SUBSET StateTexts(p) :
        /\ pc' = [e \in Edges |-> IF e \notin EdgesOf(p) THEN pc[e]
                                  ELSE IF Text[e] \in states THEN "query" ELSE "done"]
        /\ missed' = missed \cup {e \in EdgesOf(p) : Text[e] \notin states}
    /\ stage' = [stage EXCEPT ![p] = "done"]
    /\ UNCHANGED <<enabled, supersededBy, hidden, role, props, seen, items, order, newest,
                   overlapped, faults>>

MatchesBySource(e) == {f \in Current \ {e} : Src[f] = Src[e]}

\* Current edges that share an end with e, whatever their relation.
Matches(e) == {f \in Current \ {e} : {Src[f], Tgt[f]} \cap {Src[e], Tgt[e]} # {}}

\* LIMIT without an order.
Query(e) ==
    /\ pc[e] = "query"
    /\ \E C \in SUBSET Matches(e) :
        /\ C = Matches(e) \/ Cardinality(C) = MaxCandidates
        /\ Cardinality(C) <= MaxCandidates
        /\ items' = [items EXCEPT ![e] = C]
        /\ missed' = IF C = Matches(e) THEN missed ELSE missed \cup {e}
        /\ pc' = [pc EXCEPT ![e] = IF C = {} THEN "done" ELSE "judge"]
    /\ UNCHANGED <<graphVars, order, newest, overlapped, faults>>

\* Any failure of the LLM or of parsing its answer is an empty verdict.
Judge(e) ==
    /\ pc[e] = "judge"
    /\ LET outdated == {f \in items[e] : <<e, f>> \in Conflicts}
       IN  \E V \in SUBSET outdated :
            /\ items' = [items EXCEPT ![e] = V]
            /\ missed' = IF V = outdated THEN missed ELSE missed \cup {e}
            /\ pc' = [pc EXCEPT ![e] = IF V = {} THEN "done" ELSE "mark"]
    /\ UNCHANGED <<graphVars, order, newest, overlapped, faults>>

FactsWithUnwritten(V) == {p \in Payloads : FactTexts[p] \cap {Text[f] : f \in V} # {}}

\* FACT nodes whose text contains the sentence of an edge in V.
FactsWith(V) == {p \in HasFact : FactTexts[p] \cap {Text[f] : f \in V} # {}}

MarkedSwapped(e) == {e}

Marked(e) == items[e]

\* Nothing is looked at again: what is marked is what the judge was shown.
Mark(e) ==
    /\ pc[e] = "mark"
    /\ supersededBy' = [f \in Edges |-> IF f \in Marked(e) THEN e ELSE supersededBy[f]]
    /\ hidden' = hidden \cup FactsWith(Marked(e))
    /\ pc' = [pc EXCEPT ![e] = "neutralize"]
    /\ UNCHANGED <<enabled, stage, role, props, seen, items, historyVars, faults>>

\* FACT nodes with a relationship of the given type to x: write_graph creates
\* them all with the type RELATION, "MENTIONS" is a property of theirs.
LinkedFacts(type, x) ==
    IF type = "RELATION" THEN {p \in HasEdges \cap SyncPayloads : x \in EntitiesOf(p)} ELSE {}

Unsupported(x) == LinkedFacts("MENTIONS", x) \subseteq hidden

\* The passes of the edges in D end.
End(D) ==
    /\ pc' = [e \in Edges |-> IF e \in D THEN "done" ELSE pc[e]]
    /\ items' = [e \in Edges |-> IF e \in D THEN {} ELSE items[e]]

NoNeutralize(e) ==
    pc[e] = "neutralize" /\ End({e}) /\ UNCHANGED <<graphVars, historyVars, faults>>

Neutralize(e) ==
    /\ pc[e] = "neutralize"
    /\ LET Stale(x) == \E f \in items[e] : x \in {Src[f], Tgt[f]} /\ role[x] \in RolesIn[Text[f]]
       IN  role' = [x \in Entities |-> IF Stale(x) /\ Unsupported(x) THEN NoRole ELSE role[x]]
    /\ End({e})
    /\ UNCHANGED <<enabled, stage, supersededBy, hidden, props, seen, historyVars, faults>>

\* A failed statement ends the pass of one edge; the error is swallowed.
PassError(e) ==
    /\ pc[e] \in {"query", "mark", "neutralize"}
    /\ Fault
    /\ End({e})
    /\ missed' = missed \cup {e}
    /\ UNCHANGED <<graphVars, order, newest, overlapped>>

\* The work on the payloads in P ends wherever it is.
Stop(P) ==
    /\ stage' = [p \in Payloads |-> IF p \in P THEN Abandoned(p) ELSE stage[p]]
    /\ seen' = [p \in Payloads |-> IF p \in P THEN NothingSeen ELSE seen[p]]
    /\ LET D == {e \in Edges : PayloadOf[e] \in P}
       IN  End(D) /\ missed' = missed \cup {e \in D : pc[e] # "done"}

\* The event loop keeps only a weak reference to the task, and nothing else does.
TaskLost(p) ==
    /\ stage[p] \in {"written", "gated"} \/ \E e \in EdgesOf(p) : pc[e] \in Running
    /\ Fault
    /\ Stop({p})
    /\ UNCHANGED <<enabled, supersededBy, hidden, role, props, order, newest, overlapped>>

\* The backend starts again: requests and tasks are gone, and the startup
\* migration takes each missing description from the properties.
Restart ==
    /\ Fault
    /\ role' = [x \in Entities |-> Coalesce(role[x], props[x])]
    /\ Stop({p \in Payloads : stage[p] \notin {"new", "failed"}})
    /\ UNCHANGED <<enabled, supersededBy, hidden, props, order, newest, overlapped>>

-----------------------------------------------------------------------------
Request(p) ==
    \/ Resolve(p) \/ WriteNodes(p) \/ WriteEdges(p) \/ WriteError(p)
    \/ Gate(p) \/ Classify(p) \/ TaskLost(p)

Pass(e) == Query(e) \/ Judge(e) \/ Mark(e) \/ Neutralize(e) \/ PassError(e)

Next ==
    \/ SetSupersession \/ Restart
    \/ \E p \in Payloads : Request(p)
    \/ \E e \in Edges : Pass(e)

Spec == Init /\ [][Next]_vars

-----------------------------------------------------------------------------
(* Properties                                                              *)

\* e was in the graph before f, or came with it.
NotAfter(e, f) ==
    \E m, n \in DOMAIN order : m <= n /\ order[m] = PayloadOf[e] /\ order[n] = PayloadOf[f]

Consistent(p) == \A e, f \in EdgesOf(p) : <<e, f>> \notin Conflicts

\* Once the pass of a fact has run without missing anything, every conflicting
\* fact that was written before it, or with it, is superseded: a candidate query
\* that leaves out what others have marked, run after the write, is enough
\* although passes overlap and mark on what they saw earlier.
NewerWins ==
    \A f \in Edges : pc[f] = "done" /\ f \notin missed =>
        \A e \in Edges : <<e, f>> \in Conflicts /\ NotAfter(e, f) => e \notin Current

\* If no request was begun while another was in the works, the last payload
\* stands: its edges are current, and its text is hidden only if it quotes a
\* sentence that one of its own edges supersedes.
LatestStands ==
    ~overlapped =>
        \A p \in HasEdges : p = newest /\ Consistent(p) =>
            /\ EdgesOf(p) \subseteq Current
            /\ p \in hidden =>
                   \E e \in EdgesOf(p), f \in Edges \ EdgesOf(p) :
                       <<e, f>> \in Conflicts /\ Text[f] \in FactTexts[p]

\* Without overlap and faults, once the passes of the last payload are done the
\* roles that came from the facts it superseded are off the entities, whatever
\* was written back with the entities before.
StaleRolesGone ==
    ~overlapped /\ faults = 0 /\ ~Active(newest) =>
        \A e \in Edges : supersededBy[e] \in EdgesOf(newest) =>
            \A x \in {Src[e], Tgt[e]} : role[x] \notin RolesIn[Text[e]]

\* Claimed at supersession.py:71: a role is not cleared while a FACT that is not
\* superseded mentions the entity.
SupportedRolesStay ==
    [][\A x \in Entities : role[x] # NoRole /\ role'[x] = NoRole =>
          \A p \in (HasFact \cap HasEdges) \ hidden : x \notin EntitiesOf(p)]_vars

\* Claimed at supersession.py:67: a cleared role is gone, until a payload gives
\* the entity a description again.
ClearedRolesStay ==
    [][\A x \in Entities : role[x] = NoRole /\ role'[x] # NoRole =>
          \E p \in Payloads :
              stage[p] = "resolved" /\ stage'[p] = "nodes" /\ Describes[p][x] # NoRole]_vars
=============================================================================
