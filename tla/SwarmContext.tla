---------------------------- MODULE SwarmContext ----------------------------
(***************************************************************************)
(* The context a question takes from the agent's own facts and from those  *)
(* of the agents it shares knowledge with: who is allowed, a keyword       *)
(* search, a search without keywords, with synaptic memory the classic     *)
(* retrieval when everything is forgotten, and the relations between facts.*)
(* Each is a read of its own, while bridges, facts and relations change.   *)
(*                                                                         *)
(* Source: backend/app/services/query_service.py, retrieve_swarm_context,  *)
(* retrieve_swarm_context_v2 and _fetch_relationship_lines; the bridges are*)
(* those of backend/app/api/v1/agents.py.  Supersession marks a relation   *)
(* and the facts that tell it; the keyword search leaves marked facts out, *)
(* the search without keywords does not.  An agent without its SystemAgent *)
(* node, which a create may have failed to write, is allowed nothing.      *)
(***************************************************************************)
EXTENDS FiniteSets, Naturals

CONSTANTS
    Notes,            \* facts
    PartnerNotes,     \* the facts of the agent a bridge leads to
    ClosedNotes,      \* facts above the clearance of the request
    Matching,         \* facts the keywords of the question find
    Bonds,            \* relations: pairs of facts
    ContextLimit      \* LIMIT of the searches

VARIABLES
    anchored,         \* the SystemAgent node of the agent exists
    bridge,           \* SHARES_KNOWLEDGE_WITH to the partner exists
    notes,            \* facts that exist
    faded,            \* facts whose synaptic score is below the threshold
    outdated,         \* superseded relations
    stale,            \* superseded facts
    retrieval,        \* the retrieval in progress
    readAlong,        \* history: own readable facts that existed all along, as the agent did
    bridged           \* history: a bridge existed at some time of the retrieval

vars == <<anchored, bridge, notes, faded, outdated, stale, retrieval, readAlong, bridged>>

Mine == Notes \ PartnerNotes
Open(ns) == ns \ ClosedNotes

TypeOK ==
    /\ anchored \in BOOLEAN /\ bridge \in BOOLEAN /\ bridged \in BOOLEAN
    /\ notes \subseteq Notes /\ faded \subseteq Notes /\ stale \subseteq Notes /\ readAlong \subseteq notes
    /\ outdated \subseteq Bonds
    /\ retrieval \in [pc : {"new", "agents", "keyword", "fallback", "relations", "empty", "ok", "failed"},
                    synaptic : BOOLEAN, keywords : BOOLEAN, allowed : SUBSET Notes,
                    shown : SUBSET Notes, lines : SUBSET Bonds]

Init ==
    /\ anchored \in BOOLEAN /\ bridge \in (IF anchored THEN BOOLEAN ELSE {FALSE}) /\ bridged = FALSE
    /\ notes \in SUBSET Notes /\ faded \in SUBSET notes /\ outdated = {} /\ stale = {}
    /\ readAlong = {}
    /\ retrieval = [pc |-> "new", synaptic |-> FALSE, keywords |-> FALSE, allowed |-> {},
                  shown |-> {}, lines |-> {}]

Graph == UNCHANGED <<anchored, bridge, notes, faded, outdated, stale, readAlong, bridged>>

-----------------------------------------------------------------------------
\* Words of three letters and more make the keyword query; there may be none.
Ask(s, k) ==
    /\ retrieval.pc = "new"
    /\ retrieval' = [retrieval EXCEPT !.pc = "agents", !.synaptic = s, !.keywords = k]
    /\ readAlong' = (IF anchored THEN Open(Mine \cap notes) ELSE {}) /\ bridged' = bridge
    /\ UNCHANGED <<anchored, bridge, notes, faded, outdated, stale>>

\* The agent and those its bridges lead to.
Allow ==
    /\ retrieval.pc = "agents" /\ anchored
    /\ retrieval' = [retrieval EXCEPT !.pc = IF retrieval.keywords THEN "keyword" ELSE "fallback",
                                  !.allowed = IF bridge THEN Notes ELSE Mine]
    /\ Graph

\* No row without the node: no context, and no classic retrieval either.
AllowNothing ==
    /\ retrieval.pc = "agents" /\ ~anchored
    /\ retrieval' = [retrieval EXCEPT !.pc = "empty"]
    /\ Graph

Hits(among) ==
    LET hits == Open(notes \cap retrieval.allowed \cap among) \ (IF retrieval.synaptic THEN faded ELSE {})
    IN  {h \in SUBSET hits : Cardinality(h) = IF Cardinality(hits) < ContextLimit THEN Cardinality(hits) ELSE ContextLimit}

Keyword ==
    /\ retrieval.pc = "keyword"
    /\ \E h \in Hits(Matching \ stale) :
          retrieval' = [retrieval EXCEPT !.pc = IF h = {} THEN "fallback" ELSE "relations", !.shown = h]
    /\ Graph

AfterNothingGiveUp == [retrieval EXCEPT !.pc = "empty"]
\* Nothing above the threshold: the classic retrieval, from its start.
AfterNothing ==
    IF retrieval.synaptic THEN [retrieval EXCEPT !.pc = "agents", !.synaptic = FALSE] ELSE [retrieval EXCEPT !.pc = "empty"]

Fallback ==
    /\ retrieval.pc = "fallback"
    /\ \E h \in Hits(Notes) :
          retrieval' = IF h = {} THEN AfterNothing ELSE [retrieval EXCEPT !.pc = "relations", !.shown = h]
    /\ Graph

LineAllowedFrom(b) == b[1] \in Open(retrieval.allowed)
LineAllowed(b)     == {b[1], b[2]} \subseteq Open(retrieval.allowed)

\* A failed read shows no relations.
Relate ==
    /\ retrieval.pc = "relations"
    /\ \E all \in BOOLEAN :
          retrieval' = [retrieval EXCEPT !.pc = "ok",
                         !.lines = {b \in Bonds \ outdated : all /\ {b[1], b[2]} \subseteq notes
                                       /\ {b[1], b[2]} \cap retrieval.shown # {} /\ LineAllowed(b)}]
    /\ Graph

\* A failed read of the agents or of a search fails the question.
Fails ==
    /\ retrieval.pc \in {"agents", "keyword", "fallback"}
    /\ retrieval' = [retrieval EXCEPT !.pc = "failed"] /\ Graph

-----------------------------------------------------------------------------
\* delete_agent_graph: the facts of the agent and its node, with the bridges.
Leave ==
    /\ anchored /\ anchored' = FALSE /\ bridge' = FALSE
    /\ notes' = notes \ Mine /\ readAlong' = {}
    /\ UNCHANGED <<faded, outdated, stale, retrieval, bridged>>

\* create_agent, or a setting stored on the node.
Arrive ==
    /\ ~anchored /\ anchored' = TRUE
    /\ UNCHANGED <<bridge, notes, faded, outdated, stale, retrieval, readAlong, bridged>>

Connect ==
    /\ anchored /\ bridge' = TRUE /\ bridged' = (bridged \/ retrieval.pc # "new")
    /\ UNCHANGED <<anchored, notes, faded, outdated, stale, retrieval, readAlong>>

Disconnect ==
    /\ bridge /\ bridge' = FALSE
    /\ UNCHANGED <<anchored, notes, faded, outdated, stale, retrieval, readAlong, bridged>>

Erase(n) ==
    /\ n \in notes /\ notes' = notes \ {n} /\ readAlong' = readAlong \ {n}
    /\ UNCHANGED <<anchored, bridge, faded, outdated, stale, retrieval, bridged>>

\* Scores fall with time and rise with use.
Fade(n)   == n \in notes \ faded /\ faded' = faded \cup {n} /\ UNCHANGED <<anchored, bridge, notes, outdated, stale, retrieval, readAlong, bridged>>
Revive(n) == n \in faded /\ faded' = faded \ {n} /\ UNCHANGED <<anchored, bridge, notes, outdated, stale, retrieval, readAlong, bridged>>

\* The relation, and the facts whose text has its sentence.
Outdate(b) ==
    /\ b \notin outdated /\ outdated' = outdated \cup {b}
    /\ \E told \in SUBSET (notes \cap {b[1], b[2]}) : stale' = stale \cup told
    /\ UNCHANGED <<anchored, bridge, notes, faded, retrieval, readAlong, bridged>>

Next ==
    \/ \E s, k \in BOOLEAN : Ask(s, k)
    \/ Allow \/ AllowNothing \/ Keyword \/ Fallback \/ Relate \/ Fails
    \/ Leave \/ Arrive \/ Connect \/ Disconnect
    \/ \E n \in Notes : Erase(n) \/ Fade(n) \/ Revive(n)
    \/ \E b \in Bonds : Outdate(b)

-----------------------------------------------------------------------------
(* The context is within what the request may read: facts of a partner, in *)
(* the list or as an end of a relation, only when a bridge existed during the *)
(* retrieval, and nothing above the clearance.                             *)
ContextIsScoped ==
    LET named == retrieval.shown \cup {b[1] : b \in retrieval.lines} \cup {b[2] : b \in retrieval.lines}
    IN  named \cap ClosedNotes = {} /\ (named \cap PartnerNotes # {} => bridged)

(* A retrieval ends with nothing only when the agent had no node, or no    *)
(* readable fact of it existed all along: when everything is forgotten, the*)
(* classic retrieval still finds it.                                       *)
NotEmptyHanded == retrieval.pc = "empty" => readAlong = {}
=============================================================================
