----------------------------- MODULE SwarmScope -----------------------------
(***************************************************************************)
(* A question asked of several agents over connections kept in Neo4j: for  *)
(* each target in turn an active connection is looked up, the target's     *)
(* graph is queried, and the answer cut to the scope of that connection and*)
(* merged.  Connections are granted, revoked and expire meanwhile.         *)
(*                                                                         *)
(* Source: backend/app/services/swarm_service.py.  No route uses it yet: the *)
(* connection routes keep theirs in Redis (SwarmConnections).              *)
(***************************************************************************)
EXTENDS Naturals, FiniteSets, Sequences

CONSTANTS
    Targets,
    Kinds,            \* node types; a target has one node of each
    Rels,             \* relation types; a target has one of each, from each node to each other
    Grants,           \* SwarmConnection identifiers
    MaxNow            \* bound on the time

VARIABLES
    grant,            \* connections: the target, its scope, until when, active
    now,
    lists,            \* targets of the question still to ask
    inHand,           \* the connection the lookup answered, none if {}
    result, errors, merged,
    allowedBy         \* history: grants valid when their target's turn began

vars == <<grant, now, lists, inHand, result, errors, merged, allowedBy>>

NodeAt(t, k) == <<t, k>>
NodesOf(t)   == {t} \X Kinds
EdgesOf(t)   == {e \in NodesOf(t) \X Rels \X NodesOf(t) : e[1] # e[3]}
Graph(ns, es) == [nodes |-> ns, edges |-> es]
Nothing      == Graph({}, {})
AnyGraph     == [nodes : SUBSET (Targets \X Kinds), edges : SUBSET UNION {EdgesOf(t) : t \in Targets}]

\* An empty scope stands for no restriction.
Unused == [on |-> FALSE, to |-> CHOOSE t \in Targets : TRUE, kinds |-> {}, rels |-> {}, until |-> 0]

TypeOK ==
    /\ grant \in [Grants -> [on : BOOLEAN, to : Targets, kinds : SUBSET Kinds, rels : SUBSET Rels, until : 0 .. MaxNow]]
    /\ now \in 0 .. MaxNow /\ errors \subseteq Targets
    /\ result \in [Targets -> AnyGraph] /\ merged \in AnyGraph
    /\ inHand \subseteq Grants /\ Cardinality(inHand) <= 1 /\ allowedBy \subseteq Grants

Init ==
    /\ grant = [g \in Grants |-> Unused] /\ now = 0
    /\ lists \in {<<t, u>> : t, u \in Targets}
    /\ inHand = {} /\ errors = {} /\ allowedBy = {}
    /\ result = [t \in Targets |-> Nothing] /\ merged = Nothing

Query == <<lists, inHand, result, errors, merged, allowedBy>>

-----------------------------------------------------------------------------
CreateConnection(g) ==
    /\ grant[g] = Unused
    /\ \E t \in Targets, ks \in {{}} \cup {{k} : k \in Kinds}, rs \in {{}} \cup {{r} : r \in Rels}, u \in 1 .. MaxNow :
          grant' = [grant EXCEPT ![g] = [on |-> TRUE, to |-> t, kinds |-> ks, rels |-> rs, until |-> u]]
    /\ UNCHANGED <<now, Query>>

RevokeConnection(g) ==
    /\ grant[g].on /\ grant' = [grant EXCEPT ![g].on = FALSE]
    /\ UNCHANGED <<now, Query>>

Tick == now < MaxNow /\ now' = now + 1 /\ UNCHANGED <<grant, Query>>

Valid(g, t) == grant[g].on /\ grant[g].to = t /\ grant[g].until > now

-----------------------------------------------------------------------------
\* Any one of the valid connections; none is an error of this target alone.
\* The lookup itself failing ends the whole question.
ValidateAccess ==
    /\ lists # <<>> /\ inHand = {}
    /\ LET t == Head(lists)  valid == {g \in Grants : Valid(g, t)}
       IN  IF valid = {}
           THEN /\ errors' = errors \cup {t} /\ lists' = Tail(lists)
                /\ UNCHANGED <<inHand, allowedBy>>
           ELSE /\ \E g \in valid : inHand' = {g}
                /\ allowedBy' = allowedBy \cup valid
                /\ UNCHANGED <<errors, lists>>
    /\ UNCHANGED <<grant, now, result, merged>>

KindAllowed(g, n)    == grant[g].kinds = {} \/ n[2] \in grant[g].kinds
RelAllowed(g, e)     == grant[g].rels = {} \/ e[2] \in grant[g].rels
EndsKeptFrom(e, ns)  == e[1] \in ns
EndsKept(e, ns)      == e[1] \in ns /\ e[3] \in ns

ApplyScope(sub, g) ==
    LET ns == {n \in sub.nodes : KindAllowed(g, n)}
    IN  Graph(ns, {e \in sub.edges : RelAllowed(g, e) /\ EndsKept(e, ns)})

Subgraphs(t) ==
    {Graph(ns, {e \in EdgesOf(t) : e[1] \in ns /\ e[3] \in ns}) : ns \in SUBSET NodesOf(t)}

\* The answer is cut to the connection as it was when it was looked up.
Answered ==
    /\ inHand # {}
    /\ LET t == Head(lists)  g == CHOOSE h \in inHand : TRUE
       IN  \E sub \in Subgraphs(t) :
              LET cut == ApplyScope(sub, g)
              IN  /\ result' = [result EXCEPT ![t] = cut]
                  /\ merged' = Graph(merged.nodes \cup cut.nodes, merged.edges \cup cut.edges)
    /\ lists' = Tail(lists) /\ inHand' = {}
    /\ UNCHANGED <<grant, now, errors, allowedBy>>

Failed ==
    /\ inHand # {} /\ inHand' = {}
    /\ errors' = errors \cup {Head(lists)} /\ lists' = Tail(lists)
    /\ UNCHANGED <<grant, now, result, merged, allowedBy>>

Next ==
    \/ \E g \in Grants : CreateConnection(g) \/ RevokeConnection(g)
    \/ Tick \/ ValidateAccess \/ Answered \/ Failed

-----------------------------------------------------------------------------
(* What is merged from a target lies within one connection to it, or the   *)
(* union of several when the question names it twice, that was valid when its *)
(* turn began, and relations join nodes the answer shows.                  *)
MergedIsScoped ==
    /\ \A n \in merged.nodes : \E g \in allowedBy : grant[g].to = n[1] /\ KindAllowed(g, n)
    /\ \A e \in merged.edges :
          /\ {e[1], e[3]} \subseteq merged.nodes
          /\ \E g \in allowedBy : grant[g].to = e[1][1] /\ RelAllowed(g, e)
                                  /\ KindAllowed(g, e[1]) /\ KindAllowed(g, e[3])
=============================================================================
