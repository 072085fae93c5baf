-------------------------- MODULE EntityResolution --------------------------
(***************************************************************************)
(* Entity resolution of one agent's ingests.  A request embeds the nodes   *)
(* that bring no usable vector, lists the agent's nodes, matches each of   *)
(* its own against that list (label, alias, fuzzy) and then against the    *)
(* vector index, and writes new nodes and the merged properties of the     *)
(* matched ones.  Requests run side by side, and nothing holds the list.   *)
(*                                                                         *)
(* Source: backend/app/services/entity_resolver.py, embedding_service.py,  *)
(* list_nodes_for_resolver, vector_search and write_graph of               *)
(* graph_service.py.  Label similarity and nearness of embeddings are      *)
(* relations on the labels.                                                *)
(***************************************************************************)
EXTENDS Naturals, Sequences, FiniteSets, FiniteSetsExt

CONSTANTS
    Ingests,        \* requests
    Names,          \* labels of the entities
    NameKey,        \* label.lower()
    Alike,          \* pairs of labels at least _FUZZY_THRESHOLD similar
    NearPairs,      \* pairs of labels with embeddings at least _SEMANTIC_THRESHOLD near
    Says,           \* labels of the nodes of a request, FACT nodes among them
    Facts,          \* labels of FACT nodes
    NoMatch,
    MaxVectorFaults \* bound: failed embedding calls and index probes

VARIABLES
    written,        \* nodes in Neo4j, <<request, place in its payload>>
    aliases,        \* their property aliases
    pc,
    caller,         \* "api" or "kafka"
    vector,         \* of a payload's nodes: "none", "fits", "wrong"
    snapshot,       \* the listed nodes with their aliases
    match,          \* the node each node of the payload stands for
    apart,          \* history: requests nothing has run beside
    vectorFaults

vars == <<written, aliases, pc, caller, vector, snapshot, match, apart, vectorFaults>>

Places   == {x \in Ingests \X (1 .. 3) : x[2] <= Len(Says[x[1]])}
Own(r)   == {x \in Places : x[1] = r}
NameOf(x) == Says[x[1]][x[2]]
IsFact(x) == NameOf(x) \in Facts
Busy     == {r \in Ingests : pc[r] \notin {"new", "done"}}

TypeOK ==
    /\ written \subseteq Places /\ aliases \in [Places -> SUBSET Names]
    /\ pc \in [Ingests -> {"new", "embed", "list", "match", "write", "done"}]
    /\ caller \in [Ingests -> {"api", "kafka"}] /\ vector \in [Places -> {"none", "fits", "wrong"}]
    /\ match \in [Places -> Places \cup {NoMatch}] /\ apart \subseteq Ingests
    /\ vectorFaults \in 0 .. MaxVectorFaults

Init ==
    /\ written = {} /\ aliases = [x \in Places |-> {}]
    /\ pc = [r \in Ingests |-> "new"] /\ caller \in [Ingests -> {"api", "kafka"}]
    /\ vector \in [Places -> {"none", "wrong"}]
    /\ snapshot = [r \in Ingests |-> <<>>] /\ match = [x \in Places |-> NoMatch]
    /\ apart = Ingests /\ vectorFaults = 0

Go(r, step) == pc' = [pc EXCEPT ![r] = step]

-----------------------------------------------------------------------------
Begin(r) ==
    /\ pc[r] = "new" /\ Go(r, "embed")
    /\ apart' = IF Busy = {} THEN apart ELSE apart \ (Busy \cup {r})
    /\ UNCHANGED <<written, aliases, caller, vector, snapshot, match, vectorFaults>>

\* A vector of the wrong length is refused for the API and made anew for Kafka.
Refuse(r) ==
    /\ pc[r] = "embed" /\ caller[r] = "api" /\ \E x \in Own(r) : vector[x] = "wrong"
    /\ Go(r, "done")
    /\ UNCHANGED <<written, aliases, caller, vector, snapshot, match, apart, vectorFaults>>

\* embed_batch: every text gets its vector, from the cache or from one call.
Embedded(r) == [x \in Places |-> IF x \in Own(r) THEN "fits" ELSE vector[x]]

Embed(r) ==
    /\ pc[r] = "embed" /\ ~(caller[r] = "api" /\ \E x \in Own(r) : vector[x] = "wrong")
    /\ \/ /\ vector' = Embedded(r)
          /\ Go(r, "list") /\ UNCHANGED vectorFaults
       \/ /\ \E x \in Own(r) : vector[x] # "fits"
          /\ vectorFaults < MaxVectorFaults /\ vectorFaults' = vectorFaults + 1
          /\ Go(r, "done") /\ UNCHANGED vector
    /\ UNCHANGED <<written, aliases, caller, snapshot, match, apart>>

\* The whole label list, superseded nodes included.
ListedCapped == IF Cardinality(written) <= 1 THEN written ELSE CHOOSE s \in kSubset(1, written) : TRUE
Listed       == written

List(r) ==
    /\ pc[r] = "list" /\ Go(r, "match")
    /\ snapshot' = [snapshot EXCEPT ![r] = [x \in Listed |-> aliases[x]]]
    /\ UNCHANGED <<written, aliases, caller, vector, match, apart, vectorFaults>>

-----------------------------------------------------------------------------
\* Matching, one node of the payload after the other.
Known(r) == DOMAIN snapshot[r]
ByName(r, x) ==
    {y \in Known(r) : \/ NameKey[NameOf(y)] = NameKey[NameOf(x)]
                      \/ \E a \in snapshot[r][y] : NameKey[a] = NameKey[NameOf(x)]}
ByLikeness(r, x) == {y \in Known(r) : <<NameOf(y), NameOf(x)>> \in Alike}
\* The index shows what is written by now, FACT nodes included.
ByMeaning(x)     == {y \in written : <<NameOf(y), NameOf(x)>> \in NearPairs}

\* The first hit of the first strategy that has one; the list has no order.
Candidates(r, x) ==
    IF ByName(r, x) # {} THEN ByName(r, x)
    ELSE IF ByLikeness(r, x) # {} THEN ByLikeness(r, x) ELSE ByMeaning(x)

AlwaysItselfNever(x) == FALSE
AlwaysItself(x)      == IsFact(x)

Pending(r) == {x \in Own(r) : match[x] = NoMatch /\ \A y \in Own(r) : y[2] < x[2] => match[y] # NoMatch}

Match(r) ==
    /\ pc[r] = "match"
    /\ \E x \in Pending(r) :
           \/ /\ AlwaysItself(x) \/ Candidates(r, x) = {}
              /\ match' = [match EXCEPT ![x] = x] /\ UNCHANGED vectorFaults
           \/ /\ ~AlwaysItself(x)
              /\ \E y \in Candidates(r, x) : match' = [match EXCEPT ![x] = y]
              /\ UNCHANGED vectorFaults
           \/ /\ ~AlwaysItself(x) /\ ByName(r, x) \cup ByLikeness(r, x) = {}     \* the probe fails
              /\ vectorFaults < MaxVectorFaults /\ vectorFaults' = vectorFaults + 1
              /\ match' = [match EXCEPT ![x] = x]
    /\ UNCHANGED <<written, aliases, pc, caller, vector, snapshot, apart>>

MatchDone(r) ==
    /\ pc[r] = "match" /\ Pending(r) = {} /\ Go(r, "write")
    /\ UNCHANGED <<written, aliases, caller, vector, snapshot, match, apart, vectorFaults>>

\* The aliases as they were listed and the label of the last node of the payload
\* that was matched; those of a node found by the index only are not written.
Renames(r, y) == {x \in Own(r) : match[x] = y /\ x # y}
LastOf(r, y)  == CHOOSE x \in Renames(r, y) : \A z \in Renames(r, y) : z[2] <= x[2]
AliasesOfNew(r, y) == {NameOf(LastOf(r, y))}
AliasesOf(r, y) ==
    snapshot[r][y] \cup IF NameKey[NameOf(LastOf(r, y))] # NameKey[NameOf(y)] THEN {NameOf(LastOf(r, y))} ELSE {}

Write(r) ==
    /\ pc[r] = "write" /\ Go(r, "done")
    /\ written' = written \cup {x \in Own(r) : match[x] = x}
    /\ aliases' = [y \in Places |-> IF y \in Known(r) /\ Renames(r, y) # {} THEN AliasesOf(r, y) ELSE aliases[y]]
    /\ UNCHANGED <<caller, vector, snapshot, match, apart, vectorFaults>>

WriteFails(r) ==
    /\ pc[r] = "write" /\ Go(r, "done")
    /\ vectorFaults < MaxVectorFaults /\ vectorFaults' = vectorFaults + 1
    /\ UNCHANGED <<written, aliases, caller, vector, snapshot, match, apart>>

Next == \E r \in Ingests :
    Begin(r) \/ Refuse(r) \/ Embed(r) \/ List(r) \/ Match(r) \/ MatchDone(r) \/ Write(r) \/ WriteFails(r)

-----------------------------------------------------------------------------
(* Two entity nodes have the same name only if requests ran side by side, or *)
(* one payload brought both: a request that runs alone sees every node there *)
(* is, and no name it finds makes a second node.                           *)
OneNodePerName ==
    \A x, y \in {z \in written : ~IsFact(z)} :
        NameKey[NameOf(x)] = NameKey[NameOf(y)] => x[1] = y[1] \/ ~({x[1], y[1]} \subseteq apart)

(* A FACT of a payload that was written is a node of its own, however close to *)
(* another fact or entity it is.                                           *)
FactsStayApart ==
    \A x \in Places : IsFact(x) /\ pc[x[1]] = "done" /\ (\E y \in Own(x[1]) : match[y] # NoMatch)
        => match[x] = x

(* A stored alias stays, unless requests that ran side by side wrote what each *)
(* had read: the aliases are written as a whole.  (Of two names of one payload *)
(* that merge into the same node only the second becomes an alias.)        *)
AliasesKept == \A x \in Places : aliases[x] \subseteq aliases'[x] \/ apart # Ingests
AliasesAreKept == [][AliasesKept]_vars
=============================================================================
