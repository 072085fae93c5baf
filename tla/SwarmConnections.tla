-------------------------- MODULE SwarmConnections --------------------------
(***************************************************************************)
(* A swarm connection is kept in Redis as one record, one global index     *)
(* entry and one index entry for each of its two agents: four commands to  *)
(* create it, four to revoke it, and one command per connection to list    *)
(* them.  Nothing joins the commands of a request.                         *)
(*                                                                         *)
(* Source: backend/app/api/v1/swarm.py, the connection helpers and routes. *)
(* The check that the caller takes part in the connection changes nothing  *)
(* and some caller (an admin) always passes it; it is left out.            *)
(***************************************************************************)
EXTENDS Naturals

CONSTANTS
    Conns,            \* connection ids
    Partners,         \* the agents that connect
    Calls,            \* requests in flight at once
    MaxCalls,         \* bound: requests in one behaviour
    MaxCallFaults     \* bound: failed Redis commands

VARIABLES
    ends,             \* source and target of each connection
    stored,           \* connection records
    allConns,         \* CONNECTION_INDEX_KEY
    connsOf,          \* AGENT_CONNECTIONS_KEY of each agent
    call,             \* the requests
    created, revoked, \* history: connections whose creation, revocation was answered with success
    revoking,         \* history: connections somebody has begun to revoke
    begun, callFaults

vars == <<ends, stored, allConns, connsOf, call, created, revoked, revoking, begun, callFaults>>

Sets   == SUBSET Conns
NoCall == [op |-> "none", at |-> "idle", conns |-> {}, shown |-> {}, owed |-> {}, barred |-> {}]
Points == {"idle", "record", "index", "source", "target", "reload", "load"}

Ends(c)    == {ends[c].source, ends[c].target}
Mine(a)    == {c \in Conns : a \in Ends(c)}
InFlight(c) == \E r \in Calls : call[r].op = "create" /\ c \in call[r].conns

TypeOK ==
    /\ ends \in [Conns -> [source : Partners, target : Partners]]
    /\ stored \subseteq Conns /\ allConns \subseteq Conns
    /\ connsOf \in [Partners -> Sets]
    /\ call \in [Calls -> [op : {"none", "create", "revoke", "list"}, at : Points, conns : Sets,
                           shown : Sets, owed : Sets, barred : Sets]]
    /\ created \subseteq Conns /\ revoked \subseteq Conns /\ revoking \subseteq Conns
    /\ begun \in 0 .. MaxCalls /\ callFaults \in 0 .. MaxCallFaults

\* An agent cannot connect to itself.
Init ==
    /\ ends \in [Conns -> {e \in [source : Partners, target : Partners] : e.source # e.target}]
    /\ stored = {} /\ allConns = {} /\ connsOf = [a \in Partners |-> {}]
    /\ call = [r \in Calls |-> NoCall]
    /\ created = {} /\ revoked = {} /\ revoking = {}
    /\ begun = 0 /\ callFaults = 0

-----------------------------------------------------------------------------
Begin(r, c) ==
    /\ call[r] = NoCall /\ begun < MaxCalls
    /\ begun' = begun + 1
    /\ call' = [call EXCEPT ![r] = c]
    /\ UNCHANGED <<ends, stored, allConns, connsOf, created, revoked, callFaults>>

\* create_connection: the id is fresh.
BeginCreate(r, c) ==
    /\ c \notin stored \cup allConns \cup created \cup revoking /\ ~InFlight(c)
    /\ Begin(r, [NoCall EXCEPT !.op = "create", !.at = "record", !.conns = {c}])
    /\ UNCHANGED revoking

\* revoke_connection: a first load for the ownership check; not found ends it.
BeginRevoke(r, c) ==
    /\ c \in stored
    /\ Begin(r, [NoCall EXCEPT !.op = "revoke", !.at = "reload", !.conns = {c}])
    /\ revoking' = revoking \cup {c}

\* list_connections: the ids first, then record by record.  What the listing
\* owes its caller is settled when it begins.
BeginList(r, a) ==
    /\ Begin(r, [NoCall EXCEPT !.op = "list", !.at = "load", !.conns = connsOf[a],
                               !.owed = (created \cap Mine(a)) \ revoking, !.barred = revoked])
    /\ UNCHANGED revoking

-----------------------------------------------------------------------------
Goto(r, at) == call' = [call EXCEPT ![r] = IF at = "idle" THEN NoCall ELSE [@ EXCEPT !.at = at]]
History     == UNCHANGED <<ends, revoking, begun, callFaults>>
IndexedAs(ids, r) == IF call[r].op = "create" THEN ids \cup call[r].conns ELSE ids \ call[r].conns

\* _delete_connection loads the record a second time.
Reload(r) ==
    /\ call[r].at = "reload"
    /\ Goto(r, IF call[r].conns \subseteq stored THEN "record" ELSE "idle")
    /\ UNCHANGED <<stored, allConns, connsOf, created, revoked>> /\ History

\* SET or DEL of the record.
Record(r) ==
    /\ call[r].at = "record" /\ Goto(r, "index")
    /\ stored' = IndexedAs(stored, r)
    /\ UNCHANGED <<allConns, connsOf, created, revoked>> /\ History

\* SADD or SREM of the three index entries, the source's before the target's.
Index(r) ==
    /\ call[r].at = "index" /\ Goto(r, "source")
    /\ allConns' = IndexedAs(allConns, r)
    /\ UNCHANGED <<stored, connsOf, created, revoked>> /\ History

SourceIndex(r) ==
    /\ call[r].at = "source" /\ Goto(r, "target")
    /\ \E c \in call[r].conns : connsOf' = [connsOf EXCEPT ![ends[c].source] = IndexedAs(@, r)]
    /\ UNCHANGED <<stored, allConns, created, revoked>> /\ History

TargetOfSwapped(c) == ends[c].source
TargetOf(c)        == ends[c].target

TargetIndex(r) ==
    /\ call[r].at = "target" /\ Goto(r, "idle")
    /\ \E c \in call[r].conns : connsOf' = [connsOf EXCEPT ![TargetOf(c)] = IndexedAs(@, r)]
    /\ created' = IF call[r].op = "create" THEN created \cup call[r].conns ELSE created
    /\ revoked' = IF call[r].op = "revoke" THEN revoked \cup call[r].conns ELSE revoked
    /\ UNCHANGED <<stored, allConns>> /\ History

ShownUnchecked(c) == {c}
Shown(c)          == {c} \cap stored

\* An id without a record is not shown.
LoadOne(r) ==
    /\ call[r].at = "load"
    /\ \E c \in call[r].conns :
          call' = [call EXCEPT ![r].conns = @ \ {c}, ![r].shown = @ \cup Shown(c)]
    /\ UNCHANGED <<stored, allConns, connsOf, created, revoked>> /\ History

EndList(r) ==
    /\ call[r].at = "load" /\ call[r].conns = {} /\ Goto(r, "idle")
    /\ UNCHANGED <<stored, allConns, connsOf, created, revoked>> /\ History

\* A failed command: the request answers 500 and undoes nothing.
CallError(r) ==
    /\ call[r] # NoCall /\ callFaults < MaxCallFaults /\ Goto(r, "idle")
    /\ callFaults' = callFaults + 1
    /\ UNCHANGED <<ends, stored, allConns, connsOf, created, revoked, revoking, begun>>

Next ==
    \/ \E r \in Calls, c \in Conns : BeginCreate(r, c) \/ BeginRevoke(r, c)
    \/ \E r \in Calls, a \in Partners : BeginList(r, a)
    \/ \E r \in Calls :
          \/ Reload(r) \/ Record(r) \/ Index(r) \/ SourceIndex(r) \/ TargetIndex(r)
          \/ LoadOne(r) \/ EndList(r) \/ CallError(r)

-----------------------------------------------------------------------------
Listed(r) == call[r].at = "load" /\ call[r].conns = {}

(* A listing that begins after a revocation was answered never shows the   *)
(* connection, although the creation may still be adding index entries for *)
(* it (its id can be read from the source's listing before the target's    *)
(* entry is made) and although nobody removes those entries any more.      *)
RevokedNotListed == \A r \in Calls : Listed(r) => call[r].shown \cap call[r].barred = {}

(* A listing that begins after a creation was answered shows the connection*)
(* to both of its agents, unless somebody begins to revoke it.             *)
CreatedIsListed == \A r \in Calls : Listed(r) => (call[r].owed \ revoking) \subseteq call[r].shown
=============================================================================
