--------------------------- MODULE AgentRegistry ---------------------------
(***************************************************************************)
(* Agents are spread over three stores without a transaction: a record and *)
(* an index in Redis, one key slot per API key in Redis (by the key's      *)
(* hash), and a SystemAgent node with a copy of the clearance level in     *)
(* Neo4j next to the agent's graph.  The request handlers that create,     *)
(* rotate, update, restore and delete an agent change them one command at  *)
(* a time; requests interleave at every command, and a command that fails  *)
(* may have been carried out, with only the reply lost.                    *)
(*                                                                         *)
(* Source: backend/app/api/v1/agents.py, the key slots of                  *)
(* backend/app/services/auth_service.py, and create_agent_node and         *)
(* delete_agent_graph of backend/app/services/graph_service.py.            *)
(***************************************************************************)
EXTENDS Naturals, FiniteSets

CONSTANTS
    Agents,
    MaxRequests,    \* bound: handlers in flight at once
    Levels,         \* clearance levels
    NoLevel,        \* a SystemAgent node whose level was never set
    NoAgent,
    MaxKeys,        \* bound: keys ever minted
    MaxStarts,      \* bound: requests in one behaviour
    MaxFaults       \* bound: failed commands and crashes in one behaviour

VARIABLES
    record,         \* agent records: the hash they point to (0: none) and the level
    index,          \* AGENT_INDEX_KEY
    slots,          \* key slots: hash -> agent
    core,           \* SystemAgent nodes: the level they carry
    graph,          \* agents that have SpaiderNodes
    req,            \* the handlers
    keys, starts,   \* keys minted, requests begun
    touched,        \* history: what happened to an agent besides whole, separate requests
    deleted,        \* history: agents whose deletion was answered with success
    unclaimed,      \* history: keys of requests that failed: nobody was given them
    faults

vars == <<record, index, slots, core, graph, req, keys, starts, touched, deleted, unclaimed,
          faults>>

Requests == 1 .. MaxRequests
NoRecord == [hash |-> 0, level |-> NoLevel]
Records  == [hash : 0 .. MaxKeys, level : Levels] \cup {NoRecord}
Idle     == [op |-> "none", agent |-> NoAgent, at |-> "idle", seen |-> NoRecord,
             found |-> FALSE, key |-> 0, todo |-> {}]
Ops      == {"none", "create", "rotate", "update", "import", "delete"}
Steps    == {"idle", "store", "save", "index", "core", "level", "revoke", "scan",
             "rollback", "graph", "unsave", "unindex"}
Marks    == {"overlap", "fault", "skip", "crash", "import"}

SlotsOf(a) == {k \in 1 .. MaxKeys : slots[k] = a}
KeysOf(a)  == SlotsOf(a) \ unclaimed
Exists(a)  == record[a] # NoRecord
Busy(a)    == \E r \in Requests : req[r].agent = a
Mark(a, m) == [touched EXCEPT ![a] = @ \cup {m}]

TypeOK ==
    /\ record \in [Agents -> Records]
    /\ index \subseteq Agents /\ graph \subseteq Agents /\ deleted \subseteq Agents
    /\ slots \in [1 .. MaxKeys -> Agents \cup {NoAgent}]
    /\ core \in [Agents -> Levels \cup {NoLevel, NoAgent}]
    /\ req \in [Requests -> [op : Ops, agent : Agents \cup {NoAgent}, at : Steps,
                             seen : Records, found : BOOLEAN, key : 0 .. MaxKeys,
                             todo : SUBSET (1 .. MaxKeys)]]
    /\ keys \in 0 .. MaxKeys /\ starts \in 0 .. MaxStarts /\ unclaimed \subseteq 1 .. MaxKeys
    /\ touched \in [Agents -> SUBSET Marks]
    /\ faults \in 0 .. MaxFaults

(* Some agents are new; the others date from before records kept a hash:   *)
(* they have a key, and a record that does not say which.                  *)
Init ==
    /\ \E old \in SUBSET Agents : \E l \in Levels :
          /\ Cardinality(old) <= MaxKeys
          /\ record = [a \in Agents |-> IF a \in old THEN [hash |-> 0, level |-> l] ELSE NoRecord]
          /\ index = old /\ graph = old
          /\ core = [a \in Agents |-> IF a \in old THEN l ELSE NoAgent]
          /\ \E k \in [1 .. Cardinality(old) -> old] :
                /\ \A a \in old : \E n \in DOMAIN k : k[n] = a
                /\ slots = [n \in 1 .. MaxKeys |-> IF n \in DOMAIN k THEN k[n] ELSE NoAgent]
          /\ keys = Cardinality(old)
    /\ req = [r \in Requests |-> Idle]
    /\ starts = 0 /\ faults = 0 /\ deleted = {} /\ unclaimed = {}
    /\ touched = [a \in Agents |-> {}]

-----------------------------------------------------------------------------
(* A request begins with the load of the record; what it goes on with is   *)
(* the record as loaded.                                                   *)

Begin(r, a, op, at, seen) ==
    /\ req[r] = Idle /\ starts < MaxStarts
    /\ \A q \in 1 .. r - 1 : req[q] # Idle        \* handlers are anonymous
    /\ starts' = starts + 1
    /\ req' = [req EXCEPT ![r] = [Idle EXCEPT !.op = op, !.agent = a, !.at = at, !.seen = seen,
                                              !.found = Exists(a),
                                              !.todo = IF at = "scan" THEN SlotsOf(a) ELSE {}]]
    /\ touched' = [touched EXCEPT ![a] =
                      @ \cup (IF Busy(a) THEN {"overlap"} ELSE {})
                        \cup (IF op = "import" THEN {"import"} ELSE {})]
    /\ UNCHANGED <<record, index, slots, core, graph, keys, deleted, unclaimed, faults>>

\* A fresh id: nobody else knows it before the response.
BeginCreate(r, a) ==
    /\ a \notin deleted /\ ~Exists(a) /\ SlotsOf(a) = {} /\ ~Busy(a) /\ core[a] = NoAgent
    /\ \E l \in Levels : Begin(r, a, "create", "store", [hash |-> 0, level |-> l])

\* rotate_api_key: by the known hash, else by scanning all slots.
BeginRotate(r, a) ==
    /\ Exists(a)
    /\ Begin(r, a, "rotate", IF record[a].hash # 0 THEN "revoke" ELSE "scan", record[a])

\* update_agent: the level changes only for an admin (or without authentication).
BeginUpdate(r, a) ==
    /\ Exists(a)
    /\ \E l \in Levels : Begin(r, a, "update", "save", [record[a] EXCEPT !.level = l])

\* The metadata line of an import: a conflict unless merging.
BeginImport(r, a) ==
    \E merge \in BOOLEAN, l \in Levels :
        /\ merge \/ ~Exists(a)
        /\ Exists(a) \/ a \in deleted
        /\ Begin(r, a, "import", "store", [hash |-> 0, level |-> l])

\* delete_agent goes on without a record, to clean up what is left.
BeginDelete(r, a) == Begin(r, a, "delete", "graph", record[a])

-----------------------------------------------------------------------------
Stay(r, at) == req' = [req EXCEPT ![r] = IF at = "idle" THEN Idle ELSE [@ EXCEPT !.at = at]]
End(r)      == Stay(r, "idle")
Fault(a)    == faults < MaxFaults /\ faults' = faults + 1 /\ touched' = Mark(a, "fault")
Kept        == UNCHANGED <<starts, touched, unclaimed, faults>>

\* A failed command may have had its effect.
Ensured(a)     == [core EXCEPT ![a] = IF @ = NoAgent THEN NoLevel ELSE @]
LevelSet(a, l) == [core EXCEPT ![a] = IF @ = NoAgent THEN @ ELSE l]
Freed(k)       == [slots EXCEPT ![k] = NoAgent]
NewSlot(a)     == keys < MaxKeys /\ keys' = keys + 1 /\ slots' = [slots EXCEPT ![keys + 1] = a]

MintedUnrecorded(q, k) ==
    [q EXCEPT !.at = "save", !.key = k, !.seen.hash = IF q.op = "rotate" THEN @ ELSE k]
Minted(q, k)           == [q EXCEPT !.at = "save", !.key = k, !.seen.hash = k]

AfterIndexUnsynced(op) == IF op \in {"rotate", "update"} THEN "idle" ELSE "core"
AfterIndex(op) ==
    CASE op = "rotate" -> "idle"
      [] op = "update" -> "level"
      [] OTHER         -> "core"

AfterSaveErrorKept(op) == "idle"
AfterSaveError(op)     == IF op = "rotate" THEN "rollback" ELSE "idle"

ScannedEarly(q) == TRUE
Scanned(q)      == q.todo \cap SlotsOf(q.agent) = {}

AfterScan(op) == IF op = "rotate" THEN "store" ELSE "unsave"

\* generate_and_store_api_key.
StoreKey(r) ==
    /\ req[r].at = "store" /\ NewSlot(req[r].agent)
    /\ req' = [req EXCEPT ![r] = Minted(@, keys + 1)]
    /\ UNCHANGED <<record, index, core, graph, deleted>> /\ Kept

\* Redis may have stored the slot of a key that is lost with the reply.
StoreKeyError(r) ==
    /\ req[r].at = "store" /\ Fault(req[r].agent) /\ End(r)
    /\ \/ UNCHANGED <<slots, keys, unclaimed>>
       \/ NewSlot(req[r].agent) /\ unclaimed' = unclaimed \cup {keys + 1}
    /\ UNCHANGED <<record, index, core, graph, starts, deleted>>

\* _save_agent: the record, as loaded with the changes of this request ...
SaveRecord(r) ==
    /\ req[r].at = "save"
    /\ record' = [record EXCEPT ![req[r].agent] = req[r].seen]
    /\ Stay(r, "index")
    /\ UNCHANGED <<index, slots, core, graph, keys, deleted>> /\ Kept

\* ... and then the index.
SaveIndex(r) ==
    /\ req[r].at = "index"
    /\ index' = index \cup {req[r].agent}
    /\ Stay(r, AfterIndex(req[r].op))
    /\ UNCHANGED <<record, slots, core, graph, keys, deleted>> /\ Kept

\* Only a rotation takes its new key back when the record cannot be saved; a
\* creation or import leaves the slot of a key it has not given to anybody.
SaveError(r) ==
    /\ req[r].at \in {"save", "index"} /\ Fault(req[r].agent)
    /\ \/ UNCHANGED <<record, index>>
       \/ /\ req[r].at = "save" /\ record' = [record EXCEPT ![req[r].agent] = req[r].seen]
          /\ UNCHANGED index
       \/ /\ req[r].at = "index" /\ index' = index \cup {req[r].agent}
          /\ UNCHANGED record
    /\ Stay(r, AfterSaveError(req[r].op))
    /\ unclaimed' = IF req[r].op \in {"create", "import"} THEN unclaimed \cup ({req[r].key} \ {0})
                    ELSE unclaimed
    /\ UNCHANGED <<slots, core, graph, keys, starts, deleted>>

Rollback(r) ==
    /\ req[r].at = "rollback" /\ End(r)
    /\ \/ slots' = Freed(req[r].key) /\ Kept
       \/ /\ Fault(req[r].agent) /\ slots' \in {slots, Freed(req[r].key)}
          /\ UNCHANGED <<starts, unclaimed>>
    /\ UNCHANGED <<record, index, core, graph, keys, deleted>>

\* create_agent_node: MERGE; the level is set by a statement of its own, in
\* create_agent only.
EnsureCore(r) ==
    /\ req[r].at = "core"
    /\ core' = Ensured(req[r].agent)
    /\ IF req[r].op = "create" THEN Stay(r, "level") ELSE End(r)
    /\ UNCHANGED <<record, index, slots, graph, keys, deleted>> /\ Kept

\* MATCH ... SET: nothing happens when the node is not there.
SyncLevel(r) ==
    /\ req[r].at = "level" /\ End(r)
    /\ core' = LevelSet(req[r].agent, req[r].seen.level)
    /\ UNCHANGED <<record, index, slots, graph, keys, deleted>> /\ Kept

\* Errors of both are logged, and the request succeeds.
CoreError(r) ==
    /\ req[r].at \in {"core", "level"} /\ Fault(req[r].agent) /\ End(r)
    /\ core' \in {core, IF req[r].at = "core" THEN Ensured(req[r].agent)
                                            ELSE LevelSet(req[r].agent, req[r].seen.level)}
    /\ UNCHANGED <<record, index, slots, graph, keys, starts, deleted, unclaimed>>

\* revoke_api_key_by_hash.
RevokeKnown(r) ==
    /\ req[r].at = "revoke"
    /\ slots' = Freed(req[r].seen.hash)
    /\ Stay(r, "store")
    /\ UNCHANGED <<record, index, core, graph, keys, deleted>> /\ Kept

\* revoke_all_for_agent: SCAN returns every slot that is there throughout, and
\* may or may not return one that appeared meanwhile.
RevokeOne(r) ==
    /\ req[r].at = "scan"
    /\ \E k \in SlotsOf(req[r].agent) :
          /\ slots' = Freed(k)
          /\ req' = [req EXCEPT ![r].todo = @ \ {k}]
    /\ UNCHANGED <<record, index, core, graph, keys, deleted>> /\ Kept

\* A slot that cannot be read is passed over, and the scan goes on.
SkipSlot(r) ==
    /\ req[r].at = "scan" /\ faults < MaxFaults
    /\ \E k \in req[r].todo : req' = [req EXCEPT ![r].todo = @ \ {k}]
    /\ faults' = faults + 1 /\ touched' = Mark(req[r].agent, "skip")
    /\ UNCHANGED <<record, index, slots, core, graph, keys, starts, deleted, unclaimed>>

ScanDone(r) ==
    /\ req[r].at = "scan" /\ Scanned(req[r])
    /\ Stay(r, AfterScan(req[r].op))
    /\ UNCHANGED <<record, index, slots, core, graph, keys, deleted>> /\ Kept

\* A rotation gives up; a deletion logs it and goes on.
RevokeError(r) ==
    /\ req[r].at \in {"revoke", "scan"} /\ Fault(req[r].agent)
    /\ \/ UNCHANGED slots
       \/ req[r].at = "revoke" /\ slots' = Freed(req[r].seen.hash)
       \/ req[r].at = "scan" /\ \E k \in SlotsOf(req[r].agent) : slots' = Freed(k)
    /\ IF req[r].op = "rotate" THEN End(r) ELSE Stay(r, AfterScan(req[r].op))
    /\ UNCHANGED <<record, index, core, graph, keys, starts, deleted, unclaimed>>

\* delete_agent_graph: nodes and SystemAgent in one statement.
DeleteGraph(r) ==
    /\ req[r].at = "graph"
    /\ graph' = graph \ {req[r].agent}
    /\ core' = [core EXCEPT ![req[r].agent] = NoAgent]
    /\ req' = [req EXCEPT ![r].at = "scan", ![r].todo = SlotsOf(req[r].agent)]
    /\ UNCHANGED <<record, index, slots, keys, deleted>> /\ Kept

DeleteGraphError(r) ==
    /\ req[r].at = "graph" /\ Fault(req[r].agent) /\ End(r)
    /\ \/ UNCHANGED <<core, graph>>
       \/ /\ graph' = graph \ {req[r].agent}
          /\ core' = [core EXCEPT ![req[r].agent] = NoAgent]
    /\ UNCHANGED <<record, index, slots, keys, starts, deleted, unclaimed>>

\* _delete_agent: the record and then the index.
DropRecord(r) ==
    /\ req[r].at = "unsave"
    /\ record' = [record EXCEPT ![req[r].agent] = NoRecord]
    /\ Stay(r, "unindex")
    /\ UNCHANGED <<index, slots, core, graph, keys, deleted>> /\ Kept

DropIndex(r) ==
    /\ req[r].at = "unindex" /\ End(r)
    /\ index' = index \ {req[r].agent}
    /\ deleted' = deleted \cup {req[r].agent}
    /\ UNCHANGED <<record, slots, core, graph, keys>> /\ Kept

\* An error is reported only when there was a record.
DropError(r) ==
    /\ req[r].at \in {"unsave", "unindex"} /\ Fault(req[r].agent) /\ End(r)
    /\ \/ UNCHANGED <<record, index>>
       \/ /\ req[r].at = "unsave" /\ record' = [record EXCEPT ![req[r].agent] = NoRecord]
          /\ UNCHANGED index
       \/ /\ req[r].at = "unindex" /\ index' = index \ {req[r].agent}
          /\ UNCHANGED record
    /\ deleted' = IF req[r].found THEN deleted ELSE deleted \cup {req[r].agent}
    /\ UNCHANGED <<slots, core, graph, keys, starts, unclaimed>>

-----------------------------------------------------------------------------
\* POST memory-mode, consolidation, supersession: MERGE of the SystemAgent node.
SetSetting(a) ==
    /\ core' = Ensured(a)
    /\ touched' = IF Busy(a) \/ ~Exists(a) THEN Mark(a, "overlap") ELSE touched
    /\ UNCHANGED <<record, index, slots, graph, req, keys, starts, deleted, unclaimed, faults>>

\* An ingest request of a client that knows the agent.
WriteGraph(a) ==
    /\ Exists(a)
    /\ graph' = graph \cup {a}
    /\ touched' = IF Busy(a) THEN Mark(a, "overlap") ELSE touched
    /\ UNCHANGED <<record, index, slots, core, req, keys, starts, deleted, unclaimed, faults>>

\* The process dies with the requests it was handling, and the keys of those.
Crash ==
    /\ faults < MaxFaults /\ faults' = faults + 1
    /\ \E r \in Requests : req[r] # Idle
    /\ req' = [r \in Requests |-> Idle]
    /\ touched' = [a \in Agents |-> IF Busy(a) THEN touched[a] \cup {"crash"} ELSE touched[a]]
    /\ unclaimed' = unclaimed \cup ({req[r].key : r \in Requests} \ {0})
    /\ UNCHANGED <<record, index, slots, core, graph, keys, starts, deleted>>

Step(r) ==
    \/ StoreKey(r) \/ StoreKeyError(r) \/ SaveRecord(r) \/ SaveIndex(r) \/ SaveError(r)
    \/ Rollback(r) \/ EnsureCore(r) \/ SyncLevel(r) \/ CoreError(r)
    \/ RevokeKnown(r) \/ RevokeOne(r) \/ SkipSlot(r) \/ ScanDone(r) \/ RevokeError(r)
    \/ DeleteGraph(r) \/ DeleteGraphError(r) \/ DropRecord(r) \/ DropIndex(r) \/ DropError(r)

Next ==
    \/ \E r \in Requests, a \in Agents :
          \/ BeginCreate(r, a) \/ BeginRotate(r, a) \/ BeginUpdate(r, a)
          \/ BeginImport(r, a) \/ BeginDelete(r, a)
    \/ \E r \in Requests : Step(r)
    \/ \E a \in Agents : SetSetting(a) \/ WriteGraph(a)
    \/ Crash

Spec == Init /\ [][Next]_vars

-----------------------------------------------------------------------------
(* An agent that is not being changed, and to which nothing of the given   *)
(* kinds has happened.                                                     *)
AtRest(a, kinds) == ~Busy(a) /\ touched[a] \cap kinds = {}

(* Of the keys that were given to somebody, only the one the record points *)
(* to works; without a record (the creation failed), none does.  One       *)
(* failed command or crash anywhere does not change that, also when the    *)
(* command was carried out: a rotation that cannot save takes its new key  *)
(* back, and the slot a failed creation, import or rotation leaves behind  *)
(* is of a key that nobody was given.  Only overlapping requests (a stale  *)
(* record saved over a newer hash), an import over an existing agent, a    *)
(* slot that a scan could not read, or a deletion whose scan failed can.   *)
(* Of agents from before records kept a hash the next rotation revokes all *)
(* keys, so nothing is claimed of them.                                    *)
NoStrayKey ==
    faults <= 1 =>
      \A a \in Agents :
        AtRest(a, {"overlap", "import", "skip"})
        /\ (IF Exists(a) THEN record[a].hash # 0 ELSE a \notin deleted)
            => KeysOf(a) \subseteq {record[a].hash}

(* Requests that neither fail nor overlap leave an agent with a key that   *)
(* works: what a creation or rotation answered is not already dead.        *)
KeyWorks ==
    \A a \in Agents :
        AtRest(a, {"overlap", "crash", "fault", "skip"}) /\ record[a].hash # 0
            => slots[record[a].hash] = a

(* A deletion that was answered with success, and met neither an error it  *)
(* swallows nor another request, has left no record, index entry, key,     *)
(* SystemAgent node or SpaiderNode of the agent.  (Its interaction nodes   *)
(* it does leave; they are not in this model.)                             *)
DeletedLeavesNothing ==
    \A a \in deleted :
        AtRest(a, Marks) =>
            /\ ~Exists(a) /\ a \notin index /\ SlotsOf(a) = {}
            /\ core[a] = NoAgent /\ a \notin graph

(* The two copies of the clearance level agree between whole requests: the *)
(* node never keeps the level of a request whose record was overwritten.   *)
LevelsAgree ==
    \A a \in Agents :
        AtRest(a, Marks) /\ Exists(a) => core[a] = record[a].level
=============================================================================
