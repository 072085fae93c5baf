# A formal model of Spaider's backend

TLA+ modules, TLC runs and TLAPS proofs about Spaider's backend. Four components
that run concurrently on the graph are modelled in depth: asynchronous
ingestion over Kafka, the swarm of specialists behind a Redis stream, the
consolidation of the graph, and the supersession of facts that a later request
replaces. Twenty-three smaller modules model what surrounds them: agents and keys,
connections, connectors, ingest jobs, entity resolution, extraction, retrieval and
ranking, learning, backup, the workflow log, datasets, start and shutdown. Their
safety properties are model-checked and, with two exceptions named in section 5,
proved for every value of the constants.
Paths below are relative to the repository (`backend/app/` is abbreviated `app/`).

## 1. Inventory

Spaider stores what its LLM pipeline extracts from text as a graph in Neo4j.
The processes are the API (`app/main.py`, several replicas possible), a worker
(`app/worker.py`) and Airflow; what they share lives in Neo4j, Redis, Kafka and
Postgres. Everything is asyncio: code between two `await`s of one process is
atomic, everything else interleaves.

| Component | State it keeps | Operations | What makes it hard |
|---|---|---|---|
| Kafka producer, `services/kafka_producer.py` | none beyond the client | `produce_ingest_event` with a bounded retry | a send that failed may have been stored |
| Micro-batch consumer, `services/kafka_consumer.py` | position, micro-batch, retry counter per message, `_running` | collect, extract, write, commit, retry or dead-letter, stop | commits cover more than the batch, crashes between write and commit, rebalances, restarts |
| Graph writes, `services/graph_service.py` | nodes, edges, bindings, leases in Neo4j | `write_graph_batch`, `claim_node_for_agent`, `release_node_claim`, deletion | one auto-commit per statement, no surrounding transaction |
| Pheromone stream, `services/redis_service.py` | a stamp on the node, a Redis stream and its consumer group | `mark_node_and_notify`, `clear_pheromone` | two stores, trimming |
| Swarm listener, `workers/swarm_listener.py` | events in memory, scan cursor, lease held | read, recover, claim, work, clear, release, acknowledge | duplicate delivery, expiring leases, failure of every call |
| Consolidation, `lib/consolidation.py`, `workers/rem_sleep_worker.py` | the graph; ids, degrees and merged ids of a run | prune, fuse, decay, stamp | no mutual exclusion of runs, three statements per merge, a snapshot used while it ages |
| Supersession, `services/supersession.py` | `superseded` marks of edges and FACT nodes, descriptions of entities | candidates, LLM verdict, mark, neutralise | read, await, write; edges of one payload judged concurrently; a task nobody keeps |
| REM sleep, `workers/rem_sleep_worker.py` | cadence and last run of each agent, a semaphore | tick, due agents, passes, stamp, consolidate now | errors are swallowed, agents queue while requests change them |
| Synchronous ingest, `api/v1/ingest.py`, `services/ws_manager.py` | run state in memory and Redis; sockets per agent | text, image, file, stream, URL, MCP, SQL, graphs | a cached run state that is marked before the work, broadcasts that await |
| Entity resolution, `services/entity_resolver.py` | nodes, labels and aliases in Neo4j | embed, list, match, write | two requests list before either writes |
| Extraction, `services/compressor.py` | a cache in Redis | cut, ask, merge, cache | chunk borders, chunks that fail, merging by label |
| Connectors, `connectors/`, `scheduler/` | cursor, time of the last run, permits | poll, run, read, publish | overlapping and hanging runs, a cursor ahead of the work |
| Retrieval, `services/query_service.py` | a cache of answers | retrieve, fuse, verify, answer, stream | several reads of a graph that changes |
| Learning, `services/cognitive_engine.py`, `api/v1/feedback.py` | weights of edges | reinforce, weaken, decay, propose | caps, floors and a threshold over many steps |
| Swarm connections, `api/v1/swarm.py`, `services/swarm_service.py` | records and three index sets in Redis; scoped connections in Neo4j | create, list, revoke, federated question, live log | several commands per change, one pending read raced by a heartbeat |
| Agents and keys, `api/v1/agents.py`, `services/auth_service.py` | records and key slots in Redis, core node and graph in Neo4j | create, rotate, update, delete, export, import | three stores without a transaction |
| Rate limiter, `middleware/rate_limiter.py` | a sorted set per key | one pipeline per request | window boundary, equal clock readings |
| LLM calls, `lib/litellm_retry.py` | token buckets in context variables | retry, count, nest | tasks that outlive the block they were started in |
| Workflow log, `services/replay_service.py`, `api/v1/replay.py` | a service singleton, Kafka topic, ClickHouse table | emit, list, summarise | start, failure and stop of the singleton while tasks use it |
| Datasets, `services/synthesizer.py`, `api/v1/synthesize.py` | files per agent; a queue per stream | generate, save, download, stream | names by the second, a stream that must count its tasks |
| Lifespan, `main.py` | clients and tasks of the process, vector index | start, migrate, check, stop | any step may fail, configuration changes between starts |
| Analytics, graph view, MCP server, system settings, front end, SDK, CLI | none of their own, or one value written whole | queries, translation | not concurrent in a way that matters here |

How they interact: the API calls the producer; the consumer calls the graph
writes; anything that wants a node looked at calls `mark_node_and_notify`, which
stamps the node and appends to the stream; listeners lease nodes through the
graph service and write their results there; consolidation merges nodes that
ingestion wrote. All of them meet only in the stores, so each module below models
one component together with the part of the stores it uses, and the steps of the
others that can disturb it.

What each has to get right:

* ingestion: an offset is committed only after everything below it was stored or
  failed; commits never move back; only hopeless records are dead-lettered; every
  record is processed in the end;
* swarm: running leases exclude each other; an event is handled at least once; a
  stamp is not forgotten; every event is finished in the end;
* consolidation: relations are neither made up nor left dangling; a merge keeps
  the relations of the node it removes; what is left is not similar;
* supersession: the newer of two contradicting facts stands and the older does
  not; a role that came from a superseded fact goes with it, and only then;
* everything around them: section 3 states it module by module.

`PROJECT.json` lists the forty hazards that matter most at their lines, with the
properties that would catch them going wrong. Section 6 lists the ones that no
property covers.

## 2. Plan

In this order:

1. `KafkaIngest` with `KafkaIngestProofs`: the main write path. It implements the
   abstract reader `AtLeastOnce`, checked and proved.
2. `SwarmStream` with `SwarmStreamProofs`: the only protocol with leases.
3. `GraphConsolidation` with `GraphConsolidationProofs`: the only component that
   deletes what others wrote.
4. `Supersession` with `SupersessionProofs`: the only component that overrides what
   others wrote.
5. The write paths and stores around them: `EntityResolution`, `Compressor`,
   `IngestJobs`, `ConnectorSync`, `SqlPages`, `ConnectorJobs`, `AgentRegistry`,
   `AgentBackup`, `SwarmConnections`.
6. Background and process: `RemSleep`, `SynapseWeights`, `Lifespan`, `RateLimiter`,
   `LlmCalls`, `SwarmLog`.
7. The read paths: `QueryPipeline`, `Ranking`, `SwarmContext`, `SwarmScope`,
   `SwarmAnswer`, `ReplayLog`, `Datasets`, `DatasetStream`.

8. The planes that put the modules of 5 to 7 side by side, `KnowledgePlane`,
   `AdminPlane` and `ServicePlane`, with their proof modules.

What would come next: an at-least-once queue that `SwarmStream` implements; the
type theorems of the questions and connectors of `ServicePlane`, which are proved
where the other two planes hold these components; a model of the query engine's
node energy, if something comes to depend on more than its order.

## 3. Modules

### KafkaIngest

| Code | Model |
|---|---|
| one iteration of `_micro_batch_loop` | `pc[w]`: `poll`, `extract`, the stages `nodes`, `edges`, `bound`, `commit`, `dlq`, `dlqCommit`, and back to `poll` (`EndBatch`) |
| `getmany` | `Poll` moves `position` past what it appends to `batch`; `Flush` ends the collection |
| `asyncio.gather` of `_extract_graph` | `Extract` picks an outcome per record: good, `ExtractionError`, other error |
| `write_graph_batch` | `WriteStage` per statement (nodes, edges, agent bindings); `WriteError` between or after any of them |
| `commit()` without arguments | `CommitPositions` commits the positions of all assigned partitions, a broker refusal is `CommitRefused` |
| the DLQ loop | `RouteExtractionFailure`, `RouteExhausted`, `LeaveForRetry`, then `CommitAfterDlq`; a commit error there ends the process |
| restart policy, `stop()` | `Start`, `Crash`, `Stop`, `Drained` |
| group coordinator (external) | `Rebalance`, `Rejoin`; a member that was evicted is `stale` and its commits are refused |

Above it stands `AtLeastOnce`, one reader of the log who forgets nothing:
`Produce`, `Process` (deal with any stored record), `Commit` (release a prefix that
is dealt with). `KafkaIngest!Delivery` instantiates it with what was stored, or
failed at least once, as dealt with, and the broker's offset as released: batches,
rebalances, refused commits and crashes must be steps of that reader or stutters.

Abstracted: a record is its partition and index, its text is one of three
outcomes, and the graph is the set of records whose nodes, edges and bindings are
stored (writes are MERGEs, so a second write of a record changes nothing).

### SwarmStream

| Code | Model |
|---|---|
| `mark_node_and_notify` | `Mark` (Neo4j) and `AddEvent` (Redis) with `MarkError`, `AppendError` between them |
| stream and group (external) | `entries` with ids 1, 2, ...; `first` after trimming; `lastDelivered`; `pending` and `idle` |
| `XREADGROUP`, `XAUTOCLAIM` | `Read`, `ReadNothing`; `StartScan`, `Reclaim` page by page, `EndScan`; a reply may be lost after Redis recorded it |
| `_process_message` | `Discard`, `Claim`, `ClaimDenied`, `ClaimError`, `Answer`, `WriteResult`, `ClearPheromone`, `Release`, `Ack` |
| every `except` of it | `DispatchError`, `ClearError`, and the second disjunct of `Release` and `Ack`, whose errors are swallowed |
| clocks and timeouts | ages advanced by `Tick` in one unit; `Tick` cannot pass the LLM timeout |

Assumed: the claim is one atomic compare-and-set, as the docstring at
`graph_service.py:1327` states of the single Cypher statement; a restarted
listener keeps its consumer name (host and pid in a container); the events of a
reply are processed in id order.

### GraphConsolidation

| Code | Model |
|---|---|
| `_consolidate_agent` | `Start` to `Finish`, per runner; nothing keeps runners apart |
| the query of `_fuse_agent_duplicates` | `Snapshot`: some order of the nodes, and their degrees then |
| the two loops | `FindMatch`: the next pair in loop order whose row is open and whose right node is not merged; `EndFusion` |
| `_merge_node_pair` | `RedirectOut`, `RedirectIn`, `DeleteDropped`, one auto-commit each |
| a failing statement | `FusionError`: logged, the run goes on with its other passes |
| ingestion and deletion by others | `WriteNode`, `WriteEdge`, `DeleteNode` |

Embeddings are a relation `Similar` on node ids, and the clusters it stays inside
of. Similarity is not transitive, and the instance has a node similar to two that
are not similar to each other. Left out: weights and their decay, the optional
proposal of edges (off by default), and pruning, which never selects a node
(`created_at` is written as an ISO string and compared with an integer, which is
null in Cypher).

### Supersession

| Code | Model |
|---|---|
| `EntityResolver.resolve` | `Resolve`: the description of each entity of the payload, in the column and in the properties, as read then (`seen`) |
| `write_graph` | `WriteNodes` (merged properties, the description written back as it was read), `WriteEdges`; `WriteError` before each |
| `_attach_fact_node` | `HasFact`: a FACT node per synchronous payload, linked to its entities |
| `create_task(resolve_supersession)` | `Gate` (the agent's flag), `Classify` (one answer per sentence), then one pass per edge |
| `_process_edge` | `Query` (`LIMIT` without order), `Judge`, `Mark`, `Neutralize`, interleaved with all other passes |
| every `except` of it; a task nothing refers to | an empty verdict in `Judge`, `PassError`, `TaskLost` |
| a restart with `run_graph_migrations` | `Restart`: work in memory is gone, empty descriptions are filled from the properties |
| `POST /agents/{id}/supersession` | `SetSupersession` |

A sentence is a model value; which facts contradict each other, what a payload
says of an entity and which roles a sentence contains are constants. The LLM is
assumed careful, as its prompts ask: it never calls a fact outdated that does not
contradict the new one, but it may miss any. History variables record the order
of writes, which passes missed something (a candidate cut off by the limit, a
verdict that left one out, an error, a lost task) and whether requests
overlapped. The entities exist beforehand; two requests that race with the first
mention of an entity are in `EntityResolution`.

### The modules around them

Each is one component with its own variables and constants, and holds its
properties. Three planes instantiate them: `KnowledgePlane` (what makes, learns and
answers from the graph, and the lifespan of the process), `AdminPlane` (registries,
sources, backup, accounts and records) and `ServicePlane` (what must come to an end,
or back to everyone it serves). No two components of a plane share a variable, so a
behaviour runs one, the `focus`, and the rest stand still: in their initial state in
`ServicePlane`, and in the other two at the value `Off` of `Planes`, so that a run
does not multiply their initial states. The states of a run are the sum of those of
the components; nothing is said about two of them at once, and where two do meet (a
deletion during an import, a stamp during a configuration change) the module that
is disturbed has the step of the other.

Each plane states what its components promise, by theme, and has its own
specification (`KnowledgeSpec`, `AdminSpec`, `Spec`), which the proofs are about.
`MCControlPlane` runs the first two in one run: a step of it is a step of one plane
that leaves the other alone, so that its behaviours satisfy both specifications.
`MCServices` gives `ServicePlane` its sizes. Questions and connectors occur twice:
once for what they may never do, and once, under fairness, for what they must do.

**Write paths**

| Module | Code | One action per | Abstracted |
|---|---|---|---|
| `EntityResolution` | `entity_resolver.py`, `embedding_service.py`, resolver queries and `write_graph` of `graph_service.py` | embedding, listing, match of a node, write of a request; failures of the vector services | similarity of labels and of vectors are relations |
| `Compressor` | `compressor.py` | window cut, attempt, answer of a chunk, merge, cache lookup | a text is a sequence of words, blanks and sentence ends; a re-encoded window may be `MaxDrift` longer; the model's answer is any of `Extractions` |
| `IngestJobs` | `api/v1/ingest.py`, `ws.py`, `ws_manager.py`, upload connector | stage of a request, send to one socket, socket joining or leaving, end of a broadcast | what a text contains; what a socket receives is kept per job, as nothing relates the events of two |
| `ConnectorSync` | run state, `ingest_url`, `ingest_mcp`, both connectors | load, request, parse, save, record ingested, answer; restart, expiry of the Redis key | a source is its version |
| `SqlPages` | `sql_connector.py`, `ingest_sql` | page fetched, row turned into a record, end or abort | rows have a query and a key; some cannot be read |
| `ConnectorJobs` | `connector_scheduler.py`, `runner.py`, `worker.py` | poll, permit, load, read, publish, save, shutdown | the connectors are external: `read(cursor)` yields what comes after |
| `AgentRegistry` | `agents.py`, key slots of `auth_service.py`, two writes of `graph_service.py` | Redis or Neo4j command of create, rotate, update, import, delete | a key is a number, a level a number |
| `AgentBackup` | export generator, `import_agent_graph`, `write_graph_batch` | page exported, line read, batch flushed, retry, concurrent change | nodes and relations are names |
| `SwarmConnections` | connection helpers and routes of `swarm.py` | Redis command of create, revoke, list | — |

**Background and process**

| Module | Code | One action per | Abstracted |
|---|---|---|---|
| `RemSleep` | `rem_sleep_worker.py`, cadence and trigger routes | hour, due query, pass begun, pass, stamp, manual trigger, crash | the passes are `GraphConsolidation` and `SynapseWeights` |
| `SynapseWeights` | `feedback.py`, `cognitive_engine.py`, `consolidation.py`, weight backfill | feedback, reinforcement, decay, proposal, migration | weights in thousandths, rounded down |
| `Lifespan` | `main.py`, `initialize` of `graph_service.py` | step of start and of shutdown, each may fail | a client is open or not |
| `RateLimiter` | `rate_limiter.py` | clock reading, pipeline, request let through while Redis is down | one client |
| `LlmCalls` | `litellm_retry.py` | block entered and left, attempt, delay, time limit | a completion costs one token |
| `SwarmLog` | publish and subscribe of `redis_service.py`, `stream_swarm_events` | event, poll of the subscription, heartbeat, send, cancel, close | — |
| `ReplayLog` | `replay_service.py`, `api/v1/replay.py` | start, failure and stop of the singleton, send, copy, page read from either store | — |

**Read paths**

| Module | Code | One action per | Abstracted |
|---|---|---|---|
| `QueryPipeline` | `_query_nl_impl`, `stream_query_nl`, `api/v1/query.py` | cache lookup, seeds, nodes of a round, links of a round, verdict, answer, store; facts written and deleted, clearance changed, time | texts are sets of facts; a score is above or below the threshold |
| `Ranking` | splitting, fusion, diversity, relations and ensemble of `query_service.py` | choice | scores are small integers; products instead of quotients |
| `SwarmContext` | `retrieve_swarm_context`, `_v2`, `_fetch_relationship_lines` | read; agent, bridge, forgetting, supersession, deletion meanwhile | the search is a set of matching facts |
| `SwarmScope` | `swarm_service.py` | grant, revocation, validation, query of one target | a graph is its nodes by kind |
| `SwarmAnswer` | `swarm_query` and what it calls, the prompt cut of `_build_context` | brain answering, scan, text search, synthesis | an insight is a pair of brain and rank; the texts the agents answer are the nodes of their prompts |
| `Datasets` | `synthesizer.py`, synthesize and download routes | strategy, save, download; seconds | the model's pairs are any of `Drafts` |
| `DatasetStream` | `generate_dataset` | task entering, sampling, ending; line yielded; client leaving | a line is its sample |

**What they promise.** The planes
conjoin the properties of the modules by theme. What the titles do not say:

* `AgentRegistry`. A Redis or Neo4j command that fails may have been carried out, with
  only the reply lost. A creation, import or rotation that fails then leaves the slot of
  a key nobody was given (`unclaimed`), and no code path removes it; `NoStrayKey` is
  about the other keys. `DeletedLeavesNothing` names what a deletion removes; the
  interaction nodes it keeps (`agents.py:1430`) are not in the model.
* `QueryPipeline`. Nodes and links of a round are two statements (`graph_service.py:868`),
  and the graph and the agent's clearance change between them, between rounds, and
  while an answer is cached. The cache is keyed by agent and question, and an update of
  the agent drops nothing, so what a lowered clearance hides is served until the entry
  expires. `AnswersWereAllowed` says what is left: a restricted fact is answered with only
  if the request that worked the answer out read the higher clearance while the agent
  held it, and did so no longer ago than the life of an entry.
* `SwarmAnswer`. The sources of a merged answer are all nodes the agents returned; the
  model has read only texts made from the first thirty of each (`PromptCap`). So
  `SourcesWereShown` allows a source that no prompt had, of an agent whose prompt was full.
* `SwarmContext`. An agent without its SystemAgent node is allowed nothing and gets the
  answer of an empty context at once (`AllowNothing`), without the classic retrieval.
* `SynapseWeights`. A decay lowers every edge, also one that was just used; what
  `UsedStaysRemembered` claims is that such an edge stays above the threshold.
* `Compressor`. One failed chunk is passed over, and the merge of the others is answered
  as success. `FailureIsTold` is about all of them failing, `RelationsAreKept` about the
  answered ones.
* `Lifespan`. `TasksHaveClients` is about the listener, and about hibernation until the
  last step of the shutdown: nobody ends that task, and it outlives the graph client.
  The connector scheduler starts whether or not its clients did, so nothing is claimed
  of it.
* `RateLimiter`. A request let through because Redis did not answer may be in the set.
* `Ranking`. `SelectionIsDiverse` says that no duplicate is chosen while an unrelated
  relevant candidate remains, not that a choice is the farthest: relevance is traded
  for distance.

Each part below was broken by the
change named after it, a definition that stands beside the correct one in the
module; the name in the last column is the one to put in its place.

| Property | Module: part | Broken by |
|---|---|---|
| `RegistriesAgree` | `AgentRegistry`: `NoStrayKey` | `AfterSaveErrorKept` |
|  | `AgentRegistry`: `KeyWorks` | `MintedUnrecorded` |
|  | `AgentRegistry`: `DeletedLeavesNothing` | `ScannedEarly` |
|  | `AgentRegistry`: `LevelsAgree` | `AfterIndexUnsynced` |
|  | `SwarmConnections`: `RevokedNotListed` | `ShownUnchecked` |
|  | `SwarmConnections`: `CreatedIsListed` | `TargetOfSwapped` |
| `WeightsFollowUse` | `SynapseWeights`: `UsedStaysRemembered` | `DecayedHard` |
|  | `SynapseWeights`: `VocabularyIsExtracted` | `AcceptedAny` |
| `SourcesAreCovered` | `ConnectorSync`: `SeenIsSettled` | `UnreadableSeen` |
|  | `ConnectorSync`: `FreshAfterSuccess` | `AllDoneFirst` |
|  | `SqlPages`: `PagesDoNotRepeat` | `AfterFrom` |
|  | `SqlPages`: `CursorPassesNothing` | `OrderedAny` |
|  | `ConnectorJobs`: `CursorIsCovered` | `BookmarkNext` |
|  | `ConnectorJobs`: `NothingTwice` | `KeptUnlessFailed` |
| `AnswersAreServable` | `QueryPipeline`: `AnswerIsClosed` | `KeptLinksOpen` |
|  | `QueryPipeline`: `HitsAreRecent` | `FreshAlways` |
|  | `QueryPipeline`: `AnswersWereAllowed` | `LevelsReadHigh` |
| `ChoicesAreSound` | `Ranking`: `SplitIsBounded` | `CapPassed` |
|  | `Ranking`: `FusionAgrees` | `ScoreOfLast` |
|  | `Ranking`: `SelectionIsDiverse` | `ClosestLast` |
|  | `Ranking`: `StrongestAreShown` | `WeightOrOne` |
|  | `Ranking`: `BestIsAnswered` | `RankedByPlace` |
| `AnswersAreScoped` | `SwarmContext`: `ContextIsScoped` | `LineAllowedFrom` |
|  | `SwarmContext`: `NotEmptyHanded` | `AfterNothingGiveUp` |
|  | `SwarmScope`: `MergedIsScoped` | `EndsKeptFrom` |
|  | `SwarmAnswer`: `SourcesWereShown` | `SupplementedAlways` |
|  | `SwarmAnswer`: `FailureStaysLocal` | `OneFailsAll` |
| `BackupIsComplete` | `AgentBackup`: `ImportIsComplete` | `FlushesNodesOnlyFull` |
|  | `AgentBackup`: `CountsAccount` | `FlushesNodesOnlyFull` |
| `ExtractionIsKept` | `Compressor`: `EveryPartIsRead` | `AdvancePast` |
|  | `Compressor`: `FailureIsTold` | `RaisesAlone` |
|  | `Compressor`: `RelationsAreKept` | `CanonicalOwn` |
|  | `EntityResolution`: `OneNodePerName` | `ListedCapped` |
|  | `EntityResolution`: `FactsStayApart` | `AlwaysItselfNever` |
| `NothingIsUnlearned` | `EntityResolution`: `AliasesKept` | `AliasesOfNew` |
|  | `Lifespan`: `LearnedKept` | `BackfilledAll` |
| `LifespanIsOrdered` | `Lifespan`: `TasksHaveClients` | `StopStepsClientsFirst` |
|  | `Lifespan`: `SearchIsCovered` | `MismatchWithIndex` |
| `AccountsAreExact` | `RateLimiter`: `WithinLimit` | `FullBeyond` |
|  | `LlmCalls`: `CountedOnce` | `RecordedOutside` |
| `RecordsAreFound` | `ReplayLog`: `OneProducer` | `FreeUnlocked` |
|  | `ReplayLog`: `SummarySpansLog` | `LatestOfFirst` |
|  | `Datasets`: `IdLeadsBack` | `PathOfUnscoped` |
|  | `Datasets`: `DatasetIsDistinct` | `KeyOfQuestion` |
| `TabsMissNothing` | `SwarmLog`: `NothingMissed` | `HeartbeatCancels` |
|  | `SwarmLog`: `EndedIsUnsubscribed` | `ClosedNot` |
| `TabsAreServed` | `SwarmLog`: `LeavingIsNoticed` | `AfterCheckUnaware` |
|  | `SwarmLog`: `EventReachesTab` | `NextReadForgotten` |
| `CadenceRespected` | `RemSleep`: `CadenceRespected` | `ElapsedEarly` |
| `WorkIsServed` | `RemSleep`: `AgentsAreServed` | `StampedOnce` |
|  | `ConnectorJobs`: `DueIsRun` | `RefusedHeld` |
| `JobsAreTold` | `IngestJobs`: `WatcherSeesJob` | `StillToSendNone` |
|  | `IngestJobs`: `EndIsTrue` | `FollowsEarly` |
|  | `IngestJobs`: `SourceIsKept` | `AttachedToFound` |
|  | `DatasetStream`: `EverySampleIsSent` | `TailOfSentinelFirst` |
| `RequestsEnd` | `IngestJobs`: `JobEnds` | `EndBroadcastKept` |
|  | `QueryPipeline`: `QuestionEnds` | `CountedNever` |
|  | `DatasetStream`: `StreamEnds` | `HoldingUnreleased` |

## 4. Runs

| Run | Question | Instance |
|---|---|---|
| `kafka` | are commits, dead letters and progress right under one fault anywhere, and is the group an `AtLeastOnce` reader? | two replicas, one partition, two messages, batches of two, two retries, two sends per message |
| `kafka_skip` | can a failed record be passed over without a failure of the infrastructure? | one replica, no faults: yes |
| `swarm` | exclusion, at-least-once, stamps | two listeners, one node, two events, the stream may be trimmed to one |
| `swarm_live` | is every event finished? | the same with no trimming forced, under fairness |
| `swarm_ghost` | can two listeners work on one node when nothing fails? | two listeners, one event: yes |
| `consolidation` | what do overlapping runs, a writer and a fault do to the graph? | two runs on three nodes of one cluster and one outside |
| `fusion_edges` | are all edges of a duplicate redirected when one run is alone? | one run, no faults: no |
| `supersession` | does the newer fact win, does the last request stand, do stale roles go? | three payloads about one attribute (one through Kafka, one with an event), two candidates, two faults |
| `supersession_guard` | is a role kept that a current FACT still supports? | the payloads all synchronous, no faults: no |
| `supersession_roles` | does a cleared role stay away? | the same: no |
| `control_plane` | do nineteen components keep their promises over all interleavings and faults? | two or three requests of each, one fault; see below |
| `services` | do six components end, or come back to everyone they serve? | two of what is served, one fault, under fairness |

Bounds, and why they are enough. Two replicas or listeners give every pairwise
race; a third adds no new kind of step, because workers meet only in the stores.
One partition is where replicas meet; partitions do not interact except through
the argument-less commit, which the proofs cover for any number. A batch of two
holds a good and a failed record, which is what the commit confuses. Two retries
tell the first failure from the last. One fault anywhere, combined with
everything that is not a fault (expired leases, timeouts, denied claims, duplicate
deliveries), gives each recovery path once; the theorems hold for any number of
faults. In the swarm the unit of time is a minute, with the code's ratio of
constants: lease 60 s, reclaim threshold 60 s, LLM timeout 120 s. The consolidation
run has the smallest graph in which an already dropped node comes up as a keeper
(three nodes, one similar to both others) and a neighbour outside the cluster. In
the supersession runs three payloads state the attribute's first value, a second
and the first again, in any order and overlap; the entity they share has more
edges than the candidate limit; two faults combine a failed step with a restart.
Bounds on writes, starts, calls and faults are constants named `Max...`, and only
they stop the systems, which is why deadlock is not checked in those runs.

In `control_plane` and `services` every bound is commented in the `.cfg`. The
sizes are the smallest at which the case a property is about occurs: two requests
and one failed command or crash for agents, connections, sources and replay; three
starts for the lifespan (make the index, change the length, start on old data); two
rounds of a question, so that the graph changes between them; agents whose prompt holds
two of their nodes;
two pages for SQL and two batches for an import; chunks of five units over texts
of seven with an overlap of one, so that a text needs two chunks and a sentence may
end early, late or nowhere; four ids for the rankings, whose states are all inputs
up to that size; weights at the floor, one decay above the threshold of forgetting
and one step below the cap. Failures of a question's services are in `services` only
(`MaxQueryFaults` is 0 in `control_plane`, where two askers share the cache), and so are links
that synaptic memory hides (`WeakLinks` is empty in `control_plane`).
Liveness of connectors assumes that no read hangs (`MaxHangs` is 0 there): section 6.

Symmetry is used in `consolidation` only, which checks no liveness: the two
runners, and the two nodes that are similar to the same third, are interchangeable
in every definition.

Fairness. `KafkaIngest!LiveSpec` has weak fairness of each replica's own steps and
of its rejoin: the container is restarted (`restart: unless-stopped`), the event
loop runs, and the client rejoins in the background. `SwarmStream!LiveSpec` has
weak fairness of each listener's steps and of time. Faults are in `Next` but in no
fairness condition, and are bounded, so progress is claimed for a system that is
eventually left alone. No strong fairness is used. `MCServices` has weak fairness of
the steps of the component in focus: of each generator and its reader, of the REM
scheduler and of each agent's passes once they wait or run, of each ingest job and
each question, of the connector poll, the semaphore (first come, first served, as
asyncio's is), each run, the restart of the worker, and each sample of a dataset stream. The event loop runs
every ready task, and calls to other services answer or time out; clients, who may
stay or leave, are under no fairness condition.

### What the failing runs show

* `kafka_skip` (`NoRecordSkipped`): comments at `kafka_consumer.py:247` and `:288`
  say that a message that is not committed will be polled again. `getmany` has
  already moved the position, nothing seeks back, and the next argument-less
  `commit()` covers the failed record. What does hold is `CommittedWasWritten`:
  a committed record was stored or failed at least once.
* `swarm_ghost` (`GhostWorkFree`): the lease lasts 60 s and is described as longer
  than the slowest specialist (`swarm_listener.py:104`); one LLM call may take
  120 s (`:634`). What does hold is `LeaseIsExclusive`: workers whose leases run
  exclude each other, and a slow worker does not release another's lease.
* `fusion_edges` (`EdgesRedirected`): when the left node of a row is dropped in
  favour of a better connected one, the inner loop goes on with it, and a later
  duplicate is merged into the deleted node: its edges are lost. What does hold is
  `MergeKeepsRelations` (when the kept node is there) and `EdgesAreEarned`.

* `supersession_guard` (`SupportedRolesStay`): the guard of the neutralisation
  counts relationships of type `MENTIONS`, and every edge is stored with the type
  `RELATION` and `MENTIONS` as a property, so that the count is always zero
  (`supersession.py:83`, `graph_service.py:610`).
* `supersession_roles` (`ClearedRolesStay`): the role is cleared in the column and
  stays in the properties, from which the next write of the entity, or the
  migration at the next start, takes it back. What does hold is `StaleRolesGone`:
  without overlap and faults the roles of what the last payload superseded are off
  when its passes are done.

Related limits that the properties state and do not hide: two overlapping runs can
each drop the node the other keeps; two overlapping requests can supersede each
other's facts, so that none is current (`LatestStands` is about requests that do
not overlap); redirected relations have the type
`RELATED_TO`, which decay, supersession and the retrieval queries do not read; the
event of a deleted node can never be claimed and stays pending
(`EveryEventHandled` excepts it); a stamp whose event was never added is not
repaired, as no scan on boot exists (`StampHasEvent` lists it as a reason).

All theorems are about the specification of the module or plane, for every value of
the constants that satisfies the named assumptions: any numbers of workers,
messages, nodes, agents, retries, durations and faults. Each rests on an inductive
invariant, named below, whose conjuncts say what the property needs to know of the
states in between. TLC checked them before they were proved, but for those that
claim that an assignment or an order exists.

`KafkaIngestProofs` (from `PartitionAssumption`, `BoundAssumption`):

* `TypeCorrect`: `Spec => []TypeOK`.
* `CommitsAreWritten`: `Spec => []CommittedWasWritten`. The property is not
  inductive: a commit covers positions, so one must know that every record between
  the committed offset and the position of a member that may commit is in its
  batch, was written, or failed; that the records of a batch are written when the
  loop is past the stage that writes them; and that a stale member cannot commit.
  The inductive invariant says this for each value of `pc`.
* `CommitsOnlyGrow`: `Spec => CommitNeverRegresses`, from the same invariant: the
  position of a member whose commit is accepted is never behind the offset.
* `GroupDelivers`: `Spec => DeliversAtLeastOnce`, the refinement. Initial states map
  to initial states; a send is `Produce`, a statement that stores and an extraction
  that fails are `Process` (the batch they deal with is in the log: `BatchStored`),
  an accepted commit is `Commit`, by `CommitsAreWritten` in the new state and
  `CommitsOnlyGrow`; everything else leaves the three mapped variables alone.
* `LettersEarned`: `Spec => []DeadLetterEarned`. A worker's retry counter must not
  run ahead of the failures of its message: `LetterInv` says that the counter plus
  the errors of the batch in hand that the loop has not reached yet is at most the
  number of failures so far. A crash only lowers the left side.

`SwarmStreamProofs` (from `NoWorkerAssumption`, `SwarmBoundAssumption`):

* `TypeCorrect`; the type invariant is strengthened by `Delivered` (what is in an
  inbox or in work has been delivered), without which `entries[e]` may be
  undefined.
* `LeasesExclude`: `LeaseIsExclusive`. The invariant `LeaseInv` relates the
  worker's clock to the database's: while `heldAge` is within the lease and the node
  exists, it is still claimed by that worker, and the lease in the database is no
  older than the worker believes.
* `EventsAreKept` (`NothingLost`) and `StampsAreOwed` (`StampHasEvent`): the
  invariant `EventInv` adds that a worker acknowledges only what was handled or
  malformed, and that a stamp belongs to a call, to an orphan, or to an event that
  has not been handled.

`GraphConsolidationProofs` (from `SimilarAssumption`, `ClusterAssumption`,
`ConsolidationBoundAssumption`):

* `TypeCorrect`. The type invariant is strengthened per run by `Distinct` (a
  snapshot lists a node once), `InsidePair` (while a merge is in progress its
  cursor names two positions of the snapshot, in order, whose nodes are similar)
  and `Fresh` (an idle run remembers nothing of the last one).
* `EdgesEarned`: `EdgesAreEarned`. An edge that is redirected joins the same two
  clusters as before, because `InsidePair` and `ClusterAssumption` keep a merge
  inside a cluster.
* `NothingSimilarLeft`: `LeftoversDiffer`. The invariant `LeftInv` says of a run in
  its loops that every similar pair the cursor is past is settled: one of the two
  was dropped, or the pair is the one being merged. That the next pair is the first
  in loop order enters here.
* `MergesKeep`: `MergeKeepsRelations`. The invariant `MergeInv` says that while runs
  have not overlapped at most one is at work, and that what it has redirected so far
  is there.

`SupersessionProofs` (from `PayloadAssumption`, `ConflictAssumption`, which says
that conflicting facts join a common entity, and `SupersessionBoundAssumption`):

* `TypeCorrect`, strengthened by where a payload is (`StageOK`), that its edges are
  written once, and that a pass that runs is about a stored edge (`PassOK`).
* `NewerFactWins`: `NewerWins`. The invariant `Shown` says that a current fact a
  pass has to supersede is in the pass's hand from the query to the mark. It is
  stable because later writes are not the pass's business and marks are never
  taken back; this is why a second look before marking is not needed for this
  direction.
* `LatestPayloadStands` and `StaleRolesCleared`: `LatestStands` and `StaleRolesGone`.
  `LatestInv` says what a system without overlap can be doing: only the last
  request has work left (`OthersRest`), its passes come after its edges
  (`PassesLast`) and mark only what conflicts with them (`Judged`), so that its own
  edges stay current; and a role that came from a fact it superseded is off, or the
  pass that superseded the fact is about to take it off (`RolesCleared`).
  `PayloadAssumption` says that no text contains the empty role.

`KnowledgeProofs` (about `KnowledgeSpec`, from the assumptions named in
`KnowledgePlane`):

* `KnowledgeTypes`: `KnowledgeTypeOK`, type correctness of all its components.
* `LifespanOrdered`: `LifespanIsOrdered`. The listener runs only between the steps
  that open and close its clients (`ListenerBetween`), and hibernation only while
  the graph is open, or after the last step of the shutdown (`HibernationWithin`); and as long as nobody was
  warned, the lengths stored in the graph fit the index, which fits the configured
  length once the start has looked (`LengthsFit`).
* `AnswersServable`: `AnswersAreServable`. What a question has collected is readable
  at its level (`CollectedReadable`), and the cache holds the answer of a question
  that ended, as it gave it and when it gave it (`CacheIsEarned`). A request that has
  a restricted fact in hand read the higher clearance while the agent held it
  (`WorkSound`, and `GivenAllowed` for what was answered).
* `AnswersScoped`: `AnswersAreScoped`, for the three retrievals over other agents'
  graphs: what is shown was allowed by a bridge that was there when it was read, a
  grant that was valid is never given anew with another scope, and what the
  synthesis names was shown to it, or belongs to an agent whose prompt was full. `SwarmAssumption` (the context cap holds a full
  scan, and a thin one with its supplement: 20, 5, 20 and 25 in `swarm.py`) is needed
  for the last.
* `WeightsFollow`: `WeightsFollowUse`. An edge that was used since the last decay
  keeps a margin above the threshold of forgetting (`UsedHasMargin`).
* `ExtractionKept`: `ExtractionIsKept`. `ReadSoFar` says that the chunks cut so far
  cover the text up to the cursor, `GraphKept` that the merged graph has an edge for
  each edge of a good chunk. `CompressAssumption` states the one thing about data
  that the code relies on without checking: a window that is encoded again grows by
  no more than the overlap.
* `NothingUnlearned`: `NothingIsUnlearned`, an action property, from the same
  invariants.

`AdminProofs` and `SourceProofs` (about `AdminSpec`, from the assumptions named in
`AdminPlane`):

* `RegistriesAgreed`: `RegistriesAgree`. For agents, the invariant has one part per
  promise (`WorkInv`, `StrayInv`, `GoneInv`, `LevelInv`), each under the disturbances
  the promise excepts, and all rest on `SeenInv`: what a request has read of a record
  is the record, while nobody else writes it. For connections, what each of the
  three operations has left to do determines in which sets its connection is.
* `BackupsComplete`: `BackupIsComplete`. Of the lines that are read and not in a
  batch, nodes are in the target or were erased meanwhile, relations were joined or
  lost an end, and the counters say how many (`DataSound`, `CountsSound`).
* `AccountsExact`: `AccountsAreExact`. While clock readings are distinct, a request
  that was let through is in the sorted set, or the set holds one that is a window
  younger (`Sharp`). For tokens, the sum over the buckets that have not been handed
  on, plus what was lost, is the number of charged calls (`TokensCounted`).
* `SourcesCovered`: `SourcesAreCovered`. Syncs: every mark of every object, cached
  or held by a request, is settled (`MarksSettled`), and a source that is done has a
  settled version at least as new as when the sync began (`DoneIsFresh`). SQL: what is
  left of a page lies ahead of the cursor, what was yielded behind it, and no cursor
  passes a row that counts (`PageSound`, `PassesNot`). Connectors: what a run and its
  connector's cursor have passed was handed on (`Covering`); a connector without
  overlapping or unsaved runs has one run, and nothing is published ahead of it
  (`Settling`).
* `RecordsFound`: `RecordsAreFound`. Who holds the lock of the singleton is starting
  the one instance or stopping the published one (`LockSound`); timestamps are given
  once, in order, and a served log is sorted by them (`LogInv`); a file is of the
  request whose answer named it last (`FilesSound`).
* `AdminTypes`: `AdminTypeOK`. Most of it is part of the invariants above. That no
  bucket exceeds the number of calls is not: a call is counted again in each block
  around its own. `Assigned` gives every bucket the calls it has counted and every
  block the order in which it was entered; two buckets share a call only when the
  inner one, entered later, has handed its total on.

`ServiceProofs` (about `Spec` of `ServicePlane`, from `ServiceAssumption`):

* `CadenceKept`: `CadenceRespected`. An agent that waits for the semaphore and was
  neither stamped nor reconfigured since the tick is due still (`SleepInv`).
* `TabsComplete`: `TabsMissNothing`. What was written, the event in hand and the
  buffer are consecutive events from the first after the subscription (`InOrder`);
  that the event in hand is neither lost nor written twice when a heartbeat comes
  between is in `ReadShape`, and that only a client that left or a read that failed
  ends a subscription in `SubShape`.
* `JobsToldTruly`: `JobsAreTold`. A broadcast is under way only where the job stands
  at an event, a socket whose client is there is registered, and only dead sockets
  are discarded (`Broadcasts`); nothing follows an end (`EndsOnce`). For a dataset
  stream, the lines sent and queued enumerate the tasks that ended, each once, and
  the end of the stream comes after all (`StreamInv`).

Two things made these proofs possible without induction over data. A recursive
definition (a sum over a set) is used through the function it defines: the
function exists, because there is a least size at which it would not, and two sums
agree because there is no smallest set on which they differ; least elements come
from the well-foundedness of the strict-subset ordering on finite sets. A sort is
used through its specification: a sorted sequence exists, and the definition
chooses one.

Only model-checked:

* liveness (`EveryRecordProcessed`, `EveryEventHandled`, `TabsAreServed`,
  `WorkIsServed`, `RequestsEnd`), which needs fairness and ENABLED;
* `ChoicesAreSound`: what the selection functions of `Ranking` return, over all
  inputs up to a size. They are built on sorting and filtering of sequences, which
  the provers do not see into, and induction over their inputs is out of reach;
* `TypeOK` of `ServicePlane`, of which all but the types of a question and of a
  connector's runs are in the invariants above, and these two in `KnowledgeTypes`
  and `AdminTypes`;
* the disagreements of the failing runs, which are counterexamples.

## 6. Not modelled, and what no property covers

`PROJECT.json` gives the reason for each component. Left out are: components
without state of their own (graph view, analytics, statistics, the MCP server, which
calls routes that are modelled, parsers, tokens); single values that are written
whole (system settings, working memory); node energy, a real-valued decay that only
orders results; prompts and wording; front end, SDK, CLI and packaging.

Hazards that no property covers:

* The value deserialiser raises inside the poll for a record that is not JSON
  (`kafka_consumer.py:82`): the exception is outside the model's record, whose text
  is always readable.
* Redirected relations get the type `RELATED_TO` (`consolidation.py:297`), which
  decay, supersession and retrieval do not read: types are not modelled.
* `created_at` is an ISO string compared with an integer (`consolidation.py:161`), so
  that pruning selects nothing: it has no action.

The code also does the following, which the models contain where they have the
state for it, and the properties except by name or do not claim:

* Connectors. A read that hangs holds its permit, and its connector, being still
  due, is started again at every poll until all ten permits are gone, while
  `connector_scheduler.py:9` says that slow connectors never block each other and
  `:30` that a connector runs at most once per interval; `DueIsRun` is about runs
  whose reads end, and `NothingTwice` excepts overlapping runs. Shutdown stops the
  producer while runs stream; the record in hand is behind the cursor (`dropped`).
  The API process has a scheduler whose producer was never started (`main.py:275`),
  and the worker one whose registry is empty. The SQL run state has one cursor per
  agent, whatever the query (`CursorPassesNothing` excepts a second query). A run
  that aborts leaves its marks in the cached run state (`SeenIsSettled` counts the
  error answer as settling them).
* Agents. An import that fails after the first line leaves agent and key; the
  retry needs `merge=true` and mints a second key. A retried import into another agent
  creates everything again, although `agents.py:741` calls it idempotent. A restore
  brings back neither weights nor superseded marks nor clearance. Deletion leaves
  interaction nodes. `delete.py` only warns when its audit entry cannot be written.
* Retrieval. The search without keywords shows superseded facts, which
  `supersession.py:54` says are excluded. The fail-closed 503 of the question
  service reaches the client as 500 (`query.py:244`). The swarm connections of
  `swarm_service.py` live in Neo4j and are used by no route; those of the routes
  live in Redis. Proposed edges have no id and no agent.
* Extraction. The chunk loops emit up to `overlap` further, ever shorter chunks at
  the end of a text (`compressor.py:715`, `:829`), one call each. The cache ignores
  the context of the request and keeps results some of whose chunks failed
  (`:446`, `:608`). Two names in one payload for the same node leave only the later
  as alias (`entity_resolver.py:260`), and an entity may match a FACT through the
  vector index. Streamed text and ready-made graphs get no FACT node and start no
  supersession.
* Process. `_graph_service` is set before it is initialised, so the listener starts
  on a client that failed (`main.py:197`, `:291`); the hibernation task is not
  cancelled at shutdown. A length that changes while the graph is empty but the index
  exists is reported at no start (`main.py:133`). The rate limiter counts refused
  requests, so that one who waits for `Retry-After` may be refused again, and equal
  clock readings count once (`blurred`).
* Replay and datasets. A ClickHouse copy that fails is not looked up in Kafka; an
  event after shutdown starts a producer that nobody stops; the namespace filter is
  applied after the limit. `min_confidence` is never read, and a request for one
  strategy gets a third of its samples (`synthesizer.py:208`). A dataset is named by
  the second: a second request in it overwrites the first (`IdLeadsBack` excepts
  it). The first strategy of `generate_dataset` ignores its agent
  (`synthesize.py:766`), and tasks run on when the client has left (`:888`).

## 7. Running

    tlc -workers 2 -config KafkaIngest.cfg MCKafkaIngest
    tlapm KafkaIngestProofs.tla

and likewise for the other configurations and proof modules. The largest runs take
about four minutes. The proofs of `AdminProofs` and `SourceProofs` take about
twenty minutes each, the others between one and seven.
