----------------------------- MODULE AdminPlane -----------------------------
(***************************************************************************)
(* The components that administer the system and bring data into it: the   *)
(* registries of agents and connections, the connectors, the backup of an  *)
(* agent, the rate limiter, the accounting of calls, the replay log and    *)
(* the datasets.                                                           *)
(***************************************************************************)
EXTENDS Planes, Naturals, FiniteSets, Sequences

CONSTANTS
    Agents, MaxRequests, Levels, NoLevel, NoAgent, MaxKeys, MaxStarts, MaxFaults,
    Conns, Partners, Calls, MaxCalls, MaxCallFaults,
    Sources, Changing, Syncs, NoObject, MaxVersion, MaxSyncFaults,
    MaxRows, Queries, NoQueryYet, MaxKey, BatchSize, MaxRuns,
    Feeds, Slots, MaxDocs, Permits, MaxHangs, MaxRunFaults,
    Items, Ties, MaxAttempts, MaxErased,
    Arrivals, Limit, WindowSize, MaxTime, MaxDown,
    Blocks, ParentOf, NoBlock, Completions, CalledIn, MaxTries,
    Events, OwnerOf, WorkflowOf, Services, NoService, Nobody, AnyOwner, LogLimit,
    MaxReplayFaults,
    Makers, MakerAgent, ArcsOf, Drafts, MaxExamples, MaxSecond, NoFile

VARIABLES
    record, index, slots, core, graph, req, keys, starts, touched, deleted,
    unclaimed, faults,
    ends, stored, allConns, connsOf, call, created, revoked, revoking, begun, callFaults,
    connector, version, heap, cached, inRedis, stage, holds, todo, answerOf, records,
    pending, skipped, base, ingested, reported, syncFaults,
    rowOf, present, storedKey, reading, at, page, inPage, yielded, everYielded, late,
    used, runs,
    docs, due, saved, cursorOf, task, waiting, stopping, published, again, unreadable,
    dropped, unsettled, runFaults,
    source, exporting, file, moved, import, target, exists, erased,
    moment, stamp, verdict, members, retryAt, blurred, down,
    blockState, bucket, retry, paid, lost,
    service, ready, current, holder, cooling, closing, emission, through, stampOf,
    topic, copying, copied, reader, log, summary, both, replayFaults,
    second, maker, fileOf, fetched

(* What the constants of the plane stand for. *)
ASSUME AdminAssumption ==
    /\ MaxKeys \in Nat /\ MaxStarts \in Nat /\ MaxFaults \in Nat /\ IsFiniteSet(Agents)
    /\ NoAgent \notin Agents \cup Levels \cup {NoLevel} /\ NoLevel \notin Levels
    /\ MaxCalls \in Nat /\ MaxCallFaults \in Nat
    /\ IsFiniteSet(Items) /\ IsFiniteSet(Ties) /\ BatchSize \in Nat /\ MaxAttempts \in Nat
ASSUME SourceAssumption ==
    /\ MaxVersion \in Nat \ {0} /\ MaxSyncFaults \in Nat
    /\ MaxRows \in Nat /\ MaxKey \in Nat /\ MaxRuns \in Nat
    /\ MaxDocs \in Nat /\ Permits \in Nat /\ MaxRunFaults \in Nat
    /\ IsFiniteSet(Feeds) /\ IsFiniteSet(Slots)
ASSUME LimitAssumption ==
    /\ Limit \in Nat /\ WindowSize \in Nat /\ MaxTime \in Nat /\ MaxDown \in Nat
    /\ IsFiniteSet(Arrivals)
ASSUME CallAssumption ==
    /\ IsFiniteSet(Blocks) /\ IsFiniteSet(Completions) /\ NoBlock \notin Blocks
    /\ MaxTries \in Nat \ {0}
    /\ ParentOf \in [Blocks -> Blocks \cup {NoBlock}] /\ CalledIn \in [Completions -> Blocks]
ASSUME RecordAssumption ==
    /\ IsFiniteSet(Events) /\ NoService \notin Services /\ {"reader", "lifespan", Nobody} \cap Events = {}
    /\ Nobody \notin {"reader", "lifespan"}
    /\ MaxSecond \in Nat /\ MaxExamples \in Nat
    /\ \A d \in Drafts : d = [instruction |-> d.instruction, response |-> d.response]
    /\ \A m \in Makers : LET g == ArcsOf[MakerAgent[m]] IN g \in Seq({g[i] : i \in DOMAIN g})

Registry == INSTANCE AgentRegistry
Connections == INSTANCE SwarmConnections
Sync == INSTANCE ConnectorSync
Sql == INSTANCE SqlPages
Connectors == INSTANCE ConnectorJobs WITH skipped <- unreadable
Backup == INSTANCE AgentBackup
Limiter == INSTANCE RateLimiter
Llm == INSTANCE LlmCalls
Replay == INSTANCE ReplayLog WITH Limit <- LogLimit
Dataset == INSTANCE Datasets

RegistryOff ==
    /\ record = Off /\ index = Off /\ slots = Off /\ core = Off /\ graph = Off
    /\ req = Off /\ keys = Off /\ starts = Off /\ touched = Off /\ deleted = Off
    /\ unclaimed = Off /\ faults = Off
ConnectionsOff ==
    /\ ends = Off /\ stored = Off /\ allConns = Off /\ connsOf = Off /\ call = Off
    /\ created = Off /\ revoked = Off /\ revoking = Off /\ begun = Off
    /\ callFaults = Off
SyncOff ==
    /\ connector = Off /\ version = Off /\ heap = Off /\ cached = Off /\ inRedis = Off
    /\ stage = Off /\ holds = Off /\ todo = Off /\ answerOf = Off /\ records = Off
    /\ pending = Off /\ skipped = Off /\ base = Off /\ ingested = Off /\ reported = Off
    /\ syncFaults = Off
SqlOff ==
    /\ rowOf = Off /\ present = Off /\ storedKey = Off /\ reading = Off /\ at = Off
    /\ page = Off /\ inPage = Off /\ yielded = Off /\ everYielded = Off /\ late = Off
    /\ used = Off /\ runs = Off
ConnectorsOff ==
    /\ docs = Off /\ due = Off /\ saved = Off /\ cursorOf = Off /\ task = Off
    /\ waiting = Off /\ stopping = Off /\ published = Off /\ again = Off
    /\ unreadable = Off /\ dropped = Off /\ unsettled = Off /\ runFaults = Off
BackupOff ==
    /\ source = Off /\ exporting = Off /\ file = Off /\ moved = Off /\ import = Off
    /\ target = Off /\ exists = Off /\ erased = Off
LimiterOff ==
    /\ moment = Off /\ stamp = Off /\ verdict = Off /\ members = Off /\ retryAt = Off
    /\ blurred = Off /\ down = Off
LlmOff ==
    /\ blockState = Off /\ bucket = Off /\ retry = Off /\ paid = Off /\ lost = Off
ReplayOff ==
    /\ service = Off /\ ready = Off /\ current = Off /\ holder = Off /\ cooling = Off
    /\ closing = Off /\ emission = Off /\ through = Off /\ stampOf = Off /\ topic = Off
    /\ copying = Off /\ copied = Off /\ reader = Off /\ log = Off /\ summary = Off
    /\ both = Off /\ replayFaults = Off
DatasetOff ==
    /\ second = Off /\ maker = Off /\ fileOf = Off /\ fetched = Off
RegistryVars == <<record, index, slots, core, graph, req, keys, starts, touched,
                   deleted, unclaimed, faults>>
ConnectionsVars == <<ends, stored, allConns, connsOf, call, created, revoked, revoking,
                      begun, callFaults>>
SyncVars == <<connector, version, heap, cached, inRedis, stage, holds, todo, answerOf,
               records, pending, skipped, base, ingested, reported, syncFaults>>
SqlVars == <<rowOf, present, storedKey, reading, at, page, inPage, yielded,
              everYielded, late, used, runs>>
ConnectorsVars == <<docs, due, saved, cursorOf, task, waiting, stopping, published,
                     again, unreadable, dropped, unsettled, runFaults>>
BackupVars == <<source, exporting, file, moved, import, target, exists, erased>>
LimiterVars == <<moment, stamp, verdict, members, retryAt, blurred, down>>
LlmVars == <<blockState, bucket, retry, paid, lost>>
ReplayVars == <<service, ready, current, holder, cooling, closing, emission, through,
                 stampOf, topic, copying, copied, reader, log, summary, both,
                 replayFaults>>
DatasetVars == <<second, maker, fileOf, fetched>>
adminVars == <<focus, RegistryVars, ConnectionsVars, SyncVars, SqlVars, ConnectorsVars, BackupVars,
         LimiterVars, LlmVars, ReplayVars, DatasetVars>>

AdminFocus == {"registry", "connections", "sync", "sql", "jobs", "backup", "limiter", "llm",
               "replay", "datasets"}

\* The other components of the plane rest.
AdminRests(f) ==
    /\ IF f = "registry" THEN TRUE ELSE RegistryOff
    /\ IF f = "connections" THEN TRUE ELSE ConnectionsOff
    /\ IF f = "sync" THEN TRUE ELSE SyncOff
    /\ IF f = "sql" THEN TRUE ELSE SqlOff
    /\ IF f = "jobs" THEN TRUE ELSE ConnectorsOff
    /\ IF f = "backup" THEN TRUE ELSE BackupOff
    /\ IF f = "limiter" THEN TRUE ELSE LimiterOff
    /\ IF f = "llm" THEN TRUE ELSE LlmOff
    /\ IF f = "replay" THEN TRUE ELSE ReplayOff
    /\ IF f = "datasets" THEN TRUE ELSE DatasetOff

AdminStays(f) ==
    /\ focus = f /\ UNCHANGED focus
    /\ IF f = "registry" THEN TRUE ELSE UNCHANGED RegistryVars
    /\ IF f = "connections" THEN TRUE ELSE UNCHANGED ConnectionsVars
    /\ IF f = "sync" THEN TRUE ELSE UNCHANGED SyncVars
    /\ IF f = "sql" THEN TRUE ELSE UNCHANGED SqlVars
    /\ IF f = "jobs" THEN TRUE ELSE UNCHANGED ConnectorsVars
    /\ IF f = "backup" THEN TRUE ELSE UNCHANGED BackupVars
    /\ IF f = "limiter" THEN TRUE ELSE UNCHANGED LimiterVars
    /\ IF f = "llm" THEN TRUE ELSE UNCHANGED LlmVars
    /\ IF f = "replay" THEN TRUE ELSE UNCHANGED ReplayVars
    /\ IF f = "datasets" THEN TRUE ELSE UNCHANGED DatasetVars

AdminInit ==
    \/ focus = "registry" /\ AdminRests("registry") /\ Registry!Init
    \/ focus = "connections" /\ AdminRests("connections") /\ Connections!Init
    \/ focus = "sync" /\ AdminRests("sync") /\ Sync!Init
    \/ focus = "sql" /\ AdminRests("sql") /\ Sql!Init
    \/ focus = "jobs" /\ AdminRests("jobs") /\ Connectors!Init
    \/ focus = "backup" /\ AdminRests("backup") /\ Backup!Init
    \/ focus = "limiter" /\ AdminRests("limiter") /\ Limiter!Init
    \/ focus = "llm" /\ AdminRests("llm") /\ Llm!Init
    \/ focus = "replay" /\ AdminRests("replay") /\ Replay!Init
    \/ focus = "datasets" /\ AdminRests("datasets") /\ Dataset!Init
    \/ focus \notin AdminFocus /\ AdminRests(focus)

AdminNext ==
    \/ AdminStays("registry") /\ Registry!Next
    \/ AdminStays("connections") /\ Connections!Next
    \/ AdminStays("sync") /\ Sync!Next
    \/ AdminStays("sql") /\ Sql!Next
    \/ AdminStays("jobs") /\ Connectors!Next
    \/ AdminStays("backup") /\ Backup!Next
    \/ AdminStays("limiter") /\ Limiter!Next
    \/ AdminStays("llm") /\ Llm!Next
    \/ AdminStays("replay") /\ Replay!Next
    \/ AdminStays("datasets") /\ Dataset!Next

AdminSpec == AdminInit /\ [][AdminNext]_adminVars

-----------------------------------------------------------------------------
AdminTypeOK ==
    /\ focus = "registry" => Registry!TypeOK
    /\ focus = "connections" => Connections!TypeOK
    /\ focus = "sync" => Sync!TypeOK
    /\ focus = "sql" => Sql!TypeOK
    /\ focus = "jobs" => Connectors!TypeOK
    /\ focus = "backup" => Backup!TypeOK
    /\ focus = "limiter" => Limiter!TypeOK
    /\ focus = "llm" => Llm!TypeOK
    /\ focus = "replay" => Replay!TypeOK
    /\ focus = "datasets" => Dataset!TypeOK

(* Agents and connections: no key that somebody was given works beside the *)
(* one on record, the answered key works, an answered deletion leaves no   *)
(* record, key, SystemAgent node or SpaiderNode, record and SystemAgent    *)
(* node carry the same clearance; a revoked connection is not listed       *)
(* again, a created one is listed for both of its agents.                  *)
RegistriesAgree ==
    /\ focus = "registry" => /\ Registry!NoStrayKey /\ Registry!KeyWorks
                             /\ Registry!DeletedLeavesNothing /\ Registry!LevelsAgree
    /\ focus = "connections" => Connections!RevokedNotListed /\ Connections!CreatedIsListed

(* Connectors: what is marked as seen was ingested or its loss answered, a *)
(* sync answered with success ingested what it read; no row is read twice  *)
(* under one cursor, and no saved cursor passes a row or a document that   *)
(* was there and not handed on; nothing is published twice by runs that    *)
(* saved their cursor one after the other.                                 *)
SourcesAreCovered ==
    /\ focus = "sync" => Sync!SeenIsSettled /\ Sync!FreshAfterSuccess
    /\ focus = "sql" => Sql!PagesDoNotRepeat /\ Sql!CursorPassesNothing
    /\ focus = "jobs" => Connectors!CursorIsCovered /\ Connectors!NothingTwice

(* An import answered as complete has everything the file has, and its     *)
(* numbers add up to the lines of the file.                                *)
BackupIsComplete == focus = "backup" => Backup!ImportIsComplete /\ Backup!CountsAccount

(* No window holds more allowed requests than the limit, and every paid    *)
(* call is counted once, in the block it was made in.                      *)
AccountsAreExact ==
    /\ focus = "limiter" => Limiter!WithinLimit
    /\ focus = "llm" => Llm!CountedOnce

(* The process never has two connected replay producers and the list of    *)
(* runs covers the log read before it; a dataset id leads back to the      *)
(* dataset it was answered for, and deduplication removes only repeats.    *)
RecordsAreFound ==
    /\ focus = "replay" => Replay!OneProducer /\ Replay!SummarySpansLog
    /\ focus = "datasets" => Dataset!IdLeadsBack /\ Dataset!DatasetIsDistinct
=============================================================================
