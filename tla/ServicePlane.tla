---------------------------- MODULE ServicePlane ----------------------------
(***************************************************************************)
(* Request handlers and background loops that must come to an end, or back *)
(* to every one they serve.  As in the other planes one behaviour runs one *)
(* component, the focus; the others stay in their initial state, and only  *)
(* the steps of the focus are fair.                                        *)
(***************************************************************************)
EXTENDS Naturals, FiniteSets, Sequences

CONSTANTS
    Tabs, MaxEvents, MaxDrops,
    Sleepers, Cadences, MaxAge, MaxConcurrent, MaxSleepFaults,
    Jobs, Sockets, MaxJobFaults,
    Facts, Links, WeakLinks, Restricted, Asks, MaxIter, TTL, MaxHour, MaxQueryFaults,
    Feeds, Slots, MaxDocs, Permits, MaxHangs, MaxRunFaults,
    Samples, Concurrency, EndOfStream

VARIABLES
    focus,
    published, gen, read, sub, buffer, item, sent, since, opened, gone, lossy, drops,
    cadence, age, never, cores, loop, running, due, pass, moved, sleepFaults,
    kind, stage, sending, corpses, payload, written, connected, socket, inbox, emitted,
    early, jobFaults,
    facts, cache, ask, clearance, hour, queryFaults,
    docs, dueFeeds, saved, cursorOf, task, waiting, stopping, publishedDocs, again,
    skipped, dropped, unsettled, runFaults,
    sampling, lines, completed, yielded, client

(* What the constants of the plane stand for. *)
ASSUME ServiceAssumption ==
    /\ MaxEvents \in Nat /\ MaxDrops \in Nat
    /\ MaxAge \in Nat /\ MaxSleepFaults \in Nat /\ Cadences \subseteq Nat /\ 0 \in Cadences
    /\ MaxJobFaults \in Nat
    /\ MaxIter \in Nat /\ MaxHour \in Nat /\ TTL \in Nat /\ MaxQueryFaults \in Nat
    /\ IsFiniteSet(Feeds) /\ IsFiniteSet(Slots) /\ MaxDocs \in Nat /\ Permits \in Nat
    /\ MaxRunFaults \in Nat
    /\ IsFiniteSet(Samples) /\ EndOfStream \notin Samples

Log == INSTANCE SwarmLog
Sleep == INSTANCE RemSleep
Ingest == INSTANCE IngestJobs
Query == INSTANCE QueryPipeline
Connectors == INSTANCE ConnectorJobs WITH published <- publishedDocs, due <- dueFeeds
Stream == INSTANCE DatasetStream

LogVars == <<published, gen, read, sub, buffer, item, sent, since, opened, gone, lossy,
              drops>>
SleepVars == <<cadence, age, never, cores, loop, running, due, pass, moved, sleepFaults>>
IngestVars == <<kind, stage, sending, corpses, payload, written, connected, socket,
                 inbox, emitted, early, jobFaults>>
QueryVars == <<facts, cache, ask, clearance, hour, queryFaults>>
ConnectorsVars == <<docs, dueFeeds, saved, cursorOf, task, waiting, stopping,
                     publishedDocs, again, skipped, dropped, unsettled, runFaults>>
StreamVars == <<sampling, lines, completed, yielded, client>>
vars == <<focus, LogVars, SleepVars, IngestVars, QueryVars, ConnectorsVars, StreamVars>>

\* The other components rest.
AtRest(f) ==
    /\ IF f = "log" THEN TRUE ELSE Log!Init
    /\ IF f = "sleep" THEN TRUE ELSE Sleep!Init
    /\ IF f = "ingest" THEN TRUE ELSE Ingest!Init
    /\ IF f = "query" THEN TRUE ELSE Query!Init /\ clearance = 1 /\ facts = Facts
    /\ IF f = "jobs" THEN TRUE ELSE Connectors!Init /\ docs = [d \in Feeds |-> 0]
    /\ IF f = "stream" THEN TRUE ELSE Stream!Init

Stays(f) ==
    /\ focus = f /\ UNCHANGED focus
    /\ IF f = "log" THEN TRUE ELSE UNCHANGED LogVars
    /\ IF f = "sleep" THEN TRUE ELSE UNCHANGED SleepVars
    /\ IF f = "ingest" THEN TRUE ELSE UNCHANGED IngestVars
    /\ IF f = "query" THEN TRUE ELSE UNCHANGED QueryVars
    /\ IF f = "jobs" THEN TRUE ELSE UNCHANGED ConnectorsVars
    /\ IF f = "stream" THEN TRUE ELSE UNCHANGED StreamVars

Init ==
    \/ focus = "log" /\ AtRest("log") /\ Log!Init
    \/ focus = "sleep" /\ AtRest("sleep") /\ Sleep!Init
    \/ focus = "ingest" /\ AtRest("ingest") /\ Ingest!Init
    \/ focus = "query" /\ AtRest("query") /\ Query!Init
    \/ focus = "jobs" /\ AtRest("jobs") /\ Connectors!Init
    \/ focus = "stream" /\ AtRest("stream") /\ Stream!Init

Next ==
    \/ Stays("log") /\ Log!Next
    \/ Stays("sleep") /\ Sleep!Next
    \/ Stays("ingest") /\ Ingest!Next
    \/ Stays("query") /\ Query!Next
    \/ Stays("jobs") /\ Connectors!Next
    \/ Stays("stream") /\ Stream!Next

\* asyncio runs every ready task, and the services answer or time out.
Fairness ==
    /\ \A t \in Tabs : WF_LogVars(focus = "log" /\ Log!Generator(t)) /\ WF_LogVars(focus = "log" /\ Log!Reader(t))
    /\ WF_SleepVars(focus = "sleep" /\ Sleep!Scheduler)
    /\ \A a \in Sleepers : WF_SleepVars(focus = "sleep" /\ Sleep!Served(a))
    /\ \A j \in Jobs : WF_IngestVars(focus = "ingest" /\ Ingest!Progress(j))
    /\ \A r \in Asks : WF_QueryVars(focus = "query" /\ Query!Step(r))
    /\ WF_ConnectorsVars(focus = "jobs" /\ Connectors!Poll)
    /\ WF_ConnectorsVars(focus = "jobs" /\ Connectors!Acquire)
    /\ WF_ConnectorsVars(focus = "jobs" /\ Connectors!Restart)
    /\ \A t \in Feeds \X Slots : WF_ConnectorsVars(focus = "jobs" /\ Connectors!Work(t))
    /\ WF_StreamVars(focus = "stream" /\ Stream!Yield)
    /\ \A w \in Samples : WF_StreamVars(focus = "stream" /\ Stream!Work(w))

Spec == Init /\ [][Next]_vars /\ Fairness

-----------------------------------------------------------------------------
TypeOK ==
    /\ focus = "log" => Log!TypeOK
    /\ focus = "sleep" => Sleep!TypeOK
    /\ focus = "ingest" => Ingest!TypeOK
    /\ focus = "query" => Query!TypeOK
    /\ focus = "jobs" => Connectors!TypeOK
    /\ focus = "stream" => Stream!TypeOK

(* An open tab is missing no event and has none twice, and a response that *)
(* ended has closed its subscription.                                      *)
TabsMissNothing == focus = "log" => Log!NothingMissed /\ Log!EndedIsUnsubscribed

(* A connected client receives every event of a job once and in order,     *)
(* done is said once, last and only of what is written, and the source of  *)
(* a text or image answered with success is in the graph; a finished       *)
(* dataset stream has a line for every sample.                             *)
JobsAreTold ==
    /\ focus = "ingest" => Ingest!WatcherSeesJob /\ Ingest!EndIsTrue /\ Ingest!SourceIsKept
    /\ focus = "stream" => Stream!EverySampleIsSent

(* No scheduled pass begins before its interval has elapsed.               *)
CadenceRespected == Sleep!CadenceRespected

(* A client that leaves is noticed, and an event received for a tab is     *)
(* written to it.                                                          *)
TabsAreServed == Log!LeavingIsNoticed /\ Log!EventReachesTab

(* Every agent that is due is consolidated and stamped, and every due      *)
(* connector gets its run.                                                 *)
WorkIsServed ==
    /\ focus = "sleep" => Sleep!AgentsAreServed
    /\ focus = "jobs" => Connectors!DueIsRun

(* Every job, every question and every dataset stream comes to an end.     *)
RequestsEnd ==
    /\ Ingest!JobEnds /\ Query!QuestionEnds
    /\ focus = "stream" => Stream!StreamEnds
=============================================================================
