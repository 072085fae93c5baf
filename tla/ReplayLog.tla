----------------------------- MODULE ReplayLog -----------------------------
(***************************************************************************)
(* The workflow log: services/replay_service.py, the service singleton and *)
(* the routes of api/v1/replay.py, and the background task by which        *)
(* api/v1/ingest.py and api/v1/query.py add an event.  Every event goes to *)
(* the Kafka topic, and from there, when ClickHouse was reachable as the   *)
(* service started, a second task copies it; a reader takes ClickHouse and *)
(* turns to the topic only when the query raises.                          *)
(***************************************************************************)
EXTENDS Naturals, FiniteSets, SequencesExt, FiniteSetsExt

CONSTANTS
    Events, OwnerOf, WorkflowOf,  \* who emits an event, and of which run
    Services, NoService,          \* the instances the process may create
    Nobody,                       \* the lock of the singleton is free
    AnyOwner,                     \* an administrator's view
    Limit,                        \* events per answer
    MaxReplayFaults               \* failed starts, sends, copies, queries; expiries

VARIABLES
    service,    \* instance |-> none, starting, up, stopping or stopped
    ready,      \* instance |-> its ClickHouse connection was made
    current,    \* _replay_service
    holder,     \* who holds _replay_service_lock
    cooling,    \* within _REPLAY_RETRY_COOLDOWN of a failed start
    closing,    \* the application is shutting down
    emission,   \* event |-> where its task stands
    through,    \* event |-> the instance it was recorded through
    stampOf,    \* event |-> its timestamp, 0 before it has one
    topic,      \* the Kafka topic, oldest first
    copying,    \* events whose ClickHouse insert runs
    copied,     \* the ClickHouse table
    reader,     \* the two requests of a caller: the log of a run, then the list
    log, summary,
    both,       \* events of log in both stores as the list was made (history)
    replayFaults

vars == <<service, ready, current, holder, cooling, closing, emission, through, stampOf,
          topic, copying, copied, reader, log, summary, both, replayFaults>>
singleton == <<service, ready, current, holder, cooling>>
served    == <<reader, log, summary, both>>

Reader == "reader"
NoLog  == <<>>

Init ==
    /\ service = [s \in Services |-> "none"]
    /\ ready = [s \in Services |-> FALSE]
    /\ current = NoService /\ holder = Nobody
    /\ cooling = FALSE /\ closing = FALSE
    /\ emission = [e \in Events |-> "none"]
    /\ through = [e \in Events |-> NoService]
    /\ stampOf = [e \in Events |-> 0]
    /\ topic = <<>> /\ copying = {} /\ copied = {}
    /\ reader = [at |-> "none", through |-> NoService]
    /\ log = NoLog /\ summary = {} /\ both = {}
    /\ replayFaults = 0

Faulty == replayFaults < MaxReplayFaults /\ replayFaults' = replayFaults + 1

----------------------------------------------------------------------------
\* The singleton: looked up and created under one lock.

Asking(a) == IF a = Reader THEN reader.at \in {"askLog", "askList"} ELSE emission[a] = "asking"

\* The caller goes on with instance s: a reader to its query, an event to its
\* timestamp and the send, with no await in between.
GoOn(a, s) ==
    IF a = Reader
    THEN /\ reader' = [at |-> IF reader.at = "askLog" THEN "log" ELSE "list", through |-> s]
         /\ UNCHANGED <<emission, through, stampOf>>
    ELSE /\ emission' = [emission EXCEPT ![a] = "sending"]
         /\ through' = [through EXCEPT ![a] = s]
         /\ stampOf' = [stampOf EXCEPT ![a] = 1 + Max({stampOf[e] : e \in Events})]
         /\ UNCHANGED reader

\* Without a service an event is dropped and a request answered 503.
GoWithout(a) ==
    IF a = Reader
    THEN reader' = [at |-> "refused", through |-> NoService] /\ UNCHANGED emission
    ELSE emission' = [emission EXCEPT ![a] = "dropped"] /\ UNCHANGED reader

FreeUnlocked == holder = Nobody \/ current = NoService
Free         == holder = Nobody

Found(a) ==
    /\ Asking(a) /\ Free /\ current # NoService
    /\ GoOn(a, current)
    /\ UNCHANGED <<singleton, closing, topic, copying, copied, log, summary, both, replayFaults>>

BacksOff(a) ==
    /\ Asking(a) /\ Free /\ current = NoService /\ cooling
    /\ GoWithout(a)
    /\ UNCHANGED <<singleton, closing, through, stampOf, topic, copying, copied, log, summary,
                   both, replayFaults>>

Creates(a) ==
    /\ Asking(a) /\ Free /\ current = NoService /\ ~cooling /\ holder # a
    /\ \E s \in Services :
          /\ service[s] = "none"
          /\ service' = [service EXCEPT ![s] = "starting"]
    /\ holder' = a
    /\ UNCHANGED <<ready, current, cooling, closing, emission, through, stampOf, topic, copying,
                   copied, served, replayFaults>>

\* start() returned: the ClickHouse connection is best effort and decided for good.
Started(a) ==
    /\ holder = a /\ Asking(a)
    /\ \E s \in Services, connected \in BOOLEAN :
          /\ service[s] = "starting"
          /\ connected \/ replayFaults < MaxReplayFaults
          /\ replayFaults' = IF connected THEN replayFaults ELSE replayFaults + 1
          /\ service' = [service EXCEPT ![s] = "up"]
          /\ ready' = [ready EXCEPT ![s] = connected]
          /\ current' = s
          /\ GoOn(a, s)
    /\ cooling' = FALSE /\ holder' = Nobody
    /\ UNCHANGED <<closing, topic, copying, copied, log, summary, both>>

\* The producer could not start: nothing is published and the pause begins.
StartFails(a) ==
    /\ holder = a /\ Asking(a) /\ Faulty
    /\ service' = [s \in Services |-> IF service[s] = "starting" THEN "stopped" ELSE service[s]]
    /\ cooling' = TRUE /\ holder' = Nobody
    /\ GoWithout(a)
    /\ UNCHANGED <<ready, current, closing, through, stampOf, topic, copying, copied, log,
                   summary, both>>

CooledDown ==
    /\ cooling /\ cooling' = FALSE
    /\ UNCHANGED <<service, ready, current, holder, closing, emission, through, stampOf, topic,
                   copying, copied, served, replayFaults>>

\* The lifespan stops the published instance under the same lock, once the
\* requests are over; tasks that wait for the lock outlive it.
ShutdownBegins ==
    /\ ~closing /\ Free /\ reader.at \in {"none", "refused", "done"}
    /\ closing' = TRUE
    /\ IF current = NoService
       THEN UNCHANGED <<holder, service>>
       ELSE holder' = "lifespan" /\ service' = [service EXCEPT ![current] = "stopping"]
    /\ UNCHANGED <<ready, current, cooling, emission, through, stampOf, topic, copying, copied,
                   served, replayFaults>>

ShutdownEnds ==
    /\ holder = "lifespan"
    /\ \A e \in Events : ~(emission[e] = "sending" /\ through[e] = current)
    /\ service' = [service EXCEPT ![current] = "stopped"]
    /\ ready' = [ready EXCEPT ![current] = FALSE]
    /\ current' = NoService /\ holder' = Nobody
    /\ UNCHANGED <<cooling, closing, emission, through, stampOf, topic, copying, copied, served,
                   replayFaults>>

----------------------------------------------------------------------------
\* One event: a task of its own, waited for by nobody.

Fire(e) ==
    /\ emission[e] = "none" /\ ~closing
    /\ emission' = [emission EXCEPT ![e] = "asking"]
    /\ UNCHANGED <<singleton, closing, through, stampOf, topic, copying, copied, served,
                   replayFaults>>

Sent(e) ==
    /\ emission[e] = "sending"
    /\ topic' = Append(topic, e)
    /\ emission' = [emission EXCEPT ![e] = "recorded"]
    /\ copying' = IF ready[through[e]] THEN copying \union {e} ELSE copying
    /\ UNCHANGED <<singleton, closing, through, stampOf, copied, served, replayFaults>>

\* The send raises; whether the broker took the record is open.
SendFails(e) ==
    /\ emission[e] = "sending" /\ Faulty
    /\ topic' \in {topic, Append(topic, e)}
    /\ emission' = [emission EXCEPT ![e] = "dropped"]
    /\ UNCHANGED <<singleton, closing, through, stampOf, copying, copied, served>>

Copied(e) ==
    /\ e \in copying /\ ready[through[e]]
    /\ copying' = copying \ {e} /\ copied' = copied \union {e}
    /\ UNCHANGED <<singleton, closing, emission, through, stampOf, topic, served, replayFaults>>

\* A failed insert, and one after the client is closed, is logged at debug.
CopyFails(e) ==
    /\ e \in copying
    /\ IF ready[through[e]] THEN Faulty ELSE UNCHANGED replayFaults
    /\ copying' = copying \ {e}
    /\ UNCHANGED <<singleton, closing, emission, through, stampOf, topic, copied, served>>

Expires ==
    /\ topic # <<>> /\ Faulty
    /\ topic' = Tail(topic)
    /\ UNCHANGED <<singleton, closing, emission, through, stampOf, copying, copied, served>>

----------------------------------------------------------------------------
\* Reading.

Earlier(e, f) == stampOf[e] < stampOf[f]
ByTime(S)     == CHOOSE s \in [1 .. Cardinality(S) -> S] : \A i, j \in DOMAIN s : i < j => Earlier(s[i], s[j])

\* ClickHouse takes the first in time; the scan of the topic takes the first to
\* arrive, and orders them afterwards.
TableLog(w) ==
    LET ofRun == {e \in copied : WorkflowOf[e] = w}
    IN  {e \in ofRun : Cardinality({f \in ofRun : ~Earlier(e, f)}) <= Limit}
TopicLog(w) ==
    LET ofRun == {i \in DOMAIN topic : WorkflowOf[topic[i]] = w}
    IN  {topic[i] : i \in {k \in ofRun : Cardinality({j \in ofRun : j <= k}) <= Limit}}

\* The route drops other agents' events after the limit was applied.
Visible(events, owner) == {e \in events : owner = AnyOwner \/ OwnerOf[e] = owner}

EarliestOf(stamps)    == Min(stamps)
LatestOfFirst(stamps) == Min(stamps)
LatestOf(stamps)      == Max(stamps)

\* One summary per run of the events of one agent, or of all.
Summaries(S, owner) ==
    LET own == {e \in S : owner = AnyOwner \/ OwnerOf[e] = owner}
        Of(w) == {e \in own : WorkflowOf[e] = w}
    IN  {[run |-> w, first |-> EarliestOf({stampOf[e] : e \in Of(w)}),
          last |-> LatestOf({stampOf[e] : e \in Of(w)}), count |-> Cardinality(Of(w))] :
            w \in {WorkflowOf[e] : e \in own}}

Runs   == {WorkflowOf[e] : e \in Events}
Scopes == {OwnerOf[e] : e \in Events} \union {AnyOwner}

AskLog ==
    /\ reader.at = "none" /\ ~closing
    /\ reader' = [reader EXCEPT !.at = "askLog"]
    /\ UNCHANGED <<singleton, closing, emission, through, stampOf, topic, copying, copied, log,
                   summary, both, replayFaults>>

\* From ClickHouse when the instance has it; from the topic when it has not,
\* or when the query raises.
FromTable == ready[reader.through] /\ UNCHANGED replayFaults
FromTopic == IF ready[reader.through] THEN Faulty ELSE UNCHANGED replayFaults

ServeLog ==
    /\ reader.at = "log"
    /\ \E w \in Runs, owner \in Scopes :
          /\ \/ FromTable /\ log' = ByTime(Visible(TableLog(w), owner))
             \/ FromTopic /\ log' = ByTime(Visible(TopicLog(w), owner))
          /\ reader' = [at |-> "askList", through |-> NoService, run |-> w, owner |-> owner]
    /\ UNCHANGED <<singleton, closing, emission, through, stampOf, topic, copying, copied,
                   summary, both>>

ServeList ==
    /\ reader.at = "list"
    /\ \E owner \in Scopes :
          /\ \A i \in DOMAIN log : owner \in {AnyOwner, OwnerOf[log[i]]}
          /\ \/ FromTable /\ summary' = Summaries(copied, owner)
             \/ FromTopic /\ summary' = Summaries(ToSet(topic), owner)
    /\ both' = ToSet(log) \intersect copied \intersect ToSet(topic)
    /\ reader' = [at |-> "done", through |-> NoService]
    /\ UNCHANGED <<singleton, closing, emission, through, stampOf, topic, copying, copied, log>>

Next ==
    \/ \E a \in Events \union {Reader} :
          Found(a) \/ BacksOff(a) \/ Creates(a) \/ Started(a) \/ StartFails(a)
    \/ CooledDown \/ ShutdownBegins \/ ShutdownEnds
    \/ \E e \in Events : Fire(e) \/ Sent(e) \/ SendFails(e) \/ Copied(e) \/ CopyFails(e)
    \/ Expires \/ AskLog \/ ServeLog \/ ServeList

----------------------------------------------------------------------------
TypeOK ==
    /\ service \in [Services -> {"none", "starting", "up", "stopping", "stopped"}]
    /\ ready \in [Services -> BOOLEAN]
    /\ current \in Services \union {NoService}
    /\ holder \in Events \union {Reader, "lifespan", Nobody}
    /\ emission \in [Events -> {"none", "asking", "sending", "recorded", "dropped"}]
    /\ copying \union copied \subseteq {e \in Events : emission[e] = "recorded"}

(* However many background tasks and requests ask for the service at the   *)
(* same time, while it starts, fails, cools down or is being stopped, the  *)
(* process never has two connected producers: the first would never be     *)
(* stopped.                                                                *)
OneProducer ==
    /\ Cardinality({s \in Services : service[s] \in {"starting", "up", "stopping"}}) <= 1
    /\ current # NoService => service[current] \in {"up", "stopping"}

(* The list of runs a caller loads after the log of a run covers that log, *)
(* whichever of the two stores answered each request: when both still held *)
(* every event it had been shown, the run is listed, from no later than    *)
(* the first event to no earlier than the last, and counts them all.       *)
SummarySpansLog ==
    reader.at = "done" /\ log # NoLog /\ both = ToSet(log) =>
        \E s \in summary :
            /\ s.run = WorkflowOf[log[1]]
            /\ s.count >= Len(log)
            /\ s.first <= stampOf[log[1]]
            /\ s.last >= stampOf[Last(log)]
=============================================================================
