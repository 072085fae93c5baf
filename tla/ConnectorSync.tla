---------------------------- MODULE ConnectorSync ----------------------------
(***************************************************************************)
(* Incremental ingest from URLs and from MCP servers.  A run state per     *)
(* connector and agent says which version of each source was seen; it is   *)
(* cached in the process, changed in place by every request that holds it, *)
(* and written whole to Redis before the records are ingested.             *)
(*                                                                         *)
(* Source: backend/app/api/v1/ingest.py (run state, ingest_url,            *)
(* ingest_mcp), connectors/trafilatura_url_connector.py,                   *)
(* connectors/mcp_connector.py and the dead-letter helper of               *)
(* connectors/__init__.py.                                                 *)
(***************************************************************************)
EXTENDS Naturals, FiniteSets

CONSTANTS
    Sources,
    Changing,           \* bound: the sources that change meanwhile
    Syncs,              \* requests; each is made once
    NoObject,
    MaxVersion,         \* bound: versions of a source
    MaxSyncFaults       \* bound: restarts and failures

VARIABLES
    connector,          \* "url" or "mcp"
    version,            \* what each source serves
    heap,               \* the run-state objects, named by the request that made them
    cached,             \* the object in the process's cache
    inRedis,            \* the stored run state
    stage, holds, todo, \* of each request: its step, its object, sources to do
    answerOf,           \* the version a source answered it (0: none)
    records,            \* what it will ingest
    pending,            \* records whose ingest runs
    skipped,            \* sources it gave up, dead-lettered or empty
    base,               \* history: the versions when it began
    ingested, reported, \* history: written, and lost with an error answer
    syncFaults

vars == <<connector, version, heap, cached, inRedis, stage, holds, todo, answerOf, records,
          pending, skipped, base, ingested, reported, syncFaults>>

Versions == 0 .. MaxVersion
States   == [Sources -> Versions]
Fresh    == [s \in Sources |-> 0]
Records  == Sources \X (1 .. MaxVersion)
Stages   == {"new", "load", "read", "parse", "ingest", "ok", "error", "dead"}

TypeOK ==
    /\ connector \in {"url", "mcp"}
    /\ version \in States /\ heap \in [Syncs -> States] /\ inRedis \in States
    /\ cached \in Syncs \cup {NoObject} /\ holds \in [Syncs -> Syncs \cup {NoObject}]
    /\ stage \in [Syncs -> Stages] /\ answerOf \in [Syncs -> Versions]
    /\ todo \in [Syncs -> SUBSET Sources] /\ skipped \in [Syncs -> SUBSET Sources]
    /\ records \in [Syncs -> SUBSET Records] /\ pending \in [Syncs -> SUBSET Records]
    /\ base \in [Syncs -> States]
    /\ ingested \subseteq Records /\ reported \subseteq Records
    /\ syncFaults \in 0 .. MaxSyncFaults

Init ==
    /\ connector \in {"url", "mcp"}
    /\ version = [s \in Sources |-> 1] /\ inRedis = Fresh
    /\ heap = [q \in Syncs |-> Fresh] /\ cached = NoObject
    /\ stage = [q \in Syncs |-> "new"] /\ holds = [q \in Syncs |-> NoObject]
    /\ todo = [q \in Syncs |-> Sources] /\ skipped = [q \in Syncs |-> {}]
    /\ answerOf = [q \in Syncs |-> 0] /\ base = [q \in Syncs |-> Fresh]
    /\ records = [q \in Syncs |-> {}] /\ pending = [q \in Syncs |-> {}]
    /\ ingested = {} /\ reported = {}
    /\ syncFaults = 0

Fault       == syncFaults < MaxSyncFaults /\ syncFaults' = syncFaults + 1
Goto(q, at) == stage' = [stage EXCEPT ![q] = at]
Seen(q)     == heap[holds[q]]
Next1(q)    == CHOOSE s \in todo[q] : TRUE       \* sources are taken in the request's order
Done1(q)    == todo' = [todo EXCEPT ![q] = @ \ {Next1(q)}]

-----------------------------------------------------------------------------
Change(s) ==
    /\ s \in Changing /\ version[s] < MaxVersion
    /\ version' = [version EXCEPT ![s] = @ + 1]
    /\ UNCHANGED <<connector, heap, cached, inRedis, stage, holds, todo, answerOf, records,
                   pending, skipped, base, ingested, reported, syncFaults>>

\* The request arrives; _get_run_state finds an object in the cache, or asks Redis.
Begin(q) ==
    /\ stage[q] = "new" /\ base' = [base EXCEPT ![q] = version]
    /\ IF cached # NoObject
       THEN Goto(q, "read") /\ holds' = [holds EXCEPT ![q] = cached]
       ELSE Goto(q, "load") /\ UNCHANGED holds
    /\ UNCHANGED <<connector, version, heap, cached, inRedis, todo, answerOf, records,
                   pending, skipped, ingested, reported, syncFaults>>

\* After the await another request may have cached an object: it is replaced.
Load(q) ==
    /\ stage[q] = "load" /\ Goto(q, "read")
    /\ \/ heap' = [heap EXCEPT ![q] = inRedis] /\ UNCHANGED syncFaults
       \/ heap' = [heap EXCEPT ![q] = Fresh] /\ Fault
    /\ cached' = q /\ holds' = [holds EXCEPT ![q] = q]
    /\ UNCHANGED <<connector, version, inRedis, todo, answerOf, records, pending, skipped,
                   base, ingested, reported>>

\* A URL is asked with the stored validators; 304 yields nothing.
Request(q) ==
    /\ connector = "url" /\ stage[q] = "read" /\ todo[q] # {}
    /\ LET s == Next1(q) IN
          IF version[s] = Seen(q)[s]
          THEN Done1(q) /\ UNCHANGED <<stage, answerOf>>
          ELSE /\ Goto(q, "parse")
               /\ answerOf' = [answerOf EXCEPT ![q] = version[s]]
               /\ UNCHANGED todo
    /\ UNCHANGED <<connector, version, heap, cached, inRedis, holds, records, pending, skipped,
                   base, ingested, reported, syncFaults>>

\* Timeout, error status or failed read: dead-lettered as far as possible.
GiveUp(q) ==
    /\ stage[q] = "read" /\ todo[q] # {} /\ Fault
    /\ Done1(q) /\ skipped' = [skipped EXCEPT ![q] = @ \cup {Next1(q)}]
    /\ UNCHANGED <<connector, version, heap, cached, inRedis, stage, holds, answerOf, records,
                   pending, base, ingested, reported>>

Noted(q, s, v) ==
    /\ heap' = [heap EXCEPT ![holds[q]][s] = v]
    /\ records' = [records EXCEPT ![q] = @ \cup {<<s, v>>}]

UnreadableSeen(q, s) == heap' = [heap EXCEPT ![holds[q]][s] = answerOf[q]]
Unreadable(q, s)     == UNCHANGED heap

\* The body is parsed; a page without text, or a parse error, leaves no mark.
Parse(q) ==
    /\ stage[q] = "parse" /\ Goto(q, "read") /\ Done1(q)
    /\ LET s == Next1(q) IN
          \/ Noted(q, s, answerOf[q]) /\ UNCHANGED <<skipped, syncFaults>>
          \/ /\ Fault /\ Unreadable(q, s)
             /\ skipped' = [skipped EXCEPT ![q] = @ \cup {s}]
             /\ UNCHANGED records
    /\ answerOf' = [answerOf EXCEPT ![q] = 0]
    /\ UNCHANGED <<connector, version, cached, inRedis, holds, pending, base, ingested, reported>>

\* An MCP resource is skipped on an equal date, else read and compared by hash.
ReadResource(q) ==
    /\ connector = "mcp" /\ stage[q] = "read" /\ todo[q] # {} /\ Done1(q)
    /\ LET s == Next1(q) IN
          IF version[s] = Seen(q)[s] THEN UNCHANGED <<heap, records>> ELSE Noted(q, s, version[s])
    /\ UNCHANGED <<connector, version, cached, inRedis, stage, holds, answerOf, pending, skipped,
                   base, ingested, reported, syncFaults>>

\* The MCP session breaks: the request fails with the marks already in the
\* cached object, and its records are gone.
Abort(q) ==
    /\ connector = "mcp" /\ stage[q] = "read" /\ Fault /\ Goto(q, "error")
    /\ reported' = reported \cup records[q]
    /\ UNCHANGED <<connector, version, heap, cached, inRedis, holds, todo, answerOf, records,
                   pending, skipped, base, ingested>>

\* _save_run_state, before anything is ingested; a failed SET is only logged.
Save(q) ==
    /\ stage[q] = "read" /\ todo[q] = {} /\ Goto(q, "ingest")
    /\ cached' = holds[q]
    /\ \/ inRedis' = Seen(q) /\ UNCHANGED syncFaults
       \/ Fault /\ UNCHANGED inRedis
    /\ pending' = [pending EXCEPT ![q] = records[q]]
    /\ UNCHANGED <<connector, version, heap, holds, todo, answerOf, records, skipped, base,
                   ingested, reported>>

-----------------------------------------------------------------------------
\* The gathered ingests end one by one, those of an answered request too.
Ingested(q, r) ==
    /\ r \in pending[q]
    /\ pending' = [pending EXCEPT ![q] = @ \ {r}]
    /\ ingested' = ingested \cup {r}
    /\ UNCHANGED <<connector, version, heap, cached, inRedis, stage, holds, todo, answerOf,
                   records, skipped, base, reported, syncFaults>>

\* The first failure answers the request.
IngestFailed(q, r) ==
    /\ r \in pending[q] /\ Fault
    /\ pending' = [pending EXCEPT ![q] = @ \ {r}]
    /\ Goto(q, "error")
    /\ reported' = reported \cup records[q]
    /\ UNCHANGED <<connector, version, heap, cached, inRedis, holds, todo, answerOf, records,
                   skipped, base, ingested>>

AllDoneFirst(q) == records[q] = {} \/ pending[q] # records[q]
AllDone(q)      == pending[q] = {}

Answer(q) ==
    /\ stage[q] = "ingest" /\ AllDone(q) /\ Goto(q, "ok")
    /\ UNCHANGED <<connector, version, heap, cached, inRedis, holds, todo, answerOf, records,
                   pending, skipped, base, ingested, reported, syncFaults>>

Live(q) == stage[q] \in {"load", "read", "parse", "ingest"}

\* The process restarts: its requests and its cache are gone.
Restart ==
    /\ Fault
    /\ cached' = NoObject
    /\ stage' = [q \in Syncs |-> IF Live(q) THEN "dead" ELSE stage[q]]
    /\ reported' = reported \cup UNION {records[q] : q \in {p \in Syncs : Live(p)}}
    /\ pending' = [q \in Syncs |-> {}]
    /\ UNCHANGED <<connector, version, heap, inRedis, holds, todo, answerOf, records, skipped,
                   base, ingested>>

\* The key lives for 30 days.
Expire ==
    /\ inRedis # Fresh /\ inRedis' = Fresh
    /\ UNCHANGED <<connector, version, heap, cached, stage, holds, todo, answerOf, records,
                   pending, skipped, base, ingested, reported, syncFaults>>

Next ==
    \/ \E s \in Sources : Change(s)
    \/ \E q \in Syncs :
          \/ Begin(q) \/ Load(q) \/ Request(q) \/ GiveUp(q) \/ Parse(q) \/ ReadResource(q)
          \/ Abort(q) \/ Save(q) \/ Answer(q)
          \/ \E r \in Records : Ingested(q, r) \/ IngestFailed(q, r)
    \/ Restart \/ Expire

-----------------------------------------------------------------------------
InFlight == (UNION {records[q] : q \in {p \in Syncs : stage[p] \in {"read", "parse"}}})
               \cup (UNION {pending[q] : q \in Syncs})
Settled  == ingested \cup reported \cup InFlight

(* A version recorded as seen, in the cache or in Redis, is never silently *)
(* lost: it was ingested, or is about to be, or a caller got an error for it *)
(* - although the mark is set and stored before the ingest begins.         *)
SeenIsSettled ==
    \A s \in Sources :
        \A state \in {inRedis} \cup (IF cached = NoObject THEN {} ELSE {heap[cached]}) :
            state[s] > 0 => <<s, state[s]>> \in Settled

(* A sync answered with success leaves nothing of its own unwritten, and no*)
(* source it read is older in the graph than when the request began, unless*)
(* another caller got an error for it or is still ingesting it.            *)
FreshAfterSuccess ==
    \A q \in Syncs : stage[q] = "ok" =>
        /\ records[q] \subseteq ingested
        /\ \A s \in Sources \ skipped[q] :
              \E v \in base[q][s] .. MaxVersion : <<s, v>> \in Settled
=============================================================================
