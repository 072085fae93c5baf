---------------------------- MODULE SwarmStream ----------------------------
(***************************************************************************)
(* The swarm: PheromoneService.mark_node_and_notify stamps a node and      *)
(* appends an event to a Redis stream; every API process runs one          *)
(* swarm_listener, which reads the stream through a consumer group, takes  *)
(* a lease on the node in Neo4j, lets a specialist work on it, clears the  *)
(* stamp, releases the lease and acknowledges the event.  Events whose     *)
(* delivery has been idle for too long are reclaimed by any listener.      *)
(*                                                                         *)
(* Source: backend/app/services/redis_service.py (PheromoneService),       *)
(* backend/app/workers/swarm_listener.py and the leases of                 *)
(* backend/app/services/graph_service.py.  Redis' consumer group is        *)
(* external and modelled as the listener uses it.  Time is what separates  *)
(* the steps: leases, deliveries, recovery scans and LLM calls have ages   *)
(* that a Tick advances, in one common unit.                               *)
(***************************************************************************)
EXTENDS Integers, Sequences, FiniteSets

CONSTANTS
    Nodes,          \* SpaiderNode ids
    Workers,        \* consumer names (host and pid of an API process)
    NoWorker,
    MaxCalls,       \* bound: calls of mark_node_and_notify in one behaviour
    StreamMaxLen,   \* STREAM_MAXLEN
    ReadCount,      \* _READ_COUNT
    LeaseDuration,  \* _LEASE_DURATION_SEC
    MinIdle,        \* _CLAIM_MIN_IDLE_MS
    ScanInterval,   \* _CLAIM_INTERVAL_S
    LlmTimeout,     \* the wait_for around one LLM call
    MaxFaults       \* bound: infrastructure faults in one behaviour

ASSUME NoWorkerAssumption == NoWorker \notin Workers
ASSUME SwarmBoundAssumption ==
    /\ MaxCalls \in Nat \ {0}
    /\ StreamMaxLen \in Nat \ {0}
    /\ ReadCount \in Nat \ {0}
    /\ LeaseDuration \in Nat \ {0}
    /\ MinIdle \in Nat \ {0}
    /\ ScanInterval \in Nat \ {0}
    /\ LlmTimeout \in Nat \ {0}
    /\ MaxFaults \in Nat

VARIABLES
    \* Neo4j
    exists,     \* the nodes that are in the graph
    marker,     \* nodes that carry needs_agent
    claimedBy, leaseAge,    \* lease of each node and its age
    \* callers of mark_node_and_notify
    calls,      \* calls made so far
    marking,    \* calls per node that have stamped it and not yet added the event
    \* the Redis stream and its consumer group
    entries,    \* every event ever added; its index is its id
    first,      \* oldest event that has not been trimmed
    lastDelivered,
    pending,    \* the pending entries list: who an event was delivered to
    idle,       \* time since that delivery
    \* each listener
    pc,
    inbox,      \* events of the last reply still to be processed
    current,    \* event being processed
    scan,       \* cursor of the recovery scan, 0 outside one
    sinceScan,  \* time since the last scan
    heldAge,    \* time since the lease on the current event's node was won
    \* history
    handled,    \* events whose specialist finished and whose stamp was cleared
    orphaned,   \* nodes stamped by a call whose event was never added
    faults

graphVars  == <<exists, marker, claimedBy, leaseAge>>
callVars   == <<calls, marking>>
streamVars == <<entries, first, lastDelivered, pending, idle>>
workerVars == <<pc, inbox, current, scan, sinceScan, heldAge>>
vars == <<graphVars, callVars, streamVars, workerVars, handled, orphaned, faults>>

Event    == [node : Nodes, wellFormed : BOOLEAN]
EntryId  == 1 .. MaxCalls
LastPage == MaxCalls + 1     \* the scan has seen the whole pending list
MaxHeld  == IF LlmTimeout > LeaseDuration THEN LlmTimeout ELSE LeaseDuration + 1
PcValues == {"down", "loop", "scan", "read", "pick", "llm", "write", "clear", "release", "ack"}
Holding  == {"llm", "write", "clear", "release"}

NodeOf(e) == entries[e].node
Target(w) == NodeOf(current[w])

Fault == faults < MaxFaults /\ faults' = faults + 1

GraphTypeOK ==
    /\ exists \subseteq Nodes
    /\ marker \subseteq Nodes
    /\ claimedBy \in [Nodes -> Workers \cup {NoWorker}]
    /\ leaseAge \in [Nodes -> 0 .. LeaseDuration + 1]

CallTypeOK ==
    /\ calls \in 0 .. MaxCalls
    /\ marking \in [Nodes -> Nat]

StreamTypeOK ==
    /\ entries \in Seq(Event)
    /\ Len(entries) <= MaxCalls
    /\ first \in 1 .. MaxCalls + 1
    /\ lastDelivered \in 0 .. Len(entries)
    /\ pending \in [EntryId -> Workers \cup {NoWorker}]
    /\ idle \in [EntryId -> 0 .. MinIdle]

ListenerTypeOK ==
    /\ pc \in [Workers -> PcValues]
    /\ inbox \in [Workers -> SUBSET EntryId]
    /\ current \in [Workers -> 0 .. MaxCalls]
    /\ scan \in [Workers -> 0 .. LastPage]
    /\ sinceScan \in [Workers -> 0 .. ScanInterval]
    /\ heldAge \in [Workers -> 0 .. MaxHeld]

HistoryTypeOK ==
    /\ handled \subseteq EntryId
    /\ orphaned \subseteq Nodes
    /\ faults \in 0 .. MaxFaults

TypeOK ==
    GraphTypeOK /\ CallTypeOK /\ StreamTypeOK /\ ListenerTypeOK /\ HistoryTypeOK

Init ==
    /\ exists = Nodes
    /\ marker = {}
    /\ claimedBy = [n \in Nodes |-> NoWorker]
    /\ leaseAge = [n \in Nodes |-> 0]
    /\ calls = 0
    /\ marking = [n \in Nodes |-> 0]
    /\ entries = <<>>
    /\ first = 1
    /\ lastDelivered = 0
    /\ pending = [e \in EntryId |-> NoWorker]
    /\ idle = [e \in EntryId |-> 0]
    /\ pc = [w \in Workers |-> "down"]
    /\ inbox = [w \in Workers |-> {}]
    /\ current = [w \in Workers |-> 0]
    /\ scan = [w \in Workers |-> 0]
    /\ sinceScan = [w \in Workers |-> 0]
    /\ heldAge = [w \in Workers |-> 0]
    /\ handled = {}
    /\ orphaned = {}
    /\ faults = 0

-----------------------------------------------------------------------------
(* mark_node_and_notify: the stamp and the event are two calls to two stores *)

\* Step A.  The MATCH finds no row for a missing node, which is no error.
Mark(n) ==
    /\ calls < MaxCalls
    /\ calls' = calls + 1
    /\ marker' = marker \cup ({n} \cap exists)
    /\ marking' = [marking EXCEPT ![n] = @ + 1]
    /\ UNCHANGED <<exists, claimedBy, leaseAge, streamVars, workerVars,
                   handled, orphaned, faults>>

\* A failed step A ends the call, although the write may have been committed.
MarkError(n) ==
    /\ calls < MaxCalls
    /\ Fault
    /\ calls' = calls + 1
    /\ \/ UNCHANGED <<marker, orphaned>>
       \/ /\ marker' = marker \cup ({n} \cap exists)
          /\ orphaned' = orphaned \cup {n}
    /\ UNCHANGED <<exists, claimedBy, leaseAge, marking, streamVars, workerVars, handled>>

\* Step B.  XADD trims approximately: it may keep more than StreamMaxLen
\* events, never fewer.  An empty agent type makes the event malformed.
AddEvent(n) ==
    /\ marking[n] > 0
    /\ Len(entries) < MaxCalls      \* every call adds one event at most
    /\ marking' = [marking EXCEPT ![n] = @ - 1]
    /\ \E ok \in BOOLEAN :
        /\ entries' = Append(entries, [node |-> n, wellFormed |-> ok])
        /\ orphaned' = IF ok THEN orphaned ELSE orphaned \cup {n}
    /\ \E f \in first .. Len(entries) + 1 :
        /\ f = first \/ Len(entries) + 2 - f >= StreamMaxLen
        /\ first' = f
    /\ UNCHANGED <<graphVars, calls, lastDelivered, pending, idle, workerVars,
                   handled, faults>>

\* The XADD fails or the caller dies before it: the stamp stays.
AppendError(n) ==
    /\ marking[n] > 0
    /\ Fault
    /\ marking' = [marking EXCEPT ![n] = @ - 1]
    /\ orphaned' = orphaned \cup {n}
    /\ UNCHANGED <<graphVars, calls, streamVars, workerVars, handled>>

\* delete_node_cascade and the other deletions, with whatever the node carries.
DeleteNode(n) ==
    /\ n \in exists
    /\ exists' = exists \ {n}
    /\ marker' = marker \ {n}
    /\ claimedBy' = [claimedBy EXCEPT ![n] = NoWorker]
    /\ leaseAge' = [leaseAge EXCEPT ![n] = 0]
    /\ UNCHANGED <<callVars, streamVars, workerVars, handled, orphaned, faults>>

-----------------------------------------------------------------------------
(* swarm_listener: the loop around the stream                              *)

Start(w) ==
    /\ pc[w] = "down"
    /\ pc' = [pc EXCEPT ![w] = "loop"]
    /\ sinceScan' = [sinceScan EXCEPT ![w] = 0]
    /\ UNCHANGED <<graphVars, callVars, streamVars, inbox, current, scan, heldAge,
                   handled, orphaned, faults>>

\* The process dies or the task is cancelled; its deliveries stay pending.
Crash(w) ==
    /\ pc[w] # "down"
    /\ Fault
    /\ pc' = [pc EXCEPT ![w] = "down"]
    /\ inbox' = [inbox EXCEPT ![w] = {}]
    /\ current' = [current EXCEPT ![w] = 0]
    /\ scan' = [scan EXCEPT ![w] = 0]
    /\ heldAge' = [heldAge EXCEPT ![w] = 0]
    /\ UNCHANGED <<graphVars, callVars, streamVars, sinceScan, handled, orphaned>>

\* The first ReadCount events of S, which is what one reply holds.
Page(S) == {e \in S : Cardinality({f \in S : f < e}) < ReadCount}

Deliver(w, S) ==
    /\ pending' = [e \in EntryId |-> IF e \in S THEN w ELSE pending[e]]
    /\ idle' = [e \in EntryId |-> IF e \in S THEN 0 ELSE idle[e]]

ReadyToRead(w) == pc[w] = "read" \/ (pc[w] = "loop" /\ sinceScan[w] < ScanInterval)

\* Events never delivered to the group: XREADGROUP with the id ">".
NewEvents == {e \in 1 .. Len(entries) : e > lastDelivered /\ e >= first}

Read(w) ==
    /\ ReadyToRead(w)
    /\ NewEvents # {}
    /\ Deliver(w, Page(NewEvents))
    /\ lastDelivered' \in Page(NewEvents)
    /\ \A e \in Page(NewEvents) : e <= lastDelivered'
    /\ \/ /\ inbox' = [inbox EXCEPT ![w] = Page(NewEvents)]
          /\ pc' = [pc EXCEPT ![w] = "pick"]
          /\ UNCHANGED faults
       \/ \* the reply is lost: the loop sleeps and goes round
          /\ Fault
          /\ pc' = [pc EXCEPT ![w] = "loop"]
          /\ UNCHANGED inbox
    /\ UNCHANGED <<graphVars, callVars, entries, first, current, scan, sinceScan, heldAge,
                   handled, orphaned>>

ReadNothing(w) ==
    /\ pc[w] = "read"
    /\ NewEvents = {}
    /\ pc' = [pc EXCEPT ![w] = "loop"]
    /\ UNCHANGED <<graphVars, callVars, streamVars, inbox, current, scan, sinceScan,
                   heldAge, handled, orphaned, faults>>

-----------------------------------------------------------------------------
(* _recover_pending: XAUTOCLAIM page by page                               *)

StartScan(w) ==
    /\ pc[w] = "loop"
    /\ sinceScan[w] >= ScanInterval
    /\ pc' = [pc EXCEPT ![w] = "scan"]
    /\ scan' = [scan EXCEPT ![w] = 1]
    /\ UNCHANGED <<graphVars, callVars, streamVars, inbox, current, sinceScan, heldAge,
                   handled, orphaned, faults>>

FinishScan(w) ==
    /\ pc' = [pc EXCEPT ![w] = "read"]
    /\ scan' = [scan EXCEPT ![w] = 0]
    /\ sinceScan' = [sinceScan EXCEPT ![w] = 0]

Reclaimable(w) ==
    {e \in EntryId : e >= scan[w] /\ pending[e] # NoWorker
                                  /\ (idle[e] >= MinIdle \/ e < first)}

\* Trimmed events drop out of the pending list; the others are delivered anew,
\* whoever they were delivered to before.
ReclaimPage(w) ==
    LET page == Page(Reclaimable(w))
        kept == {e \in page : e >= first}
        more == {e \in EntryId : pending[e] # NoWorker /\ \A f \in page : f < e}
    IN  /\ pending' = [e \in EntryId |-> IF e \in kept THEN w
                                         ELSE IF e \in page THEN NoWorker ELSE pending[e]]
        /\ idle' = [e \in EntryId |-> IF e \in page THEN 0 ELSE idle[e]]
        /\ \/ /\ inbox' = [inbox EXCEPT ![w] = kept]
              /\ pc' = [pc EXCEPT ![w] = IF kept = {} THEN "scan" ELSE "pick"]
              /\ \E cursor \in more \cup {LastPage} :
                    /\ IF Cardinality(page) < ReadCount
                       THEN cursor = LastPage
                       ELSE \A e \in more : cursor <= e
                    /\ scan' = [scan EXCEPT ![w] = cursor]
              /\ UNCHANGED <<sinceScan, faults>>
           \/ \* the reply is lost: the scan is abandoned
              /\ Fault
              /\ FinishScan(w)
              /\ UNCHANGED inbox

Reclaim(w) ==
    /\ pc[w] = "scan"
    /\ scan[w] # LastPage
    /\ ReclaimPage(w)
    /\ UNCHANGED <<graphVars, callVars, entries, first, lastDelivered, current, heldAge,
                   handled, orphaned>>

EndScan(w) ==
    /\ pc[w] = "scan"
    /\ scan[w] = LastPage
    /\ FinishScan(w)
    /\ UNCHANGED <<graphVars, callVars, streamVars, inbox, current, heldAge,
                   handled, orphaned, faults>>

-----------------------------------------------------------------------------
(* _process_message, for the events of a reply in id order                 *)

IsNext(w, e) ==
    /\ pc[w] = "pick"
    /\ e \in inbox[w]
    /\ \A f \in inbox[w] : e <= f

\* Where the loop goes when it is done with an event and rest is left.
After(w, rest) ==
    IF rest # {} THEN "pick" ELSE IF scan[w] = 0 THEN "loop" ELSE "scan"

\* The event is left, acknowledged or not.
Leave(w) ==
    /\ pc' = [pc EXCEPT ![w] = After(w, inbox[w])]
    /\ current' = [current EXCEPT ![w] = 0]
    /\ heldAge' = [heldAge EXCEPT ![w] = 0]
    /\ UNCHANGED <<inbox, scan, sinceScan>>

Skip(w, e) ==
    /\ pc' = [pc EXCEPT ![w] = After(w, inbox[w] \ {e})]
    /\ inbox' = [inbox EXCEPT ![w] = @ \ {e}]
    /\ UNCHANGED <<current, scan, sinceScan, heldAge>>

Take(w, e, pcAfter) ==
    /\ pc' = [pc EXCEPT ![w] = pcAfter]
    /\ inbox' = [inbox EXCEPT ![w] = @ \ {e}]
    /\ current' = [current EXCEPT ![w] = e]
    /\ heldAge' = [heldAge EXCEPT ![w] = 0]
    /\ UNCHANGED <<scan, sinceScan>>

Discard(w, e) ==
    /\ IsNext(w, e)
    /\ ~entries[e].wellFormed
    /\ Take(w, e, "ack")
    /\ UNCHANGED <<graphVars, callVars, streamVars, handled, orphaned, faults>>

\* The guard of claim_node_for_agent's single statement.
ClaimableNever(n) == n \in exists /\ claimedBy[n] = NoWorker

Claimable(n) == n \in exists /\ (claimedBy[n] = NoWorker \/ leaseAge[n] > LeaseDuration)

SetLease(w, n) ==
    /\ claimedBy' = [claimedBy EXCEPT ![n] = w]
    /\ leaseAge' = [leaseAge EXCEPT ![n] = 0]
    /\ UNCHANGED <<exists, marker>>

Claim(w, e) ==
    /\ IsNext(w, e)
    /\ entries[e].wellFormed
    /\ Claimable(NodeOf(e))
    /\ SetLease(w, NodeOf(e))
    /\ Take(w, e, "llm")
    /\ UNCHANGED <<callVars, streamVars, handled, orphaned, faults>>

\* Held by another worker, by this one since an earlier failure, or the node
\* is gone: the event stays pending.
ClaimDenied(w, e) ==
    /\ IsNext(w, e)
    /\ entries[e].wellFormed
    /\ ~Claimable(NodeOf(e))
    /\ Skip(w, e)
    /\ UNCHANGED <<graphVars, callVars, streamVars, handled, orphaned, faults>>

\* An error counts as denied, even if the lease was taken.
ClaimError(w, e) ==
    /\ IsNext(w, e)
    /\ entries[e].wellFormed
    /\ Fault
    /\ \/ UNCHANGED graphVars
       \/ Claimable(NodeOf(e)) /\ SetLease(w, NodeOf(e))
    /\ Skip(w, e)
    /\ UNCHANGED <<callVars, streamVars, handled, orphaned>>

\* The specialist's LLM answers, or there is nothing to ask it.
Answer(w) ==
    /\ pc[w] = "llm"
    /\ pc' = [pc EXCEPT ![w] = "write"]
    /\ UNCHANGED <<graphVars, callVars, streamVars, inbox, current, scan, sinceScan,
                   heldAge, handled, orphaned, faults>>

\* The specialist's own write to the graph.
WriteResult(w) ==
    /\ pc[w] = "write"
    /\ pc' = [pc EXCEPT ![w] = "clear"]
    /\ UNCHANGED <<graphVars, callVars, streamVars, inbox, current, scan, sinceScan,
                   heldAge, handled, orphaned, faults>>

\* The specialist raises: neither released nor acknowledged.
DispatchErrorAcked(w) ==
    /\ pc[w] \in {"llm", "write"}
    /\ Fault
    /\ pc' = [pc EXCEPT ![w] = "ack"]
    /\ UNCHANGED <<graphVars, callVars, streamVars, inbox, current, scan, sinceScan,
                   heldAge, handled, orphaned>>

DispatchError(w) ==
    /\ pc[w] \in {"llm", "write"}
    /\ Fault
    /\ Leave(w)
    /\ UNCHANGED <<graphVars, callVars, streamVars, handled, orphaned>>

ClearPheromone(w) ==
    /\ pc[w] = "clear"
    /\ marker' = marker \ {Target(w)}
    /\ handled' = handled \cup {current[w]}
    /\ orphaned' = orphaned \ {Target(w)}
    /\ pc' = [pc EXCEPT ![w] = "release"]
    /\ UNCHANGED <<exists, claimedBy, leaseAge, callVars, streamVars, inbox, current, scan,
                   sinceScan, heldAge, faults>>

ClearErrorSwallowed(w) ==
    /\ pc[w] = "clear"
    /\ Fault
    /\ pc' = [pc EXCEPT ![w] = "release"]
    /\ handled' = handled \cup {current[w]}
    /\ UNCHANGED <<graphVars, callVars, streamVars, inbox, current, scan, sinceScan, heldAge,
                   orphaned>>

\* clear_pheromone re-raises: as a failed dispatch, whether or not it cleared.
ClearError(w) ==
    /\ pc[w] = "clear"
    /\ Fault
    /\ marker' \in {marker, marker \ {Target(w)}}
    /\ Leave(w)
    /\ UNCHANGED <<exists, claimedBy, leaseAge, callVars, streamVars, handled, orphaned>>

\* Only the caller's own claim is removed.
RemoveAnyClaim(w) ==
    /\ claimedBy' = [claimedBy EXCEPT ![Target(w)] = NoWorker]
    /\ leaseAge' = [leaseAge EXCEPT ![Target(w)] = 0]

RemoveClaim(w) ==
    /\ claimedBy' = [claimedBy EXCEPT ![Target(w)] = IF @ = w THEN NoWorker ELSE @]
    /\ leaseAge' = [leaseAge EXCEPT ![Target(w)] = IF claimedBy[Target(w)] = w THEN 0 ELSE @]

\* release_node_claim; its errors are swallowed, the lease expires by itself.
Release(w) ==
    /\ pc[w] = "release"
    /\ \/ RemoveClaim(w) /\ UNCHANGED faults
       \/ Fault /\ UNCHANGED <<claimedBy, leaseAge>>
    /\ pc' = [pc EXCEPT ![w] = "ack"]
    /\ UNCHANGED <<exists, marker, callVars, streamVars, inbox, current, scan,
                   sinceScan, heldAge, handled, orphaned>>

\* _safe_ack: XACK names the event, not the consumer it is pending for; its
\* errors are swallowed.
Ack(w) ==
    /\ pc[w] = "ack"
    /\ \/ /\ pending' = [pending EXCEPT ![current[w]] = NoWorker]
          /\ idle' = [idle EXCEPT ![current[w]] = 0]
          /\ UNCHANGED faults
       \/ Fault /\ UNCHANGED <<pending, idle>>
    /\ Leave(w)
    /\ UNCHANGED <<graphVars, callVars, entries, first, lastDelivered, handled, orphaned>>

-----------------------------------------------------------------------------
\* Time passes for everybody; an LLM call is cut off at LlmTimeout.
OlderUncapped(age, limit) == age + 1

Older(age, limit) == IF age < limit THEN age + 1 ELSE limit

Tick ==
    /\ \A w \in Workers : pc[w] = "llm" => heldAge[w] < LlmTimeout
    /\ leaseAge' = [n \in Nodes |->
                       IF claimedBy[n] = NoWorker THEN leaseAge[n]
                       ELSE Older(leaseAge[n], LeaseDuration + 1)]
    /\ idle' = [e \in EntryId |->
                   IF pending[e] = NoWorker THEN idle[e] ELSE Older(idle[e], MinIdle)]
    /\ sinceScan' = [w \in Workers |->
                        IF pc[w] = "down" THEN sinceScan[w]
                        ELSE Older(sinceScan[w], ScanInterval)]
    /\ heldAge' = [w \in Workers |->
                      IF pc[w] \in Holding THEN Older(heldAge[w], MaxHeld) ELSE heldAge[w]]
    /\ UNCHANGED <<exists, marker, claimedBy, callVars, entries, first, lastDelivered,
                   pending, pc, inbox, current, scan, handled, orphaned, faults>>

WorkerStep(w) ==
    \/ Start(w) \/ Read(w) \/ ReadNothing(w)
    \/ StartScan(w) \/ Reclaim(w) \/ EndScan(w)
    \/ \E e \in inbox[w] : Discard(w, e) \/ Claim(w, e) \/ ClaimDenied(w, e)
    \/ Answer(w) \/ WriteResult(w) \/ ClearPheromone(w) \/ Release(w) \/ Ack(w)

WorkerFault(w) ==
    \/ Crash(w) \/ DispatchError(w) \/ ClearError(w)
    \/ \E e \in inbox[w] : ClaimError(w, e)

Next ==
    \/ \E n \in Nodes : Mark(n) \/ MarkError(n) \/ AddEvent(n) \/ AppendError(n) \/ DeleteNode(n)
    \/ \E w \in Workers : WorkerStep(w) \/ WorkerFault(w)
    \/ Tick

Spec == Init /\ [][Next]_vars

\* The event loop of each API process keeps running, a crashed process is
\* restarted, and time passes.  Faults are never forced.
LiveSpec == Spec /\ WF_vars(Tick) /\ \A w \in Workers : WF_vars(WorkerStep(w))

-----------------------------------------------------------------------------
(* Properties                                                              *)

Working(w) == pc[w] \in Holding
Trimmed(e) == e < first

\* The group still owes the event to somebody.
Open(e) == e > lastDelivered \/ pending[e] # NoWorker

\* While its lease runs, a worker is the only one of those whose lease runs to
\* work on the node: claim_node_for_agent is a compare-and-set, and a release by
\* a slower worker does not free the lease somebody else has taken since.
LeaseIsExclusive ==
    \A v, w \in Workers :
        v # w /\ Working(v) /\ Working(w) /\ Target(v) = Target(w) =>
            heldAge[v] > LeaseDuration \/ heldAge[w] > LeaseDuration

\* At least once: a delivered event leaves the pending list only after some
\* worker finished it and cleared the stamp, or because it was malformed, or
\* trimmed from the stream.  Crashes, denied claims, failed specialists and
\* lost replies leave it pending.
NothingLost ==
    \A e \in 1 .. lastDelivered :
        pending[e] = NoWorker =>
            e \in handled \/ ~entries[e].wellFormed \/ Trimmed(e)

\* A stamped node is never forgotten: a call is about to add its event, an event
\* for it is owed to a worker, or its event was never added or was trimmed.  The
\* stamp is cleared before the event is acknowledged, and set before it is added.
StampHasEvent ==
    \A n \in marker :
        \/ marking[n] > 0
        \/ n \in orphaned
        \/ \E e \in 1 .. Len(entries) :
               /\ NodeOf(e) = n
               /\ entries[e].wellFormed
               /\ Open(e) \/ (Trimmed(e) /\ e \notin handled)

\* Every event is finished and acknowledged in the end, if its node stays in the
\* graph and the stream keeps it, whichever worker crashes or fails with a lease
\* in its hands.
EveryEventHandled ==
    \A e \in EntryId :
        (e <= Len(entries)) ~>
            \/ ~Open(e)
            \/ Trimmed(e)
            \/ e \in DOMAIN entries /\ NodeOf(e) \notin exists

\* Claimed at swarm_listener.py:26: the lease ensures that only one worker
\* processes a node at a time, even under concurrent XAUTOCLAIM recovery.
GhostWorkFree ==
    \A v, w \in Workers :
        v # w /\ Working(v) /\ Working(w) => Target(v) # Target(w)
=============================================================================
