---------------------------- MODULE KafkaIngest ----------------------------
(***************************************************************************)
(* The asynchronous ingest path: KafkaProducerService appends raw-text     *)
(* events to the ingest topic, and the replicas of the worker process      *)
(* (KafkaConsumerService) consume them in micro-batches: collect, extract  *)
(* in parallel, write the good ones to Neo4j in one call, commit, and then *)
(* retry or dead-letter the failed ones one after the other.               *)
(*                                                                         *)
(* Source: backend/app/services/kafka_consumer.py, kafka_producer.py and   *)
(* GraphService.write_graph_batch.  The broker (offsets, assignment,       *)
(* generations) is external and is modelled as the consumer uses it.       *)
(***************************************************************************)
EXTENDS Integers, Sequences, FiniteSets

CONSTANTS
    Messages,            \* message_ids handed to produce_ingest_event
    Partitions,          \* partitions of the ingest topic
    PartitionOf,         \* partition a message's key (its agent_id) hashes to
    Workers,             \* static members of the consumer group
    BatchSize,           \* _BATCH_SIZE
    MaxRetries,          \* _MAX_RETRIES
    MaxProduceAttempts,  \* KafkaProducerService._max_retries
    MaxFaults            \* bound: infrastructure faults in one behaviour

ASSUME PartitionAssumption == PartitionOf \in [Messages -> Partitions]
ASSUME BoundAssumption ==
    /\ BatchSize \in Nat \ {0}
    /\ MaxRetries \in Nat \ {0}
    /\ MaxProduceAttempts \in Nat \ {0}
    /\ MaxFaults \in Nat

VARIABLES
    \* the producer
    attempts,   \* send_and_wait calls made for a message
    sent,       \* what produce_ingest_event told its caller
    \* the broker
    log,        \* the records of each partition
    committed,  \* the group's committed offset: records 1..committed are done
    owner,      \* the member each partition is assigned to
    dlq,        \* records on the dead-letter topic
    \* Neo4j
    graph,      \* which records' nodes, edges and agent bindings are stored
    \* each worker process
    pc, running, assigned, stale, position, batch, outcome, next, retries,
    \* history
    dropped,    \* records given up on after _DLQ_SEND_MAX_ATTEMPTS
    everFailed, \* records whose extraction or batch write failed once
    failures,   \* non-extraction failures seen per message
    rejected,   \* records for which ExtractionError was raised
    faults

producerVars == <<attempts, sent>>
brokerVars   == <<log, committed, owner, dlq>>
workerVars   == <<pc, running, assigned, stale, position, batch, outcome, next, retries>>
historyVars  == <<dropped, everFailed, failures, rejected, faults>>
vars == <<producerVars, brokerVars, graph, workerVars, historyVars>>

Record   == Partitions \X (Nat \ {0})
Outcome  == {"good", "extraction_failed", "error"}
Stage    == {"nodes", "edges", "bound"}
PcValues == {"down", "poll", "extract", "commit", "dlq", "dlqCommit"} \cup Stage

MessageAt(r) == log[r[1]][r[2]]

\* Records of w's batch with one of the outcomes in O.
BatchWith(w, O) == {batch[w][k] : k \in {j \in DOMAIN outcome[w] : outcome[w][j] \in O}}

\* Positions in the batch the DLQ loop still has to look at.
FailedFrom(w) == {k \in DOMAIN outcome[w] : k >= next[w] /\ outcome[w][k] # "good"}

Fault == faults < MaxFaults /\ faults' = faults + 1

TypeOK ==
    /\ attempts \in [Messages -> 0 .. MaxProduceAttempts]
    /\ sent \in [Messages -> {"pending", "ok", "raised"}]
    /\ log \in [Partitions -> Seq(Messages)]
    /\ committed \in [Partitions -> Nat]
    /\ owner \in [Partitions -> Workers]
    /\ dlq \subseteq Record
    /\ graph \in [Stage -> SUBSET Record]
    /\ pc \in [Workers -> PcValues]
    /\ running \in [Workers -> BOOLEAN]
    /\ assigned \in [Workers -> SUBSET Partitions]
    /\ stale \in [Workers -> BOOLEAN]
    /\ position \in [Workers -> [Partitions -> Nat]]
    /\ batch \in [Workers -> Seq(Record)]
    /\ outcome \in [Workers -> Seq(Outcome)]
    /\ next \in [Workers -> Nat]
    /\ retries \in [Workers -> [Messages -> Nat]]
    /\ dropped \subseteq Record
    /\ everFailed \subseteq Record
    /\ failures \in [Messages -> Nat]
    /\ rejected \subseteq Record
    /\ faults \in 0 .. MaxFaults

Init ==
    /\ attempts = [m \in Messages |-> 0]
    /\ sent = [m \in Messages |-> "pending"]
    /\ log = [p \in Partitions |-> <<>>]
    /\ committed = [p \in Partitions |-> 0]
    /\ owner \in [Partitions -> Workers]
    /\ dlq = {}
    /\ graph = [s \in Stage |-> {}]
    /\ pc = [w \in Workers |-> "down"]
    /\ running = [w \in Workers |-> FALSE]
    /\ assigned = [w \in Workers |-> {}]
    /\ stale = [w \in Workers |-> FALSE]
    /\ position = [w \in Workers |-> [p \in Partitions |-> 0]]
    /\ batch = [w \in Workers |-> <<>>]
    /\ outcome = [w \in Workers |-> <<>>]
    /\ next = [w \in Workers |-> 1]
    /\ retries = [w \in Workers |-> [m \in Messages |-> 0]]
    /\ dropped = {}
    /\ everFailed = {}
    /\ failures = [m \in Messages |-> 0]
    /\ rejected = {}
    /\ faults = 0

-----------------------------------------------------------------------------
(* produce_ingest_event: up to MaxProduceAttempts sends of one payload.  A *)
(* KafkaError can hide a write that did reach the log, so the retry may    *)
(* append the same message_id a second time.                               *)

Store(m) == log' = [log EXCEPT ![PartitionOf[m]] = Append(@, m)]

ProduceOk(m) ==
    /\ sent[m] = "pending"
    /\ Store(m)
    /\ attempts' = [attempts EXCEPT ![m] = @ + 1]
    /\ sent' = [sent EXCEPT ![m] = "ok"]
    /\ UNCHANGED <<committed, owner, dlq, graph, workerVars, historyVars>>

ProduceErrorUncapped(m) ==
    /\ sent[m] = "pending"
    /\ Store(m) \/ UNCHANGED log
    /\ attempts' = [attempts EXCEPT ![m] = @ + 1]
    /\ UNCHANGED <<sent, committed, owner, dlq, graph, workerVars, historyVars>>

ProduceError(m) ==
    /\ sent[m] = "pending"
    /\ Fault
    /\ Store(m) \/ UNCHANGED log
    /\ attempts' = [attempts EXCEPT ![m] = @ + 1]
    /\ sent' = [sent EXCEPT ![m] =
                   IF attempts[m] + 1 = MaxProduceAttempts THEN "raised" ELSE @]
    /\ UNCHANGED <<committed, owner, dlq, graph, workerVars,
                   dropped, everFailed, failures, rejected>>

-----------------------------------------------------------------------------
(* Group membership, as aiokafka does it for a static member.              *)

\* Where a member starts reading the partitions it is given: the committed
\* offsets, or the beginning of the partition when there is none.
ResumeAtBeginning == [p \in Partitions |-> 0]
ResumeAtEnd == [p \in Partitions |-> Len(log[p])]

ResumeAt == committed

\* Process start: connect, get the member's partitions back, resume at the
\* committed offsets ("earliest" when there is none) with empty retry counts.
Start(w) ==
    /\ pc[w] = "down"
    /\ pc' = [pc EXCEPT ![w] = "poll"]
    /\ running' = [running EXCEPT ![w] = TRUE]
    /\ assigned' = [assigned EXCEPT ![w] = {p \in Partitions : owner[p] = w}]
    /\ stale' = [stale EXCEPT ![w] = FALSE]
    /\ position' = [position EXCEPT ![w] = ResumeAt]
    /\ UNCHANGED <<producerVars, brokerVars, graph, batch, outcome, next,
                   retries, historyVars>>

\* What the process holds in memory is gone.
Forget(w) ==
    /\ pc' = [pc EXCEPT ![w] = "down"]
    /\ running' = [running EXCEPT ![w] = FALSE]
    /\ assigned' = [assigned EXCEPT ![w] = {}]
    /\ stale' = [stale EXCEPT ![w] = FALSE]
    /\ batch' = [batch EXCEPT ![w] = <<>>]
    /\ outcome' = [outcome EXCEPT ![w] = <<>>]
    /\ next' = [next EXCEPT ![w] = 1]
    /\ retries' = [retries EXCEPT ![w] = [m \in Messages |-> 0]]
    /\ UNCHANGED position

Crash(w) ==
    /\ pc[w] # "down"
    /\ Fault
    /\ Forget(w)
    /\ UNCHANGED <<producerVars, brokerVars, graph,
                   dropped, everFailed, failures, rejected>>

\* SIGTERM: stop() only clears the flag; the loop reads it between batches.
Stop(w) ==
    /\ running[w]
    /\ Fault
    /\ running' = [running EXCEPT ![w] = FALSE]
    /\ UNCHANGED <<producerVars, brokerVars, graph, pc, assigned, stale,
                   position, batch, outcome, next, retries,
                   dropped, everFailed, failures, rejected>>

Drained(w) ==
    /\ pc[w] = "poll"
    /\ batch[w] = <<>>
    /\ ~running[w]
    /\ Forget(w)
    /\ UNCHANGED <<producerVars, brokerVars, graph, historyVars>>

\* The coordinator reassigns partitions among the live members (a member
\* missed its session or poll deadline, joined, or came back) and starts a
\* new generation, which no member has joined yet.
Live == {w \in Workers : pc[w] # "down"}

Rebalance ==
    /\ Fault
    /\ owner' \in [Partitions -> Live]
    /\ stale' = [w \in Workers |-> pc[w] # "down"]
    /\ UNCHANGED <<producerVars, log, committed, dlq, graph, pc, running,
                   assigned, position, batch, outcome, next, retries,
                   dropped, everFailed, failures, rejected>>

\* aiokafka's background task joins the new generation at any point of the
\* loop: the assignment is replaced and every position starts from the
\* committed offset, while the batch in hand is untouched.
Rejoin(w) ==
    /\ stale[w]
    /\ stale' = [stale EXCEPT ![w] = FALSE]
    /\ assigned' = [assigned EXCEPT ![w] = {p \in Partitions : owner[p] = w}]
    /\ position' = [position EXCEPT ![w] = ResumeAt]
    /\ UNCHANGED <<producerVars, brokerVars, graph, pc, running, batch,
                   outcome, next, retries, historyVars>>

-----------------------------------------------------------------------------
(* _micro_batch_loop                                                       *)

\* Collect phase, one record of a getmany call.  The in-memory position moves
\* here, before anything is known of the record.
Poll(w) ==
    /\ pc[w] = "poll"
    /\ Len(batch[w]) < BatchSize
    /\ \E p \in assigned[w] :
        /\ position[w][p] < Len(log[p])
        /\ position' = [position EXCEPT ![w][p] = @ + 1]
        /\ batch' = [batch EXCEPT ![w] = Append(@, <<p, position[w][p] + 1>>)]
    /\ UNCHANGED <<producerVars, brokerVars, graph, pc, running, assigned,
                   stale, outcome, next, retries, historyVars>>

\* The window closes: deadline, batch full, nothing arriving, or a poll error.
Flush(w) ==
    /\ pc[w] = "poll"
    /\ batch[w] # <<>>
    /\ pc' = [pc EXCEPT ![w] = "extract"]
    /\ UNCHANGED <<producerVars, brokerVars, graph, running, assigned, stale,
                   position, batch, outcome, next, retries, historyVars>>

\* Process phase: gather(return_exceptions=True) over _extract_one.
Extract(w) ==
    /\ pc[w] = "extract"
    /\ \E o \in [1 .. Len(batch[w]) -> Outcome] :
        LET at(x) == {k \in DOMAIN o : o[k] = x}
        IN  /\ outcome' = [outcome EXCEPT ![w] = o]
            /\ pc' = [pc EXCEPT ![w] = IF at("good") # {} THEN "nodes" ELSE "dlq"]
            /\ everFailed' = everFailed \cup {batch[w][k] : k \in DOMAIN o \ at("good")}
            /\ rejected' = rejected \cup {batch[w][k] : k \in at("extraction_failed")}
            /\ failures' = [m \in Messages |->
                  failures[m] + Cardinality({k \in at("error") : MessageAt(batch[w][k]) = m})]
    /\ UNCHANGED <<producerVars, brokerVars, graph, running, assigned, stale,
                   position, batch, next, retries, dropped, faults>>

AfterStageUnbound == [nodes |-> "edges", edges |-> "commit", bound |-> "commit"]

AfterStage == [nodes |-> "edges", edges |-> "bound", bound |-> "commit"]

\* Write phase: write_graph_batch runs its node, edge and binding statements
\* one auto-committed query at a time.
WriteStage(w, s) ==
    /\ pc[w] = s
    /\ graph' = [graph EXCEPT ![s] = @ \cup BatchWith(w, {"good"})]
    /\ pc' = [pc EXCEPT ![w] = AfterStage[s]]
    /\ UNCHANGED <<producerVars, brokerVars, running, assigned, stale,
                   position, batch, outcome, next, retries, historyVars>>

\* A query raises: the batch write is abandoned without a commit and the loop
\* carries on with the failed messages.
WriteError(w) ==
    /\ pc[w] \in Stage
    /\ Fault
    /\ everFailed' = everFailed \cup BatchWith(w, {"good"})
    /\ pc' = [pc EXCEPT ![w] = "dlq"]
    /\ UNCHANGED <<producerVars, brokerVars, graph, running, assigned, stale,
                   position, batch, outcome, next, retries,
                   dropped, failures, rejected>>

\* consumer.commit() without arguments: the position of every assigned
\* partition, whatever the batch held.  A member of an old generation is
\* refused.
CommitPositions(w) ==
    /\ ~stale[w]
    /\ committed' = [p \in Partitions |->
                        IF p \in assigned[w] THEN position[w][p] ELSE committed[p]]

CommitRefused(w) == IF stale[w] THEN UNCHANGED faults ELSE Fault

CommitBatch(w) ==
    /\ pc[w] = "commit"
    /\ CommitPositions(w)
    /\ pc' = [pc EXCEPT ![w] = "dlq"]
    /\ UNCHANGED <<producerVars, log, owner, dlq, graph, running, assigned,
                   stale, position, batch, outcome, next, retries, historyVars>>

CommitBatchError(w) ==
    /\ pc[w] = "commit"
    /\ CommitRefused(w)
    /\ pc' = [pc EXCEPT ![w] = "dlq"]
    /\ UNCHANGED <<producerVars, brokerVars, graph, running, assigned, stale,
                   position, batch, outcome, next, retries,
                   dropped, everFailed, failures, rejected>>

-----------------------------------------------------------------------------
(* DLQ phase: the failed records in batch order                            *)

\* _send_to_dlq returns normally even when every attempt failed.
SendToDlq(r) ==
    \/ /\ dlq' = dlq \cup {r}
       /\ UNCHANGED <<dropped, faults>>
    \/ /\ Fault
       /\ dropped' = dropped \cup {r}
       /\ UNCHANGED dlq

\* The attempt being handled is the last one the message gets.
ExhaustedOneEarly(w, r) == retries[w][MessageAt(r)] + 2 >= MaxRetries

Exhausted(w, r) == retries[w][MessageAt(r)] + 1 >= MaxRetries

\* k is the next failed record; its handler ends in state pcAfter.
HandleFailed(w, k, pcAfter) ==
    /\ pc[w] = "dlq"
    /\ k \in FailedFrom(w)
    /\ \A j \in FailedFrom(w) : k <= j
    /\ next' = [next EXCEPT ![w] = k + 1]
    /\ pc' = [pc EXCEPT ![w] = pcAfter]
    /\ UNCHANGED <<producerVars, log, committed, owner, graph, running,
                   assigned, stale, position, batch, outcome,
                   everFailed, failures, rejected>>

RouteExtractionFailure(w, k) ==
    /\ HandleFailed(w, k, "dlqCommit")
    /\ outcome[w][k] = "extraction_failed"
    /\ SendToDlq(batch[w][k])
    /\ retries' = [retries EXCEPT ![w][MessageAt(batch[w][k])] = 0]

RouteExhausted(w, k) ==
    /\ HandleFailed(w, k, "dlqCommit")
    /\ outcome[w][k] = "error"
    /\ Exhausted(w, batch[w][k])
    /\ SendToDlq(batch[w][k])
    /\ retries' = [retries EXCEPT ![w][MessageAt(batch[w][k])] = 0]

\* Nothing is committed for this record, and nothing seeks back to it.
LeaveForRetry(w, k) ==
    /\ HandleFailed(w, k, "dlq")
    /\ outcome[w][k] = "error"
    /\ ~Exhausted(w, batch[w][k])
    /\ retries' = [retries EXCEPT ![w][MessageAt(batch[w][k])] = @ + 1]
    /\ UNCHANGED <<dlq, dropped, faults>>

CommitAfterDlq(w) ==
    /\ pc[w] = "dlqCommit"
    /\ CommitPositions(w)
    /\ pc' = [pc EXCEPT ![w] = "dlq"]
    /\ UNCHANGED <<producerVars, log, owner, dlq, graph, running, assigned,
                   stale, position, batch, outcome, next, retries, historyVars>>

\* This commit is outside any try: the loop dies and start() stops the worker.
CommitAfterDlqError(w) ==
    /\ pc[w] = "dlqCommit"
    /\ CommitRefused(w)
    /\ Forget(w)
    /\ UNCHANGED <<producerVars, brokerVars, graph,
                   dropped, everFailed, failures, rejected>>

EndBatch(w) ==
    /\ pc[w] = "dlq"
    /\ FailedFrom(w) = {}
    /\ pc' = [pc EXCEPT ![w] = "poll"]
    /\ batch' = [batch EXCEPT ![w] = <<>>]
    /\ outcome' = [outcome EXCEPT ![w] = <<>>]
    /\ next' = [next EXCEPT ![w] = 1]
    /\ UNCHANGED <<producerVars, brokerVars, graph, running, assigned, stale,
                   position, retries, historyVars>>

-----------------------------------------------------------------------------
\* What a worker does by itself while the infrastructure answers.
WorkerStep(w) ==
    \/ Start(w) \/ Drained(w) \/ Rejoin(w)
    \/ Poll(w) \/ Flush(w) \/ Extract(w)
    \/ \E s \in Stage : WriteStage(w, s)
    \/ CommitBatch(w) \/ CommitBatchError(w)
    \/ \E k \in DOMAIN outcome[w] :
           RouteExtractionFailure(w, k) \/ RouteExhausted(w, k) \/ LeaveForRetry(w, k)
    \/ CommitAfterDlq(w) \/ CommitAfterDlqError(w)
    \/ EndBatch(w)

Environment(w) == Crash(w) \/ Stop(w) \/ WriteError(w)

Next ==
    \/ \E m \in Messages : ProduceOk(m) \/ ProduceError(m)
    \/ \E w \in Workers : WorkerStep(w) \/ Environment(w)
    \/ Rebalance

Spec == Init /\ [][Next]_vars

\* Docker restarts a worker that exited (restart: unless-stopped), the event
\* loop keeps running a live one, and a rejoin is never put off for ever.
\* Only fault-free steps are fair; the faults themselves are bounded.
LiveSpec ==
    /\ Spec
    /\ \A w \in Workers : WF_vars(WorkerStep(w)) /\ WF_vars(Rejoin(w))

-----------------------------------------------------------------------------
(* Properties                                                              *)

Written(r)  == \A s \in Stage : r \in graph[s]
Settled(r)  == Written(r) \/ r \in dlq \/ r \in dropped
Appended(r) == r[2] \in 1 .. Len(log[r[1]])

MaxLog  == Cardinality(Messages) * MaxProduceAttempts
Records == Partitions \X (1 .. MaxLog)

\* The group never commits past a record that went through without a failure
\* before all of it (nodes, edges and agent binding) is in Neo4j: write_graph_batch
\* comes before commit(), and after a crash, a refused commit or a rebalance the
\* batch is fetched again.
CommittedWasWritten ==
    \A p \in Partitions : \A i \in 1 .. committed[p] :
        <<p, i>> \in everFailed \/ Written(<<p, i>>)

\* The committed offset of a partition never moves back, although two replicas
\* may hold batches of the same partition and both call commit() at the end.
CommitNeverRegresses ==
    [][\A p \in Partitions : committed'[p] >= committed[p]]_vars

\* Only hopeless records are dead-lettered or given up: extraction failed for
\* the record after the compressor's own retries, or MaxRetries other failures
\* of its message were seen.
DeadLetterEarned ==
    \A r \in dlq \cup dropped :
        r \in rejected \/ failures[MessageAt(r)] >= MaxRetries

\* Every record of the topic is eventually processed, to the graph or to a
\* failure, whatever crashes, rebalances and commit errors happen on the way.
EveryRecordProcessed ==
    \A r \in Records : Appended(r) ~> (Written(r) \/ r \in everFailed)

\* The replicas together behave like one careful reader of the topic: a record
\* is dealt with only after it was stored, the committed offset covers only what
\* was dealt with and never moves back.  Dealt with is what is in Neo4j with all
\* its parts, or has failed and is the business of the dead-letter phase.
Delivery == INSTANCE AtLeastOnce WITH
    done <- everFailed \cup (graph["nodes"] \cap graph["edges"] \cap graph["bound"])

DeliversAtLeastOnce == Delivery!Spec

\* Claimed by the comments at kafka_consumer.py:247 and :288: a failed record
\* is delivered again, so the group never moves past a record that is neither
\* stored, nor dead-lettered, nor reported lost.
NoRecordSkipped ==
    \A p \in Partitions : \A i \in 1 .. committed[p] : Settled(<<p, i>>)
=============================================================================
