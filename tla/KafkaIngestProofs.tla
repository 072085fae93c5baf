------------------------- MODULE KafkaIngestProofs -------------------------
(***************************************************************************)
(* Proofs about KafkaIngest, for any messages, partitions, workers, batch  *)
(* size, retry limits and number of faults: the type invariant, that the   *)
(* committed offset only covers records that were written or failed, that  *)
(* it never moves back, and that only hopeless records are dead-lettered.  *)
(*                                                                         *)
(* The argument rests on what a member that is not of an old generation    *)
(* knows about the partitions it is assigned: it is their only owner       *)
(* (Ownership), it has read at least as far as the group has committed     *)
(* (ReadAhead), and everything it has read is written, failed or still in  *)
(* its hands (Accounted).  A dead letter rests on a worker never counting  *)
(* more retries of a message than the message had failures, even with the  *)
(* errors of its batch that it has yet to count (RetriesCovered).          *)
(***************************************************************************)
EXTENDS KafkaIngest, FiniteSetTheorems, TLAPS

\* A message still being sent has an attempt left.
AttemptLeft ==
    \A m \in Messages : sent[m] = "pending" => attempts[m] < MaxProduceAttempts

\* A batch has outcomes exactly from its extraction to its end.
OutcomeShape ==
    \A w \in Workers :
        IF pc[w] \in {"down", "poll", "extract"}
        THEN outcome[w] = <<>>
        ELSE Len(outcome[w]) = Len(batch[w])

DownIsEmpty ==
    \A w \in Workers : pc[w] = "down" => ~stale[w] /\ assigned[w] = {}

Ownership ==
    \A w \in Workers : ~stale[w] => \A p \in assigned[w] : owner[p] = w

ReadAhead ==
    \A w \in Workers : ~stale[w] =>
        \A p \in assigned[w] : committed[p] <= position[w][p]

\* The stages of the batch write that are behind the worker.
StagesDoneAt(w) ==
    \A k \in DOMAIN outcome[w] : outcome[w][k] = "good" =>
        /\ pc[w] \in {"edges", "bound"} => batch[w][k] \in graph["nodes"]
        /\ pc[w] = "bound" => batch[w][k] \in graph["edges"]

StagesDone == \A w \in Workers : StagesDoneAt(w)

\* r is in w's batch and its fate is open.
InHand(w, r) ==
    \E k \in DOMAIN batch[w] :
        /\ batch[w][k] = r
        /\ \/ pc[w] \in {"poll", "extract"}
           \/ pc[w] \in Stage /\ outcome[w][k] = "good"

AccountedAt(w) ==
    ~stale[w] =>
        \A p \in assigned[w] : \A i \in 1 .. position[w][p] :
            <<p, i>> \in everFailed \/ Written(<<p, i>>) \/ InHand(w, <<p, i>>)

Accounted == \A w \in Workers : AccountedAt(w)

TypeInv == TypeOK /\ AttemptLeft /\ OutcomeShape

CommitInv ==
    /\ DownIsEmpty
    /\ Ownership
    /\ ReadAhead
    /\ StagesDone
    /\ Accounted
    /\ CommittedWasWritten

-----------------------------------------------------------------------------
(* Lemmas on the operators of the model                                    *)

\* Counting positions of a finite batch gives a natural number.
LEMMA CountIsNat ==
    ASSUME NEW n \in Nat, NEW S \in SUBSET (1 .. n)
    PROVE  Cardinality(S) \in Nat
<1>1. IsFiniteSet(1 .. n)
  BY FS_Interval
<1>2. IsFiniteSet(S)
  BY <1>1, FS_Subset
<1> QED
  BY <1>2, FS_CardinalityType

\* The outcomes of a batch form a sequence as long as the batch.
LEMMA OutcomesAreSeq ==
    ASSUME NEW n \in Nat, NEW o \in [1 .. n -> Outcome]
    PROVE  o \in Seq(Outcome) /\ Len(o) = n
  OBVIOUS

\* Resetting or advancing one of a worker's retry counters leaves counters,
\* whether or not the message has one.
LEMMA CountersUpdate ==
    ASSUME NEW c \in [Workers -> [Messages -> Nat]], NEW w \in Workers, NEW m
    PROVE  /\ [c EXCEPT ![w][m] = 0] \in [Workers -> [Messages -> Nat]]
           /\ [c EXCEPT ![w][m] = @ + 1] \in [Workers -> [Messages -> Nat]]
<1>1. CASE m \in Messages
  <2>1. c[w][m] + 1 \in Nat
    BY <1>1
  <2> QED
    BY <1>1, <2>1
<1>2. CASE m \notin Messages
  <2>1. [c[w] EXCEPT ![m] = 0] = c[w] /\ [c[w] EXCEPT ![m] = c[w][m] + 1] = c[w]
    BY <1>2
  <2> QED
    BY <2>1
<1> QED
  BY <1>1, <1>2

\* The records of a batch that have some outcome are records.
LEMMA BatchWithType ==
    ASSUME TypeInv, NEW w \in Workers, NEW O
    PROVE  BatchWith(w, O) \in SUBSET Record
<1>1. batch[w] \in Seq(Record) /\ outcome[w] \in Seq(Outcome)
  BY DEF TypeInv, TypeOK
<1>2. DOMAIN outcome[w] \subseteq DOMAIN batch[w]
  BY <1>1 DEF TypeInv, OutcomeShape
<1> QED
  BY <1>1, <1>2 DEF BatchWith

-----------------------------------------------------------------------------
(* Type correctness                                                        *)

LEMMA TypeInvInit == Init => TypeInv
<1> SUFFICES ASSUME Init PROVE TypeInv
  OBVIOUS
<1> USE BoundAssumption
<1>1. TypeOK
  BY DEF Init, TypeOK, PcValues
<1>2. AttemptLeft
  BY DEF Init, AttemptLeft
<1>3. OutcomeShape
  BY DEF Init, OutcomeShape
<1> QED
  BY <1>1, <1>2, <1>3 DEF TypeInv

LEMMA TypeInvStep == TypeInv /\ [Next]_vars => TypeInv'
<1> SUFFICES ASSUME TypeInv, [Next]_vars PROVE TypeInv'
  OBVIOUS
<1> USE PartitionAssumption, BoundAssumption
<1> USE DEF TypeInv, TypeOK, AttemptLeft, OutcomeShape, PcValues, Stage,
            producerVars, brokerVars, workerVars, historyVars
<1>1. ASSUME NEW m \in Messages, ProduceOk(m) PROVE TypeInv'
  BY <1>1 DEF ProduceOk, Store
<1>2. ASSUME NEW m \in Messages, ProduceError(m) PROVE TypeInv'
  <2>1. log' \in [Partitions -> Seq(Messages)]
    <3>1. CASE Store(m)
      BY <3>1 DEF Store
    <3>2. CASE UNCHANGED log
      BY <3>2
    <3> QED
      BY <1>2, <3>1, <3>2 DEF ProduceError
  <2>2. faults' \in 0 .. MaxFaults
    BY <1>2 DEF ProduceError, Fault
  <2>3. attempts[m] \in 0 .. MaxProduceAttempts - 1
    BY <1>2 DEF ProduceError
  <2>4. attempts' \in [Messages -> 0 .. MaxProduceAttempts]
    BY <1>2, <2>3 DEF ProduceError
  <2>5. sent' \in [Messages -> {"pending", "ok", "raised"}]
    BY <1>2 DEF ProduceError
  <2>6. AttemptLeft'
    <3> SUFFICES ASSUME NEW n \in Messages, sent'[n] = "pending"
                 PROVE  attempts'[n] < MaxProduceAttempts
      BY DEF AttemptLeft
    <3>1. CASE n = m
      <4>1. attempts[m] + 1 # MaxProduceAttempts
        <5>1. sent' = [sent EXCEPT ![m] =
                          IF attempts[m] + 1 = MaxProduceAttempts THEN "raised" ELSE @]
          BY <1>2 DEF ProduceError
        <5>2. sent'[m] = IF attempts[m] + 1 = MaxProduceAttempts THEN "raised" ELSE sent[m]
          BY <5>1
        <5> QED
          BY <5>2, <3>1
      <4>2. attempts'[n] = attempts[m] + 1
        BY <1>2, <3>1 DEF ProduceError
      <4> HIDE DEF TypeInv
      <4>3. attempts[m] + 1 < MaxProduceAttempts
        BY <2>3, <4>1
      <4> QED
        BY <4>2, <4>3
    <3>2. CASE n # m
      BY <1>2, <3>2 DEF ProduceError
    <3> QED
      BY <3>1, <3>2
  <2> QED
    BY <1>2, <2>1, <2>2, <2>4, <2>5, <2>6 DEF ProduceError
<1>3. ASSUME NEW w \in Workers, Start(w) PROVE TypeInv'
  BY <1>3 DEF Start, ResumeAt
<1>4. ASSUME NEW w \in Workers, Forget(w),
             UNCHANGED <<producerVars, brokerVars, graph, dropped, everFailed, failures, rejected>>,
             faults' \in 0 .. MaxFaults
      PROVE TypeInv'
  BY <1>4 DEF Forget
<1>5. ASSUME NEW w \in Workers, Crash(w) PROVE TypeInv'
  BY <1>4, <1>5 DEF Crash, Fault
<1>6. ASSUME NEW w \in Workers, Stop(w) PROVE TypeInv'
  BY <1>6 DEF Stop, Fault
<1>7. ASSUME NEW w \in Workers, Drained(w) PROVE TypeInv'
  BY <1>4, <1>7 DEF Drained
<1>8. ASSUME Rebalance PROVE TypeInv'
  BY <1>8 DEF Rebalance, Fault, Live
<1>9. ASSUME NEW w \in Workers, Rejoin(w) PROVE TypeInv'
  BY <1>9 DEF Rejoin, ResumeAt
<1>10. ASSUME NEW w \in Workers, Poll(w) PROVE TypeInv'
  <2>1. PICK p \in assigned[w] :
            /\ position' = [position EXCEPT ![w][p] = @ + 1]
            /\ batch' = [batch EXCEPT ![w] = Append(@, <<p, position[w][p] + 1>>)]
    BY <1>10 DEF Poll
  <2>2. p \in Partitions /\ position[w][p] \in Nat
    OBVIOUS
  <2>3. <<p, position[w][p] + 1>> \in Record
    BY <2>2 DEF Record
  <2>4. batch' \in [Workers -> Seq(Record)]
    BY <2>1, <2>3
  <2>5. position' \in [Workers -> [Partitions -> Nat]]
    BY <2>1, <2>2
  <2> QED
    BY <1>10, <2>4, <2>5, <2>1 DEF Poll
<1>11. ASSUME NEW w \in Workers, Flush(w) PROVE TypeInv'
  BY <1>11 DEF Flush
<1>12. ASSUME NEW w \in Workers, Extract(w) PROVE TypeInv'
  <2>1. PICK o \in [1 .. Len(batch[w]) -> Outcome] :
            LET at(x) == {k \in DOMAIN o : o[k] = x}
            IN  /\ outcome' = [outcome EXCEPT ![w] = o]
                /\ pc' = [pc EXCEPT ![w] = IF at("good") # {} THEN "nodes" ELSE "dlq"]
                /\ everFailed' = everFailed \cup {batch[w][k] : k \in DOMAIN o \ at("good")}
                /\ rejected' = rejected \cup {batch[w][k] : k \in at("extraction_failed")}
                /\ failures' = [m \in Messages |->
                      failures[m] + Cardinality({k \in at("error") : MessageAt(batch[w][k]) = m})]
    BY <1>12 DEF Extract
  <2>2. batch[w] \in Seq(Record) /\ Len(batch[w]) \in Nat
    OBVIOUS
  <2>3. o \in Seq(Outcome) /\ Len(o) = Len(batch[w])
    BY <2>2, OutcomesAreSeq
  <2>4. outcome' \in [Workers -> Seq(Outcome)] /\ OutcomeShape'
    BY <1>12, <2>1, <2>3 DEF Extract
  <2>5. everFailed' \subseteq Record /\ rejected' \subseteq Record
    BY <2>1, <2>2
  <2>6. failures' \in [Messages -> Nat]
    <3> DEFINE c(m) == Cardinality({k \in {j \in DOMAIN o : o[j] = "error"} :
                                      MessageAt(batch[w][k]) = m})
    <3>1. ASSUME NEW m \in Messages PROVE c(m) \in Nat
      BY <2>2, CountIsNat
    <3>2. failures' = [m \in Messages |-> failures[m] + c(m)]
      BY <2>1, Zenon
    <3> HIDE DEF c
    <3>3. ASSUME NEW m \in Messages PROVE failures[m] + c(m) \in Nat
      BY <3>1
    <3> QED
      BY <3>2, <3>3, Zenon
  <2> QED
    BY <1>12, <2>1, <2>4, <2>5, <2>6 DEF Extract
<1>13. ASSUME NEW w \in Workers, NEW s \in Stage, WriteStage(w, s) PROVE TypeInv'
  <2>1. BatchWith(w, {"good"}) \in SUBSET Record
    BY BatchWithType
  <2>2. graph' \in [Stage -> SUBSET Record]
    BY <1>13, <2>1 DEF WriteStage
  <2>3. pc' \in [Workers -> PcValues] /\ OutcomeShape'
    BY <1>13 DEF WriteStage, AfterStage
  <2> QED
    BY <1>13, <2>2, <2>3 DEF WriteStage
<1>14. ASSUME NEW w \in Workers, WriteError(w) PROVE TypeInv'
  <2>1. everFailed' \subseteq Record
    BY <1>14, BatchWithType DEF WriteError
  <2> QED
    BY <1>14, <2>1 DEF WriteError, Fault
<1>15. ASSUME NEW w \in Workers, CommitBatch(w) \/ CommitAfterDlq(w) PROVE TypeInv'
  <2>1. committed' \in [Partitions -> Nat]
    <3>1. ASSUME NEW p \in Partitions
          PROVE  (IF p \in assigned[w] THEN position[w][p] ELSE committed[p]) \in Nat
      OBVIOUS
    <3>2. committed' = [p \in Partitions |->
                           IF p \in assigned[w] THEN position[w][p] ELSE committed[p]]
      BY <1>15 DEF CommitBatch, CommitAfterDlq, CommitPositions
    <3> QED
      BY <3>1, <3>2, Zenon
  <2>2. pc' \in [Workers -> PcValues] /\ OutcomeShape'
    BY <1>15 DEF CommitBatch, CommitAfterDlq
  <2> QED
    BY <1>15, <2>1, <2>2 DEF CommitBatch, CommitAfterDlq
<1>16. ASSUME NEW w \in Workers, CommitBatchError(w) PROVE TypeInv'
  BY <1>16 DEF CommitBatchError, CommitRefused, Fault
<1>17. ASSUME NEW w \in Workers, CommitAfterDlqError(w) PROVE TypeInv'
  <2>1. faults' \in 0 .. MaxFaults
    BY <1>17 DEF CommitAfterDlqError, CommitRefused, Fault
  <2> QED
    BY <1>4, <1>17, <2>1 DEF CommitAfterDlqError
<1>18. ASSUME NEW w \in Workers, NEW k \in DOMAIN outcome[w],
              RouteExtractionFailure(w, k) \/ RouteExhausted(w, k) \/ LeaveForRetry(w, k)
       PROVE TypeInv'
  <2> DEFINE r == batch[w][k]
  <2>1. k \in Nat /\ r \in Record
    BY <1>18 DEF RouteExtractionFailure, RouteExhausted, LeaveForRetry, HandleFailed
  <2>2. PICK pcAfter \in {"dlq", "dlqCommit"} : HandleFailed(w, k, pcAfter)
    BY <1>18 DEF RouteExtractionFailure, RouteExhausted, LeaveForRetry
  <2>3. retries' \in [Workers -> [Messages -> Nat]]
    <3>1. CASE RouteExtractionFailure(w, k) \/ RouteExhausted(w, k)
      <4>1. retries' = [retries EXCEPT ![w][MessageAt(r)] = 0]
        BY <3>1 DEF RouteExtractionFailure, RouteExhausted
      <4> QED
        BY <4>1, CountersUpdate
    <3>2. CASE LeaveForRetry(w, k)
      <4>1. retries' = [retries EXCEPT ![w][MessageAt(r)] = @ + 1]
        BY <3>2 DEF LeaveForRetry
      <4> QED
        BY <4>1, CountersUpdate
    <3> QED
      BY <1>18, <3>1, <3>2
  <2>4. dlq' \subseteq Record /\ dropped' \subseteq Record /\ faults' \in 0 .. MaxFaults
    BY <1>18, <2>1
    DEF RouteExtractionFailure, RouteExhausted, LeaveForRetry, SendToDlq, Fault
  <2>5. next' \in [Workers -> Nat] /\ pc' \in [Workers -> PcValues] /\ OutcomeShape'
    BY <2>1, <2>2 DEF HandleFailed
  <2> QED
    BY <2>2, <2>3, <2>4, <2>5 DEF HandleFailed
<1>19. ASSUME NEW w \in Workers, EndBatch(w) PROVE TypeInv'
  BY <1>19 DEF EndBatch
<1>20. CASE UNCHANGED vars
  BY <1>20 DEF vars
<1> HIDE DEF TypeInv, TypeOK, AttemptLeft, OutcomeShape
<1> QED
  BY <1>1, <1>2, <1>3, <1>5, <1>6, <1>7, <1>8, <1>9, <1>10, <1>11, <1>12, <1>13,
     <1>14, <1>15, <1>16, <1>17, <1>18, <1>19, <1>20
  DEF Next, WorkerStep, Environment

\* Type correctness of every behaviour of the ingest path: see TypeOK.
THEOREM TypeCorrect == Spec => []TypeOK
<1>1. TypeInv => TypeOK
  BY DEF TypeInv
<1> QED
  BY <1>1, TypeInvInit, TypeInvStep, PTL DEF Spec

-----------------------------------------------------------------------------
(* The committed offsets                                                   *)

\* A worker a step does not touch keeps its account: what is written or has
\* failed stays so.
LEMMA AccountFrame ==
    ASSUME NEW v \in Workers, AccountedAt(v), StagesDoneAt(v),
           stale'[v] = stale[v], assigned'[v] = assigned[v],
           position'[v] = position[v], batch'[v] = batch[v],
           outcome'[v] = outcome[v], pc'[v] = pc[v],
           everFailed \subseteq everFailed',
           \A s \in Stage : graph[s] \subseteq graph'[s]
    PROVE  AccountedAt(v)' /\ StagesDoneAt(v)'
<1>1. \A r : InHand(v, r)' <=> InHand(v, r)
  BY DEF InHand
<1>2. \A r : Written(r) => Written(r)'
  BY DEF Written
<1>3. AccountedAt(v)'
  BY <1>1, <1>2 DEF AccountedAt
<1>4. StagesDoneAt(v)'
  BY DEF StagesDoneAt, Stage
<1> QED
  BY <1>3, <1>4

\* The committed part of a partition stays written when nothing is committed.
LEMMA CommittedFrame ==
    ASSUME CommittedWasWritten, UNCHANGED committed,
           everFailed \subseteq everFailed',
           \A s \in Stage : graph[s] \subseteq graph'[s]
    PROVE  CommittedWasWritten'
  BY DEF CommittedWasWritten, Written

\* A member that starts from the committed offsets accounts for all it has
\* read: the group committed only what was written or failed.
LEMMA AccountAtCommitted ==
    ASSUME NEW w \in Workers, CommittedWasWritten,
           assigned'[w] \subseteq Partitions, position'[w] = committed,
           UNCHANGED <<everFailed, graph>>
    PROVE  AccountedAt(w)'
  BY DEF CommittedWasWritten, AccountedAt, Written

LEMMA CommitInvInit == Init => CommitInv
<1> SUFFICES ASSUME Init PROVE CommitInv
  OBVIOUS
<1>1. DownIsEmpty /\ Ownership /\ ReadAhead
  BY DEF Init, DownIsEmpty, Ownership, ReadAhead
<1>2. StagesDone
  BY DEF Init, StagesDone, StagesDoneAt
<1>3. Accounted
  BY DEF Init, Accounted, AccountedAt
<1>4. CommittedWasWritten
  BY DEF Init, CommittedWasWritten
<1> QED
  BY <1>1, <1>2, <1>3, <1>4 DEF CommitInv

\* Steps that leave the log of writes, the offsets and the group alone.
LEMMA CommitInvQuiet ==
    ASSUME CommitInv,
           UNCHANGED <<committed, owner, graph, pc, assigned, stale, position,
                       batch, outcome, everFailed>>
    PROVE  CommitInv'
  BY DEF CommitInv, DownIsEmpty, Ownership, ReadAhead, StagesDone, StagesDoneAt,
         Accounted, AccountedAt, InHand, CommittedWasWritten, Written

\* Joining the group, at process start or in a new generation.
LEMMA CommitInvJoin ==
    ASSUME TypeInv, CommitInv, NEW w \in Workers, Start(w) \/ Rejoin(w)
    PROVE  CommitInv'
<1> USE DEF brokerVars, historyVars
<1>1. /\ assigned' = [assigned EXCEPT ![w] = {p \in Partitions : owner[p] = w}]
      /\ stale' = [stale EXCEPT ![w] = FALSE]
      /\ position' = [position EXCEPT ![w] = committed]
      /\ UNCHANGED <<committed, owner, graph, batch, outcome, everFailed>>
  BY DEF Start, Rejoin, ResumeAt
<1>2. /\ pc \in [Workers -> PcValues] /\ assigned \in [Workers -> SUBSET Partitions]
      /\ stale \in [Workers -> BOOLEAN] /\ committed \in [Partitions -> Nat]
      /\ position \in [Workers -> [Partitions -> Nat]]
  BY DEF TypeInv, TypeOK
<1>2a. pc'[w] # "down" /\ \A v \in Workers : v # w => pc'[v] = pc[v]
  <2>1. CASE Start(w)
    BY <2>1, <1>2 DEF Start
  <2>2. CASE Rejoin(w)
    BY <2>2 DEF Rejoin, CommitInv, DownIsEmpty
  <2> QED
    BY <2>1, <2>2
<1>3. DownIsEmpty'
  BY <1>1, <1>2, <1>2a DEF CommitInv, DownIsEmpty
<1>4. Ownership'
  BY <1>1, <1>2 DEF CommitInv, Ownership
<1>5. ReadAhead'
  BY <1>1, <1>2 DEF CommitInv, ReadAhead
<1>6. StagesDone' /\ Accounted'
  <2>1. ASSUME NEW v \in Workers, v # w PROVE AccountedAt(v)' /\ StagesDoneAt(v)'
    BY <2>1, <1>1, <1>2, <1>2a, AccountFrame DEF CommitInv, Accounted, StagesDone
  <2>2. AccountedAt(w)'
    BY <1>1, <1>2, AccountAtCommitted DEF CommitInv
  <2>3. StagesDoneAt(w)'
    <3>1. CASE Rejoin(w)
      BY <3>1 DEF Rejoin, workerVars, CommitInv, StagesDone, StagesDoneAt
    <3>2. CASE Start(w)
      BY <3>2, <1>1, <1>2 DEF Start, StagesDoneAt
    <3> QED
      BY <3>1, <3>2
  <2> QED
    BY <2>1, <2>2, <2>3 DEF Accounted, StagesDone
<1>7. CommittedWasWritten'
  BY <1>1, CommittedFrame DEF CommitInv
<1> QED
  BY <1>3, <1>4, <1>5, <1>6, <1>7 DEF CommitInv

\* Losing the process: the member holds nothing and is assigned nothing.
LEMMA CommitInvForget ==
    ASSUME TypeInv, CommitInv, NEW w \in Workers, Forget(w),
           UNCHANGED <<committed, owner, graph, everFailed>>
    PROVE  CommitInv'
<1>1. /\ pc \in [Workers -> PcValues] /\ assigned \in [Workers -> SUBSET Partitions]
      /\ stale \in [Workers -> BOOLEAN] /\ batch \in [Workers -> Seq(Record)]
      /\ outcome \in [Workers -> Seq(Outcome)]
  BY DEF TypeInv, TypeOK
<1>2. DownIsEmpty' /\ Ownership' /\ ReadAhead'
  BY <1>1 DEF CommitInv, DownIsEmpty, Ownership, ReadAhead, Forget
<1>3. StagesDone' /\ Accounted'
  <2>1. ASSUME NEW v \in Workers, v # w PROVE AccountedAt(v)' /\ StagesDoneAt(v)'
    BY <2>1, <1>1, AccountFrame DEF CommitInv, Accounted, StagesDone, Forget
  <2>2. AccountedAt(w)' /\ StagesDoneAt(w)'
    BY <1>1 DEF Forget, AccountedAt, StagesDoneAt
  <2> QED
    BY <2>1, <2>2 DEF Accounted, StagesDone
<1>4. CommittedWasWritten'
  BY CommittedFrame DEF CommitInv
<1> QED
  BY <1>2, <1>3, <1>4 DEF CommitInv

\* A new generation: until it joins, no live member can commit.
LEMMA CommitInvRebalance ==
    ASSUME TypeInv, CommitInv, Rebalance
    PROVE  CommitInv'
<1>1. /\ stale' = [v \in Workers |-> pc[v] # "down"]
      /\ UNCHANGED <<committed, graph, pc, assigned, position, batch, outcome, everFailed>>
  BY DEF Rebalance
<1>2. \A v \in Workers : ~stale'[v] => assigned[v] = {}
  BY <1>1 DEF CommitInv, DownIsEmpty
<1>3. DownIsEmpty' /\ Ownership' /\ ReadAhead'
  BY <1>1, <1>2 DEF CommitInv, DownIsEmpty, Ownership, ReadAhead
<1>4. Accounted'
  BY <1>1, <1>2 DEF Accounted, AccountedAt
<1>5. StagesDone'
  BY <1>1 DEF CommitInv, StagesDone, StagesDoneAt
<1>6. CommittedWasWritten'
  BY <1>1, CommittedFrame DEF CommitInv
<1> QED
  BY <1>3, <1>4, <1>5, <1>6 DEF CommitInv

\* A fetched record is in the worker's hands.
LEMMA CommitInvPoll ==
    ASSUME TypeInv, CommitInv, NEW w \in Workers, Poll(w)
    PROVE  CommitInv'
<1> USE DEF brokerVars, historyVars
<1>1. PICK p \in assigned[w] :
          /\ position' = [position EXCEPT ![w][p] = @ + 1]
          /\ batch' = [batch EXCEPT ![w] = Append(@, <<p, position[w][p] + 1>>)]
  BY DEF Poll
<1>2. /\ pc[w] = "poll"
      /\ UNCHANGED <<committed, owner, graph, pc, assigned, stale, outcome, everFailed>>
  BY DEF Poll
<1>3. /\ assigned[w] \subseteq Partitions /\ position \in [Workers -> [Partitions -> Nat]]
      /\ batch \in [Workers -> Seq(Record)] /\ committed \in [Partitions -> Nat]
      /\ p \in Partitions /\ <<p, position[w][p] + 1>> \in Record
  BY DEF TypeInv, TypeOK, Record
<1>4. DownIsEmpty' /\ Ownership'
  BY <1>2 DEF CommitInv, DownIsEmpty, Ownership
<1>5. \A v \in Workers, q \in Partitions : position[v][q] <= position'[v][q]
  BY <1>1, <1>3
<1>6. ReadAhead'
  <2> SUFFICES ASSUME NEW v \in Workers, ~stale[v], NEW q \in assigned[v]
               PROVE  committed[q] <= position'[v][q]
    BY <1>2 DEF ReadAhead
  <2>1. q \in Partitions
    BY DEF TypeInv, TypeOK
  <2>2. committed[q] <= position[v][q]
    BY DEF CommitInv, ReadAhead
  <2>3. position'[v][q] \in Nat
    BY <1>1, <1>3, <2>1
  <2> QED
    BY <1>3, <1>5, <2>1, <2>2, <2>3
<1>7. Accounted' /\ StagesDone'
  <2>1. ASSUME NEW v \in Workers, v # w PROVE AccountedAt(v)' /\ StagesDoneAt(v)'
    BY <2>1, <1>1, <1>2, <1>3, AccountFrame DEF CommitInv, Accounted, StagesDone
  <2>2. StagesDoneAt(w)'
    BY <1>2 DEF TypeInv, OutcomeShape, StagesDoneAt
  <2>3. AccountedAt(w)'
    <3> SUFFICES ASSUME ~stale[w], NEW q \in assigned[w], NEW i \in 1 .. position'[w][q]
                 PROVE  <<q, i>> \in everFailed \/ Written(<<q, i>>) \/ InHand(w, <<q, i>>)'
      BY <1>2 DEF AccountedAt, Written
    <3>1. batch'[w] = Append(batch[w], <<p, position[w][p] + 1>>) /\ pc'[w] = "poll"
      BY <1>1, <1>2, <1>3
    <3>2. CASE q = p /\ i = position[w][p] + 1
      <4>1. Len(batch[w]) + 1 \in DOMAIN batch'[w]
        BY <1>3, <3>1
      <4>2. batch'[w][Len(batch[w]) + 1] = <<q, i>>
        BY <1>3, <3>1, <3>2
      <4> QED
        BY <3>1, <4>1, <4>2 DEF InHand
    <3>3. CASE ~(q = p /\ i = position[w][p] + 1)
      <4>1. i \in 1 .. position[w][q]
        BY <1>1, <1>3, <3>3
      <4>2. <<q, i>> \in everFailed \/ Written(<<q, i>>) \/ InHand(w, <<q, i>>)
        BY <4>1 DEF CommitInv, Accounted, AccountedAt
      <4>3. \A k \in DOMAIN batch[w] : k \in DOMAIN batch'[w] /\ batch'[w][k] = batch[w][k]
        BY <1>3, <3>1
      <4>4. InHand(w, <<q, i>>) => InHand(w, <<q, i>>)'
        BY <1>2, <4>3 DEF InHand
      <4> QED
        BY <4>2, <4>4
    <3> QED
      BY <3>2, <3>3
  <2> QED
    BY <2>1, <2>2, <2>3 DEF Accounted, StagesDone
<1>8. CommittedWasWritten'
  BY <1>2, CommittedFrame DEF CommitInv
<1> QED
  BY <1>4, <1>6, <1>7, <1>8 DEF CommitInv

\* A step of the batch towards its end: the worker's own records are settled
\* by what the step stores (graph) or records (everFailed), the others' and
\* the group's offsets are untouched.
LEMMA CommitInvBatchStep ==
    ASSUME TypeInv, CommitInv, NEW w \in Workers,
           UNCHANGED <<committed, owner, assigned, stale, position, batch>>,
           pc[w] # "down", pc'[w] # "down",
           \A v \in Workers : v # w => pc'[v] = pc[v] /\ outcome'[v] = outcome[v],
           everFailed \subseteq everFailed',
           \A s \in Stage : graph[s] \subseteq graph'[s],
           StagesDoneAt(w)',
           \A r : InHand(w, r) => InHand(w, r)' \/ r \in everFailed' \/ Written(r)'
    PROVE  CommitInv'
<1>1. DownIsEmpty' /\ Ownership' /\ ReadAhead'
  BY DEF CommitInv, DownIsEmpty, Ownership, ReadAhead
<1>2. ASSUME NEW v \in Workers, v # w PROVE AccountedAt(v)' /\ StagesDoneAt(v)'
  BY <1>2, AccountFrame DEF CommitInv, Accounted, StagesDone
<1>3. AccountedAt(w)'
  <2>1. \A r : Written(r) => Written(r)'
    BY DEF Written
  <2> QED
    BY <2>1 DEF CommitInv, Accounted, AccountedAt
<1>4. CommittedWasWritten'
  BY CommittedFrame DEF CommitInv
<1> QED
  BY <1>1, <1>2, <1>3, <1>4 DEF CommitInv, Accounted, StagesDone

\* The window closes.
LEMMA CommitInvFlush ==
    ASSUME TypeInv, CommitInv, NEW w \in Workers, Flush(w)
    PROVE  CommitInv'
<1> USE DEF brokerVars, historyVars
<1>1. /\ pc[w] = "poll" /\ pc' = [pc EXCEPT ![w] = "extract"] /\ pc \in [Workers -> PcValues]
      /\ UNCHANGED <<committed, owner, graph, assigned, stale, position, batch, outcome, everFailed>>
  BY DEF Flush, TypeInv, TypeOK
<1>2. StagesDoneAt(w)'
  BY <1>1 DEF StagesDoneAt
<1>3. \A r : InHand(w, r) => InHand(w, r)'
  BY <1>1 DEF InHand
<1> QED
  BY <1>1, <1>2, <1>3, CommitInvBatchStep

\* Extraction: a record of the batch is good, or it has failed.
LEMMA CommitInvExtract ==
    ASSUME TypeInv, CommitInv, NEW w \in Workers, Extract(w)
    PROVE  CommitInv'
<1> USE DEF brokerVars
<1>1. PICK o \in [1 .. Len(batch[w]) -> Outcome] :
          LET at(x) == {k \in DOMAIN o : o[k] = x}
          IN  /\ outcome' = [outcome EXCEPT ![w] = o]
              /\ pc' = [pc EXCEPT ![w] = IF at("good") # {} THEN "nodes" ELSE "dlq"]
              /\ everFailed' = everFailed \cup {batch[w][k] : k \in DOMAIN o \ at("good")}
  BY DEF Extract
<1>2. /\ pc[w] = "extract"
      /\ UNCHANGED <<committed, owner, graph, assigned, stale, position, batch>>
      /\ pc \in [Workers -> PcValues] /\ outcome \in [Workers -> Seq(Outcome)]
      /\ batch[w] \in Seq(Record)
  BY DEF Extract, TypeInv, TypeOK
<1>3. pc'[w] \in {"nodes", "dlq"} /\ outcome'[w] = o
  BY <1>1, <1>2
<1>4. StagesDoneAt(w)'
  BY <1>3 DEF StagesDoneAt
<1>5. ASSUME NEW r, InHand(w, r) PROVE InHand(w, r)' \/ r \in everFailed'
  <2>1. PICK k \in DOMAIN batch[w] : batch[w][k] = r
    BY <1>5 DEF InHand
  <2>2. k \in DOMAIN o
    BY <1>2, <2>1
  <2>3. CASE o[k] = "good"
    <3>1. pc'[w] = "nodes"
      BY <1>1, <1>2, <2>2, <2>3
    <3> QED
      BY <1>2, <1>3, <2>1, <2>3, <3>1 DEF InHand, Stage
  <2>4. CASE o[k] # "good"
    BY <1>1, <2>1, <2>2, <2>4
  <2> QED
    BY <2>3, <2>4
<1> QED
  BY <1>1, <1>2, <1>3, <1>4, <1>5, CommitInvBatchStep

\* One statement of the batch write; after the last one the good records of
\* the batch are written.
LEMMA CommitInvWriteStage ==
    ASSUME TypeInv, CommitInv, NEW w \in Workers, NEW s \in Stage, WriteStage(w, s)
    PROVE  CommitInv'
<1> USE DEF brokerVars, historyVars
<1>1. /\ pc[w] = s /\ pc' = [pc EXCEPT ![w] = AfterStage[s]]
      /\ graph' = [graph EXCEPT ![s] = @ \cup BatchWith(w, {"good"})]
      /\ UNCHANGED <<committed, owner, assigned, stale, position, batch, outcome, everFailed>>
      /\ pc \in [Workers -> PcValues] /\ graph \in [Stage -> SUBSET Record]
  BY DEF WriteStage, TypeInv, TypeOK
<1>2. \A q \in Stage : graph[q] \subseteq graph'[q]
  BY <1>1
<1>3. \A k \in DOMAIN outcome[w] : outcome[w][k] = "good" => batch[w][k] \in graph'[s]
  BY <1>1 DEF BatchWith
<1>4. StagesDoneAt(w)
  BY DEF CommitInv, StagesDone
<1>5. \A k \in DOMAIN outcome[w] : outcome[w][k] = "good" =>
          /\ batch[w][k] \in graph'["nodes"]
          /\ s # "nodes" => batch[w][k] \in graph'["edges"]
          /\ s = "bound" => \A q \in Stage : batch[w][k] \in graph'[q]
  BY <1>1, <1>2, <1>3, <1>4 DEF StagesDoneAt, Stage
<1>6. pc'[w] = AfterStage[s]
  BY <1>1
<1>7. StagesDoneAt(w)'
  <2>1. (pc'[w] = "bound" => s # "nodes") /\ outcome'[w] = outcome[w] /\ batch'[w] = batch[w]
    BY <1>1, <1>6 DEF AfterStage, Stage
  <2> QED
    BY <1>5, <2>1 DEF StagesDoneAt
<1>8. ASSUME NEW r, InHand(w, r) PROVE InHand(w, r)' \/ Written(r)'
  <2>1. PICK k \in DOMAIN batch[w] : batch[w][k] = r /\ outcome[w][k] = "good"
    BY <1>1, <1>8 DEF InHand, Stage
  <2>2. k \in DOMAIN outcome[w]
    <3>1. Len(outcome[w]) = Len(batch[w])
      BY <1>1 DEF TypeInv, OutcomeShape, Stage
    <3> QED
      BY <3>1 DEF TypeInv, TypeOK
  <2>3. CASE s = "bound"
    BY <1>5, <2>1, <2>2, <2>3 DEF Written
  <2>4. CASE s # "bound"
    <3>1. pc'[w] \in Stage
      BY <1>6, <2>4 DEF AfterStage, Stage
    <3> QED
      BY <1>1, <2>1, <3>1 DEF InHand
  <2> QED
    BY <2>3, <2>4
<1>9. pc[w] # "down" /\ pc'[w] # "down"
  BY <1>1, <1>6 DEF Stage, AfterStage
<1> QED
  BY <1>1, <1>2, <1>7, <1>8, <1>9, CommitInvBatchStep

\* The write is abandoned: its records have failed.
LEMMA CommitInvWriteError ==
    ASSUME TypeInv, CommitInv, NEW w \in Workers, WriteError(w)
    PROVE  CommitInv'
<1> USE DEF brokerVars
<1>1. /\ pc[w] \in Stage /\ pc' = [pc EXCEPT ![w] = "dlq"]
      /\ everFailed' = everFailed \cup BatchWith(w, {"good"})
      /\ UNCHANGED <<committed, owner, graph, assigned, stale, position, batch, outcome>>
      /\ pc \in [Workers -> PcValues]
  BY DEF WriteError, TypeInv, TypeOK
<1>2. pc'[w] = "dlq" /\ pc[w] # "down" /\ pc[w] \notin {"poll", "extract"}
  BY <1>1 DEF Stage
<1>3. StagesDoneAt(w)'
  BY <1>2 DEF StagesDoneAt
<1>4. ASSUME NEW r, InHand(w, r) PROVE r \in everFailed'
  <2>1. PICK k \in DOMAIN batch[w] : batch[w][k] = r /\ outcome[w][k] = "good"
    BY <1>2, <1>4 DEF InHand
  <2>2. Len(outcome[w]) = Len(batch[w])
    BY <1>1 DEF TypeInv, OutcomeShape, Stage
  <2>3. k \in DOMAIN outcome[w]
    BY <2>2 DEF TypeInv, TypeOK
  <2> QED
    BY <1>1, <2>1, <2>3 DEF BatchWith
<1> QED
  BY <1>1, <1>2, <1>3, <1>4, CommitInvBatchStep

\* Commits, refused commits and dead-letter handling happen when no record of
\* the batch is in hand any more.
LEMMA CommitInvSettled ==
    ASSUME TypeInv, CommitInv, NEW w \in Workers,
           pc[w] \in {"commit", "dlq", "dlqCommit"},
           NEW pcAfter \in {"dlq", "dlqCommit"},
           pc' = [pc EXCEPT ![w] = pcAfter],
           UNCHANGED <<committed, owner, graph, assigned, stale, position, batch, outcome, everFailed>>
    PROVE  CommitInv'
<1>1. pc \in [Workers -> PcValues] /\ pc'[w] = pcAfter
  BY DEF TypeInv, TypeOK
<1>2. StagesDoneAt(w)'
  BY <1>1 DEF StagesDoneAt
<1>3. \A r : ~InHand(w, r)
  BY DEF InHand, Stage
<1> QED
  BY <1>1, <1>2, <1>3, CommitInvBatchStep

LEMMA CommitInvEndBatch ==
    ASSUME TypeInv, CommitInv, NEW w \in Workers, EndBatch(w)
    PROVE  CommitInv'
<1> USE DEF brokerVars, historyVars
<1>1. /\ pc[w] = "dlq" /\ pc' = [pc EXCEPT ![w] = "poll"]
      /\ batch' = [batch EXCEPT ![w] = <<>>] /\ outcome' = [outcome EXCEPT ![w] = <<>>]
      /\ UNCHANGED <<committed, owner, graph, assigned, stale, position, everFailed>>
      /\ pc \in [Workers -> PcValues] /\ batch \in [Workers -> Seq(Record)]
      /\ outcome \in [Workers -> Seq(Outcome)]
  BY DEF EndBatch, TypeInv, TypeOK
<1>2. DownIsEmpty' /\ Ownership' /\ ReadAhead'
  BY <1>1 DEF CommitInv, DownIsEmpty, Ownership, ReadAhead
<1>3. ASSUME NEW v \in Workers, v # w PROVE AccountedAt(v)' /\ StagesDoneAt(v)'
  BY <1>3, <1>1, AccountFrame DEF CommitInv, Accounted, StagesDone
<1>4. StagesDoneAt(w)'
  BY <1>1 DEF StagesDoneAt
<1>5. AccountedAt(w)'
  <2>1. \A r : ~InHand(w, r)
    BY <1>1 DEF InHand, Stage
  <2> QED
    BY <1>1, <2>1 DEF CommitInv, Accounted, AccountedAt, Written
<1>6. CommittedWasWritten'
  BY <1>1, CommittedFrame DEF CommitInv
<1> QED
  BY <1>2, <1>3, <1>4, <1>5, <1>6 DEF CommitInv, Accounted, StagesDone

\* A commit covers what the member has read of its partitions, all of which is
\* settled, and no other member that could still commit reads them.
LEMMA CommitInvCommit ==
    ASSUME TypeInv, CommitInv, NEW w \in Workers, CommitBatch(w) \/ CommitAfterDlq(w)
    PROVE  CommitInv' /\ \A p \in Partitions : committed'[p] >= committed[p]
<1> USE DEF brokerVars, historyVars
<1>1. /\ pc[w] \in {"commit", "dlqCommit"} /\ pc' = [pc EXCEPT ![w] = "dlq"]
      /\ ~stale[w]
      /\ committed' = [p \in Partitions |->
                          IF p \in assigned[w] THEN position[w][p] ELSE committed[p]]
      /\ UNCHANGED <<owner, graph, assigned, stale, position, batch, outcome, everFailed>>
  BY DEF CommitBatch, CommitAfterDlq, CommitPositions
<1>2. /\ pc \in [Workers -> PcValues] /\ assigned \in [Workers -> SUBSET Partitions]
      /\ committed \in [Partitions -> Nat] /\ position \in [Workers -> [Partitions -> Nat]]
  BY DEF TypeInv, TypeOK
<1>3. \A p \in Partitions : committed'[p] >= committed[p]
  BY <1>1, <1>2 DEF CommitInv, ReadAhead
<1>4. DownIsEmpty' /\ Ownership'
  BY <1>1, <1>2 DEF CommitInv, DownIsEmpty, Ownership
<1>5. ReadAhead'
  <2> SUFFICES ASSUME NEW v \in Workers, ~stale[v], NEW p \in assigned[v]
               PROVE  committed'[p] <= position[v][p]
    BY <1>1 DEF ReadAhead
  <2>1. p \in Partitions /\ owner[p] = v /\ committed[p] <= position[v][p]
    BY <1>2 DEF CommitInv, Ownership, ReadAhead
  <2>2. p \in assigned[w] => v = w
    BY <1>1, <2>1 DEF CommitInv, Ownership
  <2> QED
    BY <1>1, <1>2, <2>1, <2>2
<1>6. \A r : ~InHand(w, r)
  BY <1>1 DEF InHand, Stage
<1>7. Accounted' /\ StagesDone'
  <2>1. ASSUME NEW v \in Workers, v # w PROVE AccountedAt(v)' /\ StagesDoneAt(v)'
    BY <2>1, <1>1, <1>2, AccountFrame DEF CommitInv, Accounted, StagesDone
  <2>2. AccountedAt(w)'
    BY <1>1, <1>6 DEF CommitInv, Accounted, AccountedAt, Written
  <2>3. StagesDoneAt(w)'
    BY <1>1, <1>2 DEF StagesDoneAt
  <2> QED
    BY <2>1, <2>2, <2>3 DEF Accounted, StagesDone
<1>8. CommittedWasWritten'
  <2> SUFFICES ASSUME NEW p \in Partitions, NEW i \in 1 .. committed'[p]
               PROVE  <<p, i>> \in everFailed \/ Written(<<p, i>>)
    BY <1>1 DEF CommittedWasWritten, Written
  <2>1. CASE p \in assigned[w]
    BY <1>1, <1>6, <2>1 DEF CommitInv, Accounted, AccountedAt
  <2>2. CASE p \notin assigned[w]
    BY <1>1, <2>2 DEF CommitInv, CommittedWasWritten
  <2> QED
    BY <2>1, <2>2
<1> QED
  BY <1>3, <1>4, <1>5, <1>7, <1>8 DEF CommitInv

LEMMA CommitInvStep ==
    ASSUME TypeInv, CommitInv, [Next]_vars
    PROVE  CommitInv' /\ \A p \in Partitions : committed'[p] >= committed[p]
<1> USE DEF producerVars, brokerVars, workerVars, historyVars
<1>0. UNCHANGED committed => \A p \in Partitions : committed'[p] >= committed[p]
  BY DEF TypeInv, TypeOK
<1>1. ASSUME NEW m \in Messages, ProduceOk(m) \/ ProduceError(m) PROVE CommitInv' /\ UNCHANGED committed
  BY <1>1, CommitInvQuiet DEF ProduceOk, ProduceError
<1>2. ASSUME NEW w \in Workers, Start(w) \/ Rejoin(w) PROVE CommitInv' /\ UNCHANGED committed
  BY <1>2, CommitInvJoin DEF Start, Rejoin
<1>3. ASSUME NEW w \in Workers, Crash(w) \/ Drained(w) \/ CommitAfterDlqError(w)
      PROVE  CommitInv' /\ UNCHANGED committed
  BY <1>3, CommitInvForget DEF Crash, Drained, CommitAfterDlqError
<1>4. ASSUME NEW w \in Workers, Stop(w) PROVE CommitInv' /\ UNCHANGED committed
  BY <1>4, CommitInvQuiet DEF Stop
<1>5. CASE Rebalance
  BY <1>0, <1>5, CommitInvRebalance DEF Rebalance
<1>6. ASSUME NEW w \in Workers, Poll(w) PROVE CommitInv' /\ UNCHANGED committed
  BY <1>6, CommitInvPoll DEF Poll
<1>7. ASSUME NEW w \in Workers, Flush(w) PROVE CommitInv' /\ UNCHANGED committed
  BY <1>7, CommitInvFlush DEF Flush
<1>8. ASSUME NEW w \in Workers, Extract(w) PROVE CommitInv' /\ UNCHANGED committed
  BY <1>8, CommitInvExtract DEF Extract
<1>9. ASSUME NEW w \in Workers, NEW s \in Stage, WriteStage(w, s)
      PROVE  CommitInv' /\ UNCHANGED committed
  BY <1>9, CommitInvWriteStage DEF WriteStage
<1>10. ASSUME NEW w \in Workers, WriteError(w) PROVE CommitInv' /\ UNCHANGED committed
  BY <1>10, CommitInvWriteError DEF WriteError
<1>11. ASSUME NEW w \in Workers, CommitBatchError(w) PROVE CommitInv' /\ UNCHANGED committed
  BY <1>11, CommitInvSettled DEF CommitBatchError
<1>12. ASSUME NEW w \in Workers, NEW k \in DOMAIN outcome[w],
              RouteExtractionFailure(w, k) \/ RouteExhausted(w, k) \/ LeaveForRetry(w, k)
       PROVE  CommitInv' /\ UNCHANGED committed
  <2>1. PICK pcAfter \in {"dlq", "dlqCommit"} : HandleFailed(w, k, pcAfter)
    BY <1>12 DEF RouteExtractionFailure, RouteExhausted, LeaveForRetry
  <2> QED
    BY <2>1, CommitInvSettled DEF HandleFailed
<1>13. ASSUME NEW w \in Workers, EndBatch(w) PROVE CommitInv' /\ UNCHANGED committed
  BY <1>13, CommitInvEndBatch DEF EndBatch
<1>14. CASE UNCHANGED vars
  BY <1>0, <1>14, CommitInvQuiet DEF vars
<1>15. ASSUME NEW w \in Workers, CommitBatch(w) \/ CommitAfterDlq(w)
       PROVE  CommitInv' /\ \A p \in Partitions : committed'[p] >= committed[p]
  BY <1>15, CommitInvCommit
<1> DEFINE Good == CommitInv' /\ \A p \in Partitions : committed'[p] >= committed[p]
<1>16. ASSUME NEW w \in Workers, WorkerStep(w) PROVE Good
  BY <1>0, <1>2, <1>3, <1>6, <1>7, <1>8, <1>9, <1>11, <1>12, <1>13, <1>15, <1>16
  DEF WorkerStep
<1>17. ASSUME NEW w \in Workers, Environment(w) PROVE Good
  BY <1>0, <1>3, <1>4, <1>10, <1>17 DEF Environment
<1> QED
  BY <1>0, <1>1, <1>5, <1>14, <1>16, <1>17 DEF Next

\* No offset is committed before every record it covers is in Neo4j or has
\* failed, however many replicas, rebalances, crashes and refused commits.
THEOREM CommitsAreWritten == Spec => []CommittedWasWritten
<1>1. Init => TypeInv /\ CommitInv
  BY TypeInvInit, CommitInvInit
<1>2. TypeInv /\ CommitInv /\ [Next]_vars => (TypeInv /\ CommitInv)'
  BY TypeInvStep, CommitInvStep
<1>3. CommitInv => CommittedWasWritten
  BY DEF CommitInv
<1> QED
  BY <1>1, <1>2, <1>3, PTL DEF Spec

\* The group's committed offsets only grow: two replicas holding batches of
\* the same partition cannot commit over each other.
THEOREM CommitsOnlyGrow == Spec => CommitNeverRegresses
<1>1. Init => TypeInv /\ CommitInv
  BY TypeInvInit, CommitInvInit
<1>2. TypeInv /\ CommitInv /\ [Next]_vars => (TypeInv /\ CommitInv)'
  BY TypeInvStep, CommitInvStep
<1>3. TypeInv /\ CommitInv /\ [Next]_vars =>
          [\A p \in Partitions : committed'[p] >= committed[p]]_vars
  BY CommitInvStep
<1> QED
  BY <1>1, <1>2, <1>3, PTL DEF Spec, CommitNeverRegresses

-----------------------------------------------------------------------------
(* The group implements the reader of AtLeastOnce                          *)

\* Only stored records are in a batch, and records do not leave the log.
BatchStored == \A w \in Workers : \A k \in DOMAIN batch[w] : Appended(batch[w][k])

LEMMA BatchStoredInit == Init => BatchStored
  BY DEF Init, BatchStored

\* Producing appends to one partition, and nothing else touches the log.
LEMMA LogGrows ==
    ASSUME TypeInv, NEW m \in Messages, Store(m)
    PROVE  \A r \in Record : Appended(r) => Appended(r)'
<1>1. log \in [Partitions -> Seq(Messages)] /\ PartitionOf[m] \in Partitions
  BY PartitionAssumption DEF TypeInv, TypeOK
<1>2. \A p \in Partitions : Len(log'[p]) >= Len(log[p]) /\ Len(log'[p]) \in Nat
  BY <1>1 DEF Store
<1> QED
  BY <1>1, <1>2 DEF Appended, Record

LEMMA BatchStoredStep == TypeInv /\ BatchStored /\ [Next]_vars => BatchStored'
<1> SUFFICES ASSUME TypeInv, BatchStored, [Next]_vars PROVE BatchStored'
  OBVIOUS
<1> USE DEF producerVars, brokerVars, workerVars, historyVars
<1>0. /\ log \in [Partitions -> Seq(Messages)]
      /\ batch \in [Workers -> Seq(Record)]
      /\ position \in [Workers -> [Partitions -> Nat]]
      /\ assigned \in [Workers -> SUBSET Partitions]
  BY DEF TypeInv, TypeOK
<1>1. ASSUME NEW m \in Messages, ProduceOk(m) \/ ProduceError(m) PROVE BatchStored'
  <2>1. batch' = batch /\ (Store(m) \/ log' = log)
    BY <1>1 DEF ProduceOk, ProduceError
  <2>2. \A v \in Workers : \A k \in DOMAIN batch[v] : batch[v][k] \in Record
    BY <1>0
  <2> QED
    BY <2>1, <2>2, LogGrows DEF BatchStored, Appended
<1>2. ASSUME NEW w \in Workers, Poll(w) PROVE BatchStored'
  <2>1. PICK p \in assigned[w] :
           /\ position[w][p] < Len(log[p])
           /\ batch' = [batch EXCEPT ![w] = Append(@, <<p, position[w][p] + 1>>)]
    BY <1>2 DEF Poll
  <2>2. log' = log
    BY <1>2 DEF Poll
  <2>3. p \in Partitions /\ position[w][p] \in Nat /\ Len(log[p]) \in Nat
    BY <1>0
  <2>4. Appended(<<p, position[w][p] + 1>>)
    BY <2>1, <2>3 DEF Appended
  <2> DEFINE r == <<p, position[w][p] + 1>>
  <2>5. batch[w] \in Seq(Record) /\ batch'[w] = Append(batch[w], r)
    BY <1>0, <2>1
  <2>6. ASSUME NEW k \in DOMAIN batch'[w] PROVE Appended(batch'[w][k])
    <3>1. CASE k \in DOMAIN batch[w]
      <4>1. batch'[w][k] = batch[w][k]
        BY <2>5, <3>1
      <4> QED
        BY <3>1, <4>1 DEF BatchStored
    <3>2. CASE k \notin DOMAIN batch[w]
      <4>1. batch'[w][k] = r
        BY <2>5, <2>6, <3>2
      <4> QED
        BY <2>4, <4>1
    <3> QED
      BY <3>1, <3>2
  <2>7. \A v \in Workers \ {w} : batch'[v] = batch[v]
    BY <1>0, <2>1
  <2> QED
    BY <2>2, <2>6, <2>7 DEF BatchStored, Appended
<1>3. ASSUME NEW w \in Workers,
             Crash(w) \/ Drained(w) \/ CommitAfterDlqError(w) \/ EndBatch(w)
      PROVE  BatchStored'
  <2>1. batch' = [batch EXCEPT ![w] = <<>>] /\ log' = log
    BY <1>3 DEF Crash, Drained, CommitAfterDlqError, EndBatch, Forget
  <2>2. \A v \in Workers : batch'[v] = batch[v] \/ batch'[v] = <<>>
    BY <1>0, <2>1
  <2> QED
    BY <2>1, <2>2 DEF BatchStored, Appended
<1>4. UNCHANGED <<batch, log>> => BatchStored'
  BY DEF BatchStored, Appended
<1>5. ASSUME NEW w \in Workers, WorkerStep(w) \/ Environment(w),
             ~(Poll(w) \/ Crash(w) \/ Drained(w) \/ CommitAfterDlqError(w) \/ EndBatch(w))
      PROVE  UNCHANGED <<batch, log>>
  BY <1>5 DEF WorkerStep, Environment, Start, Rejoin, Flush, Extract, WriteStage, CommitBatch,
              CommitBatchError, RouteExtractionFailure, RouteExhausted, LeaveForRetry,
              HandleFailed, CommitAfterDlq, Stop, WriteError
<1>6. CASE Rebalance \/ UNCHANGED vars
  BY <1>4, <1>6 DEF Rebalance, vars
<1> QED
  BY <1>1, <1>2, <1>3, <1>4, <1>5, <1>6 DEF Next

\* What the abstract reader has dealt with.
Done == everFailed \cup (graph["nodes"] \cap graph["edges"] \cap graph["bound"])

LEMMA StoredRecords ==
    ASSUME TypeInv, NEW r \in Record, Appended(r)
    PROVE  r \in Delivery!Stored
<1>1. PICK p \in Partitions, i \in Nat \ {0} : r = <<p, i>>
  BY DEF Record
<1>2. i \in DOMAIN log[p]
  BY <1>1 DEF Appended, TypeInv, TypeOK
<1> QED
  BY <1>1, <1>2 DEF Delivery!Stored

\* A step that only deals with stored records is a step of the reader.
LEMMA ProcessesStored ==
    ASSUME UNCHANGED <<log, committed>>, NEW S \in SUBSET Delivery!Stored,
           Done' = Done \cup S
    PROVE  Delivery!Process
  BY DEF Delivery!Process, Done

LEMMA BatchIsStored ==
    ASSUME TypeInv, BatchStored, NEW w \in Workers, NEW k \in DOMAIN batch[w]
    PROVE  batch[w][k] \in Delivery!Stored
<1>1. batch[w][k] \in Record
  BY DEF TypeInv, TypeOK
<1> QED
  BY <1>1, StoredRecords DEF BatchStored

LEMMA BatchWithIsStored ==
    ASSUME TypeInv, BatchStored, NEW w \in Workers, NEW O
    PROVE  BatchWith(w, O) \subseteq Delivery!Stored
<1>1. DOMAIN outcome[w] \subseteq DOMAIN batch[w]
  BY DEF TypeInv, TypeOK, OutcomeShape
<1> QED
  BY <1>1, BatchIsStored DEF BatchWith

LEMMA DeliveryInit == Init => Delivery!Init
  BY DEF Init, Delivery!Init, Stage

LEMMA DeliveryStep ==
    ASSUME TypeInv, CommitInv, BatchStored, [Next]_vars
    PROVE  [Delivery!Next]_(Delivery!vars)
<1> USE DEF producerVars, brokerVars, workerVars, historyVars
<1> DEFINE Goal == [Delivery!Next]_(Delivery!vars)
<1>0. UNCHANGED <<log, graph, committed, everFailed>> => Goal
  BY DEF Delivery!vars
<1>1. ASSUME NEW m \in Messages, ProduceOk(m) \/ ProduceError(m) PROVE Goal
  <2>1. UNCHANGED <<graph, committed, everFailed>> /\ (Store(m) \/ log' = log)
    BY <1>1 DEF ProduceOk, ProduceError
  <2>2. PartitionOf[m] \in Partitions
    BY PartitionAssumption
  <2>3. CASE Store(m)
    <3>1. Delivery!Produce(PartitionOf[m], m)
      BY <2>1, <2>3 DEF Delivery!Produce, Store
    <3> QED
      BY <2>2, <3>1 DEF Delivery!Next
  <2> QED
    BY <1>0, <2>1, <2>3
<1>2. ASSUME NEW w \in Workers, Extract(w) PROVE Goal
  <2>1. UNCHANGED <<log, committed, graph>>
    BY <1>2 DEF Extract
  <2>2. PICK o \in [1 .. Len(batch[w]) -> Outcome] :
           everFailed' = everFailed
               \cup {batch[w][k] : k \in DOMAIN o \ {k \in DOMAIN o : o[k] = "good"}}
    BY <1>2 DEF Extract
  <2> DEFINE S == {batch[w][k] : k \in DOMAIN o \ {k \in DOMAIN o : o[k] = "good"}}
  <2>3. DOMAIN o = DOMAIN batch[w]
    BY DEF TypeInv, TypeOK
  <2>4. S \subseteq Delivery!Stored
    BY <2>3, BatchIsStored
  <2>5. Done' = Done \cup S
    BY <2>1, <2>2 DEF Done
  <2>6. Delivery!Process
    BY <2>1, <2>4, <2>5, ProcessesStored
  <2> QED
    BY <2>6 DEF Delivery!Next
<1>3. ASSUME NEW w \in Workers, NEW s \in Stage, WriteStage(w, s) PROVE Goal
  <2>1. /\ UNCHANGED <<log, committed, everFailed>>
        /\ graph' = [graph EXCEPT ![s] = @ \cup BatchWith(w, {"good"})]
    BY <1>3 DEF WriteStage
  <2> DEFINE S == Done' \ Done
  <2>2. \A t \in Stage : graph[t] \subseteq graph'[t] /\ graph'[t] \subseteq graph[t] \cup BatchWith(w, {"good"})
    BY <2>1 DEF TypeInv, TypeOK
  <2>3. Done \subseteq Done' /\ Done' \subseteq Done \cup BatchWith(w, {"good"})
    BY <2>1, <2>2 DEF Done, Stage
  <2>4. S \subseteq Delivery!Stored /\ Done' = Done \cup S
    BY <2>3, BatchWithIsStored
  <2>5. Delivery!Process
    BY <2>1, <2>4, ProcessesStored
  <2> QED
    BY <2>5 DEF Delivery!Next
<1>4. ASSUME NEW w \in Workers, WriteError(w) PROVE Goal
  <2> DEFINE S == BatchWith(w, {"good"})
  <2>1. UNCHANGED <<log, committed, graph>> /\ everFailed' = everFailed \cup S
    BY <1>4 DEF WriteError
  <2>2. Done' = Done \cup S
    BY <2>1 DEF Done
  <2>3. S \subseteq Delivery!Stored
    BY BatchWithIsStored
  <2>4. Delivery!Process
    BY <2>1, <2>2, <2>3, ProcessesStored
  <2> QED
    BY <2>4 DEF Delivery!Next
<1>5. ASSUME NEW w \in Workers, CommitBatch(w) \/ CommitAfterDlq(w) PROVE Goal
  <2>1. UNCHANGED <<log, graph, everFailed>>
    BY <1>5 DEF CommitBatch, CommitAfterDlq
  <2>2. CommitInv' /\ \A p \in Partitions : committed'[p] >= committed[p]
    BY CommitInvStep
  <2>3. committed' \in [Partitions -> Nat]
    BY TypeInvStep DEF TypeInv, TypeOK
  <2>4. \A p \in Partitions : \A i \in 1 .. committed'[p] : <<p, i>> \in Done
    BY <2>1, <2>2 DEF CommitInv, CommittedWasWritten, Written, Stage, Done
  <2>5. Delivery!Commit
    BY <2>1, <2>2, <2>3, <2>4 DEF Delivery!Commit, Done
  <2> QED
    BY <2>5 DEF Delivery!Next
<1>6. ASSUME NEW w \in Workers, WorkerStep(w) \/ Environment(w),
             ~(Extract(w) \/ (\E s \in Stage : WriteStage(w, s)) \/ WriteError(w)
                 \/ CommitBatch(w) \/ CommitAfterDlq(w))
      PROVE  UNCHANGED <<log, graph, committed, everFailed>>
  BY <1>6 DEF WorkerStep, Environment, Start, Drained, Rejoin, Poll, Flush, CommitBatchError,
              RouteExtractionFailure, RouteExhausted, LeaveForRetry, HandleFailed,
              CommitAfterDlqError, EndBatch, Crash, Stop
<1>7. CASE Rebalance \/ UNCHANGED vars
  BY <1>0, <1>7 DEF Rebalance, vars
<1> QED
  BY <1>0, <1>1, <1>2, <1>3, <1>4, <1>5, <1>6, <1>7 DEF Next

\* The replicas, with all their batches, crashes, rebalances and refused commits,
\* implement one reader that releases only what it has dealt with: see
\* DeliversAtLeastOnce.
THEOREM GroupDelivers == Spec => DeliversAtLeastOnce
<1>1. Init => TypeInv /\ CommitInv /\ BatchStored /\ Delivery!Init
  BY TypeInvInit, CommitInvInit, BatchStoredInit, DeliveryInit
<1>2. TypeInv /\ CommitInv /\ BatchStored /\ [Next]_vars
          => (TypeInv /\ CommitInv /\ BatchStored)'
  BY TypeInvStep, CommitInvStep, BatchStoredStep
<1>3. TypeInv /\ CommitInv /\ BatchStored /\ [Next]_vars => [Delivery!Next]_(Delivery!vars)
  BY DeliveryStep
<1> QED
  BY <1>1, <1>2, <1>3, PTL DEF Spec, DeliversAtLeastOnce, Delivery!Spec

-----------------------------------------------------------------------------
(* What reaches the dead-letter topic has earned it                        *)

\* The errors of w's batch that concern m and are still to be counted.
Uncounted(w, m) ==
    {k \in DOMAIN outcome[w] :
        k >= next[w] /\ outcome[w][k] = "error" /\ MessageAt(batch[w][k]) = m}

\* A worker's counter of a message, with the errors it has yet to count,
\* never exceeds the failures the message had.
RetriesCovered ==
    \A w \in Workers : \A m \in Messages :
        retries[w][m] + Cardinality(Uncounted(w, m)) <= failures[m]

RejectionsKnown ==
    \A w \in Workers : \A k \in DOMAIN outcome[w] :
        outcome[w][k] = "extraction_failed" => batch[w][k] \in rejected

LettersStored == \A r \in dlq \cup dropped : Appended(r)

LetterInv ==
    /\ BatchStored
    /\ RetriesCovered
    /\ RejectionsKnown
    /\ LettersStored
    /\ DeadLetterEarned

LEMMA UncountedType ==
    ASSUME TypeInv, NEW w \in Workers, NEW m
    PROVE  IsFiniteSet(Uncounted(w, m)) /\ Cardinality(Uncounted(w, m)) \in Nat
<1>1. outcome[w] \in Seq(Outcome)
  BY DEF TypeInv, TypeOK
<1>2. Uncounted(w, m) \subseteq 1 .. Len(outcome[w]) /\ Len(outcome[w]) \in Nat
  BY <1>1 DEF Uncounted
<1>3. IsFiniteSet(1 .. Len(outcome[w]))
  BY <1>2, FS_Interval
<1> QED
  BY <1>2, <1>3, FS_Subset, FS_CardinalityType

\* Records keep their place in the log, and so their message.
LEMMA MessageKept ==
    ASSUME TypeInv, NEW r \in Record, Appended(r), UNCHANGED log \/ \E m \in Messages : Store(m)
    PROVE  MessageAt(r)' = MessageAt(r) /\ MessageAt(r) \in Messages /\ Appended(r)'
<1>1. log \in [Partitions -> Seq(Messages)]
  BY DEF TypeInv, TypeOK
<1>2. PICK p \in Partitions, i \in Nat \ {0} : r = <<p, i>>
  BY DEF Record
<1>3. i \in 1 .. Len(log[p])
  BY <1>2 DEF Appended
<1>4. MessageAt(r) \in Messages
  BY <1>1, <1>2, <1>3 DEF MessageAt
<1>5. CASE UNCHANGED log
  BY <1>4, <1>5 DEF MessageAt, Appended
<1>6. ASSUME NEW m \in Messages, Store(m) PROVE MessageAt(r)' = MessageAt(r) /\ Appended(r)'
  <2>1. PartitionOf[m] \in Partitions
    BY PartitionAssumption
  <2>2. log'[p] = log[p] \/ log'[p] = Append(log[p], m)
    BY <1>1, <1>6, <2>1 DEF Store
  <2>3. log'[p][i] = log[p][i]
    BY <1>1, <1>3, <2>2
  <2>4. Appended(r)'
    BY <1>6, LogGrows
  <2> QED
    BY <1>2, <2>3, <2>4 DEF MessageAt
<1> QED
  BY <1>4, <1>5, <1>6

LEMMA LetterInvInit == Init => LetterInv
<1> SUFFICES ASSUME Init PROVE LetterInv
  OBVIOUS
<1>1. RetriesCovered
  <2> SUFFICES ASSUME NEW w \in Workers, NEW m \in Messages
               PROVE  retries[w][m] + Cardinality(Uncounted(w, m)) <= failures[m]
    BY DEF RetriesCovered
  <2>1. Uncounted(w, m) = {}
    BY DEF Init, Uncounted
  <2> QED
    BY <2>1, FS_EmptySet DEF Init
<1> QED
  BY <1>1, BatchStoredInit DEF Init, LetterInv, RejectionsKnown, LettersStored, DeadLetterEarned

\* What a step leaves alone, or clears, for every worker.
LEMMA LetterFrame ==
    ASSUME TypeInv, TypeInv', LetterInv, BatchStored',
           UNCHANGED <<dlq, dropped, rejected, failures>>,
           UNCHANGED log \/ \E m \in Messages : Store(m),
           \A w \in Workers :
               \/ outcome'[w] = <<>> /\ \A m \in Messages : retries'[w][m] = 0 \/ retries'[w][m] = retries[w][m]
               \/ /\ outcome'[w] = outcome[w] /\ next'[w] = next[w] /\ retries'[w] = retries[w]
                  /\ \A k \in DOMAIN outcome[w] : batch'[w][k] = batch[w][k]
    PROVE  LetterInv'
<1>1. \A r \in dlq \cup dropped : r \in Record /\ Appended(r)
  BY DEF LetterInv, LettersStored, TypeInv, TypeOK
<1>2. LettersStored'
  BY <1>1, MessageKept DEF LettersStored
<1>3. DeadLetterEarned'
  BY <1>1, MessageKept DEF LetterInv, DeadLetterEarned
<1>4. RejectionsKnown'
  BY DEF LetterInv, RejectionsKnown
<1>5. RetriesCovered'
  <2> SUFFICES ASSUME NEW w \in Workers, NEW m \in Messages
               PROVE  (retries[w][m] + Cardinality(Uncounted(w, m)) <= failures[m])'
    BY DEF RetriesCovered
  <2>1. /\ retries[w][m] + Cardinality(Uncounted(w, m)) <= failures[m]
        /\ retries[w][m] \in Nat /\ failures[m] \in Nat /\ Cardinality(Uncounted(w, m)) \in Nat
    BY UncountedType DEF LetterInv, RetriesCovered, TypeInv, TypeOK
  <2>2. CASE outcome'[w] = <<>> /\ (retries'[w][m] = 0 \/ retries'[w][m] = retries[w][m])
    <3>1. Uncounted(w, m)' = {}
      BY <2>2 DEF Uncounted
    <3>2. Cardinality(Uncounted(w, m)') = 0
      BY <3>1, FS_EmptySet
    <3>3. Cardinality(Uncounted(w, m))' = 0
      BY <3>2
    <3> QED
      BY <2>1, <2>2, <3>3
  <2>3. CASE /\ outcome'[w] = outcome[w] /\ next'[w] = next[w] /\ retries'[w] = retries[w]
             /\ \A k \in DOMAIN outcome[w] : batch'[w][k] = batch[w][k]
    <3>1. \A k \in DOMAIN outcome[w] :
             batch[w][k] \in Record /\ Appended(batch[w][k]) /\ batch'[w][k] = batch[w][k]
      <4>1. DOMAIN outcome[w] \subseteq DOMAIN batch[w]
        BY DEF TypeInv, TypeOK, OutcomeShape
      <4> QED
        BY <2>3, <4>1 DEF LetterInv, BatchStored, TypeInv, TypeOK
    <3>2. \A k \in DOMAIN outcome[w] : MessageAt(batch[w][k])' = MessageAt(batch[w][k])
      BY <3>1, MessageKept DEF MessageAt
    <3>3. Uncounted(w, m)' = Uncounted(w, m)
      BY <2>3, <3>2 DEF Uncounted
    <3> QED
      BY <2>1, <2>3, <3>3
  <2> QED
    BY <2>2, <2>3
<1> QED
  BY <1>2, <1>3, <1>4, <1>5 DEF LetterInv

\* Extraction counts each new error once, and notes each rejected record.
LEMMA LetterExtract ==
    ASSUME TypeInv, TypeInv', LetterInv, BatchStored', NEW w \in Workers, Extract(w)
    PROVE  LetterInv'
<1> USE DEF producerVars, brokerVars, workerVars, historyVars
<1>1. PICK o \in [1 .. Len(batch[w]) -> Outcome] :
            LET at(x) == {k \in DOMAIN o : o[k] = x}
            IN  /\ outcome' = [outcome EXCEPT ![w] = o]
                /\ rejected' = rejected \cup {batch[w][k] : k \in at("extraction_failed")}
                /\ failures' = [m \in Messages |->
                      failures[m] + Cardinality({k \in at("error") : MessageAt(batch[w][k]) = m})]
  BY DEF Extract
<1>2. UNCHANGED <<log, dlq, dropped, batch, next, retries>> /\ pc[w] = "extract"
  BY DEF Extract
<1>3. outcome' = [outcome EXCEPT ![w] = o] /\ outcome'[w] = o /\ \A v \in Workers \ {w} : outcome'[v] = outcome[v]
  BY <1>1 DEF TypeInv, TypeOK
<1> DEFINE new(m) == {k \in {j \in DOMAIN o : o[j] = "error"} : MessageAt(batch[w][k]) = m}
<1>4. \A m \in Messages : failures'[m] = failures[m] + Cardinality(new(m))
  BY <1>1, Zenon
<1>5. ASSUME NEW m \in Messages PROVE IsFiniteSet(new(m)) /\ Cardinality(new(m)) \in Nat
  <2>1. Len(batch[w]) \in Nat
    BY DEF TypeInv, TypeOK
  <2>2. new(m) \subseteq 1 .. Len(batch[w])
    OBVIOUS
  <2>3. IsFiniteSet(1 .. Len(batch[w]))
    BY <2>1, FS_Interval
  <2> QED
    BY <2>2, <2>3, FS_Subset, FS_CardinalityType
<1>6. \A m \in Messages : failures[m] \in Nat /\ failures'[m] \in Nat
  BY DEF TypeInv, TypeOK
<1>7. RetriesCovered'
  <2> SUFFICES ASSUME NEW v \in Workers, NEW m \in Messages
               PROVE  (retries[v][m] + Cardinality(Uncounted(v, m)) <= failures[m])'
    BY DEF RetriesCovered
  <2>1. /\ retries[v][m] + Cardinality(Uncounted(v, m)) <= failures[m]
        /\ retries[v][m] \in Nat /\ Cardinality(Uncounted(v, m)) \in Nat
    BY UncountedType DEF LetterInv, RetriesCovered, TypeInv, TypeOK
  <2>2. CASE v = w
    <3>1. Uncounted(v, m)' \subseteq new(m)
      BY <1>2, <1>3, <2>2 DEF Uncounted, MessageAt
    <3>2. Cardinality(Uncounted(v, m)') <= Cardinality(new(m)) /\ Cardinality(Uncounted(v, m)') \in Nat
      BY <1>5, <3>1, FS_Subset, FS_CardinalityType
    <3> HIDE DEF new
    <3> DEFINE c == Cardinality(Uncounted(v, m)')
    <3>3. c <= Cardinality(new(m)) /\ c \in Nat
      BY <3>2
    <3>4. retries[v][m] + c <= failures'[m]
      <4> HIDE DEF c
      <4> QED
        BY <1>4, <1>5, <1>6, <2>1, <3>3
    <3> QED
      BY <1>2, <3>4
  <2>3. CASE v # w
    <3>1. Uncounted(v, m)' = Uncounted(v, m)
      BY <1>2, <1>3, <2>3 DEF Uncounted, MessageAt
    <3> HIDE DEF new
    <3>2. failures'[m] >= failures[m]
      BY <1>4, <1>5, <1>6
    <3> QED
      BY <1>2, <1>6, <2>1, <3>1, <3>2
  <2> QED
    BY <2>2, <2>3
<1>8. RejectionsKnown'
  <2>1. \A k \in DOMAIN o : o[k] = "extraction_failed" => batch[w][k] \in rejected'
    BY <1>1
  <2>2. rejected \subseteq rejected'
    BY <1>1
  <2> QED
    BY <1>2, <1>3, <2>1, <2>2 DEF LetterInv, RejectionsKnown
<1>9. LettersStored'
  BY <1>2 DEF LetterInv, LettersStored, Appended
<1>10. DeadLetterEarned'
  <2>1. rejected \subseteq rejected'
    BY <1>1
  <2>2. ASSUME NEW r \in dlq \cup dropped PROVE MessageAt(r) \in Messages /\ MessageAt(r)' = MessageAt(r)
    BY <1>2, MessageKept DEF LetterInv, LettersStored, TypeInv, TypeOK
  <2> HIDE DEF new
  <2>3. \A m \in Messages : failures'[m] >= failures[m]
    BY <1>4, <1>5, <1>6
  <2> SUFFICES ASSUME NEW r \in dlq \cup dropped
               PROVE  r \in rejected' \/ failures'[MessageAt(r)'] >= MaxRetries
    BY <1>2 DEF DeadLetterEarned
  <2>4. r \in rejected \/ failures[MessageAt(r)] >= MaxRetries
    BY DEF LetterInv, DeadLetterEarned
  <2> QED
    BY <1>6, <2>1, <2>2, <2>3, <2>4, BoundAssumption
<1> QED
  BY <1>7, <1>8, <1>9, <1>10 DEF LetterInv

\* The handler of one failed record counts its error, or sends it off with
\* enough of them.
LEMMA LetterRoute ==
    ASSUME TypeInv, TypeInv', LetterInv, BatchStored', NEW w \in Workers, NEW k \in DOMAIN outcome[w],
           RouteExtractionFailure(w, k) \/ RouteExhausted(w, k) \/ LeaveForRetry(w, k)
    PROVE  LetterInv'
<1> USE DEF producerVars
<1>1. PICK pcAfter : HandleFailed(w, k, pcAfter)
  BY DEF RouteExtractionFailure, RouteExhausted, LeaveForRetry
<1>2. UNCHANGED <<log, batch, outcome, rejected, failures>> /\ next' = [next EXCEPT ![w] = k + 1]
  BY <1>1 DEF HandleFailed
<1>3. /\ k \in Nat /\ next[w] \in Nat /\ next[w] <= k /\ next'[w] = k + 1
      /\ \A j \in DOMAIN outcome[w] : j \in Nat
      /\ \A j \in DOMAIN outcome[w] : j >= next[w] /\ outcome[w][j] # "good" => k <= j
      /\ \A v \in Workers \ {w} : next'[v] = next[v]
  BY <1>1, <1>2 DEF HandleFailed, FailedFrom, TypeInv, TypeOK
<1>4. batch[w][k] \in Record /\ Appended(batch[w][k]) /\ MessageAt(batch[w][k]) \in Messages
  <2>1. k \in DOMAIN batch[w]
    BY DEF TypeInv, TypeOK, OutcomeShape
  <2>2. batch[w][k] \in Record /\ Appended(batch[w][k])
    BY <2>1 DEF LetterInv, BatchStored, TypeInv, TypeOK
  <2> QED
    BY <1>2, <2>2, MessageKept
<1>m. PICK m \in Messages : m = MessageAt(batch[w][k])
  BY <1>4
<1>5. ASSUME NEW v \in Workers, NEW n \in Messages
      PROVE  /\ retries[v][n] + Cardinality(Uncounted(v, n)) <= failures[n]
             /\ retries[v][n] \in Nat /\ Cardinality(Uncounted(v, n)) \in Nat
             /\ failures[n] \in Nat
  BY UncountedType DEF LetterInv, RetriesCovered, TypeInv, TypeOK
\* The records the handler skips on the way to k had no failure.
<1>6. ASSUME NEW v \in Workers, NEW n \in Messages
      PROVE  /\ Uncounted(v, n)' = IF v = w THEN Uncounted(v, n) \ {k} ELSE Uncounted(v, n)
             /\ Cardinality(Uncounted(v, n)') <= Cardinality(Uncounted(v, n))
             /\ Cardinality(Uncounted(v, n)') \in Nat
  <2>1. Uncounted(v, n)' = IF v = w THEN Uncounted(v, n) \ {k} ELSE Uncounted(v, n)
    <3>1. CASE v # w
      BY <1>2, <1>3, <3>1 DEF Uncounted, MessageAt
    <3>2. CASE v = w
      <4>1. \A j \in DOMAIN outcome[w] : outcome[w][j] = "error" =>
               (j >= k + 1 <=> j >= next[w] /\ j # k)
        BY <1>3
      <4> QED
        BY <1>2, <1>3, <3>2, <4>1 DEF Uncounted, MessageAt
    <3> QED
      BY <3>1, <3>2
  <2> QED
    BY <2>1, UncountedType, FS_Subset, FS_CardinalityType
<1>7. outcome[w][k] = "error" =>
         Cardinality(Uncounted(w, m)') = Cardinality(Uncounted(w, m)) - 1
  <2> SUFFICES ASSUME outcome[w][k] = "error"
               PROVE  Cardinality(Uncounted(w, m)') = Cardinality(Uncounted(w, m)) - 1
    OBVIOUS
  <2>1. k \in Uncounted(w, m)
    BY <1>3, <1>m DEF Uncounted
  <2>2. Uncounted(w, m)' = Uncounted(w, m) \ {k}
    BY <1>6
  <2>3. IsFiniteSet(Uncounted(w, m))
    BY UncountedType
  <2>4. Cardinality(Uncounted(w, m) \ {k}) = Cardinality(Uncounted(w, m)) - 1
    BY <2>1, <2>3, FS_RemoveElement
  <2> QED
    BY <2>2, <2>4
<1>8. /\ RouteExtractionFailure(w, k) \/ RouteExhausted(w, k) => retries' = [retries EXCEPT ![w][m] = 0]
      /\ LeaveForRetry(w, k) => retries' = [retries EXCEPT ![w][m] = @ + 1] /\ outcome[w][k] = "error"
  BY <1>m DEF RouteExtractionFailure, RouteExhausted, LeaveForRetry
<1>9. RetriesCovered'
  <2> SUFFICES ASSUME NEW v \in Workers, NEW n \in Messages
               PROVE  (retries[v][n] + Cardinality(Uncounted(v, n)) <= failures[n])'
    BY DEF RetriesCovered
  <2> DEFINE c == Cardinality(Uncounted(v, n)')
  <2>1. c \in Nat /\ c <= Cardinality(Uncounted(v, n))
    BY <1>6
  <2>2. retries \in [Workers -> [Messages -> Nat]]
    BY DEF TypeInv, TypeOK
  <2>3. CASE v = w /\ n = m /\ LeaveForRetry(w, k)
    <3>1. retries'[v][n] = retries[v][n] + 1
      BY <1>8, <2>2, <2>3
    <3>2. c = Cardinality(Uncounted(v, n)) - 1
      BY <1>7, <1>8, <2>3
    <3>3. retries'[v][n] + c <= failures[n]
      <4> HIDE DEF c
      <4> QED
        BY <1>5, <2>1, <3>1, <3>2
    <3> QED
      BY <1>2, <3>3
  <2>4. CASE ~(v = w /\ n = m /\ LeaveForRetry(w, k))
    <3>1. retries'[v][n] = 0 \/ retries'[v][n] = retries[v][n]
      BY <1>8, <2>2, <2>4
    <3>2. retries'[v][n] + c <= failures[n]
      <4> HIDE DEF c
      <4> QED
        BY <1>5, <2>1, <3>1
    <3> QED
      BY <1>2, <3>2
  <2> QED
    BY <2>3, <2>4
<1>10. RejectionsKnown'
  BY <1>2 DEF LetterInv, RejectionsKnown
<1>11. /\ dlq' \cup dropped' \subseteq dlq \cup dropped \cup {batch[w][k]}
       /\ LeaveForRetry(w, k) => UNCHANGED <<dlq, dropped>>
  BY DEF RouteExtractionFailure, RouteExhausted, LeaveForRetry, SendToDlq
<1>12. LettersStored'
  BY <1>2, <1>4, <1>11 DEF LetterInv, LettersStored, Appended
<1>13. DeadLetterEarned'
  <2>1. \A r : MessageAt(r)' = MessageAt(r)
    BY <1>2 DEF MessageAt
  <2>2. \A r \in dlq \cup dropped : r \in rejected \/ failures[MessageAt(r)] >= MaxRetries
    BY DEF LetterInv, DeadLetterEarned
  <2>3. ASSUME RouteExtractionFailure(w, k) PROVE batch[w][k] \in rejected
    BY <2>3 DEF RouteExtractionFailure, LetterInv, RejectionsKnown
  <2>4. ASSUME RouteExhausted(w, k) PROVE failures[m] >= MaxRetries
    <3>1. retries[w][m] + 1 >= MaxRetries /\ outcome[w][k] = "error"
      BY <1>m, <2>4 DEF RouteExhausted, Exhausted
    <3> DEFINE c == Cardinality(Uncounted(w, m)')
    <3>2. c \in Nat /\ c = Cardinality(Uncounted(w, m)) - 1
      BY <1>6, <1>7, <3>1
    <3> HIDE DEF c
    <3> QED
      BY <1>5, <3>1, <3>2, BoundAssumption
  <2> QED
    BY <1>2, <1>m, <1>11, <2>1, <2>2, <2>3, <2>4 DEF DeadLetterEarned
<1> QED
  BY <1>9, <1>10, <1>12, <1>13 DEF LetterInv

LEMMA LetterInvStep == TypeInv /\ LetterInv /\ [Next]_vars => LetterInv'
<1> SUFFICES ASSUME TypeInv, LetterInv, [Next]_vars PROVE LetterInv'
  OBVIOUS
<1> USE DEF producerVars, brokerVars, workerVars, historyVars
<1>1. TypeInv' /\ BatchStored'
  BY TypeInvStep, BatchStoredStep DEF LetterInv
<1>0. /\ outcome \in [Workers -> Seq(Outcome)] /\ batch \in [Workers -> Seq(Record)]
      /\ retries \in [Workers -> [Messages -> Nat]]
  BY DEF TypeInv, TypeOK
<1>2. UNCHANGED <<log, dlq, dropped, rejected, failures, outcome, next, retries, batch>> => LetterInv'
  BY <1>1, LetterFrame
<1>3. ASSUME NEW m \in Messages, ProduceOk(m) \/ ProduceError(m) PROVE LetterInv'
  <2>1. /\ UNCHANGED <<dlq, dropped, rejected, failures, outcome, next, retries, batch>>
        /\ Store(m) \/ UNCHANGED log
    BY <1>3 DEF ProduceOk, ProduceError
  <2> QED
    BY <1>1, <2>1, LetterFrame
<1>4. ASSUME NEW w \in Workers, Crash(w) \/ Drained(w) \/ CommitAfterDlqError(w) PROVE LetterInv'
  <2>1. /\ UNCHANGED <<log, dlq, dropped, rejected, failures>>
        /\ Forget(w)
    BY <1>4 DEF Crash, Drained, CommitAfterDlqError
  <2>2. \A v \in Workers :
           \/ outcome'[v] = <<>> /\ \A m \in Messages : retries'[v][m] = 0
           \/ outcome'[v] = outcome[v] /\ next'[v] = next[v] /\ retries'[v] = retries[v] /\ batch'[v] = batch[v]
    BY <1>0, <2>1 DEF Forget, TypeInv, TypeOK
  <2> QED
    BY <1>1, <2>1, <2>2, LetterFrame
<1>5. ASSUME NEW w \in Workers, EndBatch(w) PROVE LetterInv'
  <2>1. UNCHANGED <<log, dlq, dropped, rejected, failures, retries>>
    BY <1>5 DEF EndBatch
  <2>2. \A v \in Workers :
           \/ outcome'[v] = <<>> /\ retries'[v] = retries[v]
           \/ outcome'[v] = outcome[v] /\ next'[v] = next[v] /\ retries'[v] = retries[v] /\ batch'[v] = batch[v]
    BY <1>0, <1>5 DEF EndBatch, TypeInv, TypeOK
  <2> QED
    BY <1>1, <2>1, <2>2, LetterFrame
<1>6. ASSUME NEW w \in Workers, Poll(w) PROVE LetterInv'
  <2>1. /\ UNCHANGED <<log, dlq, dropped, rejected, failures, outcome, next, retries>> /\ pc[w] = "poll"
        /\ \A v \in Workers \ {w} : batch'[v] = batch[v]
    BY <1>6 DEF Poll, TypeInv, TypeOK
  <2>2. outcome[w] = <<>>
    BY <2>1 DEF TypeInv, OutcomeShape
  <2> QED
    BY <1>1, <2>1, <2>2, LetterFrame
<1>7. ASSUME NEW w \in Workers, Extract(w) PROVE LetterInv'
  BY <1>1, <1>7, LetterExtract
<1>8. ASSUME NEW w \in Workers, NEW k \in DOMAIN outcome[w],
             RouteExtractionFailure(w, k) \/ RouteExhausted(w, k) \/ LeaveForRetry(w, k)
      PROVE  LetterInv'
  BY <1>1, <1>8, LetterRoute
<1>9. ASSUME NEW w \in Workers, WorkerStep(w) \/ Environment(w),
             ~(Poll(w) \/ Crash(w) \/ Drained(w) \/ CommitAfterDlqError(w) \/ EndBatch(w) \/ Extract(w)),
             ~(\E k \in DOMAIN outcome[w] :
                  RouteExtractionFailure(w, k) \/ RouteExhausted(w, k) \/ LeaveForRetry(w, k))
      PROVE  UNCHANGED <<log, dlq, dropped, rejected, failures, outcome, next, retries, batch>>
  BY <1>9 DEF WorkerStep, Environment, Start, Rejoin, Flush, WriteStage, CommitBatch,
              CommitBatchError, CommitAfterDlq, Stop, WriteError
<1>10. CASE Rebalance \/ UNCHANGED vars
  BY <1>2, <1>10 DEF Rebalance, vars
<1> QED
  BY <1>2, <1>3, <1>4, <1>5, <1>6, <1>7, <1>8, <1>9, <1>10 DEF Next

\* Nothing is dead-lettered, or given up after the dead-letter topic refused it,
\* that was not rejected by extraction or had MaxRetries other failures, whatever
\* worker counted them and wherever it restarted: see DeadLetterEarned.
THEOREM LettersEarned == Spec => []DeadLetterEarned
<1>1. Init => TypeInv /\ LetterInv
  BY TypeInvInit, LetterInvInit
<1>2. TypeInv /\ LetterInv /\ [Next]_vars => (TypeInv /\ LetterInv)'
  BY TypeInvStep, LetterInvStep
<1>3. LetterInv => DeadLetterEarned
  BY DEF LetterInv
<1> QED
  BY <1>1, <1>2, <1>3, PTL DEF Spec
=============================================================================
