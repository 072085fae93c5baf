---------------------- MODULE GraphConsolidationProofs ----------------------
(***************************************************************************)
(* Proofs about GraphConsolidation, for any nodes, similarity, runners and *)
(* bounds: the type invariant (which says that no edge dangles), that      *)
(* relations are not made up, that a run leaves no similar pair behind,    *)
(* and that a run that meets nobody keeps the relations of what it merges. *)
(*                                                                         *)
(* Everything rests on InsidePair: while a pair is being merged, the       *)
(* cursor points at two different similar nodes of the snapshot.           *)
(***************************************************************************)
EXTENDS GraphConsolidation, FiniteSetTheorems, TLAPS

Merging   == {"out", "in", "delete"}
Comparing == Merging \cup {"compare"}

\* The snapshot has every node once.
Distinct(r) == \A i, j \in DOMAIN ids[r] : ids[r][i] = ids[r][j] => i = j

InsidePair(r) ==
    pc[r] \in Merging =>
        /\ cursor[r][1] \in DOMAIN ids[r] /\ cursor[r][2] \in DOMAIN ids[r]
        /\ cursor[r][1] < cursor[r][2]
        /\ <<Left(r), Right(r)>> \in Similar

\* Between runs there is no trace of the last one.
Fresh(r) == pc[r] \in {"idle", "snapshot"} => ids[r] = <<>> /\ cursor[r] = <<0, 0>>

RunOK(r) == Distinct(r) /\ InsidePair(r) /\ Fresh(r)

TypeInv == TypeOK /\ \A r \in Runners : RunOK(r)

-----------------------------------------------------------------------------
(* Lemmas on the operators of the model                                    *)

LEMMA NodesAreFinite ==
    ASSUME NEW S \in SUBSET Nodes
    PROVE  IsFiniteSet(S) /\ Cardinality(S) \in Nat
  BY SimilarAssumption, FS_Subset, FS_CardinalityType

LEMMA EdgesAreFinite == TypeOK => IsFiniteSet(edges)
<1> SUFFICES ASSUME TypeOK PROVE IsFiniteSet(edges)
  OBVIOUS
<1> DEFINE Nested  == EdgeType \X (nodes \X nodes)
           Triples == EdgeType \X nodes \X nodes
           flat    == [p \in Nested |-> <<p[1], p[2][1], p[2][2]>>]
<1>1. IsFiniteSet(EdgeType)
  <2>1. EdgeType = {"RELATION"} \cup {"RELATED_TO"}
    BY DEF EdgeType
  <2> QED
    BY <2>1, FS_Singleton, FS_Union
<1>2. IsFiniteSet(nodes \X nodes)
  BY NodesAreFinite, FS_Product DEF TypeOK
<1>3. IsFiniteSet(Nested)
  BY <1>1, <1>2, FS_Product
<1>4. flat \in Surjection(Nested, Triples)
  <2>1. flat \in [Nested -> Triples]
    OBVIOUS
  <2>2. ASSUME NEW t \in Triples PROVE \E p \in Nested : flat[p] = t
    <3>1. <<t[1], <<t[2], t[3]>>>> \in Nested
      OBVIOUS
    <3>2. flat[<<t[1], <<t[2], t[3]>>>>] = t
      BY <3>1
    <3> QED
      BY <3>1, <3>2
  <2> QED
    BY <2>1, <2>2 DEF Surjection
<1>5. IsFiniteSet(Triples)
  <2> HIDE DEF flat, Nested, Triples
  <2> QED
    BY <1>3, <1>4, FS_Surjection
<1> QED
  BY <1>5, FS_Subset DEF TypeOK

LEMMA DegreeType == TypeOK => \A n \in Nodes : DegreeOf(n) \in Nat
<1> SUFFICES ASSUME TypeOK, NEW n \in Nodes PROVE DegreeOf(n) \in Nat
  OBVIOUS
<1> DEFINE touching == {e \in edges : Touches(e, n)}
<1>1. touching \subseteq edges
  OBVIOUS
<1>2. IsFiniteSet(touching)
  BY <1>1, EdgesAreFinite, FS_Subset
<1> QED
  BY <1>2, FS_CardinalityType DEF DegreeOf

\* The two nodes of a merge are different, similar nodes of the agent.
LEMMA MergedPair ==
    ASSUME TypeInv, NEW r \in Runners, pc[r] \in Merging
    PROVE  /\ Keep(r) \in Nodes /\ Drop(r) \in Nodes
           /\ Keep(r) # Drop(r)
           /\ {Keep(r), Drop(r)} = {Left(r), Right(r)}
           /\ ClusterOf[Keep(r)] = ClusterOf[Drop(r)]
<1>1. Distinct(r) /\ InsidePair(r)
  BY DEF TypeInv, RunOK
<1>2. ids[r] \in Seq(Nodes) /\ cursor[r] \in Nat \X Nat
  BY DEF TypeInv, TypeOK
<1>3. Left(r) \in Nodes /\ Right(r) \in Nodes
  BY <1>1, <1>2 DEF InsidePair, Left, Right
<1>4. Left(r) # Right(r)
  BY <1>1, <1>2 DEF InsidePair, Distinct, Left, Right
<1>5. ClusterOf[Left(r)] = ClusterOf[Right(r)]
  BY <1>1, <1>3, ClusterAssumption DEF InsidePair
<1> QED
  BY <1>3, <1>4, <1>5 DEF Keep, Drop

\* A runner that a step does not touch stays as it is.
LEMMA RunFrame ==
    ASSUME NEW q \in Runners, RunOK(q),
           pc'[q] = pc[q], ids'[q] = ids[q], cursor'[q] = cursor[q]
    PROVE  RunOK(q)'
  BY DEF RunOK, Distinct, InsidePair, Fresh, Left, Right

-----------------------------------------------------------------------------
(* Type correctness                                                        *)

LEMMA TypeInvInit == Init => TypeInv
<1> SUFFICES ASSUME Init PROVE TypeInv
  OBVIOUS
<1> USE ConsolidationBoundAssumption DEF Init
<1>1. edges \subseteq EdgeType \X nodes \X nodes
  BY DEF EdgeType, Pairs
<1>2. TypeOK
  <2>1. pc \in [Runners -> PcValues] /\ ids \in [Runners -> Seq(Nodes)]
    BY DEF PcValues
  <2>2. degree \in [Runners -> [Nodes -> Nat]] /\ cursor \in [Runners -> Nat \X Nat]
    OBVIOUS
  <2>3. merged \in [Runners -> SUBSET Nodes]
    OBVIOUS
  <2>4. failed \in [Runners -> BOOLEAN] /\ overlapped \in BOOLEAN
    OBVIOUS
  <2>5. writes \in 0 .. MaxWrites /\ starts \in 0 .. MaxStarts /\ faults \in 0 .. MaxFaults
    OBVIOUS
  <2> QED
    BY <1>1, <2>1, <2>2, <2>3, <2>4, <2>5 DEF TypeOK
<1>3. \A r \in Runners : RunOK(r)
  BY DEF RunOK, Distinct, InsidePair, Fresh, Merging
<1> QED
  BY <1>2, <1>3 DEF TypeInv

\* The parts of TypeOK that most steps leave alone together.
GraphTypeOK   == nodes \subseteq Nodes /\ edges \subseteq EdgeType \X nodes \X nodes
CounterTypeOK ==
    /\ overlapped \in BOOLEAN
    /\ writes \in 0 .. MaxWrites
    /\ starts \in 0 .. MaxStarts
    /\ faults \in 0 .. MaxFaults
RunnerTypeOK ==
    /\ pc \in [Runners -> PcValues]
    /\ ids \in [Runners -> Seq(Nodes)]
    /\ degree \in [Runners -> [Nodes -> Nat]]
    /\ cursor \in [Runners -> Nat \X Nat]
    /\ merged \in [Runners -> SUBSET Nodes]
    /\ failed \in [Runners -> BOOLEAN]

LEMMA TypeParts == TypeOK <=> GraphTypeOK /\ CounterTypeOK /\ RunnerTypeOK
  BY DEF TypeOK, GraphTypeOK, CounterTypeOK, RunnerTypeOK

LEMMA TypeFrame ==
    /\ GraphTypeOK /\ UNCHANGED graphVars => GraphTypeOK'
    /\ CounterTypeOK /\ UNCHANGED <<overlapped, writes, starts, faults>> => CounterTypeOK'
    /\ RunnerTypeOK /\ UNCHANGED runnerVars => RunnerTypeOK'
  BY DEF GraphTypeOK, CounterTypeOK, RunnerTypeOK, graphVars, runnerVars

LEMMA FaultType == CounterTypeOK /\ (Fault \/ UNCHANGED faults) => faults' \in 0 .. MaxFaults
  BY ConsolidationBoundAssumption DEF CounterTypeOK, Fault

LEMMA WriteType == CounterTypeOK /\ Write => writes' \in 0 .. MaxWrites
  BY ConsolidationBoundAssumption DEF CounterTypeOK, Write

\* A node that goes takes its edges along.
LEMMA WithoutType ==
    ASSUME GraphTypeOK, NEW n, Without(n)
    PROVE  GraphTypeOK'
  BY DEF GraphTypeOK, Without, Touches

LEMMA ForgetType ==
    ASSUME RunnerTypeOK, \A q \in Runners : RunOK(q), NEW r \in Runners, Forget(r)
    PROVE  RunnerTypeOK' /\ \A q \in Runners : RunOK(q)'
<1> USE DEF Forget, RunnerTypeOK
<1>1. pc' \in [Runners -> PcValues] /\ ids' \in [Runners -> Seq(Nodes)]
  BY DEF PcValues
<1>2. degree' \in [Runners -> [Nodes -> Nat]] /\ cursor' \in [Runners -> Nat \X Nat]
  OBVIOUS
<1>3. merged' \in [Runners -> SUBSET Nodes]
  OBVIOUS
<1>4. failed' \in [Runners -> BOOLEAN]
  OBVIOUS
<1>5. RunOK(r)'
  BY DEF RunOK, Distinct, InsidePair, Fresh, Merging
<1>6. ASSUME NEW q \in Runners \ {r} PROVE RunOK(q)'
  BY RunFrame
<1> QED
  BY <1>1, <1>2, <1>3, <1>4, <1>5, <1>6

\* r moves on within its loops; its snapshot and cursor stay.
LEMMA ProceedType ==
    ASSUME RunnerTypeOK, \A q \in Runners : RunOK(q), NEW r \in Runners, NEW p \in PcValues,
           pc' = [pc EXCEPT ![r] = p], p \notin {"idle", "snapshot"},
           p \in Merging => pc[r] \in Merging,
           UNCHANGED <<ids, cursor>>
    PROVE  pc' \in [Runners -> PcValues] /\ \A q \in Runners : RunOK(q)'
<1>1. pc' \in [Runners -> PcValues]
  BY DEF RunnerTypeOK
<1>2. RunOK(r)'
  BY DEF RunnerTypeOK, RunOK, Distinct, InsidePair, Fresh, Left, Right
<1>3. ASSUME NEW q \in Runners \ {r} PROVE RunOK(q)'
  BY RunFrame DEF RunnerTypeOK
<1> QED
  BY <1>1, <1>2, <1>3

\* The query returns each node once.
LEMMA OrdersAreSeqs ==
    ASSUME NEW S \in SUBSET Nodes, NEW s \in Orders(S)
    PROVE  s \in Seq(Nodes) /\ \A i, j \in DOMAIN s : s[i] = s[j] => i = j
<1>1. s \in [1 .. Cardinality(S) -> Nodes] /\ Cardinality(S) \in Nat
  BY NodesAreFinite DEF Orders
<1>2. s \in Seq(Nodes)
  BY <1>1
<1> QED
  BY <1>2 DEF Orders

LEMMA SnapshotType ==
    ASSUME TypeInv, NEW r \in Runners, Snapshot(r)
    PROVE  RunnerTypeOK' /\ \A q \in Runners : RunOK(q)'
<1> USE DEF Snapshot
<1>1. RunnerTypeOK
  BY TypeParts DEF TypeInv
<1>2. PICK s \in Orders(Candidates) : ids' = [ids EXCEPT ![r] = s]
  OBVIOUS
<1>3. Candidates \in SUBSET Nodes
  BY DEF Candidates, TypeInv, TypeOK
<1>4. s \in Seq(Nodes) /\ \A i, j \in DOMAIN s : s[i] = s[j] => i = j
  BY <1>2, <1>3, OrdersAreSeqs
<1>5. degree' \in [Runners -> [Nodes -> Nat]]
  <2>1. [n \in Nodes |-> IF n \in Candidates THEN DegreeOf(n) ELSE 0] \in [Nodes -> Nat]
    BY DegreeType DEF TypeInv
  <2> QED
    BY <1>1, <2>1 DEF RunnerTypeOK
<1>6. pc' \in [Runners -> PcValues] /\ ids' \in [Runners -> Seq(Nodes)]
  BY <1>1, <1>2, <1>4 DEF RunnerTypeOK, PcValues
<1>7. RunnerTypeOK'
  BY <1>1, <1>5, <1>6 DEF RunnerTypeOK
<1>8. RunOK(r)'
  BY <1>1, <1>2, <1>4 DEF RunnerTypeOK, RunOK, Distinct, InsidePair, Fresh, Merging
<1>9. ASSUME NEW q \in Runners \ {r} PROVE RunOK(q)'
  <2>1. pc'[q] = pc[q] /\ ids'[q] = ids[q] /\ cursor'[q] = cursor[q]
    BY <1>1, <1>2 DEF RunnerTypeOK
  <2> QED
    BY <2>1, RunFrame DEF TypeInv
<1> QED
  BY <1>7, <1>8, <1>9

LEMMA FindMatchType ==
    ASSUME TypeInv, NEW r \in Runners, FindMatch(r)
    PROVE  RunnerTypeOK' /\ \A q \in Runners : RunOK(q)'
<1> USE DEF FindMatch
<1>1. RunnerTypeOK
  BY TypeParts DEF TypeInv
<1>2. PICK p \in Matches(r) : cursor' = [cursor EXCEPT ![r] = p]
  OBVIOUS
<1>3. ids[r] \in Seq(Nodes)
  BY <1>1 DEF RunnerTypeOK
<1>4. /\ p \in (DOMAIN ids[r]) \X (DOMAIN ids[r])
      /\ p[1] < p[2]
      /\ <<ids[r][p[1]], ids[r][p[2]]>> \in Similar
  BY DEF Matches
<1>5. p \in Nat \X Nat
  BY <1>3, <1>4
<1>6. pc' \in [Runners -> PcValues] /\ cursor' \in [Runners -> Nat \X Nat]
  BY <1>1, <1>2, <1>5 DEF RunnerTypeOK, PcValues
<1>7. RunnerTypeOK'
  BY <1>1, <1>6 DEF RunnerTypeOK
<1>8. RunOK(r)'
  <2>1. pc'[r] = "out" /\ ids'[r] = ids[r] /\ cursor'[r] = p
    BY <1>1, <1>2 DEF RunnerTypeOK
  <2>2. Left(r)' = ids[r][p[1]] /\ Right(r)' = ids[r][p[2]]
    BY <2>1 DEF Left, Right
  <2> QED
    BY <1>4, <2>1, <2>2 DEF RunOK, Distinct, InsidePair, Fresh, TypeInv
<1>9. ASSUME NEW q \in Runners \ {r} PROVE RunOK(q)'
  <2>1. pc'[q] = pc[q] /\ ids'[q] = ids[q] /\ cursor'[q] = cursor[q]
    BY <1>1, <1>2 DEF RunnerTypeOK
  <2> QED
    BY <2>1, RunFrame DEF TypeInv
<1> QED
  BY <1>7, <1>8, <1>9

LEMMA TypeInvStep == TypeInv /\ [Next]_vars => TypeInv'
<1> SUFFICES ASSUME TypeInv, [Next]_vars PROVE TypeInv'
  OBVIOUS
<1> DEFINE RunsOK == \A q \in Runners : RunOK(q)
<1>1. GraphTypeOK /\ CounterTypeOK /\ RunnerTypeOK /\ RunsOK
  BY TypeParts DEF TypeInv
<1>2. SUFFICES GraphTypeOK' /\ CounterTypeOK' /\ RunnerTypeOK' /\ RunsOK'
  BY DEF TypeInv, TypeOK, GraphTypeOK, CounterTypeOK, RunnerTypeOK
<1>3. UNCHANGED runnerVars => RunsOK'
  BY <1>1, RunFrame DEF runnerVars
<1>4. CASE UNCHANGED vars
  BY <1>1, <1>3, <1>4, TypeFrame DEF vars, graphVars, runnerVars, historyVars
<1>5. ASSUME NEW n \in Nodes, WriteNode(n) PROVE GraphTypeOK' /\ CounterTypeOK' /\ RunnerTypeOK' /\ RunsOK'
  <2>1. GraphTypeOK'
    BY <1>1, <1>5 DEF WriteNode, GraphTypeOK
  <2> QED
    BY <1>1, <1>3, <1>5, <2>1, TypeFrame, WriteType
    DEF WriteNode, Write, CounterTypeOK, historyVars
<1>6. ASSUME NEW n \in Nodes, DeleteNode(n) PROVE GraphTypeOK' /\ CounterTypeOK' /\ RunnerTypeOK' /\ RunsOK'
  <2>1. GraphTypeOK'
    BY <1>1, <1>6, WithoutType DEF DeleteNode
  <2> QED
    BY <1>1, <1>3, <1>6, <2>1, TypeFrame, WriteType
    DEF DeleteNode, Write, CounterTypeOK, historyVars
<1>7. ASSUME NEW a \in Nodes, NEW b \in Nodes, WriteEdge(a, b)
      PROVE  GraphTypeOK' /\ CounterTypeOK' /\ RunnerTypeOK' /\ RunsOK'
  <2>1. GraphTypeOK'
    BY <1>1, <1>7 DEF WriteEdge, GraphTypeOK, EdgeType
  <2> QED
    BY <1>1, <1>3, <1>7, <2>1, TypeFrame, WriteType DEF WriteEdge, Write, CounterTypeOK
<1>8. ASSUME NEW r \in Runners, RunStep(r)
      PROVE  GraphTypeOK' /\ CounterTypeOK' /\ RunnerTypeOK' /\ RunsOK'
  <2>1. CASE Start(r)
    <3>1. pc' = [pc EXCEPT ![r] = "snapshot"] /\ UNCHANGED <<ids, degree, cursor, merged, failed>>
      BY <2>1 DEF Start
    <3>2. RunnerTypeOK'
      BY <1>1, <3>1 DEF RunnerTypeOK, PcValues
    <3>3. RunOK(r)'
      BY <1>1, <2>1, <3>1 DEF RunnerTypeOK, Start, RunOK, Distinct, InsidePair, Fresh, Merging
    <3>4. ASSUME NEW q \in Runners \ {r} PROVE RunOK(q)'
      BY <1>1, <3>1, RunFrame DEF RunnerTypeOK
    <3>5. CounterTypeOK'
      BY <1>1, <2>1, ConsolidationBoundAssumption DEF Start, CounterTypeOK
    <3> QED
      BY <1>1, <2>1, <3>2, <3>3, <3>4, <3>5, TypeFrame DEF Start
  <2>2. CASE Snapshot(r)
    BY <1>1, <2>2, SnapshotType, TypeFrame DEF Snapshot, historyVars
  <2>3. CASE FindMatch(r)
    BY <1>1, <2>3, FindMatchType, TypeFrame DEF FindMatch, historyVars
  <2>4. CASE RedirectOut(r)
    <3>1. GraphTypeOK'
      <4>1. \A t \in Targets(r) : Keep(r) \in nodes /\ t \in nodes
        BY <1>1 DEF Targets, GraphTypeOK
      <4> QED
        BY <1>1, <2>4, <4>1 DEF RedirectOut, EdgeType, GraphTypeOK
    <3>2. pc' \in [Runners -> PcValues] /\ RunsOK'
      BY <1>1, <2>4, ProceedType DEF RedirectOut, Merging, PcValues
    <3> QED
      BY <1>1, <2>4, <3>1, <3>2, TypeFrame DEF RedirectOut, RunnerTypeOK, historyVars
  <2>5. CASE RedirectIn(r)
    <3>1. GraphTypeOK'
      <4>1. \A t \in Sources(r) : Keep(r) \in nodes /\ t \in nodes
        BY <1>1 DEF Sources, GraphTypeOK
      <4> QED
        BY <1>1, <2>5, <4>1 DEF RedirectIn, EdgeType, GraphTypeOK
    <3>2. pc' \in [Runners -> PcValues] /\ RunsOK'
      BY <1>1, <2>5, ProceedType DEF RedirectIn, Merging, PcValues
    <3> QED
      BY <1>1, <2>5, <3>1, <3>2, TypeFrame DEF RedirectIn, RunnerTypeOK, historyVars
  <2>6. CASE DeleteDropped(r)
    <3>1. GraphTypeOK'
      BY <1>1, <2>6, WithoutType DEF DeleteDropped
    <3>2. pc' \in [Runners -> PcValues] /\ RunsOK'
      BY <1>1, <2>6, ProceedType DEF DeleteDropped, Merging, PcValues
    <3>3. merged' \in [Runners -> SUBSET Nodes]
      <4>1. Drop(r) \in Nodes
        BY <2>6, MergedPair DEF DeleteDropped, Merging
      <4> QED
        BY <1>1, <2>6, <4>1 DEF DeleteDropped, RunnerTypeOK
    <3> QED
      BY <1>1, <2>6, <3>1, <3>2, <3>3, TypeFrame DEF DeleteDropped, RunnerTypeOK, historyVars
  <2>7. CASE EndFusion(r)
    <3>1. pc' \in [Runners -> PcValues] /\ RunsOK'
      BY <1>1, <2>7, ProceedType DEF EndFusion, Merging, PcValues
    <3> QED
      BY <1>1, <2>7, <3>1, TypeFrame DEF EndFusion, RunnerTypeOK, historyVars
  <2>8. CASE FusionError(r)
    <3>1. pc' \in [Runners -> PcValues] /\ RunsOK'
      BY <1>1, <2>8, ProceedType DEF FusionError, Merging, PcValues
    <3>2. failed' \in [Runners -> BOOLEAN]
      BY <1>1, <2>8 DEF FusionError, RunnerTypeOK
    <3>3. RunnerTypeOK'
      BY <1>1, <2>8, <3>1, <3>2 DEF FusionError, RunnerTypeOK
    <3>4. CounterTypeOK'
      BY <1>1, <2>8, FaultType DEF FusionError, CounterTypeOK, historyVars
    <3> QED
      BY <1>1, <2>8, <3>1, <3>3, <3>4, TypeFrame DEF FusionError
  <2>9. CASE Finish(r)
    BY <1>1, <2>9, ForgetType, TypeFrame DEF Finish, Forget, historyVars
  <2>10. CASE Crash(r)
    <3>1. CounterTypeOK'
      BY <1>1, <2>10, FaultType DEF Crash, Forget, CounterTypeOK, historyVars
    <3> QED
      BY <1>1, <2>10, <3>1, ForgetType, TypeFrame DEF Crash, Forget
  <2> QED
    BY <1>8, <2>1, <2>2, <2>3, <2>4, <2>5, <2>6, <2>7, <2>8, <2>9, <2>10 DEF RunStep
<1> QED
  BY <1>4, <1>5, <1>6, <1>7, <1>8 DEF Next, Pairs

\* Type correctness of consolidation, and with it that no edge ever dangles:
\* see TypeOK.
THEOREM TypeCorrect == Spec => []TypeOK
<1>1. TypeInv => TypeOK
  BY DEF TypeInv
<1> QED
  BY <1>1, TypeInvInit, TypeInvStep, PTL DEF Spec

-----------------------------------------------------------------------------
(* Relations are not made up                                               *)

LEMMA EdgesEarnedStep == TypeInv /\ EdgesAreEarned /\ [Next]_vars => EdgesAreEarned'
<1> SUFFICES ASSUME TypeInv, EdgesAreEarned, [Next]_vars PROVE EdgesAreEarned'
  OBVIOUS
<1> USE DEF EdgesAreEarned
<1>1. edges' \subseteq edges /\ everEdges' = everEdges => EdgesAreEarned'
  OBVIOUS
<1>2. CASE UNCHANGED vars
  BY <1>1, <1>2 DEF vars, graphVars, historyVars
<1>3. ASSUME NEW n \in Nodes, WriteNode(n) \/ DeleteNode(n) PROVE EdgesAreEarned'
  BY <1>1, <1>3 DEF WriteNode, DeleteNode, Without, historyVars
<1>4. ASSUME NEW a \in Nodes, NEW b \in Nodes, WriteEdge(a, b) PROVE EdgesAreEarned'
  <2>1. \A e \in edges' : e \in edges \/ (e[2] = a /\ e[3] = b)
    BY <1>4 DEF WriteEdge
  <2> QED
    BY <1>4, <2>1 DEF WriteEdge, ClusterPair
<1>5. ASSUME NEW r \in Runners, RedirectOut(r) PROVE EdgesAreEarned'
  <2>1. ClusterOf[Keep(r)] = ClusterOf[Drop(r)]
    BY <1>5, MergedPair DEF RedirectOut, Merging
  <2>2. ASSUME NEW t \in Targets(r) PROVE ClusterPair(Keep(r), t) \in everEdges
    <3>1. PICK k \in EdgeType : <<k, Drop(r), t>> \in edges
      BY DEF Targets
    <3> QED
      BY <2>1, <3>1 DEF ClusterPair
  <2>3. \A e \in edges' : e \in edges \/ \E t \in Targets(r) : e[2] = Keep(r) /\ e[3] = t
    BY <1>5 DEF RedirectOut
  <2>4. everEdges' = everEdges
    BY <1>5 DEF RedirectOut, historyVars
  <2> QED
    BY <2>2, <2>3, <2>4
<1>6. ASSUME NEW r \in Runners, RedirectIn(r) PROVE EdgesAreEarned'
  <2>1. ClusterOf[Keep(r)] = ClusterOf[Drop(r)]
    BY <1>6, MergedPair DEF RedirectIn, Merging
  <2>2. ASSUME NEW t \in Sources(r) PROVE ClusterPair(t, Keep(r)) \in everEdges
    <3>1. PICK k \in EdgeType : <<k, t, Drop(r)>> \in edges
      BY DEF Sources
    <3> QED
      BY <2>1, <3>1 DEF ClusterPair
  <2>3. \A e \in edges' : e \in edges \/ \E t \in Sources(r) : e[2] = t /\ e[3] = Keep(r)
    BY <1>6 DEF RedirectIn
  <2>4. everEdges' = everEdges
    BY <1>6 DEF RedirectIn, historyVars
  <2> QED
    BY <2>2, <2>3, <2>4
<1>7. ASSUME NEW r \in Runners,
             \/ Start(r) \/ Snapshot(r) \/ FindMatch(r) \/ DeleteDropped(r)
             \/ EndFusion(r) \/ FusionError(r) \/ Finish(r) \/ Crash(r)
      PROVE  EdgesAreEarned'
  BY <1>1, <1>7 DEF Start, Snapshot, FindMatch, DeleteDropped, Without, EndFusion,
     FusionError, Finish, Crash, Forget, graphVars, historyVars
<1> QED
  BY <1>2, <1>3, <1>4, <1>5, <1>6, <1>7 DEF Next, RunStep, Pairs

\* Fusion makes no relation up, whatever overlaps and fails: see EdgesAreEarned.
THEOREM EdgesEarned == Spec => []EdgesAreEarned
<1>1. Init => EdgesAreEarned
  BY DEF Init, EdgesAreEarned, ClusterPair
<1> QED
  BY <1>1, TypeInvInit, TypeInvStep, EdgesEarnedStep, PTL DEF Spec

-----------------------------------------------------------------------------
(* What a run leaves behind                                                *)

\* Every similar pair up to the cursor has lost one of its nodes, but for the
\* pair that is being merged.
SettledBehind(r) ==
    pc[r] \in Comparing =>
        \A i, j \in DOMAIN ids[r] :
            /\ i < j
            /\ <<ids[r][i], ids[r][j]>> \in Similar
            /\ ~Before(cursor[r], <<i, j>>)
            => \/ pc[r] \in Merging /\ cursor[r] = <<i, j>>
               \/ ids[r][i] \in merged[r]
               \/ ids[r][j] \in merged[r]

LeftoversAt(r) ==
    pc[r] = "rest" /\ ~failed[r] =>
        \A i, j \in DOMAIN ids[r] :
            i < j /\ {ids[r][i], ids[r][j]} \cap merged[r] = {} =>
                <<ids[r][i], ids[r][j]>> \notin Similar

LeftInv == \A r \in Runners : SettledBehind(r) /\ LeftoversAt(r)

LEMMA LeftFrame ==
    ASSUME NEW q \in Runners, SettledBehind(q), LeftoversAt(q),
           pc'[q] = pc[q], ids'[q] = ids[q], cursor'[q] = cursor[q],
           merged'[q] = merged[q], failed'[q] = failed[q]
    PROVE  SettledBehind(q)' /\ LeftoversAt(q)'
  BY DEF SettledBehind, LeftoversAt, Before

\* The first pair yet to merge: everything before it has been dealt with.
LEMMA LeftFindMatch ==
    ASSUME TypeInv, NEW r \in Runners, SettledBehind(r), FindMatch(r)
    PROVE  SettledBehind(r)'
<1>1. PICK p \in Matches(r) : /\ \A q \in Matches(r) : q = p \/ Before(p, q)
                              /\ cursor' = [cursor EXCEPT ![r] = p]
  BY DEF FindMatch
<1>2. ids[r] \in Seq(Nodes) /\ cursor[r] \in Nat \X Nat
  BY DEF TypeInv, TypeOK
<1>3. pc[r] = "compare" /\ pc'[r] = "out" /\ cursor'[r] = p
      /\ ids'[r] = ids[r] /\ merged'[r] = merged[r]
  BY <1>1 DEF FindMatch, TypeInv, TypeOK
<1>4. p \in Nat \X Nat
  BY <1>2 DEF Matches
<1>5. ASSUME NEW i \in DOMAIN ids[r], NEW j \in DOMAIN ids[r], i < j,
             <<ids[r][i], ids[r][j]>> \in Similar, ~Before(p, <<i, j>>), p # <<i, j>>
      PROVE  ids[r][i] \in merged[r] \/ ids[r][j] \in merged[r]
  <2>1. CASE ~Before(cursor[r], <<i, j>>)
    BY <1>3, <1>5, <2>1 DEF SettledBehind, Comparing, Merging
  <2>2. CASE Before(cursor[r], <<i, j>>)
    <3>1. <<i, j>> \notin Matches(r)
      BY <1>1, <1>5
    <3>2. i \in Nat /\ j \in Nat
      BY <1>2
    <3>3. i = cursor[r][1] \/ i > cursor[r][1]
      BY <1>2, <2>2, <3>2 DEF Before
    <3> QED
      BY <1>5, <2>2, <3>1, <3>3 DEF Matches, RowOpen
  <2> QED
    BY <2>1, <2>2
<1> QED
  BY <1>3, <1>5 DEF SettledBehind, Merging

\* No pair yet to merge: nothing similar is left.
LEMMA LeftEndFusion ==
    ASSUME TypeInv, NEW r \in Runners, SettledBehind(r), EndFusion(r)
    PROVE  LeftoversAt(r)'
<1>1. ids[r] \in Seq(Nodes) /\ cursor[r] \in Nat \X Nat
  BY DEF TypeInv, TypeOK
<1>2. pc[r] = "compare" /\ ids'[r] = ids[r] /\ merged'[r] = merged[r]
  BY DEF EndFusion
<1>3. ASSUME NEW i \in DOMAIN ids[r], NEW j \in DOMAIN ids[r], i < j,
             ids[r][i] \notin merged[r], ids[r][j] \notin merged[r],
             <<ids[r][i], ids[r][j]>> \in Similar
      PROVE  FALSE
  <2>1. Before(cursor[r], <<i, j>>)
    BY <1>2, <1>3 DEF SettledBehind, Comparing, Merging
  <2>2. i \in Nat /\ j \in Nat
    BY <1>1
  <2>3. i = cursor[r][1] \/ i > cursor[r][1]
    BY <1>1, <2>1, <2>2 DEF Before
  <2>4. <<i, j>> \in Matches(r)
    BY <1>3, <2>1, <2>3 DEF Matches, RowOpen
  <2> QED
    BY <2>4 DEF EndFusion
<1> QED
  BY <1>2, <1>3 DEF LeftoversAt

LEMMA LeftInvStep == TypeInv /\ LeftInv /\ [Next]_vars => LeftInv'
<1> SUFFICES ASSUME TypeInv, LeftInv, [Next]_vars, NEW q \in Runners
             PROVE  SettledBehind(q)' /\ LeftoversAt(q)'
  BY DEF LeftInv
<1> DEFINE Goal == SettledBehind(q)' /\ LeftoversAt(q)'
<1>1. RunnerTypeOK /\ SettledBehind(q) /\ LeftoversAt(q) /\ RunOK(q)
  BY TypeParts DEF LeftInv, TypeInv
<1>2. UNCHANGED runnerVars => Goal
  BY <1>1, LeftFrame DEF runnerVars
<1>3. CASE UNCHANGED vars
  BY <1>2, <1>3 DEF vars
<1>4. ASSUME NEW n \in Nodes, WriteNode(n) \/ DeleteNode(n) PROVE Goal
  BY <1>2, <1>4 DEF WriteNode, DeleteNode
<1>5. ASSUME NEW a \in Nodes, NEW b \in Nodes, WriteEdge(a, b) PROVE Goal
  BY <1>2, <1>5 DEF WriteEdge
<1>6. ASSUME NEW r \in Runners, RunStep(r), r # q PROVE Goal
  <2>1. /\ pc'[q] = pc[q] /\ ids'[q] = ids[q] /\ cursor'[q] = cursor[q]
        /\ merged'[q] = merged[q] /\ failed'[q] = failed[q]
    BY <1>1, <1>6 DEF RunStep, Start, Snapshot, FindMatch, RedirectOut, RedirectIn,
       DeleteDropped, EndFusion, FusionError, Finish, Crash, Forget, RunnerTypeOK
  <2> QED
    BY <1>1, <2>1, LeftFrame
<1>7. ASSUME RunStep(q) PROVE Goal
  <2>1. CASE Start(q) \/ Finish(q) \/ Crash(q)
    <3>1. pc'[q] \in {"idle", "snapshot"}
      BY <1>1, <2>1 DEF Start, Finish, Crash, Forget, RunnerTypeOK
    <3> QED
      BY <3>1 DEF SettledBehind, LeftoversAt, Comparing, Merging
  <2>2. CASE Snapshot(q)
    <3>1. pc'[q] = "compare" /\ cursor'[q] = <<0, 0>>
      BY <1>1, <2>2 DEF Snapshot, RunOK, Fresh, RunnerTypeOK
    <3>2. ids'[q] \in Seq(Nodes)
      BY <2>2, SnapshotType DEF RunnerTypeOK
    <3>3. \A i, j \in DOMAIN ids'[q] : Before(<<0, 0>>, <<i, j>>)
      BY <3>2 DEF Before
    <3>4. SettledBehind(q)'
      BY <3>1, <3>3 DEF SettledBehind, Before
    <3> QED
      BY <3>1, <3>4 DEF LeftoversAt
  <2>3. CASE FindMatch(q)
    <3>1. pc'[q] = "out"
      BY <1>1, <2>3 DEF FindMatch, RunnerTypeOK
    <3> QED
      BY <1>1, <2>3, <3>1, LeftFindMatch DEF LeftoversAt
  <2>4. CASE RedirectOut(q) \/ RedirectIn(q)
    <3>1. /\ pc[q] \in Merging /\ pc'[q] \in Merging
          /\ UNCHANGED <<ids, cursor, merged>>
      BY <1>1, <2>4 DEF RedirectOut, RedirectIn, RunnerTypeOK, Merging
    <3>2. SettledBehind(q)'
      BY <1>1, <3>1 DEF SettledBehind, Comparing, Before
    <3> QED
      BY <3>1, <3>2 DEF LeftoversAt, Merging
  <2>5. CASE DeleteDropped(q)
    <3>1. /\ pc[q] = "delete" /\ pc'[q] = "compare" /\ UNCHANGED <<ids, cursor>>
          /\ merged'[q] = merged[q] \cup {Drop(q)}
      BY <1>1, <2>5 DEF DeleteDropped, RunnerTypeOK
    <3>2. Drop(q) = ids[q][cursor[q][1]] \/ Drop(q) = ids[q][cursor[q][2]]
      BY DEF Drop, Left, Right
    <3>3. SettledBehind(q)'
      BY <1>1, <3>1, <3>2 DEF SettledBehind, Comparing, Merging, Before
    <3> QED
      BY <3>1, <3>3 DEF LeftoversAt
  <2>6. CASE EndFusion(q)
    <3>1. pc'[q] = "rest"
      BY <1>1, <2>6 DEF EndFusion, RunnerTypeOK
    <3> QED
      BY <1>1, <2>6, <3>1, LeftEndFusion DEF SettledBehind, Comparing, Merging
  <2>7. CASE FusionError(q)
    <3>1. pc'[q] = "rest" /\ failed'[q]
      BY <1>1, <2>7 DEF FusionError, RunnerTypeOK
    <3> QED
      BY <3>1 DEF SettledBehind, LeftoversAt, Comparing, Merging
  <2> QED
    BY <1>7, <2>1, <2>2, <2>3, <2>4, <2>5, <2>6, <2>7 DEF RunStep
<1> QED
  BY <1>3, <1>4, <1>5, <1>6, <1>7 DEF Next, Pairs

\* A run without an error leaves no similar pair behind: see LeftoversDiffer.
THEOREM NothingSimilarLeft == Spec => []LeftoversDiffer
<1>1. Init => LeftInv
  BY DEF Init, LeftInv, SettledBehind, LeftoversAt, Comparing, Merging
<1>2. LeftInv => LeftoversDiffer
  BY DEF LeftInv, LeftoversAt, LeftoversDiffer
<1> QED
  BY <1>1, <1>2, TypeInvInit, TypeInvStep, LeftInvStep, PTL DEF Spec

-----------------------------------------------------------------------------
(* A run that meets nobody keeps the relations of what it merges           *)

OneAtATime ==
    ~overlapped => \A q, r \in Runners : q # r => pc[q] = "idle" \/ pc[r] = "idle"

\* The kept node already has the relations of the dropped one, outgoing ones
\* after the first statement and incoming ones after the second.
Redirected(r) ==
    ~overlapped /\ writes = 0 /\ Keep(r) \in nodes =>
        \A e \in edges :
            /\ pc[r] \in {"in", "delete"} /\ e[2] = Drop(r) /\ e[3] \notin {Keep(r), Drop(r)} =>
                   <<"RELATED_TO", Keep(r), e[3]>> \in edges
            /\ pc[r] = "delete" /\ e[3] = Drop(r) /\ e[2] \notin {Keep(r), Drop(r)} =>
                   <<"RELATED_TO", e[2], Keep(r)>> \in edges

MergeInv == OneAtATime /\ \A r \in Runners : Redirected(r)

LEMMA RedirectedOut ==
    ASSUME TypeInv, NEW r \in Runners, RedirectOut(r)
    PROVE  Redirected(r)'
<1>1. Keep(r)' = Keep(r) /\ Drop(r)' = Drop(r)
  BY DEF RedirectOut, Keep, Drop, LeftWins, Left, Right
<1>2. pc'[r] = "in" /\ nodes' = nodes
  BY DEF RedirectOut, TypeInv, TypeOK
<1>3. Keep(r) # Drop(r)
  BY MergedPair DEF RedirectOut, Merging
<1>4. ASSUME Keep(r) \in nodes, NEW e \in edges', e[2] = Drop(r), e[3] \notin {Keep(r), Drop(r)}
      PROVE  <<"RELATED_TO", Keep(r), e[3]>> \in edges'
  <2>1. e \in edges
    BY <1>3, <1>4 DEF RedirectOut
  <2>2. e = <<e[1], e[2], e[3]>> /\ e[1] \in EdgeType /\ e[3] \in Nodes
    BY <2>1 DEF TypeInv, TypeOK
  <2>3. e[3] \in Targets(r)
    BY <1>4, <2>1, <2>2 DEF Targets
  <2> QED
    BY <2>3 DEF RedirectOut
<1> QED
  BY <1>1, <1>2, <1>4 DEF Redirected

LEMMA RedirectedIn ==
    ASSUME TypeInv, NEW r \in Runners, Redirected(r), RedirectIn(r)
    PROVE  Redirected(r)'
<1>1. Keep(r)' = Keep(r) /\ Drop(r)' = Drop(r)
  BY DEF RedirectIn, Keep, Drop, LeftWins, Left, Right
<1>2. /\ pc[r] = "in" /\ pc'[r] = "delete" /\ nodes' = nodes
      /\ overlapped' = overlapped /\ writes' = writes
  BY DEF RedirectIn, TypeInv, TypeOK, historyVars
<1>3. Keep(r) # Drop(r)
  BY MergedPair DEF RedirectIn, Merging
<1>4. ASSUME Keep(r) \in nodes, NEW e \in edges', e[3] = Drop(r), e[2] \notin {Keep(r), Drop(r)}
      PROVE  <<"RELATED_TO", e[2], Keep(r)>> \in edges'
  <2>1. e \in edges
    BY <1>3, <1>4 DEF RedirectIn
  <2>2. e = <<e[1], e[2], e[3]>> /\ e[1] \in EdgeType /\ e[2] \in Nodes
    BY <2>1 DEF TypeInv, TypeOK
  <2>3. e[2] \in Sources(r)
    BY <1>4, <2>1, <2>2 DEF Sources
  <2> QED
    BY <2>3 DEF RedirectIn
<1>5. ASSUME ~overlapped, writes = 0, Keep(r) \in nodes,
             NEW e \in edges', e[2] = Drop(r), e[3] \notin {Keep(r), Drop(r)}
      PROVE  <<"RELATED_TO", Keep(r), e[3]>> \in edges'
  <2>1. e \in edges
    BY <1>5 DEF RedirectIn
  <2> QED
    BY <1>2, <1>5, <2>1 DEF Redirected, RedirectIn
<1> QED
  BY <1>1, <1>2, <1>4, <1>5 DEF Redirected

LEMMA OneAtATimeStep == TypeInv /\ OneAtATime /\ [Next]_vars => OneAtATime'
<1> SUFFICES ASSUME TypeInv, OneAtATime, [Next]_vars PROVE OneAtATime'
  OBVIOUS
<1> USE DEF OneAtATime
<1>1. pc \in [Runners -> PcValues]
  BY DEF TypeInv, TypeOK
<1>2. UNCHANGED <<pc, overlapped>> => OneAtATime'
  OBVIOUS
<1>3. CASE UNCHANGED vars
  BY <1>2, <1>3 DEF vars, runnerVars, historyVars
<1>4. ASSUME NEW n \in Nodes, WriteNode(n) \/ DeleteNode(n) PROVE OneAtATime'
  BY <1>2, <1>4 DEF WriteNode, DeleteNode, runnerVars, historyVars
<1>5. ASSUME NEW a \in Nodes, NEW b \in Nodes, WriteEdge(a, b) PROVE OneAtATime'
  BY <1>2, <1>5 DEF WriteEdge, runnerVars
<1>6. ASSUME NEW r \in Runners, Start(r) PROVE OneAtATime'
  BY <1>1, <1>6 DEF Start
<1>7. ASSUME NEW r \in Runners, RunStep(r), ~Start(r) PROVE OneAtATime'
  <2>1. pc[r] # "idle" /\ overlapped' = overlapped /\ \A q \in Runners \ {r} : pc'[q] = pc[q]
    BY <1>1, <1>7 DEF RunStep, Snapshot, FindMatch, RedirectOut, RedirectIn,
       DeleteDropped, EndFusion, FusionError, Finish, Crash, Forget, historyVars
  <2> QED
    BY <2>1
<1> QED
  BY <1>3, <1>4, <1>5, <1>6, <1>7 DEF Next, RunStep, Pairs

LEMMA RedirectedStep ==
    ASSUME TypeInv, MergeInv, [Next]_vars, NEW q \in Runners
    PROVE  Redirected(q)'
<1>1. Redirected(q) /\ OneAtATime /\ RunnerTypeOK /\ CounterTypeOK
  BY TypeParts DEF MergeInv, TypeInv
<1>2. ASSUME UNCHANGED <<graphVars, runnerVars, overlapped, writes>> PROVE Redirected(q)'
  <2>1. Keep(q)' = Keep(q) /\ Drop(q)' = Drop(q)
    BY <1>2 DEF Keep, Drop, LeftWins, Left, Right, runnerVars
  <2> QED
    BY <1>1, <1>2, <2>1 DEF Redirected, graphVars, runnerVars
<1>3. CASE UNCHANGED vars
  BY <1>2, <1>3 DEF vars, historyVars
<1>4. Write => Redirected(q)'
  BY <1>1 DEF Write, Redirected, CounterTypeOK
<1>5. ASSUME NEW n \in Nodes, WriteNode(n) \/ DeleteNode(n) PROVE Redirected(q)'
  BY <1>4, <1>5 DEF WriteNode, DeleteNode
<1>6. ASSUME NEW a \in Nodes, NEW b \in Nodes, WriteEdge(a, b) PROVE Redirected(q)'
  BY <1>4, <1>6 DEF WriteEdge
<1>7. ASSUME NEW r \in Runners, RunStep(r), r # q PROVE Redirected(q)'
  <2>1. pc'[q] = pc[q]
    BY <1>1, <1>7 DEF RunStep, Start, Snapshot, FindMatch, RedirectOut, RedirectIn,
       DeleteDropped, EndFusion, FusionError, Finish, Crash, Forget, RunnerTypeOK
  <2>2. CASE pc[q] = "idle"
    BY <2>1, <2>2 DEF Redirected
  <2>3. CASE pc[q] # "idle" /\ Start(r)
    BY <1>7, <2>3 DEF Start, Redirected
  <2>4. CASE pc[q] # "idle" /\ ~Start(r)
    <3>1. pc[r] # "idle"
      BY <1>7, <2>4 DEF RunStep, Snapshot, FindMatch, RedirectOut, RedirectIn,
         DeleteDropped, EndFusion, FusionError, Finish, Crash
    <3>2. overlapped
      BY <1>1, <1>7, <2>4, <3>1 DEF OneAtATime
    <3>3. overlapped' = overlapped
      BY <1>7, <2>4 DEF RunStep, Snapshot, FindMatch, RedirectOut, RedirectIn,
         DeleteDropped, EndFusion, FusionError, Finish, Crash, Forget, historyVars
    <3> QED
      BY <3>2, <3>3 DEF Redirected
  <2> QED
    BY <2>2, <2>3, <2>4
<1>8. ASSUME RunStep(q), ~RedirectOut(q), ~RedirectIn(q) PROVE Redirected(q)'
  <2>1. pc'[q] \notin {"in", "delete"}
    BY <1>1, <1>8 DEF RunStep, Start, Snapshot, FindMatch,
       DeleteDropped, EndFusion, FusionError, Finish, Crash, Forget, RunnerTypeOK
  <2> QED
    BY <2>1 DEF Redirected
<1>9. CASE RedirectOut(q)
  BY <1>9, RedirectedOut
<1>10. CASE RedirectIn(q)
  BY <1>1, <1>10, RedirectedIn
<1> QED
  BY <1>3, <1>5, <1>6, <1>7, <1>8, <1>9, <1>10 DEF Next, Pairs

\* A merge that no other run and no writer disturbs keeps every relation of the
\* dropped node: see MergeKeepsRelations.
THEOREM MergesKeep == Spec => MergeKeepsRelations
<1>1. Init => MergeInv
  BY DEF Init, MergeInv, OneAtATime, Redirected
<1>2. TypeInv /\ MergeInv /\ [Next]_vars => MergeInv'
  BY OneAtATimeStep, RedirectedStep DEF MergeInv
<1> DEFINE Kept(r, e) ==
      /\ e[2] = Drop(r) /\ e[3] \notin {Keep(r), Drop(r)} =>
             <<"RELATED_TO", Keep(r), e[3]>> \in edges'
      /\ e[3] = Drop(r) /\ e[2] \notin {Keep(r), Drop(r)} =>
             <<"RELATED_TO", e[2], Keep(r)>> \in edges'
<1>3. ASSUME TypeInv, MergeInv, NEW r \in Runners, DeleteDropped(r), Keep(r) \in nodes,
             ~overlapped, writes = 0, NEW e \in edges
      PROVE  Kept(r, e)
  <2>1. Keep(r) # Drop(r)
    BY <1>3, MergedPair DEF DeleteDropped, Merging
  <2>2. pc[r] = "delete" /\ edges' = {f \in edges : ~Touches(f, Drop(r))}
    BY <1>3 DEF DeleteDropped, Without
  <2>3. Redirected(r)
    BY <1>3 DEF MergeInv
  <2> QED
    BY <1>3, <2>1, <2>2, <2>3 DEF Redirected, Touches
<1>4. TypeInv /\ MergeInv =>
        [\A r \in Runners :
          DeleteDropped(r) /\ Keep(r) \in nodes /\ ~overlapped /\ writes = 0 =>
              \A e \in edges :
                  /\ e[2] = Drop(r) /\ e[3] \notin {Keep(r), Drop(r)} =>
                         <<"RELATED_TO", Keep(r), e[3]>> \in edges'
                  /\ e[3] = Drop(r) /\ e[2] \notin {Keep(r), Drop(r)} =>
                         <<"RELATED_TO", e[2], Keep(r)>> \in edges']_vars
  BY <1>3
<1> HIDE DEF Kept
<1> QED
  BY <1>1, <1>2, <1>4, TypeInvInit, TypeInvStep, PTL DEF Spec, MergeKeepsRelations
=============================================================================
