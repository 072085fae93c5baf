------------------------- MODULE SupersessionProofs -------------------------
(***************************************************************************)
(* Proofs about Supersession, for any payloads, edges, conflicts and       *)
(* number of faults: the type invariant (which says that marks and items   *)
(* of a pass are edges that are stored), that a pass which missed nothing  *)
(* leaves no earlier conflicting fact current, that the last of requests   *)
(* which do not overlap stands, and that the roles it made stale are gone. *)
(*                                                                         *)
(* The second rests on Shown: until it has been marked, by whichever pass, *)
(* every fact that a pass has to supersede is among the items in its hand. *)
(* The last two rest on OthersRest: without overlap only the last payload  *)
(* is in the works, so only its edges mark, and nothing else writes roles. *)
(***************************************************************************)
EXTENDS Supersession, TLAPS

Unwritten == {"new", "resolved", "failed", "nodes"}

\* A payload's edges are written once.
OnceInOrder == \A m, n \in DOMAIN order : order[m] = order[n] => m = n

\* Where a payload is says whether its edges are stored.
StageOK ==
    \A p \in Payloads : /\ stage[p] \in Unwritten => p \notin HasEdges
                        /\ stage[p] \in {"written", "gated"} => p \in HasEdges

\* A pass is about an edge that is stored, unless it never really ran.
PassOK ==
    \A e \in Edges : pc[e] \in Running \/ (pc[e] = "done" /\ e \notin missed) => e \in Stored

TypeInv == TypeOK /\ OnceInOrder /\ StageOK /\ PassOK

-----------------------------------------------------------------------------
(* Lemmas on the operators of the model                                    *)

\* The payloads with edges, after one more was written.
LEMMA AppendedOrder ==
    ASSUME order \in Seq(Payloads), NEW p \in Payloads, order' = Append(order, p)
    PROVE  /\ HasEdges' = HasEdges \cup {p}
           /\ DOMAIN order' = DOMAIN order \cup {Len(order) + 1}
           /\ order'[Len(order) + 1] = p
           /\ \A n \in DOMAIN order : order'[n] = order[n]
  BY DEF HasEdges

\* A step that stores no edge leaves what is stored as it is.
LEMMA SameStore == order' = order => HasEdges' = HasEdges /\ Stored' = Stored
  BY DEF HasEdges, Stored

LEMMA EdgesOfOnePayload ==
    ASSUME NEW p \in Payloads, p \in HasEdges
    PROVE  EdgesOf(p) \subseteq Stored
  BY DEF EdgesOf, Stored

\* The parts of TypeOK that concern one variable each.
LEMMA CoalesceType ==
    ASSUME NEW c \in Roles \cup {NoRole}, NEW d \in Roles \cup {NoRole}
    PROVE  Coalesce(d, c) \in Roles \cup {NoRole}
  BY DEF Coalesce

LEMMA RowType ==
    ASSUME TypeOK, NEW p \in Payloads, NEW x \in Entities
    PROVE  /\ MergedProps(p, x) \in Roles \cup {NoRole}
           /\ RowDescription(p, x) \in Roles \cup {NoRole}
<1>1. seen[p][x][1] \in Roles \cup {NoRole} /\ seen[p][x][2] \in Roles \cup {NoRole}
  BY DEF TypeOK
<1>2. Describes[p][x] \in Roles \cup {NoRole}
  BY PayloadAssumption
<1> QED
  BY <1>1, <1>2, CoalesceType DEF MergedProps, RowDescription

\* No step takes a FACT node out of the graph: it is there from the statement
\* that writes the nodes.
LEMMA FactsStay ==
    ASSUME TypeOK, stage' \in [Payloads -> StageValues],
           \A p \in Payloads : \/ stage'[p] = stage[p]
                               \/ stage[p] \in {"new", "resolved"}
                               \/ stage'[p] \in {"nodes", "written", "gated", "done"}
    PROVE  HasFact \subseteq HasFact'
  BY PayloadAssumption DEF TypeOK, HasFact

-----------------------------------------------------------------------------
(* Type correctness                                                        *)

LEMMA TypeInvInit == Init => TypeInv
<1> SUFFICES ASSUME Init PROVE TypeInv
  OBVIOUS
<1>1. order = <<>> /\ HasEdges = {}
  BY DEF Init, HasEdges
<1>2. NothingSeen \in [Entities -> (Roles \cup {NoRole}) \X (Roles \cup {NoRole})]
  BY DEF NothingSeen
<1>3. TypeOK
  <2>1. enabled \in BOOLEAN /\ overlapped \in BOOLEAN /\ newest \in Payloads
    BY Zenon DEF Init
  <2>2. order \in Seq(Payloads) /\ faults \in 0 .. MaxFaults
    BY <1>1, SupersessionBoundAssumption DEF Init
  <2>3. stage \in [Payloads -> StageValues] /\ pc \in [Edges -> PcValues]
    BY DEF Init, StageValues, PcValues
  <2>4. role \in Description /\ props \in Description
    BY DEF Init, Description
  <2>5. seen \in [Payloads -> [Entities -> (Roles \cup {NoRole}) \X (Roles \cup {NoRole})]]
    BY <1>2 DEF Init
  <2>6. /\ supersededBy \in [Edges -> Stored \cup {NoEdge}] /\ items \in [Edges -> SUBSET Stored]
        /\ hidden \subseteq HasFact /\ missed \subseteq Edges
    BY DEF Init
  <2> QED
    BY <2>1, <2>2, <2>3, <2>4, <2>5, <2>6 DEF TypeOK
<1> QED
  BY <1>1, <1>3 DEF Init, TypeInv, OnceInOrder, StageOK, PassOK, Unwritten, Running

\* What each step does to the parts of TypeOK that refer to other variables.
LEMMA LinksStay ==
    ASSUME TypeOK, HasFact \subseteq HasFact', HasEdges \subseteq HasEdges'
    PROVE  /\ Stored \subseteq Stored'
           /\ supersededBy \in [Edges -> Stored' \cup {NoEdge}]
           /\ items \in [Edges -> SUBSET Stored']
           /\ hidden \subseteq HasFact'
<1>1. Stored \subseteq Stored'
  BY DEF Stored
<1> QED
  BY <1>1 DEF TypeOK

LEMMA RequestStep ==
    ASSUME TypeInv, NEW p \in Payloads,
           Resolve(p) \/ WriteNodes(p) \/ WriteEdges(p) \/ WriteError(p)
    PROVE  TypeInv'
<1>1. TypeOK /\ OnceInOrder /\ StageOK /\ PassOK
  BY DEF TypeInv
<1>2. CASE Resolve(p)
  <2>1. /\ stage' = [stage EXCEPT ![p] = "resolved"] /\ stage[p] = "new"
        /\ UNCHANGED <<enabled, supersededBy, hidden, role, props, pc, items, order, missed, faults>>
        /\ newest' = p
    BY <1>2 DEF Resolve, passVars
  <2>2. HasFact \subseteq HasFact'
    BY <2>1, <1>1, PayloadAssumption DEF HasFact, TypeOK
  <2>3. HasEdges' = HasEdges /\ Stored' = Stored
    BY <2>1, SameStore
  <2>4. seen' \in [Payloads -> [Entities -> (Roles \cup {NoRole}) \X (Roles \cup {NoRole})]]
    BY <1>1, <1>2 DEF Resolve, TypeOK, Description
  <2>5. stage' \in [Payloads -> StageValues] /\ overlapped' \in BOOLEAN
    BY <1>1, <1>2 DEF Resolve, TypeOK, StageValues
  <2>6. TypeOK'
    BY <1>1, <2>1, <2>2, <2>3, <2>4, <2>5, LinksStay DEF TypeOK, Description
  <2> QED
    BY <1>1, <2>1, <2>3, <2>6 DEF TypeInv, OnceInOrder, StageOK, PassOK, Unwritten, TypeOK
<1>3. CASE WriteNodes(p)
  <2>1. /\ stage' = [stage EXCEPT ![p] = "nodes"] /\ stage[p] = "resolved"
        /\ UNCHANGED <<enabled, supersededBy, hidden, pc, items, historyVars, faults>>
    BY <1>3 DEF WriteNodes, passVars
  <2>2. HasFact \subseteq HasFact'
    BY <2>1, <1>1, PayloadAssumption DEF HasFact, TypeOK
  <2>3. HasEdges' = HasEdges /\ Stored' = Stored
    BY <2>1, SameStore DEF historyVars
  <2>4. seen' \in [Payloads -> [Entities -> (Roles \cup {NoRole}) \X (Roles \cup {NoRole})]]
    BY <1>1, <1>3 DEF WriteNodes, TypeOK, NothingSeen
  <2>5. role' \in Description /\ props' \in Description
    BY <1>1, <1>3, RowType, CoalesceType DEF WriteNodes, TypeOK, Description
  <2>6. stage' \in [Payloads -> StageValues]
    BY <1>1, <2>1 DEF TypeOK, StageValues
  <2>7. TypeOK'
    BY <1>1, <2>1, <2>2, <2>3, <2>4, <2>5, <2>6, LinksStay DEF TypeOK, historyVars
  <2> QED
    BY <1>1, <2>1, <2>3, <2>7
    DEF TypeInv, OnceInOrder, StageOK, PassOK, Unwritten, TypeOK, historyVars
<1>4. CASE WriteEdges(p)
  <2>1. /\ stage' = [stage EXCEPT ![p] = IF p \in SyncPayloads THEN "written" ELSE "done"]
        /\ stage[p] = "nodes" /\ order' = Append(order, p)
        /\ UNCHANGED <<enabled, supersededBy, hidden, role, props, seen, pc, items, newest, missed,
                       overlapped, faults>>
    BY <1>4 DEF WriteEdges, passVars
  <2>2. HasFact \subseteq HasFact'
    BY <2>1, <1>1, PayloadAssumption DEF HasFact, TypeOK
  <2>3. HasEdges' = HasEdges \cup {p}
    BY <1>1, <2>1, AppendedOrder DEF TypeOK
  <2>4. stage' \in [Payloads -> StageValues] /\ order' \in Seq(Payloads)
    BY <1>1, <2>1 DEF TypeOK, StageValues
  <2>5. TypeOK'
    BY <1>1, <2>1, <2>2, <2>3, <2>4, LinksStay DEF TypeOK, Description
  <2>6. p \notin HasEdges
    BY <1>1, <2>1 DEF StageOK, Unwritten
  <2>7. OnceInOrder'
    BY <1>1, <2>1, <2>6, AppendedOrder DEF TypeOK, OnceInOrder, HasEdges
  <2>8. StageOK'
    BY <1>1, <2>1, <2>3 DEF StageOK, TypeOK, Unwritten
  <2>9. PassOK'
    BY <1>1, <2>1, <2>3 DEF PassOK, Stored
  <2> QED
    BY <2>5, <2>7, <2>8, <2>9 DEF TypeInv
<1>5. CASE WriteError(p)
  <2>1. /\ stage' = [stage EXCEPT ![p] = Abandoned(p)] /\ stage[p] \in {"resolved", "nodes"}
        /\ UNCHANGED <<enabled, supersededBy, hidden, role, props, pc, items, historyVars>>
        /\ faults' = faults + 1 /\ faults < MaxFaults
    BY <1>5 DEF WriteError, passVars, Fault
  <2>2. HasFact \subseteq HasFact'
    BY <2>1, <1>1, PayloadAssumption DEF HasFact, TypeOK, Abandoned
  <2>3. HasEdges' = HasEdges /\ Stored' = Stored
    BY <2>1, SameStore DEF historyVars
  <2>4. seen' \in [Payloads -> [Entities -> (Roles \cup {NoRole}) \X (Roles \cup {NoRole})]]
    BY <1>1, <1>5 DEF WriteError, TypeOK, NothingSeen
  <2>5. stage' \in [Payloads -> StageValues] /\ faults' \in 0 .. MaxFaults
    BY <1>1, <2>1, SupersessionBoundAssumption DEF TypeOK, StageValues, Abandoned
  <2>6. TypeOK'
    BY <1>1, <2>1, <2>2, <2>3, <2>4, <2>5, LinksStay DEF TypeOK, historyVars, Description
  <2>7. stage'[p] \notin {"written", "gated"} /\ p \notin HasEdges
    BY <1>1, <2>1 DEF Abandoned, StageOK, Unwritten, TypeOK
  <2>8. StageOK'
    BY <1>1, <2>1, <2>3, <2>7 DEF StageOK, TypeOK
  <2> QED
    BY <1>1, <2>1, <2>3, <2>6, <2>8 DEF TypeInv, OnceInOrder, PassOK, historyVars
<1> QED
  BY <1>2, <1>3, <1>4, <1>5

\* The work of some payloads ends, as in TaskLost and Restart.
LEMMA StopStep ==
    ASSUME TypeInv, NEW P \in SUBSET Payloads, Stop(P), Fault,
           UNCHANGED <<enabled, supersededBy, hidden, props, order, newest, overlapped>>,
           role' \in Description, \A p \in P : stage[p] \notin {"new", "failed"}
    PROVE  TypeInv'
<1>1. TypeOK /\ OnceInOrder /\ StageOK /\ PassOK
  BY DEF TypeInv
<1>2. /\ stage' = [p \in Payloads |-> IF p \in P THEN Abandoned(p) ELSE stage[p]]
      /\ seen' = [p \in Payloads |-> IF p \in P THEN NothingSeen ELSE seen[p]]
      /\ pc' = [e \in Edges |-> IF PayloadOf[e] \in P THEN "done" ELSE pc[e]]
      /\ items' = [e \in Edges |-> IF PayloadOf[e] \in P THEN {} ELSE items[e]]
      /\ missed' = missed \cup {e \in Edges : PayloadOf[e] \in P /\ pc[e] # "done"}
  BY DEF Stop, End
<1>3. HasFact \subseteq HasFact'
  BY <1>1, <1>2, PayloadAssumption DEF HasFact, Abandoned, TypeOK
<1>4. HasEdges' = HasEdges /\ Stored' = Stored
  BY SameStore
<1>5. stage' \in [Payloads -> StageValues] /\ faults' \in 0 .. MaxFaults
  BY <1>1, <1>2, SupersessionBoundAssumption DEF TypeOK, StageValues, Abandoned, Fault
<1>6. /\ seen' \in [Payloads -> [Entities -> (Roles \cup {NoRole}) \X (Roles \cup {NoRole})]]
      /\ pc' \in [Edges -> PcValues]
  BY <1>1, <1>2 DEF TypeOK, NothingSeen, PcValues
<1>7. items' \in [Edges -> SUBSET Stored'] /\ missed' \subseteq Edges
  BY <1>1, <1>2, <1>4 DEF TypeOK
<1>8. TypeOK'
  BY <1>1, <1>3, <1>4, <1>5, <1>6, <1>7 DEF TypeOK, Description
<1>9. StageOK'
  BY <1>1, <1>2, <1>4 DEF StageOK, TypeOK, Abandoned, Unwritten, StageValues
<1>10. PassOK'
  BY <1>1, <1>2, <1>4 DEF PassOK, Running
<1> QED
  BY <1>1, <1>8, <1>9, <1>10 DEF TypeInv, OnceInOrder

\* Steps of resolve_supersession, and the switch.
LEMMA TaskStep ==
    ASSUME TypeInv, NEW p \in Payloads, Gate(p) \/ Classify(p)
    PROVE  TypeInv'
<1>1. TypeOK /\ OnceInOrder /\ StageOK /\ PassOK
  BY DEF TypeInv
<1>2. p \in HasEdges /\ EdgesOf(p) \subseteq Stored /\ EdgesOf(p) \subseteq Edges
  BY <1>1, EdgesOfOnePayload DEF Gate, Classify, StageOK, EdgesOf
<1>3. order' = order /\ HasEdges' = HasEdges /\ Stored' = Stored
  BY SameStore DEF Gate, Classify
<1>4. PICK s \in {"gated", "done"} :
          stage' = [stage EXCEPT ![p] = s] /\ stage[p] \in {"written", "gated"}
  BY DEF Gate, Classify
<1>5. HasFact \subseteq HasFact' /\ stage' \in [Payloads -> StageValues]
  BY <1>1, <1>4, PayloadAssumption DEF HasFact, TypeOK, StageValues
<1>6. /\ pc' \in [Edges -> PcValues] /\ missed' \subseteq Edges
      /\ \A e \in Edges : e \in EdgesOf(p) \/ pc'[e] = pc[e]
      /\ missed \subseteq missed'
  BY <1>1, <1>2 DEF Gate, Classify, TypeOK, PcValues, passVars
<1>7. faults' \in 0 .. MaxFaults
  BY <1>1, SupersessionBoundAssumption DEF Gate, Classify, Fault, TypeOK
<1>8. UNCHANGED <<enabled, supersededBy, hidden, role, props, seen, items, newest, overlapped>>
  BY DEF Gate, Classify, passVars
<1>9. TypeOK'
  BY <1>1, <1>3, <1>5, <1>6, <1>7, <1>8, LinksStay DEF TypeOK, Description
<1>10. StageOK'
  BY <1>1, <1>2, <1>3, <1>4 DEF StageOK, TypeOK, Unwritten
<1>11. PassOK'
  BY <1>1, <1>2, <1>3, <1>6 DEF PassOK
<1> QED
  BY <1>1, <1>3, <1>9, <1>10, <1>11 DEF TypeInv, OnceInOrder

\* A step of one pass, whose edge is stored.
LEMMA PassStep ==
    ASSUME TypeInv, NEW e \in Edges, Pass(e)
    PROVE  TypeInv'
<1>1. TypeOK /\ OnceInOrder /\ StageOK /\ PassOK
  BY DEF TypeInv
<1>2. pc[e] \in Running /\ e \in Stored
  BY <1>1 DEF Pass, Query, Judge, Mark, Neutralize, PassError, Running, PassOK
<1>3. /\ UNCHANGED <<enabled, stage, props, seen, order, newest, overlapped>>
  BY DEF Pass, Query, Judge, Mark, Neutralize, PassError, graphVars, historyVars
<1>4. HasEdges' = HasEdges /\ Stored' = Stored /\ HasFact' = HasFact
  BY <1>3, SameStore DEF HasFact
<1>5. /\ pc' \in [Edges -> PcValues] /\ \A f \in Edges : f = e \/ pc'[f] = pc[f]
      /\ missed \subseteq missed' /\ missed' \subseteq Edges
  BY <1>1 DEF Pass, Query, Judge, Mark, Neutralize, PassError, End, TypeOK, PcValues, historyVars
<1>6. faults' \in 0 .. MaxFaults
  BY <1>1, SupersessionBoundAssumption
     DEF Pass, Query, Judge, Mark, Neutralize, PassError, Fault, TypeOK
<1>7. items' \in [Edges -> SUBSET Stored]
  <2>1. CASE Query(e)
    BY <1>1, <2>1 DEF Query, Matches, Current, TypeOK
  <2>2. CASE Judge(e)
    BY <1>1, <2>2 DEF Judge, TypeOK
  <2> QED
    BY <1>1, <2>1, <2>2 DEF Pass, Mark, Neutralize, PassError, End, TypeOK
<1>8. supersededBy' \in [Edges -> Stored \cup {NoEdge}] /\ hidden' \subseteq HasFact
  BY <1>1, <1>2 DEF Pass, Query, Judge, Mark, Neutralize, PassError, TypeOK, graphVars, FactsWith
<1>9. role' \in Description
  BY <1>1 DEF Pass, Query, Judge, Mark, Neutralize, PassError, TypeOK, graphVars, Description
<1>10. TypeOK'
  BY <1>1, <1>3, <1>4, <1>5, <1>6, <1>7, <1>8, <1>9 DEF TypeOK, Description
<1>11. PassOK'
  BY <1>1, <1>2, <1>4, <1>5 DEF PassOK
<1> QED
  BY <1>1, <1>3, <1>4, <1>10, <1>11 DEF TypeInv, OnceInOrder, StageOK

LEMMA TypeInvStep == TypeInv /\ [Next]_vars => TypeInv'
<1> SUFFICES ASSUME TypeInv, [Next]_vars PROVE TypeInv'
  OBVIOUS
<1>1. CASE UNCHANGED vars
  BY <1>1 DEF vars, graphVars, passVars, historyVars, TypeInv, TypeOK, OnceInOrder, StageOK,
              PassOK, Stored, HasEdges, HasFact, Description
<1>2. CASE SetSupersession
  BY <1>2 DEF SetSupersession, passVars, historyVars, TypeInv, TypeOK, OnceInOrder, StageOK,
              PassOK, Stored, HasEdges, HasFact, Description
<1>3. CASE Restart
  <2>1. role' \in Description
    BY <1>3, CoalesceType DEF Restart, TypeInv, TypeOK, Description
  <2> QED
    BY <1>3, <2>1, StopStep DEF Restart
<1>4. ASSUME NEW p \in Payloads, TaskLost(p) PROVE TypeInv'
  <2>1. stage[p] \notin {"new", "failed"}
    BY <1>4, PayloadAssumption
       DEF TaskLost, TypeInv, StageOK, PassOK, Stored, EdgesOf, Unwritten
  <2>2. role' \in Description
    BY <1>4 DEF TaskLost, TypeInv, TypeOK
  <2> QED
    BY <1>4, <2>1, <2>2, StopStep DEF TaskLost
<1> QED
  BY <1>1, <1>2, <1>3, <1>4, RequestStep, TaskStep, PassStep DEF Next, Request

\* Every mark names a fact that is stored, a pass has only stored facts in its
\* hand, and only FACT nodes that were written are hidden.
THEOREM TypeCorrect == Spec => []TypeOK
<1>1. TypeInv => TypeOK
  BY DEF TypeInv
<1> QED
  BY <1>1, TypeInvInit, TypeInvStep, PTL DEF Spec

-----------------------------------------------------------------------------
(* The newer fact wins                                                     *)

\* A current fact that f has to supersede is in the hand of f's pass, from the
\* query to the mark; when the mark is done there is none.
Shown(f) ==
    \A e \in Edges : <<e, f>> \in Conflicts /\ NotAfter(e, f) /\ e \in Current =>
        /\ pc[f] \in {"judge", "mark"} => e \in items[f]
        /\ pc[f] \notin {"neutralize", "done"}

NewerInv == \A f \in Edges \ missed : Shown(f)

\* A write after f's makes no fact that f would have to supersede.
LEMMA LaterWrites ==
    ASSUME TypeInv, NEW p \in Payloads, WriteEdges(p), NEW f \in Edges, f \in Stored,
           NEW e \in Edges, NotAfter(e, f)', (e \in Current)'
    PROVE  NotAfter(e, f) /\ e \in Current
<1>1. order \in Seq(Payloads) /\ order' = Append(order, p) /\ supersededBy' = supersededBy
  BY DEF WriteEdges, TypeInv, TypeOK
<1>2. p \notin HasEdges
  BY DEF WriteEdges, TypeInv, StageOK, Unwritten
<1>3. PICK m, n \in DOMAIN order' :
          m <= n /\ order'[m] = PayloadOf[e] /\ order'[n] = PayloadOf[f]
  BY DEF NotAfter
<1>4. n # Len(order) + 1
  BY <1>1, <1>2, <1>3, AppendedOrder DEF Stored
<1>5. m \in DOMAIN order /\ n \in DOMAIN order
  BY <1>1, <1>3, <1>4
<1>6. order[m] = PayloadOf[e] /\ order[n] = PayloadOf[f]
  BY <1>1, <1>3, <1>5
<1> QED
  BY <1>1, <1>3, <1>5, <1>6 DEF NotAfter, Current, Stored, HasEdges

\* A step that stores nothing, clears no mark, and leaves f's pass alone.
LEMMA ShownFrame ==
    ASSUME NEW f \in Edges, Shown(f), order' = order, Current' \subseteq Current,
           pc'[f] = pc[f], items'[f] = items[f]
    PROVE  Shown(f)'
  BY DEF Shown, NotAfter

\* Work that is stopped had missed something, or was done.
LEMMA NewerStop ==
    ASSUME TypeInv, NEW f \in Edges, f \notin missed', Shown(f), NEW P \in SUBSET Payloads,
           Stop(P), order' = order, supersededBy' = supersededBy
    PROVE  Shown(f)'
<1>1. Current' = Current
  BY SameStore DEF Current
<1>2. CASE PayloadOf[f] \in P
  <2>1. pc[f] = "done" /\ pc'[f] = "done"
    BY <1>2 DEF Stop, End
  <2> QED
    BY <1>1, <2>1 DEF Shown, NotAfter
<1>3. CASE PayloadOf[f] \notin P
  BY <1>1, <1>3, ShownFrame DEF Stop, End
<1> QED
  BY <1>2, <1>3

LEMMA NewerQuery ==
    ASSUME TypeInv, NEW f \in Edges, Query(f), f \notin missed'
    PROVE  Shown(f)'
<1>1. /\ items'[f] = Matches(f) /\ pc'[f] = IF Matches(f) = {} THEN "done" ELSE "judge"
      /\ order' = order /\ supersededBy' = supersededBy
  BY DEF Query, graphVars, TypeInv, TypeOK
<1>2. Current' = Current
  BY <1>1, SameStore DEF Current
<1>3. ASSUME NEW e \in Edges, <<e, f>> \in Conflicts, e \in Current
      PROVE  e \in Matches(f)
  BY <1>3, ConflictAssumption DEF Matches
<1> QED
  BY <1>1, <1>2, <1>3 DEF Shown, NotAfter

LEMMA NewerJudge ==
    ASSUME TypeInv, NEW f \in Edges, Judge(f), f \notin missed', Shown(f)
    PROVE  Shown(f)'
<1> DEFINE outdated == {e \in items[f] : <<f, e>> \in Conflicts}
<1>1. /\ items'[f] = outdated /\ pc'[f] = IF outdated = {} THEN "done" ELSE "mark"
      /\ order' = order /\ supersededBy' = supersededBy /\ pc[f] = "judge"
  BY DEF Judge, graphVars, TypeInv, TypeOK
<1>2. Current' = Current
  BY <1>1, SameStore DEF Current
<1>3. ASSUME NEW e \in Edges, <<e, f>> \in Conflicts, NotAfter(e, f), e \in Current
      PROVE  e \in outdated
  BY <1>1, <1>3, ConflictAssumption DEF Shown
<1> QED
  BY <1>1, <1>2, <1>3 DEF Shown, NotAfter

LEMMA NewerMark ==
    ASSUME TypeInv, NEW f \in Edges, Mark(f), NEW g \in Edges, Shown(g)
    PROVE  Shown(g)'
<1>1. /\ supersededBy' = [e \in Edges |-> IF e \in items[f] THEN f ELSE supersededBy[e]]
      /\ order' = order /\ pc' = [pc EXCEPT ![f] = "neutralize"] /\ pc[f] = "mark"
      /\ items' = items
  BY DEF Mark, Marked, historyVars
<1>2. Current' \subseteq Current
  BY <1>1, SameStore, PayloadAssumption DEF Current, Stored
<1>3. ASSUME NEW e \in Edges, e \in items[f] PROVE e \notin Current'
  BY <1>1, <1>3, PayloadAssumption DEF Current
<1>4. CASE g = f
  BY <1>1, <1>2, <1>3, <1>4 DEF Shown, NotAfter
<1>5. CASE g # f
  BY <1>1, <1>2, <1>5, ShownFrame DEF TypeInv, TypeOK
<1> QED
  BY <1>4, <1>5

LEMMA NewerStep ==
    ASSUME TypeInv, NewerInv, [Next]_vars, NEW g \in Edges, g \notin missed'
    PROVE  Shown(g)'
<1> DEFINE Quiet == order' = order /\ supersededBy' = supersededBy
<1>1. Quiet => Current' = Current
  BY SameStore DEF Current
<1>2. Quiet /\ g \notin missed /\ pc'[g] = pc[g] /\ items'[g] = items[g] => Shown(g)'
  BY <1>1, ShownFrame DEF NewerInv
<1>3. CASE UNCHANGED vars
  BY <1>2, <1>3 DEF vars, graphVars, passVars, historyVars
<1>4. CASE SetSupersession
  BY <1>2, <1>4 DEF SetSupersession, passVars, historyVars
<1>5. CASE Restart
  BY <1>5, NewerStop DEF Restart, Stop, NewerInv
<1>6. ASSUME NEW p \in Payloads, Request(p) PROVE Shown(g)'
  <2>1. CASE WriteEdges(p)
    <3>1. pc' = pc /\ items' = items /\ missed' = missed
      BY <2>1 DEF WriteEdges, passVars
    <3>2. pc[g] \in {"judge", "mark", "neutralize", "done"} => g \in Stored
      BY <3>1 DEF TypeInv, PassOK, Running
    <3> QED
      BY <2>1, <3>1, <3>2, LaterWrites DEF NewerInv, Shown
  <2>2. CASE Resolve(p) \/ WriteNodes(p) \/ WriteError(p)
    BY <1>2, <2>2 DEF Resolve, WriteNodes, WriteError, passVars, historyVars
  <2>3. CASE Gate(p)
    BY <1>2, <2>3 DEF Gate, passVars, historyVars
  <2>4. CASE Classify(p)
    <3>1. Quiet /\ items' = items /\ g \notin missed
      BY <2>4 DEF Classify
    <3>2. pc'[g] = pc[g] \/ pc'[g] = "query"
      BY <2>4 DEF Classify
    <3>3. CASE pc'[g] = "query"
      BY <3>3 DEF Shown
    <3> QED
      BY <1>2, <3>1, <3>2, <3>3
  <2>5. CASE TaskLost(p)
    BY <2>5, NewerStop DEF TaskLost, Stop, NewerInv
  <2> QED
    BY <1>6, <2>1, <2>2, <2>3, <2>4, <2>5 DEF Request
<1>7. ASSUME NEW f \in Edges, Pass(f) PROVE Shown(g)'
  <2>1. CASE Mark(f)
    BY <2>1, NewerMark DEF Mark, historyVars, NewerInv
  <2>2. CASE f # g /\ ~Mark(f)
    BY <1>2, <1>7, <2>2 DEF Pass, Query, Judge, Neutralize, PassError, End, graphVars, historyVars,
                            TypeInv, TypeOK
  <2>3. CASE f = g /\ Query(f)
    BY <2>3, NewerQuery
  <2>4. CASE f = g /\ Judge(f)
    BY <2>4, NewerJudge DEF Judge, NewerInv
  <2>5. CASE f = g /\ Neutralize(f)
    <3>1. Quiet /\ g \notin missed /\ pc[g] = "neutralize" /\ pc'[g] = "done"
      BY <2>5 DEF Neutralize, End, historyVars
    <3> QED
      BY <1>1, <3>1 DEF NewerInv, Shown, NotAfter
  <2>6. CASE f = g /\ PassError(f)
    BY <2>6 DEF PassError
  <2> QED
    BY <1>7, <2>1, <2>2, <2>3, <2>4, <2>5, <2>6 DEF Pass
<1> QED
  BY <1>3, <1>4, <1>5, <1>6, <1>7 DEF Next

\* Whatever passes, writes, failures and switches overlap: a pass that is done and
\* missed nothing leaves no conflicting fact current that was written before it.
THEOREM NewerFactWins == Spec => []NewerWins
<1>1. Init => NewerInv
  BY DEF Init, NewerInv, Shown, NotAfter
<1>2. TypeInv /\ NewerInv /\ [Next]_vars => NewerInv'
  BY NewerStep DEF NewerInv
<1>3. NewerInv => NewerWins
  BY DEF NewerInv, Shown, NewerWins
<1> QED
  BY <1>1, <1>2, <1>3, TypeInvInit, TypeInvStep, PTL DEF Spec

-----------------------------------------------------------------------------
(* The last payload stands                                                 *)

\* Where no request was begun while another was in the works, only the last
\* one can be in the works.
OthersRest == ~overlapped => \A q \in Payloads \ {newest} : ~Active(q)

MarksStored == \A e \in Edges : supersededBy[e] # NoEdge => e \in Stored

\* What a pass is about to mark, or has marked, conflicts with its edge.
Judged ==
    \A e \in Edges : pc[e] \in {"mark", "neutralize"} => \A f \in items[e] : <<e, f>> \in Conflicts

PassesLast == \A e \in Edges : pc[e] \in Running => stage[PayloadOf[e]] = "done"

NewestCurrent ==
    ~overlapped /\ Consistent(newest) => \A e \in EdgesOf(newest) : supersededBy[e] = NoEdge

NewestShown ==
    ~overlapped /\ Consistent(newest) /\ newest \in hidden =>
        \E e \in EdgesOf(newest), f \in Edges \ EdgesOf(newest) :
            <<e, f>> \in Conflicts /\ Text[f] \in FactTexts[newest]

\* A role that came from a fact the last payload superseded is off the entity,
\* or the pass that superseded the fact is about to take it off.
RolesCleared ==
    ~overlapped /\ faults = 0 =>
        \A e \in Edges : supersededBy[e] \in EdgesOf(newest) =>
            \/ pc[supersededBy[e]] = "neutralize" /\ e \in items[supersededBy[e]]
            \/ \A x \in {Src[e], Tgt[e]} : role[x] \notin RolesIn[Text[e]]

LatestInv ==
    OthersRest /\ MarksStored /\ Judged /\ PassesLast /\ NewestCurrent /\ NewestShown /\ RolesCleared

LEMMA LatestInvInit == Init => LatestInv
<1> SUFFICES ASSUME Init PROVE LatestInv
  OBVIOUS
<1>1. OthersRest
  BY DEF Init, OthersRest, Active, Running, EdgesOf
<1>2. MarksStored /\ Judged /\ PassesLast /\ NewestCurrent /\ NewestShown
  BY DEF Init, MarksStored, Judged, PassesLast, NewestCurrent, NewestShown, Running, EdgesOf
<1>3. RolesCleared
  BY PayloadAssumption DEF Init, RolesCleared, EdgesOf
<1> QED
  BY <1>1, <1>2, <1>3 DEF LatestInv

\* Only its own request puts a payload into the works.
LEMMA RestKept ==
    ASSUME TypeInv, [Next]_vars, NEW q \in Payloads, ~Active(q), ~Resolve(q)
    PROVE  ~Active(q)'
<1>1. /\ stage \in [Payloads -> StageValues] /\ pc \in [Edges -> PcValues]
      /\ stage[q] \in {"new", "failed", "done"} /\ \A e \in EdgesOf(q) : pc[e] \notin Running
  BY DEF TypeInv, TypeOK, Active
<1>2. UNCHANGED <<stage, pc>> => ~Active(q)'
  BY DEF Active
<1>3. ASSUME NEW P \in SUBSET Payloads, Stop(P) PROVE ~Active(q)'
  <2>1. stage'[q] \in {"new", "failed", "done"}
    BY <1>1, <1>3 DEF Stop, Abandoned
  <2>2. \A e \in EdgesOf(q) : pc'[e] \notin Running
    BY <1>1, <1>3 DEF Stop, End, EdgesOf, Running
  <2> QED
    BY <2>1, <2>2 DEF Active
<1>4. ASSUME NEW p \in Payloads, Request(p) PROVE ~Active(q)'
  <2>1. CASE TaskLost(p)
    BY <1>3, <2>1 DEF TaskLost
  <2>2. CASE p # q /\ ~TaskLost(p)
    <3>1. stage'[q] = stage[q]
      BY <1>1, <1>4, <2>2 DEF Request, Resolve, WriteNodes, WriteEdges, WriteError, Gate, Classify
    <3>2. \A e \in EdgesOf(q) : pc'[e] = pc[e]
      BY <1>1, <1>4, <2>2 DEF Request, Resolve, WriteNodes, WriteEdges, WriteError, Gate, Classify,
                              passVars, EdgesOf
    <3> QED
      BY <1>1, <3>1, <3>2 DEF Active
  <2>3. CASE p = q /\ ~TaskLost(p)
    BY <1>1, <1>4, <2>3 DEF Request, Resolve, WriteNodes, WriteEdges, WriteError, Gate, Classify
  <2> QED
    BY <2>1, <2>2, <2>3
<1>5. ASSUME NEW e \in Edges, Pass(e) PROVE ~Active(q)'
  <2>1. stage' = stage /\ pc[e] \in Running /\ \A f \in Edges \ {e} : pc'[f] = pc[f]
    BY <1>1, <1>5 DEF Pass, Query, Judge, Mark, Neutralize, PassError, End, graphVars, Running
  <2>2. e \notin EdgesOf(q)
    BY <1>1, <2>1
  <2> QED
    BY <1>1, <2>1, <2>2 DEF Active, EdgesOf
<1>6. CASE SetSupersession \/ UNCHANGED vars
  BY <1>2, <1>6 DEF SetSupersession, vars, graphVars, passVars
<1>7. CASE Restart
  BY <1>3, <1>7 DEF Restart
<1> QED
  BY <1>4, <1>5, <1>6, <1>7 DEF Next

LEMMA OthersRestStep ==
    ASSUME TypeInv, OthersRest, [Next]_vars
    PROVE  OthersRest'
<1> SUFFICES ASSUME ~overlapped', NEW q \in Payloads, q # newest' PROVE ~Active(q)'
  BY DEF OthersRest
<1>1. ASSUME NEW p \in Payloads, Resolve(p) PROVE ~Active(q) /\ ~Resolve(q)
  <2>1. newest' = p /\ ~\E r \in Payloads \ {p} : Active(r)
    BY <1>1 DEF Resolve
  <2>2. ~Resolve(q)
    BY <2>1 DEF Resolve
  <2> QED
    BY <2>1, <2>2
<1>2. ASSUME ~\E p \in Payloads : Resolve(p) PROVE ~Active(q)
  <2>1. UNCHANGED <<newest, overlapped>>
    BY <1>2 DEF Next, Request, Pass, SetSupersession, Restart, TaskLost, WriteNodes, WriteEdges,
                WriteError, Gate, Classify, Query, Judge, Mark, Neutralize, PassError, vars, historyVars
  <2> QED
    BY <2>1 DEF OthersRest
<1> QED
  BY <1>1, <1>2, RestKept

\* Passes run for payloads whose requests are done, and mark what conflicts.
LEMMA PassesStep ==
    ASSUME TypeInv, MarksStored, Judged, PassesLast, [Next]_vars
    PROVE  MarksStored' /\ Judged' /\ PassesLast'
<1>1. /\ stage \in [Payloads -> StageValues] /\ pc \in [Edges -> PcValues]
      /\ items \in [Edges -> SUBSET Stored] /\ supersededBy \in [Edges -> Stored \cup {NoEdge}]
  BY DEF TypeInv, TypeOK
<1>2. UNCHANGED <<supersededBy, order>> => MarksStored'
  BY SameStore DEF MarksStored
<1>3. UNCHANGED <<pc, items>> => Judged'
  BY DEF Judged
<1>4. UNCHANGED <<pc, stage>> => PassesLast'
  BY DEF PassesLast
<1>5. ASSUME NEW P \in SUBSET Payloads, Stop(P), UNCHANGED <<supersededBy, order>>
      PROVE  MarksStored' /\ Judged' /\ PassesLast'
  <2>1. Judged' /\ PassesLast'
    BY <1>1, <1>5, PayloadAssumption DEF Stop, End, Judged, PassesLast, Running
  <2> QED
    BY <1>2, <1>5, <2>1
<1>6. ASSUME NEW p \in Payloads, Request(p) PROVE MarksStored' /\ Judged' /\ PassesLast'
  <2>1. CASE TaskLost(p)
    BY <1>5, <2>1 DEF TaskLost
  <2>2. CASE Classify(p)
    <3>1. Judged'
      BY <1>1, <2>2 DEF Classify, Judged
    <3>2. PassesLast'
      BY <1>1, <2>2, PayloadAssumption DEF Classify, PassesLast, EdgesOf, Running
    <3> QED
      BY <1>2, <2>2, <3>1, <3>2 DEF Classify
  <2>3. CASE ~TaskLost(p) /\ ~Classify(p)
    <3>1. UNCHANGED <<pc, items, supersededBy>> /\ (UNCHANGED order \/ order' = Append(order, p))
      BY <1>6, <2>3 DEF Request, Resolve, WriteNodes, WriteEdges, WriteError, Gate, passVars, historyVars
    <3>2. Stored \subseteq Stored'
      BY <3>1, AppendedOrder DEF Stored, HasEdges, TypeInv, TypeOK
    <3>3. stage[p] # "done" /\ \A q \in Payloads \ {p} : stage'[q] = stage[q]
      BY <1>1, <1>6, <2>3 DEF Request, Resolve, WriteNodes, WriteEdges, WriteError, Gate
    <3>4. PassesLast'
      BY <3>1, <3>3, PayloadAssumption DEF PassesLast
    <3> QED
      BY <1>3, <3>1, <3>2, <3>4 DEF MarksStored
  <2> QED
    BY <2>1, <2>2, <2>3
<1>7. ASSUME NEW e \in Edges, Pass(e) PROVE MarksStored' /\ Judged' /\ PassesLast'
  <2>1. stage' = stage /\ order' = order /\ pc[e] \in Running /\ \A f \in Edges \ {e} : pc'[f] = pc[f]
    BY <1>1, <1>7 DEF Pass, Query, Judge, Mark, Neutralize, PassError, End, graphVars, Running, historyVars
  <2>2. PassesLast'
    BY <2>1 DEF PassesLast
  <2>3. MarksStored'
    <3>1. CASE Mark(e)
      BY <1>1, <2>1, <3>1, SameStore DEF Mark, Marked, MarksStored
    <3>2. CASE ~Mark(e)
      BY <1>2, <1>7, <2>1, <3>2 DEF Pass, Query, Judge, Neutralize, PassError, graphVars
    <3> QED
      BY <3>1, <3>2
  <2>4. Judged'
    <3>1. CASE Query(e)
      BY <1>1, <3>1 DEF Query, Judged
    <3>2. CASE Judge(e)
      BY <1>1, <3>2 DEF Judge, Judged
    <3>3. CASE Mark(e)
      BY <1>1, <3>3 DEF Mark, Judged
    <3>4. CASE Neutralize(e) \/ PassError(e)
      BY <1>1, <3>4 DEF Neutralize, PassError, End, Judged
    <3> QED
      BY <1>7, <3>1, <3>2, <3>3, <3>4 DEF Pass
  <2> QED
    BY <2>2, <2>3, <2>4
<1>8. CASE SetSupersession \/ UNCHANGED vars
  BY <1>2, <1>3, <1>4, <1>8 DEF SetSupersession, vars, graphVars, passVars, historyVars
<1>9. CASE Restart
  BY <1>5, <1>9 DEF Restart
<1> QED
  BY <1>6, <1>7, <1>8, <1>9 DEF Next

\* Nothing is superseded, hidden or run for a payload before it is written.
LEMMA UnwrittenUntouched ==
    ASSUME TypeInv, MarksStored, NEW p \in Payloads, p \notin HasEdges
    PROVE  \A e \in Edges : /\ e \in EdgesOf(p) => supersededBy[e] = NoEdge
                            /\ supersededBy[e] \notin EdgesOf(p)
  BY PayloadAssumption DEF TypeInv, TypeOK, MarksStored, Stored, EdgesOf

LEMMA LatestStep ==
    ASSUME TypeInv, LatestInv, [Next]_vars
    PROVE  LatestInv'
<1>1. /\ stage \in [Payloads -> StageValues] /\ pc \in [Edges -> PcValues]
      /\ items \in [Edges -> SUBSET Stored] /\ supersededBy \in [Edges -> Stored \cup {NoEdge}]
      /\ hidden \subseteq HasFact /\ newest \in Payloads /\ faults \in 0 .. MaxFaults
      /\ role \in [Entities -> Roles \cup {NoRole}]
  BY DEF TypeInv, TypeOK, Description
<1>2. OthersRest' /\ MarksStored' /\ Judged' /\ PassesLast'
  BY OthersRestStep, PassesStep DEF LatestInv
<1> DEFINE Goal == NewestCurrent' /\ NewestShown' /\ RolesCleared'
<1>0. \A p : Consistent(p)' = Consistent(p) /\ EdgesOf(p)' = EdgesOf(p)
  BY DEF Consistent, EdgesOf
\* A step that supersedes and hides nothing, and takes roles at most away.
<1>3. UNCHANGED <<supersededBy, hidden, newest, overlapped>> =>
          (UNCHANGED <<role, pc, items, faults>> \/ faults' # 0 => Goal)
  BY <1>0 DEF LatestInv, NewestCurrent, NewestShown, RolesCleared
<1>4. Fault => faults' # 0
  BY <1>1 DEF Fault
<1>5. ASSUME NEW p \in Payloads, Resolve(p) PROVE Goal
  <2>1. p \notin HasEdges /\ p \notin hidden /\ newest' = p /\ UNCHANGED <<supersededBy, hidden>>
    BY <1>1, <1>5 DEF Resolve, HasFact, TypeInv, StageOK, Unwritten
  <2>2. \A e \in Edges : /\ e \in EdgesOf(p) => supersededBy[e] = NoEdge
                         /\ supersededBy[e] \notin EdgesOf(p)
    BY <2>1, UnwrittenUntouched DEF LatestInv
  <2>3. EdgesOf(p) \subseteq Edges /\ EdgesOf(p)' = EdgesOf(p)
    BY DEF EdgesOf
  <2>4. NewestCurrent'
    BY <2>1, <2>2, <2>3 DEF NewestCurrent
  <2>5. NewestShown'
    BY <2>1 DEF NewestShown
  <2>6. RolesCleared'
    BY <2>1, <2>2, <2>3 DEF RolesCleared
  <2> QED
    BY <2>4, <2>5, <2>6
<1>6. ASSUME NEW p \in Payloads, WriteNodes(p) PROVE Goal
  <2>1. UNCHANGED <<supersededBy, hidden, newest, overlapped>> /\ p \notin HasEdges /\ Active(p)
    BY <1>6 DEF WriteNodes, historyVars, TypeInv, StageOK, Unwritten, Active
  <2>2. NewestCurrent' /\ NewestShown'
    BY <1>0, <2>1 DEF LatestInv, NewestCurrent, NewestShown
  <2>3. RolesCleared'
    <3> SUFFICES ASSUME ~overlapped', NEW e \in Edges PROVE supersededBy'[e] \notin EdgesOf(newest')
      BY <1>0 DEF RolesCleared
    <3>1. newest = p
      BY <2>1 DEF LatestInv, OthersRest
    <3> QED
      BY <2>1, <3>1, UnwrittenUntouched DEF LatestInv
  <2> QED
    BY <2>2, <2>3
<1>7. ASSUME NEW p \in Payloads, WriteEdges(p) \/ Gate(p) PROVE Goal
  <2>1. UNCHANGED <<supersededBy, hidden, newest, overlapped, role, pc, items>> /\ (UNCHANGED faults \/ Fault)
    BY <1>7 DEF WriteEdges, Gate, passVars
  <2> QED
    BY <1>3, <1>4, <2>1
<1>8. ASSUME NEW p \in Payloads, Classify(p) PROVE Goal
  <2>1. UNCHANGED <<supersededBy, hidden, newest, overlapped, role, items, faults>>
    BY <1>8 DEF Classify
  <2>2. \A e \in Edges : pc[e] = "neutralize" => pc'[e] = pc[e]
    <3>1. ASSUME NEW e \in EdgesOf(p) PROVE pc[e] \notin Running
      BY <1>8 DEF Classify, LatestInv, PassesLast, EdgesOf
    <3> QED
      BY <1>8, <3>1 DEF Classify, Running
  <2>3. EdgesOf(newest) \subseteq Edges
    BY DEF EdgesOf
  <2>4. RolesCleared'
    BY <1>0, <2>1, <2>2, <2>3 DEF LatestInv, RolesCleared
  <2> QED
    BY <1>0, <2>1, <2>4 DEF LatestInv, NewestCurrent, NewestShown
<1>9. ASSUME NEW p \in Payloads, WriteError(p) \/ TaskLost(p) PROVE Goal
  <2>1. UNCHANGED <<supersededBy, hidden, newest, overlapped>> /\ Fault
    BY <1>9 DEF WriteError, TaskLost, historyVars
  <2> QED
    BY <1>3, <1>4, <2>1
<1>10. ASSUME Restart PROVE Goal
  <2>1. UNCHANGED <<supersededBy, hidden, newest, overlapped>> /\ Fault
    BY <1>10 DEF Restart
  <2> QED
    BY <1>3, <1>4, <2>1
<1>11. ASSUME SetSupersession \/ UNCHANGED vars PROVE Goal
  <2>1. UNCHANGED <<supersededBy, hidden, newest, overlapped, role, pc, items, faults>>
    BY <1>11 DEF SetSupersession, vars, graphVars, passVars, historyVars
  <2> QED
    BY <1>3, <2>1
<1>12. ASSUME NEW g \in Edges, PassError(g) PROVE Goal
  <2>1. UNCHANGED <<supersededBy, hidden, newest, overlapped>> /\ Fault
    BY <1>12 DEF PassError, graphVars
  <2> QED
    BY <1>3, <1>4, <2>1
<1>13. ASSUME NEW g \in Edges, Query(g) \/ Judge(g) PROVE Goal
  <2>1. UNCHANGED <<supersededBy, hidden, newest, overlapped, role, faults>>
    BY <1>13 DEF Query, Judge, graphVars
  <2>2. \A e \in Edges : pc[e] = "neutralize" => pc'[e] = pc[e] /\ items'[e] = items[e]
    BY <1>1, <1>13 DEF Query, Judge
  <2>3. EdgesOf(newest) \subseteq Edges
    BY DEF EdgesOf
  <2>4. RolesCleared'
    BY <1>0, <2>1, <2>2, <2>3 DEF LatestInv, RolesCleared
  <2> QED
    BY <1>0, <2>1, <2>4 DEF LatestInv, NewestCurrent, NewestShown
<1>14. ASSUME NEW g \in Edges, Mark(g) PROVE Goal
  <2>1. /\ UNCHANGED <<newest, overlapped, role, faults, items>>
        /\ supersededBy' = [f \in Edges |-> IF f \in items[g] THEN g ELSE supersededBy[f]]
        /\ hidden' = hidden \cup FactsWith(items[g])
        /\ pc' = [pc EXCEPT ![g] = "neutralize"] /\ pc[g] = "mark"
    BY <1>14 DEF Mark, Marked, historyVars
  <2>2. items[g] \subseteq Edges /\ \A f \in items[g] : <<g, f>> \in Conflicts
    BY <1>1, <2>1 DEF LatestInv, Judged, Stored
  <2>3. ~overlapped => g \in EdgesOf(newest)
    <3>1. Active(PayloadOf[g])
      BY <2>1, PayloadAssumption DEF Active, EdgesOf, Running
    <3> QED
      BY <3>1, PayloadAssumption DEF LatestInv, OthersRest, EdgesOf
  <2>4. ~overlapped /\ Consistent(newest) => items[g] \cap EdgesOf(newest) = {}
    BY <2>2, <2>3 DEF Consistent
  <2>5. NewestCurrent'
    BY <1>0, <2>1, <2>4 DEF LatestInv, NewestCurrent, EdgesOf
  <2>6. NewestShown'
    <3> SUFFICES ASSUME ~overlapped, Consistent(newest), newest \in hidden'
                 PROVE  \E e \in EdgesOf(newest), f \in Edges \ EdgesOf(newest) :
                            <<e, f>> \in Conflicts /\ Text[f] \in FactTexts[newest]
      BY <1>0, <2>1 DEF NewestShown
    <3>1. CASE newest \in hidden
      BY <3>1 DEF LatestInv, NewestShown
    <3>2. CASE newest \in FactsWith(items[g])
      <4>1. PICK f \in items[g] : Text[f] \in FactTexts[newest]
        BY <3>2 DEF FactsWith
      <4> QED
        BY <2>2, <2>3, <2>4, <4>1
    <3> QED
      BY <2>1, <3>1, <3>2
  <2>7. RolesCleared'
    <3> SUFFICES ASSUME ~overlapped, faults = 0, NEW e \in Edges, supersededBy'[e] \in EdgesOf(newest)
                 PROVE  \/ pc'[supersededBy'[e]] = "neutralize" /\ e \in items[supersededBy'[e]]
                        \/ \A x \in {Src[e], Tgt[e]} : role[x] \notin RolesIn[Text[e]]
      BY <1>0, <2>1 DEF RolesCleared
    <3>1. CASE e \in items[g]
      BY <1>1, <2>1, <3>1
    <3>2. CASE e \notin items[g]
      <4>1. supersededBy'[e] = supersededBy[e] /\ supersededBy[e] \in Edges
        BY <2>1, <3>2 DEF EdgesOf
      <4>2. pc[supersededBy[e]] = "neutralize" => pc'[supersededBy[e]] = "neutralize"
        BY <1>1, <2>1, <4>1
      <4> QED
        BY <4>1, <4>2 DEF LatestInv, RolesCleared
    <3> QED
      BY <3>1, <3>2
  <2> QED
    BY <2>5, <2>6, <2>7
<1>15. ASSUME NEW g \in Edges, Neutralize(g) PROVE Goal
  <2> DEFINE Off(x) == \E f \in items[g] : x \in {Src[f], Tgt[f]} /\ role[x] \in RolesIn[Text[f]]
  <2>1. /\ UNCHANGED <<supersededBy, hidden, newest, overlapped, faults>>
        /\ \A x \in Entities : role'[x] = IF Off(x) THEN NoRole ELSE role[x]
        /\ \A e \in Edges \ {g} : pc'[e] = pc[e] /\ items'[e] = items[e]
    BY <1>1, <1>15 DEF Neutralize, End, historyVars, Unsupported, LinkedFacts
  <2>2. \A e \in Edges : NoRole \notin RolesIn[Text[e]] /\ Src[e] \in Entities /\ Tgt[e] \in Entities
    BY PayloadAssumption
  <2>3. RolesCleared'
    <3> SUFFICES ASSUME ~overlapped, faults = 0, NEW e \in Edges, supersededBy[e] \in EdgesOf(newest)
                 PROVE  \/ pc'[supersededBy[e]] = "neutralize" /\ e \in items'[supersededBy[e]]
                        \/ \A x \in {Src[e], Tgt[e]} : role'[x] \notin RolesIn[Text[e]]
      BY <1>0, <2>1 DEF RolesCleared
    <3>1. \/ pc[supersededBy[e]] = "neutralize" /\ e \in items[supersededBy[e]]
          \/ \A x \in {Src[e], Tgt[e]} : role[x] \notin RolesIn[Text[e]]
      BY DEF LatestInv, RolesCleared
    <3>2. CASE \A x \in {Src[e], Tgt[e]} : role[x] \notin RolesIn[Text[e]]
      BY <2>1, <2>2, <3>2
    <3>3. CASE supersededBy[e] = g /\ e \in items[g]
      BY <2>1, <2>2, <3>3
    <3>4. CASE supersededBy[e] # g
      BY <2>1, <2>2, <3>1, <3>4 DEF EdgesOf
    <3> QED
      BY <3>1, <3>2, <3>3, <3>4
  <2> QED
    BY <1>0, <2>1, <2>3 DEF LatestInv, NewestCurrent, NewestShown
<1> HIDE DEF Goal
<1>16. ASSUME NEW p \in Payloads, Request(p) PROVE Goal
  BY <1>5, <1>6, <1>7, <1>8, <1>9, <1>16 DEF Request
<1>17. ASSUME NEW g \in Edges, Pass(g) PROVE Goal
  BY <1>12, <1>13, <1>14, <1>15, <1>17 DEF Pass
<1>18. Goal
  BY <1>10, <1>11, <1>16, <1>17 DEF Next
<1> QED
  BY <1>2, <1>18 DEF LatestInv, Goal

LEMMA LatestKept == Spec => [](TypeInv /\ LatestInv)
<1>1. TypeInv /\ LatestInv /\ [Next]_vars => (TypeInv /\ LatestInv)'
  BY TypeInvStep, LatestStep
<1> QED
  BY <1>1, TypeInvInit, LatestInvInit, PTL DEF Spec

\* Requests that do not overlap leave the last payload's edges current, whatever
\* passes and failures come, and hide its text only for a sentence it quotes.
THEOREM LatestPayloadStands == Spec => []LatestStands
<1>1. ASSUME TypeInv, LatestInv PROVE LatestStands
  <2> SUFFICES ASSUME ~overlapped, newest \in HasEdges, Consistent(newest)
               PROVE  /\ EdgesOf(newest) \subseteq Current
                      /\ newest \in hidden =>
                             \E e \in EdgesOf(newest), f \in Edges \ EdgesOf(newest) :
                                 <<e, f>> \in Conflicts /\ Text[f] \in FactTexts[newest]
    BY DEF LatestStands
  <2>1. EdgesOf(newest) \subseteq Stored
    BY <1>1, EdgesOfOnePayload DEF TypeInv, TypeOK
  <2> QED
    BY <1>1, <2>1 DEF LatestInv, NewestCurrent, NewestShown, Current
<1> QED
  BY <1>1, LatestKept, PTL

\* When the passes of the last payload are done, no entity keeps a role that came
\* from a fact it superseded.
THEOREM StaleRolesCleared == Spec => []StaleRolesGone
<1>1. ASSUME TypeInv, LatestInv PROVE StaleRolesGone
  <2> SUFFICES ASSUME ~overlapped, faults = 0, ~Active(newest),
                      NEW e \in Edges, supersededBy[e] \in EdgesOf(newest)
               PROVE  \A x \in {Src[e], Tgt[e]} : role[x] \notin RolesIn[Text[e]]
    BY DEF StaleRolesGone
  <2>1. pc[supersededBy[e]] # "neutralize"
    BY DEF Active, Running
  <2> QED
    BY <1>1, <2>1 DEF LatestInv, RolesCleared
<1> QED
  BY <1>1, LatestKept, PTL
=============================================================================
