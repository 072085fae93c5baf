------------------------- MODULE SwarmStreamProofs -------------------------
(***************************************************************************)
(* Proofs about SwarmStream for any nodes, listeners, numbers of events    *)
(* and faults, and any lease, idle, scan and LLM times: the type           *)
(* invariant, exclusion while leases run, and that neither an event nor a  *)
(* stamp is lost.                                                          *)
(*                                                                         *)
(* Exclusion rests on LeaseHeldBy: a worker whose own clock says that its  *)
(* lease runs is the registered holder, and the registered lease is no     *)
(* older than the worker believes.  NothingLost rests on AckJustified: by  *)
(* the time a worker acknowledges, the event was finished or malformed.    *)
(***************************************************************************)
EXTENDS SwarmStream, FiniteSetTheorems, TLAPS

\* Listeners only ever hold events that were delivered to the group.
Delivered ==
    /\ \A w \in Workers : inbox[w] \subseteq 1 .. lastDelivered
    /\ \A w \in Workers : pc[w] \in Holding \cup {"ack"} => current[w] \in 1 .. lastDelivered
    /\ \A e \in EntryId : pending[e] # NoWorker => e <= lastDelivered

TypeInv == TypeOK /\ Delivered

LeaseHeldBy(w) ==
    Working(w) /\ heldAge[w] <= LeaseDuration /\ Target(w) \in exists =>
        /\ claimedBy[Target(w)] = w
        /\ leaseAge[Target(w)] <= heldAge[w]

LeaseInv == LeaseIsExclusive /\ \A w \in Workers : LeaseHeldBy(w)

AckJustified ==
    \A w \in Workers :
        /\ pc[w] = "release" => current[w] \in handled
        /\ pc[w] = "ack" => current[w] \in handled \/ ~entries[current[w]].wellFormed

\* The stamp belongs to a call under way or to an unfinished event.
StampOwned ==
    \A n \in marker :
        \/ marking[n] > 0
        \/ n \in orphaned
        \/ \E e \in 1 .. Len(entries) :
               NodeOf(e) = n /\ entries[e].wellFormed /\ e \notin handled

EventInv ==
    /\ handled \subseteq 1 .. lastDelivered
    /\ NothingLost
    /\ AckJustified
    /\ StampOwned

\* A step after which v works only if it did before, on the same event and with
\* the same belief about its lease.
KeepsLease(v) ==
    pc'[v] \in Holding =>
        pc[v] \in Holding /\ current'[v] = current[v] /\ heldAge'[v] = heldAge[v]

\* A step that does not bring v to its acknowledgement.
KeepsAck(v) ==
    pc'[v] \in {"release", "ack"} => pc'[v] = pc[v] /\ current'[v] = current[v]

-----------------------------------------------------------------------------
(* Lemmas on the operators of the model                                    *)

LEMMA PageIsPart == \A S : Page(S) \subseteq S
  BY DEF Page

\* A page holds every event of S that is no later than one of its own.
LEMMA PageIsInitial ==
    ASSUME NEW S \in SUBSET EntryId, NEW last \in Page(S), NEW e \in S, e <= last
    PROVE  e \in Page(S)
<1> DEFINE Below(x) == {f \in S : f < x}
<1> USE SwarmBoundAssumption
<1>1. Below(e) \subseteq Below(last)
  <2>1. last \in S
    BY PageIsPart
  <2>2. last \in Int /\ e \in Int /\ \A f \in S : f \in Int
    BY <2>1 DEF EntryId
  <2>3. \A f \in S : f < e => f < last
    BY <2>2
  <2> QED
    BY <2>3
<1>2. IsFiniteSet(Below(last))
  <2>1. IsFiniteSet(EntryId)
    BY FS_Interval DEF EntryId
  <2>2. Below(last) \subseteq EntryId
    OBVIOUS
  <2> QED
    BY <2>1, <2>2, FS_Subset
<1>3. /\ IsFiniteSet(Below(e))
      /\ Cardinality(Below(e)) <= Cardinality(Below(last))
  BY <1>1, <1>2, FS_Subset
<1>4. Cardinality(Below(e)) \in Nat /\ Cardinality(Below(last)) \in Nat
  BY <1>2, <1>3, FS_CardinalityType
<1>5. Cardinality(Below(last)) < ReadCount
  BY DEF Page
<1>6. Cardinality(Below(e)) < ReadCount
  BY <1>3, <1>4, <1>5
<1> QED
  BY <1>6 DEF Page

LEMMA OlderType ==
    ASSUME NEW limit \in Nat, NEW age \in 0 .. limit
    PROVE  /\ Older(age, limit) \in 0 .. limit
           /\ Older(age, limit) >= age
           /\ Older(age, limit) <= age + 1
           /\ age < limit => Older(age, limit) = age + 1
  BY DEF Older

LEMMA MaxHeldType == MaxHeld \in Nat /\ MaxHeld > LeaseDuration /\ MaxHeld >= LlmTimeout
  BY SwarmBoundAssumption DEF MaxHeld

-----------------------------------------------------------------------------
(* Type correctness                                                        *)

LEMMA TypeInvInit == Init => TypeInv
<1> SUFFICES ASSUME Init PROVE TypeInv
  OBVIOUS
<1> USE SwarmBoundAssumption, MaxHeldType DEF Init
<1>1. GraphTypeOK /\ CallTypeOK
  BY DEF GraphTypeOK, CallTypeOK
<1>2. StreamTypeOK
  BY DEF StreamTypeOK, EntryId
<1>3. ListenerTypeOK /\ HistoryTypeOK
  BY DEF ListenerTypeOK, HistoryTypeOK, PcValues, LastPage
<1>4. Delivered
  BY DEF Delivered, Holding
<1> QED
  BY <1>1, <1>2, <1>3, <1>4 DEF TypeInv, TypeOK

\* What a step leaves alone keeps its type.
LEMMA TypeFrame ==
    /\ GraphTypeOK /\ UNCHANGED graphVars => GraphTypeOK'
    /\ CallTypeOK /\ UNCHANGED callVars => CallTypeOK'
    /\ StreamTypeOK /\ UNCHANGED streamVars => StreamTypeOK'
    /\ ListenerTypeOK /\ UNCHANGED workerVars => ListenerTypeOK'
    /\ HistoryTypeOK /\ UNCHANGED <<handled, orphaned, faults>> => HistoryTypeOK'
    /\ Delivered /\ UNCHANGED <<workerVars, streamVars>> => Delivered'
  BY DEF GraphTypeOK, CallTypeOK, StreamTypeOK, ListenerTypeOK, HistoryTypeOK, Delivered,
         graphVars, callVars, streamVars, workerVars

\* One listener moves to p with the inbox i and the current event c; the
\* pending list does not grow.
LEMMA ListenerMoves ==
    ASSUME ListenerTypeOK, StreamTypeOK, Delivered, NEW w \in Workers,
           NEW p \in PcValues, NEW i \in SUBSET (1 .. lastDelivered),
           NEW c \in 0 .. MaxCalls, NEW h \in 0 .. MaxHeld,
           p \in Holding \cup {"ack"} => c \in 1 .. lastDelivered,
           pc' = [pc EXCEPT ![w] = p], inbox' = [inbox EXCEPT ![w] = i],
           current' = [current EXCEPT ![w] = c], heldAge' = [heldAge EXCEPT ![w] = h],
           UNCHANGED <<scan, sinceScan, lastDelivered>>,
           \A e \in EntryId : pending'[e] # NoWorker => pending[e] # NoWorker
    PROVE  ListenerTypeOK' /\ Delivered'
<1> USE SwarmBoundAssumption
<1>1. 1 .. lastDelivered \subseteq EntryId
  BY DEF StreamTypeOK, EntryId
<1>2. ListenerTypeOK'
  BY <1>1 DEF ListenerTypeOK
<1>3. \A v \in Workers : inbox'[v] \subseteq 1 .. lastDelivered
  BY DEF ListenerTypeOK, Delivered
<1>4. \A v \in Workers : pc'[v] \in Holding \cup {"ack"} => current'[v] \in 1 .. lastDelivered
  BY DEF ListenerTypeOK, Delivered
<1>5. \A e \in EntryId : pending'[e] # NoWorker => e <= lastDelivered
  BY DEF Delivered
<1> QED
  BY <1>2, <1>3, <1>4, <1>5 DEF Delivered

LEMMA FaultType == HistoryTypeOK /\ (Fault \/ UNCHANGED faults) => faults' \in 0 .. MaxFaults
  BY SwarmBoundAssumption DEF HistoryTypeOK, Fault

LEMMA LeaveType ==
    ASSUME ListenerTypeOK, StreamTypeOK, Delivered, NEW w \in Workers, Leave(w),
           UNCHANGED lastDelivered,
           \A e \in EntryId : pending'[e] # NoWorker => pending[e] # NoWorker
    PROVE  ListenerTypeOK' /\ Delivered'
<1> USE SwarmBoundAssumption, MaxHeldType
<1>1. After(w, inbox[w]) \in PcValues \ (Holding \cup {"ack"})
  BY DEF After, PcValues, Holding
<1>2. inbox' = [inbox EXCEPT ![w] = inbox[w]] /\ inbox[w] \in SUBSET (1 .. lastDelivered)
  BY DEF Leave, ListenerTypeOK, Delivered
<1>3. 0 \in 0 .. MaxCalls /\ 0 \in 0 .. MaxHeld
  OBVIOUS
<1> QED
  BY <1>1, <1>2, <1>3, ListenerMoves DEF Leave

LEMMA SkipType ==
    ASSUME ListenerTypeOK, StreamTypeOK, Delivered, NEW w \in Workers, NEW e \in inbox[w],
           Skip(w, e), UNCHANGED streamVars
    PROVE  ListenerTypeOK' /\ Delivered'
<1> DEFINE rest == inbox[w] \ {e}
<1>1. After(w, rest) \in PcValues \ (Holding \cup {"ack"})
  BY DEF After, PcValues, Holding
<1>2. rest \in SUBSET (1 .. lastDelivered)
  BY DEF Delivered
<1>3. /\ current' = [current EXCEPT ![w] = current[w]] /\ current[w] \in 0 .. MaxCalls
      /\ heldAge' = [heldAge EXCEPT ![w] = heldAge[w]] /\ heldAge[w] \in 0 .. MaxHeld
  BY DEF Skip, ListenerTypeOK
<1> QED
  BY <1>1, <1>2, <1>3, ListenerMoves DEF Skip, streamVars

LEMMA TakeType ==
    ASSUME ListenerTypeOK, StreamTypeOK, Delivered, NEW w \in Workers, NEW e \in inbox[w],
           NEW p \in {"llm", "ack"}, Take(w, e, p), UNCHANGED streamVars
    PROVE  ListenerTypeOK' /\ Delivered'
<1> USE SwarmBoundAssumption, MaxHeldType
<1>1. e \in 1 .. lastDelivered /\ inbox[w] \ {e} \in SUBSET (1 .. lastDelivered)
  BY DEF Delivered
<1>2. e \in 0 .. MaxCalls /\ 0 \in 0 .. MaxHeld /\ p \in PcValues
  BY <1>1 DEF StreamTypeOK, PcValues
<1> QED
  BY <1>1, <1>2, ListenerMoves DEF Take, streamVars

\* A listener that goes on with its event.
LEMMA ProceedType ==
    ASSUME ListenerTypeOK, StreamTypeOK, Delivered, NEW w \in Workers,
           pc[w] \in Holding, NEW p \in {"write", "clear", "release", "ack"},
           pc' = [pc EXCEPT ![w] = p],
           UNCHANGED <<inbox, current, heldAge, scan, sinceScan, streamVars>>
    PROVE  ListenerTypeOK' /\ Delivered'
<1>1. /\ inbox' = [inbox EXCEPT ![w] = inbox[w]] /\ inbox[w] \in SUBSET (1 .. lastDelivered)
      /\ current' = [current EXCEPT ![w] = current[w]] /\ current[w] \in 0 .. MaxCalls
      /\ heldAge' = [heldAge EXCEPT ![w] = heldAge[w]] /\ heldAge[w] \in 0 .. MaxHeld
      /\ current[w] \in 1 .. lastDelivered
  BY DEF ListenerTypeOK, Delivered
<1>2. p \in PcValues
  BY DEF PcValues
<1> QED
  BY <1>1, <1>2, ListenerMoves DEF streamVars

LEMMA LeaseType ==
    ASSUME GraphTypeOK, NEW w \in Workers, NEW n, SetLease(w, n)
    PROVE  GraphTypeOK'
<1>1. 0 \in 0 .. LeaseDuration + 1
  BY SwarmBoundAssumption
<1>2. claimedBy' \in [Nodes -> Workers \cup {NoWorker}]
  BY DEF GraphTypeOK, SetLease
<1>3. leaseAge' \in [Nodes -> 0 .. LeaseDuration + 1]
  BY <1>1 DEF GraphTypeOK, SetLease
<1> QED
  BY <1>2, <1>3 DEF GraphTypeOK, SetLease

LEMMA TypeInvStep == TypeInv /\ [Next]_vars => TypeInv'
<1> SUFFICES ASSUME TypeInv, [Next]_vars PROVE TypeInv'
  OBVIOUS
<1> USE SwarmBoundAssumption, MaxHeldType
<1>0. GraphTypeOK /\ CallTypeOK /\ StreamTypeOK /\ ListenerTypeOK /\ HistoryTypeOK /\ Delivered
  BY DEF TypeInv, TypeOK
<1>Q. GraphTypeOK' /\ CallTypeOK' /\ StreamTypeOK' /\ ListenerTypeOK' /\ HistoryTypeOK' /\ Delivered'
      => TypeInv'
  BY DEF TypeInv, TypeOK
<1>1. ASSUME NEW n \in Nodes, Mark(n) PROVE TypeInv'
  <2>1. GraphTypeOK'
    BY <1>0, <1>1 DEF Mark, GraphTypeOK
  <2>2. CallTypeOK'
    <3>1. calls' \in 0 .. MaxCalls
      BY <1>0, <1>1 DEF Mark, CallTypeOK
    <3>2. marking' \in [Nodes -> Nat]
      BY <1>0, <1>1 DEF Mark, CallTypeOK
    <3> QED
      BY <3>1, <3>2 DEF CallTypeOK
  <2> QED
    BY <1>0, <1>Q, <1>1, <2>1, <2>2, TypeFrame DEF Mark
<1>2. ASSUME NEW n \in Nodes, MarkError(n) PROVE TypeInv'
  <2>1. GraphTypeOK' /\ orphaned' \subseteq Nodes
    BY <1>0, <1>2 DEF MarkError, GraphTypeOK, HistoryTypeOK
  <2>2. CallTypeOK'
    BY <1>0, <1>2 DEF MarkError, CallTypeOK
  <2>3. HistoryTypeOK'
    BY <1>0, <1>2, <2>1, FaultType DEF MarkError, HistoryTypeOK
  <2> QED
    BY <1>0, <1>Q, <1>2, <2>1, <2>2, <2>3, TypeFrame DEF MarkError
<1>3. ASSUME NEW n \in Nodes, AddEvent(n) PROVE TypeInv'
  <2>1. PICK ok \in BOOLEAN :
            /\ entries' = Append(entries, [node |-> n, wellFormed |-> ok])
            /\ orphaned' = IF ok THEN orphaned ELSE orphaned \cup {n}
    BY <1>3 DEF AddEvent
  <2>2. StreamTypeOK'
    <3>1. [node |-> n, wellFormed |-> ok] \in Event
      BY DEF Event
    <3>2. entries' \in Seq(Event) /\ Len(entries') = Len(entries) + 1
      BY <1>0, <2>1, <3>1 DEF StreamTypeOK
    <3>3. first' \in 1 .. MaxCalls + 1
      BY <1>0, <1>3 DEF AddEvent, StreamTypeOK
    <3> QED
      BY <1>0, <1>3, <3>2, <3>3 DEF AddEvent, StreamTypeOK
  <2>3. CallTypeOK'
    BY <1>0, <1>3 DEF AddEvent, CallTypeOK
  <2>4. HistoryTypeOK'
    BY <1>0, <1>3, <2>1 DEF AddEvent, HistoryTypeOK
  <2>5. Delivered'
    BY <1>0, <1>3 DEF AddEvent, Delivered, workerVars
  <2> QED
    BY <1>0, <1>Q, <1>3, <2>2, <2>3, <2>4, <2>5, TypeFrame DEF AddEvent
<1>4. ASSUME NEW n \in Nodes, AppendError(n) PROVE TypeInv'
  <2>1. CallTypeOK'
    BY <1>0, <1>4 DEF AppendError, CallTypeOK
  <2>2. HistoryTypeOK'
    BY <1>0, <1>4, FaultType DEF AppendError, HistoryTypeOK
  <2> QED
    BY <1>0, <1>Q, <1>4, <2>1, <2>2, TypeFrame DEF AppendError
<1>5. ASSUME NEW n \in Nodes, DeleteNode(n) PROVE TypeInv'
  <2>1. GraphTypeOK'
    BY <1>0, <1>5 DEF DeleteNode, GraphTypeOK
  <2> QED
    BY <1>0, <1>Q, <1>5, <2>1, TypeFrame DEF DeleteNode
<1>6. ASSUME NEW w \in Workers, Start(w) PROVE TypeInv'
  <2>1. ListenerTypeOK'
    BY <1>0, <1>6 DEF Start, ListenerTypeOK, PcValues
  <2>2. Delivered'
    BY <1>0, <1>6 DEF Start, Delivered, Holding, ListenerTypeOK, streamVars
  <2> QED
    BY <1>0, <1>Q, <1>6, <2>1, <2>2, TypeFrame DEF Start
<1>7. ASSUME NEW w \in Workers, Read(w) PROVE TypeInv'
  <2> DEFINE page == Page(NewEvents)
  <2>1. page \subseteq lastDelivered + 1 .. Len(entries) /\ page \subseteq EntryId
    BY <1>0, PageIsPart DEF NewEvents, StreamTypeOK, EntryId
  <2>2. lastDelivered' \in page /\ \A e \in page : e <= lastDelivered'
    BY <1>7 DEF Read
  <2>3. pending' = [e \in EntryId |-> IF e \in page THEN w ELSE pending[e]]
    BY <1>7 DEF Read, Deliver
  <2>4. idle' = [e \in EntryId |-> IF e \in page THEN 0 ELSE idle[e]]
    BY <1>7 DEF Read, Deliver
  <2>5. lastDelivered <= lastDelivered' /\ lastDelivered' <= Len(entries)
    BY <1>0, <2>1, <2>2 DEF StreamTypeOK
  <2> HIDE DEF page
  <2>6. /\ pc' \in {[pc EXCEPT ![w] = "pick"], [pc EXCEPT ![w] = "loop"]}
        /\ inbox' \in {[inbox EXCEPT ![w] = page], inbox}
    BY <1>7 DEF Read, page
  <2>7. UNCHANGED <<entries, first, current, scan, sinceScan, heldAge, graphVars, callVars, handled, orphaned>>
    BY <1>7 DEF Read
  <2>8. StreamTypeOK'
    <3>1. pending' \in [EntryId -> Workers \cup {NoWorker}]
      BY <1>0, <2>3 DEF StreamTypeOK
    <3>2. idle' \in [EntryId -> 0 .. MinIdle]
      BY <1>0, <2>4 DEF StreamTypeOK
    <3>3. lastDelivered' \in 0 .. Len(entries)
      BY <1>0, <2>1, <2>2 DEF StreamTypeOK
    <3> QED
      BY <1>0, <2>7, <3>1, <3>2, <3>3 DEF StreamTypeOK
  <2>9. ListenerTypeOK'
    BY <1>0, <2>1, <2>6, <2>7 DEF ListenerTypeOK, PcValues
  <2>10. Delivered'
    <3>1. \A v \in Workers : inbox'[v] \subseteq 1 .. lastDelivered'
      <4>0. lastDelivered \in Nat /\ lastDelivered' \in Nat /\ \A e \in page : e \in Nat \ {0}
        BY <1>0, <2>1, <2>2 DEF StreamTypeOK, EntryId
      <4>1. page \subseteq 1 .. lastDelivered'
        BY <2>2, <4>0
      <4>2. 1 .. lastDelivered \subseteq 1 .. lastDelivered'
        BY <2>5, <4>0
      <4> QED
        BY <1>0, <2>6, <4>1, <4>2 DEF Delivered, ListenerTypeOK
    <3>2. \A v \in Workers : pc'[v] \in Holding \cup {"ack"} => current'[v] \in 1 .. lastDelivered'
      <4>1. \A v \in Workers : pc'[v] \in Holding \cup {"ack"} => pc'[v] = pc[v]
        BY <1>0, <2>6 DEF ListenerTypeOK, Holding
      <4>0. lastDelivered \in Nat /\ lastDelivered' \in Nat
        BY <1>0, <2>1, <2>2 DEF StreamTypeOK, EntryId
      <4>2. 1 .. lastDelivered \subseteq 1 .. lastDelivered'
        BY <2>5, <4>0
      <4> QED
        BY <1>0, <2>7, <4>1, <4>2 DEF Delivered
    <3>3. \A e \in EntryId : pending'[e] # NoWorker => e <= lastDelivered'
      <4> SUFFICES ASSUME NEW e \in EntryId, pending'[e] # NoWorker PROVE e <= lastDelivered'
        OBVIOUS
      <4>1. CASE e \in page
        BY <2>2, <4>1
      <4>2. CASE e \notin page
        <5>1. e <= lastDelivered
          BY <1>0, <2>3, <4>2 DEF Delivered
        <5>2. lastDelivered \in Nat /\ lastDelivered' \in Nat /\ e \in Nat
          BY <1>0, <2>1, <2>2 DEF StreamTypeOK, EntryId
        <5> QED
          BY <2>5, <5>1, <5>2
      <4> QED
        BY <4>1, <4>2
    <3> QED
      BY <3>1, <3>2, <3>3 DEF Delivered
  <2>11. HistoryTypeOK'
    BY <1>0, <1>7, FaultType DEF Read, HistoryTypeOK
  <2> QED
    BY <1>0, <1>Q, <2>7, <2>8, <2>9, <2>10, <2>11, TypeFrame
<1>8. ASSUME NEW w \in Workers, ReadNothing(w) PROVE TypeInv'
  <2>1. ListenerTypeOK'
    BY <1>0, <1>8 DEF ReadNothing, ListenerTypeOK, PcValues
  <2>2. Delivered'
    BY <1>0, <1>8 DEF ReadNothing, Delivered, Holding, ListenerTypeOK, streamVars
  <2> QED
    BY <1>0, <1>Q, <1>8, <2>1, <2>2, TypeFrame DEF ReadNothing
<1>9. ASSUME NEW w \in Workers, StartScan(w) PROVE TypeInv'
  <2>1. ListenerTypeOK'
    BY <1>0, <1>9 DEF StartScan, ListenerTypeOK, PcValues, LastPage
  <2>2. Delivered'
    BY <1>0, <1>9 DEF StartScan, Delivered, Holding, ListenerTypeOK, streamVars
  <2> QED
    BY <1>0, <1>Q, <1>9, <2>1, <2>2, TypeFrame DEF StartScan
<1>10. ASSUME NEW w \in Workers, Reclaim(w) PROVE TypeInv'
  <2> DEFINE page == Page(Reclaimable(w))
             kept == {e \in page : e >= first}
             more == {e \in EntryId : pending[e] # NoWorker /\ \A f \in page : f < e}
  <2>1. \A e \in page : e \in EntryId /\ pending[e] # NoWorker
    BY PageIsPart DEF Reclaimable
  <2>2. page \subseteq 1 .. lastDelivered
    BY <1>0, <2>1 DEF Delivered, EntryId, StreamTypeOK
  <2>3. pending' = [e \in EntryId |-> IF e \in kept THEN w
                                      ELSE IF e \in page THEN NoWorker ELSE pending[e]]
    BY <1>10 DEF Reclaim, ReclaimPage
  <2>4. idle' = [e \in EntryId |-> IF e \in page THEN 0 ELSE idle[e]]
    BY <1>10 DEF Reclaim, ReclaimPage
  <2>5. \/ /\ inbox' = [inbox EXCEPT ![w] = kept]
           /\ pc' = [pc EXCEPT ![w] = IF kept = {} THEN "scan" ELSE "pick"]
           /\ \E cursor \in more \cup {LastPage} : scan' = [scan EXCEPT ![w] = cursor]
           /\ UNCHANGED <<sinceScan, faults>>
        \/ Fault /\ FinishScan(w) /\ UNCHANGED inbox
    BY <1>10 DEF Reclaim, ReclaimPage
  <2>6. UNCHANGED <<graphVars, callVars, entries, first, lastDelivered, current, heldAge, handled, orphaned>>
    BY <1>10 DEF Reclaim
  <2>7. kept \subseteq page /\ more \subseteq EntryId
    OBVIOUS
  <2> HIDE DEF page, kept, more
  <2>8. StreamTypeOK'
    <3>1. pending' \in [EntryId -> Workers \cup {NoWorker}]
      BY <1>0, <2>3 DEF StreamTypeOK
    <3>2. idle' \in [EntryId -> 0 .. MinIdle]
      BY <1>0, <2>4 DEF StreamTypeOK
    <3> QED
      BY <1>0, <2>6, <3>1, <3>2 DEF StreamTypeOK
  <2>9. pc' \in [Workers -> PcValues] /\ \A v \in Workers : pc'[v] \in Holding \cup {"ack"} => pc'[v] = pc[v]
    BY <1>0, <2>5 DEF FinishScan, ListenerTypeOK, PcValues, Holding
  <2>10. scan' \in [Workers -> 0 .. LastPage] /\ sinceScan' \in [Workers -> 0 .. ScanInterval]
    BY <1>0, <2>5, <2>7 DEF FinishScan, ListenerTypeOK, EntryId, LastPage
  <2>11. inbox' \in [Workers -> SUBSET EntryId] /\ \A v \in Workers : inbox'[v] \subseteq 1 .. lastDelivered
    BY <1>0, <2>1, <2>2, <2>5, <2>7 DEF ListenerTypeOK, Delivered
  <2>12. ListenerTypeOK'
    BY <1>0, <2>6, <2>9, <2>10, <2>11 DEF ListenerTypeOK
  <2>13. Delivered'
    <3>1. \A e \in EntryId : pending'[e] # NoWorker => pending[e] # NoWorker
      BY <2>1, <2>3, <2>7
    <3> QED
      BY <1>0, <2>6, <2>9, <2>11, <3>1 DEF Delivered
  <2>14. HistoryTypeOK'
    BY <1>0, <2>5, <2>6, FaultType DEF HistoryTypeOK
  <2> QED
    BY <1>0, <1>Q, <2>6, <2>8, <2>12, <2>13, <2>14, TypeFrame
<1>11. ASSUME NEW w \in Workers, EndScan(w) PROVE TypeInv'
  <2>1. ListenerTypeOK'
    BY <1>0, <1>11 DEF EndScan, FinishScan, ListenerTypeOK, PcValues, LastPage
  <2>2. Delivered'
    BY <1>0, <1>11 DEF EndScan, FinishScan, Delivered, Holding, ListenerTypeOK, streamVars
  <2> QED
    BY <1>0, <1>Q, <1>11, <2>1, <2>2, TypeFrame DEF EndScan
<1>12. ASSUME NEW w \in Workers, NEW e \in inbox[w], Discard(w, e) PROVE TypeInv'
  BY <1>0, <1>Q, <1>12, TakeType, TypeFrame DEF Discard
<1>13. ASSUME NEW w \in Workers, NEW e \in inbox[w], Claim(w, e) PROVE TypeInv'
  BY <1>0, <1>Q, <1>13, TakeType, LeaseType, TypeFrame DEF Claim
<1>14. ASSUME NEW w \in Workers, NEW e \in inbox[w], ClaimDenied(w, e) PROVE TypeInv'
  BY <1>0, <1>Q, <1>14, SkipType, TypeFrame DEF ClaimDenied
<1>15. ASSUME NEW w \in Workers, NEW e \in inbox[w], ClaimError(w, e) PROVE TypeInv'
  <2>1. GraphTypeOK'
    BY <1>0, <1>15, LeaseType, TypeFrame DEF ClaimError
  <2>2. HistoryTypeOK'
    BY <1>0, <1>15, FaultType DEF ClaimError, HistoryTypeOK
  <2> QED
    BY <1>0, <1>Q, <1>15, <2>1, <2>2, SkipType, TypeFrame DEF ClaimError
<1>16. ASSUME NEW w \in Workers, Answer(w) \/ WriteResult(w) PROVE TypeInv'
  <2>1. ListenerTypeOK' /\ Delivered'
    BY <1>0, <1>16, ProceedType DEF Answer, WriteResult, Holding
  <2> QED
    BY <1>0, <1>Q, <1>16, <2>1, TypeFrame DEF Answer, WriteResult
<1>17. ASSUME NEW w \in Workers, DispatchError(w) PROVE TypeInv'
  <2>1. HistoryTypeOK'
    BY <1>0, <1>17, FaultType DEF DispatchError, HistoryTypeOK
  <2>2. ListenerTypeOK' /\ Delivered'
    BY <1>0, <1>17, LeaveType DEF DispatchError, streamVars
  <2> QED
    BY <1>0, <1>Q, <1>17, <2>1, <2>2, TypeFrame DEF DispatchError
<1>18. ASSUME NEW w \in Workers, ClearError(w) PROVE TypeInv'
  <2>1. HistoryTypeOK'
    BY <1>0, <1>18, FaultType DEF ClearError, HistoryTypeOK
  <2>2. ListenerTypeOK' /\ Delivered'
    BY <1>0, <1>18, LeaveType DEF ClearError, streamVars
  <2>3. GraphTypeOK'
    BY <1>0, <1>18 DEF ClearError, GraphTypeOK
  <2> QED
    BY <1>0, <1>Q, <1>18, <2>1, <2>2, <2>3, TypeFrame DEF ClearError
<1>19. ASSUME NEW w \in Workers, ClearPheromone(w) PROVE TypeInv'
  <2>1. current[w] \in EntryId
    BY <1>0, <1>19 DEF ClearPheromone, Delivered, Holding, StreamTypeOK, EntryId
  <2>2. GraphTypeOK'
    BY <1>0, <1>19 DEF ClearPheromone, GraphTypeOK
  <2>3. HistoryTypeOK'
    BY <1>0, <1>19, <2>1 DEF ClearPheromone, HistoryTypeOK
  <2>4. ListenerTypeOK' /\ Delivered'
    BY <1>0, <1>19, ProceedType DEF ClearPheromone, Holding
  <2> QED
    BY <1>0, <1>Q, <1>19, <2>2, <2>3, <2>4, TypeFrame DEF ClearPheromone
<1>20. ASSUME NEW w \in Workers, Release(w) PROVE TypeInv'
  <2>1. claimedBy' \in [Nodes -> Workers \cup {NoWorker}]
    BY <1>0, <1>20 DEF Release, RemoveClaim, GraphTypeOK
  <2>2. leaseAge' \in [Nodes -> 0 .. LeaseDuration + 1]
    <3>1. 0 \in 0 .. LeaseDuration + 1
      OBVIOUS
    <3> QED
      BY <1>0, <1>20, <3>1 DEF Release, RemoveClaim, GraphTypeOK
  <2>3. GraphTypeOK'
    BY <1>0, <1>20, <2>1, <2>2 DEF Release, GraphTypeOK
  <2>4. HistoryTypeOK'
    BY <1>0, <1>20, FaultType DEF Release, HistoryTypeOK
  <2>5. ListenerTypeOK' /\ Delivered'
    BY <1>0, <1>20, ProceedType DEF Release, Holding
  <2> QED
    BY <1>0, <1>Q, <1>20, <2>3, <2>4, <2>5, TypeFrame DEF Release
<1>21. ASSUME NEW w \in Workers, Ack(w) PROVE TypeInv'
  <2>1. pending' \in [EntryId -> Workers \cup {NoWorker}] /\ idle' \in [EntryId -> 0 .. MinIdle]
    BY <1>0, <1>21 DEF Ack, StreamTypeOK
  <2>2. \A e \in EntryId : pending'[e] # NoWorker => pending[e] # NoWorker
    BY <1>0, <1>21 DEF Ack, StreamTypeOK
  <2>3. StreamTypeOK'
    BY <1>0, <1>21, <2>1 DEF Ack, StreamTypeOK
  <2>4. HistoryTypeOK'
    BY <1>0, <1>21, FaultType DEF Ack, HistoryTypeOK
  <2>5. ListenerTypeOK' /\ Delivered'
    BY <1>0, <1>21, <2>2, LeaveType DEF Ack
  <2> QED
    BY <1>0, <1>Q, <1>21, <2>3, <2>4, <2>5, TypeFrame DEF Ack
<1>22. ASSUME NEW w \in Workers, Crash(w) PROVE TypeInv'
  <2>1. HistoryTypeOK'
    BY <1>0, <1>22, FaultType DEF Crash, HistoryTypeOK
  <2>2. ListenerTypeOK'
    BY <1>0, <1>22 DEF Crash, ListenerTypeOK, PcValues, LastPage
  <2>3. Delivered'
    BY <1>0, <1>22 DEF Crash, Delivered, ListenerTypeOK, Holding, streamVars
  <2> QED
    BY <1>0, <1>Q, <1>22, <2>1, <2>2, <2>3, TypeFrame DEF Crash
<1>23. ASSUME Tick PROVE TypeInv'
  <2>1. GraphTypeOK'
    <3>1. LeaseDuration + 1 \in Nat
      OBVIOUS
    <3>2. \A n \in Nodes : leaseAge[n] \in 0 .. LeaseDuration + 1
      BY <1>0 DEF GraphTypeOK
    <3>3. \A n \in Nodes : Older(leaseAge[n], LeaseDuration + 1) \in 0 .. LeaseDuration + 1
      BY <3>1, <3>2, OlderType
    <3>4. leaseAge' \in [Nodes -> 0 .. LeaseDuration + 1]
      BY <1>23, <3>2, <3>3 DEF Tick
    <3> QED
      BY <1>0, <1>23, <3>4 DEF Tick, GraphTypeOK
  <2>2. StreamTypeOK'
    BY <1>0, <1>23, OlderType DEF Tick, StreamTypeOK
  <2>3. ListenerTypeOK'
    BY <1>0, <1>23, OlderType DEF Tick, ListenerTypeOK
  <2>4. Delivered'
    BY <1>0, <1>23 DEF Tick, Delivered
  <2> QED
    BY <1>0, <1>Q, <1>23, <2>1, <2>2, <2>3, <2>4, TypeFrame DEF Tick
<1>24. CASE UNCHANGED vars
  BY <1>0, <1>Q, <1>24, TypeFrame DEF vars
<1>25. ASSUME NEW w \in Workers, WorkerStep(w) PROVE TypeInv'
  BY <1>6, <1>7, <1>8, <1>9, <1>10, <1>11, <1>12, <1>13, <1>14, <1>16, <1>19, <1>20,
     <1>21, <1>25 DEF WorkerStep
<1>26. ASSUME NEW w \in Workers, WorkerFault(w) PROVE TypeInv'
  BY <1>15, <1>17, <1>18, <1>22, <1>26 DEF WorkerFault
<1> QED
  BY <1>1, <1>2, <1>3, <1>4, <1>5, <1>23, <1>24, <1>25, <1>26 DEF Next

\* Type correctness of every behaviour of the swarm: see TypeOK.
THEOREM TypeCorrect == Spec => []TypeOK
<1>1. TypeInv => TypeOK
  BY DEF TypeInv
<1> QED
  BY <1>1, TypeInvInit, TypeInvStep, PTL DEF Spec

-----------------------------------------------------------------------------
(* Steps that leave the leases, or the acknowledgements, alone             *)

LEMMA AfterIsIdle == \A w, rest : After(w, rest) \in {"pick", "loop", "scan"}
  BY DEF After

LEMMA LeaveKeeps ==
    ASSUME ListenerTypeOK, NEW w \in Workers, Leave(w)
    PROVE  \A v \in Workers : KeepsLease(v) /\ KeepsAck(v)
<1>1. After(w, inbox[w]) \notin Holding \cup {"ack"}
  BY AfterIsIdle DEF Holding
<1>2. pc'[w] = After(w, inbox[w])
  BY DEF Leave, ListenerTypeOK
<1>3. \A v \in Workers \ {w} :
          pc'[v] = pc[v] /\ current'[v] = current[v] /\ heldAge'[v] = heldAge[v]
  BY DEF Leave, ListenerTypeOK
<1> QED
  BY <1>1, <1>2, <1>3 DEF KeepsLease, KeepsAck, Holding

LEMMA SkipKeeps ==
    ASSUME ListenerTypeOK, NEW w \in Workers, NEW e, Skip(w, e)
    PROVE  \A v \in Workers : KeepsLease(v) /\ KeepsAck(v)
<1>1. After(w, inbox[w] \ {e}) \notin Holding \cup {"ack"}
  BY AfterIsIdle DEF Holding
<1>2. pc'[w] = After(w, inbox[w] \ {e})
  BY DEF Skip, ListenerTypeOK
<1>3. \A v \in Workers \ {w} : pc'[v] = pc[v]
  BY DEF Skip, ListenerTypeOK
<1>4. current' = current /\ heldAge' = heldAge
  BY DEF Skip
<1> QED
  BY <1>1, <1>2, <1>3, <1>4 DEF KeepsLease, KeepsAck, Holding

\* The loop and the recovery scan move a listener that holds no event.
LEMMA LoopKeeps ==
    ASSUME ListenerTypeOK, NEW w \in Workers,
           \/ Start(w) \/ Crash(w) \/ Read(w) \/ ReadNothing(w)
           \/ StartScan(w) \/ Reclaim(w) \/ EndScan(w)
    PROVE  \A v \in Workers : KeepsLease(v) /\ KeepsAck(v)
<1>1. pc'[w] \notin Holding \cup {"ack"}
  BY DEF Start, Crash, Read, ReadNothing, StartScan, Reclaim, ReclaimPage, EndScan,
         FinishScan, ListenerTypeOK, Holding
<1>2. \A v \in Workers \ {w} :
          pc'[v] = pc[v] /\ current'[v] = current[v] /\ heldAge'[v] = heldAge[v]
  BY DEF Start, Crash, Read, ReadNothing, StartScan, Reclaim, ReclaimPage, EndScan,
         FinishScan, ListenerTypeOK
<1> QED
  BY <1>1, <1>2 DEF KeepsLease, KeepsAck, Holding

\* The event a worker is at does not change its node: the stream only grows.
LEMMA TargetStays ==
    ASSUME StreamTypeOK, Delivered, NEW v \in Workers, pc[v] \in Holding,
           current'[v] = current[v],
           \/ UNCHANGED entries
           \/ \E x \in Event : entries' = Append(entries, x)
    PROVE  Target(v)' = Target(v)
<1>1. current[v] \in 1 .. lastDelivered
  BY DEF Delivered
<1>2. current[v] \in 1 .. Len(entries)
  BY <1>1 DEF StreamTypeOK
<1>3. entries'[current[v]] = entries[current[v]]
  BY <1>2 DEF StreamTypeOK
<1> QED
  BY <1>3 DEF Target, NodeOf

-----------------------------------------------------------------------------
(* Exclusion while leases run                                              *)

LEMMA LeaseFrame ==
    ASSUME TypeInv, LeaseInv, \A v \in Workers : KeepsLease(v),
           UNCHANGED <<exists, claimedBy, leaseAge>>,
           \/ UNCHANGED entries
           \/ \E x \in Event : entries' = Append(entries, x)
    PROVE  LeaseInv'
<1>1. StreamTypeOK /\ Delivered
  BY DEF TypeInv, TypeOK
<1>2. \A v \in Workers : Working(v)' =>
          Working(v) /\ Target(v)' = Target(v) /\ heldAge'[v] = heldAge[v]
  BY <1>1, TargetStays DEF KeepsLease, Working
<1>3. LeaseIsExclusive'
  BY <1>2 DEF LeaseInv, LeaseIsExclusive
<1>4. ASSUME NEW v \in Workers PROVE LeaseHeldBy(v)'
  BY <1>2 DEF LeaseInv, LeaseHeldBy
<1> QED
  BY <1>3, <1>4 DEF LeaseInv

\* A worker that wins a lease is the only one whose lease runs: the statement's
\* guard holds only when the lease is free, or older than any holder may think.
LEMMA WonAlone ==
    ASSUME TypeInv, LeaseInv, NEW n, Claimable(n),
           NEW v \in Workers, Working(v), Target(v) = n
    PROVE  heldAge[v] > LeaseDuration
<1> USE SwarmBoundAssumption
<1>1. SUFFICES ASSUME heldAge[v] <= LeaseDuration PROVE FALSE
  BY MaxHeldType DEF TypeInv, TypeOK, ListenerTypeOK
<1>2. claimedBy[n] = v /\ leaseAge[n] <= heldAge[v] /\ n \in exists
  BY <1>1 DEF LeaseInv, LeaseHeldBy, Claimable
<1>3. leaseAge[n] \in Nat /\ heldAge[v] \in Nat
  BY <1>2, MaxHeldType DEF TypeInv, TypeOK, ListenerTypeOK, GraphTypeOK
<1>4. leaseAge[n] > LeaseDuration
  BY <1>2, NoWorkerAssumption DEF Claimable
<1> QED
  BY <1>1, <1>2, <1>3, <1>4

\* A claim on n by w, which then works on the event or, if the reply was lost,
\* does not.
LEMMA ClaimKeepsExclusion ==
    ASSUME TypeInv, LeaseInv, NEW w \in Workers, NEW n \in Nodes, Claimable(n), SetLease(w, n),
           UNCHANGED entries,
           \A v \in Workers \ {w} : KeepsLease(v),
           pc'[w] \in Holding => Target(w)' = n /\ heldAge'[w] = 0
    PROVE  LeaseInv'
<1> USE SwarmBoundAssumption
<1>1. StreamTypeOK /\ Delivered
  BY DEF TypeInv, TypeOK
<1>2. \A v \in Workers \ {w} : Working(v)' =>
          Working(v) /\ Target(v)' = Target(v) /\ heldAge'[v] = heldAge[v]
  BY <1>1, TargetStays DEF KeepsLease, Working
<1>3. \A v \in Workers \ {w} : Working(v)' /\ Target(v)' = n => heldAge'[v] > LeaseDuration
  BY <1>2, WonAlone
<1>4. LeaseIsExclusive'
  <2> SUFFICES ASSUME NEW u \in Workers, NEW v \in Workers, u # v,
                      Working(u)', Working(v)', Target(u)' = Target(v)'
               PROVE  heldAge'[u] > LeaseDuration \/ heldAge'[v] > LeaseDuration
    BY DEF LeaseIsExclusive
  <2>1. CASE u = w
    BY <1>3, <2>1 DEF Working
  <2>2. CASE v = w
    BY <1>3, <2>2 DEF Working
  <2>3. CASE u # w /\ v # w
    BY <1>2, <2>3 DEF LeaseInv, LeaseIsExclusive
  <2> QED
    BY <2>1, <2>2, <2>3
<1>5. ASSUME NEW v \in Workers PROVE LeaseHeldBy(v)'
  <2> SUFFICES ASSUME Working(v)', heldAge'[v] <= LeaseDuration, Target(v)' \in exists'
               PROVE  claimedBy'[Target(v)'] = v /\ leaseAge'[Target(v)'] <= heldAge'[v]
    BY DEF LeaseHeldBy
  <2>0. claimedBy'[n] = w /\ leaseAge'[n] = 0 /\ exists' = exists
    BY DEF SetLease, TypeInv, TypeOK, GraphTypeOK
  <2>1. CASE v = w
    BY <2>0, <2>1 DEF Working
  <2>2. CASE v # w
    <3>1. Working(v) /\ Target(v)' = Target(v) /\ heldAge'[v] = heldAge[v]
      BY <1>2, <2>2
    <3>2. heldAge[v] \in Nat
      BY MaxHeldType DEF TypeInv, TypeOK, ListenerTypeOK
    <3>3. Target(v) # n
      BY <1>3, <2>2, <3>1, <3>2
    <3>4. claimedBy'[Target(v)] = claimedBy[Target(v)] /\ leaseAge'[Target(v)] = leaseAge[Target(v)]
      BY <3>3, <2>0, <3>1 DEF SetLease, TypeInv, TypeOK, GraphTypeOK
    <3> QED
      BY <2>0, <3>1, <3>4 DEF LeaseInv, LeaseHeldBy
  <2> QED
    BY <2>1, <2>2
<1> QED
  BY <1>4, <1>5 DEF LeaseInv

LEMMA LeaseInvInit == Init => LeaseInv
  BY DEF Init, LeaseInv, LeaseIsExclusive, LeaseHeldBy, Working, Holding

\* The node of an event in the stream.
LEMMA NodeOfType ==
    ASSUME StreamTypeOK, NEW e \in 1 .. lastDelivered
    PROVE  e \in 1 .. Len(entries) /\ NodeOf(e) \in Nodes
<1>1. e \in 1 .. Len(entries)
  BY DEF StreamTypeOK
<1>2. entries[e] \in Event
  BY <1>1 DEF StreamTypeOK
<1> QED
  BY <1>1, <1>2 DEF Event, NodeOf

LEMMA LeaseInvStep == TypeInv /\ LeaseInv /\ [Next]_vars => LeaseInv'
<1> SUFFICES ASSUME TypeInv, LeaseInv, [Next]_vars PROVE LeaseInv'
  OBVIOUS
<1> USE SwarmBoundAssumption
<1>0. GraphTypeOK /\ StreamTypeOK /\ ListenerTypeOK /\ Delivered
  BY DEF TypeInv, TypeOK
<1>1. ASSUME NEW n \in Nodes, Mark(n) \/ MarkError(n) \/ AppendError(n) PROVE LeaseInv'
  <2>1. UNCHANGED <<exists, claimedBy, leaseAge, workerVars, entries>>
    BY <1>1 DEF Mark, MarkError, AppendError, graphVars, streamVars
  <2>2. \A v \in Workers : KeepsLease(v)
    BY <2>1 DEF workerVars, KeepsLease
  <2> QED
    BY <2>1, <2>2, LeaseFrame
<1>2. ASSUME NEW n \in Nodes, AddEvent(n) PROVE LeaseInv'
  <2>1. UNCHANGED <<exists, claimedBy, leaseAge, workerVars>>
    BY <1>2 DEF AddEvent, graphVars
  <2>2. \E x \in Event : entries' = Append(entries, x)
    BY <1>2 DEF AddEvent, Event
  <2>3. \A v \in Workers : KeepsLease(v)
    BY <2>1 DEF workerVars, KeepsLease
  <2> QED
    BY <2>1, <2>2, <2>3, LeaseFrame
<1>3. ASSUME NEW n \in Nodes, DeleteNode(n) PROVE LeaseInv'
  <2>1. UNCHANGED <<workerVars, entries>> /\ exists' = exists \ {n}
    BY <1>3 DEF DeleteNode, streamVars
  <2>2. \A v \in Workers : Working(v)' = Working(v) /\ Target(v)' = Target(v) /\ heldAge'[v] = heldAge[v]
    BY <2>1 DEF workerVars, Working, Target, NodeOf
  <2>3. LeaseIsExclusive'
    BY <2>2 DEF LeaseInv, LeaseIsExclusive
  <2>4. ASSUME NEW m \in exists' PROVE claimedBy'[m] = claimedBy[m] /\ leaseAge'[m] = leaseAge[m]
    BY <1>0, <1>3, <2>1, <2>4 DEF DeleteNode, GraphTypeOK
  <2>5. ASSUME NEW v \in Workers PROVE LeaseHeldBy(v)'
    BY <2>1, <2>2, <2>4 DEF LeaseInv, LeaseHeldBy
  <2> QED
    BY <2>3, <2>5 DEF LeaseInv
<1>4. ASSUME NEW w \in Workers,
             \/ Start(w) \/ Crash(w) \/ Read(w) \/ ReadNothing(w)
             \/ StartScan(w) \/ Reclaim(w) \/ EndScan(w)
      PROVE  LeaseInv'
  <2>1. UNCHANGED <<exists, claimedBy, leaseAge, entries>>
    BY <1>4 DEF Start, Crash, Read, ReadNothing, StartScan, Reclaim, EndScan, graphVars, streamVars
  <2>2. \A v \in Workers : KeepsLease(v)
    BY <1>0, <1>4, LoopKeeps
  <2> QED
    BY <2>1, <2>2, LeaseFrame
<1>5. ASSUME NEW w \in Workers, NEW e \in inbox[w], Discard(w, e) PROVE LeaseInv'
  <2>1. UNCHANGED <<exists, claimedBy, leaseAge, entries>>
    BY <1>5 DEF Discard, graphVars, streamVars
  <2>2. \A v \in Workers : KeepsLease(v)
    BY <1>0, <1>5 DEF Discard, Take, KeepsLease, Holding, ListenerTypeOK
  <2> QED
    BY <2>1, <2>2, LeaseFrame
<1>6. ASSUME NEW w \in Workers, NEW e \in inbox[w], Claim(w, e) PROVE LeaseInv'
  <2>1. e \in 1 .. lastDelivered
    BY <1>0 DEF Delivered
  <2>2. NodeOf(e) \in Nodes
    BY <1>0, <2>1, NodeOfType
  <2>3. \A v \in Workers \ {w} : KeepsLease(v)
    BY <1>0, <1>6 DEF Claim, Take, KeepsLease, ListenerTypeOK
  <2>4. UNCHANGED entries /\ Claimable(NodeOf(e)) /\ SetLease(w, NodeOf(e))
    BY <1>6 DEF Claim, streamVars
  <2>5. current'[w] = e /\ heldAge'[w] = 0
    BY <1>0, <1>6 DEF Claim, Take, ListenerTypeOK
  <2>6. Target(w)' = NodeOf(e)
    BY <2>4, <2>5 DEF Target, NodeOf
  <2> QED
    BY <2>2, <2>3, <2>4, <2>5, <2>6, ClaimKeepsExclusion
<1>7. ASSUME NEW w \in Workers, NEW e \in inbox[w], ClaimDenied(w, e) PROVE LeaseInv'
  <2>1. UNCHANGED <<exists, claimedBy, leaseAge, entries>>
    BY <1>7 DEF ClaimDenied, graphVars, streamVars
  <2>2. \A v \in Workers : KeepsLease(v)
    BY <1>0, <1>7, SkipKeeps DEF ClaimDenied
  <2> QED
    BY <2>1, <2>2, LeaseFrame
<1>8. ASSUME NEW w \in Workers, NEW e \in inbox[w], ClaimError(w, e) PROVE LeaseInv'
  <2>1. UNCHANGED entries /\ \A v \in Workers : KeepsLease(v)
    BY <1>0, <1>8, SkipKeeps DEF ClaimError, streamVars
  <2>2. CASE UNCHANGED graphVars
    BY <2>1, <2>2, LeaseFrame DEF graphVars
  <2>3. CASE Claimable(NodeOf(e)) /\ SetLease(w, NodeOf(e))
    <3>1. NodeOf(e) \in Nodes
      BY <1>0, <2>3 DEF Claimable, GraphTypeOK
    <3>2. pc'[w] = After(w, inbox[w] \ {e})
      BY <1>0, <1>8 DEF ClaimError, Skip, ListenerTypeOK
    <3>3. pc'[w] \notin Holding
      BY <3>2, AfterIsIdle DEF Holding
    <3> QED
      BY <2>1, <2>3, <3>1, <3>3, ClaimKeepsExclusion
  <2> QED
    BY <1>8, <2>2, <2>3 DEF ClaimError
<1>9. ASSUME NEW w \in Workers, Answer(w) \/ WriteResult(w) \/ ClearPheromone(w) PROVE LeaseInv'
  <2>1. UNCHANGED <<exists, claimedBy, leaseAge, entries>>
    BY <1>9 DEF Answer, WriteResult, ClearPheromone, graphVars, streamVars
  <2>2. \A v \in Workers : KeepsLease(v)
    BY <1>0, <1>9 DEF Answer, WriteResult, ClearPheromone, KeepsLease, Holding, ListenerTypeOK
  <2> QED
    BY <2>1, <2>2, LeaseFrame
<1>10. ASSUME NEW w \in Workers, DispatchError(w) \/ ClearError(w) \/ Ack(w) PROVE LeaseInv'
  <2>1. UNCHANGED <<exists, claimedBy, leaseAge, entries>>
    BY <1>10 DEF DispatchError, ClearError, Ack, graphVars, streamVars
  <2>2. \A v \in Workers : KeepsLease(v)
    BY <1>0, <1>10, LeaveKeeps DEF DispatchError, ClearError, Ack
  <2> QED
    BY <2>1, <2>2, LeaseFrame
<1>11. ASSUME NEW w \in Workers, Release(w) PROVE LeaseInv'
  <2>1. UNCHANGED <<exists, entries, current, heldAge>>
    BY <1>11 DEF Release, streamVars
  <2>2. \A v \in Workers : Working(v)' => v # w /\ Working(v)
    BY <1>0, <1>11 DEF Release, Working, Holding, ListenerTypeOK
  <2>3. \A v \in Workers : Target(v)' = Target(v)
    BY <2>1 DEF Target, NodeOf
  <2>4. LeaseIsExclusive'
    BY <2>1, <2>2, <2>3 DEF LeaseInv, LeaseIsExclusive
  <2>5. ASSUME NEW n \in Nodes, claimedBy[n] # w
        PROVE  claimedBy'[n] = claimedBy[n] /\ leaseAge'[n] = leaseAge[n]
    BY <1>0, <1>11, <2>5 DEF Release, RemoveClaim, GraphTypeOK
  <2>6. ASSUME NEW v \in Workers PROVE LeaseHeldBy(v)'
    <3> SUFFICES ASSUME Working(v)', heldAge'[v] <= LeaseDuration, Target(v)' \in exists'
                 PROVE  claimedBy'[Target(v)'] = v /\ leaseAge'[Target(v)'] <= heldAge'[v]
      BY DEF LeaseHeldBy
    <3>1. v # w /\ claimedBy[Target(v)] = v /\ leaseAge[Target(v)] <= heldAge[v] /\ Target(v) \in Nodes
      BY <1>0, <2>1, <2>2, <2>3 DEF LeaseInv, LeaseHeldBy, GraphTypeOK
    <3> QED
      BY <2>1, <2>3, <2>5, <3>1
  <2> QED
    BY <2>4, <2>6 DEF LeaseInv
<1>12. ASSUME Tick PROVE LeaseInv'
  <2>1. UNCHANGED <<exists, claimedBy, entries, pc, current>>
    BY <1>12 DEF Tick
  <2>2. \A v \in Workers : Working(v)' = Working(v) /\ Target(v)' = Target(v)
    BY <2>1 DEF Working, Target, NodeOf
  <2>3. ASSUME NEW v \in Workers, Working(v)
        PROVE  /\ heldAge[v] \in Nat /\ heldAge'[v] \in Nat /\ heldAge'[v] >= heldAge[v]
               /\ heldAge'[v] <= LeaseDuration => heldAge'[v] = heldAge[v] + 1
    <3>1. heldAge[v] \in 0 .. MaxHeld /\ heldAge'[v] = Older(heldAge[v], MaxHeld)
      BY <1>0, <1>12, <2>3 DEF Tick, Working, ListenerTypeOK
    <3>2. /\ heldAge[v] \in Nat /\ heldAge'[v] \in Nat
          /\ heldAge'[v] = IF heldAge[v] < MaxHeld THEN heldAge[v] + 1 ELSE MaxHeld
      BY <3>1, MaxHeldType DEF Older
    <3>3. heldAge[v] <= MaxHeld /\ MaxHeld \in Nat /\ MaxHeld > LeaseDuration
      BY <3>1, MaxHeldType
    <3> QED
      BY <3>2, <3>3
  <2>4. LeaseIsExclusive'
    BY <2>2, <2>3 DEF LeaseInv, LeaseIsExclusive
  <2>5. ASSUME NEW v \in Workers PROVE LeaseHeldBy(v)'
    <3> SUFFICES ASSUME Working(v)', heldAge'[v] <= LeaseDuration, Target(v)' \in exists'
                 PROVE  claimedBy'[Target(v)'] = v /\ leaseAge'[Target(v)'] <= heldAge'[v]
      BY DEF LeaseHeldBy
    <3>1. Working(v) /\ heldAge'[v] = heldAge[v] + 1 /\ heldAge[v] \in Nat
      BY <2>2, <2>3
    <3>2. claimedBy[Target(v)] = v /\ leaseAge[Target(v)] <= heldAge[v] /\ Target(v) \in Nodes
      BY <1>0, <2>1, <2>2, <3>1 DEF LeaseInv, LeaseHeldBy, GraphTypeOK
    <3>3. leaseAge[Target(v)] \in 0 .. LeaseDuration + 1
      BY <1>0, <3>2 DEF GraphTypeOK
    <3>4. leaseAge'[Target(v)] = Older(leaseAge[Target(v)], LeaseDuration + 1)
      BY <1>12, <3>2, NoWorkerAssumption DEF Tick
    <3>5. leaseAge'[Target(v)] <= leaseAge[Target(v)] + 1 /\ leaseAge'[Target(v)] \in Nat
      BY <3>3, <3>4, OlderType
    <3> QED
      BY <2>1, <2>2, <3>1, <3>2, <3>3, <3>5
  <2> QED
    BY <2>4, <2>5 DEF LeaseInv
<1>13. CASE UNCHANGED vars
  <2>1. UNCHANGED <<exists, claimedBy, leaseAge, entries>> /\ \A v \in Workers : KeepsLease(v)
    BY <1>13 DEF vars, graphVars, streamVars, workerVars, KeepsLease
  <2> QED
    BY <2>1, LeaseFrame
<1>14. ASSUME NEW w \in Workers, WorkerStep(w) \/ WorkerFault(w) PROVE LeaseInv'
  BY <1>4, <1>5, <1>6, <1>7, <1>8, <1>9, <1>10, <1>11, <1>14 DEF WorkerStep, WorkerFault
<1> QED
  BY <1>1, <1>2, <1>3, <1>12, <1>13, <1>14 DEF Next

\* While its lease runs a worker is alone on its node, whatever the nodes, the
\* listeners, the times and the faults: see LeaseIsExclusive.
THEOREM LeasesExclude == Spec => []LeaseIsExclusive
<1>1. LeaseInv => LeaseIsExclusive
  BY DEF LeaseInv
<1> QED
  BY <1>1, TypeInvInit, TypeInvStep, LeaseInvInit, LeaseInvStep, PTL DEF Spec

-----------------------------------------------------------------------------
(* Neither an event nor a stamp is lost                                    *)

LEMMA EventInvInit == Init => EventInv
  BY DEF Init, EventInv, NothingLost, AckJustified, StampOwned

\* A step that touches neither the stamps nor the stream, and brings no worker
\* to an acknowledgement.
LEMMA EventFrame ==
    ASSUME EventInv, \A v \in Workers : KeepsAck(v),
           UNCHANGED <<calls, marking, streamVars, handled>>,
           marker' \subseteq marker, orphaned \subseteq orphaned'
    PROVE  EventInv'
<1>1. AckJustified'
  BY DEF EventInv, AckJustified, KeepsAck, streamVars
<1>2. NothingLost' /\ handled' \subseteq 1 .. lastDelivered'
  BY DEF EventInv, NothingLost, Trimmed, streamVars
<1>3. StampOwned'
  BY DEF EventInv, StampOwned, NodeOf, streamVars
<1> QED
  BY <1>1, <1>2, <1>3 DEF EventInv

LEMMA EventInvStep == TypeInv /\ EventInv /\ [Next]_vars => EventInv'
<1> SUFFICES ASSUME TypeInv, EventInv, [Next]_vars PROVE EventInv'
  OBVIOUS
<1> USE SwarmBoundAssumption
<1>0. GraphTypeOK /\ CallTypeOK /\ StreamTypeOK /\ ListenerTypeOK /\ Delivered
  BY DEF TypeInv, TypeOK
<1>A. handled \subseteq 1 .. lastDelivered /\ NothingLost /\ AckJustified /\ StampOwned
  BY DEF EventInv
<1>1. ASSUME NEW n \in Nodes, Mark(n) \/ MarkError(n) PROVE EventInv'
  <2>1. UNCHANGED <<streamVars, workerVars, handled>>
    BY <1>1 DEF Mark, MarkError
  <2>2. AckJustified' /\ NothingLost' /\ handled' \subseteq 1 .. lastDelivered'
    BY <1>A, <2>1 DEF AckJustified, NothingLost, Trimmed, streamVars, workerVars
  <2>3. StampOwned'
    <3> SUFFICES ASSUME NEW m \in marker'
                 PROVE  \/ marking'[m] > 0
                        \/ m \in orphaned'
                        \/ \E e \in 1 .. Len(entries) :
                               NodeOf(e) = m /\ entries[e].wellFormed /\ e \notin handled
      BY <2>1 DEF StampOwned, NodeOf, streamVars
    <3>1. CASE m \in marker
      <4>1. marking'[m] >= marking[m] /\ orphaned \subseteq orphaned'
        BY <1>0, <1>1, <3>1 DEF Mark, MarkError, CallTypeOK, GraphTypeOK
      <4>2. marking[m] \in Nat /\ marking'[m] \in Nat
        BY <1>0, <1>1, <3>1 DEF Mark, MarkError, CallTypeOK, GraphTypeOK
      <4> QED
        BY <1>A, <3>1, <4>1, <4>2 DEF StampOwned
    <3>2. CASE m \notin marker
      <4>1. m = n
        BY <1>1, <3>2 DEF Mark, MarkError
      <4> QED
        BY <1>0, <1>1, <3>2, <4>1 DEF Mark, MarkError, CallTypeOK
    <3> QED
      BY <3>1, <3>2
  <2> QED
    BY <2>2, <2>3 DEF EventInv
<1>2. ASSUME NEW n \in Nodes, AddEvent(n) PROVE EventInv'
  <2>1. PICK ok \in BOOLEAN :
            /\ entries' = Append(entries, [node |-> n, wellFormed |-> ok])
            /\ orphaned' = IF ok THEN orphaned ELSE orphaned \cup {n}
    BY <1>2 DEF AddEvent
  <2>2. first' >= first /\ first \in Nat /\ first' \in Nat
    BY <1>0, <1>2 DEF AddEvent, StreamTypeOK
  <2>3. UNCHANGED <<graphVars, lastDelivered, pending, workerVars, handled>>
    BY <1>2 DEF AddEvent
  <2>4. Len(entries') = Len(entries) + 1 /\ Len(entries) \in Nat
    BY <1>0, <2>1 DEF StreamTypeOK
  <2>5. \A e \in 1 .. Len(entries) : entries'[e] = entries[e]
    BY <1>0, <2>1 DEF StreamTypeOK
  <2>6. 1 .. lastDelivered \subseteq 1 .. Len(entries) /\ 1 .. lastDelivered \subseteq Nat
    BY <1>0 DEF StreamTypeOK
  <2>7. AckJustified'
    BY <1>0, <1>A, <2>3, <2>5, <2>6 DEF AckJustified, workerVars, Delivered, Holding
  <2>8. NothingLost'
    <3> SUFFICES ASSUME NEW e \in 1 .. lastDelivered, pending[e] = NoWorker
                 PROVE  e \in handled \/ ~entries'[e].wellFormed \/ e < first'
      BY <2>3 DEF NothingLost, Trimmed
    <3>1. e \in handled \/ ~entries[e].wellFormed \/ e < first
      BY <1>A DEF NothingLost, Trimmed
    <3> QED
      BY <2>2, <2>5, <2>6, <3>1
  <2>9. StampOwned'
    <3> SUFFICES ASSUME NEW m \in marker
                 PROVE  \/ marking'[m] > 0
                        \/ m \in orphaned'
                        \/ \E e \in 1 .. Len(entries') :
                               entries'[e].node = m /\ entries'[e].wellFormed /\ e \notin handled
      BY <2>3 DEF StampOwned, NodeOf, graphVars
    <3>1. CASE \E e \in 1 .. Len(entries) :
                   NodeOf(e) = m /\ entries[e].wellFormed /\ e \notin handled
      BY <2>4, <2>5, <3>1 DEF NodeOf
    <3>2. CASE m \in orphaned
      BY <2>1, <3>2
    <3>3. CASE marking[m] > 0 /\ m # n
      BY <1>0, <1>2, <3>3 DEF AddEvent, CallTypeOK, GraphTypeOK
    <3>4. CASE m = n
      <4>1. CASE ok
        <5>1. entries'[Len(entries) + 1] = [node |-> n, wellFormed |-> ok]
          BY <1>0, <2>1 DEF StreamTypeOK
        <5>2. Len(entries) + 1 \in 1 .. Len(entries') /\ Len(entries) + 1 \notin handled
          BY <1>A, <2>4, <2>6
        <5> QED
          BY <3>4, <4>1, <5>1, <5>2
      <4>2. CASE ~ok
        BY <2>1, <3>4, <4>2
      <4> QED
        BY <4>1, <4>2
    <3> QED
      BY <1>A, <3>1, <3>2, <3>3, <3>4 DEF StampOwned
  <2> QED
    BY <1>A, <2>3, <2>7, <2>8, <2>9 DEF EventInv
<1>3. ASSUME NEW n \in Nodes, AppendError(n) PROVE EventInv'
  <2>1. UNCHANGED <<graphVars, streamVars, workerVars, handled>>
    BY <1>3 DEF AppendError
  <2>2. AckJustified' /\ NothingLost' /\ handled' \subseteq 1 .. lastDelivered'
    BY <1>A, <2>1 DEF AckJustified, NothingLost, Trimmed, streamVars, workerVars
  <2>3. \A m \in Nodes : marking'[m] = marking[m] \/ m \in orphaned'
    BY <1>0, <1>3 DEF AppendError, CallTypeOK
  <2>4. orphaned \subseteq orphaned' /\ marker \subseteq Nodes
    BY <1>0, <1>3 DEF AppendError, GraphTypeOK
  <2>5. StampOwned'
    BY <1>A, <2>1, <2>3, <2>4 DEF StampOwned, NodeOf, graphVars, streamVars
  <2> QED
    BY <2>2, <2>5 DEF EventInv
<1>4. ASSUME NEW n \in Nodes, DeleteNode(n) PROVE EventInv'
  <2>1. \A v \in Workers : KeepsAck(v)
    BY <1>4 DEF DeleteNode, KeepsAck, workerVars
  <2> QED
    BY <1>4, <2>1, EventFrame DEF DeleteNode, callVars
<1>5. ASSUME NEW w \in Workers, Read(w) PROVE EventInv'
  <2> DEFINE page == Page(NewEvents)
  <2>1. UNCHANGED <<graphVars, callVars, entries, first, handled, orphaned>>
    BY <1>5 DEF Read
  <2>2. lastDelivered' \in page
    BY <1>5 DEF Read
  <2>3. pending' = [e \in EntryId |-> IF e \in page THEN w ELSE pending[e]]
    BY <1>5 DEF Read, Deliver
  <2>4. NewEvents \in SUBSET EntryId /\ lastDelivered' \in NewEvents
    BY <1>0, <2>2, PageIsPart DEF NewEvents, EntryId, StreamTypeOK
  <2>5. /\ lastDelivered \in Nat /\ lastDelivered' \in Nat /\ first \in Nat
        /\ lastDelivered < lastDelivered' /\ lastDelivered' <= Len(entries)
        /\ Len(entries) \in Nat /\ Len(entries) <= MaxCalls
    BY <1>0, <2>4 DEF NewEvents, StreamTypeOK
  <2>6. AckJustified'
    <3>1. \A v \in Workers : KeepsAck(v)
      BY <1>0, <1>5, LoopKeeps
    <3> QED
      BY <1>A, <2>1, <3>1 DEF AckJustified, KeepsAck
  <2>7. NothingLost'
    <3> SUFFICES ASSUME NEW e \in 1 .. lastDelivered', pending'[e] = NoWorker
                 PROVE  e \in handled \/ ~entries[e].wellFormed \/ e < first
      BY <2>1 DEF NothingLost, Trimmed
    <3>1. e \in EntryId /\ e \in 1 .. Len(entries) /\ e \in Nat
      BY <2>5 DEF EntryId
    <3>2. e \notin page /\ pending[e] = NoWorker
      BY <2>3, <3>1, NoWorkerAssumption
    <3>3. CASE e \in 1 .. lastDelivered
      BY <1>A, <3>2, <3>3 DEF NothingLost, Trimmed
    <3>4. CASE e > lastDelivered /\ e >= first
      <4>1. e \in NewEvents
        BY <3>1, <3>4 DEF NewEvents
      <4>2. e <= lastDelivered'
        BY <2>5
      <4> QED
        BY <2>2, <2>4, <3>2, <4>1, <4>2, PageIsInitial
    <3> QED
      BY <2>5, <3>1, <3>3, <3>4
  <2>8. StampOwned'
    BY <1>A, <2>1 DEF StampOwned, NodeOf, graphVars, callVars
  <2>9. handled' \subseteq 1 .. lastDelivered'
    BY <1>A, <2>1, <2>5
  <2> QED
    BY <2>6, <2>7, <2>8, <2>9 DEF EventInv
<1>6. ASSUME NEW w \in Workers,
             Start(w) \/ Crash(w) \/ ReadNothing(w) \/ StartScan(w) \/ EndScan(w)
      PROVE  EventInv'
  <2>1. \A v \in Workers : KeepsAck(v)
    BY <1>0, <1>6, LoopKeeps
  <2>2. UNCHANGED <<graphVars, callVars, streamVars, handled, orphaned>>
    BY <1>6 DEF Start, Crash, ReadNothing, StartScan, EndScan
  <2> QED
    BY <2>1, <2>2, EventFrame DEF graphVars, callVars
<1>7. ASSUME NEW w \in Workers, Reclaim(w) PROVE EventInv'
  <2> DEFINE page == Page(Reclaimable(w))
             kept == {e \in page : e >= first}
  <2>1. UNCHANGED <<graphVars, callVars, entries, first, lastDelivered, handled, orphaned>>
    BY <1>7 DEF Reclaim
  <2>2. pending' = [e \in EntryId |-> IF e \in kept THEN w
                                      ELSE IF e \in page THEN NoWorker ELSE pending[e]]
    BY <1>7 DEF Reclaim, ReclaimPage
  <2>3. AckJustified'
    <3>1. \A v \in Workers : KeepsAck(v)
      BY <1>0, <1>7, LoopKeeps
    <3> QED
      BY <1>A, <2>1, <3>1 DEF AckJustified, KeepsAck
  <2>4. NothingLost'
    <3> SUFFICES ASSUME NEW e \in 1 .. lastDelivered, pending'[e] = NoWorker
                 PROVE  e \in handled \/ ~entries[e].wellFormed \/ e < first
      BY <2>1 DEF NothingLost, Trimmed
    <3>1. e \in EntryId /\ e \in Nat /\ first \in Nat
      BY <1>0 DEF StreamTypeOK, EntryId
    <3>2. pending[e] = NoWorker \/ (e \in page /\ e \notin kept)
      BY <2>2, <3>1, NoWorkerAssumption
    <3>3. CASE pending[e] = NoWorker
      BY <1>A, <3>3 DEF NothingLost, Trimmed
    <3>4. CASE e \in page /\ e \notin kept
      BY <3>1, <3>4
    <3> QED
      BY <3>2, <3>3, <3>4
  <2>5. StampOwned'
    BY <1>A, <2>1 DEF StampOwned, NodeOf, graphVars, callVars
  <2> QED
    BY <1>A, <2>1, <2>3, <2>4, <2>5 DEF EventInv
<1>8. ASSUME NEW w \in Workers, NEW e \in inbox[w], Discard(w, e) PROVE EventInv'
  <2>1. UNCHANGED <<graphVars, callVars, streamVars, handled, orphaned>>
    BY <1>8 DEF Discard
  <2>2. current'[w] = e /\ pc'[w] = "ack"
    BY <1>0, <1>8 DEF Discard, Take, ListenerTypeOK
  <2>3. \A v \in Workers \ {w} : pc'[v] = pc[v] /\ current'[v] = current[v]
    BY <1>0, <1>8 DEF Discard, Take, ListenerTypeOK
  <2>4. AckJustified'
    BY <1>8, <1>A, <2>1, <2>2, <2>3 DEF AckJustified, Discard, streamVars
  <2>5. NothingLost' /\ StampOwned'
    BY <1>A, <2>1 DEF NothingLost, StampOwned, Trimmed, NodeOf, graphVars, callVars, streamVars
  <2> QED
    BY <1>A, <2>1, <2>4, <2>5 DEF EventInv, streamVars
<1>9. ASSUME NEW w \in Workers, NEW e \in inbox[w], Claim(w, e) PROVE EventInv'
  <2>1. \A v \in Workers : KeepsAck(v)
    BY <1>0, <1>9 DEF Claim, Take, KeepsAck, ListenerTypeOK
  <2>2. UNCHANGED <<marker, callVars, streamVars, handled, orphaned>>
    BY <1>9 DEF Claim, SetLease
  <2> QED
    BY <2>1, <2>2, EventFrame DEF callVars
<1>10. ASSUME NEW w \in Workers, NEW e \in inbox[w], ClaimDenied(w, e) \/ ClaimError(w, e)
       PROVE  EventInv'
  <2>1. \A v \in Workers : KeepsAck(v)
    BY <1>0, <1>10, SkipKeeps DEF ClaimDenied, ClaimError
  <2>2. UNCHANGED <<marker, callVars, streamVars, handled, orphaned>>
    BY <1>10 DEF ClaimDenied, ClaimError, SetLease, graphVars
  <2> QED
    BY <2>1, <2>2, EventFrame DEF callVars
<1>11. ASSUME NEW w \in Workers, Answer(w) \/ WriteResult(w) PROVE EventInv'
  <2>1. \A v \in Workers : KeepsAck(v)
    BY <1>0, <1>11 DEF Answer, WriteResult, KeepsAck, ListenerTypeOK
  <2>2. UNCHANGED <<graphVars, callVars, streamVars, handled, orphaned>>
    BY <1>11 DEF Answer, WriteResult
  <2> QED
    BY <2>1, <2>2, EventFrame DEF callVars, graphVars
<1>12. ASSUME NEW w \in Workers, DispatchError(w) \/ ClearError(w) PROVE EventInv'
  <2>1. \A v \in Workers : KeepsAck(v)
    BY <1>0, <1>12, LeaveKeeps DEF DispatchError, ClearError
  <2>2. UNCHANGED <<callVars, streamVars, handled, orphaned>> /\ marker' \subseteq marker
    BY <1>12 DEF DispatchError, ClearError, graphVars
  <2> QED
    BY <2>1, <2>2, EventFrame DEF callVars
<1>13. ASSUME NEW w \in Workers, ClearPheromone(w) PROVE EventInv'
  <2>1. UNCHANGED <<callVars, streamVars, current>> /\ pc' = [pc EXCEPT ![w] = "release"]
    BY <1>13 DEF ClearPheromone
  <2>2. /\ marker' = marker \ {Target(w)}
        /\ handled' = handled \cup {current[w]}
        /\ orphaned' = orphaned \ {Target(w)}
    BY <1>13 DEF ClearPheromone
  <2>3. current[w] \in 1 .. lastDelivered
    BY <1>0, <1>13 DEF ClearPheromone, Delivered, Holding
  <2>4. AckJustified'
    BY <1>0, <1>A, <2>1, <2>2 DEF AckJustified, ListenerTypeOK, streamVars
  <2>5. NothingLost' /\ handled' \subseteq 1 .. lastDelivered'
    BY <1>A, <2>1, <2>2, <2>3 DEF NothingLost, Trimmed, streamVars
  <2>6. StampOwned'
    BY <1>A, <2>1, <2>2 DEF StampOwned, Target, NodeOf, callVars, streamVars
  <2> QED
    BY <2>4, <2>5, <2>6 DEF EventInv
<1>14. ASSUME NEW w \in Workers, Release(w) PROVE EventInv'
  <2>1. UNCHANGED <<marker, callVars, streamVars, current, handled, orphaned>>
    BY <1>14 DEF Release
  <2>2. pc[w] = "release" /\ pc' = [pc EXCEPT ![w] = "ack"]
    BY <1>14 DEF Release
  <2>3. AckJustified'
    BY <1>0, <1>A, <2>1, <2>2 DEF AckJustified, ListenerTypeOK, streamVars
  <2>4. NothingLost' /\ StampOwned'
    BY <1>A, <2>1 DEF NothingLost, StampOwned, Trimmed, NodeOf, callVars, streamVars
  <2> QED
    BY <1>A, <2>1, <2>3, <2>4 DEF EventInv, streamVars
<1>15. ASSUME NEW w \in Workers, Ack(w) PROVE EventInv'
  <2>1. UNCHANGED <<graphVars, callVars, entries, first, lastDelivered, handled, orphaned>>
    BY <1>15 DEF Ack
  <2>2. \A v \in Workers : KeepsAck(v)
    BY <1>0, <1>15, LeaveKeeps DEF Ack
  <2>3. AckJustified'
    BY <1>A, <2>1, <2>2 DEF AckJustified, KeepsAck
  <2>4. current[w] \in handled \/ ~entries[current[w]].wellFormed
    BY <1>15, <1>A DEF Ack, AckJustified
  <2>5. \A e \in EntryId : e # current[w] => pending'[e] = pending[e]
    BY <1>0, <1>15 DEF Ack, StreamTypeOK
  <2>6. 1 .. lastDelivered \subseteq EntryId
    BY <1>0 DEF StreamTypeOK, EntryId
  <2>7. NothingLost'
    BY <1>A, <2>1, <2>4, <2>5, <2>6 DEF NothingLost, Trimmed
  <2>8. StampOwned'
    BY <1>A, <2>1 DEF StampOwned, NodeOf, graphVars, callVars
  <2> QED
    BY <1>A, <2>1, <2>3, <2>7, <2>8 DEF EventInv
<1>16. CASE Tick \/ UNCHANGED vars
  <2>1. UNCHANGED <<marker, callVars, entries, first, lastDelivered, pending, pc, current,
                    handled, orphaned>>
    BY <1>16 DEF Tick, vars, graphVars, streamVars, workerVars
  <2>2. AckJustified' /\ NothingLost' /\ StampOwned'
    BY <1>A, <2>1 DEF AckJustified, NothingLost, StampOwned, Trimmed, NodeOf, callVars
  <2> QED
    BY <1>A, <2>1, <2>2 DEF EventInv
<1>17. ASSUME NEW w \in Workers, WorkerStep(w) \/ WorkerFault(w) PROVE EventInv'
  BY <1>5, <1>6, <1>7, <1>8, <1>9, <1>10, <1>11, <1>12, <1>13, <1>14, <1>15, <1>17
     DEF WorkerStep, WorkerFault
<1> QED
  BY <1>1, <1>2, <1>3, <1>4, <1>16, <1>17 DEF Next

\* A delivered event stays pending until it was finished, was malformed or was
\* trimmed: see NothingLost.
THEOREM EventsAreKept == Spec => []NothingLost
<1>1. EventInv => NothingLost
  BY DEF EventInv
<1> QED
  BY <1>1, TypeInvInit, TypeInvStep, EventInvInit, EventInvStep, PTL DEF Spec

\* The unfinished event that owns a stamp is still to be delivered or pending,
\* because nothing is lost.
LEMMA OwnedIsOwed == TypeInv /\ EventInv => StampHasEvent
<1> SUFFICES ASSUME TypeInv, EventInv, NEW n \in marker
             PROVE  \/ marking[n] > 0
                    \/ n \in orphaned
                    \/ \E e \in 1 .. Len(entries) :
                           /\ NodeOf(e) = n
                           /\ entries[e].wellFormed
                           /\ Open(e) \/ (Trimmed(e) /\ e \notin handled)
  BY DEF StampHasEvent
<1>1. SUFFICES ASSUME NEW e \in 1 .. Len(entries),
                      NodeOf(e) = n, entries[e].wellFormed, e \notin handled
               PROVE  Open(e) \/ Trimmed(e)
  BY DEF EventInv, StampOwned
<1>2. lastDelivered \in Nat
  BY DEF TypeInv, TypeOK, StreamTypeOK
<1>3. e > lastDelivered \/ e \in 1 .. lastDelivered
  BY <1>2
<1> QED
  BY <1>1, <1>3 DEF EventInv, NothingLost, Open

\* No stamp is ever without an event or a call that answers for it: see
\* StampHasEvent.
THEOREM StampsAreOwed == Spec => []StampHasEvent
  BY TypeInvInit, TypeInvStep, EventInvInit, EventInvStep, OwnedIsOwed, PTL DEF Spec

=============================================================================
