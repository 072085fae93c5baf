-------------------------- MODULE KnowledgeProofs ---------------------------
(***************************************************************************)
(* What a start of the process, a question, and a context built for one    *)
(* agent or for several may be relied on for, and what is learned: a text  *)
(* is read in full and its relations kept, names resolve to one node,      *)
(* weights follow use, and no start of the process or request takes back   *)
(* what was stored.  For any values of the constants.                      *)
(*                                                                         *)
(* Each section treats one component: how a step of the whole is a step of *)
(* the component, its inductive invariant, one proof per conjunct of the   *)
(* invariant with one case per action, and the property at the end.        *)
(***************************************************************************)
EXTENDS KnowledgePlane, FiniteSetTheorems, SequenceTheorems, WellFoundedInduction, TLAPS

-----------------------------------------------------------------------------
(* Application lifespan.                                                   *)

LEMMA LifeBegins ==
    ASSUME KnowledgeInit, focus = "lifespan"
    PROVE  Life!Init
BY DEF KnowledgeInit, KnowledgeFocus

LEMMA LifeMoves ==
    ASSUME [KnowledgeNext]_knowledgeVars, focus' = "lifespan"
    PROVE  focus = "lifespan" /\ (Life!Next \/ UNCHANGED LifeVars)
BY DEF KnowledgeNext, KnowledgeStays, knowledgeVars

LEMMA StartOrder ==
    /\ Life!Starting("graph") <=> lifeStep = <<"start", 1>>
    /\ Life!Starting("migrate") <=> lifeStep = <<"start", 2>>
    /\ Life!Starting("check") <=> lifeStep = <<"start", 3>>
    /\ Life!Starting("redis") <=> lifeStep = <<"start", 4>>
    /\ Life!Starting("kafka") <=> lifeStep = <<"start", 5>>
    /\ Life!Starting("analytics") <=> lifeStep = <<"start", 6>>
    /\ Life!Starting("tasks") <=> lifeStep = <<"start", 7>>
    /\ Life!Starting("listener") <=> lifeStep = <<"start", 8>>
    /\ Life!Starting("mcp") <=> lifeStep = <<"start", 9>>
BY DEF Life!Starting, Life!StartSteps

LEMMA StopOrder ==
    /\ Life!Stopping("mcp") <=> lifeStep = <<"stop", 1>>
    /\ Life!Stopping("listener") <=> lifeStep = <<"stop", 2>>
    /\ Life!Stopping("scheduler") <=> lifeStep = <<"stop", 3>>
    /\ Life!Stopping("analytics") <=> lifeStep = <<"stop", 4>>
    /\ Life!Stopping("kafka") <=> lifeStep = <<"stop", 5>>
    /\ Life!Stopping("replay") <=> lifeStep = <<"stop", 6>>
    /\ Life!Stopping("redis") <=> lifeStep = <<"stop", 7>>
    /\ Life!Stopping("graph") <=> lifeStep = <<"stop", 8>>
BY DEF Life!Stopping, Life!StopSteps

LEMMA StepsCounted == Len(Life!StartSteps) = 9 /\ Len(Life!StopSteps) = 8
BY DEF Life!StartSteps, Life!StopSteps

LEMMA NextOrder ==
    ASSUME Life!NextStep
    PROVE  /\ lifeStep = <<"start", 9>> => lifeStep' = <<"on", 0>>
           /\ lifeStep = <<"stop", 8>> => lifeStep' = <<"off", 0>>
           /\ \A n \in 1 .. 8 : lifeStep = <<"start", n>> => lifeStep' = <<"start", n + 1>>
           /\ \A n \in 1 .. 7 : lifeStep = <<"stop", n>> => lifeStep' = <<"stop", n + 1>>
BY DEF Life!NextStep, Life!StartSteps, Life!StopSteps

-----------------------------------------------------------------------------
(* The listener is started after its clients and ended before them.        *)
ListenerBetween ==
    "listener" \in tasks =>
        /\ {"graph", "redis"} \subseteq clients
        /\ \A n \in 1 .. 8 : lifeStep # <<"start", n>>
        /\ \A n \in 3 .. 8 : lifeStep # <<"stop", n>>
        /\ lifeStep # <<"off", 0>>

(* Hibernation is started after its client, which is closed last.          *)
HibernationWithin ==
    "hibernation" \in tasks =>
        /\ "graph" \in clients \/ lifeStep = <<"off", 0>>
        /\ \A n \in 1 .. 7 : lifeStep # <<"start", n>>

(* A process that could look has an index of its own length or none, and   *)
(* one that has looked has no vectors of another length, or has said so.   *)
Looked == lifeStep \in {<<"on", 0>>} \cup ({"start"} \X (4 .. 9))
LengthsFit ==
    \/ warned \/ excused
    \/ /\ vectorIndex # 0 => lengths \subseteq {vectorIndex}
       /\ lifeStep # <<"off", 0>> /\ lengths = {} => vectorIndex \in {0, configured}
       /\ Looked /\ "graph" \in clients => lengths \subseteq {configured}
       /\ \A d, e \in lengths : d = e

LifeInv ==
    /\ Life!TypeOK
    /\ ListenerBetween
    /\ HibernationWithin
    /\ LengthsFit
    /\ searchable => vectorIndex # 0

AtIsStep ==
    lifeStep \in {<<"off", 0>>, <<"on", 0>>} \cup ({"start"} \X (1 .. 9)) \cup ({"stop"} \X (1 .. 8))
RestTyped ==
    /\ clients \subseteq {"graph", "redis", "kafka", "analytics"}
    /\ tasks \subseteq {"scheduler", "hibernation", "listener", "mcp"}
    /\ configured \in Lengths /\ vectorIndex \in Lengths \cup {0}
    /\ lengths \subseteq Lengths /\ edgeWeight \in [OldEdges -> {"none", "default", "learned"}]
    /\ boots \in 0 .. MaxBoots /\ bootFaults \in 0 .. MaxBootFaults

FlagsTyped == searchable \in BOOLEAN /\ warned \in BOOLEAN /\ excused \in BOOLEAN

LEMMA LifeTypes == Life!TypeOK <=> AtIsStep /\ RestTyped /\ FlagsTyped
BY StepsCounted DEF Life!TypeOK, AtIsStep, RestTyped, FlagsTyped

LEMMA LifeInvInit == ASSUME Life!Init PROVE LifeInv
<1>1. AtIsStep
  BY DEF Life!Init, AtIsStep
<1>2. RestTyped
  BY LifeAssumption DEF Life!Init, RestTyped
<1>5. FlagsTyped
  BY DEF Life!Init, FlagsTyped
<1>3. ListenerBetween /\ HibernationWithin /\ LengthsFit /\ (searchable => vectorIndex # 0)
  BY DEF Life!Init, ListenerBetween, HibernationWithin, LengthsFit, Looked
<1>6. QED BY <1>1, <1>2, <1>3, <1>5, LifeTypes DEF LifeInv

LEMMA LifeInvStep ==
    ASSUME LifeInv, Life!Next \/ UNCHANGED LifeVars
    PROVE  LifeInv'
<1> USE DEF Life!stored, Life!history, Life!process, Life!Fault, Life!NoFault
<1>1. AtIsStep'
  <2> USE LifeTypes DEF LifeInv, AtIsStep
  <2>1. CASE Life!Start \/ Life!Stop \/ Life!Kill
    BY <2>1 DEF Life!Start, Life!Stop, Life!Kill
  <2>2. CASE Life!ConnectGraph \/ Life!Migrate \/ Life!Check
    BY <2>2, StartOrder, NextOrder DEF Life!ConnectGraph, Life!Migrate, Life!Check
  <2>3. CASE Life!StartTasks \/ Life!StartListener \/ Life!StartMcp
    BY <2>3, StartOrder, NextOrder DEF Life!StartTasks, Life!StartListener, Life!StartMcp
  <2>4. ASSUME NEW c \in {"redis", "kafka", "analytics"}, Life!Connect(c) PROVE AtIsStep'
    BY <2>4, StartOrder, NextOrder DEF Life!Connect
  <2>5. ASSUME NEW t \in {"mcp", "listener", "scheduler"}, Life!EndTask(t) PROVE AtIsStep'
    BY <2>5, StopOrder, NextOrder DEF Life!EndTask
  <2>6. ASSUME NEW c \in {"analytics", "kafka", "replay", "redis", "graph"}, Life!Close(c) PROVE AtIsStep'
    BY <2>6, StopOrder, NextOrder DEF Life!Close
  <2>7. CASE Life!Store \/ Life!OperatorIndexes \/ \E e \in OldEdges : Life!Learn(e)
    BY <2>7 DEF Life!Store, Life!OperatorIndexes, Life!Learn
  <2>8. CASE UNCHANGED LifeVars
    BY <2>8 DEF LifeVars
  <2>9. QED BY <2>1, <2>2, <2>3, <2>4, <2>5, <2>6, <2>7, <2>8 DEF Life!Next
<1>2. RestTyped'
  <2> USE LifeAssumption, LifeTypes DEF LifeInv, RestTyped
  <2>1. CASE Life!Start \/ Life!Stop \/ Life!Kill
    BY <2>1 DEF Life!Start, Life!Stop, Life!Kill
  <2>2. CASE Life!ConnectGraph
    BY <2>2 DEF Life!ConnectGraph, Life!Indexed
  <2>3. CASE Life!Migrate
    BY <2>3 DEF Life!Migrate, Life!Backfilled
  <2>4. CASE Life!Check
    BY <2>4 DEF Life!Check, Life!Mismatch
  <2>5. CASE Life!StartTasks \/ Life!StartListener \/ Life!StartMcp
    BY <2>5 DEF Life!StartTasks, Life!StartListener, Life!StartMcp
  <2>6. CASE \/ \E c \in {"redis", "kafka", "analytics"} : Life!Connect(c)
             \/ \E t \in {"mcp", "listener", "scheduler"} : Life!EndTask(t)
             \/ \E c \in {"analytics", "kafka", "replay", "redis", "graph"} : Life!Close(c)
    BY <2>6 DEF Life!Connect, Life!EndTask, Life!Close
  <2>7. CASE Life!Store \/ Life!OperatorIndexes \/ \E e \in OldEdges : Life!Learn(e)
    BY <2>7 DEF Life!Store, Life!OperatorIndexes, Life!Learn
  <2>8. CASE UNCHANGED LifeVars
    BY <2>8 DEF LifeVars
  <2>9. QED BY <2>1, <2>2, <2>3, <2>4, <2>5, <2>6, <2>7, <2>8 DEF Life!Next
<1>3. FlagsTyped'
  <2> USE LifeTypes DEF LifeInv, FlagsTyped
  <2>1. CASE Life!Start
    BY <2>1 DEF Life!Start
  <2>2. CASE Life!ConnectGraph
    BY <2>2 DEF Life!ConnectGraph, Life!Indexed
  <2>4. CASE Life!Check
    BY <2>4 DEF Life!Check
  <2>5. CASE \/ Life!Migrate \/ Life!StartTasks \/ Life!StartListener \/ Life!StartMcp
             \/ \E c \in {"redis", "kafka", "analytics"} : Life!Connect(c)
             \/ \E t \in {"mcp", "listener", "scheduler"} : Life!EndTask(t)
             \/ \E c \in {"analytics", "kafka", "replay", "redis", "graph"} : Life!Close(c)
             \/ Life!Store \/ Life!OperatorIndexes \/ \E e \in OldEdges : Life!Learn(e)
             \/ Life!Stop \/ Life!Kill
    BY <2>5 DEF Life!Migrate, Life!StartTasks, Life!StartListener, Life!StartMcp, Life!Connect,
       Life!EndTask, Life!Close, Life!Store, Life!OperatorIndexes, Life!Learn, Life!Stop, Life!Kill
  <2>8. CASE UNCHANGED LifeVars
    BY <2>8 DEF LifeVars
  <2>9. QED BY <2>1, <2>2, <2>4, <2>5, <2>8 DEF Life!Next
<1>4. Life!TypeOK'
  BY <1>1, <1>2, <1>3, StepsCounted DEF Life!TypeOK, AtIsStep, RestTyped, FlagsTyped
<1>5. ListenerBetween'
  <2> USE DEF LifeInv, ListenerBetween
  <2>1. CASE Life!Start \/ Life!ConnectGraph \/ Life!Migrate \/ Life!Check
    BY <2>1, StartOrder, NextOrder DEF Life!Start, Life!ConnectGraph, Life!Migrate, Life!Check
  <2>2. CASE Life!StartTasks \/ Life!StartListener \/ Life!StartMcp
    BY <2>2, StartOrder, NextOrder DEF Life!StartTasks, Life!StartListener, Life!StartMcp
  <2>3. ASSUME NEW c \in {"redis", "kafka", "analytics"}, Life!Connect(c) PROVE ListenerBetween'
    BY <2>3, StartOrder, NextOrder DEF Life!Connect
  <2>4. CASE Life!Store \/ Life!OperatorIndexes \/ Life!Stop \/ Life!Kill
    BY <2>4 DEF Life!Store, Life!OperatorIndexes, Life!Stop, Life!Kill
  <2>5. ASSUME NEW e \in OldEdges, Life!Learn(e) PROVE ListenerBetween'
    BY <2>5 DEF Life!Learn
  <2>6. ASSUME NEW t \in {"mcp", "listener", "scheduler"}, Life!EndTask(t) PROVE ListenerBetween'
    BY <2>6, StopOrder, NextOrder DEF Life!EndTask
  <2>7. ASSUME NEW c \in {"analytics", "kafka", "replay", "redis", "graph"}, Life!Close(c) PROVE ListenerBetween'
    BY <2>7, StopOrder, NextOrder DEF Life!Close
  <2>8. CASE UNCHANGED LifeVars
    BY <2>8 DEF LifeVars
  <2>9. QED BY <2>1, <2>2, <2>3, <2>4, <2>5, <2>6, <2>7, <2>8 DEF Life!Next
<1>6. (searchable => vectorIndex # 0)'
  <2> USE LifeAssumption DEF LifeInv, Life!TypeOK
  <2>1. CASE Life!Start \/ Life!ConnectGraph \/ Life!Migrate \/ Life!Check
    BY <2>1 DEF Life!Start, Life!ConnectGraph, Life!Indexed, Life!Migrate, Life!Check
  <2>2. CASE Life!StartTasks \/ Life!StartListener \/ Life!StartMcp
    BY <2>2 DEF Life!StartTasks, Life!StartListener, Life!StartMcp
  <2>3. CASE Life!Store \/ Life!OperatorIndexes \/ Life!Stop \/ Life!Kill \/ \E e \in OldEdges : Life!Learn(e)
    BY <2>3 DEF Life!Store, Life!OperatorIndexes, Life!Stop, Life!Kill, Life!Learn
  <2>4. CASE \/ \E c \in {"redis", "kafka", "analytics"} : Life!Connect(c)
             \/ \E t \in {"mcp", "listener", "scheduler"} : Life!EndTask(t)
             \/ \E c \in {"analytics", "kafka", "replay", "redis", "graph"} : Life!Close(c)
    BY <2>4 DEF Life!Connect, Life!EndTask, Life!Close
  <2>5. CASE UNCHANGED LifeVars
    BY <2>5 DEF LifeVars
  <2>6. QED BY <2>1, <2>2, <2>3, <2>4, <2>5 DEF Life!Next
<1>7. LengthsFit'
  <2> USE LifeAssumption DEF LifeInv, LengthsFit, Looked
  <2>0. /\ configured \in Lengths /\ vectorIndex \in Lengths \cup {0}
        /\ lengths \subseteq Lengths /\ warned \in BOOLEAN /\ excused \in BOOLEAN
    BY LifeTypes DEF RestTyped, FlagsTyped
  <2>1. CASE Life!Start
    BY <2>0, <2>1 DEF Life!Start
  <2>2. CASE Life!ConnectGraph
    BY <2>0, <2>2, StartOrder, NextOrder DEF Life!ConnectGraph, Life!Indexed
  <2>3. CASE Life!Migrate
    BY <2>0, <2>3, StartOrder, NextOrder DEF Life!Migrate
  <2>4. CASE Life!Check
    <3>1. /\ lifeStep = <<"start", 3>> /\ lifeStep' = <<"start", 4>>
          /\ UNCHANGED <<clients, configured, lengths, vectorIndex>>
      BY <2>4, StartOrder, NextOrder DEF Life!Check
    <3>2. CASE UNCHANGED excused /\ \E d \in lengths : warned' = (warned \/ d # configured)
      BY <2>0, <3>1, <3>2
    <3>3. CASE excused'
      BY <3>3
    <3>4. CASE ("graph" \notin clients \/ lengths = {}) /\ UNCHANGED <<warned, excused>>
      BY <2>0, <3>1, <3>4
    <3>5. QED BY <2>4, <3>2, <3>3, <3>4 DEF Life!Check, Life!Mismatch
  <2>5. CASE Life!StartTasks \/ Life!StartListener \/ Life!StartMcp
    BY <2>0, <2>5, StartOrder, NextOrder DEF Life!StartTasks, Life!StartListener, Life!StartMcp
  <2>6. ASSUME NEW c \in {"redis", "kafka", "analytics"}, Life!Connect(c) PROVE LengthsFit'
    BY <2>0, <2>6, StartOrder, NextOrder DEF Life!Connect
  <2>7. CASE Life!Store \/ Life!OperatorIndexes
    BY <2>0, <2>7 DEF Life!Store, Life!OperatorIndexes
  <2>8. CASE Life!Stop \/ Life!Kill \/ \E e \in OldEdges : Life!Learn(e)
    BY <2>0, <2>8 DEF Life!Stop, Life!Kill, Life!Learn
  <2>9. ASSUME NEW t \in {"mcp", "listener", "scheduler"}, Life!EndTask(t) PROVE LengthsFit'
    BY <2>0, <2>9, StopOrder, NextOrder DEF Life!EndTask
  <2>10. ASSUME NEW c \in {"analytics", "kafka", "replay", "redis", "graph"}, Life!Close(c) PROVE LengthsFit'
    BY <2>0, <2>10, StopOrder, NextOrder DEF Life!Close
  <2>11. CASE UNCHANGED LifeVars
    BY <2>11 DEF LifeVars
  <2>12. QED BY <2>1, <2>2, <2>3, <2>4, <2>5, <2>6, <2>7, <2>8, <2>9, <2>10, <2>11 DEF Life!Next
<1>8. HibernationWithin'
  <2> USE DEF LifeInv, HibernationWithin
  <2>1. CASE Life!Start \/ Life!ConnectGraph \/ Life!Migrate \/ Life!Check
    BY <2>1, StartOrder, NextOrder DEF Life!Start, Life!ConnectGraph, Life!Migrate, Life!Check
  <2>2. CASE Life!StartTasks \/ Life!StartListener \/ Life!StartMcp
    BY <2>2, StartOrder, NextOrder DEF Life!StartTasks, Life!StartListener, Life!StartMcp
  <2>3. ASSUME NEW c \in {"redis", "kafka", "analytics"}, Life!Connect(c) PROVE HibernationWithin'
    BY <2>3, StartOrder, NextOrder DEF Life!Connect
  <2>4. CASE Life!Store \/ Life!OperatorIndexes \/ Life!Stop \/ Life!Kill
    BY <2>4 DEF Life!Store, Life!OperatorIndexes, Life!Stop, Life!Kill
  <2>5. ASSUME NEW e \in OldEdges, Life!Learn(e) PROVE HibernationWithin'
    BY <2>5 DEF Life!Learn
  <2>6. ASSUME NEW t \in {"mcp", "listener", "scheduler"}, Life!EndTask(t) PROVE HibernationWithin'
    BY <2>6, StopOrder, NextOrder DEF Life!EndTask
  <2>7. ASSUME NEW c \in {"analytics", "kafka", "replay", "redis", "graph"}, Life!Close(c) PROVE HibernationWithin'
    BY <2>7, StopOrder, NextOrder DEF Life!Close
  <2>8. CASE UNCHANGED LifeVars
    BY <2>8 DEF LifeVars
  <2>9. QED BY <2>1, <2>2, <2>3, <2>4, <2>5, <2>6, <2>7, <2>8 DEF Life!Next
<1>9. QED BY <1>4, <1>5, <1>6, <1>7, <1>8 DEF LifeInv

LEMMA LifeKept == KnowledgeSpec => [](focus = "lifespan" => LifeInv)
<1>1. KnowledgeInit => (focus = "lifespan" => LifeInv)
  BY LifeBegins, LifeInvInit
<1>2. (focus = "lifespan" => LifeInv) /\ [KnowledgeNext]_knowledgeVars => (focus = "lifespan" => LifeInv)'
  BY LifeMoves, LifeInvStep
<1>3. QED BY <1>1, <1>2, PTL DEF KnowledgeSpec

LEMMA LearnedKeptStep ==
    ASSUME LifeInv, Life!Next \/ UNCHANGED LifeVars
    PROVE  Life!LearnedKept
<1> USE LifeTypes DEF LifeInv, RestTyped, Life!LearnedKept, Life!stored, Life!process
<1>1. CASE Life!Migrate
  BY <1>1 DEF Life!Migrate, Life!Backfilled
<1>2. ASSUME NEW e \in OldEdges, Life!Learn(e) PROVE Life!LearnedKept
  BY <1>2 DEF Life!Learn
<1>3. CASE UNCHANGED edgeWeight
  BY <1>3
<1>4. QED BY <1>1, <1>2, <1>3 DEF Life!Next, Life!Start, Life!ConnectGraph, Life!Check,
      Life!StartTasks, Life!StartListener, Life!StartMcp, Life!Connect, Life!EndTask, Life!Close,
      Life!Store, Life!OperatorIndexes, Life!Stop, Life!Kill, LifeVars

(* The listener runs only while its clients are open, hibernation as long  *)
(* as the graph is, to the last step of the shutdown; and search is offered*)
(* only over an index that fits the vectors, or with a warning: for any    *)
(* lengths, any number of starts and faults.                               *)
THEOREM LifespanOrdered == KnowledgeSpec => []LifespanIsOrdered
<1>1. (focus = "lifespan" => LifeInv) => LifespanIsOrdered
  BY DEF LifeInv, LifespanIsOrdered, Life!TasksHaveClients, Life!SearchIsCovered, ListenerBetween,
     HibernationWithin, LengthsFit
<1>2. QED BY <1>1, LifeKept, PTL

-----------------------------------------------------------------------------
(* Query pipeline.                                                         *)
LEMMA QueryBegins ==
    ASSUME KnowledgeInit, focus = "query"
    PROVE  Query!Init
BY DEF KnowledgeInit, KnowledgeFocus

LEMMA QueryMoves ==
    ASSUME [KnowledgeNext]_knowledgeVars, focus' = "query"
    PROVE  focus = "query" /\ (Query!Next \/ UNCHANGED QueryVars)
BY DEF KnowledgeNext, KnowledgeStays, knowledgeVars

AskRecords == [pc : Query!Points, stream : BOOLEAN, hidden : {{}, WeakLinks}, level : 1 .. 2,
               seeds : SUBSET Facts, found : Query!Answers, iter : 0 .. MaxIter,
               hit : BOOLEAN, at : 0 .. MaxHour, allowed : BOOLEAN]
CacheRecords == [answer : Query!Answers, at : 0 .. MaxHour, full : BOOLEAN]

(* What a request has collected is within the clearance it has read, which *)
(* is one the agent held then, and closed when it is answered with; a      *)
(* request that has not read its clearance has collected nothing.          *)
WorkSound(c) ==
    /\ c.pc \in {"new", "setup"} => c.found = Query!NoAnswer /\ c.level = 1
    /\ \A n \in c.found.nodes : n \in Restricted => c.level = 2
    /\ c.level = 2 => c.allowed
    /\ c.pc = "store" => \A l \in c.found.links : {l[1], l[2]} \subseteq c.found.nodes

CollectedReadable == \A r \in Asks : ask[r].pc \notin Query!Ended => WorkSound(ask[r])

(* A request that has worked out a restricted fact was allowed to.         *)
GivenAllowed ==
    \A r \in Asks : ask[r].pc = "ok" /\ ~ask[r].hit =>
        \A n \in ask[r].found.nodes : n \in Restricted => ask[r].allowed

(* The cache holds the answer of a request that ended, as it gave it.      *)
CacheIsEarned ==
    cache.full =>
        /\ cache.at <= hour
        /\ \E q \in Asks : /\ ask[q].pc = "ok" /\ ~ask[q].hit
                           /\ ask[q].found = cache.answer /\ ask[q].at = cache.at

QueryInv ==
    /\ Query!TypeOK
    /\ CollectedReadable
    /\ GivenAllowed
    /\ CacheIsEarned
    /\ Query!HitsAreRecent

LEMMA QueryInvInit == ASSUME Query!Init PROVE QueryInv
<1> USE QueryAssumption DEF Query!Init, Query!New, Query!NoAnswer
<1>1. Query!TypeOK
  BY DEF Query!TypeOK, Query!Answers, Query!Points
<1>2. CollectedReadable /\ CacheIsEarned /\ Query!HitsAreRecent /\ GivenAllowed
  <2>1. \A r \in Asks : /\ ask[r].pc = "new" /\ ask[r].level = 1 /\ ask[r].found = Query!NoAnswer
                        /\ ask[r].found.nodes = {}
    OBVIOUS
  <2>2. ~cache.full
    OBVIOUS
  <2>3. CollectedReadable
    BY <2>1 DEF CollectedReadable, WorkSound
  <2>4. CacheIsEarned /\ Query!HitsAreRecent /\ GivenAllowed
    BY <2>1, <2>2 DEF CacheIsEarned, Query!HitsAreRecent, GivenAllowed
  <2>5. QED BY <2>3, <2>4
<1>3. QED BY <1>1, <1>2 DEF QueryInv

LEMMA QueryTypes ==
    Query!TypeOK <=> /\ ask \in [Asks -> AskRecords] /\ cache \in CacheRecords
                     /\ facts \subseteq Facts /\ clearance \in 1 .. 2 /\ hour \in 0 .. MaxHour
                     /\ queryFaults \in 0 .. MaxQueryFaults
BY DEF Query!TypeOK, AskRecords, CacheRecords

LEMMA AskIs ==
    ASSUME Query!TypeOK, NEW r \in Asks, NEW c, Query!To(r, c)
    PROVE  ask'[r] = c /\ \A q \in Asks \ {r} : ask'[q] = ask[q]
BY DEF Query!TypeOK, Query!To

LEMMA NewTyped == Query!New \in AskRecords
BY QueryAssumption DEF Query!New, Query!NoAnswer, AskRecords, Query!Answers, Query!Points

(* A request at work goes to a record of a request at work.                *)
Working(c) == c \in AskRecords /\ c.pc \notin Query!Ended \cup {"new"} /\ WorkSound(c)
Moved(r)   == \E c \in AskRecords : Query!To(r, c) /\ Working(c)

LEMMA SameEvidence ==
    ASSUME NEW a, WorkSound(a), a.pc # "new",
           NEW c \in AskRecords, c.found = a.found, c.level = a.level, c.allowed = a.allowed,
           c.pc \notin Query!Ended \cup {"new", "setup", "store"}
    PROVE  Working(c)
BY DEF WorkSound, Working

LEMMA OnwardMoves ==
    ASSUME Query!TypeOK, NEW r \in Asks, NEW s \in SUBSET Facts, Query!Onward(r, s),
           WorkSound(ask[r]), ask[r].pc # "new"
    PROVE  Moved(r)
<1>1. ask[r] \in AskRecords
  BY QueryTypes
<1>0. {"expand", "answer"} \subseteq Query!Points \ (Query!Ended \cup {"new", "setup", "store"})
  BY DEF Query!Points, Query!Ended
<1>2. CASE Query!To(r, [ask[r] EXCEPT !.pc = "expand", !.seeds = s])
  <2> DEFINE c == [ask[r] EXCEPT !.pc = "expand", !.seeds = s]
  <2>1. c \in AskRecords /\ c.found = ask[r].found /\ c.level = ask[r].level /\ c.allowed = ask[r].allowed
        /\ c.pc = "expand"
    BY <1>0, <1>1 DEF AskRecords
  <2>2. Working(c)
    BY <1>0, <2>1, SameEvidence
  <2>3. QED BY <1>2, <2>1, <2>2 DEF Moved
<1>3. CASE /\ Query!MayGoOn(r)
           /\ Query!To(r, [ask[r] EXCEPT !.pc = "expand", !.iter = Query!Counted(r), !.seeds = Query!Readable(r, s)])
  <2> DEFINE c == [ask[r] EXCEPT !.pc = "expand", !.iter = Query!Counted(r), !.seeds = Query!Readable(r, s)]
  <2>0. Query!Counted(r) \in 0 .. MaxIter /\ Query!Readable(r, s) \subseteq Facts
    BY <1>1, <1>3, QueryAssumption DEF AskRecords, Query!MayGoOn, Query!Counted, Query!Readable
  <2>1. c \in AskRecords /\ c.found = ask[r].found /\ c.level = ask[r].level /\ c.allowed = ask[r].allowed
        /\ c.pc = "expand"
    BY <1>0, <1>1, <2>0 DEF AskRecords
  <2>2. Working(c)
    BY <1>0, <2>1, SameEvidence
  <2>3. QED BY <1>3, <2>1, <2>2 DEF Moved
<1>4. CASE Query!ToAnswer(r)
  <2> DEFINE c == [ask[r] EXCEPT !.pc = "answer", !.seeds = {}, !.iter = 0, !.hidden = {}]
  <2>0. 0 \in 0 .. MaxIter
    BY QueryAssumption
  <2>1. c \in AskRecords /\ c.found = ask[r].found /\ c.level = ask[r].level /\ c.allowed = ask[r].allowed
        /\ c.pc = "answer"
    BY <1>0, <1>1, <2>0 DEF AskRecords
  <2>2. Working(c)
    BY <1>0, <2>1, SameEvidence
  <2>3. QED BY <1>4, <2>1, <2>2 DEF Moved, Query!ToAnswer
<1>5. QED BY <1>2, <1>3, <1>4 DEF Query!Onward

LEMMA GotoMoves ==
    ASSUME Query!TypeOK, NEW r \in Asks, WorkSound(ask[r]), ask[r].pc # "new",
           NEW p \in {"search", "requery"}, Query!Goto(r, p)
    PROVE  Moved(r)
<1>0. p \in Query!Points \ (Query!Ended \cup {"new", "setup", "store"})
  BY DEF Query!Points, Query!Ended
<1>1. ask[r] \in AskRecords
  BY QueryTypes
<1> DEFINE c == [ask[r] EXCEPT !.pc = p]
<1>2. c \in AskRecords /\ c.found = ask[r].found /\ c.level = ask[r].level /\ c.allowed = ask[r].allowed /\ c.pc = p
  BY <1>0, <1>1 DEF AskRecords
<1>3. Working(c)
  BY <1>0, <1>2, SameEvidence
<1>4. QED BY <1>2, <1>3 DEF Moved, Query!Goto

(* The nodes of a round are those that the request may read.               *)
LEMMA NodesMove ==
    ASSUME Query!TypeOK, NEW r \in Asks, NEW good \in SUBSET facts, Query!ReadNodes(r, good),
           WorkSound(ask[r]), ask[r].pc # "new"
    PROVE  Moved(r)
<1>1. ask[r] \in AskRecords /\ facts \subseteq Facts
  BY QueryTypes
<1> DEFINE more == Query!Readable(r, Query!Near(good) \cap facts)
           c == [ask[r] EXCEPT !.pc = "links", !.seeds = good, !.found.nodes = @ \cup more]
<1>2. more \subseteq Facts /\ \A n \in more : n \in Restricted => ask[r].level = 2
  BY <1>1 DEF Query!Readable
<1>3. "links" \in Query!Points /\ "links" \notin Query!Ended \cup {"new", "setup", "store"}
  BY DEF Query!Points, Query!Ended
<1> HIDE DEF more
<1>4. /\ c \in AskRecords /\ c.pc = "links" /\ c.level = ask[r].level /\ c.allowed = ask[r].allowed
      /\ c.found.nodes = ask[r].found.nodes \cup more
  BY <1>1, <1>2, <1>3 DEF AskRecords, Query!Answers
<1>5. Working(c)
  BY <1>2, <1>3, <1>4 DEF Working, WorkSound
<1>6. Query!To(r, c)
  BY DEF Query!ReadNodes, more
<1>7. QED BY <1>4, <1>5, <1>6 DEF Moved

LEMMA LinksMove ==
    ASSUME Query!TypeOK, NEW r \in Asks, Query!ReadLinks(r), WorkSound(ask[r]), ask[r].pc # "new"
    PROVE  Moved(r)
<1>1. ask[r] \in AskRecords
  BY QueryTypes
<1> DEFINE p == IF ask[r].stream THEN "answer" ELSE "verify"
           more == Query!Around(ask[r].seeds) \ ask[r].hidden
           h == IF ask[r].stream THEN {} ELSE ask[r].hidden
           c == [ask[r] EXCEPT !.pc = p, !.seeds = {}, !.hidden = h, !.found.links = @ \cup more]
<1>2. more \subseteq Links
  BY DEF Query!Around
<1>3. p \in Query!Points /\ p \notin Query!Ended \cup {"new", "setup", "store"}
  BY DEF Query!Points, Query!Ended
<1>8. h \in {{}, WeakLinks}
  BY <1>1 DEF AskRecords
<1>6. Query!To(r, c)
  BY <1>1 DEF Query!ReadLinks, AskRecords, Query!Answers
<1> HIDE DEF more, p, h
<1>4. /\ c \in AskRecords /\ c.pc = p /\ c.level = ask[r].level /\ c.allowed = ask[r].allowed
      /\ c.found.nodes = ask[r].found.nodes
  BY <1>1, <1>2, <1>3, <1>8 DEF AskRecords, Query!Answers
<1>5. Working(c)
  BY <1>3, <1>4 DEF Working, WorkSound
<1>7. QED BY <1>4, <1>5, <1>6 DEF Moved

LEMMA SetupMoves ==
    ASSUME Query!TypeOK, NEW r \in Asks, Query!Setup(r), WorkSound(ask[r])
    PROVE  Moved(r)
<1>1. ask[r] \in AskRecords /\ clearance \in 1 .. 2 /\ ask[r].pc = "setup"
  BY QueryTypes DEF Query!Setup
<1>2. PICK hidden \in {{}, WeakLinks}, level \in Query!LevelsRead, b \in BOOLEAN :
          /\ b = (level = 2 /\ clearance = 2)
          /\ Query!To(r, [ask[r] EXCEPT !.pc = "seeds", !.hidden = hidden, !.level = level, !.allowed = b])
  BY DEF Query!Setup
<1> DEFINE c == [ask[r] EXCEPT !.pc = "seeds", !.hidden = hidden, !.level = level, !.allowed = b]
<1>3. level \in 1 .. 2 /\ (level = 2 => b)
  <2>1. level = clearance \/ level = 1
    BY DEF Query!LevelsRead
  <2>2. level \in 1 .. 2 /\ (level = 2 => clearance = 2)
    BY <1>1, <2>1
  <2>3. QED BY <1>2, <2>2
<1>4. "seeds" \in Query!Points /\ "seeds" \notin Query!Ended \cup {"new", "setup", "store"}
  BY DEF Query!Points, Query!Ended
<1>5. /\ c \in AskRecords /\ c.pc = "seeds" /\ c.level = level /\ c.allowed = b
      /\ c.found = ask[r].found
  BY <1>1, <1>2, <1>3, <1>4 DEF AskRecords
<1>6. ask[r].found.nodes = {}
  BY <1>1 DEF WorkSound, Query!NoAnswer
<1>7. Working(c)
  BY <1>3, <1>4, <1>5, <1>6 DEF Working, WorkSound
<1>8. QED BY <1>2, <1>5, <1>7 DEF Moved

LEMMA AnswerMoves ==
    ASSUME Query!TypeOK, NEW r \in Asks, Query!Answer(r), WorkSound(ask[r])
    PROVE  Moved(r)
<1>1. ask[r] \in AskRecords /\ ask[r].pc = "answer"
  BY QueryTypes DEF Query!Answer
<1> DEFINE kept == Query!KeptLinks(ask[r].found.nodes, ask[r].found.links)
           c == [ask[r] EXCEPT !.pc = "store", !.stream = FALSE, !.found.links = kept]
<1>2. kept \subseteq ask[r].found.links /\ \A l \in kept : {l[1], l[2]} \subseteq ask[r].found.nodes
  BY DEF Query!KeptLinks
<1>3. "store" \in Query!Points /\ "store" \notin Query!Ended \cup {"new", "setup"}
  BY DEF Query!Points, Query!Ended
<1>6. Query!To(r, c)
  BY <1>1 DEF Query!Answer, AskRecords, Query!Answers
<1> HIDE DEF kept
<1>4. /\ c \in AskRecords /\ c.pc = "store" /\ c.level = ask[r].level /\ c.allowed = ask[r].allowed
      /\ c.found.nodes = ask[r].found.nodes /\ c.found.links = kept
  BY <1>1, <1>2, <1>3 DEF AskRecords, Query!Answers
<1>5. Working(c)
  BY <1>1, <1>2, <1>3, <1>4 DEF Working, WorkSound
<1>7. QED BY <1>4, <1>5, <1>6 DEF Moved

(* Every step of a request: it works on, fails, gives its answer, or takes *)
(* the one in the cache.                                                   *)
Gives(r, c) ==
    /\ c.pc = "ok" /\ ~c.hit /\ c.found = ask[r].found /\ c.at = hour /\ c.allowed = ask[r].allowed
    /\ \/ UNCHANGED cache
       \/ cache' = [answer |-> ask[r].found, at |-> hour, full |-> TRUE]
Hits(c) == c.pc = "ok" /\ c.hit /\ c.found = cache.answer /\ c.at = hour /\ Query!Fresh /\ UNCHANGED cache
Outcome(r, c) ==
    \/ Working(c) /\ UNCHANGED cache
    \/ c.pc \in {"failed", "cut"} /\ UNCHANGED cache
    \/ Gives(r, c)
    \/ Hits(c)

LEMMA AskSteps ==
    ASSUME Query!TypeOK, CollectedReadable, NEW r \in Asks,
           Query!Step(r) \/ Query!Fail(r) \/ Query!Cut(r) \/ \E s \in BOOLEAN : Query!Begin(r, s)
    PROVE  /\ ask[r].pc \notin Query!Ended /\ Query!World
           /\ queryFaults' \in 0 .. MaxQueryFaults /\ cache' \in CacheRecords
           /\ \E c \in AskRecords : Query!To(r, c) /\ Outcome(r, c)
<1>1. ask[r].pc \notin Query!Ended /\ Query!World
  BY DEF Query!Ended, Query!Step, Query!Fail, Query!Cut, Query!Begin, Query!Setup, Query!Seeds, Query!Search,
     Query!Expand, Query!StreamRound, Query!ReadLinks, Query!Verify, Query!Requery, Query!Answer, Query!Store
<1>t. /\ ask[r] \in AskRecords /\ cache \in CacheRecords /\ facts \subseteq Facts /\ clearance \in 1 .. 2
      /\ hour \in 0 .. MaxHour /\ queryFaults \in 0 .. MaxQueryFaults /\ MaxQueryFaults \in Nat
  BY QueryTypes, QueryAssumption
<1>f. Query!Fault \/ Query!NoFault => queryFaults' \in 0 .. MaxQueryFaults
  BY <1>t DEF Query!Fault, Query!NoFault
<1>s. WorkSound(ask[r])
  BY <1>1 DEF CollectedReadable
<1>2. ASSUME Query!Setup(r) \/ Query!Seeds(r) \/ Query!Search(r) \/ Query!Expand(r) \/ Query!StreamRound(r)
             \/ Query!ReadLinks(r) \/ Query!Verify(r) \/ Query!Requery(r) \/ Query!Answer(r)
      PROVE  Moved(r) /\ UNCHANGED cache /\ queryFaults' \in 0 .. MaxQueryFaults
  <2>1. UNCHANGED cache /\ queryFaults' \in 0 .. MaxQueryFaults
    <3>1. UNCHANGED cache /\ (Query!Fault \/ Query!NoFault)
      BY <1>2 DEF Query!Setup, Query!Seeds, Query!Search, Query!Expand, Query!StreamRound, Query!ReadLinks,
         Query!Verify, Query!Requery, Query!Answer
    <3>2. QED BY <1>f, <3>1
  <2>2. CASE Query!Setup(r) \/ Query!Answer(r)
    BY <1>s, <2>1, <2>2, SetupMoves, AnswerMoves
  <2>3. CASE Query!Seeds(r)
    BY <1>s, <1>t, <2>1, <2>3, GotoMoves, OnwardMoves DEF Query!Seeds
  <2>4. CASE Query!Search(r) \/ Query!Requery(r)
    BY <1>s, <1>t, <2>1, <2>4, OnwardMoves DEF Query!Search, Query!Requery
  <2>5. CASE Query!Expand(r) \/ Query!StreamRound(r)
    <3>1. PICK good \in SUBSET facts : Query!ReadNodes(r, good)
      BY <2>5 DEF Query!Expand, Query!StreamRound
    <3>2. ask[r].pc # "new"
      BY <2>5 DEF Query!Expand, Query!StreamRound
    <3>3. QED BY <1>s, <2>1, <3>1, <3>2, NodesMove
  <2>6. CASE Query!ReadLinks(r)
    <3>1. ask[r].pc # "new"
      BY <2>6 DEF Query!ReadLinks
    <3>2. QED BY <1>s, <2>1, <2>6, <3>1, LinksMove
  <2>7. CASE Query!Verify(r)
    <3>1. ask[r].pc # "new"
      BY <2>7 DEF Query!Verify
    <3>2. CASE Query!Goto(r, "requery")
      BY <1>s, <2>1, <3>1, <3>2, GotoMoves
    <3>3. CASE Query!ToAnswer(r)
      <4>1. ~ask[r].stream \/ ask[r].stream
        BY <1>t DEF AskRecords
      <4> DEFINE c == [ask[r] EXCEPT !.pc = "answer", !.seeds = {}, !.iter = 0, !.hidden = {}]
      <4>2. "answer" \in Query!Points /\ "answer" \notin Query!Ended \cup {"new", "setup", "store"} /\ 0 \in 0 .. MaxIter
        BY QueryAssumption DEF Query!Points, Query!Ended
      <4>3. c \in AskRecords /\ c.found = ask[r].found /\ c.level = ask[r].level /\ c.allowed = ask[r].allowed
            /\ c.pc = "answer"
        BY <1>t, <4>2 DEF AskRecords
      <4>4. Working(c)
        BY <1>s, <3>1, <4>2, <4>3, SameEvidence
      <4>5. QED BY <2>1, <3>3, <4>3, <4>4 DEF Moved, Query!ToAnswer
    <3>4. QED BY <2>7, <3>2, <3>3 DEF Query!Verify
  <2>8. QED BY <1>2, <2>2, <2>3, <2>4, <2>5, <2>6, <2>7
<1>3. CASE Query!Store(r)
  <2> DEFINE c == [Query!New EXCEPT !.pc = "ok", !.at = hour, !.found = ask[r].found, !.allowed = ask[r].allowed]
  <2>1. /\ c \in AskRecords /\ c.pc = "ok" /\ ~c.hit /\ c.found = ask[r].found /\ c.at = hour
        /\ c.allowed = ask[r].allowed
    BY <1>t, NewTyped DEF Query!New, AskRecords, Query!Points
  <2>2. queryFaults' \in 0 .. MaxQueryFaults
    BY <1>f, <1>3 DEF Query!Store
  <2>3. \/ UNCHANGED cache
        \/ cache' = [answer |-> ask[r].found, at |-> hour, full |-> TRUE]
    BY <1>3 DEF Query!Store
  <2>4. cache' \in CacheRecords
    <3>1. ask[r].found \in Query!Answers /\ hour \in 0 .. MaxHour
      BY <1>t DEF AskRecords
    <3>2. CASE UNCHANGED cache
      BY <1>t, <3>2
    <3>3. CASE cache' = [answer |-> ask[r].found, at |-> hour, full |-> TRUE]
      BY <3>1, <3>3 DEF CacheRecords
    <3>4. QED BY <2>3, <3>2, <3>3
  <2>5. Query!To(r, c)
    BY <1>3 DEF Query!Store
  <2>6. Outcome(r, c)
    BY <2>1, <2>3 DEF Outcome, Gives
  <2>7. QED BY <1>1, <2>1, <2>2, <2>4, <2>5, <2>6
<1>4. CASE Query!Fail(r) \/ Query!Cut(r)
  <2>1. PICK p \in {"failed", "cut"} : Query!To(r, [Query!New EXCEPT !.pc = p])
    BY <1>4 DEF Query!Fail, Query!Cut, Query!End
  <2> DEFINE c == [Query!New EXCEPT !.pc = p]
  <2>2. c \in AskRecords /\ c.pc = p
    BY <1>t, NewTyped DEF Query!New, AskRecords, Query!Points
  <2>3. UNCHANGED cache /\ queryFaults' \in 0 .. MaxQueryFaults
    BY <1>t, <1>4 DEF Query!Fail, Query!Cut, Query!Fault, Query!NoFault
  <2>4. Outcome(r, c)
    BY <2>2, <2>3 DEF Outcome
  <2>5. QED BY <1>1, <1>t, <2>1, <2>2, <2>3, <2>4
<1>5. ASSUME NEW s \in BOOLEAN, Query!Begin(r, s)
      PROVE  /\ UNCHANGED cache /\ queryFaults' \in 0 .. MaxQueryFaults
             /\ \E c \in AskRecords : Query!To(r, c) /\ Outcome(r, c)
  <2>1. UNCHANGED cache /\ queryFaults' \in 0 .. MaxQueryFaults /\ ask[r].pc = "new"
    <3>1. UNCHANGED cache /\ ask[r].pc = "new" /\ (Query!Fault \/ Query!NoFault)
      BY <1>5 DEF Query!Begin
    <3>2. QED BY <1>f, <3>1
  <2>2. CASE Query!Fresh /\ Query!To(r, [Query!New EXCEPT !.pc = "ok", !.hit = TRUE, !.at = hour, !.found = cache.answer])
    <3> DEFINE c == [Query!New EXCEPT !.pc = "ok", !.hit = TRUE, !.at = hour, !.found = cache.answer]
    <3>1. c \in AskRecords /\ c.pc = "ok" /\ c.hit /\ c.found = cache.answer /\ c.at = hour
      BY <1>t, NewTyped DEF Query!New, AskRecords, Query!Points, CacheRecords
    <3>2. Outcome(r, c)
      BY <2>1, <2>2, <3>1 DEF Outcome, Hits
    <3>3. QED BY <2>1, <2>2, <3>1, <3>2
  <2>3. CASE Query!To(r, [ask[r] EXCEPT !.pc = "setup", !.stream = s])
    <3> DEFINE c == [ask[r] EXCEPT !.pc = "setup", !.stream = s]
    <3>0. "setup" \in Query!Points /\ "setup" \notin Query!Ended \cup {"new"}
      BY DEF Query!Points, Query!Ended
    <3>1. c \in AskRecords /\ c.pc = "setup" /\ c.found = ask[r].found /\ c.level = ask[r].level
      BY <1>t, <3>0 DEF AskRecords
    <3>2. c.found = Query!NoAnswer /\ c.level = 1
      BY <1>s, <2>1, <3>1 DEF WorkSound
    <3>3. Working(c)
      BY <3>0, <3>1, <3>2 DEF Working, WorkSound, Query!NoAnswer
    <3>4. QED BY <2>1, <2>3, <3>1, <3>3 DEF Outcome
  <2>4. QED BY <1>5, <2>2, <2>3 DEF Query!Begin
<1>6. QED BY <1>1, <1>t, <1>2, <1>3, <1>4, <1>5 DEF Query!Step, Moved, Outcome

LEMMA QueryTyped ==
    ASSUME Query!TypeOK, CollectedReadable, Query!Next \/ UNCHANGED QueryVars
    PROVE  Query!TypeOK'
<1>1. ASSUME NEW r \in Asks,
             Query!Step(r) \/ Query!Fail(r) \/ Query!Cut(r) \/ \E s \in BOOLEAN : Query!Begin(r, s)
      PROVE  Query!TypeOK'
  <2>1. /\ Query!World /\ queryFaults' \in 0 .. MaxQueryFaults /\ cache' \in CacheRecords
        /\ \E c \in AskRecords : Query!To(r, c)
    BY <1>1, AskSteps
  <2>2. ask' \in [Asks -> AskRecords]
    BY <2>1, QueryTypes DEF Query!To
  <2>3. QED BY <2>1, <2>2, QueryTypes DEF Query!World, Query!TypeOK, AskRecords, CacheRecords
<1>3. CASE Query!Update \/ Query!Tick \/ \E f \in Facts : Query!Delete(f) \/ Query!Write(f)
  BY <1>3, QueryAssumption DEF Query!Update, Query!Tick, Query!Delete, Query!Write, Query!TypeOK
<1>4. CASE UNCHANGED QueryVars
  BY <1>4 DEF QueryVars, Query!TypeOK, Query!Answers, Query!Points
<1>5. QED BY <1>1, <1>3, <1>4 DEF Query!Next

LEMMA CollectedStep ==
    ASSUME QueryInv, Query!Next \/ UNCHANGED QueryVars
    PROVE  CollectedReadable' /\ GivenAllowed'
<1> USE DEF QueryInv
<1>1. ASSUME NEW r \in Asks,
             Query!Step(r) \/ Query!Fail(r) \/ Query!Cut(r) \/ \E s \in BOOLEAN : Query!Begin(r, s)
      PROVE  CollectedReadable' /\ GivenAllowed'
  <2>1. PICK c \in AskRecords : Query!To(r, c) /\ Outcome(r, c)
    BY <1>1, AskSteps
  <2>2. ask'[r] = c /\ (\A q \in Asks \ {r} : ask'[q] = ask[q]) /\ ask[r].pc \notin Query!Ended
    BY <1>1, <2>1, AskIs, AskSteps
  <2>3. c.pc \notin Query!Ended => WorkSound(c)
    BY <2>1 DEF Outcome, Working, Gives, Hits, Query!Ended
  <2>4. CollectedReadable'
    BY <2>2, <2>3 DEF CollectedReadable, WorkSound
  <2>5. ASSUME c.pc = "ok", ~c.hit, NEW n \in c.found.nodes, n \in Restricted PROVE c.allowed
    <3>1. Gives(r, c)
      BY <2>1, <2>5 DEF Outcome, Working, Hits, Query!Ended
    <3>2. QED BY <2>2, <2>5, <3>1 DEF Gives, CollectedReadable, WorkSound
  <2>6. GivenAllowed'
    BY <2>2, <2>5 DEF GivenAllowed
  <2>7. QED BY <2>4, <2>6
<1>2. CASE UNCHANGED ask
  BY <1>2 DEF CollectedReadable, WorkSound, GivenAllowed
<1>3. QED BY <1>1, <1>2 DEF Query!Next, Query!Update, Query!Tick, Query!Delete, Query!Write, QueryVars

(* A cached answer was given in full, and one that is served is no older   *)
(* than its life.                                                          *)
LEMMA CacheStep ==
    ASSUME QueryInv, Query!Next \/ UNCHANGED QueryVars
    PROVE  CacheIsEarned' /\ Query!HitsAreRecent'
<1> USE QueryAssumption DEF QueryInv
<1>t. hour \in Nat /\ cache.at \in Nat /\ \A q \in Asks : ask[q] \in AskRecords
  BY QueryTypes DEF CacheRecords
<1>1. ASSUME NEW r \in Asks,
             Query!Step(r) \/ Query!Fail(r) \/ Query!Cut(r) \/ \E s \in BOOLEAN : Query!Begin(r, s)
      PROVE  CacheIsEarned' /\ Query!HitsAreRecent'
  <2>1. PICK c \in AskRecords : Query!To(r, c) /\ Outcome(r, c)
    BY <1>1, AskSteps
  <2>2. ask'[r] = c /\ (\A q \in Asks \ {r} : ask'[q] = ask[q]) /\ UNCHANGED hour /\ ask[r].pc # "ok"
    BY <1>1, <2>1, AskIs, AskSteps DEF Query!World, Query!Ended
  <2>0. \A q \in Asks : ask[q].pc = "ok" => ask'[q] = ask[q]
    BY <2>2
  <2>3. CASE Gives(r, c)
    <3>1. CASE UNCHANGED cache
      BY <2>0, <2>2, <2>3, <3>1 DEF Gives, CacheIsEarned, Query!HitsAreRecent, Query!GaveIt
    <3>2. CASE cache' = [answer |-> ask[r].found, at |-> hour, full |-> TRUE]
      <4>1. CacheIsEarned'
        BY <1>t, <2>2, <2>3, <3>2 DEF Gives, CacheIsEarned
      <4>2. Query!HitsAreRecent'
        BY <2>0, <2>2, <2>3 DEF Gives, Query!HitsAreRecent, Query!GaveIt
      <4>3. QED BY <4>1, <4>2
    <3>3. QED BY <2>3, <3>1, <3>2 DEF Gives
  <2>4. CASE Hits(c)
    <3>1. CacheIsEarned'
      BY <2>0, <2>2, <2>4 DEF Hits, CacheIsEarned
    <3>2. PICK q \in Asks : /\ ask[q].pc = "ok" /\ ~ask[q].hit
                            /\ ask[q].found = cache.answer /\ ask[q].at = cache.at
      BY <2>4 DEF Hits, CacheIsEarned, Query!Fresh
    <3>3. hour - cache.at \in 0 .. TTL
      BY <1>t, <2>4 DEF Hits, CacheIsEarned, Query!Fresh
    <3>4. Query!GaveIt(q, r)'
      BY <2>0, <2>2, <2>4, <3>2, <3>3 DEF Hits, Query!GaveIt
    <3>5. Query!HitsAreRecent'
      BY <2>0, <2>2, <3>2, <3>4 DEF Query!HitsAreRecent, Query!GaveIt
    <3>6. QED BY <3>1, <3>5
  <2>5. CASE UNCHANGED cache /\ c.pc # "ok"
    BY <2>0, <2>2, <2>5 DEF CacheIsEarned, Query!HitsAreRecent, Query!GaveIt
  <2>6. QED BY <2>1, <2>3, <2>4, <2>5 DEF Outcome, Working, Query!Ended
<1>2. CASE UNCHANGED <<ask, cache>> /\ hour' >= hour /\ hour' \in Nat
  BY <1>t, <1>2 DEF CacheIsEarned, Query!HitsAreRecent, Query!GaveIt
<1>3. QED BY <1>t, <1>1, <1>2 DEF Query!Next, Query!Update, Query!Tick, Query!Delete, Query!Write, QueryVars

LEMMA QueryKept == KnowledgeSpec => [](focus = "query" => QueryInv)
<1>1. KnowledgeInit => (focus = "query" => QueryInv)
  BY QueryBegins, QueryInvInit
<1>2. (focus = "query" => QueryInv) /\ [KnowledgeNext]_knowledgeVars => (focus = "query" => QueryInv)'
  <2>1. ASSUME QueryInv, Query!Next \/ UNCHANGED QueryVars PROVE QueryInv'
    BY <2>1, QueryTyped, CollectedStep, CacheStep DEF QueryInv
  <2>2. QED BY <2>1, QueryMoves
<1>3. QED BY <1>1, <1>2, PTL DEF KnowledgeSpec

(* The evidence of an answer is closed and within the clearance its request*)
(* read; an answer with a restricted fact, cached or not, was worked out by*)
(* a request that read the clearance for it while the agent held it; and a *)
(* cached one was given in full, no longer ago than its life: for any graph*)
(* and requests, and any number of changes of the clearance, of rounds, of *)
(* hours and of faults.                                                    *)
THEOREM AnswersServable == KnowledgeSpec => []AnswersAreServable
<1>1. QueryInv => Query!AnswerIsClosed
  BY DEF QueryInv, CollectedReadable, WorkSound, Query!AnswerIsClosed, Query!Readable, Query!Ended
<1>2. ASSUME QueryInv PROVE Query!AnswersWereAllowed
  <2> SUFFICES ASSUME NEW r \in Asks, ask[r].pc = "ok", ask[r].found.nodes \cap Restricted # {}
               PROVE  \E q \in Asks : Query!GaveIt(q, r) /\ ask[q].allowed
    BY DEF Query!AnswersWereAllowed
  <2>1. ask[r] \in AskRecords
    BY <1>2, QueryTypes DEF QueryInv
  <2>2. CASE ask[r].hit
    BY <1>2, <2>2 DEF QueryInv, Query!HitsAreRecent, Query!GaveIt, GivenAllowed
  <2>3. CASE ~ask[r].hit
    <3>1. ask[r].at - ask[r].at \in 0 .. TTL
      BY <2>1, QueryAssumption DEF AskRecords
    <3>2. QED BY <1>2, <2>3, <3>1 DEF QueryInv, Query!GaveIt, GivenAllowed
  <2>4. QED BY <2>2, <2>3
<1>3. (focus = "query" => QueryInv) => AnswersAreServable
  BY <1>1, <1>2 DEF QueryInv, AnswersAreServable
<1>4. QED BY <1>3, QueryKept, PTL

-----------------------------------------------------------------------------
(* Context of one agent, over a bridge or not.                             *)
LEMMA ContextBegins ==
    ASSUME KnowledgeInit, focus = "context"
    PROVE  Context!Init
BY DEF KnowledgeInit, KnowledgeFocus

LEMMA ContextMoves ==
    ASSUME [KnowledgeNext]_knowledgeVars, focus' = "context"
    PROVE  focus = "context" /\ (Context!Next \/ UNCHANGED ContextVars)
BY DEF KnowledgeNext, KnowledgeStays, knowledgeVars

(* Once a retrieval has read who is allowed, every own fact is, and those  *)
(* of a partner only if a bridge was there.                                *)
AllowedByBridge ==
    /\ retrieval.pc # "new" /\ bridge => bridged
    /\ retrieval.pc = "new" => retrieval.allowed = {}
    /\ retrieval.allowed \cap PartnerNotes # {} => bridged
    /\ retrieval.pc \in {"keyword", "fallback"} => Notes \ PartnerNotes \subseteq retrieval.allowed

(* Nothing is shown that was not allowed, and a classic retrieval that     *)
(* follows an empty one starts with nothing.                               *)
ShownAllowed ==
    /\ retrieval.shown \subseteq retrieval.allowed \ ClosedNotes
    /\ \A b \in retrieval.lines : {b[1], b[2]} \subseteq retrieval.allowed \ ClosedNotes
    /\ retrieval.pc \in {"new", "agents", "keyword", "fallback"} => retrieval.shown = {} /\ retrieval.lines = {}

ContextInv ==
    /\ Context!TypeOK
    /\ AllowedByBridge
    /\ ShownAllowed
    /\ readAlong \subseteq (Notes \ PartnerNotes) \ ClosedNotes
    /\ ~anchored => readAlong = {} /\ ~bridge
    /\ Context!NotEmptyHanded

Retrievals == [pc : {"new", "agents", "keyword", "fallback", "relations", "empty", "ok", "failed"},
               synaptic : BOOLEAN, keywords : BOOLEAN, allowed : SUBSET Notes,
               shown : SUBSET Notes, lines : SUBSET Bonds]

LEMMA ContextInvInit == ASSUME Context!Init PROVE ContextInv
<1>1. Context!TypeOK
  BY DEF Context!Init, Context!TypeOK
<1>2. QED BY <1>1 DEF Context!Init, ContextInv, AllowedByBridge, ShownAllowed, Context!NotEmptyHanded

(* A hit is a stored note the agent is allowed to read.                    *)
LEMMA HitsAllowed ==
    ASSUME Context!TypeOK, NEW among, NEW h \in Context!Hits(among)
    PROVE  h \subseteq (notes \cap retrieval.allowed) \ ClosedNotes /\ h \subseteq Notes
BY DEF Context!Hits, Context!Open, Context!TypeOK

LEMMA ContextCounts == ASSUME NEW S PROVE Context!Cardinality(S) = Cardinality(S)
BY DEF Context!Cardinality, Cardinality

(* A search without keywords finds nothing only where nothing is.          *)
LEMMA SearchFinds ==
    ASSUME Context!TypeOK, {} \in Context!Hits(Notes), ~retrieval.synaptic
    PROVE  Context!Open(notes \cap retrieval.allowed) = {}
<1> DEFINE left == Context!Open(notes \cap retrieval.allowed \cap Notes) \ (IF retrieval.synaptic THEN faded ELSE {})
<1>1. left = Context!Open(notes \cap retrieval.allowed)
  BY DEF Context!TypeOK, Context!Open
<1>2. IsFiniteSet(left)
  BY <1>1, ContextAssumption, FS_Subset DEF Context!Open, Context!TypeOK
<1>3. Cardinality({}) = IF Cardinality(left) < ContextLimit THEN Cardinality(left) ELSE ContextLimit
  BY ContextCounts DEF Context!Hits
<1>4. Cardinality(left) = 0
  BY <1>2, <1>3, ContextAssumption, FS_EmptySet, FS_CardinalityType
<1>5. QED BY <1>1, <1>2, <1>4, FS_EmptySet

LEMMA ContextInvStep ==
    ASSUME ContextInv, Context!Next \/ UNCHANGED ContextVars
    PROVE  ContextInv'
<1>0. /\ retrieval \in Retrievals /\ anchored \in BOOLEAN /\ bridge \in BOOLEAN /\ bridged \in BOOLEAN
      /\ notes \subseteq Notes /\ readAlong \subseteq notes /\ Context!TypeOK
  BY DEF ContextInv, Context!TypeOK, Retrievals
<1> USE DEF ContextInv, Retrievals
<1>1. ASSUME NEW s \in BOOLEAN, NEW k \in BOOLEAN, Context!Ask(s, k) PROVE ContextInv'
  <2>1. retrieval' \in Retrievals
    BY <1>0, <1>1 DEF Context!Ask
  <2>2. Context!TypeOK'
    BY <1>0, <1>1, <2>1 DEF Context!Ask, Context!TypeOK, Context!Open, Context!Mine
  <2>3. (AllowedByBridge /\ ShownAllowed /\ Context!NotEmptyHanded)'
    BY <1>0, <1>1 DEF Context!Ask, AllowedByBridge, ShownAllowed, Context!NotEmptyHanded
  <2>4. QED BY <1>0, <1>1, <2>2, <2>3 DEF Context!Ask, Context!Open, Context!Mine
<1>2. CASE Context!Allow
  <2>1. retrieval' \in Retrievals
    BY <1>0, <1>2 DEF Context!Allow, Context!Mine
  <2>2. Context!TypeOK'
    BY <1>0, <1>2, <2>1 DEF Context!Allow, Context!Graph, Context!TypeOK
  <2>3. (AllowedByBridge /\ ShownAllowed /\ Context!NotEmptyHanded)'
    BY <1>0, <1>2 DEF Context!Allow, Context!Graph, Context!Mine, AllowedByBridge, ShownAllowed, Context!NotEmptyHanded
  <2>4. QED BY <1>0, <1>2, <2>2, <2>3 DEF Context!Allow, Context!Graph
<1>12. CASE Context!AllowNothing
  <2>1. retrieval' \in Retrievals
    BY <1>0, <1>12 DEF Context!AllowNothing
  <2>2. Context!TypeOK'
    BY <1>0, <1>12, <2>1 DEF Context!AllowNothing, Context!Graph, Context!TypeOK
  <2>3. (AllowedByBridge /\ ShownAllowed /\ Context!NotEmptyHanded)'
    BY <1>0, <1>12 DEF Context!AllowNothing, Context!Graph, AllowedByBridge, ShownAllowed, Context!NotEmptyHanded
  <2>4. QED BY <1>0, <1>12, <2>2, <2>3 DEF Context!AllowNothing, Context!Graph
<1>3. CASE Context!Keyword
  <2>0. PICK h \in Context!Hits(Matching \ stale) :
            retrieval' = [retrieval EXCEPT !.pc = IF h = {} THEN "fallback" ELSE "relations", !.shown = h]
    BY <1>3 DEF Context!Keyword
  <2>h. h \subseteq (notes \cap retrieval.allowed) \ ClosedNotes /\ h \subseteq Notes
    BY <1>0, HitsAllowed
  <2>1. retrieval' \in Retrievals
    BY <1>0, <2>0, <2>h
  <2>2. Context!TypeOK'
    BY <1>0, <1>3, <2>1 DEF Context!Keyword, Context!Graph, Context!TypeOK
  <2>3. (AllowedByBridge /\ ShownAllowed /\ Context!NotEmptyHanded)'
    BY <1>0, <1>3, <2>0, <2>h DEF Context!Keyword, Context!Graph, AllowedByBridge, ShownAllowed, Context!NotEmptyHanded
  <2>4. QED BY <1>0, <1>3, <2>2, <2>3 DEF Context!Keyword, Context!Graph
<1>4. CASE Context!Fallback
  <2>0. PICK h \in Context!Hits(Notes) :
            retrieval' = IF h = {} THEN Context!AfterNothing ELSE [retrieval EXCEPT !.pc = "relations", !.shown = h]
    BY <1>4 DEF Context!Fallback
  <2>h. h \subseteq (notes \cap retrieval.allowed) \ ClosedNotes /\ h \subseteq Notes
    BY <1>0, HitsAllowed
  <2>1. retrieval' \in Retrievals
    BY <1>0, <2>0, <2>h DEF Context!AfterNothing
  <2>2. Context!TypeOK'
    BY <1>0, <1>4, <2>1 DEF Context!Fallback, Context!Graph, Context!TypeOK
  <2>3. (AllowedByBridge /\ ShownAllowed)'
    BY <1>0, <1>4, <2>0, <2>h
    DEF Context!Fallback, Context!Graph, Context!AfterNothing, AllowedByBridge, ShownAllowed
  <2>4. Context!NotEmptyHanded'
    <3>1. CASE h = {} /\ ~retrieval.synaptic
      BY <1>0, <1>4, <2>0, <3>1, SearchFinds
      DEF Context!Fallback, Context!Graph, Context!Open, Context!NotEmptyHanded, AllowedByBridge
    <3>2. CASE h # {} \/ retrieval.synaptic
      BY <1>0, <1>4, <2>0, <3>2 DEF Context!AfterNothing, Context!NotEmptyHanded
    <3>3. QED BY <3>1, <3>2
  <2>5. QED BY <1>0, <1>4, <2>2, <2>3, <2>4 DEF Context!Fallback, Context!Graph
<1>5. CASE Context!Relate
  <2>0. PICK ls \in SUBSET Bonds :
            /\ retrieval' = [retrieval EXCEPT !.pc = "ok", !.lines = ls]
            /\ \A b \in ls : {b[1], b[2]} \subseteq retrieval.allowed \ ClosedNotes
    BY <1>5 DEF Context!Relate, Context!LineAllowed, Context!Open
  <2>1. retrieval' \in Retrievals
    BY <1>0, <2>0
  <2>2. Context!TypeOK'
    BY <1>0, <1>5, <2>1 DEF Context!Relate, Context!Graph, Context!TypeOK
  <2>3. (AllowedByBridge /\ ShownAllowed /\ Context!NotEmptyHanded)'
    BY <1>0, <1>5, <2>0 DEF Context!Relate, Context!Graph, AllowedByBridge, ShownAllowed, Context!NotEmptyHanded
  <2>4. QED BY <1>0, <1>5, <2>2, <2>3 DEF Context!Relate, Context!Graph
<1>6. CASE Context!Fails
  <2>1. retrieval' \in Retrievals
    BY <1>0, <1>6 DEF Context!Fails
  <2>2. Context!TypeOK'
    BY <1>0, <1>6, <2>1 DEF Context!Fails, Context!Graph, Context!TypeOK
  <2>3. (AllowedByBridge /\ ShownAllowed /\ Context!NotEmptyHanded)'
    BY <1>0, <1>6 DEF Context!Fails, Context!Graph, AllowedByBridge, ShownAllowed, Context!NotEmptyHanded
  <2>4. QED BY <1>0, <1>6, <2>2, <2>3 DEF Context!Fails, Context!Graph
<1>7. CASE Context!Connect \/ Context!Disconnect
  BY <1>0, <1>7 DEF Context!Connect, Context!Disconnect, Context!TypeOK, AllowedByBridge, ShownAllowed, Context!NotEmptyHanded
<1>13. CASE Context!Leave \/ Context!Arrive
  <2>1. /\ anchored' \in BOOLEAN /\ bridge' \in BOOLEAN /\ notes' \subseteq Notes /\ readAlong' \subseteq notes'
        /\ readAlong' \subseteq (Notes \ PartnerNotes) \ ClosedNotes /\ readAlong' \subseteq readAlong
        /\ (bridge' => bridge)
        /\ (~anchored' => readAlong' = {} /\ ~bridge')
        /\ UNCHANGED <<faded, outdated, stale, retrieval, bridged>>
    <3>1. CASE Context!Leave
      BY <1>0, <3>1 DEF Context!Leave
    <3>2. CASE Context!Arrive
      BY <1>0, <3>2 DEF Context!Arrive
    <3>3. QED BY <1>13, <3>1, <3>2
  <2>2. Context!TypeOK'
    BY <1>0, <2>1 DEF Context!TypeOK
  <2>3. (AllowedByBridge /\ ShownAllowed)'
    BY <2>1 DEF AllowedByBridge, ShownAllowed
  <2>4. Context!NotEmptyHanded'
    BY <2>1 DEF Context!NotEmptyHanded
  <2>5. QED BY <2>1, <2>2, <2>3, <2>4
<1>8. ASSUME NEW n \in Notes, Context!Erase(n) \/ Context!Fade(n) \/ Context!Revive(n) PROVE ContextInv'
  BY <1>0, <1>8 DEF Context!Erase, Context!Fade, Context!Revive, Context!TypeOK, AllowedByBridge, ShownAllowed, Context!NotEmptyHanded
<1>9. ASSUME NEW b \in Bonds, Context!Outdate(b) PROVE ContextInv'
  BY <1>0, <1>9 DEF Context!Outdate, Context!TypeOK, AllowedByBridge, ShownAllowed, Context!NotEmptyHanded
<1>10. CASE UNCHANGED ContextVars
  BY <1>0, <1>10 DEF ContextVars, Context!TypeOK, AllowedByBridge, ShownAllowed, Context!NotEmptyHanded
<1>11. QED BY <1>1, <1>2, <1>3, <1>4, <1>5, <1>6, <1>7, <1>8, <1>9, <1>10, <1>12, <1>13
      DEF Context!Next

LEMMA ContextKept == KnowledgeSpec => [](focus = "context" => ContextInv)
<1>1. KnowledgeInit => (focus = "context" => ContextInv)
  BY ContextBegins, ContextInvInit
<1>2. (focus = "context" => ContextInv) /\ [KnowledgeNext]_knowledgeVars => (focus = "context" => ContextInv)'
  BY ContextMoves, ContextInvStep
<1>3. QED BY <1>1, <1>2, PTL DEF KnowledgeSpec

-----------------------------------------------------------------------------
(* Connections between brains, and the merged answer.                      *)
LEMMA ScopeBegins ==
    ASSUME KnowledgeInit, focus = "scope"
    PROVE  Scope!Init
BY DEF KnowledgeInit, KnowledgeFocus

LEMMA ScopeMoves ==
    ASSUME [KnowledgeNext]_knowledgeVars, focus' = "scope"
    PROVE  focus = "scope" /\ (Scope!Next \/ UNCHANGED ScopeVars)
BY DEF KnowledgeNext, KnowledgeStays, knowledgeVars

LEMMA ScopeCounts == ASSUME NEW S PROVE Scope!Cardinality(S) = Cardinality(S)
BY DEF Scope!Cardinality, Cardinality

GrantRecords == [on : BOOLEAN, to : Targets, kinds : SUBSET Kinds, rels : SUBSET Rels, until : 0 .. MaxNow]

(* A grant that was valid in some turn has been given, so it is never given*)
(* anew with another scope; the one in hand leads to the target of the turn. *)
AllowedStay ==
    /\ \A g \in allowedBy : grant[g].until > 0
    /\ \A g \in inHand : g \in allowedBy /\ lists # <<>> /\ grant[g].to = Head(lists)

ScopeInv ==
    /\ Scope!TypeOK
    /\ lists \in Seq(Targets)
    /\ AllowedStay
    /\ Scope!MergedIsScoped

LEMMA ScopeInvInit == ASSUME Scope!Init PROVE ScopeInv
<1>1. PICK t \in Targets, u \in Targets : lists = <<t, u>>
  BY DEF Scope!Init
<1>2. Scope!Unused \in GrantRecords
  BY <1>1, ScopeAssumption DEF Scope!Unused, GrantRecords
<1>3. Scope!Nothing \in Scope!AnyGraph
  BY DEF Scope!Nothing, Scope!Graph, Scope!AnyGraph
<1>4. Scope!Cardinality(inHand) <= 1
  BY ScopeCounts, FS_EmptySet DEF Scope!Init
<1>5. Scope!TypeOK
  BY <1>2, <1>3, <1>4, ScopeAssumption DEF Scope!Init, Scope!TypeOK, GrantRecords
<1>6. lists \in Seq(Targets)
  BY <1>1
<1>7. AllowedStay /\ Scope!MergedIsScoped
  BY DEF Scope!Init, AllowedStay, Scope!MergedIsScoped, Scope!Nothing, Scope!Graph
<1>8. QED BY <1>5, <1>6, <1>7 DEF ScopeInv

(* What a grant allows is fixed when it is given.                          *)
LEMMA GrantsFixed ==
    ASSUME Scope!TypeOK, AllowedStay, NEW h \in Grants, Scope!CreateConnection(h) \/ Scope!RevokeConnection(h)
    PROVE  /\ grant' \in [Grants -> GrantRecords]
           /\ \A g \in allowedBy : /\ grant'[g].to = grant[g].to /\ grant'[g].kinds = grant[g].kinds
                                   /\ grant'[g].rels = grant[g].rels /\ grant'[g].until = grant[g].until
           /\ UNCHANGED <<now, Scope!Query>>
<1>1. grant \in [Grants -> GrantRecords] /\ allowedBy \subseteq Grants
  BY DEF Scope!TypeOK, GrantRecords
<1>2. CASE Scope!CreateConnection(h)
  <2>1. PICK t \in Targets, ks \in {{}} \cup {{k} : k \in Kinds}, rs \in {{}} \cup {{r} : r \in Rels}, u \in 1 .. MaxNow :
            grant' = [grant EXCEPT ![h] = [on |-> TRUE, to |-> t, kinds |-> ks, rels |-> rs, until |-> u]]
    BY <1>2 DEF Scope!CreateConnection
  <2>2. [on |-> TRUE, to |-> t, kinds |-> ks, rels |-> rs, until |-> u] \in GrantRecords
    BY <2>1, ScopeAssumption DEF GrantRecords
  <2>3. h \notin allowedBy
    BY <1>2 DEF Scope!CreateConnection, Scope!Unused, AllowedStay
  <2>4. QED BY <1>1, <1>2, <2>1, <2>2, <2>3 DEF Scope!CreateConnection
<1>3. CASE Scope!RevokeConnection(h)
  BY <1>1, <1>3 DEF Scope!RevokeConnection, GrantRecords
<1>4. QED BY <1>2, <1>3

LEMMA TurnTypes ==
    ASSUME Scope!TypeOK, lists \in Seq(Targets), lists # <<>>
    PROVE  Head(lists) \in Targets /\ Tail(lists) \in Seq(Targets)
OBVIOUS

(* What is cut to a grant is within it.                                    *)
LEMMA CutIsScoped ==
    ASSUME NEW t \in Targets, NEW g, NEW sub \in Scope!Subgraphs(t), grant[g].to = t,
           NEW cut, cut = Scope!ApplyScope(sub, g)
    PROVE  /\ cut \in Scope!AnyGraph
           /\ \A n \in cut.nodes : grant[g].to = n[1] /\ Scope!KindAllowed(g, n)
           /\ \A e \in cut.edges : /\ {e[1], e[3]} \subseteq cut.nodes
                                   /\ grant[g].to = e[1][1] /\ Scope!RelAllowed(g, e)
                                   /\ Scope!KindAllowed(g, e[1]) /\ Scope!KindAllowed(g, e[3])
<1>1. PICK ns \in SUBSET Scope!NodesOf(t) :
          sub = Scope!Graph(ns, {e \in Scope!EdgesOf(t) : e[1] \in ns /\ e[3] \in ns})
  BY DEF Scope!Subgraphs
<1> DEFINE cs == {n \in ns : Scope!KindAllowed(g, n)}
           es == {e \in sub.edges : Scope!RelAllowed(g, e) /\ Scope!EndsKept(e, cs)}
<1>2. sub.nodes = ns /\ sub.edges \subseteq Scope!EdgesOf(t)
  BY <1>1 DEF Scope!Graph
<1>3. Scope!ApplyScope(sub, g) = [nodes |-> cs, edges |-> es]
  BY <1>2 DEF Scope!ApplyScope, Scope!Graph
<1>4. cs \subseteq Targets \X Kinds /\ \A n \in cs : n[1] = t
  BY DEF Scope!NodesOf
<1>5. es \subseteq UNION {Scope!EdgesOf(u) : u \in Targets}
  BY <1>2
<1>6. QED BY <1>3, <1>4, <1>5 DEF Scope!AnyGraph, Scope!EndsKept

LEMMA ScopeInvStep ==
    ASSUME ScopeInv, Scope!Next \/ UNCHANGED ScopeVars
    PROVE  ScopeInv'
<1> USE DEF ScopeInv
<1>0. /\ grant \in [Grants -> GrantRecords] /\ now \in 0 .. MaxNow /\ errors \subseteq Targets
      /\ result \in [Targets -> Scope!AnyGraph] /\ merged \in Scope!AnyGraph
      /\ inHand \subseteq Grants /\ Scope!Cardinality(inHand) <= 1 /\ allowedBy \subseteq Grants
      /\ lists \in Seq(Targets)
  BY DEF Scope!TypeOK, GrantRecords
<1>c. \A S : Scope!Cardinality({}) <= 1 /\ Scope!Cardinality({S}) <= 1
  <2> TAKE S
  <2>1. Cardinality({}) = 0 /\ Cardinality({S}) = 1
    BY FS_EmptySet, FS_Singleton
  <2>2. Scope!Cardinality({}) = 0
    BY <2>1, ScopeCounts
  <2>3. Scope!Cardinality({S}) = 1
    BY <2>1, ScopeCounts
  <2>4. QED BY <2>2, <2>3
<1>1. ASSUME NEW h \in Grants, Scope!CreateConnection(h) \/ Scope!RevokeConnection(h) PROVE ScopeInv'
  <2>1. /\ grant' \in [Grants -> GrantRecords] /\ UNCHANGED <<now, lists, inHand, result, errors, merged, allowedBy>>
        /\ \A g \in allowedBy : /\ grant'[g].to = grant[g].to /\ grant'[g].kinds = grant[g].kinds
                                /\ grant'[g].rels = grant[g].rels /\ grant'[g].until = grant[g].until
    BY <1>1, GrantsFixed DEF Scope!Query
  <2>2. Scope!TypeOK'
    BY <1>0, <2>1 DEF Scope!TypeOK, GrantRecords
  <2>3. AllowedStay'
    BY <2>1 DEF AllowedStay
  <2>4. Scope!MergedIsScoped'
    <3>1. ASSUME NEW g \in allowedBy, NEW n PROVE Scope!KindAllowed(g, n)' = Scope!KindAllowed(g, n)
      BY <2>1 DEF Scope!KindAllowed
    <3>2. ASSUME NEW g \in allowedBy, NEW e PROVE Scope!RelAllowed(g, e)' = Scope!RelAllowed(g, e)
      BY <2>1 DEF Scope!RelAllowed
    <3>3. \A n \in merged'.nodes : \E g \in allowedBy : grant'[g].to = n[1] /\ Scope!KindAllowed(g, n)'
      BY <2>1, <3>1 DEF Scope!MergedIsScoped
    <3>4. \A e \in merged'.edges :
             /\ {e[1], e[3]} \subseteq merged'.nodes
             /\ \E g \in allowedBy : /\ grant'[g].to = e[1][1] /\ Scope!RelAllowed(g, e)'
                                     /\ Scope!KindAllowed(g, e[1])' /\ Scope!KindAllowed(g, e[3])'
      BY <2>1, <3>1, <3>2 DEF Scope!MergedIsScoped
    <3>5. QED BY <2>1, <3>3, <3>4 DEF Scope!MergedIsScoped
  <2>5. QED BY <1>0, <2>1, <2>2, <2>3, <2>4
<1>2. CASE Scope!Tick
  <2>1. now' \in 0 .. MaxNow /\ UNCHANGED <<grant, lists, inHand, result, errors, merged, allowedBy>>
    BY <1>0, <1>2, ScopeAssumption DEF Scope!Tick, Scope!Query
  <2>2. Scope!TypeOK' /\ AllowedStay'
    BY <1>0, <2>1 DEF Scope!TypeOK, GrantRecords, AllowedStay
  <2>3. Scope!MergedIsScoped'
    BY <2>1 DEF Scope!MergedIsScoped, Scope!KindAllowed, Scope!RelAllowed
  <2>4. QED BY <1>0, <2>1, <2>2, <2>3
<1>3. CASE Scope!ValidateAccess
  <2> DEFINE valid == {g \in Grants : Scope!Valid(g, Head(lists))}
  <2>1. lists # <<>> /\ inHand = {} /\ UNCHANGED <<grant, now, result, merged>>
    BY <1>3 DEF Scope!ValidateAccess
  <2>2. CASE /\ errors' = errors \cup {Head(lists)} /\ lists' = Tail(lists)
             /\ UNCHANGED <<inHand, allowedBy>>
    <3>1. Scope!TypeOK' /\ lists' \in Seq(Targets)
      BY <1>0, <2>1, <2>2, TurnTypes DEF Scope!TypeOK, GrantRecords
    <3>2. AllowedStay' /\ Scope!MergedIsScoped'
      BY <2>1, <2>2 DEF AllowedStay, Scope!MergedIsScoped, Scope!KindAllowed, Scope!RelAllowed
    <3>3. QED BY <3>1, <3>2
  <2>3. CASE /\ \E g \in valid : inHand' = {g}
             /\ allowedBy' = allowedBy \cup valid /\ UNCHANGED <<errors, lists>>
    <3>1. Scope!TypeOK' /\ lists' \in Seq(Targets)
      BY <1>0, <1>c, <2>1, <2>3 DEF Scope!TypeOK, GrantRecords
    <3>2. \A g \in valid : grant[g].until > 0 /\ grant[g].to = Head(lists)
      BY <1>0 DEF Scope!Valid, GrantRecords
    <3>3. AllowedStay'
      BY <2>1, <2>3, <3>2 DEF AllowedStay
    <3>4. Scope!MergedIsScoped'
      BY <2>1, <2>3 DEF Scope!MergedIsScoped, Scope!KindAllowed, Scope!RelAllowed
    <3>5. QED BY <3>1, <3>3, <3>4
  <2>4. QED BY <1>3, <2>2, <2>3 DEF Scope!ValidateAccess
<1>4. CASE Scope!Answered
  <2> DEFINE t == Head(lists)  g == CHOOSE h \in inHand : TRUE
  <2>1. g \in inHand /\ g \in allowedBy /\ t \in Targets /\ grant[g].to = t /\ Tail(lists) \in Seq(Targets)
    BY <1>0, <1>4, TurnTypes DEF Scope!Answered, AllowedStay
  <2>2. PICK sub \in Scope!Subgraphs(t) :
            LET cut == Scope!ApplyScope(sub, g)
            IN  /\ result' = [result EXCEPT ![t] = cut]
                /\ merged' = Scope!Graph(merged.nodes \cup cut.nodes, merged.edges \cup cut.edges)
    BY <1>4 DEF Scope!Answered
  <2> DEFINE cut == Scope!ApplyScope(sub, g)
  <2>c. cut = Scope!ApplyScope(sub, g)
    OBVIOUS
  <2> HIDE DEF t, g, cut
  <2>3. /\ cut \in Scope!AnyGraph
        /\ \A n \in cut.nodes : grant[g].to = n[1] /\ Scope!KindAllowed(g, n)
        /\ \A e \in cut.edges : /\ {e[1], e[3]} \subseteq cut.nodes
                                /\ grant[g].to = e[1][1] /\ Scope!RelAllowed(g, e)
                                /\ Scope!KindAllowed(g, e[1]) /\ Scope!KindAllowed(g, e[3])
    BY <2>1, <2>c, CutIsScoped
  <2>4. merged' = [nodes |-> merged.nodes \cup cut.nodes, edges |-> merged.edges \cup cut.edges]
    BY <2>2, <2>c DEF Scope!Graph
  <2>a. result' \in [Targets -> Scope!AnyGraph]
    BY <1>0, <2>1, <2>2, <2>3, <2>c
  <2>b. merged' \in Scope!AnyGraph
    BY <1>0, <2>3, <2>4 DEF Scope!AnyGraph
  <2>5. merged' \in Scope!AnyGraph /\ result' \in [Targets -> Scope!AnyGraph]
    BY <2>a, <2>b
  <2>6. /\ lists' = Tail(lists) /\ inHand' = {} /\ UNCHANGED <<grant, now, errors, allowedBy>>
    BY <1>4 DEF Scope!Answered
  <2>7. Scope!TypeOK' /\ lists' \in Seq(Targets) /\ AllowedStay'
    BY <1>0, <1>c, <2>1, <2>5, <2>6 DEF Scope!TypeOK, GrantRecords, AllowedStay
  <2>8. Scope!MergedIsScoped'
    <3>1. \A n \in merged'.nodes : n \in merged.nodes \/ n \in cut.nodes
      BY <2>4
    <3>2. \A e \in merged'.edges : e \in merged.edges \/ e \in cut.edges
      BY <2>4
    <3>3. merged.nodes \subseteq merged'.nodes /\ cut.nodes \subseteq merged'.nodes
      BY <2>4
    <3>4. QED BY <2>1, <2>3, <2>6, <3>1, <3>2, <3>3 DEF Scope!MergedIsScoped, Scope!KindAllowed, Scope!RelAllowed
  <2>9. QED BY <2>7, <2>8
<1>5. CASE Scope!Failed
  <2>1. lists # <<>>
    BY <1>5 DEF Scope!Failed, AllowedStay
  <2>2. QED BY <1>0, <1>c, <1>5, <2>1, TurnTypes
      DEF Scope!Failed, Scope!TypeOK, GrantRecords, AllowedStay, Scope!MergedIsScoped, Scope!KindAllowed, Scope!RelAllowed
<1>6. CASE UNCHANGED ScopeVars
  BY <1>0, <1>6 DEF ScopeVars, Scope!TypeOK, GrantRecords, AllowedStay, Scope!MergedIsScoped, Scope!KindAllowed, Scope!RelAllowed
<1>7. QED BY <1>1, <1>2, <1>3, <1>4, <1>5, <1>6 DEF Scope!Next

LEMMA ScopeKept == KnowledgeSpec => [](focus = "scope" => ScopeInv)
<1>1. KnowledgeInit => (focus = "scope" => ScopeInv)
  BY ScopeBegins, ScopeInvInit
<1>2. (focus = "scope" => ScopeInv) /\ [KnowledgeNext]_knowledgeVars => (focus = "scope" => ScopeInv)'
  BY ScopeMoves, ScopeInvStep
<1>3. QED BY <1>1, <1>2, PTL DEF KnowledgeSpec

-----------------------------------------------------------------------------
(* Answer of a swarm.                                                      *)
LEMMA SwarmBegins ==
    ASSUME KnowledgeInit, focus = "swarm"
    PROVE  Swarm!Init
BY DEF KnowledgeInit, KnowledgeFocus

LEMMA SwarmMoves ==
    ASSUME [KnowledgeNext]_knowledgeVars, focus' = "swarm"
    PROVE  focus = "swarm" /\ (Swarm!Next \/ UNCHANGED SwarmVars)
BY DEF KnowledgeNext, KnowledgeStays, knowledgeVars

LEMMA SwarmCounts == ASSUME NEW S PROVE Swarm!Cardinality(S) = Cardinality(S)
BY DEF Swarm!Cardinality, Cardinality

Asking == [pc : {"new", "federated", "merge", "scan", "text", "synthesis", "end"},
           caller : SUBSET Brains, agents : SUBSET Brains, records : SUBSET Insights,
           shown : SUBSET Insights, involved : SUBSET Brains,
           reply : {"none", "nofacts", "answer", "error", "refused"}]

BrainAnswers == [pc : {"wait", "error", "done"}, nodes : SUBSET Insights, shown : SUBSET Insights]

WithFacts == {a \in query.agents : brainAnswer[a].nodes # {}}

(* What an agent answered with is its own, and was in its prompt as far as *)
(* that goes.                                                              *)
AnswersShown ==
    \A a \in Brains : /\ \A n \in brainAnswer[a].nodes : n[1] = a
                      /\ brainAnswer[a].shown \in Swarm!Cut(brainAnswer[a].nodes, PromptCap)

(* What SourcesWereShown says of an answer, before it is given.            *)
PromptsHad ==
    /\ query.agents = {} => query.records = query.shown
    /\ \A n \in query.records \ query.shown :
          Swarm!Cardinality({m \in query.shown : m[1] = n[1]}) = PromptCap
    /\ \A a \in query.involved : \E n \in query.shown : n[1] = a

(* A federated question keeps who had something; a scan keeps few enough   *)
(* records to show them all.                                               *)
PartsAreKept ==
    /\ query.pc \in {"scan", "text"} => query.agents = {} /\ query.shown = {}
    /\ query.pc = "text" => Cardinality(query.records) <= TopK
    /\ query.pc = "synthesis" =>
           /\ PromptsHad
           /\ query.agents # {} => WithFacts # {} /\ query.involved = WithFacts
    /\ query.pc # "end" => query.reply = "none"

SwarmInv ==
    /\ Swarm!TypeOK
    /\ query \in Asking
    /\ AnswersShown
    /\ PartsAreKept
    /\ Swarm!SourcesWereShown
    /\ Swarm!FailureStaysLocal

LEMMA NoQueryTyped == Swarm!NoQuery \in Asking
BY DEF Swarm!NoQuery, Asking

LEMMA SwarmInvInit == ASSUME Swarm!Init PROVE SwarmInv
<1> USE NoQueryTyped DEF Swarm!Init
<1>1. Swarm!TypeOK
  BY DEF Swarm!TypeOK, Swarm!NoQuery, Swarm!Waiting
<1>2. PartsAreKept /\ Swarm!SourcesWereShown /\ Swarm!FailureStaysLocal
  BY DEF PartsAreKept, Swarm!SourcesWereShown, Swarm!FailureStaysLocal, Swarm!NoQuery
<1>4. AnswersShown
  <2>1. Swarm!Cardinality({}) <= PromptCap
    BY SwarmCounts, FS_EmptySet, SwarmAssumption
  <2>2. QED BY <2>1 DEF AnswersShown, Swarm!Cut, Swarm!Waiting
<1>3. QED BY <1>1, <1>2, <1>4 DEF SwarmInv

(* The prompt of an agent with nodes had one, and all unless it was full.  *)
LEMMA PromptShows ==
    ASSUME NEW ns \in SUBSET Insights, NEW s \in Swarm!Cut(ns, PromptCap)
    PROVE  s \subseteq ns /\ (ns # {} => s # {}) /\ (s = ns \/ Swarm!Cardinality(s) = PromptCap)
BY SwarmCounts, FS_EmptySet, SwarmAssumption DEF Swarm!Cut

(* The sources of a merged answer, and those of them a prompt had.         *)
MergedNodes == UNION {brainAnswer[a].nodes : a \in WithFacts}
MergedShown == UNION {brainAnswer[a].shown : a \in WithFacts}

LEMMA GatheredShows ==
    ASSUME AnswersShown, brainAnswer \in [Brains -> BrainAnswers], query \in Asking
    PROVE  /\ MergedShown \subseteq MergedNodes /\ MergedNodes \subseteq Insights
           /\ \A n \in MergedNodes \ MergedShown :
                 Swarm!Cardinality({m \in MergedShown : m[1] = n[1]}) = PromptCap
           /\ \A a \in WithFacts : \E n \in MergedShown : n[1] = a
<1> USE DEF MergedNodes, MergedShown
<1>0. WithFacts \subseteq Brains /\ \A a \in WithFacts : brainAnswer[a].nodes # {}
  BY DEF WithFacts, Asking
<1>1. \A a \in WithFacts : /\ brainAnswer[a].nodes \in SUBSET Insights
                          /\ brainAnswer[a].shown \in Swarm!Cut(brainAnswer[a].nodes, PromptCap)
                          /\ \A n \in brainAnswer[a].nodes : n[1] = a
  BY <1>0 DEF AnswersShown, BrainAnswers
<1>2. \A a \in WithFacts : /\ brainAnswer[a].shown \subseteq brainAnswer[a].nodes /\ brainAnswer[a].shown # {}
                          /\ \/ brainAnswer[a].shown = brainAnswer[a].nodes
                             \/ Swarm!Cardinality(brainAnswer[a].shown) = PromptCap
  BY <1>0, <1>1, PromptShows
<1>3. MergedShown \subseteq MergedNodes /\ MergedNodes \subseteq Insights
  BY <1>1, <1>2
<1>4. ASSUME NEW n \in MergedNodes \ MergedShown PROVE Swarm!Cardinality({m \in MergedShown : m[1] = n[1]}) = PromptCap
  <2>1. PICK a \in WithFacts : n \in brainAnswer[a].nodes
    OBVIOUS
  <2>2. n \notin brainAnswer[a].shown /\ n[1] = a
    BY <1>1, <2>1
  <2>3. {m \in MergedShown : m[1] = n[1]} = brainAnswer[a].shown
    BY <1>1, <1>2, <2>2
  <2>4. QED BY <1>2, <2>1, <2>2, <2>3
<1>5. ASSUME NEW a \in WithFacts PROVE \E n \in MergedShown : n[1] = a
  BY <1>1, <1>2
<1>6. QED BY <1>3, <1>4, <1>5

(* The records of a thin scan and their supplement fit under the cap.      *)
LEMMA AllAreShown ==
    ASSUME NEW found \in SUBSET Insights, NEW more \in SUBSET Insights, Cardinality(found) <= TopK,
           more = {} \/ (Cardinality(found) < Thin /\ Cardinality(more) <= TextLimit)
    PROVE  Cardinality(found \cup more) <= ContextCap
<1>1. IsFiniteSet(found) /\ IsFiniteSet(more)
  BY SwarmAssumption, FS_Subset
<1>2. Cardinality(found) \in Nat /\ Cardinality(more) \in Nat
  BY <1>1, FS_CardinalityType
<1>3. CASE more = {}
  BY <1>2, <1>3, SwarmAssumption
<1>4. CASE Cardinality(found) < Thin /\ Cardinality(more) <= TextLimit
  <2>1. Cardinality(found \cup more) = Cardinality(found) + Cardinality(more) - Cardinality(found \cap more)
    BY <1>1, FS_Union
  <2>2. Cardinality(found \cap more) \in Nat
    BY <1>1, FS_Subset, FS_CardinalityType
  <2>3. QED BY <1>2, <1>4, <2>1, <2>2, SwarmAssumption
<1>5. QED BY <1>3, <1>4

LEMMA SwarmInvStep ==
    ASSUME SwarmInv, Swarm!Next \/ UNCHANGED SwarmVars
    PROVE  SwarmInv'
<1>0. /\ query \in Asking /\ known \subseteq Insights
      /\ brainAnswer \in [Brains -> BrainAnswers]
      /\ Swarm!TypeOK
  BY DEF SwarmInv, Swarm!TypeOK, BrainAnswers
<1> USE DEF SwarmInv, Asking
<1>1. ASSUME NEW mine \in SUBSET Brains, NEW named \in SUBSET Brains, Swarm!Ask(mine, named)
      PROVE  SwarmInv'
  <2> DEFINE agents == IF named = {} THEN mine ELSE named
  <2>1. CASE query' = [Swarm!NoQuery EXCEPT !.pc = "end", !.caller = mine, !.reply = "refused"]
    <3>1. query' \in Asking /\ query'.pc = "end" /\ query'.agents = {} /\ query'.reply = "refused"
          /\ query'.records = {} /\ query'.shown = {}
      BY <2>1, NoQueryTyped DEF Swarm!NoQuery
    <3>2. QED BY <1>0, <1>1, <3>1 DEF BrainAnswers, AnswersShown, Swarm!Ask, Swarm!TypeOK, PartsAreKept, Swarm!SourcesWereShown, Swarm!FailureStaysLocal
  <2>2. CASE query' = [Swarm!NoQuery EXCEPT !.pc = IF agents = {} THEN "scan" ELSE "federated",
                                            !.caller = mine, !.agents = agents]
    <3>1. query' \in Asking /\ query'.pc \in {"scan", "federated"} /\ query'.reply = "none"
          /\ (query'.pc = "scan" => query'.agents = {}) /\ query'.records = {} /\ query'.shown = {}
      BY <2>2, NoQueryTyped DEF Swarm!NoQuery
    <3>2. QED BY <1>0, <1>1, <3>1 DEF BrainAnswers, AnswersShown, Swarm!Ask, Swarm!TypeOK, PartsAreKept, Swarm!SourcesWereShown, Swarm!FailureStaysLocal
  <2>3. QED BY <1>1, <2>1, <2>2 DEF Swarm!Ask
<1>2. ASSUME NEW a \in Brains, Swarm!OneAnswers(a) \/ Swarm!OneError(a) PROVE SwarmInv'
  <2>1. /\ query.pc = "federated" /\ UNCHANGED <<known, query>>
        /\ brainAnswer' \in [Brains -> BrainAnswers] /\ AnswersShown'
    <3>1. CASE Swarm!OneAnswers(a)
      <4>1. PICK ns \in SUBSET {n \in Swarm!Readable : n[1] = a} : \E s \in Swarm!Cut(ns, PromptCap) :
                brainAnswer' = [brainAnswer EXCEPT ![a] = [pc |-> "done", nodes |-> ns, shown |-> s]]
        BY <3>1 DEF Swarm!OneAnswers
      <4>2. PICK s \in Swarm!Cut(ns, PromptCap) :
                brainAnswer' = [brainAnswer EXCEPT ![a] = [pc |-> "done", nodes |-> ns, shown |-> s]]
        BY <4>1
      <4>3. ns \subseteq Insights /\ s \subseteq ns /\ \A n \in ns : n[1] = a
        BY <1>0, PromptShows DEF Swarm!Readable
      <4>4. brainAnswer' \in [Brains -> BrainAnswers]
        BY <1>0, <4>2, <4>3 DEF BrainAnswers
      <4>5. AnswersShown'
        BY <1>0, <4>2, <4>3 DEF AnswersShown
      <4>6. QED BY <3>1, <4>4, <4>5 DEF Swarm!OneAnswers
    <3>2. CASE Swarm!OneError(a)
      <4>1. brainAnswer' = [brainAnswer EXCEPT ![a].pc = "error"] /\ query.pc = "federated" /\ UNCHANGED <<known, query>>
        BY <3>2 DEF Swarm!OneError, Swarm!OneFails
      <4>2. brainAnswer' \in [Brains -> BrainAnswers]
        BY <1>0, <4>1 DEF BrainAnswers
      <4>3. \A b \in Brains : brainAnswer'[b].nodes = brainAnswer[b].nodes /\ brainAnswer'[b].shown = brainAnswer[b].shown
        BY <1>0, <4>1 DEF BrainAnswers
      <4>4. QED BY <4>1, <4>2, <4>3 DEF AnswersShown
    <3>3. QED BY <1>2, <3>1, <3>2
  <2>2. QED BY <1>0, <2>1 DEF Swarm!TypeOK, PartsAreKept, Swarm!SourcesWereShown, Swarm!FailureStaysLocal, BrainAnswers
<1>3. CASE Swarm!Gathered
  <2>0. query.pc = "federated" /\ UNCHANGED <<known, brainAnswer>>
    BY <1>0, <1>3 DEF Swarm!Gathered
  <2>s. /\ MergedShown \subseteq MergedNodes /\ MergedNodes \subseteq Insights
        /\ \A n \in MergedNodes \ MergedShown :
              Swarm!Cardinality({m \in MergedShown : m[1] = n[1]}) = PromptCap
        /\ \A a \in WithFacts : \E n \in MergedShown : n[1] = a
    BY <1>0, GatheredShows
  <2>1. CASE WithFacts = {} /\ Swarm!EndWith([query EXCEPT !.reply = "nofacts"])
    <3>1. query' = [query EXCEPT !.reply = "nofacts", !.pc = "end"]
      BY <1>0, <2>1 DEF Swarm!EndWith
    <3>2. query' \in Asking /\ query'.pc = "end" /\ query'.reply = "nofacts" /\ WithFacts' = {}
          /\ query'.records = query.records /\ query'.shown = query.shown
      BY <1>0, <2>0, <2>1, <3>1 DEF WithFacts
    <3>3. QED BY <1>0, <2>0, <3>2 DEF BrainAnswers, AnswersShown, Swarm!TypeOK, PartsAreKept, Swarm!SourcesWereShown, Swarm!FailureStaysLocal, WithFacts
  <2>2. CASE /\ WithFacts # {}
             /\ query' = [query EXCEPT !.pc = "synthesis", !.involved = WithFacts, !.records = MergedNodes, !.shown = MergedShown]
    <3>1. query' \in Asking /\ query'.pc = "synthesis" /\ query'.involved = WithFacts' /\ WithFacts' = WithFacts
          /\ query'.records = MergedNodes /\ query'.shown = MergedShown /\ query'.reply = query.reply
          /\ query'.agents = query.agents
      BY <1>0, <2>0, <2>s, <2>2 DEF WithFacts
    <3>3. query.agents # {}
      BY <2>2 DEF WithFacts
    <3>4. PromptsHad'
      <4>1. query'.agents # {} /\ query'.records = MergedNodes /\ query'.shown = MergedShown /\ query'.involved = WithFacts
        BY <3>1, <3>3
      <4> HIDE DEF SwarmInv, Asking
      <4>2. QED BY <2>s, <4>1 DEF PromptsHad
    <3>2. QED BY <1>0, <2>0, <2>s, <2>2, <3>1, <3>4
          DEF Swarm!TypeOK, PartsAreKept, Swarm!SourcesWereShown, Swarm!FailureStaysLocal, BrainAnswers, AnswersShown
  <2>3. QED BY <1>3, <2>1, <2>2 DEF Swarm!Gathered, WithFacts, MergedNodes, MergedShown
<1>4. CASE Swarm!Scan
  <2>1. PICK ns \in Swarm!UpTo(TopK, Swarm!Readable) : query' = [query EXCEPT !.pc = "text", !.records = ns]
    BY <1>4 DEF Swarm!Scan
  <2>2. ns \subseteq Insights /\ Cardinality(ns) <= TopK
    BY <1>0, SwarmCounts DEF Swarm!UpTo, Swarm!Readable
  <2>3. query.pc = "scan" /\ UNCHANGED <<known, brainAnswer>> /\ query'.agents = {} /\ query'.shown = {}
    BY <1>4, <1>0, <2>1 DEF Swarm!Scan, PartsAreKept
  <2>4. QED BY <1>0, <2>1, <2>2, <2>3 DEF BrainAnswers, AnswersShown, Swarm!TypeOK, PartsAreKept, Swarm!SourcesWereShown, Swarm!FailureStaysLocal
<1>5. CASE Swarm!Text
  <2>1. PICK more \in IF Swarm!Supplemented(query.records) THEN Swarm!UpTo(TextLimit, Swarm!Readable) ELSE {{}} :
            LET all == query.records \cup more
            IN  IF all = {}
                THEN Swarm!EndWith([query EXCEPT !.reply = "nofacts"])
                ELSE /\ \E s \in Swarm!Cut(all, ContextCap) :
                           query' = [query EXCEPT !.pc = "synthesis", !.records = all, !.shown = s,
                                                  !.involved = {n[1] : n \in all}]
                     /\ UNCHANGED events
    BY <1>5 DEF Swarm!Text
  <2> DEFINE all == query.records \cup more
  <2>2. query.pc = "text" /\ UNCHANGED <<known, brainAnswer>>
    BY <1>5 DEF Swarm!Text
  <2>3. more = {} \/ (Cardinality(query.records) < Thin /\ Cardinality(more) <= TextLimit /\ more \subseteq Insights)
    BY <1>0, SwarmCounts DEF Swarm!Supplemented, Swarm!UpTo, Swarm!Readable
  <2>4. Cardinality(all) <= ContextCap
    BY <1>0, <2>2, <2>3, AllAreShown DEF PartsAreKept
  <2>5. Swarm!Cut(all, ContextCap) = {all}
    BY <2>4, SwarmCounts DEF Swarm!Cut
  <2>6. CASE all = {}
    <3>1. query' = [query EXCEPT !.reply = "nofacts", !.pc = "end"]
      BY <1>0, <2>1, <2>6 DEF Swarm!EndWith
    <3>2. QED BY <1>0, <2>2, <3>1 DEF BrainAnswers, AnswersShown, Swarm!TypeOK, PartsAreKept, Swarm!SourcesWereShown, Swarm!FailureStaysLocal
  <2>7. CASE query' = [query EXCEPT !.pc = "synthesis", !.records = all, !.shown = all, !.involved = {n[1] : n \in all}]
    <3>1. {n[1] : n \in all} \subseteq Brains /\ all \subseteq Insights
      BY <1>0, <2>3, SwarmAssumption
    <3>3. query'.records = all /\ query'.shown = all /\ query'.involved = {n[1] : n \in all}
      BY <1>0, <2>7
    <3>4. PromptsHad'
      BY <3>3 DEF PromptsHad
    <3>2. QED BY <1>0, <2>2, <2>7, <3>1, <3>4
          DEF Swarm!TypeOK, PartsAreKept, Swarm!SourcesWereShown, Swarm!FailureStaysLocal, BrainAnswers, AnswersShown
  <2>8. QED BY <2>1, <2>5, <2>6, <2>7
<1>6. CASE Swarm!Synthesis
  <2>1. PICK r \in {"answer", "error"} : Swarm!EndWith([query EXCEPT !.reply = r])
    BY <1>6 DEF Swarm!Synthesis
  <2>2. query' = [query EXCEPT !.reply = r, !.pc = "end"]
    BY <1>0, <2>1 DEF Swarm!EndWith
  <2>3. query.pc = "synthesis" /\ UNCHANGED <<known, brainAnswer>>
    BY <1>6 DEF Swarm!Synthesis
  <2>4. /\ query' \in Asking /\ query'.pc = "end" /\ query'.reply = r
        /\ query'.records = query.records /\ query'.shown = query.shown
        /\ query'.agents = query.agents /\ query'.involved = query.involved /\ WithFacts' = WithFacts
    BY <1>0, <2>2, <2>3 DEF WithFacts
  <2>6. PromptsHad
    BY <2>3 DEF PartsAreKept
  <2>7. Swarm!SourcesWereShown'
    BY <2>4, <2>6 DEF PromptsHad, Swarm!SourcesWereShown
  <2>5. QED BY <1>0, <2>3, <2>4, <2>7 DEF AnswersShown, Swarm!TypeOK, PartsAreKept, Swarm!SourcesWereShown, Swarm!FailureStaysLocal, WithFacts
<1>7. ASSUME UNCHANGED <<query, brainAnswer>>, known' \subseteq Insights PROVE SwarmInv'
  <2>1. AnswersShown' /\ WithFacts' = WithFacts /\ PromptsHad' = PromptsHad
    BY <1>0, <1>7 DEF AnswersShown, WithFacts, PromptsHad
  <2>2. PartsAreKept'
    BY <1>0, <1>7, <2>1 DEF PartsAreKept
  <2>3. Swarm!SourcesWereShown' /\ Swarm!FailureStaysLocal'
    BY <1>0, <1>7 DEF Swarm!SourcesWereShown, Swarm!FailureStaysLocal
  <2>4. Swarm!TypeOK' /\ (query \in Asking)'
    BY <1>0, <1>7 DEF Swarm!TypeOK
  <2>5. QED BY <2>1, <2>2, <2>3, <2>4
<1>8. CASE UNCHANGED SwarmVars \/ \E n \in Insights : Swarm!Forget(n)
  BY <1>0, <1>7, <1>8 DEF SwarmVars, Swarm!Forget
<1>9. QED BY <1>1, <1>2, <1>3, <1>4, <1>5, <1>6, <1>8 DEF Swarm!Next

LEMMA SwarmKept == KnowledgeSpec => [](focus = "swarm" => SwarmInv)
<1>1. KnowledgeInit => (focus = "swarm" => SwarmInv)
  BY SwarmBegins, SwarmInvInit
<1>2. (focus = "swarm" => SwarmInv) /\ [KnowledgeNext]_knowledgeVars => (focus = "swarm" => SwarmInv)'
  BY SwarmMoves, SwarmInvStep
<1>3. QED BY <1>1, <1>2, PTL DEF KnowledgeSpec

(* A retrieval shows only what its agent, bridge and clearance allow, and  *)
(* is not empty when an own fact of an agent that exists could be found; a *)
(* merged answer has only what a connection in force allows; a source of a *)
(* swarm answer was shown to a model, unless the prompt of its agent was   *)
(* full, and one brain's failure leaves the others': for any notes, grants *)
(* and brains, any sizes of the prompts, in any order of changes meanwhile.*)
THEOREM AnswersScoped == KnowledgeSpec => []AnswersAreScoped
<1>1. ContextInv => Context!ContextIsScoped /\ Context!NotEmptyHanded
  <2>1. SUFFICES ASSUME ContextInv PROVE Context!ContextIsScoped
    BY DEF ContextInv
  <2> DEFINE named == retrieval.shown \cup {b[1] : b \in retrieval.lines} \cup {b[2] : b \in retrieval.lines}
  <2>2. named \subseteq retrieval.allowed \ ClosedNotes
    BY <2>1 DEF ContextInv, ShownAllowed
  <2>3. QED BY <2>1, <2>2 DEF ContextInv, AllowedByBridge, Context!ContextIsScoped
<1>2. /\ focus = "context" => ContextInv
      /\ focus = "scope" => ScopeInv
      /\ focus = "swarm" => SwarmInv
      => AnswersAreScoped
  BY <1>1 DEF ScopeInv, SwarmInv, AnswersAreScoped
<1>3. QED BY <1>2, ContextKept, ScopeKept, SwarmKept, PTL

-----------------------------------------------------------------------------
(* Entity resolution.                                                      *)
LEMMA EntitiesBegin ==
    ASSUME KnowledgeInit, focus = "entities"
    PROVE  Entities!Init
BY DEF KnowledgeInit, KnowledgeFocus

LEMMA EntitiesMove ==
    ASSUME [KnowledgeNext]_knowledgeVars, focus' = "entities"
    PROVE  focus = "entities" /\ (Entities!Next \/ UNCHANGED EntitiesVars)
BY DEF KnowledgeNext, KnowledgeStays, knowledgeVars

Places == Entities!Places
Own(r) == Entities!Own(r)
NameAt(x) == NameKey[Entities!NameOf(x)]

(* A node is written by the request it stands in, as itself.               *)
WrittenMatched == \A x \in written : pc[x[1]] = "done" /\ match[x] = x

(* The matches of a request are made between its list and its write.       *)
MatchedInOrder ==
    /\ \A r \in Ingests : pc[r] \in {"new", "embed", "list"} => \A x \in Own(r) : match[x] = NoMatch
    /\ \A r \in Ingests : pc[r] \in {"write", "done"} =>
           \/ \A x \in Own(r) : match[x] = NoMatch
           \/ \A x \in Own(r) : match[x] # NoMatch
    /\ \A x \in Places : Entities!IsFact(x) => match[x] \in {x, NoMatch}

(* A request nothing runs beside is alone at work, its list is what is     *)
(* written, and what it makes a node of its own no written node is named.  *)
AloneSeesAll ==
    \A r \in apart :
        /\ pc[r] \notin {"new", "done"} => \A s \in Ingests \ {r} : pc[s] \in {"new", "done"}
        /\ pc[r] \in {"match", "write"} =>
               /\ snapshot[r] = [x \in written |-> aliases[x]]
               /\ \A x \in Own(r), y \in written :
                      ~Entities!IsFact(x) /\ match[x] = x => NameAt(x) # NameAt(y)

ListsTyped ==
    \A r \in Ingests : pc[r] \in {"match", "write"} =>
        DOMAIN snapshot[r] \subseteq written /\ \A y \in DOMAIN snapshot[r] : snapshot[r][y] \subseteq Names

EntitiesInv ==
    /\ Entities!TypeOK
    /\ snapshot = [r \in Ingests |-> snapshot[r]]
    /\ ListsTyped
    /\ WrittenMatched
    /\ MatchedInOrder
    /\ AloneSeesAll
    /\ Entities!OneNodePerName

LEMMA PlacesAre ==
    ASSUME NEW x \in Places
    PROVE  /\ x[1] \in Ingests /\ x[2] \in 1 .. 3 /\ x \in Own(x[1]) /\ x # NoMatch
           /\ Entities!NameOf(x) \in Names
           /\ \A y \in Places : x[1] = y[1] /\ x[2] = y[2] => x = y
BY EntitiesAssumption DEF Places, Own, Entities!Places, Entities!Own, Entities!NameOf

LEMMA OwnAre ==
    ASSUME NEW r, NEW x \in Own(r)
    PROVE  x \in Places /\ x[1] = r
BY DEF Own, Places, Entities!Own

LEMMA EntitiesInvInit == ASSUME Entities!Init PROVE EntitiesInv
<1> USE DEF Entities!Init
<1>1. Entities!TypeOK
  BY EntitiesAssumption DEF Entities!TypeOK
<1>2. MatchedInOrder
  BY OwnAre DEF MatchedInOrder, Places
<1>3. ListsTyped /\ WrittenMatched /\ AloneSeesAll /\ Entities!OneNodePerName
  BY DEF ListsTyped, WrittenMatched, AloneSeesAll, Entities!OneNodePerName
<1>4. QED BY <1>1, <1>2, <1>3 DEF EntitiesInv

(* A node that is matched to a listed or found one is matched to a written *)
(* one, so not to itself, which is not written yet.                        *)
LEMMA NotItself ==
    ASSUME EntitiesInv, NEW r \in Ingests, NEW x \in Own(r), pc[r] = "match",
           NEW y \in Entities!Candidates(r, x)
    PROVE  y # x /\ y \in Places
<1>1. x \in Places /\ x[1] = r /\ x \notin written /\ written \subseteq Places
  BY OwnAre DEF EntitiesInv, WrittenMatched, Entities!TypeOK, Places
<1>2. DOMAIN snapshot[r] \subseteq written
  BY DEF EntitiesInv, ListsTyped
<1>3. y \in written
  BY <1>2 DEF Entities!Candidates, Entities!ByName, Entities!ByLikeness, Entities!ByMeaning, Entities!Known
<1>4. QED BY <1>1, <1>3

(* The last of the renamed nodes exists, so what it adds is a name.        *)
LEMMA LastIsRenamed ==
    ASSUME NEW r \in Ingests, NEW y, Entities!Renames(r, y) # {}
    PROVE  Entities!LastOf(r, y) \in Entities!Renames(r, y) /\ Entities!NameOf(Entities!LastOf(r, y)) \in Names
<1> DEFINE R == Entities!Renames(r, y)
<1>1. R \subseteq Own(r) /\ \A x \in R : x \in Places /\ x[2] \in 1 .. 3
  BY PlacesAre, OwnAre DEF Own, Entities!Renames
<1>2. \E x \in R : \A z \in R : z[2] <= x[2]
  <2>1. CASE \E x \in R : x[2] = 3
    BY <1>1, <2>1
  <2>2. CASE (\E x \in R : x[2] = 2) /\ ~\E x \in R : x[2] = 3
    BY <1>1, <2>2
  <2>3. CASE \A x \in R : x[2] = 1
    BY <1>1, <2>3
  <2>4. QED BY <1>1, <2>1, <2>2, <2>3
<1>3. Entities!LastOf(r, y) \in R
  BY <1>2 DEF Entities!LastOf
<1>4. QED BY <1>1, <1>3, PlacesAre

(* A request whose nodes are all looked up has a match for each of them.   *)
LEMMA NonePending ==
    ASSUME NEW r \in Ingests, Entities!Pending(r) = {}
    PROVE  \A x \in Own(r) : match[x] # NoMatch
<1> DEFINE open == {x \in Own(r) : match[x] = NoMatch}
<1>1. \A x \in open : x[2] \in 1 .. 3
  BY PlacesAre, OwnAre
<1>2. \A x \in open : \E y \in open : y[2] < x[2]
  BY DEF Entities!Pending, Own
<1>3. \A x \in open : x[2] # 1
  BY <1>1, <1>2
<1>4. \A x \in open : x[2] # 2
  BY <1>1, <1>2, <1>3
<1>5. QED BY <1>1, <1>2, <1>3, <1>4

LEMMA EntitiesTyped ==
    ASSUME EntitiesInv, NEW r \in Ingests,
           \/ Entities!Begin(r) \/ Entities!Refuse(r) \/ Entities!Embed(r) \/ Entities!List(r)
           \/ Entities!Match(r) \/ Entities!MatchDone(r) \/ Entities!Write(r) \/ Entities!WriteFails(r)
    PROVE  Entities!TypeOK'
<1>0. /\ written \subseteq Entities!Places /\ aliases \in [Entities!Places -> SUBSET Names]
      /\ pc \in [Ingests -> {"new", "embed", "list", "match", "write", "done"}]
      /\ match \in [Entities!Places -> Entities!Places \cup {NoMatch}] /\ apart \subseteq Ingests
      /\ vectorFaults \in 0 .. MaxVectorFaults /\ MaxVectorFaults \in Nat
      /\ vector \in [Entities!Places -> {"none", "fits", "wrong"}] /\ caller \in [Ingests -> {"api", "kafka"}]
  BY EntitiesAssumption DEF EntitiesInv, Entities!TypeOK
<1>1. CASE Entities!Begin(r) \/ Entities!Refuse(r) \/ Entities!List(r) \/ Entities!MatchDone(r) \/ Entities!WriteFails(r)
  BY <1>0, <1>1 DEF Entities!Begin, Entities!Refuse, Entities!List, Entities!MatchDone, Entities!WriteFails,
     Entities!Go, Entities!TypeOK
<1>2. CASE Entities!Embed(r)
  <2>1. Entities!Embedded(r) \in [Entities!Places -> {"none", "fits", "wrong"}]
    BY <1>0 DEF Entities!Embedded
  <2>2. QED BY <1>0, <1>2, <2>1 DEF Entities!Embed, Entities!Go, Entities!TypeOK
<1>3. CASE Entities!Match(r)
  <2>1. PICK x \in Entities!Pending(r) :
           \/ match' = [match EXCEPT ![x] = x] /\ vectorFaults' \in 0 .. MaxVectorFaults
           \/ /\ \E y \in Entities!Candidates(r, x) : match' = [match EXCEPT ![x] = y]
              /\ UNCHANGED vectorFaults
    BY <1>0, <1>3 DEF Entities!Match
  <2>2. pc[r] = "match" /\ x \in Own(r) /\ x \in Entities!Places
    BY <1>3 DEF Entities!Match, Entities!Pending, Own, Entities!Own
  <2>3. \A y \in Entities!Candidates(r, x) : y \in Entities!Places
    BY <2>2, NotItself DEF Places
  <2>4. match' \in [Entities!Places -> Entities!Places \cup {NoMatch}] /\ vectorFaults' \in 0 .. MaxVectorFaults
    BY <1>0, <2>1, <2>2, <2>3
  <2>5. QED BY <1>0, <1>3, <2>4 DEF Entities!Match, Entities!TypeOK
<1>4. CASE Entities!Write(r)
  <2>1. \A y \in Entities!Known(r) : Entities!Renames(r, y) # {} => Entities!AliasesOf(r, y) \subseteq Names
    BY <1>4, LastIsRenamed
    DEF Entities!AliasesOf, Entities!Known, Entities!Write, EntitiesInv, ListsTyped
  <2>2. aliases' \in [Entities!Places -> SUBSET Names]
    BY <1>0, <1>4, <2>1 DEF Entities!Write
  <2>3. written' \subseteq Entities!Places
    BY <1>0, <1>4 DEF Entities!Write, Entities!Own
  <2>4. QED BY <1>0, <1>4, <2>2, <2>3 DEF Entities!Write, Entities!Go, Entities!TypeOK
<1>5. QED BY <1>1, <1>2, <1>3, <1>4

LEMMA MatchStep ==
    ASSUME EntitiesInv, NEW r \in Ingests, Entities!Match(r)
    PROVE  EntitiesInv'
<1>0. /\ match \in [Places -> Places \cup {NoMatch}] /\ written \subseteq Places /\ apart \subseteq Ingests
  BY DEF EntitiesInv, Entities!TypeOK, Places
<1>1. PICK x \in Entities!Pending(r) :
         \/ /\ Entities!AlwaysItself(x) \/ Entities!Candidates(r, x) = {}
            /\ match' = [match EXCEPT ![x] = x]
         \/ /\ ~Entities!AlwaysItself(x)
            /\ \E y \in Entities!Candidates(r, x) : match' = [match EXCEPT ![x] = y]
         \/ /\ Entities!ByName(r, x) \cup Entities!ByLikeness(r, x) = {}
            /\ match' = [match EXCEPT ![x] = x]
  BY DEF Entities!Match
<1>2. /\ pc[r] = "match" /\ x \in Own(r) /\ match[x] = NoMatch
      /\ UNCHANGED <<written, aliases, pc, caller, vector, snapshot, apart>>
  BY DEF Entities!Match, Entities!Pending, Own
<1>3. x \in Places /\ x[1] = r /\ x \notin written
  BY <1>2, OwnAre DEF EntitiesInv, WrittenMatched
<1>4. /\ \A y \in Places \ {x} : match'[y] = match[y]
      /\ match'[x] # NoMatch /\ match'[x] # x => ~Entities!IsFact(x)
      /\ match'[x] = x /\ ~Entities!IsFact(x) => Entities!ByName(r, x) = {}
  <2>1. CASE match' = [match EXCEPT ![x] = x]
    <3>1. ~Entities!IsFact(x) => Entities!ByName(r, x) = {}
      <4>1. CASE Entities!AlwaysItself(x) \/ Entities!Candidates(r, x) = {}
        BY <4>1 DEF Entities!AlwaysItself, Entities!Candidates
      <4>2. CASE Entities!ByName(r, x) \cup Entities!ByLikeness(r, x) = {}
        BY <4>2
      <4>3. ASSUME NEW y \in Entities!Candidates(r, x), match' = [match EXCEPT ![x] = y] PROVE FALSE
        BY <1>0, <1>2, <1>3, <2>1, <4>3, NotItself
      <4>4. QED BY <1>1, <4>1, <4>2, <4>3
    <3>2. QED BY <1>0, <1>3, <2>1, <3>1, PlacesAre
  <2>2. ASSUME NEW y \in Entities!Candidates(r, x), match' = [match EXCEPT ![x] = y], ~Entities!AlwaysItself(x)
        PROVE  <1>4
    BY <1>0, <1>2, <1>3, <2>2, NotItself, PlacesAre DEF Entities!AlwaysItself
  <2>3. QED BY <1>1, <2>1, <2>2
<1>5. Entities!TypeOK'
  BY EntitiesTyped
<1>6. ListsTyped' /\ snapshot' = [s \in Ingests |-> snapshot'[s]]
  BY <1>2 DEF EntitiesInv, ListsTyped
<1>7. WrittenMatched'
  BY <1>0, <1>2, <1>3, <1>4 DEF EntitiesInv, WrittenMatched
<1>8. MatchedInOrder'
  <2>1. \A s \in Ingests \ {r} : \A z \in Own(s) : match'[z] = match[z]
    BY <1>3, <1>4, OwnAre
  <2>2. QED BY <1>2, <1>3, <1>4, <2>1 DEF EntitiesInv, MatchedInOrder, Entities!IsFact, Entities!NameOf
<1>9. AloneSeesAll'
  <2>1. ASSUME NEW s \in apart, pc[s] \in {"match", "write"}, NEW z \in Own(s), NEW y \in written,
               ~Entities!IsFact(z), match'[z] = z
        PROVE  NameAt(z) # NameAt(y)
    <3>1. CASE z = x
      <4>1. s = r /\ Entities!ByName(r, x) = {}
        BY <1>3, <1>4, <2>1, <3>1, OwnAre
      <4>3. snapshot[r] = [v \in written |-> aliases[v]]
        BY <1>2, <2>1, <4>1 DEF EntitiesInv, AloneSeesAll
      <4>2. QED BY <2>1, <3>1, <4>1, <4>3 DEF Entities!ByName, Entities!Known, NameAt
    <3>2. CASE z # x
      BY <1>4, <2>1, <3>2, OwnAre DEF EntitiesInv, AloneSeesAll
    <3>3. QED BY <3>1, <3>2
  <2>2. QED BY <1>2, <2>1 DEF EntitiesInv, AloneSeesAll, NameAt, Entities!IsFact, Entities!NameOf
<1>10. Entities!OneNodePerName'
  BY <1>2 DEF EntitiesInv, Entities!OneNodePerName
<1>11. QED BY <1>5, <1>6, <1>7, <1>8, <1>9, <1>10 DEF EntitiesInv

LEMMA WriteStep ==
    ASSUME EntitiesInv, NEW r \in Ingests, Entities!Write(r)
    PROVE  EntitiesInv'
<1>0. /\ pc \in [Ingests -> {"new", "embed", "list", "match", "write", "done"}]
      /\ written \subseteq Places /\ apart \subseteq Ingests
  BY DEF EntitiesInv, Entities!TypeOK, Places
<1>1. /\ pc[r] = "write" /\ pc'[r] = "done" /\ \A s \in Ingests \ {r} : pc'[s] = pc[s]
      /\ written' = written \cup {x \in Own(r) : match[x] = x}
      /\ UNCHANGED <<match, apart, snapshot>>
  BY <1>0 DEF Entities!Write, Entities!Go, Own
<1>2. Entities!TypeOK'
  BY EntitiesTyped
<1>3. ListsTyped' /\ snapshot' = [s \in Ingests |-> snapshot'[s]]
  BY <1>1 DEF EntitiesInv, ListsTyped
<1>4. WrittenMatched'
  BY <1>0, <1>1, OwnAre, PlacesAre DEF EntitiesInv, WrittenMatched
<1>5. MatchedInOrder'
  BY <1>1 DEF EntitiesInv, MatchedInOrder, Entities!IsFact, Entities!NameOf
<1>6. AloneSeesAll'
  <2>1. ASSUME NEW s \in apart
        PROVE  /\ pc'[s] \notin {"match", "write"}
               /\ pc'[s] \notin {"new", "done"} => \A q \in Ingests \ {s} : pc'[q] \in {"new", "done"}
    BY <1>0, <1>1 DEF EntitiesInv, AloneSeesAll
  <2>2. QED BY <1>1, <2>1 DEF AloneSeesAll
<1>7. Entities!OneNodePerName'
  <2>1. ASSUME NEW x \in written', NEW y \in written', ~Entities!IsFact(x), ~Entities!IsFact(y),
               NameAt(x) = NameAt(y), x[1] # y[1], {x[1], y[1]} \subseteq apart
        PROVE  FALSE
    <3>1. ASSUME NEW u \in Own(r), match[u] = u, ~Entities!IsFact(u), r \in apart, NEW w \in written
          PROVE  NameAt(u) # NameAt(w)
      BY <1>0, <1>1, <3>1 DEF EntitiesInv, AloneSeesAll
    <3>2. CASE x \in written /\ y \in written
      BY <2>1, <3>2 DEF EntitiesInv, Entities!OneNodePerName, NameAt
    <3>3. CASE x \notin written
      <4>1. x \in Own(r) /\ match[x] = x /\ x[1] = r
        BY <1>1, <3>3, OwnAre
      <4>2. y \in written
        BY <1>1, <2>1, <4>1, OwnAre
      <4>3. QED BY <2>1, <3>1, <4>1, <4>2
    <3>4. CASE y \notin written
      <4>1. y \in Own(r) /\ match[y] = y /\ y[1] = r
        BY <1>1, <3>4, OwnAre
      <4>2. x \in written
        BY <1>1, <2>1, <4>1, OwnAre
      <4>3. QED BY <2>1, <3>1, <4>1, <4>2
    <3>5. QED BY <3>2, <3>3, <3>4
  <2>2. QED BY <1>1, <2>1 DEF Entities!OneNodePerName, NameAt, Entities!IsFact, Entities!NameOf
<1>8. QED BY <1>2, <1>3, <1>4, <1>5, <1>6, <1>7 DEF EntitiesInv

LEMMA EntitiesInvStep ==
    ASSUME EntitiesInv, Entities!Next \/ UNCHANGED EntitiesVars
    PROVE  EntitiesInv'
<1>0. /\ pc \in [Ingests -> {"new", "embed", "list", "match", "write", "done"}]
      /\ written \subseteq Places /\ apart \subseteq Ingests /\ aliases \in [Places -> SUBSET Names]
  BY DEF EntitiesInv, Entities!TypeOK, Places
<1>1. ASSUME NEW r \in Ingests, Entities!Begin(r) PROVE EntitiesInv'
  <2>1. /\ pc[r] = "new" /\ pc'[r] = "embed" /\ \A s \in Ingests \ {r} : pc'[s] = pc[s]
        /\ UNCHANGED <<written, aliases, snapshot, match>>
        /\ apart' \subseteq apart
        /\ \A s \in apart', q \in Ingests : pc[q] \notin {"new", "done"} => s # q /\ s # r
    BY <1>0, <1>1 DEF Entities!Begin, Entities!Go, Entities!Busy
  <2>2. Entities!TypeOK'
    BY <1>1, EntitiesTyped
  <2>3. ListsTyped' /\ snapshot' = [s \in Ingests |-> snapshot'[s]]
    BY <2>1 DEF EntitiesInv, ListsTyped
  <2>4. WrittenMatched' /\ MatchedInOrder'
    BY <1>0, <2>1, PlacesAre DEF EntitiesInv, WrittenMatched, MatchedInOrder, Entities!IsFact, Entities!NameOf
  <2>5. AloneSeesAll'
    BY <1>0, <2>1 DEF EntitiesInv, AloneSeesAll, NameAt, Entities!IsFact, Entities!NameOf
  <2>6. Entities!OneNodePerName'
    BY <2>1 DEF EntitiesInv, Entities!OneNodePerName
  <2>7. QED BY <2>2, <2>3, <2>4, <2>5, <2>6 DEF EntitiesInv
<1>2. ASSUME NEW r \in Ingests, Entities!Refuse(r) \/ Entities!Embed(r) PROVE EntitiesInv'
  <2>1. /\ pc[r] = "embed" /\ pc'[r] \in {"list", "done"} /\ \A s \in Ingests \ {r} : pc'[s] = pc[s]
        /\ UNCHANGED <<written, aliases, snapshot, match, apart>>
    BY <1>0, <1>2 DEF Entities!Refuse, Entities!Embed, Entities!Go
  <2>2. Entities!TypeOK'
    BY <1>2, EntitiesTyped
  <2>3. ListsTyped' /\ snapshot' = [s \in Ingests |-> snapshot'[s]]
    BY <2>1 DEF EntitiesInv, ListsTyped
  <2>4. WrittenMatched' /\ MatchedInOrder'
    BY <1>0, <2>1, PlacesAre DEF EntitiesInv, WrittenMatched, MatchedInOrder, Entities!IsFact, Entities!NameOf
  <2>5. AloneSeesAll'
    BY <1>0, <2>1 DEF EntitiesInv, AloneSeesAll, NameAt, Entities!IsFact, Entities!NameOf
  <2>6. Entities!OneNodePerName'
    BY <2>1 DEF EntitiesInv, Entities!OneNodePerName
  <2>7. QED BY <2>2, <2>3, <2>4, <2>5, <2>6 DEF EntitiesInv
<1>3. ASSUME NEW r \in Ingests, Entities!List(r) PROVE EntitiesInv'
  <2>1. /\ pc[r] = "list" /\ pc'[r] = "match" /\ \A s \in Ingests \ {r} : pc'[s] = pc[s] /\ snapshot'[s] = snapshot[s]
        /\ snapshot'[r] = [x \in written |-> aliases[x]]
        /\ UNCHANGED <<written, aliases, match, apart>>
    BY <1>0, <1>3 DEF Entities!List, Entities!Go, Entities!Listed, EntitiesInv
  <2>2. Entities!TypeOK'
    BY <1>3, EntitiesTyped
  <2>3. ListsTyped' /\ snapshot' = [s \in Ingests |-> snapshot'[s]]
    <3>1. ListsTyped'
      BY <1>0, <2>1 DEF EntitiesInv, ListsTyped
    <3>2. snapshot' = [s \in Ingests |-> snapshot'[s]]
      BY <1>3 DEF EntitiesInv, Entities!List
    <3>3. QED BY <3>1, <3>2
  <2>4. WrittenMatched' /\ MatchedInOrder'
    BY <1>0, <2>1, PlacesAre DEF EntitiesInv, WrittenMatched, MatchedInOrder, Entities!IsFact, Entities!NameOf
  <2>5. AloneSeesAll'
    <3>1. \A x \in Own(r) : match[x] # x
      BY <2>1, OwnAre, PlacesAre DEF EntitiesInv, MatchedInOrder
    <3>2. QED BY <1>0, <2>1, <3>1 DEF EntitiesInv, AloneSeesAll, NameAt, Entities!IsFact, Entities!NameOf
  <2>6. Entities!OneNodePerName'
    BY <2>1 DEF EntitiesInv, Entities!OneNodePerName
  <2>7. QED BY <2>2, <2>3, <2>4, <2>5, <2>6 DEF EntitiesInv
<1>4. ASSUME NEW r \in Ingests, Entities!MatchDone(r) \/ Entities!WriteFails(r) PROVE EntitiesInv'
  <2>1. /\ \/ pc[r] = "match" /\ pc'[r] = "write" /\ Entities!Pending(r) = {}
           \/ pc[r] = "write" /\ pc'[r] = "done"
        /\ \A s \in Ingests \ {r} : pc'[s] = pc[s]
        /\ UNCHANGED <<written, aliases, snapshot, match, apart>>
    BY <1>0, <1>4 DEF Entities!MatchDone, Entities!WriteFails, Entities!Go
  <2>2. Entities!TypeOK'
    BY <1>4, EntitiesTyped
  <2>3. ListsTyped' /\ snapshot' = [s \in Ingests |-> snapshot'[s]]
    BY <2>1 DEF EntitiesInv, ListsTyped
  <2>4. WrittenMatched' /\ MatchedInOrder'
    BY <1>0, <2>1, NonePending, PlacesAre DEF EntitiesInv, WrittenMatched, MatchedInOrder, Entities!IsFact, Entities!NameOf
  <2>5. AloneSeesAll'
    BY <1>0, <2>1 DEF EntitiesInv, AloneSeesAll, NameAt, Entities!IsFact, Entities!NameOf
  <2>6. Entities!OneNodePerName'
    BY <2>1 DEF EntitiesInv, Entities!OneNodePerName
  <2>7. QED BY <2>2, <2>3, <2>4, <2>5, <2>6 DEF EntitiesInv
<1>5. CASE UNCHANGED EntitiesVars
  <2>1. UNCHANGED <<written, aliases, pc, caller, vector, snapshot, match, apart, vectorFaults>>
    BY <1>5 DEF EntitiesVars
  <2>2. Entities!TypeOK' /\ snapshot' = [s \in Ingests |-> snapshot'[s]] /\ ListsTyped'
    BY <2>1 DEF EntitiesInv, Entities!TypeOK, ListsTyped
  <2>3. WrittenMatched' /\ MatchedInOrder' /\ AloneSeesAll' /\ Entities!OneNodePerName'
    BY <2>1 DEF EntitiesInv, WrittenMatched, MatchedInOrder, AloneSeesAll, Entities!OneNodePerName
  <2>4. QED BY <2>2, <2>3 DEF EntitiesInv
<1>6. QED BY <1>1, <1>2, <1>3, <1>4, <1>5, MatchStep, WriteStep DEF Entities!Next

LEMMA EntitiesKept == KnowledgeSpec => [](focus = "entities" => EntitiesInv)
<1>1. KnowledgeInit => (focus = "entities" => EntitiesInv)
  BY EntitiesBegin, EntitiesInvInit
<1>2. (focus = "entities" => EntitiesInv) /\ [KnowledgeNext]_knowledgeVars => (focus = "entities" => EntitiesInv)'
  BY EntitiesMove, EntitiesInvStep
<1>3. QED BY <1>1, <1>2, PTL DEF KnowledgeSpec

(* An alias is only overwritten by a request whose list lacks it.          *)
LEMMA AliasesKeptStep ==
    ASSUME EntitiesInv, Entities!Next \/ UNCHANGED EntitiesVars
    PROVE  Entities!AliasesKept
<1>1. ASSUME NEW r \in Ingests, Entities!Write(r), apart = Ingests, NEW x \in Entities!Places
      PROVE  aliases[x] \subseteq aliases'[x]
  <2>1. snapshot[r] = [y \in written |-> aliases[y]]
    BY <1>1 DEF EntitiesInv, AloneSeesAll, Entities!Write
  <2>2. QED BY <1>1, <2>1 DEF Entities!Write, Entities!AliasesOf, Entities!Known
<1>2. CASE UNCHANGED aliases
  BY <1>2 DEF Entities!AliasesKept
<1>3. QED BY <1>1, <1>2 DEF Entities!Next, EntitiesVars, Entities!AliasesKept, Entities!Begin, Entities!Refuse,
      Entities!Embed, Entities!List, Entities!Match, Entities!MatchDone, Entities!WriteFails

(* A written payload's FACT nodes are nodes of their own.                  *)
LEMMA FactsApart == EntitiesInv => Entities!FactsStayApart
BY PlacesAre DEF EntitiesInv, MatchedInOrder, Entities!FactsStayApart, Places, Own

-----------------------------------------------------------------------------
(* Synapse weights.                                                        *)
LEMMA WeightsBegin ==
    ASSUME KnowledgeInit, focus = "synapses"
    PROVE  Weights!Init
BY DEF KnowledgeInit, KnowledgeFocus

LEMMA WeightsMove ==
    ASSUME [KnowledgeNext]_knowledgeVars, focus' = "synapses"
    PROVE  focus = "synapses" /\ (Weights!Next \/ UNCHANGED WeightsVars)
BY DEF KnowledgeNext, KnowledgeStays, knowledgeVars

Edges == DOMAIN weight

(* What keeps a used edge above the threshold of retrieval: a decay takes  *)
(* less than the use before it has added.                                  *)
UsedHasMargin ==
    \A e \in Edges \ rested :
        /\ weight[e] # 0 => weight[e] >= 300
        /\ e \in usedSince => weight[e] >= 320

(* A name the cycle may use is that of an edge it did not propose.         *)
NamesAreExtracted ==
    /\ \A e \in proposed : \E f \in Edges \ proposed : label[f] = label[e]
    /\ \A n \in allowed : \E f \in Edges \ proposed : label[f] = n

WeightsInv ==
    /\ Weights!TypeOK
    /\ weight = [e \in Edges |-> weight[e]] /\ label = [e \in Edges |-> label[e]]
    /\ UsedHasMargin
    /\ NamesAreExtracted

Scale == 100 .. 2000
InRange == {0} \cup Scale

LEMMA RangeCompares == \A w \in InRange : w \in Nat /\ (w >= 320 => w >= 300)
BY DEF InRange, Scale

LEMMA FirstInRange == 0 \in 0 .. MaxSteps /\ \A w \in FirstWeights : w \in InRange /\ (w # 0 => w >= 300)
BY WeightsAssumption DEF InRange, Scale

LEMMA WeightsInvInit == ASSUME Weights!Init PROVE WeightsInv
<1> USE FirstInRange DEF Weights!Init
<1>1. PICK first \in SUBSET Synapses, name \in Vocabulary :
          weight \in [first -> FirstWeights] /\ label = [e \in first |-> name]
  OBVIOUS
<1>2. Weights!TypeOK
  <2>1. DOMAIN weight = first /\ DOMAIN label = first /\ \A e \in first : weight[e] \in InRange /\ label[e] \in Vocabulary
    BY <1>1
  <2>2. QED BY <2>1 DEF Weights!TypeOK, Weights!Edges, Weights!Weights, Weights!Passes, InRange, Scale
<1>3. UsedHasMargin /\ NamesAreExtracted
  <2>1. \A e \in DOMAIN weight : weight[e] # 0 => weight[e] >= 300
    BY <1>1
  <2>2. QED BY <2>1 DEF UsedHasMargin, NamesAreExtracted, Edges
<1>4. QED BY <1>1, <1>2, <1>3 DEF WeightsInv, Edges

(* Raising, lowering and decaying stay in range; a decay of what a use has *)
(* raised stays above the threshold.                                       *)
LEMMA RaisedBy ==
    ASSUME NEW w \in Scale, NEW by \in {20, 100}
    PROVE  /\ Weights!Raised(w, by) \in Scale
           /\ w >= 300 => Weights!Raised(w, by) >= 320
BY DEF Weights!Raised, Scale

LEMMA LoweredBy == \A w \in Scale : Weights!Lowered(w, 100) \in Scale
BY DEF Weights!Lowered, Scale

LEMMA DecayedTo ==
    ASSUME NEW w \in Scale
    PROVE  /\ Weights!Decayed(w) \in Scale
           /\ w >= 320 => Weights!Decayed(w) >= 300
BY DEF Weights!Decayed, Scale

LEMMA CurrentWeight ==
    ASSUME WeightsInv, NEW e \in Edges
    PROVE  /\ Weights!Current(e) \in Scale
           /\ e \notin rested => /\ Weights!Current(e) >= 300
                                 /\ e \in usedSince => Weights!Current(e) >= 320
BY DEF Weights!Current, WeightsInv, Weights!TypeOK, Weights!Edges, Edges, Weights!Weights, UsedHasMargin, Scale

LEMMA Reweighted ==
    ASSUME WeightsInv, DOMAIN weight' = Edges, \A e \in Edges : weight'[e] \in InRange,
           weight' = [e \in Edges |-> weight'[e]], usedSince' \subseteq Edges, rested' \subseteq Edges,
           steps' \in 0 .. MaxSteps, UNCHANGED <<label, proposed, pairs>>,
           allowed' \subseteq allowed, cycle' \in Weights!Passes, UsedHasMargin'
    PROVE  WeightsInv'
<1>1. Weights!TypeOK'
  BY DEF WeightsInv, Weights!TypeOK, Weights!Edges, Edges, InRange, Scale, Weights!Weights
<1>2. NamesAreExtracted'
  BY DEF WeightsInv, NamesAreExtracted, Edges
<1>3. QED BY <1>1, <1>2 DEF WeightsInv, Edges

LEMMA DecayStep ==
    ASSUME WeightsInv, Weights!DecayAll
    PROVE  /\ DOMAIN weight' = Edges /\ weight' = [e \in Edges |-> weight'[e]]
           /\ \A e \in Edges : weight'[e] \in InRange
           /\ usedSince' = {} /\ rested' \subseteq Edges /\ UsedHasMargin'
<1>1. /\ weight' = [e \in Edges |-> Weights!Decayed(Weights!Current(e))]
      /\ rested' = rested \cup (Edges \ usedSince) /\ usedSince' = {}
      /\ rested \subseteq Edges /\ usedSince \subseteq Edges
  BY DEF Weights!DecayAll, Weights!Edges, Edges, WeightsInv, Weights!TypeOK
<1>2. ASSUME NEW e \in Edges
      PROVE  weight'[e] \in InRange /\ (e \notin rested' => weight'[e] >= 300)
  <2> DEFINE w == Weights!Current(e)
  <2>1. weight'[e] = Weights!Decayed(w)
    BY <1>1
  <2>2. w \in Scale /\ (e \notin rested /\ e \in usedSince => w >= 320)
    BY CurrentWeight
  <2> HIDE DEF w
  <2>3. Weights!Decayed(w) \in Scale /\ (w >= 320 => Weights!Decayed(w) >= 300)
    BY <2>2, DecayedTo
  <2>4. QED BY <1>1, <2>1, <2>2, <2>3 DEF InRange
<1>3. QED BY <1>1, <1>2 DEF UsedHasMargin, Edges

LEMMA AddEdge ==
    ASSUME WeightsInv, NEW e \in Synapses \ Edges, NEW name \in Vocabulary,
           weight' = [f \in Edges \cup {e} |-> IF f = e THEN 1000 ELSE weight[f]],
           label' = [f \in Edges \cup {e} |-> IF f = e THEN name ELSE label[f]],
           UNCHANGED <<cycle, allowed, rested, usedSince>>, pairs' \subseteq pairs, steps' \in 0 .. MaxSteps,
           proposed' = proposed \/ (proposed' = proposed \cup {e} /\ name \in allowed)
    PROVE  WeightsInv'
<1>0. /\ Edges' = Edges \cup {e} /\ e \notin Edges
      /\ \A f \in Edges : weight'[f] = weight[f] /\ label'[f] = label[f]
      /\ weight'[e] = 1000 /\ label'[e] = name
      /\ proposed \subseteq Edges /\ rested \subseteq Edges /\ usedSince \subseteq Edges
  BY DEF Edges, WeightsInv, Weights!TypeOK, Weights!Edges
<1>1. Weights!TypeOK'
  <2>1. 1000 \in Weights!Weights
    BY DEF Weights!Weights
  <2>2. Weights!Edges' = Weights!Edges \cup {e} /\ DOMAIN label' = Weights!Edges'
    BY <1>0 DEF Weights!Edges, Edges
  <2>3. \A f \in Weights!Edges' : weight'[f] \in Weights!Weights /\ label'[f] \in Vocabulary
    BY <1>0, <2>1, <2>2 DEF WeightsInv, Weights!TypeOK, Weights!Edges, Edges
  <2>4. proposed' \subseteq Weights!Edges' /\ rested' \subseteq Weights!Edges' /\ usedSince' \subseteq Weights!Edges'
    BY <1>0, <2>2 DEF Weights!Edges, Edges
  <2>5. Weights!Edges' \subseteq Synapses
    BY <2>2 DEF WeightsInv, Weights!TypeOK
  <2>6. cycle' \in Weights!Passes /\ pairs' \subseteq Synapses /\ allowed' \subseteq Vocabulary
    BY DEF WeightsInv, Weights!TypeOK
  <2>7. QED BY <2>2, <2>3, <2>4, <2>5, <2>6 DEF Weights!TypeOK
<1>2. UsedHasMargin'
  BY <1>0 DEF WeightsInv, UsedHasMargin
<1>3. NamesAreExtracted'
  <2>1. proposed' \subseteq proposed \cup {e}
    OBVIOUS
  <2>2. \A f \in Edges \ proposed : f \in Edges' \ proposed' /\ label'[f] = label[f]
    BY <1>0, <2>1
  <2>3. \A n \in allowed : \E f \in Edges' \ proposed' : label'[f] = n
    BY <2>2 DEF WeightsInv, NamesAreExtracted
  <2>4. \A g \in proposed : \E f \in Edges' \ proposed' : label'[f] = label'[g]
    BY <1>0, <2>2 DEF WeightsInv, NamesAreExtracted
  <2>6. \A g \in proposed' : \E f \in Edges' \ proposed' : label'[f] = label'[g]
    <3>1. CASE proposed' = proposed
      BY <2>4, <3>1
    <3>2. CASE proposed' = proposed \cup {e} /\ name \in allowed
      BY <1>0, <2>3, <2>4, <3>2
    <3>3. QED BY <3>1, <3>2
  <2>7. QED BY <2>3, <2>6 DEF NamesAreExtracted
<1>4. weight' = [f \in Edges' |-> weight'[f]] /\ label' = [f \in Edges' |-> label'[f]]
  BY <1>0
<1>5. QED BY <1>1, <1>2, <1>3, <1>4 DEF WeightsInv

LEMMA WeightsInvStep ==
    ASSUME WeightsInv, Weights!Next \/ UNCHANGED WeightsVars
    PROVE  WeightsInv'
<1>0. /\ rested \subseteq Edges /\ usedSince \subseteq Edges /\ proposed \subseteq Edges
      /\ steps \in 0 .. MaxSteps /\ MaxSteps \in Nat /\ cycle \in Weights!Passes
      /\ pairs \subseteq Synapses /\ allowed \subseteq Vocabulary /\ DOMAIN label = Edges
      /\ \A e \in Edges : label[e] \in Vocabulary
  BY WeightsAssumption DEF WeightsInv, Weights!TypeOK, Weights!Edges, Edges
<1>1. CASE Weights!Feedback
  <2>1. PICK used \in SUBSET Neurons \ {{}}, success \in BOOLEAN, bound \in BOOLEAN :
          LET hit == Weights!Among(used) \ (IF bound THEN proposed ELSE {}) IN
          /\ weight' = [e \in Edges |->
                IF e \notin hit THEN weight[e]
                ELSE IF success THEN Weights!Raised(Weights!Current(e), 100)
                ELSE Weights!Lowered(Weights!Current(e), 100)]
          /\ usedSince' = IF success THEN usedSince \cup hit ELSE usedSince
          /\ rested' = IF success THEN rested ELSE rested \cup hit
    BY <1>1 DEF Weights!Feedback, Weights!Edges, Edges
  <2> DEFINE hit == Weights!Among(used) \ (IF bound THEN proposed ELSE {})
  <2>2. hit \subseteq Edges
    BY DEF Weights!Among, Weights!Edges, Edges
  <2>3. \A e \in Edges : weight[e] \in InRange
    BY DEF WeightsInv, Weights!TypeOK, Weights!Edges, Edges, Weights!Weights, InRange, Scale
  <2> HIDE DEF hit
  <2>4. /\ weight' = [e \in Edges |-> IF e \notin hit THEN weight[e]
                        ELSE IF success THEN Weights!Raised(Weights!Current(e), 100)
                        ELSE Weights!Lowered(Weights!Current(e), 100)]
        /\ usedSince' = IF success THEN usedSince \cup hit ELSE usedSince
        /\ rested' = IF success THEN rested ELSE rested \cup hit
    BY <2>1 DEF hit
  <2>5. \A e \in Edges : weight'[e] \in InRange
    <3>1. ASSUME NEW e \in Edges PROVE weight'[e] \in InRange
      <4>1. Weights!Current(e) \in Scale
        BY CurrentWeight
      <4>2. QED BY <2>3, <2>4, <4>1, RaisedBy, LoweredBy DEF InRange
    <3>2. QED BY <3>1
  <2>6. UsedHasMargin'
    <3>1. CASE success
      <4>1. ASSUME NEW e \in Edges \ rested, e \in hit PROVE weight'[e] >= 320
        <5>1. Weights!Current(e) \in Scale /\ Weights!Current(e) >= 300
          BY CurrentWeight
        <5>2. QED BY <2>4, <3>1, <4>1, <5>1, RaisedBy
      <4>2. \A e \in Edges \ hit : weight'[e] = weight[e]
        BY <2>4
      <4>3. ASSUME NEW e \in Edges \ rested
            PROVE  (weight'[e] # 0 => weight'[e] >= 300) /\ (e \in usedSince' => weight'[e] >= 320)
        <5>1. CASE e \in hit
          BY <2>5, <4>1, <5>1, RangeCompares
        <5>2. CASE e \notin hit
          BY <2>4, <3>1, <4>2, <5>2 DEF UsedHasMargin, WeightsInv
        <5>3. QED BY <5>1, <5>2
      <4>4. QED BY <2>4, <3>1, <4>3 DEF UsedHasMargin, Edges
    <3>2. CASE ~success
      BY <2>4, <3>2 DEF UsedHasMargin, WeightsInv, Edges
    <3>3. QED BY <3>1, <3>2
  <2>7. steps' \in 0 .. MaxSteps /\ UNCHANGED <<label, proposed, cycle, pairs, allowed>>
    BY <1>0, <1>1 DEF Weights!Feedback, Weights!Step
  <2>8. QED BY <1>0, <2>2, <2>4, <2>5, <2>6, <2>7, Reweighted
<1>2. CASE Weights!Reinforce
  <2>1. PICK used \in SUBSET Neurons :
            weight' = Weights!Reinforced(used) /\ usedSince' = usedSince \cup Weights!Among(used)
    BY <1>2 DEF Weights!Reinforce
  <2> DEFINE hit == Weights!Among(used)
  <2>2. hit \subseteq Edges
    BY DEF Weights!Among, Weights!Edges, Edges
  <2>3. \A e \in Edges : weight[e] \in InRange
    BY DEF WeightsInv, Weights!TypeOK, Weights!Edges, Edges, Weights!Weights, InRange, Scale
  <2> HIDE DEF hit
  <2>4. /\ weight' = [e \in Edges |-> IF e \in hit THEN Weights!Raised(Weights!Current(e), 20) ELSE weight[e]]
        /\ usedSince' = usedSince \cup hit /\ UNCHANGED rested
    BY <1>2, <2>1 DEF hit, Weights!Reinforced, Weights!Edges, Edges, Weights!Reinforce
  <2>5. \A e \in Edges : weight'[e] \in InRange
    <3>1. ASSUME NEW e \in Edges PROVE weight'[e] \in InRange
      <4>1. Weights!Current(e) \in Scale
        BY CurrentWeight
      <4>2. QED BY <2>3, <2>4, <4>1, RaisedBy, LoweredBy DEF InRange
    <3>2. QED BY <3>1
  <2>6. UsedHasMargin'
    <3>1. ASSUME NEW e \in Edges \ rested, e \in hit PROVE weight'[e] >= 320
      <4>1. Weights!Current(e) \in Scale /\ Weights!Current(e) >= 300
        BY CurrentWeight
      <4>2. QED BY <2>4, <3>1, <4>1, RaisedBy
    <3>2. \A e \in Edges \ hit : weight'[e] = weight[e]
      BY <2>4
    <3>3. ASSUME NEW e \in Edges \ rested
          PROVE  (weight'[e] # 0 => weight'[e] >= 300) /\ (e \in usedSince' => weight'[e] >= 320)
      <4>1. CASE e \in hit
        BY <2>5, <3>1, <4>1, RangeCompares
      <4>2. CASE e \notin hit
        BY <2>4, <3>2, <4>2 DEF UsedHasMargin, WeightsInv
      <4>3. QED BY <4>1, <4>2
    <3>4. QED BY <2>4, <3>3 DEF UsedHasMargin, Edges
  <2>7. steps' \in 0 .. MaxSteps /\ UNCHANGED <<label, proposed, cycle, pairs, allowed>>
    BY <1>0, <1>2 DEF Weights!Reinforce, Weights!Step
  <2>8. QED BY <1>0, <2>2, <2>4, <2>5, <2>6, <2>7, Reweighted
<1>3. CASE Weights!HibernationDecay
  <2>1. steps' \in 0 .. MaxSteps /\ UNCHANGED <<label, proposed, cycle, pairs, allowed>>
    BY <1>0, <1>3 DEF Weights!HibernationDecay, Weights!Step
  <2>2. QED BY <1>0, <1>3, <2>1, DecayStep, Reweighted DEF Weights!HibernationDecay
<1>4. CASE Weights!Backfill
  <2>1. weight' = [e \in Edges |-> Weights!Current(e)] /\ UNCHANGED <<rested, usedSince>>
    BY <1>4 DEF Weights!Backfill, Weights!Edges, Edges
  <2>2. \A e \in Edges : weight'[e] \in InRange
    BY <2>1, CurrentWeight DEF InRange
  <2>3. UsedHasMargin'
    BY <2>1, CurrentWeight DEF UsedHasMargin, Edges
  <2>4. steps' \in 0 .. MaxSteps /\ UNCHANGED <<label, proposed, cycle, pairs, allowed>>
    BY <1>0, <1>4 DEF Weights!Backfill, Weights!Step
  <2>5. QED BY <1>0, <2>1, <2>2, <2>3, <2>4, Reweighted
<1>5. CASE Weights!Ingest
  <2>1. PICK e \in Synapses \ Edges, name \in Vocabulary :
          /\ weight' = [f \in Edges \cup {e} |-> IF f = e THEN 1000 ELSE weight[f]]
          /\ label' = [f \in Edges \cup {e} |-> IF f = e THEN name ELSE label[f]]
    BY <1>5 DEF Weights!Ingest, Weights!Edges, Edges
  <2>2. steps' \in 0 .. MaxSteps /\ UNCHANGED <<proposed, cycle, pairs, allowed, rested, usedSince>>
    BY <1>0, <1>5 DEF Weights!Ingest, Weights!Step
  <2>3. QED BY <2>1, <2>2, AddEdge
<1>6. CASE Weights!BeginCycle \/ Weights!CycleError \/ Weights!EndPropose
  <2>1. /\ UNCHANGED <<weight, label, proposed, rested, usedSince>> /\ allowed' \subseteq allowed
        /\ pairs' \subseteq pairs /\ cycle' \in Weights!Passes /\ steps' \in 0 .. MaxSteps
    BY <1>0, <1>6 DEF Weights!BeginCycle, Weights!CycleError, Weights!EndPropose, Weights!Step, Weights!Passes
  <2>2. QED BY <1>0, <2>1 DEF WeightsInv, Weights!TypeOK, Weights!Edges, Edges, UsedHasMargin, NamesAreExtracted
<1>7. CASE Weights!LookForPairs
  <2>1. /\ UNCHANGED <<weight, label, proposed, rested, usedSince, steps>>
        /\ allowed' \in {allowed, {label[e] : e \in Edges}}
        /\ pairs' \subseteq Synapses /\ cycle' \in Weights!Passes
    BY <1>0, <1>7 DEF Weights!LookForPairs, Weights!Passes, Weights!Edges, Edges
  <2>2. \A n \in allowed' : \E f \in Edges \ proposed : label[f] = n
    BY <2>1 DEF WeightsInv, NamesAreExtracted
  <2>3. QED BY <1>0, <2>1, <2>2 DEF WeightsInv, Weights!TypeOK, Weights!Edges, Edges, UsedHasMargin, NamesAreExtracted
<1>8. CASE Weights!Propose
  <2>1. UNCHANGED <<cycle, allowed, rested, usedSince, steps>> /\ pairs' \subseteq pairs
    BY <1>8 DEF Weights!Propose
  <2>2. ASSUME NEW e \in pairs, NEW answer \in Vocabulary, Weights!Accepted(answer), e \notin Edges,
               weight' = [f \in Edges \cup {e} |-> IF f = e THEN 1000 ELSE weight[f]],
               label' = [f \in Edges \cup {e} |-> IF f = e THEN answer ELSE label[f]],
               proposed' = proposed \cup {e}
        PROVE  WeightsInv'
    BY <1>0, <2>1, <2>2, AddEdge DEF Weights!Accepted
  <2>3. CASE UNCHANGED <<weight, label, proposed>>
    BY <1>0, <2>1, <2>3 DEF WeightsInv, Weights!TypeOK, Weights!Edges, Edges, UsedHasMargin, NamesAreExtracted
  <2>4. QED BY <1>8, <2>2, <2>3 DEF Weights!Propose, Weights!Edges, Edges
<1>9. CASE Weights!CycleDecay
  <2>1. UNCHANGED <<label, proposed, pairs, steps>> /\ allowed' = {} /\ cycle' \in Weights!Passes
    BY <1>9 DEF Weights!CycleDecay, Weights!Passes
  <2>2. QED BY <1>0, <1>9, <2>1, DecayStep, Reweighted DEF Weights!CycleDecay
<1>10. CASE UNCHANGED WeightsVars
  BY <1>10 DEF WeightsVars, WeightsInv, Weights!TypeOK, Weights!Edges, Edges, UsedHasMargin, NamesAreExtracted
<1>11. QED BY <1>1, <1>2, <1>3, <1>4, <1>5, <1>6, <1>7, <1>8, <1>9, <1>10 DEF Weights!Next

LEMMA WeightsKept == KnowledgeSpec => [](focus = "synapses" => WeightsInv)
<1>1. KnowledgeInit => (focus = "synapses" => WeightsInv)
  BY WeightsBegin, WeightsInvInit
<1>2. (focus = "synapses" => WeightsInv) /\ [KnowledgeNext]_knowledgeVars => (focus = "synapses" => WeightsInv)'
  BY WeightsMove, WeightsInvStep
<1>3. QED BY <1>1, <1>2, PTL DEF KnowledgeSpec

(* An edge that is used between every two decays, and that no caller       *)
(* weakens, stays above what retrieval forgets although each decay lowers  *)
(* it, and the cycle invents no name of a relation: for any edges above the*)
(* threshold at the start, any order of feedback, answers, decays and      *)
(* restarts, and any number of them.                                       *)
THEOREM WeightsFollow == KnowledgeSpec => []WeightsFollowUse
<1>1. (focus = "synapses" => WeightsInv) => WeightsFollowUse
  BY DEF WeightsInv, UsedHasMargin, NamesAreExtracted, WeightsFollowUse, Weights!UsedStaysRemembered,
     Weights!VocabularyIsExtracted, Weights!Edges, Edges
<1>2. QED BY <1>1, WeightsKept, PTL

-----------------------------------------------------------------------------
(* What is first in an order.                                              *)
(* A finite set that some relation orders strictly has an element with     *)
(* nothing before it: the set of what is before an element shrinks.        *)
LEMMA FirstExists ==
    ASSUME NEW T, IsFiniteSet(T), T # {}, NEW R,
           \A x \in T : <<x, x>> \notin R,
           \A x, y, z \in T : <<x, y>> \in R /\ <<y, z>> \in R => <<x, z>> \in R
    PROVE  \E x \in T : \A y \in T : <<y, x>> \notin R
<1> DEFINE below(x) == {y \in T : <<y, x>> \in R}
           belows   == {below(x) : x \in T}
<1>1. belows \subseteq FiniteSubsetsOf(T) /\ belows # {}
  <2>1. \A x \in T : below(x) \in SUBSET T /\ IsFiniteSet(below(x))
    BY FS_Subset
  <2>2. \A x \in T : below(x) \in FiniteSubsetsOf(T)
    BY <2>1 DEF FiniteSubsetsOf
  <2>3. PICK x \in T : TRUE
    OBVIOUS
  <2>4. below(x) \in belows
    BY <2>3
  <2> HIDE DEF below
  <2>5. QED BY <2>2, <2>4
<1>2. PICK b \in belows : \A c \in belows : ~(<<c, b>> \in StrictSubsetOrdering(T))
  <2> HIDE DEF belows
  <2>1. QED BY <1>1, FS_StrictSubsetOrderingWellFounded, WFMin
<1>3. PICK x \in T : b = below(x)
  OBVIOUS
<1>4. ASSUME NEW y \in T, <<y, x>> \in R PROVE FALSE
  <2>1. below(y) \subseteq below(x) /\ y \in below(x) /\ y \notin below(y)
    BY <1>4
  <2>2. <<below(y), b>> \in StrictSubsetOrdering(T)
    BY <1>3, <2>1 DEF StrictSubsetOrdering
  <2>3. QED BY <1>2, <2>2
<1>5. QED BY <1>4

LEMMA GreatestExists ==
    ASSUME NEW k \in Nat, NEW S \in SUBSET (1 .. k), S # {}
    PROVE  \E n \in S : \A m \in S : m <= n
<1> DEFINE R == {x \in (1 .. k) \X (1 .. k) : x[1] > x[2]}
<1>1. IsFiniteSet(S)
  <2>1. IsFiniteSet(1 .. k)
    BY FS_Interval
  <2>2. QED BY <2>1, FS_Subset
<1>2. /\ \A x \in S : <<x, x>> \notin R
      /\ \A x, y, z \in S : <<x, y>> \in R /\ <<y, z>> \in R => <<x, z>> \in R
  OBVIOUS
<1>3. PICK n \in S : \A m \in S : <<m, n>> \notin R
  <2> HIDE DEF R
  <2>1. QED BY <1>1, <1>2, FirstExists
<1>4. ASSUME NEW m \in S PROVE m <= n
  <2>1. <<m, n>> \notin R /\ m \in 1 .. k /\ n \in 1 .. k
    BY <1>3
  <2>2. QED BY <2>1
<1>5. QED BY <1>4

-----------------------------------------------------------------------------
(* Compressor.                                                             *)
LEMMA CompressBegins ==
    ASSUME KnowledgeInit, focus = "compressor"
    PROVE  Compress!Init
BY DEF KnowledgeInit, KnowledgeFocus

LEMMA CompressMoves ==
    ASSUME [KnowledgeNext]_knowledgeVars, focus' = "compressor"
    PROVE  focus = "compressor" /\ (Compress!Next \/ UNCHANGED CompressVars)
BY DEF KnowledgeNext, KnowledgeStays, knowledgeVars

LEMMA CompressCounts == ASSUME NEW S PROVE Compress!Cardinality(S) = Cardinality(S)
BY DEF Compress!Cardinality, Cardinality

Units == {"w", ".", "blank"}
Covered(n) == \E c \in DOMAIN chunks : chunks[c][1] <= n /\ n <= chunks[c][2]

(* What the loop has passed is in a chunk.                                 *)
ReadSoFar ==
    \A n \in DOMAIN text : text[n] # "blank" /\ (n <= start \/ outcome # "cutting") => Covered(n)

(* An answer that has been built: its edges join nodes it lists.           *)
Answers == {Compress!Built(a) : a \in Extractions}
Told ==
    /\ outcome # "cutting" => told \in [DOMAIN chunks -> Answers \cup {NoExtract, FailedChunk}]
    /\ outcome = "answered" => \A c \in DOMAIN chunks : told[c] # NoExtract

(* The properties of an answer, which the cached one has as well.          *)
GraphKept(g) ==
    /\ DOMAIN g = {"nodes", "edges"} /\ g.nodes \subseteq Compress!Found
    /\ \A e \in g.edges : {e[1], e[2]} \subseteq g.nodes
    /\ \A c \in Compress!Good : \A e \in Compress!Arcs(c) : Compress!KeyOf(e[1]) # Compress!KeyOf(e[2]) =>
           \E d \in g.edges : /\ Compress!KeyOf(d[1]) = Compress!KeyOf(e[1])
                              /\ Compress!KeyOf(d[2]) = Compress!KeyOf(e[2])
    /\ Len(chunks) > 1 => \A x, y \in g.nodes : Compress!KeyOf(x) = Compress!KeyOf(y) => x = y

CompressInv ==
    /\ Compress!TypeOK
    /\ tries \in Nat /\ chunks \in Seq(Nat \X Nat) /\ start <= Len(text)
    /\ ReadSoFar
    /\ Told
    /\ Compress!FailureIsTold
    /\ outcome = "answered" => GraphKept(payload)
    /\ hits = 0 /\ cachedResult # NoExtract => outcome = "answered" /\ GraphKept(cachedResult)

LEMMA CompressInvInit == ASSUME Compress!Init PROVE CompressInv
<1> USE DEF Compress!Init
<1>1. Compress!TypeOK
  BY CompressAssumption DEF Compress!TypeOK
<1>2. text \in Seq(Units)
  BY CompressAssumption DEF Units
<1>3. tries \in Nat /\ chunks \in Seq(Nat \X Nat) /\ start <= Len(text)
  BY <1>2
<1>4. ReadSoFar
  BY <1>2 DEF ReadSoFar
<1>5. QED BY <1>1, <1>3, <1>4 DEF CompressInv, Told, Compress!FailureIsTold

-----------------------------------------------------------------------------
(* A kept window is a part of the text from start on, and not empty.       *)
LEMMA KeptIsPart ==
    ASSUME CompressInv, start < Len(text), NEW s, s = Compress!Kept
    PROVE  /\ s \in Seq(Units) /\ Len(s) \in Nat \ {0} /\ start + Len(s) <= Len(text)
           /\ \A n \in 1 .. Len(s) : s[n] = text[start + n]
           /\ start \in Nat
<1> USE CompressAssumption
<1>1. text \in Seq(Units) /\ start \in Nat /\ Len(text) \in Nat
  BY DEF CompressInv, Compress!TypeOK, Units
<1> DEFINE last == IF Compress!AtEnd THEN Len(text) ELSE start + ChunkSize
           w == SubSeq(text, start + 1, last)
<1>2. last \in Nat /\ start < last /\ last <= Len(text)
  BY <1>1 DEF Compress!AtEnd
<1> HIDE DEF last
<1>3. /\ w \in Seq(Units) /\ Len(w) = last - start
      /\ \A n \in 1 .. Len(w) : w[n] = text[start + n]
  BY <1>1, <1>2
<1>4. w = Compress!Window
  BY DEF Compress!Window, last
<1> HIDE DEF w
<1>5. CASE s = w
  BY <1>1, <1>2, <1>3, <1>5
<1>6. CASE s # w
  <2>1. Compress!Cuts # {} /\ Compress!Cuts \subseteq 1 .. Len(w)
    <3>1. Compress!Cuts # {}
      BY <1>4, <1>6 DEF Compress!Kept
    <3>2. Compress!Cuts \subseteq DOMAIN w
      BY <1>4 DEF Compress!Cuts
    <3>3. QED BY <1>3, <3>1, <3>2
  <2>2. Len(w) \in Nat
    BY <1>3
  <2>3. PICK m \in Compress!Cuts : \A n \in Compress!Cuts : n <= m
    BY <2>1, <2>2, GreatestExists
  <2>4. (CHOOSE n \in Compress!Cuts : \A k \in Compress!Cuts : k <= n) \in Compress!Cuts
    BY <2>3
  <2>5. PICK k \in 1 .. Len(w) : s = SubSeq(w, 1, k)
    BY <1>4, <1>6, <2>1, <2>4 DEF Compress!Kept
  <2>6. s \in Seq(Units) /\ Len(s) = k /\ \A n \in 1 .. k : s[n] = w[n]
    BY <1>3, <2>2, <2>5
  <2>7. QED BY <1>1, <1>2, <1>3, <2>5, <2>6
<1>7. QED BY <1>5, <1>6

(* What is stripped from a part is blank, so a unit that is not is left.   *)
LEMMA StrippedAround ==
    ASSUME NEW s \in Seq(Units), start \in Nat, NEW p, p = Compress!Stripped(s)
    PROVE  /\ p \in Nat \X Nat /\ Compress!Span(p) \in 0 .. Len(s)
           /\ \A i \in 1 .. Len(s) : s[i] # "blank" =>
                  p[1] <= start + i /\ start + i <= p[2] /\ Compress!Span(p) # 0
<1> DEFINE lead == {n \in 1 .. Len(s) : \A m \in 1 .. n : s[m] = "blank"}
           trail == {n \in 1 .. Len(s) : \A m \in n .. Len(s) : s[m] = "blank"}
           a == Cardinality(lead)
           b == Cardinality(trail)
<1>1. Len(s) \in Nat
  OBVIOUS
<1>2. a = Compress!Leading(s) /\ b = Compress!Trailing(s)
  BY CompressCounts DEF Compress!Leading, Compress!Trailing
<1>3. IsFiniteSet(1 .. Len(s)) /\ Cardinality(1 .. Len(s)) = Len(s)
  BY <1>1, FS_Interval
<1>4. a \in 0 .. Len(s) /\ b \in 0 .. Len(s)
  <2>1. /\ IsFiniteSet(lead) /\ a <= Len(s)
        /\ IsFiniteSet(trail) /\ b <= Len(s)
    BY <1>3, FS_Subset
  <2>2. a \in Nat /\ b \in Nat
    BY <2>1, FS_CardinalityType
  <2> HIDE DEF a, b
  <2>3. QED BY <1>1, <2>1, <2>2
<1>5. ASSUME NEW i \in 1 .. Len(s), s[i] # "blank" PROVE a < i /\ b <= Len(s) - i
  <2>1. lead \in SUBSET (1 .. i - 1) /\ trail \in SUBSET (i + 1 .. Len(s))
    BY <1>5
  <2>2. /\ IsFiniteSet(1 .. i - 1) /\ Cardinality(1 .. i - 1) = i - 1
        /\ IsFiniteSet(i + 1 .. Len(s)) /\ Cardinality(i + 1 .. Len(s)) = Len(s) - i
    <3>1. PICK j \in Nat, k \in Nat : j = i - 1 /\ k = i + 1
      BY <1>1
    <3>2. /\ IsFiniteSet(1 .. j) /\ Cardinality(1 .. j) = IF 1 > j THEN 0 ELSE j - 1 + 1
          /\ IsFiniteSet(k .. Len(s)) /\ Cardinality(k .. Len(s)) = IF k > Len(s) THEN 0 ELSE Len(s) - k + 1
      <4>1. 1 \in Int /\ j \in Int /\ k \in Int /\ Len(s) \in Int
        BY <1>1
      <4>2. QED BY <4>1, FS_Interval
    <3>3. QED BY <1>1, <3>1, <3>2
  <2>3. a <= i - 1 /\ b <= Len(s) - i
    <3>1. Cardinality(lead) <= Cardinality(1 .. i - 1)
      BY <2>1, <2>2, FS_Subset
    <3>2. Cardinality(trail) <= Cardinality(i + 1 .. Len(s))
      BY <2>1, <2>2, FS_Subset
    <3>3. QED BY <2>2, <3>1, <3>2
  <2> HIDE DEF a, b
  <2>4. QED BY <1>1, <1>4, <2>3
<1> HIDE DEF a, b
<1>6. p = <<start + a + 1, start + Len(s) - b>>
  BY <1>2 DEF Compress!Stripped
<1>7. QED BY <1>1, <1>4, <1>5, <1>6 DEF Compress!Span

LEMMA CutStep == ASSUME CompressInv, Compress!Cut PROVE CompressInv'
<1> DEFINE s == Compress!Kept
           p == Compress!Stripped(s)
<1> USE CompressAssumption
<1>0. /\ outcome = "cutting" /\ start < Len(text)
      /\ UNCHANGED <<text, chunker, told, tries, outcome, payload, cachedResult, hits>>
  BY DEF Compress!Cut
<1>1. text \in Seq(Units) /\ start \in Nat /\ Len(text) \in Nat /\ Len(text) <= MaxText
  BY DEF CompressInv, Compress!TypeOK, Units
<1>2. /\ chunks' \in Seq(Nat \X Nat) /\ start' \in Nat /\ start' <= Len(text)
      /\ ReadSoFar'
  <2>1. CASE Len(text) <= ChunkSize
    <3>1. chunks' = <<<<1, Len(text)>>>> /\ start' = Len(text)
      BY <2>1 DEF Compress!Cut
    <3>2. QED BY <1>0, <1>1, <3>1 DEF ReadSoFar, Covered
  <2>2. CASE ~(Len(text) <= ChunkSize)
    <3>1. /\ s \in Seq(Units) /\ Len(s) \in Nat \ {0} /\ start + Len(s) <= Len(text)
          /\ \A n \in 1 .. Len(s) : s[n] = text[start + n]
      BY <1>0, KeptIsPart
    <3>2. PICK drift \in Compress!Drifts : start' = start + Compress!Advance(Compress!Consumed(drift))
      BY <2>2 DEF Compress!Cut
    <3>3. chunks' = IF Compress!Span(p) = 0 THEN chunks ELSE Append(chunks, p)
      BY <2>2 DEF Compress!Cut
    <3> HIDE DEF s
    <3>4. /\ p \in Nat \X Nat /\ Compress!Span(p) \in 0 .. Len(s)
          /\ \A i \in 1 .. Len(s) : s[i] # "blank" =>
                 p[1] <= start + i /\ start + i <= p[2] /\ Compress!Span(p) # 0
      BY <1>1, <3>1, StrippedAround
    <3>5. start' \in Nat /\ start' <= start + Len(s)
      <4>1. drift \in Int /\ drift <= Overlap
        BY DEF Compress!Drifts
      <4>2. Compress!Consumed(drift) \in Int /\ Compress!Consumed(drift) <= Len(s) + Overlap
        BY <3>1, <3>4, <4>1 DEF Compress!Consumed, s
      <4> HIDE DEF p
      <4>3. QED BY <1>1, <3>1, <3>2, <4>2 DEF Compress!Advance
    <3> HIDE DEF p
    <3>6. /\ chunks' \in Seq(Nat \X Nat)
          /\ \A c \in DOMAIN chunks : c \in DOMAIN chunks' /\ chunks'[c] = chunks[c]
          /\ Compress!Span(p) # 0 => \E c \in DOMAIN chunks' : chunks'[c] = p
      <4>1. chunks \in Seq(Nat \X Nat)
        BY DEF CompressInv
      <4>2. CASE Compress!Span(p) = 0
        BY <3>3, <4>1, <4>2
      <4>3. CASE Compress!Span(p) # 0
        <5>1. /\ chunks' = Append(chunks, p) /\ Len(chunks) \in Nat
              /\ DOMAIN chunks' = 1 .. Len(chunks) + 1 /\ DOMAIN chunks = 1 .. Len(chunks)
          BY <3>3, <3>4, <4>1, <4>3
        <5>2. chunks'[Len(chunks) + 1] = p /\ Len(chunks) + 1 \in DOMAIN chunks'
          BY <4>1, <5>1
        <5>3. QED BY <3>4, <4>1, <5>1, <5>2
      <4>4. QED BY <4>2, <4>3
    <3>7. ASSUME NEW n \in DOMAIN text, text[n] # "blank", n <= start' PROVE Covered(n)'
      <4>1. CASE n <= start
        <5>1. Covered(n)
          BY <1>0, <3>7, <4>1 DEF CompressInv, ReadSoFar
        <5>2. QED BY <3>6, <5>1 DEF Covered
      <4>2. CASE start < n
        <5>1. n - start \in 1 .. Len(s) /\ s[n - start] = text[n]
          BY <1>1, <3>1, <3>5, <3>7, <4>2
        <5>2. p[1] <= n /\ n <= p[2] /\ Compress!Span(p) # 0
          BY <1>1, <3>4, <3>7, <5>1
        <5>3. QED BY <3>6, <5>2 DEF Covered
      <4>3. QED BY <1>1, <4>1, <4>2
    <3>8. ReadSoFar'
      BY <1>0, <3>7 DEF ReadSoFar
    <3>9. QED BY <1>1, <3>1, <3>5, <3>6, <3>8
  <2>3. QED BY <2>1, <2>2
<1>3. Compress!TypeOK'
  BY <1>0, <1>1, <1>2 DEF CompressInv, Compress!TypeOK
<1>4. QED
  BY <1>0, <1>2, <1>3 DEF CompressInv, Told, Compress!FailureIsTold

-----------------------------------------------------------------------------
Labels == DOMAIN LabelKey

(* The edges of an answer join nodes it lists.                             *)
LEMMA BuiltJoins ==
    ASSUME NEW b \in Answers
    PROVE  /\ b.labels \in Seq(Labels) /\ Len(b.labels) <= MaxText
           /\ \A e \in b.ends : e[1] \in DOMAIN b.labels /\ e[2] \in DOMAIN b.labels
<1>1. PICK a \in Extractions : b = Compress!Built(a)
  BY DEF Answers
<1>2. a.labels \in Seq(Labels) /\ Len(a.labels) <= MaxText
  BY CompressAssumption DEF Labels
<1> DEFINE ls == a.labels
           is(l, n) == ls[n] = l /\ \A m \in n + 1 .. Len(ls) : ls[m] # l
           last(l) == CHOOSE n \in 1 .. Len(ls) : is(l, n)
           kept == {c \in a.arcs : c[1] \in Compress!ToSet(ls) /\ c[2] \in Compress!ToSet(ls)}
<1>3. b.labels = ls /\ b.ends = {<<last(c[1]), last(c[2])>> : c \in kept}
  BY <1>1 DEF Compress!Built
<1>4. ASSUME NEW l \in Compress!ToSet(ls) PROVE last(l) \in 1 .. Len(ls)
  <2> DEFINE at == {n \in 1 .. Len(ls) : ls[n] = l}
  <2>1. at # {} /\ at \in SUBSET (1 .. Len(ls)) /\ Len(ls) \in Nat
    BY <1>2, <1>4 DEF Compress!ToSet
  <2>2. PICK n \in at : \A m \in at : m <= n
    <3> HIDE DEF at
    <3>1. QED BY <2>1, GreatestExists
  <2>3. n \in 1 .. Len(ls) /\ is(l, n)
    BY <2>1, <2>2
  <2> HIDE DEF is
  <2>4. QED BY <2>3
<1> HIDE DEF last
<1>5. \A e \in b.ends : e[1] \in 1 .. Len(ls) /\ e[2] \in 1 .. Len(ls)
  BY <1>3, <1>4
<1>6. QED BY <1>2, <1>3, <1>5

(* All chunks have been asked.                                             *)
AllTold ==
    /\ chunks \in Seq(Nat \X Nat)
    /\ told \in [DOMAIN chunks -> Answers \cup {FailedChunk}]

LEMMA GoodAnswers ==
    ASSUME AllTold
    PROVE  /\ Compress!Good \subseteq 1 .. Len(chunks) /\ Len(chunks) \in Nat
           /\ \A c \in Compress!Good : told[c] \in Answers
BY DEF AllTold, Compress!Good

LEMMA FoundNodes ==
    ASSUME AllTold
    PROVE  /\ Compress!Found \subseteq (1 .. Len(chunks)) \X (1 .. MaxText) /\ IsFiniteSet(Compress!Found)
           /\ \A c \in Compress!Good : \A e \in Compress!Arcs(c) :
                  e[1] \in Compress!Found /\ e[2] \in Compress!Found
<1>1. Compress!Found \in SUBSET ((1 .. Len(chunks)) \X (1 .. MaxText))
  BY GoodAnswers DEF Compress!Found
<1>2. IsFiniteSet((1 .. Len(chunks)) \X (1 .. MaxText))
  <2>1. IsFiniteSet(1 .. Len(chunks)) /\ IsFiniteSet(1 .. MaxText)
    BY GoodAnswers, CompressAssumption, FS_Interval
  <2>2. QED BY <2>1, FS_Product
<1>3. ASSUME NEW c \in Compress!Good, NEW e \in Compress!Arcs(c)
      PROVE  e[1] \in Compress!Found /\ e[2] \in Compress!Found
  <2>1. PICK d \in told[c].ends : e = <<<<c, d[1]>>, <<c, d[2]>>>>
    BY <1>3 DEF Compress!Arcs
  <2>2. /\ d[1] \in DOMAIN told[c].labels /\ d[2] \in DOMAIN told[c].labels
        /\ told[c].labels \in Seq(Labels) /\ Len(told[c].labels) <= MaxText
    BY <2>1, GoodAnswers, BuiltJoins
  <2>3. d[1] \in 1 .. MaxText /\ d[2] \in 1 .. MaxText
    BY <2>2, CompressAssumption
  <2>4. QED BY <2>1, <2>2, <2>3 DEF Compress!Found
<1>4. QED BY <1>1, <1>2, <1>3, FS_Subset

-----------------------------------------------------------------------------
(* Places are ordered by chunk, and in a chunk by position.                *)
LEMMA PlacesInOrder ==
    ASSUME AllTold
    PROVE  \A x, y, z \in Compress!Found :
               /\ ~Compress!Before(x, x)
               /\ Compress!Before(x, y) /\ Compress!Before(y, z) => Compress!Before(x, z)
               /\ x # y => Compress!Before(x, y) \/ Compress!Before(y, x)
<1>1. ASSUME NEW x \in Nat \X Nat, NEW y \in Nat \X Nat, NEW z \in Nat \X Nat
      PROVE  /\ ~Compress!Before(x, x)
             /\ Compress!Before(x, y) /\ Compress!Before(y, z) => Compress!Before(x, z)
             /\ x # y => Compress!Before(x, y) \/ Compress!Before(y, x)
  BY DEF Compress!Before
<1>2. Compress!Found \subseteq Nat \X Nat
  BY FoundNodes
<1>3. QED BY <1>1, <1>2

LEMMA FirstPlace ==
    ASSUME AllTold, NEW T \in SUBSET Compress!Found, T # {}
    PROVE  /\ \E x \in T : \A y \in T : ~Compress!Before(y, x)
           /\ \E x \in T : \A y \in T : ~Compress!Before(x, y)
<1> DEFINE R == {e \in T \X T : Compress!Before(e[1], e[2])}
           Q == {e \in T \X T : Compress!Before(e[2], e[1])}
<1>1. IsFiniteSet(T)
  BY FoundNodes, FS_Subset
<1>2. /\ \A x \in T : <<x, x>> \notin R
      /\ \A x, y, z \in T : <<x, y>> \in R /\ <<y, z>> \in R => <<x, z>> \in R
  BY PlacesInOrder
<1>3. /\ \A x \in T : <<x, x>> \notin Q
      /\ \A x, y, z \in T : <<x, y>> \in Q /\ <<y, z>> \in Q => <<x, z>> \in Q
  BY PlacesInOrder
<1>4. /\ \A x, y \in T : <<y, x>> \in R <=> Compress!Before(y, x)
      /\ \A x, y \in T : <<y, x>> \in Q <=> Compress!Before(x, y)
  OBVIOUS
<1> HIDE DEF R, Q
<1>5. \E x \in T : \A y \in T : <<y, x>> \notin R
  BY <1>1, <1>2, FirstExists
<1>6. \E x \in T : \A y \in T : <<y, x>> \notin Q
  BY <1>1, <1>3, FirstExists
<1>7. QED BY <1>4, <1>5, <1>6

(* The node that is kept for a label, whatever its case.                   *)
LEMMA CanonicalIs ==
    ASSUME AllTold, NEW x \in Compress!Found, NEW k, k = Compress!Canonical(x)
    PROVE  k \in Compress!Found /\ Compress!KeyOf(k) = Compress!KeyOf(x) /\ Compress!IsFirst(k)
<1> DEFINE T == {y \in Compress!Found : Compress!KeyOf(y) = Compress!KeyOf(x)}
<1>1. PICK y \in T : \A z \in T : ~Compress!Before(z, y)
  BY FirstPlace
<1>2. y \in Compress!Found /\ Compress!KeyOf(y) = Compress!KeyOf(x) /\ Compress!IsFirst(y)
  BY <1>1 DEF Compress!IsFirst
<1> HIDE DEF T
<1>3. QED BY <1>2 DEF Compress!Canonical

LEMMA MergedKept == ASSUME AllTold, NEW g, g = Compress!Merged PROVE GraphKept(g)
<1> DEFINE arcs == UNION {Compress!Arcs(c) : c \in Compress!Good}
<1>1. /\ DOMAIN g = {"nodes", "edges"}
      /\ g.nodes = {x \in Compress!Found : Compress!IsFirst(x)}
      /\ g.edges = {<<Compress!Canonical(e[1]), Compress!Canonical(e[2])>> : e \in arcs}
                   \ {<<x, x>> : x \in Compress!Found}
  BY DEF Compress!Merged
<1>2. \A e \in arcs : e[1] \in Compress!Found /\ e[2] \in Compress!Found
  BY FoundNodes
<1>3. ASSUME NEW d \in g.edges PROVE {d[1], d[2]} \subseteq g.nodes
  BY <1>1, <1>2, <1>3, CanonicalIs
<1>4. ASSUME NEW c \in Compress!Good, NEW e \in Compress!Arcs(c), Compress!KeyOf(e[1]) # Compress!KeyOf(e[2])
      PROVE  \E d \in g.edges : /\ Compress!KeyOf(d[1]) = Compress!KeyOf(e[1])
                               /\ Compress!KeyOf(d[2]) = Compress!KeyOf(e[2])
  <2>1. PICK k, l : k = Compress!Canonical(e[1]) /\ l = Compress!Canonical(e[2])
    OBVIOUS
  <2>2. e \in arcs /\ e[1] \in Compress!Found /\ e[2] \in Compress!Found
    BY <1>2
  <2>3. Compress!KeyOf(k) = Compress!KeyOf(e[1]) /\ Compress!KeyOf(l) = Compress!KeyOf(e[2])
    BY <2>1, <2>2, CanonicalIs
  <2>4. <<k, l>> \notin {<<x, x>> : x \in Compress!Found}
    BY <1>4, <2>3
  <2>5. <<k, l>> \in g.edges
    BY <1>1, <2>1, <2>2, <2>4
  <2>6. QED BY <2>3, <2>5
<1>5. ASSUME NEW x \in g.nodes, NEW y \in g.nodes, Compress!KeyOf(x) = Compress!KeyOf(y) PROVE x = y
  BY <1>1, <1>5, PlacesInOrder DEF Compress!IsFirst
<1>6. QED BY <1>1, <1>3, <1>4, <1>5 DEF GraphKept

(* One chunk's answer, taken as it comes.                                  *)
LEMMA SingleKept ==
    ASSUME AllTold, Len(chunks) = 1, Compress!Good # {}, NEW g, g = Compress!Single
    PROVE  GraphKept(g)
<1>1. Compress!Good = {1}
  BY GoodAnswers
<1>2. DOMAIN g = {"nodes", "edges"} /\ g.nodes = Compress!Found /\ g.edges = Compress!Arcs(1)
  BY DEF Compress!Single
<1>3. ~(Len(chunks) > 1)
  OBVIOUS
<1>4. QED BY <1>1, <1>2, <1>3, FoundNodes DEF GraphKept

(* A cached answer names its edges by label: each end is one of the nodes  *)
(* with that label.                                                        *)
LEMMA RestoredKept ==
    ASSUME AllTold, GraphKept(cachedResult),
           NEW g, g = Compress!Restored
    PROVE  GraphKept(g)
<1> DEFINE ns == cachedResult.nodes
           is(x, y) == /\ Compress!LabelOf(y) = Compress!LabelOf(x)
                       /\ ~\E z \in ns : Compress!LabelOf(z) = Compress!LabelOf(y) /\ Compress!Before(y, z)
           last(x) == CHOOSE y \in ns : is(x, y)
<1>1. g = [cachedResult EXCEPT !.edges = {<<last(e[1]), last(e[2])>> : e \in @}]
  BY DEF Compress!Restored
<1>2. ns \subseteq Compress!Found /\ DOMAIN cachedResult = {"nodes", "edges"}
  BY DEF GraphKept
<1>3. ASSUME NEW x \in ns PROVE last(x) \in ns /\ Compress!LabelOf(last(x)) = Compress!LabelOf(x)
  <2> DEFINE T == {y \in ns : Compress!LabelOf(y) = Compress!LabelOf(x)}
  <2>1. T # {} /\ T \in SUBSET Compress!Found
    BY <1>2
  <2>2. PICK y \in T : \A z \in T : ~Compress!Before(y, z)
    <3> HIDE DEF T
    <3>1. QED BY <2>1, FirstPlace
  <2>3. y \in ns /\ is(x, y)
    BY <2>2
  <2>4. last(x) \in ns /\ is(x, last(x))
    <3> HIDE DEF is
    <3>1. QED BY <2>3
  <2>5. QED BY <2>4
<1> HIDE DEF last
<1>4. /\ DOMAIN g = {"nodes", "edges"}
      /\ g.nodes = ns /\ g.edges = {<<last(e[1]), last(e[2])>> : e \in cachedResult.edges}
  BY <1>1, <1>2
<1>5. \A e \in cachedResult.edges : e[1] \in ns /\ e[2] \in ns
  BY DEF GraphKept
<1>6. \A d \in g.edges : {d[1], d[2]} \subseteq g.nodes
  BY <1>3, <1>4, <1>5
<1>7. ASSUME NEW c \in Compress!Good, NEW e \in Compress!Arcs(c), Compress!KeyOf(e[1]) # Compress!KeyOf(e[2])
      PROVE  \E d \in g.edges : /\ Compress!KeyOf(d[1]) = Compress!KeyOf(e[1])
                               /\ Compress!KeyOf(d[2]) = Compress!KeyOf(e[2])
  <2>1. PICK d \in cachedResult.edges : /\ Compress!KeyOf(d[1]) = Compress!KeyOf(e[1])
                                        /\ Compress!KeyOf(d[2]) = Compress!KeyOf(e[2])
    BY <1>7 DEF GraphKept
  <2>2. <<last(d[1]), last(d[2])>> \in g.edges
    BY <1>4
  <2>3. /\ Compress!KeyOf(last(d[1])) = Compress!KeyOf(d[1])
        /\ Compress!KeyOf(last(d[2])) = Compress!KeyOf(d[2])
    BY <1>3, <1>5 DEF Compress!KeyOf
  <2>4. QED BY <2>1, <2>2, <2>3
<1>8. Len(chunks) > 1 => \A x, y \in g.nodes : Compress!KeyOf(x) = Compress!KeyOf(y) => x = y
  BY <1>4 DEF GraphKept
<1>9. QED BY <1>2, <1>4, <1>6, <1>7, <1>8 DEF GraphKept

-----------------------------------------------------------------------------
LEMMA GraphStays ==
    ASSUME UNCHANGED <<told, chunks>>, NEW g, GraphKept(g)
    PROVE  /\ payload' = g => GraphKept(payload)'
           /\ cachedResult' = g => GraphKept(cachedResult)'
<1>1. Compress!Good' = Compress!Good /\ Compress!Found' = Compress!Found
  BY DEF Compress!Good, Compress!Found
<1>2. /\ \A c \in Compress!Good : Compress!Arcs(c)' = Compress!Arcs(c)
      /\ \A x : Compress!KeyOf(x)' = Compress!KeyOf(x)
  BY DEF Compress!Arcs, Compress!KeyOf, Compress!LabelOf
<1>3. QED BY <1>1, <1>2 DEF GraphKept

LEMMA FinishStep == ASSUME CompressInv, Compress!Finish PROVE CompressInv'
<1>1. /\ AllTold /\ \A c \in DOMAIN chunks : told[c] # NoExtract
      /\ UNCHANGED <<text, chunker, start, chunks, told, tries, hits>> /\ outcome = "asking"
  BY DEF CompressInv, Told, AllTold, Compress!Finish
<1>2. cachedResult = NoExtract \/ hits # 0
  BY <1>1 DEF CompressInv
<1>3. ReadSoFar' /\ Told'
  BY <1>1 DEF CompressInv, ReadSoFar, Covered, Told, AllTold
<1>4. Compress!TypeOK' /\ tries' \in Nat /\ chunks' \in Seq(Nat \X Nat) /\ start' <= Len(text')
  BY <1>1 DEF CompressInv, Compress!TypeOK, Compress!Finish
<1>5. CASE Compress!Raises(DOMAIN chunks \ Compress!Good)
  <2>1. outcome' = "failed" /\ UNCHANGED <<payload, cachedResult>>
    BY <1>5 DEF Compress!Finish
  <2>2. QED BY <1>1, <1>2, <1>3, <1>4, <2>1 DEF CompressInv, Compress!FailureIsTold
<1>6. CASE ~Compress!Raises(DOMAIN chunks \ Compress!Good)
  <2>1. Compress!Good # {}
    BY <1>6 DEF Compress!Raises
  <2>2. /\ payload' = IF Len(chunks) = 1 THEN Compress!Single ELSE Compress!Merged
        /\ outcome' = "answered" /\ (UNCHANGED cachedResult \/ cachedResult' = payload')
    BY <1>6 DEF Compress!Finish
  <2>3. PICK g : g = IF Len(chunks) = 1 THEN Compress!Single ELSE Compress!Merged
    OBVIOUS
  <2>4. GraphKept(g)
    BY <1>1, <2>1, <2>3, MergedKept, SingleKept
  <2>5. GraphKept(payload)' /\ (cachedResult' = payload' => GraphKept(cachedResult)')
    BY <1>1, <2>2, <2>3, <2>4, GraphStays
  <2>6. Compress!FailureIsTold'
    BY <1>1, <2>1 DEF Compress!FailureIsTold, Compress!Good
  <2>7. QED BY <1>1, <1>2, <1>3, <1>4, <2>2, <2>5, <2>6 DEF CompressInv
<1>7. QED BY <1>5, <1>6

LEMMA HitStep == ASSUME CompressInv, Compress!Hit PROVE CompressInv'
<1>1. /\ UNCHANGED <<text, chunker, start, chunks, told, tries, outcome, cachedResult>>
      /\ outcome = "answered" /\ hits = 0 /\ cachedResult # NoExtract /\ hits' = 1
      /\ payload' = Compress!Restored
  BY DEF Compress!Hit
<1>2. AllTold /\ GraphKept(cachedResult)
  BY <1>1 DEF CompressInv, Told, AllTold
<1>3. PICK g : g = Compress!Restored
  OBVIOUS
<1>4. GraphKept(payload)'
  BY <1>1, <1>2, <1>3, RestoredKept, GraphStays
<1>5. Compress!TypeOK' /\ ReadSoFar' /\ Told' /\ Compress!FailureIsTold'
  BY <1>1 DEF CompressInv, Compress!TypeOK, ReadSoFar, Covered, Told, Compress!FailureIsTold, Compress!Good
<1>6. QED BY <1>1, <1>4, <1>5 DEF CompressInv

LEMMA AskStep ==
    ASSUME CompressInv, NEW c \in DOMAIN chunks, Compress!AttemptFails(c) \/ Compress!Answer(c)
    PROVE  CompressInv'
<1>1. /\ outcome = "asking" /\ UNCHANGED <<text, chunker, start, chunks, outcome, payload, cachedResult, hits>>
      /\ told \in [DOMAIN chunks -> Answers \cup {NoExtract, FailedChunk}]
  BY DEF CompressInv, Told, Compress!AttemptFails, Compress!Answer, Compress!Asked
<1>2. tries' \in Nat /\ tries' < ChunkAttempts
  BY CompressAssumption DEF CompressInv, Compress!TypeOK, Compress!AttemptFails, Compress!Answer
<1>3. told' \in [DOMAIN chunks -> Answers \cup {NoExtract, FailedChunk}]
  <2>1. PICK a \in Answers \cup {FailedChunk} : told' = told \/ told' = [told EXCEPT ![c] = a]
    BY DEF Compress!AttemptFails, Compress!Answer, Answers
  <2>2. QED BY <1>1, <2>1
<1>4. Compress!TypeOK'
  BY <1>1, <1>2 DEF CompressInv, Compress!TypeOK
<1>5. ReadSoFar' /\ Told' /\ Compress!FailureIsTold'
  BY <1>1, <1>3 DEF CompressInv, ReadSoFar, Covered, Told, Compress!FailureIsTold
<1>6. cachedResult = NoExtract \/ hits # 0
  BY <1>1 DEF CompressInv
<1>7. QED BY <1>1, <1>2, <1>4, <1>5, <1>6 DEF CompressInv

LEMMA CompressInvStep ==
    ASSUME CompressInv, Compress!Next \/ UNCHANGED CompressVars
    PROVE  CompressInv'
<1>1. CASE Compress!CutDone
  <2>1. /\ UNCHANGED <<text, chunker, start, chunks, payload, cachedResult, hits>>
        /\ outcome = "cutting" /\ outcome' = "asking" /\ start >= Len(text) /\ tries' = 0
        /\ told' = [c \in DOMAIN chunks |-> NoExtract]
    BY <1>1 DEF Compress!CutDone
  <2>2. Compress!TypeOK'
    BY <2>1, CompressAssumption DEF CompressInv, Compress!TypeOK
  <2>3. ReadSoFar'
    <3>1. text \in Seq(Units) /\ start \in Nat
      BY CompressAssumption DEF CompressInv, Compress!TypeOK, Units
    <3>2. \A n \in DOMAIN text : n <= start
      BY <2>1, <3>1
    <3>3. QED BY <2>1, <3>2 DEF CompressInv, ReadSoFar, Covered
  <2>4. Told' /\ Compress!FailureIsTold'
    BY <2>1 DEF Told, Compress!FailureIsTold
  <2>5. QED BY <2>1, <2>2, <2>3, <2>4 DEF CompressInv
<1>2. CASE Compress!Miss
  <2>1. /\ UNCHANGED <<text, chunker, told, tries, payload, cachedResult>>
        /\ outcome' = "cutting" /\ start' = 0 /\ chunks' = <<>> /\ hits' = 1
    BY <1>2 DEF Compress!Miss
  <2>2. text \in Seq(Units)
    BY CompressAssumption DEF CompressInv, Compress!TypeOK, Units
  <2>3. Compress!TypeOK' /\ start' <= Len(text')
    BY <2>1, <2>2, CompressAssumption DEF CompressInv, Compress!TypeOK
  <2>4. ReadSoFar'
    BY <2>1, <2>2 DEF ReadSoFar
  <2>5. QED BY <2>1, <2>3, <2>4 DEF CompressInv, Told, Compress!FailureIsTold
<1>3. CASE UNCHANGED CompressVars
  <2>1. UNCHANGED <<text, chunker, start, chunks, told, tries, outcome, payload, cachedResult, hits>>
    BY <1>3 DEF CompressVars
  <2>2. Compress!TypeOK' /\ ReadSoFar' /\ Told' /\ Compress!FailureIsTold'
    BY <2>1 DEF CompressInv, Compress!TypeOK, ReadSoFar, Covered, Told, Compress!FailureIsTold, Compress!Good
  <2>3. PICK g, s : g = payload /\ s = cachedResult
    OBVIOUS
  <2>4. outcome = "answered" => GraphKept(payload)'
    BY <2>1, <2>3, GraphStays DEF CompressInv
  <2>5. hits = 0 /\ cachedResult # NoExtract => GraphKept(cachedResult)'
    BY <2>1, <2>3, GraphStays DEF CompressInv
  <2>6. QED BY <2>1, <2>2, <2>4, <2>5 DEF CompressInv
<1>4. QED BY <1>1, <1>2, <1>3, CutStep, FinishStep, HitStep, AskStep DEF Compress!Next

LEMMA CompressKept == KnowledgeSpec => [](focus = "compressor" => CompressInv)
<1>1. KnowledgeInit => (focus = "compressor" => CompressInv)
  BY CompressBegins, CompressInvInit
<1>2. (focus = "compressor" => CompressInv) /\ [KnowledgeNext]_knowledgeVars => (focus = "compressor" => CompressInv)'
  BY CompressMoves, CompressInvStep
<1>3. QED BY <1>1, <1>2, PTL DEF KnowledgeSpec

-----------------------------------------------------------------------------
(* Every part of a text is in some chunk; an extraction is answered only if*)
(* the model answered a chunk, and has the relations of every chunk it did *)
(* answer, those of a failed one excepted; requests that do not overlap    *)
(* write one node for one name, and different facts stay different nodes:  *)
(* for any texts, chunk sizes, names and answers of the model.             *)
THEOREM ExtractionKept == KnowledgeSpec => []ExtractionIsKept
<1>1. CompressInv => Compress!EveryPartIsRead /\ Compress!FailureIsTold /\ Compress!RelationsAreKept
  BY DEF CompressInv, ReadSoFar, Covered, GraphKept, Compress!EveryPartIsRead, Compress!RelationsAreKept
<1>2. EntitiesInv => Entities!OneNodePerName /\ Entities!FactsStayApart
  BY FactsApart DEF EntitiesInv
<1>3. (focus = "compressor" => CompressInv) /\ (focus = "entities" => EntitiesInv) => ExtractionIsKept
  BY <1>1, <1>2 DEF ExtractionIsKept
<1>4. QED BY <1>3, CompressKept, EntitiesKept, PTL

(* Every variable of the eight components keeps its type.                  *)
THEOREM KnowledgeTypes == KnowledgeSpec => []KnowledgeTypeOK
<1> DEFINE kept == /\ focus = "synapses" => WeightsInv
                   /\ focus = "query" => QueryInv
                   /\ focus = "context" => ContextInv
                   /\ focus = "scope" => ScopeInv
                   /\ focus = "swarm" => SwarmInv
                   /\ focus = "compressor" => CompressInv
                   /\ focus = "entities" => EntitiesInv
                   /\ focus = "lifespan" => LifeInv
<1>1. kept => KnowledgeTypeOK
  BY DEF KnowledgeTypeOK, WeightsInv, QueryInv, ContextInv, ScopeInv, SwarmInv, CompressInv, EntitiesInv, LifeInv
<1>2. QED BY <1>1, WeightsKept, QueryKept, ContextKept, ScopeKept, SwarmKept, CompressKept, EntitiesKept, LifeKept, PTL

-----------------------------------------------------------------------------
(* A stored alias stays, unless requests ran side by side; and no start of *)
(* the process puts back a weight that feedback has set: whatever requests *)
(* come, whatever names are alike, and however often the process starts.   *)
THEOREM NothingUnlearned == KnowledgeSpec => NothingIsUnlearned
<1>1. ASSUME focus = "entities" => EntitiesInv, focus = "lifespan" => LifeInv, [KnowledgeNext]_knowledgeVars
      PROVE  [/\ focus = "entities" => Entities!AliasesKept
              /\ focus = "lifespan" => Life!LearnedKept]_knowledgeVars
  <2>1. ASSUME focus = "entities" PROVE Entities!AliasesKept \/ UNCHANGED knowledgeVars
    BY <1>1, <2>1, EntitiesMove, AliasesKeptStep DEF KnowledgeNext, KnowledgeStays, knowledgeVars
  <2>2. ASSUME focus = "lifespan" PROVE Life!LearnedKept \/ UNCHANGED knowledgeVars
    BY <1>1, <2>2, LifeMoves, LearnedKeptStep DEF KnowledgeNext, KnowledgeStays, knowledgeVars
  <2>3. QED BY <2>1, <2>2
<1>2. QED BY <1>1, EntitiesKept, LifeKept, PTL DEF KnowledgeSpec, NothingIsUnlearned
=============================================================================
