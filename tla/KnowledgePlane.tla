--------------------------- MODULE KnowledgePlane ---------------------------
(***************************************************************************)
(* The components that make, keep and answer from the knowledge in the     *)
(* graph: edge weights, the query pipeline and its rankings, retrieval for *)
(* a swarm and the merging of its answers, extraction, entity resolution,  *)
(* and the life of the process that offers search.                         *)
(***************************************************************************)
EXTENDS Planes, Naturals, FiniteSets, Sequences

CONSTANTS
    Neurons, Synapses, Vocabulary, FirstWeights, MaxSteps,
    Facts, Links, WeakLinks, Restricted, Asks, MaxIter, TTL, MaxHour, MaxQueryFaults,
    Ids, Size, Select, NoWeight, NoText, Unverified,
    Notes, PartnerNotes, ClosedNotes, Matching, Bonds, ContextLimit,
    Targets, Kinds, Rels, Grants, MaxNow,
    Brains, Insights, Secret, TopK, Thin, TextLimit, ContextCap, PromptCap,
    ChunkSize, Overlap, MaxDrift, ChunkAttempts, Documents, MaxText, Extractions,
    LabelKey, NoExtract, FailedChunk,
    Ingests, Names, NameKey, Alike, NearPairs, Says, FactNames, NoMatch, MaxVectorFaults,
    Lengths, OldEdges, MaxBoots, MaxBootFaults

VARIABLES
    weight, label, proposed, cycle, pairs, allowed, rested, usedSince, steps,
    facts, cache, ask, clearance, hour, queryFaults,
    rankTask, given, pick, over,
    anchored, bridge, notes, faded, outdated, stale, retrieval, readAlong, bridged,
    grant, now, lists, inHand, result, errors, merged, allowedBy,
    known, query, brainAnswer, events,
    text, chunker, start, chunks, told, tries, outcome, payload, cachedResult, hits,
    written, aliases, pc, caller, vector, snapshot, match, apart, vectorFaults,
    lifeStep, clients, tasks, configured, vectorIndex, searchable, lengths, edgeWeight,
    warned, excused, boots, bootFaults

Weights == INSTANCE SynapseWeights
Query == INSTANCE QueryPipeline
Rank == INSTANCE Ranking WITH task <- rankTask
Context == INSTANCE SwarmContext
Scope == INSTANCE SwarmScope
Swarm == INSTANCE SwarmAnswer WITH answerOf <- brainAnswer
Compress == INSTANCE Compressor WITH stored <- cachedResult
Entities == INSTANCE EntityResolution WITH Facts <- FactNames
Life == INSTANCE Lifespan WITH index <- vectorIndex, weight <- edgeWeight, reported <- warned, at <- lifeStep


WeightsOff ==
    /\ weight = Off /\ label = Off /\ proposed = Off /\ cycle = Off /\ pairs = Off
    /\ allowed = Off /\ rested = Off /\ usedSince = Off /\ steps = Off
QueryOff ==
    /\ facts = Off /\ cache = Off /\ ask = Off /\ clearance = Off
    /\ hour = Off /\ queryFaults = Off
RankOff ==
    /\ rankTask = Off /\ given = Off /\ pick = Off /\ over = Off
ContextOff ==
    /\ anchored = Off /\ bridge = Off /\ notes = Off /\ faded = Off /\ outdated = Off
    /\ stale = Off /\ retrieval = Off /\ readAlong = Off /\ bridged = Off
ScopeOff ==
    /\ grant = Off /\ now = Off /\ lists = Off /\ inHand = Off /\ result = Off
    /\ errors = Off /\ merged = Off /\ allowedBy = Off
SwarmOff ==
    /\ known = Off /\ query = Off /\ brainAnswer = Off /\ events = Off
CompressOff ==
    /\ text = Off /\ chunker = Off /\ start = Off /\ chunks = Off /\ told = Off
    /\ tries = Off /\ outcome = Off /\ payload = Off /\ cachedResult = Off
    /\ hits = Off
EntitiesOff ==
    /\ written = Off /\ aliases = Off /\ pc = Off /\ caller = Off /\ vector = Off
    /\ snapshot = Off /\ match = Off /\ apart = Off /\ vectorFaults = Off
LifeOff ==
    /\ lifeStep = Off /\ clients = Off /\ tasks = Off /\ configured = Off
    /\ vectorIndex = Off /\ searchable = Off /\ lengths = Off /\ edgeWeight = Off
    /\ warned = Off /\ excused = Off /\ boots = Off /\ bootFaults = Off
WeightsVars == <<weight, label, proposed, cycle, pairs, allowed, rested, usedSince,
                  steps>>
QueryVars == <<facts, cache, ask, clearance, hour, queryFaults>>
RankVars == <<rankTask, given, pick, over>>
ContextVars == <<anchored, bridge, notes, faded, outdated, stale, retrieval, readAlong,
                  bridged>>
ScopeVars == <<grant, now, lists, inHand, result, errors, merged, allowedBy>>
SwarmVars == <<known, query, brainAnswer, events>>
CompressVars == <<text, chunker, start, chunks, told, tries, outcome, payload,
                   cachedResult, hits>>
EntitiesVars == <<written, aliases, pc, caller, vector, snapshot, match, apart,
                   vectorFaults>>
LifeVars == <<lifeStep, clients, tasks, configured, vectorIndex, searchable, lengths,
               edgeWeight, warned, excused, boots, bootFaults>>
knowledgeVars == <<focus, WeightsVars, QueryVars, RankVars, ContextVars, ScopeVars, SwarmVars,
         CompressVars, EntitiesVars, LifeVars>>

KnowledgeFocus == {"synapses", "query", "ranking", "context", "scope", "swarm", "compressor",
                   "entities", "lifespan"}

\* The other components of the plane rest.
KnowledgeRests(f) ==
    /\ IF f = "synapses" THEN TRUE ELSE WeightsOff
    /\ IF f = "query" THEN TRUE ELSE QueryOff
    /\ IF f = "ranking" THEN TRUE ELSE RankOff
    /\ IF f = "context" THEN TRUE ELSE ContextOff
    /\ IF f = "scope" THEN TRUE ELSE ScopeOff
    /\ IF f = "swarm" THEN TRUE ELSE SwarmOff
    /\ IF f = "compressor" THEN TRUE ELSE CompressOff
    /\ IF f = "entities" THEN TRUE ELSE EntitiesOff
    /\ IF f = "lifespan" THEN TRUE ELSE LifeOff

KnowledgeStays(f) ==
    /\ focus = f /\ UNCHANGED focus
    /\ IF f = "synapses" THEN TRUE ELSE UNCHANGED WeightsVars
    /\ IF f = "query" THEN TRUE ELSE UNCHANGED QueryVars
    /\ IF f = "ranking" THEN TRUE ELSE UNCHANGED RankVars
    /\ IF f = "context" THEN TRUE ELSE UNCHANGED ContextVars
    /\ IF f = "scope" THEN TRUE ELSE UNCHANGED ScopeVars
    /\ IF f = "swarm" THEN TRUE ELSE UNCHANGED SwarmVars
    /\ IF f = "compressor" THEN TRUE ELSE UNCHANGED CompressVars
    /\ IF f = "entities" THEN TRUE ELSE UNCHANGED EntitiesVars
    /\ IF f = "lifespan" THEN TRUE ELSE UNCHANGED LifeVars

KnowledgeInit ==
    \/ focus = "synapses" /\ KnowledgeRests("synapses") /\ Weights!Init
    \/ focus = "query" /\ KnowledgeRests("query") /\ Query!Init
    \/ focus = "ranking" /\ KnowledgeRests("ranking") /\ Rank!Init
    \/ focus = "context" /\ KnowledgeRests("context") /\ Context!Init
    \/ focus = "scope" /\ KnowledgeRests("scope") /\ Scope!Init
    \/ focus = "swarm" /\ KnowledgeRests("swarm") /\ Swarm!Init
    \/ focus = "compressor" /\ KnowledgeRests("compressor") /\ Compress!Init
    \/ focus = "entities" /\ KnowledgeRests("entities") /\ Entities!Init
    \/ focus = "lifespan" /\ KnowledgeRests("lifespan") /\ Life!Init
    \/ focus \notin KnowledgeFocus /\ KnowledgeRests(focus)

KnowledgeNext ==
    \/ KnowledgeStays("synapses") /\ Weights!Next
    \/ KnowledgeStays("query") /\ Query!Next
    \/ KnowledgeStays("ranking") /\ Rank!Next
    \/ KnowledgeStays("context") /\ Context!Next
    \/ KnowledgeStays("scope") /\ Scope!Next
    \/ KnowledgeStays("swarm") /\ Swarm!Next
    \/ KnowledgeStays("compressor") /\ Compress!Next
    \/ KnowledgeStays("entities") /\ Entities!Next
    \/ KnowledgeStays("lifespan") /\ Life!Next

\* The lengths a start may compare are those of vectors, and 0 is no index.
ASSUME LifeAssumption == 0 \notin Lengths /\ MaxBoots \in Nat /\ MaxBootFaults \in Nat
ASSUME QueryAssumption == MaxIter \in Nat /\ TTL \in Nat /\ MaxHour \in Nat /\ MaxQueryFaults \in Nat
ASSUME ContextAssumption == IsFiniteSet(Notes) /\ ContextLimit \in Nat \ {0}
ASSUME ScopeAssumption == MaxNow \in Nat
\* The cap on the context holds a full scan, and a thin one with its supplement
\* (20, 5, 20 and 25 in swarm.py).
ASSUME SwarmAssumption ==
    /\ IsFiniteSet(Insights) /\ \A n \in Insights : n[1] \in Brains
    /\ {TopK, Thin, TextLimit, ContextCap} \subseteq Nat
    /\ TopK <= ContextCap /\ Thin + TextLimit <= ContextCap
    /\ PromptCap \in Nat \ {0}
\* A window encoded again grows by no more than the chunks overlap, so that the
\* next one starts inside it or at its end.
ASSUME CompressAssumption ==
    /\ ChunkSize \in Nat \ {0} /\ Overlap \in Nat /\ MaxDrift \in 0 .. Overlap
    /\ ChunkAttempts \in Nat \ {0} /\ MaxText \in Nat
    /\ \A t \in Documents : t \in Seq({"w", ".", "blank"}) /\ Len(t) <= MaxText
    /\ \A a \in Extractions : a.labels \in Seq(DOMAIN LabelKey) /\ Len(a.labels) <= MaxText
ASSUME EntitiesAssumption ==
    /\ Says \in [Ingests -> Seq(Names)] /\ MaxVectorFaults \in Nat
    /\ NoMatch \notin Ingests \X (1 .. 3)
\* Edges that retrieval shows at the start.
ASSUME WeightsAssumption == MaxSteps \in Nat /\ FirstWeights \subseteq {0} \cup (300 .. 2000)

KnowledgeSpec == KnowledgeInit /\ [][KnowledgeNext]_knowledgeVars

-----------------------------------------------------------------------------
KnowledgeTypeOK ==
    /\ focus = "synapses" => Weights!TypeOK
    /\ focus = "query" => Query!TypeOK
    /\ focus = "context" => Context!TypeOK
    /\ focus = "scope" => Scope!TypeOK
    /\ focus = "swarm" => Swarm!TypeOK
    /\ focus = "compressor" => Compress!TypeOK
    /\ focus = "entities" => Entities!TypeOK
    /\ focus = "lifespan" => Life!TypeOK

(* Decay lowers every edge, but one that is used between every two decays, *)
(* and that nobody weakens, stays above what retrieval forgets, at 0.3; and*)
(* the cycle names a proposed edge as some extracted edge was named.       *)
WeightsFollowUse ==
    focus = "synapses" => Weights!UsedStaysRemembered /\ Weights!VocabularyIsExtracted

(* An answer rests on a closed subgraph without a fact above the clearance *)
(* the request has read; an answer, cached or not, with a restricted fact  *)
(* was worked out by a request that read the clearance for it, while the   *)
(* agent held it; and a cached one is served within its time to live only, *)
(* but also after the clearance was lowered.                               *)
AnswersAreServable ==
    focus = "query" => Query!AnswerIsClosed /\ Query!HitsAreRecent /\ Query!AnswersWereAllowed

(* The choices of retrieval: a question is split into no more parts than   *)
(* configured, fusion ranks an id both lists prefer before one they do     *)
(* not, the diversity filter, which trades relevance for distance, takes no*)
(* duplicate of a choice while a candidate of any relevance is unrelated to*)
(* all of them, no relation is left out for a weaker one, and the best     *)
(* verified answer of the ensemble is returned.                            *)
ChoicesAreSound ==
    focus = "ranking" => /\ Rank!SplitIsBounded /\ Rank!FusionAgrees /\ Rank!SelectionIsDiverse
                         /\ Rank!StrongestAreShown /\ Rank!BestIsAnswered

(* A retrieval shows only what its agent, bridge and clearance allow, and  *)
(* is not empty when an own fact of an agent that exists could be found; a *)
(* merged answer has only what a connection in force allows; a source of a *)
(* swarm answer was shown to a model, unless the prompt of its agent was   *)
(* full, and one brain's failure leaves the others'.                       *)
AnswersAreScoped ==
    /\ focus = "context" => Context!ContextIsScoped /\ Context!NotEmptyHanded
    /\ focus = "scope" => Scope!MergedIsScoped
    /\ focus = "swarm" => Swarm!SourcesWereShown /\ Swarm!FailureStaysLocal

(* Every part of a text is in some chunk; an extraction is answered only if*)
(* the model answered a chunk, and has the relations of every chunk it did *)
(* answer, also from the cache (those of a chunk that failed are missing,  *)
(* and nobody is told unless all have failed); requests that do not overlap*)
(* write one node for one name, and different facts stay different nodes.  *)
ExtractionIsKept ==
    /\ focus = "compressor" => Compress!EveryPartIsRead /\ Compress!FailureIsTold /\ Compress!RelationsAreKept
    /\ focus = "entities" => Entities!OneNodePerName /\ Entities!FactsStayApart

(* The listener runs only while its clients are open, and hibernation, that*)
(* the shutdown does not end, as long as the graph is, to the last step of *)
(* the shutdown; and search is offered only over an index that fits the    *)
(* vectors, or with a warning.                                             *)
LifespanIsOrdered == focus = "lifespan" => Life!TasksHaveClients /\ Life!SearchIsCovered

(* A stored alias stays, unless requests ran side by side; and no start of *)
(* the process puts back a weight that feedback has set.                   *)
NothingIsUnlearned ==
    [][/\ focus = "entities" => Entities!AliasesKept
       /\ focus = "lifespan" => Life!LearnedKept]_knowledgeVars
=============================================================================
