--------------------------- MODULE QueryPipeline ---------------------------
(***************************************************************************)
(* A question is answered from a cached answer or by a pipeline: seeds from*)
(* the vector and the keyword index, an agentic loop that expands the seeds*)
(* by one hop and asks a verifier whether the evidence suffices, and one   *)
(* answer, which is cached under the agent and the question.  The graph    *)
(* and the agent's clearance change while a question is answered and while *)
(* its answer is cached.  A streamed answer takes one round, and its       *)
(* client may leave.  A step is what runs between two calls of a service.  *)
(*                                                                         *)
(* Source: backend/app/services/query_service.py (_query_nl_impl and       *)
(* stream_query_nl) and backend/app/api/v1/query.py.                       *)
(***************************************************************************)
EXTENDS Naturals, FiniteSets

CONSTANTS
    Facts,            \* nodes of the graph
    Links,            \* edges: pairs of facts
    WeakLinks,        \* links with a synaptic score below the threshold
    Restricted,       \* facts that need the higher clearance
    Asks,             \* requests for the same question of the same agent
    MaxIter,          \* max_qa_iterations
    TTL, MaxHour,     \* life of a cache entry; bound on the time
    MaxQueryFaults    \* bound: failures of the services the pipeline calls

VARIABLES
    facts,            \* facts that exist
    cache,            \* the cached answer, with the time it was stored
    ask,              \* the requests
    clearance,        \* clearance on the agent's record
    hour, queryFaults

vars == <<facts, cache, ask, clearance, hour, queryFaults>>

Points == {"new", "setup", "seeds", "search", "expand", "links", "verify", "requery", "answer", "store",
           "ok", "failed", "cut"}
Ended  == {"ok", "failed", "cut"}
NoAnswer == [nodes |-> {}, links |-> {}]
Answers  == [nodes : SUBSET Facts, links : SUBSET Links]

\* allowed is history: the agent held the higher clearance, and the request read it.
New == [pc |-> "new", stream |-> FALSE, hidden |-> {}, level |-> 1, seeds |-> {},
        found |-> NoAnswer, iter |-> 0, hit |-> FALSE, at |-> 0, allowed |-> FALSE]

TypeOK ==
    /\ facts \subseteq Facts
    /\ cache \in [answer : Answers, at : 0 .. MaxHour, full : BOOLEAN]
    /\ ask \in [Asks -> [pc : Points, stream : BOOLEAN, hidden : {{}, WeakLinks}, level : 1 .. 2,
                         seeds : SUBSET Facts, found : Answers, iter : 0 .. MaxIter,
                         hit : BOOLEAN, at : 0 .. MaxHour, allowed : BOOLEAN]]
    /\ clearance \in 1 .. 2 /\ hour \in 0 .. MaxHour /\ queryFaults \in 0 .. MaxQueryFaults

Init ==
    /\ facts \in SUBSET Facts
    /\ cache = [answer |-> NoAnswer, at |-> 0, full |-> FALSE]
    /\ ask = [r \in Asks |-> New]
    /\ clearance \in 1 .. 2 /\ hour = 0 /\ queryFaults = 0

To(r, c)  == ask' = [ask EXCEPT ![r] = c]
Goto(r, pc) == To(r, [ask[r] EXCEPT !.pc = pc])
End(r, how) == To(r, [New EXCEPT !.pc = how])
World     == UNCHANGED <<facts, clearance, hour>>
NoFault   == UNCHANGED queryFaults
Fault     == queryFaults < MaxQueryFaults /\ queryFaults' = queryFaults + 1

-----------------------------------------------------------------------------
FreshAlways == cache.full
Fresh       == cache.full /\ hour - cache.at <= TTL

\* A cache hit ends the request; a failed lookup counts as a miss.
Begin(r, s) ==
    /\ ask[r].pc = "new"
    /\ \/ /\ Fresh /\ NoFault
          /\ To(r, [New EXCEPT !.pc = "ok", !.hit = TRUE, !.at = hour, !.found = cache.answer])
       \/ /\ IF Fresh THEN Fault ELSE NoFault
          /\ To(r, [ask[r] EXCEPT !.pc = "setup", !.stream = s])
    /\ UNCHANGED cache /\ World

\* A failed lookup takes the lowest clearance.
LevelsReadHigh == {clearance, 2}
LevelsRead     == {clearance, 1}

\* Embeddings, memory mode and clearance together.  The mode is a setting (its
\* default, when the lookup fails); with synaptic memory weak links are hidden.
Setup(r) ==
    /\ ask[r].pc = "setup"
    /\ \E hidden \in {{}, WeakLinks}, level \in LevelsRead :
          To(r, [ask[r] EXCEPT !.pc = "seeds", !.hidden = hidden, !.level = level,
                               !.allowed = (level = 2 /\ clearance = 2)])
    /\ UNCHANGED cache /\ World /\ NoFault

MayGoOn(r) == ask[r].iter < MaxIter

Readable(r, ns) == {n \in ns : n \in Restricted => ask[r].level = 2}

CountedNever(r) == ask[r].iter
Counted(r)      == ask[r].iter + 1

ToAnswer(r) == To(r, [ask[r] EXCEPT !.pc = "answer", !.seeds = {}, !.iter = 0, !.hidden = {}])

\* With the seeds found: the one round of a stream, or iteration cap and time
\* budget of the loop; the budget cannot be over before the first round.
Onward(r, s) ==
    \/ ask[r].stream /\ To(r, [ask[r] EXCEPT !.pc = "expand", !.seeds = s])
    \/ ~ask[r].stream /\ MayGoOn(r) /\ To(r, [ask[r] EXCEPT !.pc = "expand", !.iter = Counted(r),
                                                          !.seeds = Readable(r, s)])
    \/ ~ask[r].stream /\ (~MayGoOn(r) \/ ask[r].iter > 0) /\ ToAnswer(r)

\* The ranked lists are fused; a failed keyword search is an empty list.  The
\* swarm context is retrieved once; it adds no nodes.
Seeds(r) ==
    /\ ask[r].pc = "seeds"
    /\ \/ Goto(r, "search")
       \/ \E s \in SUBSET facts \ {{}} : Onward(r, s)
    /\ UNCHANGED cache /\ World /\ NoFault

\* Text search, when the indexes gave no seed.
Search(r) ==
    /\ ask[r].pc = "search"
    /\ \E s \in SUBSET facts : Onward(r, s)
    /\ UNCHANGED cache /\ World /\ NoFault

Near(ns)   == ns \cup {l[1] : l \in {k \in Links : k[2] \in ns}} \cup {l[2] : l \in {k \in Links : k[1] \in ns}}
Around(ns) == {l \in Links : {l[1], l[2]} \cap ns # {} /\ {l[1], l[2]} \subseteq facts}

\* One hop around the seeds whose expansion does not fail: their nodes are read ...
ReadNodes(r, good) ==
    To(r, [ask[r] EXCEPT !.pc = "links", !.seeds = good,
                         !.found.nodes = @ \cup Readable(r, Near(good) \cap facts)])

Expand(r) ==
    /\ ask[r].pc = "expand" /\ ~ask[r].stream
    /\ \E good \in SUBSET (ask[r].seeds \cap facts) :
          /\ IF good = ask[r].seeds \cap facts THEN NoFault ELSE Fault
          /\ ReadNodes(r, good)
    /\ UNCHANGED cache /\ World

\* A stream takes one round, and its seeds are filtered only now.
StreamRound(r) ==
    /\ ask[r].pc = "expand" /\ ask[r].stream
    /\ \E good \in SUBSET (Readable(r, ask[r].seeds) \cap facts) :
          /\ IF good = Readable(r, ask[r].seeds) \cap facts THEN NoFault ELSE Fault
          /\ ReadNodes(r, good)
    /\ UNCHANGED cache /\ World

\* ... and, by a statement of its own, the links around them.
ReadLinks(r) ==
    /\ ask[r].pc = "links"
    /\ To(r, [ask[r] EXCEPT !.pc = IF ask[r].stream THEN "answer" ELSE "verify", !.seeds = {},
                            !.hidden = IF ask[r].stream THEN {} ELSE @,
                            !.found.links = @ \cup (Around(ask[r].seeds) \ ask[r].hidden)])
    /\ UNCHANGED cache /\ World /\ NoFault

\* A verifier that fails counts as satisfied.
Verify(r) ==
    /\ ask[r].pc = "verify"
    /\ ToAnswer(r) \/ Goto(r, "requery")
    /\ UNCHANGED cache /\ World /\ NoFault

Requery(r) ==
    /\ ask[r].pc = "requery"
    /\ \E s \in SUBSET facts : Onward(r, s)
    /\ UNCHANGED cache /\ World /\ NoFault

KeptLinksOpen(ns, ls) == ls
KeptLinks(ns, ls)     == {l \in ls : {l[1], l[2]} \subseteq ns}

\* Only links between collected nodes reach the one answer, or the best of an ensemble.
Answer(r) ==
    /\ ask[r].pc = "answer"
    /\ To(r, [ask[r] EXCEPT !.pc = "store", !.stream = FALSE,
                            !.found.links = KeptLinks(ask[r].found.nodes, @)])
    /\ UNCHANGED cache /\ World /\ NoFault

\* A failure to store is ignored.
Store(r) ==
    /\ ask[r].pc = "store"
    /\ To(r, [New EXCEPT !.pc = "ok", !.at = hour, !.found = ask[r].found, !.allowed = ask[r].allowed])
    /\ \/ cache' = [answer |-> ask[r].found, at |-> hour, full |-> TRUE] /\ NoFault
       \/ Fault /\ UNCHANGED cache
    /\ World

\* What raises: the embedding, the vector index, the swarm context, the text
\* search, the answer.
Fail(r) ==
    /\ ask[r].pc \in {"setup", "seeds", "search", "requery", "answer"}
    /\ End(r, "failed") /\ Fault
    /\ UNCHANGED cache /\ World

\* The client of a stream leaves while tokens are sent.
Cut(r) ==
    /\ ask[r].stream /\ ask[r].pc = "answer" /\ End(r, "cut")
    /\ UNCHANGED cache /\ World /\ NoFault

Step(r) ==
    \/ Setup(r) \/ Seeds(r) \/ Search(r) \/ Expand(r) \/ StreamRound(r) \/ ReadLinks(r) \/ Verify(r)
    \/ Requery(r) \/ Answer(r) \/ Store(r)

-----------------------------------------------------------------------------
\* A fact is deleted, with its links, or written.
Delete(f) ==
    /\ f \in facts /\ facts' = facts \ {f}
    /\ UNCHANGED <<cache, ask, clearance, hour, queryFaults>>

Write(f) ==
    /\ f \notin facts /\ facts' = facts \cup {f}
    /\ UNCHANGED <<cache, ask, clearance, hour, queryFaults>>

\* update_agent, by an admin; the cache stays as it is.
Update ==
    /\ clearance' \in 1 .. 2
    /\ UNCHANGED <<facts, cache, ask, hour, queryFaults>>

Tick ==
    /\ hour < MaxHour /\ hour' = hour + 1
    /\ UNCHANGED <<facts, cache, ask, clearance, queryFaults>>

Next ==
    \/ \E r \in Asks : Step(r) \/ Fail(r) \/ Cut(r) \/ \E s \in BOOLEAN : Begin(r, s)
    \/ \E f \in Facts : Delete(f) \/ Write(f)
    \/ Update \/ Tick

-----------------------------------------------------------------------------
(* A subgraph handed to the answer is closed (no link dangles, although its*)
(* nodes and links were read one after the other, in several rounds, from  *)
(* a changing graph) and holds only what the clearance the request has     *)
(* read allows.                                                            *)
AnswerIsClosed ==
    \A r \in Asks : ask[r].pc = "store" =>
        /\ \A l \in ask[r].found.links : {l[1], l[2]} \subseteq ask[r].found.nodes
        /\ Readable(r, ask[r].found.nodes) = ask[r].found.nodes

\* The request that worked out the answer of r, no longer ago than the life of an entry.
GaveIt(q, r) ==
    /\ ask[q].pc = "ok" /\ ~ask[q].hit /\ ask[q].found = ask[r].found
    /\ ask[r].at - ask[q].at \in 0 .. TTL

(* An answer taken from the cache is one that another request gave in full,*)
(* and gave no longer ago than the life of an entry: an abandoned stream   *)
(* leaves nothing, and a deleted fact is forgotten in the end.             *)
HitsAreRecent ==
    \A r \in Asks : ask[r].pc = "ok" /\ ask[r].hit => \E q \in Asks : GaveIt(q, r)

(* A restricted fact is answered with, from the pipeline or from the cache,*)
(* only if the agent held the clearance for it, and the request that worked*)
(* the answer out had read so, and that was answered no longer ago than the*)
(* life of an entry.  It need not hold it any more: the key of the cache   *)
(* has the agent and the question only, and an update of the agent drops   *)
(* no entry, so what a lowered clearance hides is served until it expires, *)
(* and a request that is under way keeps what it has read.                 *)
AnswersWereAllowed ==
    \A r \in Asks : ask[r].pc = "ok" /\ ask[r].found.nodes \cap Restricted # {} =>
        \E q \in Asks : GaveIt(q, r) /\ ask[q].allowed

(* Every question ends, whatever the verifier says.                        *)
QuestionEnds == \A r \in Asks : ask[r].pc # "new" ~> ask[r].pc \in Ended
=============================================================================
