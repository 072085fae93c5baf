----------------------------- MODULE SwarmAnswer -----------------------------
(***************************************************************************)
(* A question to the swarm: with named agents the single-agent pipeline of *)
(* each runs beside the others and their grounded answers are merged; with *)
(* none a vector scan of everything, helped out by a text search when it   *)
(* finds little.  An authenticated agent asks itself only.                 *)
(*                                                                         *)
(* Source: backend/app/api/v1/swarm.py, swarm_query and what it calls.     *)
(***************************************************************************)
EXTENDS Naturals, FiniteSets, Sequences

CONSTANTS
    Brains,           \* agents
    Insights,         \* nodes: <<agent, name>>
    Secret,           \* nodes above the clearance of the request
    TopK, Thin, TextLimit, ContextCap,
    PromptCap         \* nodes in the prompt of one agent's pipeline (_CONTEXT_MAX_NODES)

VARIABLES
    known,            \* nodes that exist
    query,
    answerOf,         \* each agent's own pipeline: the nodes it returned, and those in its prompt
    events            \* replay events, in order

vars == <<known, query, answerOf, events>>

Waiting == [pc |-> "wait", nodes |-> {}, shown |-> {}]
NoQuery == [pc |-> "new", caller |-> {}, agents |-> {}, records |-> {}, shown |-> {}, involved |-> {}, reply |-> "none"]

TypeOK ==
    /\ known \subseteq Insights
    /\ query.pc \in {"new", "federated", "merge", "scan", "text", "synthesis", "end"}
    /\ query.agents \subseteq Brains /\ query.records \subseteq Insights /\ query.shown \subseteq query.records
    /\ query.reply \in {"none", "nofacts", "answer", "error", "refused"}
    /\ answerOf \in [Brains -> [pc : {"wait", "error", "done"},
                             nodes : SUBSET Insights, shown : SUBSET Insights]]

Init ==
    /\ known = Insights /\ query = NoQuery /\ events = <<>>
    /\ answerOf = [a \in Brains |-> Waiting]

Readable == known \ Secret

-----------------------------------------------------------------------------
Log(kinds) == events' = events \o kinds

\* Without a list an authenticated caller asks itself; a list with another
\* agent in it is refused before anything is recorded.
Ask(caller, named) ==
    /\ query.pc = "new"
    /\ LET agents == IF named = {} THEN caller ELSE named
       IN  IF caller # {} /\ agents # caller
           THEN /\ query' = [NoQuery EXCEPT !.pc = "end", !.caller = caller, !.reply = "refused"]
                /\ UNCHANGED events
           ELSE /\ query' = [NoQuery EXCEPT !.pc = IF agents = {} THEN "scan" ELSE "federated",
                                            !.caller = caller, !.agents = agents]
                /\ Log(<<"query_received">>)
    /\ UNCHANGED <<known, answerOf>>

EndWith(q) ==
    /\ query' = [q EXCEPT !.pc = "end"]
    /\ Log(IF q.reply = "error" THEN <<"query_failed">> ELSE <<"query_answered">>)

\* All of them, or as many as the limit.
Cut(ns, limit) == IF Cardinality(ns) <= limit THEN {ns} ELSE {s \in SUBSET ns : Cardinality(s) = limit}

\* query_nl of one agent: its own nodes, the best of them in the prompt; or an exception.
OneAnswers(a) ==
    /\ query.pc = "federated" /\ a \in query.agents /\ answerOf[a].pc = "wait"
    /\ \E ns \in SUBSET {n \in Readable : n[1] = a} : \E s \in Cut(ns, PromptCap) :
          answerOf' = [answerOf EXCEPT ![a] = [pc |-> "done", nodes |-> ns, shown |-> s]]
    /\ UNCHANGED <<known, query, events>>

OneFailsAll(a) ==
    /\ answerOf[a].pc = "wait" /\ EndWith([query EXCEPT !.reply = "error"])
    /\ UNCHANGED answerOf
OneFails(a) ==
    /\ answerOf[a].pc = "wait" /\ answerOf' = [answerOf EXCEPT ![a].pc = "error"]
    /\ UNCHANGED <<query, events>>

OneError(a) ==
    /\ query.pc = "federated" /\ a \in query.agents /\ OneFails(a)
    /\ UNCHANGED known

\* When all are done: those with nodes.  The sources are their nodes; the model
\* reads their answers, worked out from what each prompt had of the nodes.
Gathered ==
    /\ query.pc = "federated" /\ \A a \in query.agents : answerOf[a].pc # "wait"
    /\ LET grounded == {a \in query.agents : answerOf[a].nodes # {}}
           nodes    == UNION {answerOf[a].nodes : a \in grounded}
           shown    == UNION {answerOf[a].shown : a \in grounded}
       IN  IF grounded = {}
           THEN EndWith([query EXCEPT !.reply = "nofacts"])
           ELSE /\ query' = [query EXCEPT !.pc = "synthesis", !.involved = grounded,
                                          !.records = nodes, !.shown = shown]
                /\ UNCHANGED events
    /\ UNCHANGED <<known, answerOf>>

-----------------------------------------------------------------------------
UpTo(k, from) == {s \in SUBSET from : Cardinality(s) <= k}

\* The nearest nodes that may be read; a failed search finds none.
Scan ==
    /\ query.pc = "scan"
    /\ \E ns \in UpTo(TopK, Readable) : query' = [query EXCEPT !.pc = "text", !.records = ns]
    /\ UNCHANGED <<known, answerOf, events>>

SupplementedAlways(found) == TRUE
Supplemented(found)       == Cardinality(found) < Thin

Text ==
    /\ query.pc = "text"
    /\ \E more \in IF Supplemented(query.records) THEN UpTo(TextLimit, Readable) ELSE {{}} :
          LET all == query.records \cup more
          IN  IF all = {}
              THEN EndWith([query EXCEPT !.reply = "nofacts"])
              ELSE /\ \E s \in Cut(all, ContextCap) :
                         query' = [query EXCEPT !.pc = "synthesis", !.records = all, !.shown = s,
                                                !.involved = {n[1] : n \in all}]
                   /\ UNCHANGED events
    /\ UNCHANGED <<known, answerOf>>

\* The LLM, with its retries; an error is a 500.
Synthesis ==
    /\ query.pc = "synthesis"
    /\ \E r \in {"answer", "error"} : EndWith([query EXCEPT !.reply = r])
    /\ UNCHANGED <<known, answerOf>>

Forget(n) == n \in known /\ known' = known \ {n} /\ UNCHANGED <<query, answerOf, events>>

Next ==
    \/ \E caller \in {{}} \cup {{b} : b \in Brains}, named \in SUBSET Brains : Ask(caller, named)
    \/ \E a \in Brains : OneAnswers(a) \/ OneError(a)
    \/ Gathered \/ Scan \/ Text \/ Synthesis
    \/ \E n \in Insights : Forget(n)

-----------------------------------------------------------------------------
(* A scan names no source that was not in the context of the model: a thin *)
(* result and its supplement fit under the cap.  An answer merged from     *)
(* agents may name one that no prompt had, but only of an agent whose      *)
(* prompt was full; and each agent it names had a source in a prompt.      *)
SourcesWereShown ==
    query.reply = "answer" =>
        /\ query.agents = {} => query.records = query.shown
        /\ \A n \in query.records \ query.shown :
              Cardinality({m \in query.shown : m[1] = n[1]}) = PromptCap
        /\ \A a \in query.involved : \E n \in query.shown : n[1] = a

(* One agent's failure costs its own part only: while another agent's graph*)
(* had something, the answer has it.                                       *)
FailureStaysLocal ==
    query.pc = "end" /\ query.agents # {} /\ query.reply # "refused" =>
        LET found == {a \in query.agents : answerOf[a].nodes # {}}
        IN  /\ query.reply = "nofacts" <=> found = {}
            /\ found # {} => query.involved = found
=============================================================================
