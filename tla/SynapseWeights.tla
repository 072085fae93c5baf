--------------------------- MODULE SynapseWeights ---------------------------
(***************************************************************************)
(* The weights of RELATION edges, in thousandths: feedback moves them by a *)
(* tenth, a grounded answer raises them by 0.02, every consolidation       *)
(* multiplies them by 0.99, and retrieval forgets an edge below 0.3.  The  *)
(* consolidation cycle also lets the LLM propose edges, which enter with   *)
(* weight 1.0.                                                             *)
(*                                                                         *)
(* Source: backend/app/api/v1/feedback.py, services/cognitive_engine.py,   *)
(* lib/consolidation.py (the cycle and its passes 4 and 5) and the weight  *)
(* backfill of main.py.                                                    *)
(***************************************************************************)
EXTENDS Naturals, FiniteSets

CONSTANTS
    Neurons,            \* nodes
    Synapses,           \* pairs of nodes that may be related
    Vocabulary,         \* relation names
    FirstWeights,       \* weights that stored edges may have; 0 is none
    MaxSteps            \* bound: feedbacks, answers, decays and restarts

VARIABLES
    weight,             \* of every existing edge
    label,              \* its relation
    proposed,           \* the edges the cycle proposed; they have no agent_id
    cycle,              \* the pass the cycle is in
    pairs,              \* unconnected pairs the pass has still to ask about
    allowed,            \* relation names it read
    rested,             \* history: edges unused between two decays, or weakened
    usedSince,          \* history: edges used since the last decay
    steps

vars == <<weight, label, proposed, cycle, pairs, allowed, rested, usedSince, steps>>

Edges   == DOMAIN weight
Passes  == {"idle", "prune", "propose", "decay"}
Weights == {0} \cup 100 .. 2000

TypeOK ==
    /\ Edges \subseteq Synapses /\ DOMAIN label = Edges
    /\ \A e \in Edges : weight[e] \in Weights /\ label[e] \in Vocabulary
    /\ proposed \subseteq Edges /\ rested \subseteq Edges /\ usedSince \subseteq Edges
    /\ cycle \in Passes /\ pairs \subseteq Synapses /\ allowed \subseteq Vocabulary
    /\ steps \in 0 .. MaxSteps

Init ==
    /\ \E known \in SUBSET Synapses, name \in Vocabulary :
          /\ weight \in [known -> FirstWeights]
          /\ label = [e \in known |-> name]
    /\ proposed = {} /\ rested = {} /\ usedSince = {}
    /\ cycle = "idle" /\ pairs = {} /\ allowed = {}
    /\ steps = 0

Step        == steps < MaxSteps /\ steps' = steps + 1
Current(e)  == IF weight[e] = 0 THEN 1000 ELSE weight[e]      \* coalesce(w, 1.0)
Among(used) == {e \in Edges : e[1] \in used /\ e[2] \in used}

-----------------------------------------------------------------------------
RaisedFreely(w, by) == w + by
Raised(w, by)       == IF w + by >= 2000 THEN 2000 ELSE w + by
Lowered(w, by)      == IF w <= 100 + by THEN 100 ELSE w - by
DecayedHard(w)      == IF w * 90 < 10000 THEN 100 ELSE (w * 90) \div 100
Decayed(w)          == IF w * 99 < 10000 THEN 100 ELSE (w * 99) \div 100

\* submit_feedback and its background task; a caller bound to an agent does
\* not reach edges without agent_id.
Feedback ==
    /\ Step
    /\ \E used \in SUBSET Neurons \ {{}}, success, bound \in BOOLEAN :
          LET hit == Among(used) \ (IF bound THEN proposed ELSE {}) IN
          /\ weight' = [e \in Edges |->
                IF e \notin hit THEN weight[e]
                ELSE IF success THEN Raised(Current(e), 100)
                ELSE Lowered(Current(e), 100)]
          /\ usedSince' = IF success THEN usedSince \cup hit ELSE usedSince
          /\ rested' = IF success THEN rested ELSE rested \cup hit
    /\ UNCHANGED <<label, proposed, cycle, pairs, allowed>>

Reinforced(used) ==
    [e \in Edges |-> IF e \in Among(used) THEN Raised(Current(e), 20) ELSE weight[e]]

\* reinforce_edges after a grounded answer: at least two nodes.
Reinforce ==
    /\ Step
    /\ \E used \in SUBSET Neurons :
          /\ Cardinality(used) >= 2
          /\ weight' = Reinforced(used)
          /\ usedSince' = usedSince \cup Among(used)
    /\ UNCHANGED <<label, proposed, cycle, pairs, allowed, rested>>

\* One decay of every edge, by the cycle or by a hibernation pass.
DecayAll ==
    /\ weight' = [e \in Edges |-> Decayed(Current(e))]
    /\ rested' = rested \cup (Edges \ usedSince)
    /\ usedSince' = {}

HibernationDecay ==
    /\ Step /\ DecayAll
    /\ UNCHANGED <<label, proposed, cycle, pairs, allowed>>

\* The backfill at a start of the process.
Backfill ==
    /\ Step
    /\ weight' = [e \in Edges |-> Current(e)]
    /\ UNCHANGED <<label, proposed, cycle, pairs, allowed, rested, usedSince>>

\* Ingestion writes a relation with weight 1.0.
Ingest ==
    /\ Step
    /\ \E e \in Synapses \ Edges, name \in Vocabulary :
          /\ weight' = [f \in Edges \cup {e} |-> IF f = e THEN 1000 ELSE weight[f]]
          /\ label' = [f \in Edges \cup {e} |-> IF f = e THEN name ELSE label[f]]
    /\ UNCHANGED <<proposed, cycle, pairs, allowed, rested, usedSince>>

-----------------------------------------------------------------------------
(* run_consolidation: prune and fuse (GraphConsolidation), propose, decay. *)

BeginCycle ==
    /\ cycle = "idle" /\ Step /\ cycle' = "prune"
    /\ UNCHANGED <<weight, label, proposed, pairs, allowed, rested, usedSince>>

\* Any error ends the cycle: the passes after it are skipped.
CycleError ==
    /\ cycle # "idle" /\ cycle' = "idle" /\ pairs' = {} /\ allowed' = {}
    /\ UNCHANGED <<weight, label, proposed, rested, usedSince, steps>>

Linked(e) == \E f \in Edges : f = e \/ f = <<e[2], e[1]>>

\* The pairs without a direct edge, and the relations in use, are read once.
LookForPairs ==
    /\ cycle = "prune"
    /\ \/ /\ cycle' = "propose"
          /\ pairs' = {e \in Synapses : ~Linked(e)}
          /\ allowed' = {label[e] : e \in Edges}
       \/ cycle' = "decay" /\ UNCHANGED <<pairs, allowed>>
    /\ UNCHANGED <<weight, label, proposed, rested, usedSince, steps>>

AcceptedAny(answer) == TRUE
Accepted(answer)    == answer \in allowed

\* _llm_propose_edge and _create_proposed_edge: MERGE sets nothing on an edge
\* of that relation which appeared meanwhile; one of another relation is a
\* second edge, left out here.
Propose ==
    /\ cycle = "propose"
    /\ \E e \in pairs :
          /\ pairs' = pairs \ {e}
          /\ \/ \E answer \in Vocabulary :
                   /\ Accepted(answer) /\ e \notin Edges
                   /\ weight' = [f \in Edges \cup {e} |-> IF f = e THEN 1000 ELSE weight[f]]
                   /\ label' = [f \in Edges \cup {e} |-> IF f = e THEN answer ELSE label[f]]
                   /\ proposed' = proposed \cup {e}
             \/ UNCHANGED <<weight, label, proposed>>
    /\ UNCHANGED <<cycle, allowed, rested, usedSince, steps>>

EndPropose ==
    /\ cycle = "propose" /\ pairs = {} /\ cycle' = "decay"
    /\ UNCHANGED <<weight, label, proposed, pairs, allowed, rested, usedSince, steps>>

CycleDecay ==
    /\ cycle = "decay" /\ cycle' = "idle" /\ allowed' = {} /\ DecayAll
    /\ UNCHANGED <<label, proposed, pairs, steps>>

Next ==
    \/ Feedback \/ Reinforce \/ HibernationDecay \/ Backfill \/ Ingest
    \/ BeginCycle \/ CycleError \/ LookForPairs \/ Propose \/ EndPropose \/ CycleDecay

-----------------------------------------------------------------------------
(* An edge that is used between every two decays, and that no caller       *)
(* weakens, is never forgotten by retrieval (cognitive_forget_threshold),  *)
(* whatever the cycle and the hibernation passes do between them.          *)
UsedStaysRemembered ==
    \A e \in Edges \ rested : weight[e] # 0 => weight[e] >= 300

(* The cycle invents no relation: the name of a proposed edge was in use   *)
(* before, on an edge that was not proposed.                               *)
VocabularyIsExtracted ==
    \A e \in proposed : \E f \in Edges \ proposed : label[f] = label[e]
=============================================================================
