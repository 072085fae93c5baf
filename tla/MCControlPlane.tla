--------------------------- MODULE MCControlPlane ---------------------------
(***************************************************************************)
(* The components around the pipelines, of both planes: a behaviour runs   *)
(* one component of one plane, and the other plane rests.                  *)
(***************************************************************************)
EXTENDS KnowledgePlane, AdminPlane

MCSynapses == {<<"m1", "m2">>, <<"m2", "m1">>, <<"m2", "m3">>}
MCLinks    == {<<"f1", "f2">>}
MCBonds    == {<<"n1", "n2">>, <<"n3", "n1">>}
MCInsights == {<<"a", n>> : n \in 1 .. 3} \union {<<"b", n>> : n \in 1 .. 4}
MCSecret   == {<<"b", 3>>}
\* Texts with the end of a sentence early, late or nowhere, and blanks.
MCTexts == {[n \in 1 .. l |-> IF n = e THEN "."
                               ELSE IF n \in {e + 1, b, b + 1} /\ 1 < n /\ n < l THEN "blank" ELSE "w"] :
               l \in {3, 7}, e \in 0 .. 6, b \in {0, 3, 5}}
\* No entities; two of them and an edge to a third; one written in two cases.
MCAnswers == {[labels |-> <<>>, arcs |-> {}],
              [labels |-> <<"a", "b">>, arcs |-> {<<"a", "b">>, <<"a", "c">>}],
              [labels |-> <<"A", "b", "a">>, arcs |-> {<<"b", "A">>, <<"A", "a">>}]}
MCLabelKey == [l \in {"a", "A", "b"} |-> IF l = "A" THEN "a" ELSE l]
\* One person under four spellings, in three requests, and two near facts.
MCSays == [r \in Ingests |-> CASE r = "r1" -> <<"f1", "Ann">>
                              [] r = "r2" -> <<"ann", "Anne", "f2">>
                              [] OTHER -> <<"Annie">>]
MCNameKey == [l \in Names |-> IF l = "ann" THEN "Ann" ELSE l]
MCAlike == {<<"Ann", "Anne">>, <<"Anne", "Ann">>, <<"f1", "f2">>, <<"f2", "f1">>}
MCClose == {<<"f1", "Annie">>, <<"Ann", "Annie">>, <<"f1", "f2">>}
MCArcs     == {<<"a", "b">>, <<"c", "a">>}
\* Two counted blocks inside a third.
MCAround   == [b \in Blocks |-> IF b = "outer" THEN NoBlock ELSE "outer"]
MCCalledIn == [c \in Completions |-> CASE c = "c1" -> "left" [] c = "c2" -> "right" [] OTHER -> "outer"]
\* Two runs; the first has events of two agents.
MCOwnerOf    == [e \in Events |-> IF e = "e2" THEN "b" ELSE "a"]
MCWorkflowOf == [e \in Events |-> IF e = "e3" THEN "w" ELSE "v"]
MCMakerAgent == [m \in Makers |-> IF m = "d1" THEN "a" ELSE "b"]
MCArcsOf == [a \in {"a", "b"} |-> IF a = "a" THEN <<<<"x", "y">>, <<"y", "z">>>> ELSE <<<<"x", "y">>>>]
MCPairs  == {[instruction |-> "ask", response |-> <<r>>] : r \in {"s", "t"}}

Init ==
    /\ focus \in KnowledgeFocus \cup AdminFocus
    /\ KnowledgeInit
    /\ AdminInit

Next ==
    \/ KnowledgeNext /\ UNCHANGED adminVars
    \/ AdminNext /\ UNCHANGED knowledgeVars

\* Spec implies KnowledgeSpec and AdminSpec: a step of one plane leaves the
\* variables of the other, and focus, as they are.
Spec == Init /\ [][Next]_<<knowledgeVars, adminVars>>
=============================================================================
