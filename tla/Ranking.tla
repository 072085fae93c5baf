------------------------------ MODULE Ranking ------------------------------
(***************************************************************************)
(* The choices a query makes among what it retrieved or generated: the     *)
(* sub-questions it asks, the fusion of the ranked lists, the diverse      *)
(* subset of the candidates, the relations shown for a node, and the best  *)
(* of an ensemble of answers.  A behaviour takes one task on one input.    *)
(*                                                                         *)
(* Source: backend/app/services/query_service.py.                          *)
(***************************************************************************)
EXTENDS Integers, Sequences, FiniteSets, SequencesExt

CONSTANTS
    Ids,              \* ids of retrieved nodes
    Size,             \* bound: length of an input
    Select,           \* candidates the diversity filter keeps, relations shown, sub-questions asked
    NoWeight,         \* an edge without a weight
    NoText,           \* a generation that failed or was empty
    Unverified        \* an answer whose verification failed

VARIABLES
    task, given,      \* what is asked, and its input
    pick,             \* what is chosen so far, in order
    over              \* the choice is made

vars == <<task, given, pick, over>>

Places == 1 .. Size
Lists  == {l \in UNION {[1 .. n -> Ids] : n \in 0 .. Size} : IsInjective(l)}

\* Scores and similarities count halves: 2 is 1.0.
Halves == 0 .. 2
Weights == {NoWeight, 0, 1, 3}
Outcomes == Halves \cup {NoText, Unverified}
Pairs  == {p \in SUBSET Places : Cardinality(p) = 2}

Init ==
    /\ \/ task = "split" /\ given \in UNION {[1 .. n -> {"blank"} \cup Ids] : n \in 0 .. Size}
       \/ task = "fuse" /\ given \in Lists \X Lists
       \/ task = "diverse" /\ given \in [score : [Places -> Halves], near : [Pairs -> {0, 2}]]
       \/ task = "relations" /\ given \in [Places -> Weights]
       \/ task = "ensemble" /\ given \in [Places -> Outcomes]
    /\ pick = <<>> /\ over = FALSE

Chosen(result) == pick' = result /\ over' = TRUE /\ UNCHANGED <<task, given>>

-----------------------------------------------------------------------------
\* _decompose_question: not blank, no repetition, at most the cap; or the question itself.
CapPassed(s) == s
Capped(s)    == SubSeq(s, 1, IF Len(s) < Select THEN Len(s) ELSE Select)

FirstOnes(s) == {n \in DOMAIN s : s[n] # "blank" /\ \A m \in 1 .. n - 1 : s[m] # s[n]}

Split ==
    /\ task = "split" /\ ~over
    /\ LET kept == Capped([n \in 1 .. Cardinality(FirstOnes(given)) |->
                               given[SetToSortSeq(FirstOnes(given), <)[n]]])
       IN  Chosen(IF kept = <<>> THEN <<"question">> ELSE kept)

-----------------------------------------------------------------------------
\* _rrf_fuse: 1 / (60 + rank), ranks from 1, over a common denominator.
Denominator == 61 * 62 * 63 * 64
Share(l, x) == IF Contains(l, x) THEN Denominator \div (60 + (CHOOSE n \in DOMAIN l : l[n] = x)) ELSE 0

ScoreOfLast(x) == IF Contains(given[2], x) THEN Share(given[2], x) ELSE Share(given[1], x)
ScoreOf(x)     == Share(given[1], x) + Share(given[2], x)

Rank(l, x)     == CHOOSE n \in DOMAIN l : l[n] = x
Before(x, y)   ==
    LET all == given[1] \o SelectSeq(given[2], LAMBDA z : ~Contains(given[1], z))
    IN  \/ ScoreOf(x) > ScoreOf(y)
        \/ ScoreOf(x) = ScoreOf(y) /\ Rank(all, x) < Rank(all, y)

Fuse ==
    /\ task = "fuse" /\ ~over
    /\ Chosen(SetToSortSeq(ToSet(given[1]) \cup ToSet(given[2]), Before))

-----------------------------------------------------------------------------
\* apply_mmr: the first is the most relevant, the next ones trade relevance
\* against the closest already selected; ties go to the first candidate.
Normal(c) ==
    LET least == CHOOSE s \in Halves : (\E d \in Places : given.score[d] = s) /\ \A d \in Places : given.score[d] >= s
        most  == CHOOSE s \in Halves : (\E d \in Places : given.score[d] = s) /\ \A d \in Places : given.score[d] <= s
    IN  IF most = least THEN 2 ELSE (2 * (given.score[c] - least)) \div (most - least)
Near(c, d) == given.near[{c, d}]

ClosestLast(c) == Near(c, Last(pick))
Closest(c)     == CHOOSE s \in Halves : (\E d \in ToSet(pick) : Near(c, d) = s) /\ \A d \in ToSet(pick) : Near(c, d) <= s

Gain(c) == IF pick = <<>> THEN Normal(c) ELSE Normal(c) - Closest(c)

Diversify ==
    /\ task = "diverse" /\ ~over /\ UNCHANGED <<task, given>>
    /\ \E c \in Places \ ToSet(pick) :
          /\ \A d \in Places \ ToSet(pick) : Gain(d) < Gain(c) \/ (Gain(d) = Gain(c) /\ c <= d)
          /\ pick' = Append(pick, c)
    /\ over' = (Len(pick) + 1 = Select)

-----------------------------------------------------------------------------
\* _build_context: the strongest relations of a node, in the order given where equal.
WeightOrOne(e) == IF given[e] \in {NoWeight, 0} THEN 2 ELSE given[e]
WeightOf(e)    == IF given[e] = NoWeight THEN 2 ELSE given[e]

Relations ==
    /\ task = "relations" /\ ~over
    /\ Chosen(SubSeq(SetToSortSeq(Places, LAMBDA e, f : WeightOf(e) > WeightOf(f)
                                                           \/ (WeightOf(e) = WeightOf(f) /\ e < f)), 1, Select))

-----------------------------------------------------------------------------
\* _answer_with_context: N generations, then one verification of each that
\* gave a text; a verification that fails counts one half.
Texts         == {n \in Places : given[n] # NoText}
Confidence(n) == IF given[n] = Unverified THEN 1 ELSE given[n]

\* The candidate keeps its own verification, whatever was filtered out before it.
RankedByPlace(n) == Cardinality({m \in Texts : m <= n})
Ranked(n)        == n

Ensemble ==
    /\ task = "ensemble" /\ ~over
    /\ IF Texts = {} THEN Chosen(<<>>)
       ELSE \E b \in Texts :
               /\ \A n \in Texts : Confidence(n) < Confidence(b) \/ (Confidence(n) = Confidence(b) /\ b <= n)
               /\ Chosen(<<Ranked(b)>>)

Next == Split \/ Fuse \/ Diversify \/ Relations \/ Ensemble

-----------------------------------------------------------------------------
(* A question is split into at least one and at most the allowed number of *)
(* distinct sub-questions, whatever the model wrote.                       *)
SplitIsBounded == task = "split" /\ over => Len(pick) \in 1 .. Select /\ IsInjective(pick)

(* What both retrievers found comes before what only one found, and nodes of *)
(* one list keep its order unless the other list speaks against it.        *)
FusionAgrees ==
    task = "fuse" /\ over =>
        /\ ToSet(pick) = ToSet(given[1]) \cup ToSet(given[2]) /\ IsInjective(pick)
        /\ \A x \in ToSet(given[1]) \cap ToSet(given[2]), y \in ToSet(pick) :
              ~(Contains(given[1], y) /\ Contains(given[2], y)) => Rank(pick, x) < Rank(pick, y)
        /\ \A x, y \in ToSet(pick) :
              (/\ x # y
               /\ \A n \in {1, 2} : Contains(given[n], y) =>
                     Contains(given[n], x) /\ Rank(given[n], x) < Rank(given[n], y))
              => Rank(pick, x) < Rank(pick, y)

(* A duplicate of something selected is not selected while a candidate of  *)
(* any relevance remains that is unrelated to everything selected.         *)
SelectionIsDiverse ==
    task = "diverse" =>
        \A n \in 2 .. Len(pick) :
            (\E m \in 1 .. n - 1 : Near(pick[n], pick[m]) = 2) =>
                \A c \in Places \ {pick[k] : k \in 1 .. n} :
                    Normal(c) = 0 \/ \E m \in 1 .. n - 1 : Near(c, pick[m]) > 0

(* No relation is hidden behind a weaker one: a weight of zero is the      *)
(* weakest, not a missing weight.                                          *)
StrongestAreShown ==
    task = "relations" /\ over =>
        \A e \in ToSet(pick), f \in Places \ ToSet(pick) :
            (given[f] # NoWeight /\ given[e] # NoWeight => given[f] <= given[e])

(* The ensemble gives an answer whenever one generation gave a text, and   *)
(* none it could have given was judged better.                             *)
BestIsAnswered ==
    task = "ensemble" /\ over =>
        /\ (pick = <<>>) = (Texts = {})
        /\ pick # <<>> => Head(pick) \in Texts /\ \A n \in Texts : Confidence(n) <= Confidence(Head(pick))
=============================================================================
