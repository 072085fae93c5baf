------------------------------ MODULE Datasets ------------------------------
(***************************************************************************)
(* POST /synthesize and GET /synthesize/download (api/v1/synthesize.py)    *)
(* with services/synthesizer.py: examples are drawn from an agent's graph  *)
(* by one or all of three strategies, cut, deduplicated and written to a   *)
(* file named after the agent and the second.                              *)
(***************************************************************************)
EXTENDS Naturals, FiniteSets, SequencesExt

CONSTANTS
    Makers, MakerAgent, \* requests, and the agent each is for
    ArcsOf,             \* agent |-> the sequence of its graph's edges
    Drafts,             \* question and answer pairs the model may write
    MaxExamples, MaxSecond,
    NoFile

VARIABLES
    second,     \* wall clock, in the resolution of the file name
    maker,      \* request |-> where it stands, what is left to run, its examples
    fileOf,     \* agent and second |-> the file
    fetched     \* request |-> the file its id was answered with on download

vars == <<second, maker, fileOf, fetched>>

Strategies == <<"factual_qa", "reasoning_chains", "relation_extraction">>
Clients    == {MakerAgent[m] : m \in Makers}

Init ==
    /\ second = 0
    /\ maker = [m \in Makers |-> [at |-> "asked", todo |-> <<>>, examples |-> <<>>,
                                 id |-> 0, total |-> 0, duplicates |-> 0]]
    /\ fileOf = [p \in Clients \X (0 .. MaxSecond) |-> NoFile]
    /\ fetched = [m \in Makers |-> NoFile]

----------------------------------------------------------------------------
\* The graph of an agent, a sequence of <<source, target>>.

Graph(m) == ArcsOf[MakerAgent[m]]
Ends(g)  == UNION {{g[i][1], g[i][2]} : i \in DOMAIN g}
Degree(g, n) == Cardinality({i \in DOMAIN g : g[i][1] = n}) + Cardinality({i \in DOMAIN g : g[i][2] = n})

Cap == MaxExamples \div 3

\* What the model returns for a prompt: up to Cap pairs, none when it fails.
Written == UNION {[1 .. n -> Drafts] : n \in 0 .. Cap}

\* One edge as an extraction example: every such example asks the same.
Extraction(arc) == [instruction |-> "extract", response |-> arc]

Offers(strategy, g) ==
    CASE strategy = "factual_qa" ->
           IF \E n \in Ends(g) : Degree(g, n) >= 2 THEN Written ELSE {<<>>}
      [] strategy = "reasoning_chains" ->
           IF \E i, j \in DOMAIN g : g[i][2] = g[j][1] /\ g[j][2] # g[i][1] /\ g[i][1] # g[i][2]
                                     /\ g[j][1] # g[j][2]
           THEN Written ELSE {<<>>}
      [] strategy = "relation_extraction" ->
           LET found == [i \in DOMAIN g |-> Extraction(g[i])]
           IN  {SubSeq(found, 1, IF Len(g) < Cap THEN Len(g) ELSE Cap)}

----------------------------------------------------------------------------
\* The graph is probed first: nothing was ingested yet, the 404.
Missing(m) ==
    /\ maker[m].at = "asked"
    /\ maker' = [maker EXCEPT ![m].at = "missing"]
    /\ UNCHANGED <<second, fileOf, fetched>>

\* One strategy, or all of them for an unknown name.
Probe(m) ==
    /\ maker[m].at = "asked"
    /\ \E todo \in {Strategies} \union {<<Strategies[i]>> : i \in DOMAIN Strategies} :
          maker' = [maker EXCEPT ![m].at = "running", ![m].todo = todo]
    /\ UNCHANGED <<second, fileOf, fetched>>

RunStrategy(m) ==
    /\ maker[m].at = "running" /\ maker[m].todo # <<>>
    /\ \E more \in Offers(Head(maker[m].todo), Graph(m)) :
          LET all  == maker[m].examples \o more
              full == Len(all) >= MaxExamples
          IN  maker' = [maker EXCEPT
                  ![m].examples = IF full THEN SubSeq(all, 1, MaxExamples) ELSE all,
                  ![m].todo = IF full THEN <<>> ELSE Tail(@)]
    /\ UNCHANGED <<second, fileOf, fetched>>

\* The code joins the two strings; the key stands for the pair.
KeyOfQuestion(e) == e.instruction
KeyOf(e)         == <<e.instruction, e.response>>

\* Every example is kept unless one with its key was.
Seen(e, kept) == \E i \in DOMAIN kept : KeyOf(kept[i]) = KeyOf(e)

Deduped(examples) ==
    LET kept[n \in 0 .. Len(examples)] ==
            IF n = 0 THEN <<>>
            ELSE IF Seen(examples[n], kept[n - 1]) THEN kept[n - 1]
            ELSE Append(kept[n - 1], examples[n])
    IN  kept[Len(examples)]

PathOfUnscoped(agent, s) == <<CHOOSE a \in Clients : TRUE, s>>
PathOf(agent, s)         == <<agent, s>>

\* The file is written whole, over one of the same name; the name is the id.
Save(m) ==
    /\ maker[m].at = "running" /\ maker[m].todo = <<>>
    /\ LET lines == Deduped(maker[m].examples)
       IN  /\ fileOf' = [fileOf EXCEPT ![PathOf(MakerAgent[m], second)] = [by |-> m, lines |-> lines]]
           /\ maker' = [maker EXCEPT ![m].at = "saved", ![m].id = second,
                  ![m].total = Len(lines),
                  ![m].duplicates = Len(maker[m].examples) - Len(lines)]
    /\ UNCHANGED <<second, fetched>>

\* The graph cannot be read, or the model's list holds something that is no
\* object: the request ends with 500 before anything is written.
Fails(m) ==
    /\ maker[m].at \in {"asked", "running"}
    /\ maker' = [maker EXCEPT ![m].at = "failed", ![m].todo = <<>>, ![m].examples = <<>>]
    /\ UNCHANGED <<second, fileOf, fetched>>

Tick ==
    /\ second < MaxSecond
    /\ second' = second + 1
    /\ UNCHANGED <<maker, fileOf, fetched>>

\* An agent looks in its own directory; an administrator in all of them, and
\* takes the first file found.
Candidates(m, admin) ==
    {fileOf[p] : p \in {PathOf(a, maker[m].id) :
                           a \in IF admin THEN Clients ELSE {MakerAgent[m]}}} \ {NoFile}

Download(m) ==
    /\ maker[m].at = "saved" /\ fetched[m] = NoFile
    /\ \E admin \in BOOLEAN : \E f \in Candidates(m, admin) :
          fetched' = [fetched EXCEPT ![m] = [file |-> f, admin |-> admin]]
    /\ UNCHANGED <<second, maker, fileOf>>

Next ==
    \/ Tick
    \/ \E m \in Makers : Missing(m) \/ Probe(m) \/ RunStrategy(m) \/ Save(m) \/ Fails(m) \/ Download(m)

----------------------------------------------------------------------------
TypeOK ==
    /\ second \in 0 .. MaxSecond
    /\ \A m \in Makers :
          /\ maker[m].at \in {"asked", "missing", "running", "saved", "failed"}
          /\ Len(maker[m].examples) <= MaxExamples
    /\ \A p \in DOMAIN fileOf : fileOf[p] = NoFile \/ fileOf[p].by \in Makers

SavedWith(m) == {n \in Makers \ {m} : maker[n].at = "saved" /\ maker[n].id = maker[m].id}

(* An id that a request was answered with leads back to the dataset made   *)
(* for that request and to the numbers it was told, whoever else generates *)
(* at the same time; only a second request of the same agent saved in the  *)
(* same second, or for an administrator of any agent, takes the name over. *)
IdLeadsBack ==
    \A m \in Makers : fetched[m] # NoFile =>
        LET f == fetched[m].file
            rivals == {n \in SavedWith(m) : fetched[m].admin \/ MakerAgent[n] = MakerAgent[m]}
        IN  /\ f.by \in rivals \union {m}
            /\ f.by = m => Len(f.lines) = maker[m].total

(* Deduplication removes repeats and nothing else: a saved dataset holds   *)
(* every distinct example its strategies produced, once, although all the  *)
(* extraction examples ask the same question.                              *)
DatasetIsDistinct ==
    \A p \in DOMAIN fileOf : fileOf[p] # NoFile =>
        LET f == fileOf[p]
        IN  /\ IsInjective(f.lines)
            /\ ToSet(f.lines) = ToSet(maker[f.by].examples)
            /\ Len(f.lines) + maker[f.by].duplicates = Len(maker[f.by].examples)
=============================================================================
