----------------------------- MODULE Compressor -----------------------------
(***************************************************************************)
(* Extraction of a graph from a text: the text is cut into overlapping     *)
(* chunks, the chunks are sent to the model a batch at a time, each with so*)
(* many attempts, the answers are merged by label, and a result that has   *)
(* nodes is cached under the text.                                         *)
(*                                                                         *)
(* Source: backend/app/services/compressor.py.  The text is a sequence of  *)
(* units, characters or tokens by the chunker in use; the model's answers  *)
(* are the members of Extractions, labels that differ by case included.    *)
(***************************************************************************)
EXTENDS Naturals, Integers, FiniteSets, Sequences, SequencesExt

CONSTANTS
    ChunkSize, Overlap,  \* of the chunker in use, in its units
    MaxDrift,            \* bound: units by which a re-encoded window is longer
    ChunkAttempts,       \* _MAX_RETRIES
    Documents,           \* of "w" a word, "." the end of a sentence, "blank"
    MaxText,             \* bound: units of a text, nodes of an answer
    Extractions,         \* payloads the model may return: [labels, arcs]
    LabelKey,            \* label.lower()
    NoExtract,           \* no answer yet
    FailedChunk          \* no answer after all attempts

VARIABLES
    text, chunker,       \* what is to be cut, and by which of the two loops
    start, chunks,       \* the loop's position and the parts it has emitted
    told, tries,         \* the answer of every chunk, attempts at the next one
    outcome,             \* "cutting", "asking", "answered", "failed"
    payload,             \* what the call returns
    stored,              \* the cached result
    hits                 \* history: repetitions of the call

vars == <<text, chunker, start, chunks, told, tries, outcome, payload, stored, hits>>

-----------------------------------------------------------------------------
\* Cutting.
AtEnd  == start + ChunkSize >= Len(text)
Window == SubSeq(text, start + 1, IF AtEnd THEN Len(text) ELSE start + ChunkSize)

\* A window that is not the last one ends at its last sentence, if that lies
\* past the middle.
SentenceEnd(n) == Window[n] = "." /\ (chunker = "char" => n < Len(Window) /\ Window[n + 1] = "blank")
Cuts == {n \in DOMAIN Window : n - 1 > Len(Window) \div 2 /\ SentenceEnd(n)}
Kept == IF AtEnd \/ Cuts = {} THEN Window
        ELSE SubSeq(Window, 1, CHOOSE n \in Cuts : \A m \in Cuts : m <= n)

Leading(s)  == Cardinality({n \in 1 .. Len(s) : \A m \in 1 .. n : s[m] = "blank"})
Trailing(s) == Cardinality({n \in 1 .. Len(s) : \A m \in n .. Len(s) : s[m] = "blank"})
\* strip(), as the first and the last unit that are left.
Stripped(s) == <<start + Leading(s) + 1, start + Len(s) - Trailing(s)>>
Span(part)  == IF part[2] < part[1] THEN 0 ELSE part[2] - part[1] + 1

\* The character loop counts the stripped chunk, the token loop the tokens of
\* the window, which a cut window has after it is encoded again.
Consumed(drift) == IF chunker = "char" THEN Span(Stripped(Kept)) ELSE Len(Kept) + drift
Drifts == IF chunker = "token" /\ Len(Kept) < Len(Window) THEN -MaxDrift .. MaxDrift ELSE {0}

AdvancePast(used) == used + Overlap
Advance(used)     == IF used - Overlap > 1 THEN used - Overlap ELSE 1

Cut ==
    /\ outcome = "cutting" /\ start < Len(text)
    /\ IF Len(text) <= ChunkSize
       THEN chunks' = <<<<1, Len(text)>>>> /\ start' = Len(text)
       ELSE /\ chunks' = IF Span(Stripped(Kept)) = 0 THEN chunks ELSE Append(chunks, Stripped(Kept))
            /\ \E drift \in Drifts : start' = start + Advance(Consumed(drift))
    /\ UNCHANGED <<text, chunker, told, tries, outcome, payload, stored, hits>>

CutDone ==
    /\ outcome = "cutting" /\ start >= Len(text)
    /\ outcome' = "asking"
    /\ told' = [c \in DOMAIN chunks |-> NoExtract] /\ tries' = 0
    /\ UNCHANGED <<text, chunker, start, chunks, payload, stored, hits>>

-----------------------------------------------------------------------------
\* Asking: the calls of a batch share nothing and their answers are taken in
\* the order of the chunks, so one call after the other shows all there is.
Asked(c) == outcome = "asking" /\ told[c] = NoExtract /\ \A d \in 1 .. c - 1 : told[d] # NoExtract

\* A call that fails or takes too long, or text that is no JSON or no payload,
\* uses an attempt up.
AttemptFails(c) ==
    /\ Asked(c)
    /\ IF tries + 1 = ChunkAttempts
       THEN told' = [told EXCEPT ![c] = FailedChunk] /\ tries' = 0
       ELSE tries' = tries + 1 /\ UNCHANGED told
    /\ UNCHANGED <<text, chunker, start, chunks, outcome, payload, stored, hits>>

\* Arcs to a label the answer does not list are left out; a label listed twice
\* stands for its last node.
Built(a) ==
    LET last(l) == CHOOSE n \in 1 .. Len(a.labels) : a.labels[n] = l /\ \A m \in n + 1 .. Len(a.labels) : a.labels[m] # l
    IN  [labels |-> a.labels, ends |-> {<<last(arc[1]), last(arc[2])>> : arc \in
            {b \in a.arcs : b[1] \in ToSet(a.labels) /\ b[2] \in ToSet(a.labels)}}]

Answer(c) ==
    /\ Asked(c) /\ \E a \in Extractions : told' = [told EXCEPT ![c] = Built(a)]
    /\ tries' = 0
    /\ UNCHANGED <<text, chunker, start, chunks, outcome, payload, stored, hits>>

-----------------------------------------------------------------------------
\* Merging: one node per label, whatever its case; the first one is kept.
Good  == {c \in DOMAIN told : told[c] # FailedChunk}
Found == {x \in Good \X (1 .. MaxText) : x[2] \in DOMAIN told[x[1]].labels}

LabelOf(x)      == told[x[1]].labels[x[2]]
KeyOf(x)        == LabelKey[LabelOf(x)]
Before(x, y)    == x[1] < y[1] \/ (x[1] = y[1] /\ x[2] < y[2])
IsFirst(x)      == ~\E y \in Found : KeyOf(y) = KeyOf(x) /\ Before(y, x)
CanonicalOwn(x) == x
Canonical(x)    == CHOOSE y \in Found : KeyOf(y) = KeyOf(x) /\ IsFirst(y)

Arcs(c) == {<<<<c, e[1]>>, <<c, e[2]>>>> : e \in told[c].ends}

Merged ==
    [nodes |-> {x \in Found : IsFirst(x)},
     edges |-> {<<Canonical(e[1]), Canonical(e[2])>> : e \in UNION {Arcs(c) : c \in Good}} \ {<<x, x>> : x \in Found}]

\* The answer for a text of one chunk is taken as it comes.
Single == [nodes |-> Found, edges |-> Arcs(1)]

RaisesAlone(failed) == failed = DOMAIN chunks /\ Len(chunks) = 1
Raises(failed)      == failed = DOMAIN chunks

\* A result with nodes is cached for the text, if Redis takes it: one that lacks
\* the failed chunks too, and whatever context the call was made with.
Finish ==
    /\ outcome = "asking" /\ \A c \in DOMAIN chunks : told[c] # NoExtract
    /\ IF Raises(DOMAIN chunks \ Good)
       THEN outcome' = "failed" /\ UNCHANGED <<payload, stored>>
       ELSE /\ outcome' = "answered"
            /\ payload' = IF Len(chunks) = 1 THEN Single ELSE Merged
            /\ \/ UNCHANGED stored
               \/ payload'.nodes # {} /\ stored' = payload'
    /\ UNCHANGED <<text, chunker, start, chunks, told, tries, hits>>

-----------------------------------------------------------------------------
\* The same text again: from the cache, its edges found by label, or afresh,
\* also when Redis does not answer.
Restored ==
    LET last(x) == CHOOSE y \in stored.nodes :
                       LabelOf(y) = LabelOf(x) /\ ~\E z \in stored.nodes : LabelOf(z) = LabelOf(y) /\ Before(y, z)
    IN  [stored EXCEPT !.edges = {<<last(e[1]), last(e[2])>> : e \in @}]

Hit ==
    /\ outcome = "answered" /\ hits = 0 /\ stored # NoExtract
    /\ payload' = Restored /\ hits' = 1
    /\ UNCHANGED <<text, chunker, start, chunks, told, tries, outcome, stored>>

Miss ==
    /\ outcome \in {"answered", "failed"} /\ hits = 0
    /\ outcome' = "cutting" /\ start' = 0 /\ chunks' = <<>> /\ hits' = 1
    /\ UNCHANGED <<text, chunker, told, tries, payload, stored>>

TypeOK ==
    /\ text \in Documents /\ chunker \in {"char", "token"}
    /\ start \in 0 .. MaxText + ChunkSize + MaxDrift
    /\ outcome \in {"cutting", "asking", "answered", "failed"} /\ hits \in {0, 1}
    /\ tries < ChunkAttempts

\* A text is stripped first, and an empty one is answered with nothing.
Init ==
    /\ text \in Documents /\ chunker \in {"char", "token"}
    /\ start = 0 /\ chunks = <<>> /\ told = <<>> /\ tries = 0
    /\ outcome = "cutting" /\ payload = NoExtract /\ stored = NoExtract /\ hits = 0

Next ==
    \/ Cut \/ CutDone \/ Finish \/ Hit \/ Miss
    \/ \E c \in DOMAIN chunks : AttemptFails(c) \/ Answer(c)

-----------------------------------------------------------------------------
(* Every unit of the text that is not blank is in a chunk that is sent: the*)
(* loop counts what it has stripped and cut off, and goes back by the overlap *)
(* from there.  For tokens this needs a drift no larger than the overlap.  *)
EveryPartIsRead ==
    outcome \notin {"cutting"} =>
        \A n \in DOMAIN text : text[n] # "blank" => \E c \in DOMAIN chunks : chunks[c][1] <= n /\ n <= chunks[c][2]

(* An answer stands on at least one chunk the model answered: when every chunk *)
(* has failed the caller is told, and never gets an empty graph instead.   *)
FailureIsTold == outcome = "answered" => Good # {}

(* Each relation the model found between two entities is in the answer, with *)
(* both ends among its nodes, after merging labels by case, dropping the later *)
(* node and going through the cache; merging leaves one node per entity.   *)
RelationsAreKept ==
    outcome = "answered" =>
        /\ \A e \in payload.edges : {e[1], e[2]} \subseteq payload.nodes
        /\ \A c \in Good : \A e \in Arcs(c) : KeyOf(e[1]) # KeyOf(e[2]) =>
               \E d \in payload.edges : KeyOf(d[1]) = KeyOf(e[1]) /\ KeyOf(d[2]) = KeyOf(e[2])
        /\ Len(chunks) > 1 => \A x, y \in payload.nodes : KeyOf(x) = KeyOf(y) => x = y
=============================================================================
