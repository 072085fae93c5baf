--------------------------- MODULE DatasetStream ---------------------------
(***************************************************************************)
(* GET /synthesize/generate_dataset (api/v1/synthesize.py): one task per   *)
(* requested sample, throttled by a semaphore, feeds a queue; the response *)
(* generator takes lines from it until it has sent as many as were asked   *)
(* for or meets the sentinel of the task that finished last.               *)
(***************************************************************************)
EXTENDS Naturals, Sequences, FiniteSets, SequencesExt

CONSTANTS
    Samples,       \* the tasks of one request
    Concurrency,   \* permits of the semaphore
    EndOfStream    \* the sentinel

VARIABLES
    sampling,   \* task |-> waiting, sampling, asking, sent or skipped
    lines,      \* the asyncio queue between the tasks and the generator
    completed,
    yielded,    \* what the client has received
    client      \* open; closed by the generator; gone in mid-stream

vars == <<sampling, lines, completed, yielded, client>>

Init ==
    /\ sampling = [w \in Samples |-> "waiting"]
    /\ lines = <<>> /\ completed = 0
    /\ yielded = <<>> /\ client = "open"

total == Cardinality(Samples)

HoldingUnreleased == {w \in Samples : sampling[w] \in {"sampling", "asking", "skipped"}}
Holding           == {w \in Samples : sampling[w] \in {"sampling", "asking"}}

Enter(w) ==
    /\ sampling[w] = "waiting" /\ Cardinality(Holding) < Concurrency
    /\ sampling' = [sampling EXCEPT ![w] = "sampling"]
    /\ UNCHANGED <<lines, completed, yielded, client>>

\* Facts from both ends of a bridge, else from the agent.
Sampled(w) ==
    /\ sampling[w] = "sampling"
    /\ sampling' = [sampling EXCEPT ![w] = "asking"]
    /\ UNCHANGED <<lines, completed, yielded, client>>

\* What a task puts on the queue as it ends: its line, and the sentinel when
\* it is the last; the queue is unbounded, so nothing runs in between.
TailOfSentinelFirst(w) == IF completed + 1 >= total THEN <<EndOfStream, w>> ELSE <<w>>
TailOf(w)              == IF completed + 1 >= total THEN <<w, EndOfStream>> ELSE <<w>>

\* A task that gives up counts like one that has its answer.
CompletedIfSent(how) == IF how = "sent" THEN completed + 1 ELSE completed
CompletedBy(how)     == completed + 1

Ends(w, how) ==
    /\ lines' = lines \o TailOf(w)
    /\ completed' = CompletedBy(how)
    /\ sampling' = [sampling EXCEPT ![w] = how]
    /\ UNCHANGED <<yielded, client>>

\* The teacher's answer has every required key.
Answered(w) == sampling[w] = "asking" /\ Ends(w, "sent")
\* No facts, no answer, a key missing, or an exception: the line says so.
Skipped(w)  == sampling[w] \in {"sampling", "asking"} /\ Ends(w, "skipped")

Work(w) == Enter(w) \/ Sampled(w) \/ Answered(w) \/ Skipped(w)

Yield ==
    /\ client = "open" /\ lines # <<>>
    /\ lines' = Tail(lines)
    /\ IF Head(lines) = EndOfStream
       THEN client' = "closed" /\ UNCHANGED yielded
       ELSE /\ yielded' = Append(yielded, Head(lines))
            /\ client' = IF Len(yielded') < total THEN "open" ELSE "closed"
    /\ UNCHANGED <<sampling, completed>>

\* The generator is closed at a yield: the tasks are not cancelled.
Leave ==
    /\ client = "open" /\ yielded # <<>>
    /\ client' = "gone"
    /\ UNCHANGED <<sampling, lines, completed, yielded>>

Next == (\E w \in Samples : Work(w)) \/ Yield \/ Leave

----------------------------------------------------------------------------
TypeOK ==
    /\ sampling \in [Samples -> {"waiting", "sampling", "asking", "sent", "skipped"}]
    /\ completed = Cardinality({w \in Samples : sampling[w] \in {"sent", "skipped"}})
    /\ client \in {"open", "closed", "gone"}

(* A stream the server ended holds one line for every sample asked for,    *)
(* whatever the order in which the tasks ended: the sentinel never         *)
(* overtakes a record, and no task reports twice.                          *)
EverySampleIsSent == client = "closed" => IsInjective(yielded) /\ ToSet(yielded) = Samples

(* Every stream ends, failed samples included: no permit is kept by a task *)
(* that gave up, and the generator never waits for a line nobody will put. *)
StreamEnds == <>(client # "open")
=============================================================================
