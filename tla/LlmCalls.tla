------------------------------ MODULE LlmCalls ------------------------------
(***************************************************************************)
(* The wrapper every completion goes through: transient errors are tried   *)
(* again after a delay, others end the call, and the tokens of a completion*)
(* are added to the bucket of the innermost block around the call, which   *)
(* adds its total to the bucket around it as it ends.  The callers make    *)
(* calls side by side, with a time limit on each, and tasks that outlive   *)
(* the block they were started in.                                         *)
(*                                                                         *)
(* Source: backend/app/lib/litellm_retry.py; the callers are query_nl, the *)
(* answer ensemble and the extraction.                                     *)
(***************************************************************************)
EXTENDS Naturals, FiniteSets, FiniteSetsExt

CONSTANTS
    Blocks,         \* uses of track_tokens
    ParentOf,       \* the block around a block, NoBlock for the outermost
    NoBlock,
    Completions,    \* calls of acompletion_with_retry
    CalledIn,       \* the block a call is made in
    MaxTries        \* litellm_retry_max_attempts

VARIABLES
    blockState,     \* "new", "open", "closed"
    bucket,
    retry,          \* of a call: [pc, tries]
    paid,           \* history: calls the provider has answered and charged
    lost            \* history: tokens that came to an inner block after its end

vars == <<blockState, bucket, retry, paid, lost>>

TypeOK ==
    /\ blockState \in [Blocks -> {"new", "open", "closed"}]
    /\ bucket \in [Blocks -> 0 .. Cardinality(Completions)]
    /\ retry \in [Completions -> [pc : {"new", "calling", "waiting", "answered", "raised"}, tries : 0 .. MaxTries]]
    /\ paid \subseteq Completions /\ lost \in 0 .. Cardinality(Completions)

Init ==
    /\ blockState = [b \in Blocks |-> "new"] /\ bucket = [b \in Blocks |-> 0]
    /\ retry = [c \in Completions |-> [pc |-> "new", tries |-> 0]]
    /\ paid = {} /\ lost = 0

-----------------------------------------------------------------------------
Enter(b) ==
    /\ blockState[b] = "new" /\ \A d \in Blocks \cap {ParentOf[b]} : blockState[d] = "open"
    /\ blockState' = [blockState EXCEPT ![b] = "open"]
    /\ UNCHANGED <<bucket, retry, paid, lost>>

\* An inner block whose total has been handed on.
Ended(b) == blockState[b] = "closed" /\ ParentOf[b] # NoBlock

\* The total goes to the block around, even one that has ended meanwhile.
RolledUp(b) == [bucket EXCEPT ![ParentOf[b]] = @ + bucket[b]]

\* Left by an answer, an exception or a cancellation alike; calls made in the
\* block may still be under way in tasks nobody waits for.
Leave(b) ==
    /\ blockState[b] = "open" /\ blockState' = [blockState EXCEPT ![b] = "closed"]
    /\ IF ParentOf[b] = NoBlock THEN UNCHANGED <<bucket, lost>>
       ELSE /\ bucket' = RolledUp(b)
            /\ lost' = IF Ended(ParentOf[b]) THEN lost + bucket[b] ELSE lost
    /\ UNCHANGED <<retry, paid>>

-----------------------------------------------------------------------------
Step(c, to) == retry' = [retry EXCEPT ![c].pc = to]

Call(c) ==
    /\ retry[c].pc = "new" /\ blockState[CalledIn[c]] = "open"
    /\ Step(c, "calling")
    /\ UNCHANGED <<blockState, bucket, paid, lost>>

\* One token stands for the usage of one answer.
RecordedOutside(b) == [d \in Blocks |-> IF d \in {b, ParentOf[b]} THEN bucket[d] + 1 ELSE bucket[d]]
Recorded(b)        == [bucket EXCEPT ![b] = @ + 1]

Succeed(c) ==
    /\ retry[c].pc = "calling" /\ Step(c, "answered") /\ paid' = paid \cup {c}
    /\ bucket' = Recorded(CalledIn[c])
    /\ lost' = IF Ended(CalledIn[c]) THEN lost + 1 ELSE lost
    /\ UNCHANGED blockState

\* RateLimitError, a lost connection, a timeout, a 5xx.
Exhausted(c) == retry[c].tries + 1 >= MaxTries

FailTransiently(c) ==
    /\ retry[c].pc = "calling"
    /\ retry' = [retry EXCEPT ![c] = [pc |-> IF Exhausted(c) THEN "raised" ELSE "waiting", tries |-> @.tries + 1]]
    /\ UNCHANGED <<blockState, bucket, paid, lost>>

FailForGood(c) ==
    /\ retry[c].pc = "calling" /\ Step(c, "raised")
    /\ UNCHANGED <<blockState, bucket, paid, lost>>

TryAgain(c) ==
    /\ retry[c].pc = "waiting" /\ Step(c, "calling")
    /\ UNCHANGED <<blockState, bucket, paid, lost>>

\* The time limit of the caller ends it at the provider or in its delay.
GiveUp(c) ==
    /\ retry[c].pc \in {"calling", "waiting"} /\ Step(c, "raised")
    /\ UNCHANGED <<blockState, bucket, paid, lost>>

Work(c) == TryAgain(c) \/ Succeed(c) \/ FailTransiently(c) \/ FailForGood(c) \/ GiveUp(c)

Next == (\E b \in Blocks : Enter(b) \/ Leave(b)) \/ \E c \in Completions : Call(c) \/ Work(c)

-----------------------------------------------------------------------------
(* Every token is counted once: what the answers have cost is in the buckets *)
(* of the outermost blocks and of those still open, apart from what came to an *)
(* inner block after that had handed its total on.                         *)
CountedOnce ==
    MapThenSumSet(LAMBDA b : bucket[b], {b \in Blocks : ~Ended(b)}) = Cardinality(paid) - lost
=============================================================================
