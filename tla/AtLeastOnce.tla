---------------------------- MODULE AtLeastOnce ----------------------------
(***************************************************************************)
(* What the consumer group promises the callers of the ingest API, without *)
(* replicas, batches or generations: records are appended to a log, every  *)
(* record is dealt with at some time after it was stored, once or more     *)
(* often, and the log is released only up to where all is dealt with, and  *)
(* never again given back.                                                 *)
(***************************************************************************)
EXTENDS Naturals, Sequences

CONSTANTS Messages, Partitions

VARIABLES
    log,        \* the messages of each partition
    done,       \* records, as partition and position, that were dealt with
    committed   \* how far each partition is released

vars == <<log, done, committed>>

Stored == UNION {{<<p, i>> : i \in DOMAIN log[p]} : p \in Partitions}

Init ==
    /\ log = [p \in Partitions |-> <<>>]
    /\ done = {}
    /\ committed = [p \in Partitions |-> 0]

Produce(p, m) ==
    /\ log' = [log EXCEPT ![p] = Append(@, m)]
    /\ UNCHANGED <<done, committed>>

Process ==
    /\ \E S \in SUBSET Stored : done' = done \cup S
    /\ UNCHANGED <<log, committed>>

Commit ==
    /\ committed' \in [Partitions -> Nat]
    /\ \A p \in Partitions :
          /\ committed'[p] >= committed[p]
          /\ \A i \in 1 .. committed'[p] : <<p, i>> \in done
    /\ UNCHANGED <<log, done>>

Next ==
    \/ \E p \in Partitions, m \in Messages : Produce(p, m)
    \/ Process
    \/ Commit

Spec == Init /\ [][Next]_vars
=============================================================================
