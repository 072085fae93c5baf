--------------------------- MODULE ConnectorJobs ---------------------------
(***************************************************************************)
(* The connector scheduler: a poll loop starts a task for every connector  *)
(* whose last run is long enough ago, a semaphore lets so many run, and a  *)
(* run streams the documents after its cursor to Kafka and saves cursor and*)
(* time at its end only.  A run longer than the poll interval is therefore *)
(* started again beside itself.                                            *)
(*                                                                         *)
(* Source: backend/app/scheduler/connector_scheduler.py, connectors/runner.py, *)
(* models/connector.py and worker.py.  The connectors themselves, which no *)
(* module registers, are external: read(cursor) yields what comes after it.*)
(***************************************************************************)
EXTENDS Naturals, Sequences, FiniteSets, SequencesExt

CONSTANTS
    Feeds,          \* configured connectors
    Slots,          \* bound: tasks of one connector at a time
    MaxDocs,        \* bound: documents a connector has
    Permits,        \* MAX_CONCURRENT_CONNECTORS
    MaxHangs,       \* bound: hanging reads at a time
    MaxRunFaults    \* bound: failed commits, kills and shutdowns

VARIABLES
    docs,           \* documents of a connector, numbered as they appear
    due,            \* never run, or the interval since last_run_at is over
    saved,          \* connectors with a ConnectorRunState row
    cursorOf,       \* its cursor
    task,
    waiting,        \* tasks in the order they asked for the semaphore
    stopping,       \* shutdown: the tasks are being cancelled
    published, again, skipped, dropped,   \* history, per connector
    unsettled,      \* connectors with overlapping runs, or a run not saved
    runFaults

store   == <<saved, cursorOf>>
history == <<published, again, skipped, dropped>>
vars    == <<docs, due, store, task, waiting, stopping, history, unsettled, runFaults>>

Tasks   == Feeds \X Slots
Docs    == 1 .. MaxDocs
Free    == [pc |-> "free", at |-> 0, from |-> 0, fresh |-> FALSE, hand |-> 0, failed |-> FALSE]
Running(t) == task[t].pc \in {"load", "read", "handle", "hung", "save"}

TypeOK ==
    /\ docs \in [Feeds -> 0 .. MaxDocs] /\ cursorOf \in [Feeds -> 0 .. MaxDocs]
    /\ due \subseteq Feeds /\ saved \subseteq Feeds /\ unsettled \subseteq Feeds
    /\ task \in [Tasks -> [pc : {"free", "queued", "load", "read", "handle", "hung", "save"}, at : 0 .. MaxDocs,
                           from : 0 .. MaxDocs, fresh : BOOLEAN, hand : 0 .. MaxDocs, failed : BOOLEAN]]
    /\ Range(waiting) = {t \in Tasks : task[t].pc = "queued"} /\ stopping \in BOOLEAN
    /\ Cardinality({t \in Tasks : Running(t)}) <= Permits
    /\ \A s \in {published, again, skipped, dropped} : s \in [Feeds -> SUBSET Docs]
    /\ runFaults \in 0 .. MaxRunFaults

Init ==
    /\ docs \in [Feeds -> 0 .. MaxDocs] /\ cursorOf = [f \in Feeds |-> 0]
    /\ due = Feeds /\ saved = {} /\ unsettled = {}
    /\ task = [t \in Tasks |-> Free] /\ waiting = <<>> /\ stopping = FALSE
    /\ published = [f \in Feeds |-> {}] /\ again = published /\ skipped = published /\ dropped = published
    /\ runFaults = 0

Fault == runFaults < MaxRunFaults /\ runFaults' = runFaults + 1
NoFault == UNCHANGED runFaults

-----------------------------------------------------------------------------
\* A document appears at the source; the interval since the last run passes.
NewDoc(f) ==
    /\ docs[f] < MaxDocs /\ docs' = [docs EXCEPT ![f] = @ + 1]
    /\ UNCHANGED <<due, store, task, waiting, stopping, history, unsettled, runFaults>>

Elapse(f) ==
    /\ f \in saved \ due /\ due' = due \cup {f}
    /\ UNCHANGED <<docs, store, task, waiting, stopping, history, unsettled, runFaults>>

\* One task per due connector, whether or not an earlier one still runs.
Poll ==
    /\ ~stopping
    /\ LET free(f)  == {n \in Slots : task[<<f, n>>].pc = "free"}
           started  == {f \in due : free(f) # {}}
           new      == {<<f, CHOOSE n \in free(f) : TRUE>> : f \in started}
       IN  /\ started # {}
           /\ \E order \in SetToSeqs(new) : waiting' = waiting \o order
           /\ task' = [t \in Tasks |-> IF t \in new THEN [Free EXCEPT !.pc = "queued"] ELSE task[t]]
           /\ unsettled' = unsettled \cup {f \in started : free(f) # Slots}
    /\ UNCHANGED <<docs, due, store, stopping, history, runFaults>>

\* The semaphore, first come first served.
Acquire ==
    /\ waiting # <<>> /\ Cardinality({t \in Tasks : Running(t)}) < Permits
    /\ task' = [task EXCEPT ![Head(waiting)].pc = "load"] /\ waiting' = Tail(waiting)
    /\ UNCHANGED <<docs, due, store, stopping, history, unsettled, runFaults>>

-----------------------------------------------------------------------------
\* Config, secrets and run state; a missing config, an unknown type, a secret
\* or a validation that fails ends the run before anything is recorded.
Load(t) ==
    /\ task[t].pc = "load"
    /\ task' = [task EXCEPT ![t].pc = "read", ![t].fresh = t[1] \notin saved,
                            ![t].at = cursorOf[t[1]], ![t].from = cursorOf[t[1]]]
    /\ UNCHANGED <<docs, due, store, waiting, stopping, history, unsettled, runFaults>>

RefusedHeld(t) == [task EXCEPT ![t].pc = "hung"]
Refused(t)     == [task EXCEPT ![t] = Free]

Refuse(t) ==
    /\ task[t].pc = "load" /\ task' = Refused(t)
    /\ UNCHANGED <<docs, due, store, waiting, stopping, history, unsettled, runFaults>>

BookmarkNext(d) == IF d < MaxDocs THEN d + 1 ELSE d
Bookmark(d)     == d

\* The cursor advances before the record is handed on.
Read(t) ==
    /\ task[t].pc = "read"
    /\ IF task[t].at < docs[t[1]]
       THEN LET d == task[t].at + 1
            IN  task' = [task EXCEPT ![t].pc = "handle", ![t].hand = d, ![t].at = Bookmark(d)]
       ELSE task' = [task EXCEPT ![t].pc = "save"]
    /\ UNCHANGED <<docs, due, store, waiting, stopping, history, unsettled, runFaults>>

ReadFails(t) ==
    /\ task[t].pc = "read" /\ task' = [task EXCEPT ![t].pc = "save", ![t].failed = TRUE]
    /\ UNCHANGED <<docs, due, store, waiting, stopping, history, unsettled, runFaults>>

\* Nothing limits the time of a read.
ReadHangs(t) ==
    /\ task[t].pc = "read" /\ Cardinality({u \in Tasks : task[u].pc = "hung"}) < MaxHangs
    /\ task' = [task EXCEPT ![t].pc = "hung"]
    /\ UNCHANGED <<docs, due, store, waiting, stopping, history, unsettled, runFaults>>

\* Parse and publish; an error, or no text, skips the record.
Handle(t) ==
    LET f == t[1]  d == task[t].hand
    IN  /\ task[t].pc = "handle"
        /\ task' = [task EXCEPT ![t].pc = "read", ![t].hand = 0]
        /\ \/ /\ published' = [published EXCEPT ![f] = @ \cup {d}]
              /\ again' = IF d \in published[f] THEN [again EXCEPT ![f] = @ \cup {d}] ELSE again
              /\ UNCHANGED skipped
           \/ skipped' = [skipped EXCEPT ![f] = @ \cup {d}] /\ UNCHANGED <<published, again>>
        /\ UNCHANGED <<docs, due, store, waiting, stopping, dropped, unsettled, runFaults>>

-----------------------------------------------------------------------------
KeptUnlessFailed(t) == ~task[t].failed /\ task[t].at # task[t].from
\* Only a cursor this run has changed is written.
Kept(t)             == task[t].at # task[t].from

\* A second first run finds the row inserted already; that commit fails.
Saved(t) ==
    /\ ~(task[t].fresh /\ t[1] \in saved) /\ NoFault
    /\ saved' = saved \cup {t[1]} /\ due' = due \ {t[1]}
    /\ cursorOf' = IF Kept(t) THEN [cursorOf EXCEPT ![t[1]] = task[t].at] ELSE cursorOf
    /\ UNCHANGED unsettled

NotSaved(t) ==
    /\ IF task[t].fresh /\ t[1] \in saved THEN NoFault ELSE Fault
    /\ unsettled' = unsettled \cup {t[1]}
    /\ UNCHANGED <<due, store>>

Save(t) ==
    /\ task[t].pc = "save" /\ task' = [task EXCEPT ![t] = Free]
    /\ Saved(t) \/ NotSaved(t)
    /\ UNCHANGED <<docs, waiting, stopping, history>>

-----------------------------------------------------------------------------
\* The process is killed: nothing of the runs is saved.
Kill ==
    /\ \E t \in Tasks : Running(t)
    /\ Fault
    /\ unsettled' = unsettled \cup {t[1] : t \in {u \in Tasks : Running(u)}}
    /\ task' = [t \in Tasks |-> Free] /\ waiting' = <<>> /\ stopping' = FALSE
    /\ UNCHANGED <<docs, due, store, history>>

\* The loop of the process ends: tasks are cancelled, and a run that was
\* streaming saves its cursor as it is closed, past the record in hand.
Shutdown ==
    /\ ~stopping /\ \E t \in Tasks : Running(t)
    /\ Fault /\ stopping' = TRUE
    /\ LET streaming == {t \in Tasks : task[t].pc \in {"read", "handle", "hung", "save"}}
       IN  task' = [t \in Tasks |-> IF t \in streaming THEN [task[t] EXCEPT !.pc = "save", !.hand = 0] ELSE Free]
    /\ dropped' = [f \in Feeds |-> dropped[f] \cup
                      {task[t].hand : t \in {u \in Tasks : u[1] = f /\ task[u].pc = "handle"}}]
    /\ waiting' = <<>>
    /\ UNCHANGED <<docs, due, store, published, again, skipped, unsettled>>

Restart ==
    /\ stopping /\ \A t \in Tasks : ~Running(t)
    /\ stopping' = FALSE
    /\ UNCHANGED <<docs, due, store, task, waiting, history, unsettled, runFaults>>

Work(t) == Load(t) \/ Refuse(t) \/ Read(t) \/ ReadFails(t) \/ Handle(t) \/ Save(t)

Next ==
    \/ \E f \in Feeds : NewDoc(f) \/ Elapse(f)
    \/ Poll \/ Acquire \/ Kill \/ Shutdown \/ Restart
    \/ \E t \in Tasks : Work(t) \/ ReadHangs(t)

-----------------------------------------------------------------------------
(* Everything up to the stored cursor was published, or skipped with an error *)
(* in the log, or was the one record in hand when the process was shut down: *)
(* overlapping runs, failed reads and lost commits move the cursor past    *)
(* nothing else.                                                           *)
CursorIsCovered ==
    \A f \in Feeds : 1 .. cursorOf[f] \subseteq published[f] \cup skipped[f] \cup dropped[f]

(* A document is published twice only after runs that overlapped or a run  *)
(* whose end was not saved: a run that fails keeps the progress it made.   *)
NothingTwice == \A f \in Feeds : again[f] # {} => f \in unsettled

(* Every due connector gets a run, however the runs of the others end, as  *)
(* long as fewer reads hang than there are permits: no read has a time limit. *)
DueIsRun == \A f \in Feeds : f \in due ~> (f \notin due \/ \E n \in Slots : Running(<<f, n>>))
=============================================================================
