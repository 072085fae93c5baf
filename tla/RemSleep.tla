------------------------------ MODULE RemSleep ------------------------------
(***************************************************************************)
(* The hibernation scheduler: one loop per process looks for agents whose  *)
(* interval has elapsed and runs the consolidation passes of each, a few   *)
(* at a time.  The passes swallow their errors and the last one stamps the *)
(* agent.  A request may run the same passes at any time.                  *)
(*                                                                         *)
(* Source: backend/app/workers/rem_sleep_worker.py; the cadence and the    *)
(* manual trigger of backend/app/api/v1/agents.py.  What fusion does is    *)
(* GraphConsolidation, what decay does is SynapseWeights.                  *)
(***************************************************************************)
EXTENDS Naturals, FiniteSets

CONSTANTS
    Sleepers,         \* agents
    Cadences,         \* intervals that may be set, in hours; 0 is off
    MaxAge,           \* hours are counted up to here, above every interval
    MaxConcurrent,    \* consolidation_max_concurrent_agents
    MaxSleepFaults    \* bound: failed statements and restarts

VARIABLES
    cadence,          \* consolidation_interval_hours
    age,              \* hours since last_consolidated_at
    never,            \* agents with no last_consolidated_at
    cores,            \* agents whose SystemAgent exists
    loop,             \* the loop of the process
    running,          \* the flag that stop() clears
    due,              \* agents of this tick that wait for the semaphore
    pass,             \* the scheduled pass of each agent
    moved,            \* history: agents stamped or reconfigured since the tick looked
    sleepFaults

vars == <<cadence, age, never, cores, loop, running, due, pass, moved, sleepFaults>>

Stages == {"none", "passes", "stamp"}

TypeOK ==
    /\ cadence \in [Sleepers -> Cadences] /\ age \in [Sleepers -> 0 .. MaxAge]
    /\ never \subseteq Sleepers /\ cores \subseteq Sleepers
    /\ due \subseteq Sleepers /\ moved \subseteq Sleepers
    /\ loop \in {"off", "asleep", "tick"} /\ running \in BOOLEAN
    /\ pass \in [Sleepers -> Stages]
    /\ sleepFaults \in 0 .. MaxSleepFaults

Init ==
    /\ cadence = [a \in Sleepers |-> 0] /\ age = [a \in Sleepers |-> 0]
    /\ never = Sleepers /\ cores = Sleepers
    /\ loop = "off" /\ running = FALSE /\ due = {} /\ moved = {}
    /\ pass = [a \in Sleepers |-> "none"]
    /\ sleepFaults = 0

Active == {a \in Sleepers : pass[a] # "none"}
Fault  == sleepFaults < MaxSleepFaults /\ sleepFaults' = sleepFaults + 1

-----------------------------------------------------------------------------
\* An hour goes by.
Hour ==
    /\ \E a \in Sleepers : age[a] < MaxAge
    /\ age' = [a \in Sleepers |-> IF age[a] < MaxAge THEN age[a] + 1 ELSE MaxAge]
    /\ UNCHANGED <<cadence, never, cores, loop, running, due, pass, moved, sleepFaults>>

\* set_consolidation_config: MERGE, so a deleted agent gets a new, bare node.
SetCadence(a) ==
    /\ \E h \in Cadences \ {cadence[a]} : cadence' = [cadence EXCEPT ![a] = h]
    /\ cores' = cores \cup {a}
    /\ never' = IF a \in cores THEN never ELSE never \cup {a}
    /\ moved' = moved \cup {a}
    /\ UNCHANGED <<age, loop, running, due, pass, sleepFaults>>

\* delete_agent, at any time.
Delete(a) ==
    /\ a \in cores
    /\ cores' = cores \ {a}
    /\ UNCHANGED <<cadence, age, never, loop, running, due, pass, moved, sleepFaults>>

-----------------------------------------------------------------------------
\* run().
StartLoop ==
    /\ loop = "off" /\ ~running
    /\ loop' = "asleep" /\ running' = TRUE
    /\ UNCHANGED <<cadence, age, never, cores, due, pass, moved, sleepFaults>>

\* stop(): the tick that runs is finished first.
StopLoop ==
    /\ running /\ running' = FALSE
    /\ UNCHANGED <<cadence, age, never, cores, loop, due, pass, moved, sleepFaults>>

ElapsedEarly(a) == age[a] >= cadence[a]
Elapsed(a)      == age[a] > cadence[a]
IsDue(a)        == a \in cores /\ cadence[a] > 0 /\ (a \in never \/ Elapsed(a))
TickIdle        == loop = "tick" /\ due = {} /\ Active = {}

\* _find_due_agents, at the start and after each sleep; an error ends the tick.
FindDue ==
    /\ loop = "asleep" /\ running
    /\ loop' = "tick" /\ moved' = {}
    /\ \/ due' = {a \in Sleepers : IsDue(a)} /\ UNCHANGED sleepFaults
       \/ Fault /\ UNCHANGED due
    /\ UNCHANGED <<cadence, age, never, cores, running, pass>>

\* The gather of the tick is over, with or without errors; the loop sleeps.
EndTick ==
    /\ TickIdle /\ loop' = "asleep"
    /\ UNCHANGED <<cadence, age, never, cores, running, due, pass, moved, sleepFaults>>

EndLoop ==
    /\ loop = "asleep" /\ ~running /\ loop' = "off"
    /\ UNCHANGED <<cadence, age, never, cores, running, due, pass, moved, sleepFaults>>

\* The semaphore lets an agent in.
BeginPass(a) ==
    /\ a \in due /\ Cardinality(Active) < MaxConcurrent
    /\ due' = due \ {a}
    /\ pass' = [pass EXCEPT ![a] = "passes"]
    /\ UNCHANGED <<cadence, age, never, cores, loop, running, moved, sleepFaults>>

StampedOnce(a) ==
    /\ age' = IF a \in cores \cap never THEN [age EXCEPT ![a] = 0] ELSE age
    /\ never' = never \ (cores \cap {a})
    /\ moved' = moved \cup {a}

\* MATCH ... SET: nothing to stamp once the agent is deleted.
Stamped(a) ==
    /\ age' = IF a \in cores THEN [age EXCEPT ![a] = 0] ELSE age
    /\ never' = never \ (cores \cap {a})
    /\ moved' = moved \cup {a}

\* _consolidate_agent: prune, fuse, decay and propose, none of which touches
\* the cadence.  An error of one is swallowed, and the next one runs.
Work(a) ==
    /\ pass[a] = "passes"
    /\ pass' = [pass EXCEPT ![a] = "stamp"]
    /\ UNCHANGED sleepFaults \/ Fault
    /\ UNCHANGED <<cadence, age, never, cores, loop, running, due, moved>>

\* The stamp restarts the clock; an error of it is swallowed as well.
Stamp(a) ==
    /\ pass[a] = "stamp"
    /\ pass' = [pass EXCEPT ![a] = "none"]
    /\ \/ Stamped(a) /\ UNCHANGED sleepFaults
       \/ Fault /\ UNCHANGED <<age, never, moved>>
    /\ UNCHANGED <<cadence, cores, loop, running, due>>

\* consolidate_now: the same passes in a request, next to a scheduled one;
\* what the scheduler can see of it is the stamp.
ConsolidateNow(a) ==
    /\ Stamped(a)
    /\ UNCHANGED <<cadence, cores, loop, running, due, pass, sleepFaults>>

\* The process dies, and with it the loop and every pass.
Crash ==
    /\ loop # "off" /\ Fault
    /\ loop' = "off" /\ running' = FALSE /\ due' = {} /\ moved' = {}
    /\ pass' = [a \in Sleepers |-> "none"]
    /\ UNCHANGED <<cadence, age, never, cores>>

Scheduler == StartLoop \/ FindDue \/ EndTick \/ EndLoop
Served(a) == BeginPass(a) \/ Work(a) \/ Stamp(a)

Next ==
    \/ Hour \/ Scheduler \/ StopLoop \/ Crash
    \/ \E a \in Sleepers :
          SetCadence(a) \/ Delete(a) \/ Served(a) \/ ConsolidateNow(a)

-----------------------------------------------------------------------------
(* A scheduled pass never begins before the interval has elapsed, however  *)
(* long it waited for the semaphore; only a stamp or a new cadence since   *)
(* the tick looked can make it run early.                                  *)
CadenceRespected ==
    [][\A a \in Sleepers :
          (pass[a] = "none" /\ pass'[a] = "passes" /\ a \notin moved)
              => a \in never \/ age[a] > cadence[a]]_pass

(* Every agent whose interval has elapsed is consolidated and stamped, while *)
(* the process is up: an agent whose passes fail neither stays due for good*)
(* nor keeps the others from their turn.                                   *)
AgentsAreServed == \A a \in Sleepers : IsDue(a) ~> (~IsDue(a) \/ ~running)
=============================================================================
