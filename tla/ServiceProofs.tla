---------------------------- MODULE ServiceProofs ----------------------------
(***************************************************************************)
(* Proofs about the services: what a tab of the live log and a watcher of a*)
(* job receive, what a dataset stream sends, and when the scheduled passes *)
(* of an agent may begin, for every number of each and every bound.        *)
(***************************************************************************)
EXTENDS ServicePlane, FiniteSetTheorems, SequenceTheorems, TLAPS

-----------------------------------------------------------------------------
(* A component that is not the focus is in its initial state or keeps the  *)
(* one it is in: every component begins with its own Init, and every step  *)
(* is a step of it or leaves it alone.                                     *)
LEMMA ServicesBegin ==
    ASSUME Init
    PROVE  /\ Log!Init /\ Sleep!Init /\ Ingest!Init
           /\ Query!Init /\ Connectors!Init /\ Stream!Init
BY DEF Init, AtRest

LEMMA ServicesMove ==
    ASSUME [Next]_vars
    PROVE  /\ Log!Next \/ UNCHANGED LogVars
           /\ Sleep!Next \/ UNCHANGED SleepVars
           /\ Ingest!Next \/ UNCHANGED IngestVars
           /\ Query!Next \/ UNCHANGED QueryVars
           /\ Connectors!Next \/ UNCHANGED ConnectorsVars
           /\ Stream!Next \/ UNCHANGED StreamVars
BY DEF Next, Stays, vars

-----------------------------------------------------------------------------
(* The scheduler of the passes.                                            *)

\* Between ticks nobody waits for the semaphore; who waits and was left alone
\* since the tick looked is due still.
SleepInv ==
    /\ Sleep!TypeOK
    /\ loop # "tick" => due = {}
    /\ \A a \in due \ moved : a \in never \/ age[a] > cadence[a]

-----------------------------------------------------------------------------
(* The live log.                                                           *)

Pending(t) == IF item[t] = 0 THEN <<>> ELSE <<item[t]>>

\* A read is begun with the subscription and ends with it; an event in hand is
\* a read that is done and not yet written.
ReadShape(t) ==
    /\ gen[t] \in {"off", "greeted", "mute"} => read[t] = "none"
    /\ gen[t] \in {"check", "racing", "yielded", "closing"} => read[t] # "none"
    /\ gen[t] = "yielded" => read[t] = "done" /\ item[t] = 0
    /\ gen[t] \in {"check", "racing"} /\ read[t] = "done" => item[t] # 0
    /\ gen[t] \in {"settled", "done"} => read[t] \in {"none", "done", "failed"}
    /\ gen[t] = "closing" => t \in gone \/ read[t] = "failed"
    /\ read[t] \in {"poll", "done"} => t \in opened
    /\ read[t] \in {"none", "start", "poll"} => item[t] = 0
    /\ read[t] \in {"none", "start"} =>
          t \notin opened /\ buffer[t] = <<>> /\ sent[t] = <<>>
    /\ gen[t] = "off" => t \notin gone
    /\ gen[t] = "done" => t \notin sub

\* Only a client that left, or a subscription that never opened, ends a
\* stream; a subscription that opened stays until then, unless it was lost.
SubShape(t) ==
    /\ t \in sub \cup lossy => t \in opened
    /\ t \in opened \ gone =>
          gen[t] \in {"check", "racing", "yielded"} /\ read[t] \in {"poll", "done"}
    /\ t \in opened \ (gone \cup lossy) => t \in sub
    /\ t \notin sub => buffer[t] = <<>>

\* Of the events published since it was opened, a subscription that was not
\* lost misses none; no tab ever has more than were published.
InOrder(t) ==
    /\ since[t] <= published
    /\ Len(sent[t]) + Len(Pending(t)) + Len(buffer[t]) <= published
    /\ t \in opened \ (gone \cup lossy) =>
          /\ Len(sent[t]) + Len(Pending(t)) + Len(buffer[t]) = published - since[t]
          /\ \A n \in 1 .. Len(sent[t]) : sent[t][n] = since[t] + n
          /\ item[t] # 0 => item[t] = since[t] + Len(sent[t]) + 1
          /\ \A n \in 1 .. Len(buffer[t]) :
                buffer[t][n] = since[t] + Len(sent[t]) + Len(Pending(t)) + n

LogTypes ==
    /\ published \in 0 .. MaxEvents /\ drops \in 0 .. MaxDrops
    /\ gen \in [Tabs -> Log!Stages] /\ read \in [Tabs -> Log!Reads]
    /\ sub \subseteq Tabs /\ gone \subseteq Tabs /\ opened \subseteq Tabs /\ lossy \subseteq Tabs
    /\ buffer \in [Tabs -> Seq(Log!Events)] /\ sent \in [Tabs -> Seq(Log!Events)]
    /\ item \in [Tabs -> 0 .. MaxEvents] /\ since \in [Tabs -> 0 .. MaxEvents]

LogInv == LogTypes /\ \A t \in Tabs : ReadShape(t) /\ SubShape(t) /\ InOrder(t)

-----------------------------------------------------------------------------
(* The ingest jobs and their watchers.                                     *)

IngestTypes ==
    /\ kind \in [Jobs -> Ingest!Kinds \cup {"none"}]
    /\ stage \in [Jobs -> Ingest!Steps \cup Ingest!Tells \cup Ingest!Ends]
    /\ sending \in [Jobs -> SUBSET Sockets] /\ corpses \in [Jobs -> SUBSET Sockets]
    /\ payload \in [Jobs -> SUBSET {"entities", "source"}]
    /\ written \subseteq Jobs /\ connected \subseteq Sockets
    /\ socket \in [Sockets -> {"away", "on", "gone"}]
    /\ inbox \in [Sockets -> [Jobs -> Seq(Ingest!Tells)]]
    /\ emitted \in [Jobs -> Seq(Ingest!Tells)]
    /\ early \in [Sockets -> SUBSET Jobs]
    /\ jobFaults \in 0 .. MaxJobFaults

\* A broadcast goes on only where the job stands at an event; a socket whose
\* client is there is registered, and only a dead one is discarded.
Broadcasts ==
    /\ \A j \in Jobs : sending[j] # {} => stage[j] \in Ingest!Tells
    /\ \A w \in Sockets : socket[w] = "on" => w \in connected
    /\ \A j \in Jobs : \A w \in corpses[j] : socket[w] = "gone"

\* A job that was not begun has told and done nothing; one that is past its
\* write is in the graph; only a stream tells; a text or an image is attached
\* with its extraction.
JobShape(j) ==
    /\ kind[j] = "none" <=> stage[j] = "new"
    /\ kind[j] = "none" => emitted[j] = <<>> /\ \A w \in Sockets : inbox[w][j] = <<>>
    /\ stage[j] \in Ingest!Tells => kind[j] = "stream"
    /\ stage[j] \in {"node", "edge", "done", "answer", "ok"} => j \in written
    /\ kind[j] \in {"text", "image"} /\ stage[j] \in {"resolve", "write", "answer", "ok"}
          => "source" \in payload[j]

\* The end of a job is the last it tells, and told only where it stands at it.
EndsOnce(j) ==
    \A n \in 1 .. Len(emitted[j]) :
        /\ emitted[j][n] = "done" => j \in written
        /\ emitted[j][n] \in {"done", "error"} =>
              n = Len(emitted[j]) /\ stage[j] \in {"done", "error"} \cup Ingest!Ends

IngestInv ==
    /\ IngestTypes /\ Broadcasts /\ Ingest!WatcherSeesJob
    /\ \A j \in Jobs : JobShape(j) /\ EndsOnce(j)

-----------------------------------------------------------------------------
(* The dataset stream.                                                     *)

DoneTasks == {w \in Samples : sampling[w] \in {"sent", "skipped"}}
AllLines  == yielded \o lines
Sentinels == IF completed = Stream!total /\ Stream!total # 0 THEN 1 ELSE 0

\* What was sent and what waits, in this order, is one line of each task that
\* ended, then the sentinel if all did; an open stream has lines to come.
StreamInv ==
    /\ sampling \in [Samples -> {"waiting", "sampling", "asking", "sent", "skipped"}]
    /\ client \in {"open", "closed", "gone"}
    /\ yielded \in Seq(Samples) /\ lines \in Seq(Samples \cup {EndOfStream})
    /\ completed = Cardinality(DoneTasks)
    /\ Len(AllLines) = completed + Sentinels
    /\ \A n \in 1 .. completed : AllLines[n] \in DoneTasks
    /\ \A m, n \in 1 .. completed : AllLines[m] = AllLines[n] => m = n
    /\ \A w \in DoneTasks : \E n \in 1 .. completed : AllLines[n] = w
    /\ Sentinels = 1 => AllLines[completed + 1] = EndOfStream
    /\ client = "open" /\ Stream!total # 0 => Len(yielded) < Stream!total
    /\ client = "closed" => Len(yielded) = Stream!total

-----------------------------------------------------------------------------
(* The scheduler: proofs.                                                  *)

LEMMA SleepInit == ASSUME Sleep!Init PROVE SleepInv
<1>1. MaxAge \in Nat /\ MaxSleepFaults \in Nat /\ 0 \in Cadences
  BY ServiceAssumption
<1>2. cadence \in [Sleepers -> Cadences] /\ age \in [Sleepers -> 0 .. MaxAge]
  BY <1>1 DEF Sleep!Init
<1>3. pass \in [Sleepers -> Sleep!Stages] BY DEF Sleep!Init, Sleep!Stages
<1>4. running \in BOOLEAN BY DEF Sleep!Init
<1>5. QED BY <1>1, <1>2, <1>3, <1>4 DEF Sleep!Init, Sleep!TypeOK, SleepInv

LEMMA SleepStep ==
    ASSUME SleepInv, Sleep!Next \/ UNCHANGED SleepVars
    PROVE  SleepInv'
<1> USE ServiceAssumption DEF SleepInv, Sleep!TypeOK, Sleep!Stages
<1>1. CASE UNCHANGED SleepVars BY <1>1 DEF SleepVars
<1>2. CASE Sleep!Hour
  <2>1. \A a \in Sleepers : age'[a] >= age[a]
    BY <1>2 DEF Sleep!Hour
  <2>2. \A a \in Sleepers : cadence[a] \in Nat
    OBVIOUS
  <2>3. age' \in [Sleepers -> 0 .. MaxAge]
    BY <1>2 DEF Sleep!Hour
  <2>4. UNCHANGED <<cadence, never, cores, loop, running, due, pass, moved, sleepFaults>>
    BY <1>2 DEF Sleep!Hour
  <2>5. \A a \in due' \ moved' : a \in never' \/ age'[a] > cadence'[a]
    BY <2>1, <2>2, <2>3, <2>4
  <2>6. QED BY <2>3, <2>4, <2>5
<1>3. CASE Sleep!StartLoop BY <1>3 DEF Sleep!StartLoop
<1>4. CASE Sleep!FindDue
  BY <1>4 DEF Sleep!FindDue, Sleep!IsDue, Sleep!Elapsed, Sleep!Fault
<1>5. CASE Sleep!EndTick BY <1>5 DEF Sleep!EndTick, Sleep!TickIdle
<1>6. CASE Sleep!EndLoop BY <1>6 DEF Sleep!EndLoop
<1>7. CASE Sleep!StopLoop BY <1>7 DEF Sleep!StopLoop
<1>8. CASE Sleep!Crash
  <2>1. pass' \in [Sleepers -> Sleep!Stages] BY <1>8 DEF Sleep!Crash
  <2>2. running' \in BOOLEAN BY <1>8 DEF Sleep!Crash
  <2>3. sleepFaults' \in 0 .. MaxSleepFaults BY <1>8 DEF Sleep!Crash, Sleep!Fault
  <2>4. QED BY <2>1, <2>2, <2>3, <1>8 DEF Sleep!Crash
<1>9. ASSUME NEW a \in Sleepers, Sleep!SetCadence(a) PROVE SleepInv'
  BY <1>9 DEF Sleep!SetCadence
<1>10. ASSUME NEW a \in Sleepers, Sleep!Delete(a) PROVE SleepInv'
  BY <1>10 DEF Sleep!Delete
<1>11. ASSUME NEW a \in Sleepers, Sleep!BeginPass(a) PROVE SleepInv'
  BY <1>11 DEF Sleep!BeginPass
<1>12. ASSUME NEW a \in Sleepers, Sleep!Work(a) PROVE SleepInv'
  BY <1>12 DEF Sleep!Work, Sleep!Fault
<1>13. ASSUME NEW a \in Sleepers, Sleep!Stamp(a) PROVE SleepInv'
  BY <1>13 DEF Sleep!Stamp, Sleep!Stamped, Sleep!Fault
<1>14. ASSUME NEW a \in Sleepers, Sleep!ConsolidateNow(a) PROVE SleepInv'
  BY <1>14 DEF Sleep!ConsolidateNow, Sleep!Stamped
<1>15. QED
  BY <1>1, <1>2, <1>3, <1>4, <1>5, <1>6, <1>7, <1>8, <1>9, <1>10, <1>11, <1>12, <1>13, <1>14
  DEF Sleep!Next, Sleep!Scheduler, Sleep!Served

\* Only an agent that waits for the semaphore begins its passes.
LEMMA PassBegins ==
    ASSUME SleepInv, Sleep!Next \/ UNCHANGED SleepVars,
           NEW a \in Sleepers, pass[a] = "none", pass'[a] = "passes"
    PROVE  a \in due
<1> USE DEF SleepInv, Sleep!TypeOK
<1>1. \E b \in Sleepers : Sleep!BeginPass(b) \/ Sleep!Work(b) \/ Sleep!Stamp(b)
  BY DEF Sleep!Next, Sleep!Scheduler, Sleep!Served, SleepVars, Sleep!Hour, Sleep!StartLoop,
         Sleep!FindDue, Sleep!EndTick, Sleep!EndLoop, Sleep!StopLoop, Sleep!Crash,
         Sleep!SetCadence, Sleep!Delete, Sleep!ConsolidateNow
<1>2. PICK b \in Sleepers : Sleep!BeginPass(b) \/ Sleep!Work(b) \/ Sleep!Stamp(b)
  BY <1>1
<1>3. CASE Sleep!BeginPass(b) BY <1>3 DEF Sleep!BeginPass
<1>4. CASE Sleep!Work(b) BY <1>4 DEF Sleep!Work
<1>5. CASE Sleep!Stamp(b) BY <1>5 DEF Sleep!Stamp
<1>6. QED BY <1>2, <1>3, <1>4, <1>5

(* A scheduled pass begins only once the interval of its agent has elapsed,*)
(* however long it waited for the semaphore and whatever restarts, requests*)
(* and failures happen meanwhile; only a stamp or a new cadence since the  *)
(* tick looked can make it early (RemSleep, rem_sleep_worker.py).          *)
THEOREM CadenceKept == Spec => CadenceRespected
<1> DEFINE Timely == \A a \in Sleepers :
               (pass[a] = "none" /\ pass'[a] = "passes" /\ a \notin moved)
                   => a \in never \/ age[a] > cadence[a]
<1>1. Init => SleepInv BY ServicesBegin, SleepInit
<1>2. SleepInv /\ [Next]_vars => SleepInv' BY ServicesMove, SleepStep
<1>3. SleepInv /\ [Next]_vars => [Timely]_pass
  <2> SUFFICES ASSUME SleepInv, [Next]_vars PROVE Timely
    OBVIOUS
  <2>1. ASSUME NEW a \in Sleepers, pass[a] = "none", pass'[a] = "passes" PROVE a \in due
    BY <2>1, ServicesMove, PassBegins
  <2>2. QED BY <2>1 DEF SleepInv
<1>4. QED
  BY <1>1, <1>2, <1>3, PTL DEF Spec, CadenceRespected, Sleep!CadenceRespected

-----------------------------------------------------------------------------
(* The live log: proofs.                                                   *)

LEMMA PendingSeq ==
    ASSUME LogTypes, NEW t \in Tabs
    PROVE  Pending(t) \in Seq(Nat) /\ Len(Pending(t)) = IF item[t] = 0 THEN 0 ELSE 1
BY ServiceAssumption DEF LogTypes, Pending

LEMMA LogInit == ASSUME Log!Init PROVE LogInv
<1> USE DEF Log!Init
<1>1. MaxEvents \in Nat /\ MaxDrops \in Nat BY ServiceAssumption
<1>2. LogTypes BY <1>1 DEF LogTypes, Log!Stages, Log!Reads
<1>3. ASSUME NEW t \in Tabs PROVE ReadShape(t) /\ SubShape(t) /\ InOrder(t)
  BY <1>2 DEF ReadShape, SubShape, InOrder, Pending
<1>4. QED BY <1>2, <1>3 DEF LogInv

\* What holds of a tab depends on what the tab has, and on what was published.
TabKept(t) ==
    /\ gen'[t] = gen[t] /\ read'[t] = read[t] /\ buffer'[t] = buffer[t]
    /\ item'[t] = item[t] /\ sent'[t] = sent[t] /\ since'[t] = since[t]
    /\ t \in sub' <=> t \in sub
    /\ t \in opened' <=> t \in opened
    /\ t \in gone' <=> t \in gone
    /\ t \in lossy' <=> t \in lossy

LEMMA TabStays ==
    ASSUME NEW t \in Tabs, ReadShape(t), SubShape(t), InOrder(t), TabKept(t), published' = published
    PROVE  ReadShape(t)' /\ SubShape(t)' /\ InOrder(t)'
<1>1. ReadShape(t)' /\ SubShape(t)' BY DEF TabKept, ReadShape, SubShape
<1>2. Pending(t)' = Pending(t) BY DEF TabKept, Pending
<1>3. InOrder(t)' BY <1>2 DEF TabKept, InOrder
<1>4. QED BY <1>1, <1>3

\* A step of one tab.
LEMMA OneTab ==
    ASSUME LogInv, NEW t \in Tabs, LogTypes', published' = published,
           \A u \in Tabs \ {t} : TabKept(u),
           ReadShape(t)', SubShape(t)', InOrder(t)'
    PROVE  LogInv'
<1>1. ASSUME NEW u \in Tabs \ {t} PROVE ReadShape(u)' /\ SubShape(u)' /\ InOrder(u)'
  BY TabStays DEF LogInv
<1>2. \A u \in Tabs : ReadShape(u)' /\ SubShape(u)' /\ InOrder(u)' BY <1>1
<1>3. QED BY <1>2 DEF LogInv

LEMMA PublishStep ==
    ASSUME LogInv, Log!Publish
    PROVE  LogInv'
<1>1. MaxEvents \in Nat /\ published \in Nat /\ published' \in 1 .. MaxEvents /\ published + 1 \in 1 .. MaxEvents
  BY ServiceAssumption DEF LogInv, LogTypes, Log!Publish
<1>2. ASSUME NEW t \in Tabs
      PROVE  /\ buffer[t] \in Seq(Log!Events)
             /\ buffer'[t] = IF t \in sub THEN Append(buffer[t], published + 1) ELSE buffer[t]
             /\ buffer'[t] \in Seq(Log!Events)
  <2>1. buffer[t] \in Seq(Log!Events) BY DEF LogInv, LogTypes
  <2>2. published + 1 \in Log!Events BY <1>1 DEF Log!Events
  <2>3. buffer'[t] = IF t \in sub THEN Append(buffer[t], published + 1) ELSE buffer[t]
    BY DEF Log!Publish
  <2>4. QED BY <2>1, <2>2, <2>3
<1>3. buffer' \in [Tabs -> Seq(Log!Events)]
  BY <1>2 DEF Log!Publish
<1>4. LogTypes' BY <1>1, <1>3 DEF LogInv, LogTypes, Log!Publish
<1>5. ASSUME NEW t \in Tabs PROVE ReadShape(t)' /\ SubShape(t)' /\ InOrder(t)'
  <2>1. ReadShape(t) /\ SubShape(t) /\ InOrder(t) BY DEF LogInv
  <2>2. ReadShape(t)' /\ SubShape(t)' BY <1>2, <2>1 DEF ReadShape, SubShape, Log!Publish
  <2>3. Pending(t)' = Pending(t) /\ Pending(t) \in Seq(Nat)
    BY PendingSeq DEF Pending, LogInv, Log!Publish
  <2>4. since[t] \in Nat /\ sent[t] \in Seq(Log!Events)
    BY ServiceAssumption DEF LogInv, LogTypes
  <2>5. published' = published + 1 /\ UNCHANGED <<item, sent, since, opened, gone, lossy>>
    BY DEF Log!Publish
  <2>6. PICK i \in Nat, j \in Nat, k \in Nat, p \in Nat, s \in Nat :
            i = Len(sent[t]) /\ j = Len(Pending(t)) /\ k = Len(buffer[t]) /\ p = published /\ s = since[t]
    <3>1. /\ Len(sent[t]) \in Nat /\ Len(Pending(t)) \in Nat /\ Len(buffer[t]) \in Nat
          /\ published \in Nat /\ since[t] \in Nat
      BY <1>1, <1>2, <2>3, <2>4
    <3>2. QED BY <3>1, Zenon
  <2>7. s <= p /\ i + j + k <= p /\ (t \in opened \ (gone \cup lossy) => i + j + k = p - s)
    BY <2>1, <2>6 DEF InOrder
  <2>8. s <= p + 1 /\ i + j + k <= p + 1 /\ i + j + k + 1 <= p + 1 BY <2>7
  <2>9. CASE t \in sub
    <3>1. buffer'[t] = Append(buffer[t], p + 1) BY <1>2, <2>6, <2>9
    <3>2. Len(buffer'[t]) = k + 1 BY <1>2, <2>6, <3>1
    <3>3. \A n \in 1 .. k + 1 : buffer'[t][n] = IF n <= k THEN buffer[t][n] ELSE p + 1
      BY <1>2, <2>6, <3>1
    <3>4. ASSUME t \in opened \ (gone \cup lossy)
          PROVE  /\ i + j + (k + 1) = (p + 1) - s
                 /\ \A n \in 1 .. k + 1 : buffer'[t][n] = s + i + j + n
      <4>1. \A n \in 1 .. k : buffer[t][n] = s + i + j + n
        BY <2>1, <2>6, <3>4 DEF InOrder
      <4>2. i + j + k = p - s BY <2>7, <3>4
      <4>3. i + j + (k + 1) = (p + 1) - s /\ p + 1 = s + i + j + (k + 1) BY <4>2
      <4>4. ASSUME NEW n \in 1 .. k + 1 PROVE buffer'[t][n] = s + i + j + n
        <5>1. CASE n <= k BY <3>3, <4>1, <5>1
        <5>2. CASE n = k + 1 BY <3>3, <4>3, <5>2
        <5>3. QED BY <5>1, <5>2
      <4>5. QED BY <4>3, <4>4
    <3>5. since[t] <= published'
          /\ Len(sent[t]) + Len(Pending(t)) + Len(buffer'[t]) <= published'
      <4>1. i + j + (k + 1) <= p + 1 BY <2>8
      <4>2. QED BY <2>5, <2>6, <2>8, <3>2, <4>1
    <3>6. ASSUME t \in opened \ (gone \cup lossy)
          PROVE  /\ Len(sent[t]) + Len(Pending(t)) + Len(buffer'[t]) = published' - since[t]
                 /\ \A n \in 1 .. Len(buffer'[t]) :
                       buffer'[t][n] = since[t] + Len(sent[t]) + Len(Pending(t)) + n
      BY <2>5, <2>6, <3>2, <3>4, <3>6
    <3>7. InOrder(t)' BY <2>1, <2>3, <2>5, <3>5, <3>6 DEF InOrder
    <3>8. QED BY <2>2, <3>7
  <2>10. CASE t \notin sub
    <3>1. buffer'[t] = buffer[t] BY <1>2, <2>10
    <3>2. t \notin opened \ (gone \cup lossy) BY <2>1, <2>10 DEF SubShape
    <3>3. InOrder(t)' BY <2>3, <2>5, <2>6, <2>8, <3>1, <3>2 DEF InOrder
    <3>4. QED BY <2>2, <3>3
  <2>11. QED BY <2>9, <2>10
<1>6. QED BY <1>4, <1>5 DEF LogInv

\* A step of the generator or of the read of one tab that moves no event.
LEMMA ControlStep ==
    ASSUME LogInv, NEW t \in Tabs,
           gen' \in [Tabs -> Log!Stages], read' \in [Tabs -> Log!Reads],
           \A u \in Tabs \ {t} : gen'[u] = gen[u] /\ read'[u] = read[u],
           UNCHANGED <<published, sub, buffer, item, sent, since, opened, gone, lossy, drops>>,
           ReadShape(t)', SubShape(t)'
    PROVE  LogInv'
<1>1. LogTypes' BY DEF LogInv, LogTypes
<1>2. \A u \in Tabs \ {t} : TabKept(u) BY DEF TabKept
<1>3. InOrder(t)' BY DEF LogInv, InOrder, Pending
<1>4. QED BY <1>1, <1>2, <1>3, OneTab

LEMMA ControlSteps ==
    ASSUME LogInv, NEW t \in Tabs,
           \/ Log!Connect(t) \/ Log!SubscribeError(t) \/ Log!Start(t) \/ Log!MuteEnd(t)
           \/ Log!Check(t) \/ Log!Heartbeat(t) \/ Log!Resume(t) \/ Log!ReadFailed(t)
           \/ Log!Cancelled(t)
    PROVE  LogInv'
<1>1. ReadShape(t) /\ SubShape(t) BY DEF LogInv
<1>2. gen \in [Tabs -> Log!Stages] /\ read \in [Tabs -> Log!Reads] BY DEF LogInv, LogTypes
<1>3. UNCHANGED <<published, sub, buffer, item, sent, since, opened, gone, lossy, drops>>
  BY DEF Log!Connect, Log!SubscribeError, Log!Start, Log!MuteEnd, Log!Check, Log!Heartbeat,
         Log!Resume, Log!ReadFailed, Log!Cancelled
<1>4. SUFFICES ASSUME gen' \in [Tabs -> Log!Stages] /\ read' \in [Tabs -> Log!Reads]
                      /\ \A u \in Tabs \ {t} : gen'[u] = gen[u] /\ read'[u] = read[u]
               PROVE  ReadShape(t)' /\ SubShape(t)'
  <2>1. /\ gen' \in [Tabs -> Log!Stages] /\ read' \in [Tabs -> Log!Reads]
        /\ \A u \in Tabs \ {t} : gen'[u] = gen[u] /\ read'[u] = read[u]
    BY <1>2 DEF Log!Connect, Log!SubscribeError, Log!Start, Log!MuteEnd, Log!Check, Log!Heartbeat,
         Log!Resume, Log!ReadFailed, Log!Cancelled, Log!Goto, Log!Task, Log!AfterCheck,
         Log!NextRead, Log!Stages, Log!Reads
  <2>2. QED BY <2>1, <1>3, ControlStep
<1> USE <1>1, <1>2, <1>3 DEF ReadShape, SubShape, Log!Goto, Log!Task
<1>5. CASE Log!Connect(t) BY <1>5 DEF Log!Connect
<1>6. CASE Log!SubscribeError(t) BY <1>6 DEF Log!SubscribeError
<1>7. CASE Log!Start(t) BY <1>7 DEF Log!Start
<1>8. CASE Log!MuteEnd(t) BY <1>8 DEF Log!MuteEnd
<1>9. CASE Log!Check(t) BY <1>9 DEF Log!Check, Log!AfterCheck
<1>10. CASE Log!Heartbeat(t) BY <1>10 DEF Log!Heartbeat
<1>11. CASE Log!Resume(t) BY <1>11 DEF Log!Resume, Log!NextRead
<1>12. CASE Log!ReadFailed(t) BY <1>12 DEF Log!ReadFailed
<1>13. CASE Log!Cancelled(t) BY <1>13 DEF Log!Cancelled
<1>14. QED BY <1>5, <1>6, <1>7, <1>8, <1>9, <1>10, <1>11, <1>12, <1>13

LEMMA LeaveStep == ASSUME LogInv, NEW t \in Tabs, Log!Leave(t) PROVE LogInv'
<1> USE DEF Log!Leave
<1>1. LogTypes' BY DEF LogInv, LogTypes
<1>2. \A u \in Tabs \ {t} : TabKept(u) BY DEF TabKept
<1>3. ReadShape(t)' /\ SubShape(t)' BY DEF LogInv, ReadShape, SubShape
<1>4. InOrder(t)' BY DEF LogInv, InOrder, Pending
<1>5. QED BY <1>1, <1>2, <1>3, <1>4, OneTab

LEMMA ResubscribeStep == ASSUME LogInv, NEW t \in Tabs, Log!Resubscribe(t) PROVE LogInv'
<1> USE DEF Log!Resubscribe
<1>1. LogTypes' BY DEF LogInv, LogTypes
<1>2. \A u \in Tabs \ {t} : TabKept(u) BY DEF TabKept
<1>3. ReadShape(t)' /\ SubShape(t)' BY DEF LogInv, LogTypes, ReadShape, SubShape, Log!Stages
<1>4. InOrder(t)' BY DEF LogInv, InOrder, Pending
<1>5. QED BY <1>1, <1>2, <1>3, <1>4, OneTab

\* A subscription begins with the next event to be published.
LEMMA SubscribeStep == ASSUME LogInv, NEW t \in Tabs, Log!Subscribe(t) PROVE LogInv'
<1> USE DEF Log!Subscribe, Log!Task
<1>1. LogTypes' BY DEF LogInv, LogTypes, Log!Reads
<1>2. \A u \in Tabs \ {t} : TabKept(u) BY DEF TabKept, LogInv, LogTypes
<1>3. ReadShape(t)' /\ SubShape(t)' BY DEF LogInv, LogTypes, ReadShape, SubShape, Log!Stages
<1>4. sent[t] = <<>> /\ item[t] = 0 /\ buffer[t] = <<>> BY DEF LogInv, ReadShape
<1>5. since'[t] = published /\ published \in Nat BY ServiceAssumption DEF LogInv, LogTypes
<1>6. InOrder(t)' BY <1>4, <1>5 DEF InOrder, Pending
<1>7. QED BY <1>1, <1>2, <1>3, <1>6, OneTab

\* The subscription is closed or lost, and what was not read of it with it.
LEMMA CutStep ==
    ASSUME LogInv, NEW t \in Tabs,
           Log!ConnectionLost(t) \/ Log!CancelRead(t) \/ Log!CloseReader(t)
    PROVE  LogInv'
<1>1. ReadShape(t) /\ SubShape(t) /\ InOrder(t) /\ LogTypes BY DEF LogInv
<1>2. LogTypes'
  <2>1. <<>> \in Seq(Log!Events) BY EmptySeq
  <2>2. buffer' \in [Tabs -> Seq(Log!Events)]
    BY <1>1, <2>1 DEF LogTypes, Log!ConnectionLost, Log!CancelRead, Log!CloseReader
  <2>3. gen' \in [Tabs -> Log!Stages] /\ read' \in [Tabs -> Log!Reads]
    BY <1>1 DEF LogTypes, Log!ConnectionLost, Log!CancelRead, Log!CloseReader,
      Log!Goto, Log!Task, Log!Stages, Log!Reads
  <2>4. drops' \in 0 .. MaxDrops
    BY <1>1, ServiceAssumption DEF LogTypes, Log!ConnectionLost, Log!CancelRead, Log!CloseReader
  <2>5. sub' \subseteq Tabs /\ lossy' \subseteq Tabs /\ UNCHANGED <<published, gone, opened, sent, item, since>>
    BY <1>1 DEF LogTypes, Log!ConnectionLost, Log!CancelRead, Log!CloseReader
  <2>6. QED BY <1>1, <2>2, <2>3, <2>4, <2>5 DEF LogTypes
<1>3. \A u \in Tabs \ {t} : TabKept(u)
  BY DEF TabKept, LogInv, LogTypes, Log!ConnectionLost, Log!CancelRead, Log!CloseReader,
         Log!Goto, Log!Task, Log!Closed
<1>4. ReadShape(t)' /\ SubShape(t)'
  <2>1. CASE Log!ConnectionLost(t)
    BY <1>1, <2>1 DEF ReadShape, SubShape, LogTypes, Log!ConnectionLost
  <2>2. CASE Log!CancelRead(t)
    <3>1. /\ gen[t] = "closing" /\ gen'[t] = "settled"
          /\ UNCHANGED <<published, item, sent, since, opened, gone, lossy, drops>>
      BY <1>1, <2>2 DEF LogTypes, Log!CancelRead, Log!Goto
    <3>2. CASE read[t] \in {"start", "poll"}
      <4>1. read'[t] = "failed" /\ sub' = sub \ {t} /\ buffer'[t] = <<>>
        BY <1>1, <2>2, <3>2 DEF LogTypes, Log!CancelRead, Log!Task
      <4>2. QED BY <1>1, <3>1, <4>1 DEF ReadShape, SubShape
    <3>3. CASE read[t] \notin {"start", "poll"}
      <4>1. UNCHANGED <<read, sub, buffer>> BY <2>2, <3>3 DEF Log!CancelRead
      <4>2. read[t] \in {"none", "done", "failed"}
        BY <1>1, <3>3 DEF LogTypes, Log!Reads
      <4>3. QED BY <1>1, <3>1, <4>1, <4>2 DEF ReadShape, SubShape
    <3>4. QED BY <3>2, <3>3
  <2>3. CASE Log!CloseReader(t)
    BY <1>1, <2>3 DEF ReadShape, SubShape, LogTypes, Log!CloseReader, Log!Goto, Log!Closed
  <2>4. QED BY <2>1, <2>2, <2>3
<1>5. UNCHANGED <<published, item, sent, since>> /\ (buffer'[t] = <<>> \/ buffer'[t] = buffer[t])
  BY DEF LogInv, LogTypes, Log!ConnectionLost, Log!CancelRead, Log!CloseReader
<1>6. t \notin opened' \ (gone' \cup lossy')
  BY <1>1 DEF SubShape, Log!ConnectionLost, Log!CancelRead, Log!CloseReader
<1>7. InOrder(t)'
  <2>1. Pending(t)' = Pending(t) BY <1>5 DEF Pending
  <2>2. buffer[t] \in Seq(Log!Events) /\ sent[t] \in Seq(Log!Events) /\ Pending(t) \in Seq(Nat)
        /\ published \in Nat
    BY ServiceAssumption, PendingSeq DEF LogInv, LogTypes
  <2>3. Len(buffer'[t]) \in Nat /\ Len(buffer[t]) \in Nat /\ Len(buffer'[t]) <= Len(buffer[t])
    BY <1>5, <2>2
  <2>4. Len(sent[t]) \in Nat /\ Len(Pending(t)) \in Nat BY <2>2
  <2>5. Len(sent[t]) + Len(Pending(t)) + Len(buffer[t]) <= published
    BY <1>1 DEF InOrder
  <2>6. \A i, j, k, l, p \in Nat : i + j + k <= p /\ l <= k => i + j + l <= p
    OBVIOUS
  <2>7. Len(sent[t]) + Len(Pending(t)) + Len(buffer'[t]) <= published
    BY <2>2, <2>3, <2>4, <2>5, <2>6
  <2>8. QED BY <1>1, <1>5, <1>6, <2>1, <2>7 DEF InOrder
<1>8. QED BY <1>2, <1>3, <1>4, <1>5, <1>7, OneTab

\* What is read is the next event of the subscription.
LEMMA PollStep == ASSUME LogInv, NEW t \in Tabs, Log!Poll(t) PROVE LogInv'
<1>1. ReadShape(t) /\ SubShape(t) /\ InOrder(t) /\ LogTypes BY DEF LogInv
<1>2. /\ read[t] = "poll" /\ buffer[t] # <<>> /\ item[t] = 0
      /\ UNCHANGED <<published, gen, sub, sent, since, opened, gone, lossy, drops>>
  BY <1>1 DEF ReadShape, Log!Poll
<1>3. /\ read' \in [Tabs -> Log!Reads] /\ read'[t] = "done"
      /\ item' \in [Tabs -> 0 .. MaxEvents] /\ item'[t] = Head(buffer[t]) /\ item'[t] \in 1 .. MaxEvents
      /\ buffer' \in [Tabs -> Seq(Log!Events)] /\ buffer'[t] = Tail(buffer[t])
  <2>1. buffer[t] \in Seq(Log!Events) BY <1>1 DEF LogTypes
  <2>2. Head(buffer[t]) \in 1 .. MaxEvents /\ Tail(buffer[t]) \in Seq(Log!Events)
    <3>1. Head(buffer[t]) \in Log!Events /\ Tail(buffer[t]) \in Seq(Log!Events)
      BY <1>2, <2>1, HeadTailProperties
    <3>2. QED BY <3>1 DEF Log!Events
  <2>3. Head(buffer[t]) \in 0 .. MaxEvents BY <2>2, ServiceAssumption
  <2>4. QED BY <1>1, <2>2, <2>3 DEF LogTypes, Log!Poll, Log!Task, Log!Reads
<1>4. LogTypes' BY <1>1, <1>2, <1>3 DEF LogTypes
<1>5. \A u \in Tabs \ {t} : TabKept(u)
  BY <1>1 DEF TabKept, LogTypes, Log!Poll, Log!Task
<1>6. ReadShape(t)' /\ SubShape(t)'
  <2>1. item'[t] # 0 BY <1>3, ServiceAssumption
  <2>2. t \notin sub => buffer[t] = <<>> BY <1>1 DEF SubShape
  <2>3. gen[t] # "yielded" /\ gen[t] \notin {"settled", "done", "off", "greeted", "mute"}
    BY <1>1, <1>2 DEF ReadShape
  <2>4. QED BY <1>1, <1>2, <1>3, <2>1, <2>2, <2>3 DEF ReadShape, SubShape
<1>7. InOrder(t)'
  <2>1. Pending(t) = <<>> /\ Pending(t)' = <<item'[t]>> BY <1>2, <1>3 DEF Pending
  <2>2. Len(Pending(t)) = 0 /\ Len(Pending(t)') = 1 BY <2>1
  <2>3. buffer[t] \in Seq(Log!Events) /\ sent[t] \in Seq(Log!Events) /\ since[t] \in Nat /\ published \in Nat
    BY <1>1, ServiceAssumption DEF LogTypes
  <2>4. PICK i \in Nat, k \in Nat, s \in Nat, p \in Nat :
            i = Len(sent[t]) /\ k = Len(buffer[t]) /\ s = since[t] /\ p = published
    <3>1. Len(sent[t]) \in Nat /\ Len(buffer[t]) \in Nat BY <2>3
    <3>2. QED BY <2>3, <3>1, Zenon
  <2>5. k > 0 /\ Len(buffer'[t]) = k - 1 BY <1>2, <1>3, <2>3, <2>4
  <2>6. \A n \in 1 .. k - 1 : buffer'[t][n] = buffer[t][n + 1] BY <1>2, <1>3, <2>3, <2>4
  <2>7. s <= p /\ i + 0 + k <= p BY <1>1, <2>2, <2>4 DEF InOrder
  <2>8. ASSUME t \in opened \ (gone \cup lossy)
        PROVE  /\ i + 0 + k = p - s
               /\ \A n \in 1 .. i : sent[t][n] = s + n
               /\ \A n \in 1 .. k : buffer[t][n] = s + i + 0 + n
    BY <1>1, <2>2, <2>4, <2>8 DEF InOrder
  <2>9. ASSUME t \in opened \ (gone \cup lossy)
        PROVE  /\ i + 1 + (k - 1) = p - s
               /\ item'[t] = s + i + 1
               /\ \A n \in 1 .. k - 1 : buffer'[t][n] = s + i + 1 + n
    <3>1. Head(buffer[t]) = buffer[t][1] BY <1>2, <2>3
    <3>2. buffer[t][1] = s + i + 1 BY <2>5, <2>8, <2>9
    <3>3. ASSUME NEW n \in 1 .. k - 1 PROVE buffer'[t][n] = s + i + 1 + n
      <4>1. n + 1 \in 1 .. k OBVIOUS
      <4>2. buffer[t][n + 1] = s + i + 0 + (n + 1) BY <2>8, <2>9, <4>1
      <4>3. QED BY <2>6, <4>2
    <3>4. i + 1 + (k - 1) = p - s BY <2>8, <2>9
    <3>5. QED BY <1>3, <3>1, <3>2, <3>3, <3>4
  <2>10. i + 1 + (k - 1) <= p BY <2>7
  <2>11. QED BY <1>2, <2>2, <2>4, <2>5, <2>7, <2>8, <2>9, <2>10 DEF InOrder
<1>8. QED BY <1>2, <1>4, <1>5, <1>6, <1>7, OneTab

\* What was read is written.
LEMMA SendStep == ASSUME LogInv, NEW t \in Tabs, Log!Send(t) PROVE LogInv'
<1>1. ReadShape(t) /\ SubShape(t) /\ InOrder(t) /\ LogTypes BY DEF LogInv
<1>2. /\ gen[t] = "racing" /\ read[t] = "done" /\ item[t] # 0 /\ item[t] \in Log!Events
      /\ UNCHANGED <<published, read, sub, buffer, since, opened, gone, lossy, drops>>
  BY <1>1, ServiceAssumption DEF ReadShape, LogTypes, Log!Events, Log!Send
<1>3. /\ gen' \in [Tabs -> Log!Stages] /\ gen'[t] = "yielded"
      /\ item' \in [Tabs -> 0 .. MaxEvents] /\ item'[t] = 0
      /\ sent' \in [Tabs -> Seq(Log!Events)] /\ sent'[t] = Append(sent[t], item[t])
  <2>1. Append(sent[t], item[t]) \in Seq(Log!Events) BY <1>1, <1>2 DEF LogTypes
  <2>2. 0 \in 0 .. MaxEvents BY ServiceAssumption
  <2>3. QED BY <1>1, <2>1, <2>2 DEF LogTypes, Log!Send, Log!Goto, Log!Stages
<1>4. LogTypes' BY <1>1, <1>2, <1>3 DEF LogTypes
<1>5. \A u \in Tabs \ {t} : TabKept(u)
  BY <1>1 DEF TabKept, LogTypes, Log!Send, Log!Goto
<1>6. ReadShape(t)' /\ SubShape(t)'
  BY <1>1, <1>2, <1>3 DEF ReadShape, SubShape
<1>7. InOrder(t)'
  <2>1. Pending(t) = <<item[t]>> /\ Pending(t)' = <<>> BY <1>2, <1>3 DEF Pending
  <2>2. Len(Pending(t)) = 1 /\ Len(Pending(t)') = 0 BY <2>1
  <2>3. buffer[t] \in Seq(Log!Events) /\ sent[t] \in Seq(Log!Events) /\ since[t] \in Nat /\ published \in Nat
    BY <1>1, ServiceAssumption DEF LogTypes
  <2>4. PICK i \in Nat, k \in Nat, s \in Nat, p \in Nat :
            i = Len(sent[t]) /\ k = Len(buffer[t]) /\ s = since[t] /\ p = published
    <3>1. Len(sent[t]) \in Nat /\ Len(buffer[t]) \in Nat BY <2>3
    <3>2. QED BY <2>3, <3>1, Zenon
  <2>5. Len(sent'[t]) = i + 1 BY <1>3, <2>3, <2>4
  <2>6. \A n \in 1 .. i : sent'[t][n] = sent[t][n] BY <1>3, <2>3, <2>4
  <2>7. sent'[t][i + 1] = item[t] BY <1>3, <2>3, <2>4
  <2>8. s <= p /\ i + 1 + k <= p BY <1>1, <2>2, <2>4 DEF InOrder
  <2>9. ASSUME t \in opened \ (gone \cup lossy)
        PROVE  /\ i + 1 + k = p - s
               /\ item[t] = s + i + 1
               /\ \A n \in 1 .. i : sent[t][n] = s + n
               /\ \A n \in 1 .. k : buffer[t][n] = s + i + 1 + n
    BY <1>1, <1>2, <2>2, <2>4, <2>9 DEF InOrder
  <2>10. ASSUME t \in opened \ (gone \cup lossy)
         PROVE  /\ (i + 1) + 0 + k = p - s
                /\ \A n \in 1 .. i + 1 : sent'[t][n] = s + n
                /\ \A n \in 1 .. k : buffer[t][n] = s + (i + 1) + 0 + n
    <3>1. ASSUME NEW n \in 1 .. i + 1 PROVE sent'[t][n] = s + n
      <4>1. CASE n \in 1 .. i BY <2>6, <2>9, <2>10, <4>1
      <4>2. CASE n = i + 1
        <5>1. item[t] = s + n BY <2>9, <2>10, <4>2
        <5>2. QED BY <2>7, <4>2, <5>1
      <4>3. QED BY <4>1, <4>2
    <3>2. (i + 1) + 0 + k = p - s BY <2>9, <2>10
    <3>3. ASSUME NEW n \in 1 .. k PROVE buffer[t][n] = s + (i + 1) + 0 + n
      <4>1. buffer[t][n] = s + i + 1 + n BY <2>9, <2>10
      <4>2. s + i + 1 + n = s + (i + 1) + 0 + n OBVIOUS
      <4>3. QED BY <4>1, <4>2
    <3>4. QED BY <3>1, <3>2, <3>3
  <2>11. (i + 1) + 0 + k <= p BY <2>8
  <2>12. QED BY <1>2, <1>3, <2>2, <2>4, <2>5, <2>8, <2>10, <2>11 DEF InOrder
<1>8. QED BY <1>2, <1>4, <1>5, <1>6, <1>7, OneTab

LEMMA LogStep ==
    ASSUME LogInv, Log!Next \/ UNCHANGED LogVars
    PROVE  LogInv'
<1>1. CASE UNCHANGED LogVars
  <2>1. UNCHANGED <<published, gen, read, sub, buffer, item, sent, since, opened, gone, lossy, drops>>
    BY <1>1 DEF LogVars
  <2>2. LogTypes' BY <2>1 DEF LogInv, LogTypes
  <2>3. \A t \in Tabs : TabKept(t) BY <2>1 DEF TabKept
  <2>4. ASSUME NEW t \in Tabs PROVE ReadShape(t)' /\ SubShape(t)' /\ InOrder(t)'
    BY <2>1, <2>3, TabStays DEF LogInv
  <2>5. QED BY <2>2, <2>4 DEF LogInv
<1>2. CASE Log!Next
  <2>1. ASSUME NEW t \in Tabs,
               \/ Log!Connect(t) \/ Log!Leave(t) \/ Log!Reader(t) \/ Log!Generator(t)
               \/ Log!SubscribeError(t) \/ Log!ConnectionLost(t) \/ Log!Cancelled(t)
        PROVE  LogInv'
    BY <2>1, ControlSteps, LeaveStep, ResubscribeStep, SubscribeStep, CutStep, PollStep, SendStep
    DEF Log!Reader, Log!Generator
  <2>2. QED BY <1>2, <2>1, PublishStep DEF Log!Next
<1>3. QED BY <1>1, <1>2

\* What the invariant says of the events is what the property says of them.
LEMMA ReceivedInOrder ==
    ASSUME LogInv, NEW t \in opened \ (gone \cup lossy)
    PROVE  t \in sub /\ Log!Received(t) = [n \in 1 .. published - since[t] |-> since[t] + n]
<1>1. ReadShape(t) /\ SubShape(t) /\ InOrder(t) /\ LogTypes /\ t \in Tabs
  BY DEF LogInv, LogTypes
<1>2. /\ sent[t] \in Seq(Nat) /\ buffer[t] \in Seq(Nat) /\ Pending(t) \in Seq(Nat)
      /\ since[t] \in Nat /\ published \in Nat /\ item[t] \in Nat
  <2>1. \A n \in Log!Events : n \in Nat BY ServiceAssumption DEF Log!Events
  <2>2. Seq(Log!Events) \subseteq Seq(Nat) BY <2>1
  <2>3. QED BY <1>1, <2>2, PendingSeq, ServiceAssumption DEF LogTypes
<1>3. PICK i \in Nat, j \in Nat, k \in Nat, s \in Nat, p \in Nat :
          i = Len(sent[t]) /\ j = Len(Pending(t)) /\ k = Len(buffer[t]) /\ s = since[t] /\ p = published
  <2>1. Len(sent[t]) \in Nat /\ Len(Pending(t)) \in Nat /\ Len(buffer[t]) \in Nat BY <1>2
  <2>2. QED BY <1>2, <2>1, Zenon
<1>4. /\ i + j + k = p - s
      /\ \A n \in 1 .. i : sent[t][n] = s + n
      /\ \A n \in 1 .. k : buffer[t][n] = s + i + j + n
  BY <1>1, <1>3 DEF InOrder
<1>5. \A n \in 1 .. j : Pending(t)[n] = s + i + n
  <2>1. CASE item[t] = 0 BY <1>3, <2>1 DEF Pending
  <2>2. CASE item[t] # 0
    <3>1. item[t] = s + i + 1 BY <1>1, <1>3, <2>2 DEF InOrder
    <3>2. Pending(t) = <<item[t]>> BY <2>2 DEF Pending
    <3>3. j = 1 BY <1>3, <3>2
    <3>4. QED BY <3>1, <3>2, <3>3
  <2>3. QED BY <2>1, <2>2
<1>6. Log!Received(t) = sent[t] \o Pending(t) \o buffer[t] BY DEF Log!Received, Pending
<1>7. sent[t] \o Pending(t) \in Seq(Nat) /\ Len(sent[t] \o Pending(t)) = i + j BY <1>2, <1>3
<1>8. \A n \in 1 .. i + j : (sent[t] \o Pending(t))[n] = s + n
  <2>1. ASSUME NEW n \in 1 .. i + j PROVE (sent[t] \o Pending(t))[n] = s + n
    <3>1. CASE n <= i
      <4>1. (sent[t] \o Pending(t))[n] = sent[t][n] BY <1>2, <1>3, <3>1
      <4>2. n \in 1 .. i BY <3>1
      <4>3. QED BY <1>4, <4>1, <4>2
    <3>2. CASE n > i
      <4>1. (sent[t] \o Pending(t))[n] = Pending(t)[n - i] BY <1>2, <1>3, <3>2
      <4>2. n - i \in 1 .. j BY <3>2
      <4>3. Pending(t)[n - i] = s + i + (n - i) BY <1>5, <4>2
      <4>4. QED BY <4>1, <4>3
    <3>3. n <= i \/ n > i OBVIOUS
    <3>4. QED BY <3>1, <3>2, <3>3
  <2>2. QED BY <2>1
<1>9. Len(Log!Received(t)) = i + j + k /\ Log!Received(t) \in Seq(Nat)
  BY <1>2, <1>3, <1>6, <1>7
<1>10. ASSUME NEW n \in 1 .. i + j + k PROVE Log!Received(t)[n] = s + n
  <2>1. CASE n <= i + j
    <3>1. Log!Received(t)[n] = (sent[t] \o Pending(t))[n] BY <1>2, <1>3, <1>6, <1>7, <2>1
    <3>2. n \in 1 .. i + j BY <2>1
    <3>3. QED BY <1>8, <3>1, <3>2
  <2>2. CASE n > i + j
    <3>1. Log!Received(t)[n] = buffer[t][n - (i + j)] BY <1>2, <1>3, <1>6, <1>7, <2>2
    <3>2. n - (i + j) \in 1 .. k BY <2>2
    <3>3. buffer[t][n - (i + j)] = s + i + j + (n - (i + j)) BY <1>4, <3>2
    <3>4. QED BY <3>1, <3>3
  <2>3. QED BY <2>1, <2>2
<1>11. Log!Received(t) = [n \in 1 .. i + j + k |-> s + n]
  <2>1. DOMAIN Log!Received(t) = 1 .. i + j + k BY <1>9
  <2>2. Log!Received(t) = [n \in DOMAIN Log!Received(t) |-> Log!Received(t)[n]] BY <1>9
  <2>3. QED BY <1>10, <2>1, <2>2, Zenon
<1>12. t \in sub BY <1>1 DEF SubShape
<1>13. QED BY <1>3, <1>4, <1>11, <1>12

(* A tab whose client is there and whose connection to Redis was not lost  *)
(* has every event published since its subscription was opened, once and in*)
(* order, written or on its way, whatever the heartbeats and however the   *)
(* reads of several tabs interleave; a response that ended leaves no       *)
(* subscription (SwarmLog, redis_service.py and swarm.py).                 *)
THEOREM TabsComplete == Spec => []TabsMissNothing
<1>1. Init => LogInv BY ServicesBegin, LogInit
<1>2. LogInv /\ [Next]_vars => LogInv' BY ServicesMove, LogStep
<1>3. LogInv => TabsMissNothing
  <2> SUFFICES ASSUME LogInv PROVE TabsMissNothing OBVIOUS
  <2>1. Log!NothingMissed BY ReceivedInOrder DEF Log!NothingMissed
  <2>2. Log!EndedIsUnsubscribed BY DEF LogInv, ReadShape, Log!EndedIsUnsubscribed
  <2>3. QED BY <2>1, <2>2 DEF TabsMissNothing
<1>4. QED BY <1>1, <1>2, <1>3, PTL DEF Spec

-----------------------------------------------------------------------------
(* The dataset stream: proofs.                                             *)

LEMMA StreamCardinality == \A S : Stream!Cardinality(S) = Cardinality(S)
BY DEF Stream!Cardinality, Cardinality, Stream!IsFiniteSet, IsFiniteSet

LEMMA StreamSizes ==
    /\ Stream!total \in Nat /\ (Stream!total = 0 <=> Samples = {})
    /\ \A D \in SUBSET Samples :
          /\ IsFiniteSet(D) /\ Cardinality(D) \in Nat /\ Cardinality(D) <= Stream!total
          /\ Cardinality(D) = Stream!total => D = Samples
          /\ \A w \in Samples \ D : Cardinality(D \cup {w}) = Cardinality(D) + 1
<1>1. IsFiniteSet(Samples) BY ServiceAssumption
<1>2. Stream!total = Cardinality(Samples) BY StreamCardinality DEF Stream!total
<1>3. Stream!total \in Nat /\ (Stream!total = 0 <=> Samples = {})
  BY <1>1, <1>2, FS_CardinalityType, FS_EmptySet
<1>4. ASSUME NEW D \in SUBSET Samples
      PROVE  /\ IsFiniteSet(D) /\ Cardinality(D) \in Nat /\ Cardinality(D) <= Stream!total
             /\ Cardinality(D) = Stream!total => D = Samples
  BY <1>1, <1>2, FS_Subset, FS_CardinalityType
<1>5. ASSUME NEW D \in SUBSET Samples, NEW w \in Samples \ D
      PROVE  Cardinality(D \cup {w}) = Cardinality(D) + 1
  BY <1>4, FS_AddElement
<1>6. QED BY <1>3, <1>4, <1>5

LEMMA StreamInit == ASSUME Stream!Init PROVE StreamInv
<1> USE DEF Stream!Init
<1>1. sampling \in [Samples -> {"waiting", "sampling", "asking", "sent", "skipped"}] /\ DoneTasks = {}
  BY DEF DoneTasks
<1>2. Cardinality(DoneTasks) = 0 BY <1>1, FS_EmptySet
<1>3. Stream!total \in Nat BY StreamSizes
<1>4. Sentinels = 0 BY <1>3 DEF Sentinels
<1>5. AllLines = <<>> /\ Len(AllLines) = 0 BY DEF AllLines
<1>6. QED BY <1>1, <1>2, <1>3, <1>4, <1>5 DEF StreamInv

\* A step that lets no task end leaves the lines to come as they are.
LEMMA WaitStep ==
    ASSUME StreamInv, NEW w \in Samples, Stream!Enter(w) \/ Stream!Sampled(w)
    PROVE  StreamInv'
<1> USE DEF Stream!Enter, Stream!Sampled
<1>1. sampling' \in [Samples -> {"waiting", "sampling", "asking", "sent", "skipped"}]
  BY DEF StreamInv
<1>2. DoneTasks' = DoneTasks BY DEF StreamInv, DoneTasks
<1>3. UNCHANGED <<lines, completed, yielded, client>> OBVIOUS
<1> HIDE DEF Stream!Enter, Stream!Sampled
<1>4. AllLines' = AllLines /\ Sentinels' = Sentinels BY <1>3 DEF AllLines, Sentinels, Stream!total
<1>5. QED BY <1>1, <1>2, <1>3, <1>4 DEF StreamInv

LEMMA LineMoves ==
    ASSUME NEW S, NEW y \in Seq(S), NEW l \in Seq(S), l # <<>>
    PROVE  Append(y, Head(l)) \o Tail(l) = y \o l
<1>1. Head(l) \in S /\ Tail(l) \in Seq(S) /\ Len(Tail(l)) = Len(l) - 1
      /\ \A i \in 1 .. Len(Tail(l)) : Tail(l)[i] = l[i + 1]
  BY HeadTailProperties
<1>2. Append(y, Head(l)) \in Seq(S) /\ Len(Append(y, Head(l))) = Len(y) + 1
  BY <1>1
<1>3. PICK i \in Nat, k \in Nat : i = Len(y) /\ k = Len(l)
  BY Zenon, LenProperties
<1>4. Len(Append(y, Head(l)) \o Tail(l)) = i + k /\ Len(y \o l) = i + k
  BY <1>1, <1>2, <1>3
<1>5. ASSUME NEW n \in 1 .. i + k PROVE (Append(y, Head(l)) \o Tail(l))[n] = (y \o l)[n]
  <2>1. CASE n <= i
    <3>1. (Append(y, Head(l)) \o Tail(l))[n] = Append(y, Head(l))[n] BY <1>1, <1>2, <1>3, <2>1
    <3>2. Append(y, Head(l))[n] = y[n] /\ (y \o l)[n] = y[n] BY <1>3, <2>1
    <3>3. QED BY <3>1, <3>2
  <2>2. CASE n = i + 1
    <3>1. (Append(y, Head(l)) \o Tail(l))[n] = Append(y, Head(l))[n] BY <1>1, <1>2, <1>3, <2>2
    <3>2. Append(y, Head(l))[n] = Head(l) /\ (y \o l)[n] = l[1] BY <1>1, <1>3, <2>2
    <3>3. Head(l) = l[1] OBVIOUS
    <3>4. QED BY <3>1, <3>2, <3>3
  <2>3. CASE n > i + 1
    <3>1. (Append(y, Head(l)) \o Tail(l))[n] = Tail(l)[n - (i + 1)] BY <1>1, <1>2, <1>3, <2>3
    <3>2. Tail(l)[n - (i + 1)] = l[n - i] BY <1>1, <1>3, <2>3
    <3>3. (y \o l)[n] = l[n - i] BY <1>3, <2>3
    <3>4. QED BY <3>1, <3>2, <3>3
  <2>4. n <= i \/ n = i + 1 \/ n > i + 1 OBVIOUS
  <2>5. QED BY <2>1, <2>2, <2>3, <2>4
<1>6. QED
  <2>1. Append(y, Head(l)) \o Tail(l) \in Seq(S) /\ y \o l \in Seq(S) BY <1>1, <1>2
  <2>2. QED BY <1>4, <1>5, <2>1, SeqEqual

\* A task that ends adds its line, the last one the sentinel behind it.
LEMMA EndsStep ==
    ASSUME StreamInv, NEW w \in Samples, w \notin DoneTasks,
           NEW how \in {"sent", "skipped"}, Stream!Ends(w, how)
    PROVE  StreamInv'
<1> DEFINE T == Samples \cup {EndOfStream}
           tail == Stream!TailOf(w)
           tot == Stream!total
<1>1. EndOfStream \notin Samples BY ServiceAssumption
<1>2. sampling' \in [Samples -> {"waiting", "sampling", "asking", "sent", "skipped"}]
      /\ DoneTasks' = DoneTasks \cup {w}
  BY DEF StreamInv, Stream!Ends, DoneTasks
<1>3. lines' = lines \o tail /\ completed' = completed + 1 /\ UNCHANGED <<yielded, client>>
  BY DEF Stream!Ends, Stream!CompletedBy
<1>4. DoneTasks \subseteq Samples /\ DoneTasks' \subseteq Samples BY DEF DoneTasks
<1>5. completed = Cardinality(DoneTasks) BY DEF StreamInv
<1>6. PICK c \in Nat : c = completed
  BY <1>4, <1>5, StreamSizes
<1>7. completed' = c + 1 /\ c + 1 = Cardinality(DoneTasks') /\ c + 1 <= tot /\ tot \in Nat
  <2>1. Cardinality(DoneTasks \cup {w}) = Cardinality(DoneTasks) + 1 BY <1>4, StreamSizes
  <2>2. Cardinality(DoneTasks') <= tot /\ tot \in Nat BY <1>4, StreamSizes
  <2>3. QED BY <1>2, <1>3, <1>5, <1>6, <2>1, <2>2
<1>8. tot' = tot BY DEF Stream!total
<1>9. Sentinels = 0 /\ Sentinels' = IF c + 1 = tot THEN 1 ELSE 0
  <2>1. c # tot BY <1>7, <1>6
  <2>2. tot # 0 BY <1>7
  <2>3. QED BY <1>6, <1>7, <1>8, <2>1, <2>2 DEF Sentinels
<1>10. yielded \in Seq(T) /\ lines \in Seq(T) /\ AllLines \in Seq(T) /\ Len(AllLines) = c
  <2>1. yielded \in Seq(T) /\ lines \in Seq(T) BY DEF StreamInv
  <2>2. AllLines \in Seq(T) BY <2>1 DEF AllLines
  <2>3. Len(AllLines) = c + 0 BY <1>6, <1>9 DEF StreamInv
  <2>4. QED BY <2>1, <2>2, <2>3
<1>11. tail = IF c + 1 >= tot THEN <<w, EndOfStream>> ELSE <<w>>
  BY <1>6 DEF Stream!TailOf
<1>12. tail \in Seq(T) /\ Len(tail) = 1 + Sentinels' /\ tail[1] = w
       /\ (Sentinels' = 1 => tail[2] = EndOfStream)
  <2>1. CASE c + 1 = tot
    <3>1. tail = <<w, EndOfStream>> /\ Sentinels' = 1 BY <1>7, <1>9, <1>11, <2>1
    <3>2. QED BY <3>1
  <2>2. CASE c + 1 # tot
    <3>1. tail = <<w>> /\ Sentinels' = 0 BY <1>7, <1>9, <1>11, <2>2
    <3>2. QED BY <3>1
  <2>3. QED BY <2>1, <2>2
<1> HIDE DEF tail
<1>13. AllLines' = AllLines \o tail
  <2>1. AllLines' = yielded \o (lines \o tail) BY <1>3 DEF AllLines
  <2>2. (yielded \o lines) \o tail = yielded \o (lines \o tail)
    BY <1>10, <1>12, ConcatAssociative
  <2>3. QED BY <2>1, <2>2 DEF AllLines
<1>14. lines' \in Seq(T) BY <1>3, <1>10, <1>12
<1>15. Sentinels' \in {0, 1} BY <1>9
<1>16. Len(AllLines') = (c + 1) + Sentinels'
  <2>1. Len(AllLines \o tail) = c + (1 + Sentinels') BY <1>10, <1>12, ConcatProperties
  <2>2. c + (1 + Sentinels') = (c + 1) + Sentinels' BY <1>15
  <2>3. QED BY <1>13, <2>1, <2>2
<1>17. /\ \A n \in 1 .. c : AllLines'[n] = AllLines[n]
       /\ AllLines'[c + 1] = w
       /\ Sentinels' = 1 => AllLines'[c + 2] = EndOfStream
  <2>1. PICK e \in Nat : e = Sentinels' BY <1>15
  <2>2. Len(tail) = 1 + e BY <1>12, <2>1
  <2>3. \A n \in 1 .. c + (1 + e) :
            (AllLines \o tail)[n] = IF n <= c THEN AllLines[n] ELSE tail[n - c]
    <3>1. \A n \in 1 .. Len(AllLines) + Len(tail) :
              (AllLines \o tail)[n] = IF n <= Len(AllLines) THEN AllLines[n] ELSE tail[n - Len(AllLines)]
      BY <1>10, <1>12, ConcatProperties
    <3>2. QED BY <1>10, <2>2, <3>1
  <2>4. ASSUME NEW n \in 1 .. c PROVE (AllLines \o tail)[n] = AllLines[n]
    <3>1. n \in 1 .. c + (1 + e) /\ n <= c OBVIOUS
    <3>2. QED BY <2>3, <3>1
  <2>5. (AllLines \o tail)[c + 1] = tail[1]
    <3>1. c + 1 \in 1 .. c + (1 + e) /\ ~(c + 1 <= c) /\ (c + 1) - c = 1 OBVIOUS
    <3>2. QED BY <2>3, <3>1
  <2>6. ASSUME e = 1 PROVE (AllLines \o tail)[c + 2] = tail[2]
    <3>1. c + 2 \in 1 .. c + (1 + e) /\ ~(c + 2 <= c) /\ (c + 2) - c = 2 BY <2>6
    <3>2. QED BY <2>3, <3>1
  <2>7. QED BY <1>12, <1>13, <2>1, <2>4, <2>5, <2>6
<1>18. /\ \A n \in 1 .. c : AllLines[n] \in DoneTasks
       /\ \A m, n \in 1 .. c : AllLines[m] = AllLines[n] => m = n
       /\ \A v \in DoneTasks : \E n \in 1 .. c : AllLines[n] = v
  BY <1>6 DEF StreamInv
<1>19. \A n \in 1 .. c + 1 : n \in 1 .. c \/ n = c + 1 OBVIOUS
<1>20. \A n \in 1 .. c + 1 : AllLines'[n] \in DoneTasks'
  BY <1>2, <1>17, <1>18, <1>19
<1>21. \A m, n \in 1 .. c + 1 : AllLines'[m] = AllLines'[n] => m = n
  BY <1>17, <1>18, <1>19
<1>22. \A v \in DoneTasks' : \E n \in 1 .. c + 1 : AllLines'[n] = v
  <2>1. ASSUME NEW v \in DoneTasks PROVE \E n \in 1 .. c + 1 : AllLines'[n] = v
    <3>1. PICK n \in 1 .. c : AllLines[n] = v BY <1>18
    <3>2. n \in 1 .. c + 1 /\ AllLines'[n] = v BY <1>17, <3>1
    <3>3. QED BY <3>2
  <2>2. \E n \in 1 .. c + 1 : AllLines'[n] = w
    <3>1. c + 1 \in 1 .. c + 1 OBVIOUS
    <3>2. QED BY <1>17, <3>1
  <2>3. QED BY <1>2, <2>1, <2>2
<1>23. Sentinels' = 1 => AllLines'[completed' + 1] = EndOfStream
  <2>1. completed' + 1 = c + 2 BY <1>7
  <2>2. QED BY <1>17, <2>1
<1>24. yielded' \in Seq(Samples) /\ client' \in {"open", "closed", "gone"}
       /\ (client' = "open" /\ tot # 0 => Len(yielded') < tot)
       /\ (client' = "closed" => Len(yielded') = tot)
  BY <1>3 DEF StreamInv
<1>25. QED
  BY <1>2, <1>7, <1>8, <1>14, <1>16, <1>20, <1>21, <1>22, <1>23, <1>24 DEF StreamInv

\* The client takes the next line; the sentinel is never among those it needs.
LEMMA YieldStep == ASSUME StreamInv, Stream!Yield PROVE StreamInv'
<1> DEFINE T == Samples \cup {EndOfStream}
           tot == Stream!total
<1>1. client = "open" /\ lines # <<>> /\ lines' = Tail(lines) /\ UNCHANGED <<sampling, completed>>
  BY DEF Stream!Yield
<1>2. yielded \in Seq(Samples) /\ yielded \in Seq(T) /\ lines \in Seq(T)
  BY DEF StreamInv
<1>3. DoneTasks' = DoneTasks /\ tot' = tot /\ Sentinels' = Sentinels
  BY <1>1 DEF DoneTasks, Stream!total, Sentinels
<1>4. PICK c \in Nat, i \in Nat, k \in Nat : c = completed /\ i = Len(yielded) /\ k = Len(lines)
  <2>1. DoneTasks \subseteq Samples BY DEF DoneTasks
  <2>2. completed \in Nat BY <2>1, StreamSizes DEF StreamInv
  <2>3. Len(yielded) \in Nat /\ Len(lines) \in Nat BY <1>2
  <2>4. QED BY <2>2, <2>3, Zenon
<1>5. tot \in Nat /\ c <= tot /\ k > 0
  <2>1. DoneTasks \subseteq Samples BY DEF DoneTasks
  <2>2. c = Cardinality(DoneTasks) BY <1>4 DEF StreamInv
  <2>3. k > 0 BY <1>1, <1>2, <1>4
  <2>4. QED BY <2>1, <2>2, <2>3, StreamSizes
<1>6. i + k = c + Sentinels /\ Sentinels \in {0, 1} /\ (Sentinels = 1 => c = tot /\ tot # 0)
  <2>1. Len(AllLines) = i + k BY <1>2, <1>4, ConcatProperties DEF AllLines
  <2>2. Len(AllLines) = c + Sentinels BY <1>4 DEF StreamInv
  <2>3. Sentinels \in {0, 1} /\ (Sentinels = 1 => c = tot /\ tot # 0) BY <1>4 DEF Sentinels
  <2>4. QED BY <2>1, <2>2, <2>3
<1>7. tot # 0 /\ i < tot
  <2>1. tot # 0
    <3>1. SUFFICES ASSUME tot = 0 PROVE FALSE OBVIOUS
    <3>2. c = 0 /\ Sentinels = 0 BY <1>5, <1>6, <3>1
    <3>3. QED BY <1>5, <1>6, <3>2
  <2>2. QED BY <1>1, <1>4, <2>1 DEF StreamInv
<1>8. i + 1 <= c
  <2>1. CASE Sentinels = 1 BY <1>6, <1>7, <2>1
  <2>2. CASE Sentinels = 0 BY <1>5, <1>6, <2>2
  <2>3. QED BY <1>6, <2>1, <2>2
<1>9. Head(lines) \in Samples
  <2>1. AllLines[i + 1] = lines[1] BY <1>2, <1>4, <1>5 DEF AllLines
  <2>2. i + 1 \in 1 .. c BY <1>8
  <2>3. AllLines[i + 1] \in DoneTasks BY <1>4, <2>2 DEF StreamInv
  <2>4. Head(lines) = lines[1] BY <1>1
  <2>5. QED BY <2>1, <2>3, <2>4 DEF DoneTasks
<1>10. /\ yielded' = Append(yielded, Head(lines))
       /\ client' = IF Len(yielded') < tot THEN "open" ELSE "closed"
  BY <1>9, ServiceAssumption DEF Stream!Yield
<1>11. AllLines' = AllLines
  <2>1. AllLines' = Append(yielded, Head(lines)) \o Tail(lines) BY <1>1, <1>10 DEF AllLines
  <2>2. QED BY <1>1, <1>2, <2>1, LineMoves DEF AllLines
<1>12. lines' \in Seq(T) /\ yielded' \in Seq(Samples) /\ Len(yielded') = i + 1
  BY <1>1, <1>2, <1>4, <1>9, <1>10, HeadTailProperties
<1>13. /\ client' \in {"open", "closed", "gone"}
       /\ client' = "open" => Len(yielded') < tot
       /\ client' = "closed" => Len(yielded') = tot
  BY <1>5, <1>7, <1>10, <1>12
<1>14. QED BY <1>1, <1>3, <1>11, <1>12, <1>13 DEF StreamInv

LEMMA StreamStep ==
    ASSUME StreamInv, Stream!Next \/ UNCHANGED StreamVars
    PROVE  StreamInv'
<1>1. CASE UNCHANGED StreamVars
  BY <1>1 DEF StreamVars, StreamInv, DoneTasks, AllLines, Sentinels, Stream!total
<1>2. CASE Stream!Yield BY <1>2, YieldStep
<1>3. CASE Stream!Leave
  <2>1. UNCHANGED <<sampling, lines, completed, yielded>> /\ client' = "gone" BY <1>3 DEF Stream!Leave
  <2>2. DoneTasks' = DoneTasks /\ AllLines' = AllLines /\ Sentinels' = Sentinels
    BY <2>1 DEF DoneTasks, AllLines, Sentinels, Stream!total
  <2>3. QED BY <2>1, <2>2 DEF StreamInv
<1>4. ASSUME NEW w \in Samples, Stream!Work(w) PROVE StreamInv'
  <2>1. CASE Stream!Enter(w) \/ Stream!Sampled(w) BY <2>1, WaitStep
  <2>2. CASE Stream!Answered(w)
    BY <2>2, EndsStep DEF Stream!Answered, DoneTasks
  <2>3. CASE Stream!Skipped(w)
    BY <2>3, EndsStep DEF Stream!Skipped, DoneTasks
  <2>4. QED BY <1>4, <2>1, <2>2, <2>3 DEF Stream!Work
<1>5. QED BY <1>1, <1>2, <1>3, <1>4 DEF Stream!Next

\* A stream that was closed has sent the line of every task.
LEMMA StreamComplete == ASSUME StreamInv PROVE Stream!EverySampleIsSent
<1>1. SUFFICES ASSUME client = "closed"
               PROVE  Stream!IsInjective(yielded) /\ Stream!ToSet(yielded) = Samples
  BY DEF Stream!EverySampleIsSent
<1> DEFINE tot == Stream!total
           T == Samples \cup {EndOfStream}
<1>2. yielded \in Seq(Samples) /\ yielded \in Seq(T) /\ lines \in Seq(T) /\ Len(yielded) = tot
      /\ completed = Cardinality(DoneTasks)
  BY <1>1 DEF StreamInv
<1>3. DoneTasks \subseteq Samples BY DEF DoneTasks
<1>4. completed \in Nat /\ completed <= tot /\ tot \in Nat BY <1>2, <1>3, StreamSizes
<1>5. tot <= completed
  <2>1. PICK k \in Nat : k = Len(lines) BY <1>2
  <2>2. Len(AllLines) = tot + k BY <1>2, <2>1, ConcatProperties DEF AllLines
  <2>3. Len(AllLines) = completed + Sentinels BY DEF StreamInv
  <2>4. Sentinels = 0 \/ (Sentinels = 1 /\ completed = tot) BY DEF Sentinels
  <2>5. QED BY <1>4, <2>1, <2>2, <2>3, <2>4
<1>6. completed = tot /\ DoneTasks = Samples
  <2>1. completed = tot BY <1>4, <1>5
  <2>2. QED BY <1>2, <1>3, <2>1, StreamSizes
<1>7. \A n \in 1 .. tot : AllLines[n] = yielded[n] BY <1>2, <1>4 DEF AllLines
<1>8. DOMAIN yielded = 1 .. tot BY <1>2
<1>9. /\ \A n \in 1 .. tot : yielded[n] \in Samples
      /\ \A m, n \in 1 .. tot : yielded[m] = yielded[n] => m = n
      /\ \A w \in Samples : \E n \in 1 .. tot : yielded[n] = w
  <2>1. /\ \A m, n \in 1 .. tot : AllLines[m] = AllLines[n] => m = n
        /\ \A w \in Samples : \E n \in 1 .. tot : AllLines[n] = w
    BY <1>6 DEF StreamInv
  <2>2. \A n \in 1 .. tot : yielded[n] \in Samples BY <1>2, <1>8
  <2>3. QED BY <1>7, <2>1, <2>2
<1>10. QED BY <1>8, <1>9 DEF Stream!IsInjective, Stream!ToSet

-----------------------------------------------------------------------------
(* The ingest jobs: proofs.                                                *)

JobStages == Ingest!Steps \cup Ingest!Tells \cup Ingest!Ends

LEMMA FollowsAre ==
    ASSUME NEW j
    PROVE  /\ stage[j] = "extracting" => Ingest!Follows(j) = "extract"
           /\ stage[j] = "extract" =>
                 Ingest!Follows(j) = IF kind[j] = "stream" THEN "resolving" ELSE "resolve"
           /\ stage[j] = "resolving" => Ingest!Follows(j) = "resolve"
           /\ stage[j] = "resolve" =>
                 Ingest!Follows(j) = IF kind[j] = "stream" THEN "writing" ELSE "write"
           /\ stage[j] = "writing" => Ingest!Follows(j) = "write"
           /\ stage[j] = "write" =>
                 Ingest!Follows(j) = IF kind[j] = "stream" THEN "node" ELSE "answer"
           /\ stage[j] = "node" => Ingest!Follows(j) = "edge"
           /\ stage[j] = "edge" => Ingest!Follows(j) = "done"
           /\ stage[j] = "done" => Ingest!Follows(j) = "ok"
           /\ stage[j] = "answer" => Ingest!Follows(j) = "ok"
           /\ stage[j] = "error" => Ingest!Follows(j) = "failed"
BY DEF Ingest!Follows

LEMMA IngestInit == ASSUME Ingest!Init PROVE IngestInv
<1> USE DEF Ingest!Init
<1>1. MaxJobFaults \in Nat BY ServiceAssumption
<1>2. <<>> \in Seq(Ingest!Tells) BY EmptySeq
<1>3. inbox \in [Sockets -> [Jobs -> Seq(Ingest!Tells)]] /\ emitted \in [Jobs -> Seq(Ingest!Tells)]
  BY <1>2
<1>4. IngestTypes
  BY <1>1, <1>3 DEF IngestTypes, Ingest!Kinds, Ingest!Steps
<1>5. Broadcasts /\ Ingest!WatcherSeesJob BY DEF Broadcasts, Ingest!WatcherSeesJob
<1>6. ASSUME NEW j \in Jobs PROVE JobShape(j) /\ EndsOnce(j)
  BY DEF JobShape, EndsOnce, Ingest!Tells
<1>7. QED BY <1>4, <1>5, <1>6 DEF IngestInv

\* A job goes to its next step, and tells of it those who are there.
LEMMA GotoStep ==
    ASSUME IngestInv, NEW j \in Jobs, NEW at \in JobStages, Ingest!Goto(j, at),
           sending[j] = {}, stage[j] \notin Ingest!Ends,
           stage[j] \in {"done", "error"} => at \in Ingest!Ends,
           UNCHANGED <<socket, inbox, early>>,
           kind' \in [Jobs -> Ingest!Kinds \cup {"none"}],
           payload' \in [Jobs -> SUBSET {"entities", "source"}],
           corpses' \in [Jobs -> SUBSET Sockets],
           written' \subseteq Jobs, written \subseteq written',
           jobFaults' \in 0 .. MaxJobFaults,
           \A i \in Jobs \ {j} : kind'[i] = kind[i] /\ payload'[i] = payload[i],
           connected' \subseteq Sockets, \A w \in Sockets : socket[w] = "on" => w \in connected',
           \A i \in Jobs : \A w \in corpses'[i] : socket[w] = "gone",
           kind'[j] # "none", at # "new",
           at \in Ingest!Tells => kind'[j] = "stream",
           at \in {"node", "edge", "done", "answer", "ok"} => j \in written',
           kind'[j] \in {"text", "image"} /\ at \in {"resolve", "write", "answer", "ok"}
               => "source" \in payload'[j]
    PROVE  IngestInv'
<1>1. IngestTypes /\ Broadcasts /\ Ingest!WatcherSeesJob /\ (\A i \in Jobs : JobShape(i) /\ EndsOnce(i))
  BY DEF IngestInv
<1>2. /\ stage' \in [Jobs -> JobStages] /\ stage'[j] = at
      /\ \A i \in Jobs \ {j} : stage'[i] = stage[i] /\ sending'[i] = sending[i] /\ emitted'[i] = emitted[i]
      /\ sending' \in [Jobs -> SUBSET Sockets]
      /\ sending'[j] = IF at \in Ingest!Tells THEN connected' ELSE {}
      /\ emitted'[j] = IF at \in Ingest!Tells THEN Append(emitted[j], at) ELSE emitted[j]
      /\ DOMAIN emitted' = Jobs /\ emitted' = [i \in Jobs |-> emitted'[i]]
  <2>1. IngestTypes BY <1>1
  <2>2. QED BY <2>1 DEF IngestTypes, Ingest!Goto, JobStages
<1>3. emitted[j] \in Seq(Ingest!Tells) /\ emitted'[j] \in Seq(Ingest!Tells)
  BY <1>1, <1>2 DEF IngestTypes
<1>4. \A i \in Jobs : emitted'[i] \in Seq(Ingest!Tells)
  BY <1>1, <1>2, <1>3 DEF IngestTypes
<1>5. emitted' \in [Jobs -> Seq(Ingest!Tells)]
  BY <1>2, <1>4
<1>6. IngestTypes' BY <1>1, <1>2, <1>5 DEF IngestTypes, JobStages
<1>7. Broadcasts' BY <1>1, <1>2 DEF Broadcasts
<1>8. Ingest!WatcherSeesJob'
  <2>1. SUFFICES ASSUME NEW w \in Sockets, NEW i \in Jobs, socket[w] = "on", i \notin early[w]
                 PROVE  emitted'[i] = inbox[w][i] \o (IF w \in sending'[i] THEN <<stage'[i]>> ELSE <<>>)
    BY DEF Ingest!WatcherSeesJob
  <2>2. emitted[i] = inbox[w][i] \o (IF w \in sending[i] THEN <<stage[i]>> ELSE <<>>)
    BY <1>1, <2>1 DEF Ingest!WatcherSeesJob
  <2>3. CASE i # j BY <1>2, <2>2, <2>3
  <2>4. CASE i = j
    <3>1. inbox[w][j] \in Seq(Ingest!Tells) BY <1>1 DEF IngestTypes
    <3>2. emitted[j] = inbox[w][j] BY <2>2, <2>4, <3>1, ConcatEmptySeq
    <3>3. w \in connected' BY <2>1
    <3>4. CASE at \in Ingest!Tells
      <4>1. emitted'[j] = Append(inbox[w][j], at) /\ w \in sending'[j] BY <1>2, <3>2, <3>3, <3>4
      <4>2. Append(inbox[w][j], at) = inbox[w][j] \o <<at>>
        <5>1. \A s \in Seq(Ingest!Tells), e \in Ingest!Tells : Append(s, e) = s \o <<e>>
          BY AppendIsConcat
        <5>2. QED BY <3>1, <3>4, <5>1, Zenon
      <4>3. QED BY <1>2, <2>4, <4>1, <4>2
    <3>5. CASE at \notin Ingest!Tells
      <4>1. emitted'[j] = inbox[w][j] /\ w \notin sending'[j] BY <1>2, <3>2, <3>5
      <4>2. inbox[w][j] = inbox[w][j] \o <<>> BY <3>1, ConcatEmptySeq
      <4>3. QED BY <2>4, <4>1, <4>2
    <3>6. QED BY <3>4, <3>5
  <2>5. QED BY <2>3, <2>4
<1>9. ASSUME NEW i \in Jobs PROVE JobShape(i)' /\ EndsOnce(i)'
  <2>1. JobShape(i) /\ EndsOnce(i) BY <1>1
  <2>2. CASE i # j
    <3>1. stage'[i] = stage[i] /\ emitted'[i] = emitted[i] /\ kind'[i] = kind[i] /\ payload'[i] = payload[i]
      BY <1>2, <2>2
    <3>2. QED BY <2>1, <3>1 DEF JobShape, EndsOnce
  <2>3. CASE i = j
    <3>1. JobShape(j)' BY <1>2 DEF JobShape
    <3>2. EndsOnce(j)'
      <4>1. CASE at \notin Ingest!Tells
        <5>1. emitted'[j] = emitted[j] /\ stage'[j] = at BY <1>2, <4>1
        <5>2. (stage[j] \in {"done", "error"} \cup Ingest!Ends) => at \in Ingest!Ends OBVIOUS
        <5>3. QED BY <2>1, <2>3, <5>1, <5>2 DEF EndsOnce
      <4>2. CASE at \in Ingest!Tells
        <5>1. PICK l \in Nat : l = Len(emitted[j]) BY <1>3
        <5>2. emitted'[j] = Append(emitted[j], at) BY <1>2, <4>2
        <5>3. Len(emitted'[j]) = l + 1 /\ emitted'[j][l + 1] = at
              /\ \A n \in 1 .. l : emitted'[j][n] = emitted[j][n]
          BY <1>3, <5>1, <5>2
        <5>4. stage[j] \notin {"done", "error"} BY <4>2 DEF Ingest!Tells, Ingest!Ends
        <5>5. \A n \in 1 .. l : emitted[j][n] \notin {"done", "error"}
          BY <2>1, <2>3, <5>1, <5>4 DEF EndsOnce
        <5>6. \A n \in 1 .. l + 1 : n \in 1 .. l \/ n = l + 1 OBVIOUS
        <5>7. stage'[j] = at BY <1>2
        <5>8. at = "done" => j \in written' OBVIOUS
        <5>9. QED BY <5>3, <5>5, <5>6, <5>7, <5>8 DEF EndsOnce
      <4>3. QED BY <4>1, <4>2
    <3>3. QED BY <2>3, <3>1, <3>2
  <2>4. QED BY <2>2, <2>3
<1>10. QED BY <1>6, <1>7, <1>8, <1>9 DEF IngestInv

\* What GotoStep asks of a step of a job that stands at a step of its own.
LEMMA JobSteps ==
    ASSUME IngestInv, NEW j \in Jobs,
           \/ Ingest!Extract(j) \/ Ingest!Resolve(j) \/ Ingest!Write(j) \/ Ingest!Answer(j)
           \/ Ingest!Fail(j) \/ Ingest!EndBroadcast(j)
           \/ \E k \in Ingest!Kinds : Ingest!Begin(j, k)
    PROVE  IngestInv'
<1>1. IngestTypes /\ Broadcasts /\ JobShape(j) BY DEF IngestInv
<1>2. /\ connected \subseteq Sockets /\ \A w \in Sockets : socket[w] = "on" => w \in connected
      /\ \A i \in Jobs : \A w \in corpses[i] : socket[w] = "gone"
      /\ stage[j] \notin Ingest!Tells => sending[j] = {}
      /\ kind \in [Jobs -> Ingest!Kinds \cup {"none"}] /\ payload \in [Jobs -> SUBSET {"entities", "source"}]
      /\ corpses \in [Jobs -> SUBSET Sockets] /\ written \subseteq Jobs /\ jobFaults \in 0 .. MaxJobFaults
  BY <1>1 DEF IngestTypes, Broadcasts
<1>3. MaxJobFaults \in Nat BY ServiceAssumption
<1>4. kind[j] \in Ingest!Kinds \cup {"none"} BY <1>2
<1> USE DEF Ingest!Tells, Ingest!Ends, Ingest!Steps, JobStages
<1>5. ASSUME NEW k \in Ingest!Kinds, Ingest!Begin(j, k) PROVE IngestInv'
  <2>1. /\ stage[j] = "new" /\ kind' = [kind EXCEPT ![j] = k]
        /\ UNCHANGED <<connected, corpses, payload, written, socket, inbox, early, jobFaults>>
    BY <1>5 DEF Ingest!Begin
  <2>2. kind' \in [Jobs -> Ingest!Kinds \cup {"none"}] /\ kind'[j] = k
        /\ \A i \in Jobs \ {j} : kind'[i] = kind[i]
    BY <1>2, <2>1
  <2>3. k # "none" BY DEF Ingest!Kinds
  <2>4. PICK at \in {"extracting", "resolve", "extract"} :
            /\ Ingest!Goto(j, at)
            /\ at = "extracting" => k = "stream"
            /\ at = "resolve" => k = "graph"
    <3>1. CASE k = "stream" BY <1>5, <3>1 DEF Ingest!Begin
    <3>2. CASE k = "graph" BY <1>5, <3>2 DEF Ingest!Begin
    <3>3. CASE k \in {"text", "image"} BY <1>5, <3>3 DEF Ingest!Begin
    <3>4. QED BY <3>1, <3>2, <3>3 DEF Ingest!Kinds
  <2>5. /\ kind'[j] # "none" /\ at # "new" /\ at \in JobStages /\ stage[j] \notin Ingest!Ends
        /\ stage[j] \notin {"done", "error"} /\ sending[j] = {}
        /\ at \notin {"node", "edge", "done", "answer", "ok"}
        /\ at \in Ingest!Tells => kind'[j] = "stream"
        /\ ~(kind'[j] \in {"text", "image"} /\ at \in {"resolve", "write", "answer", "ok"})
    BY <1>2, <2>1, <2>2, <2>3, <2>4
  <2>6. QED
    BY <1>2, <2>1, <2>2, <2>4, <2>5, GotoStep
<1>6. CASE Ingest!Extract(j)
  <2>1. /\ stage[j] = "extract"
        /\ UNCHANGED <<connected, kind, corpses, written, socket, inbox, early, jobFaults>>
    BY <1>6 DEF Ingest!Extract
  <2>2. PICK found \in SUBSET {"entities"} :
            payload' = [payload EXCEPT ![j] = found \cup Ingest!Attached(j, found)]
    BY <1>6 DEF Ingest!Extract
  <2>3. /\ payload' \in [Jobs -> SUBSET {"entities", "source"}]
        /\ \A i \in Jobs \ {j} : payload'[i] = payload[i]
        /\ kind[j] \in {"text", "image"} => "source" \in payload'[j]
    BY <1>2, <2>2 DEF Ingest!Attached
  <2>4. kind[j] # "none" BY <1>1, <2>1 DEF JobShape
  <2>5. PICK at \in {"resolving", "resolve"} : Ingest!Goto(j, at) /\ (at = "resolving" => kind[j] = "stream")
    <3>1. Ingest!Goto(j, Ingest!Follows(j)) BY <1>6 DEF Ingest!Extract
    <3>2. Ingest!Follows(j) = IF kind[j] = "stream" THEN "resolving" ELSE "resolve" BY <2>1, FollowsAre
    <3>3. QED BY <3>1, <3>2
  <2>6. QED BY <1>2, <2>1, <2>3, <2>4, <2>5, GotoStep
<1>7. CASE Ingest!Resolve(j)
  <2>1. /\ stage[j] = "resolve"
        /\ UNCHANGED <<connected, kind, corpses, payload, written, socket, inbox, early, jobFaults>>
    BY <1>7 DEF Ingest!Resolve
  <2>2. kind[j] # "none" /\ (kind[j] \in {"text", "image"} => "source" \in payload[j])
    BY <1>1, <2>1 DEF JobShape
  <2>3. PICK at \in {"writing", "write"} : Ingest!Goto(j, at) /\ (at = "writing" => kind[j] = "stream")
    <3>1. Ingest!Goto(j, Ingest!Follows(j)) BY <1>7 DEF Ingest!Resolve
    <3>2. Ingest!Follows(j) = IF kind[j] = "stream" THEN "writing" ELSE "write" BY <2>1, FollowsAre
    <3>3. QED BY <3>1, <3>2
  <2>4. QED BY <1>2, <2>1, <2>2, <2>3, GotoStep
<1>8. CASE Ingest!Write(j)
  <2>1. /\ stage[j] = "write" /\ written' = written \cup {j}
        /\ UNCHANGED <<connected, kind, corpses, payload, socket, inbox, early, jobFaults>>
    BY <1>8 DEF Ingest!Write
  <2>2. kind[j] # "none" /\ (kind[j] \in {"text", "image"} => "source" \in payload[j])
    BY <1>1, <2>1 DEF JobShape
  <2>3. PICK at \in {"node", "answer"} : Ingest!Goto(j, at) /\ (at = "node" => kind[j] = "stream")
    <3>1. Ingest!Goto(j, Ingest!Follows(j)) BY <1>8 DEF Ingest!Write
    <3>2. Ingest!Follows(j) = IF kind[j] = "stream" THEN "node" ELSE "answer" BY <2>1, FollowsAre
    <3>3. QED BY <3>1, <3>2
  <2>4. QED BY <1>2, <2>1, <2>2, <2>3, GotoStep
<1>9. CASE Ingest!Answer(j)
  <2>1. /\ stage[j] = "answer"
        /\ UNCHANGED <<connected, kind, corpses, payload, written, socket, inbox, early, jobFaults>>
    BY <1>9 DEF Ingest!Answer
  <2>2. kind[j] # "none" /\ (kind[j] \in {"text", "image"} => "source" \in payload[j]) /\ j \in written
    BY <1>1, <2>1 DEF JobShape
  <2>3. Ingest!Goto(j, "ok") BY <1>9, <2>1, FollowsAre DEF Ingest!Answer
  <2>4. QED BY <1>2, <2>1, <2>2, <2>3, GotoStep
<1>10. CASE Ingest!Fail(j)
  <2>1. /\ stage[j] \in {"extract", "resolve", "write", "answer"}
        /\ jobFaults' \in 0 .. MaxJobFaults /\ written \subseteq written' /\ written' \subseteq Jobs
        /\ UNCHANGED <<connected, kind, corpses, payload, socket, inbox, early>>
    BY <1>2, <1>3, <1>10 DEF Ingest!Fail, Ingest!Fault
  <2>2. kind[j] # "none" BY <1>1, <2>1 DEF JobShape
  <2>3. PICK at \in {"error", "failed"} : Ingest!Goto(j, at) /\ (at = "error" => kind[j] = "stream")
    BY <1>10 DEF Ingest!Fail
  <2>4. QED BY <1>2, <2>1, <2>2, <2>3, GotoStep
<1>11. CASE Ingest!EndBroadcast(j)
  <2>1. /\ stage[j] \in Ingest!Tells /\ sending[j] = {} /\ connected' = connected \ corpses[j]
        /\ corpses' = [corpses EXCEPT ![j] = {}]
        /\ UNCHANGED <<kind, payload, written, socket, inbox, early, jobFaults>>
    BY <1>11 DEF Ingest!EndBroadcast, Ingest!EndBroadcastOf
  <2>2. kind[j] = "stream" BY <1>1, <2>1 DEF JobShape
  <2>3. /\ connected' \subseteq Sockets /\ \A w \in Sockets : socket[w] = "on" => w \in connected'
        /\ corpses' \in [Jobs -> SUBSET Sockets]
        /\ \A i \in Jobs : \A w \in corpses'[i] : socket[w] = "gone"
    BY <1>2, <2>1
  <2>4. stage[j] \in {"node", "edge", "done"} => j \in written BY <1>1 DEF JobShape
  <2>5. PICK at \in {"extract", "resolve", "write", "edge", "done", "ok", "failed"} :
            /\ Ingest!Goto(j, at)
            /\ stage[j] \in {"done", "error"} => at \in Ingest!Ends
            /\ at \in {"edge", "done", "ok"} => j \in written
    <3>1. Ingest!Goto(j, Ingest!Follows(j)) BY <1>11 DEF Ingest!EndBroadcast
    <3>2. Ingest!Follows(j) = CASE stage[j] = "extracting" -> "extract"
                                [] stage[j] = "resolving" -> "resolve"
                                [] stage[j] = "writing" -> "write"
                                [] stage[j] = "node" -> "edge"
                                [] stage[j] = "edge" -> "done"
                                [] stage[j] = "done" -> "ok"
                                [] stage[j] = "error" -> "failed"
      BY <2>1, FollowsAre
    <3>3. QED BY <2>1, <2>4, <3>1, <3>2
  <2>6. QED BY <1>2, <2>1, <2>2, <2>3, <2>5, GotoStep
<1>12. QED BY <1>5, <1>6, <1>7, <1>8, <1>9, <1>10, <1>11

\* The watchers come and go: no job moves.
LEMMA WatcherSteps ==
    ASSUME IngestInv, NEW w \in Sockets,
           Ingest!Connect(w) \/ Ingest!Leave(w) \/ Ingest!Disconnect(w)
    PROVE  IngestInv'
<1>1. IngestTypes /\ Broadcasts /\ Ingest!WatcherSeesJob /\ (\A i \in Jobs : JobShape(i) /\ EndsOnce(i))
  BY DEF IngestInv
<1>2. UNCHANGED <<kind, stage, sending, corpses, payload, written, inbox, emitted, jobFaults>>
  BY DEF Ingest!Connect, Ingest!Leave, Ingest!Disconnect
<1>3. \A i \in Jobs : JobShape(i)' /\ EndsOnce(i)'
  BY <1>1, <1>2 DEF JobShape, EndsOnce
<1>4. IngestTypes' /\ Broadcasts'
  <2>1. CASE Ingest!Connect(w)
    BY <1>1, <1>2, <2>1 DEF IngestTypes, Broadcasts, Ingest!Connect
  <2>2. CASE Ingest!Leave(w)
    BY <1>1, <1>2, <2>2 DEF IngestTypes, Broadcasts, Ingest!Leave
  <2>3. CASE Ingest!Disconnect(w)
    BY <1>1, <1>2, <2>3 DEF IngestTypes, Broadcasts, Ingest!Disconnect
  <2>4. QED BY <2>1, <2>2, <2>3
<1>5. Ingest!WatcherSeesJob'
  <2>1. SUFFICES ASSUME NEW v \in Sockets, NEW i \in Jobs, socket'[v] = "on", i \notin early'[v]
                 PROVE  emitted[i] = inbox[v][i] \o (IF v \in sending[i] THEN <<stage[i]>> ELSE <<>>)
    BY <1>2 DEF Ingest!WatcherSeesJob
  <2>2. CASE socket[v] = "on" /\ i \notin early[v]
    BY <1>1, <2>2 DEF Ingest!WatcherSeesJob
  <2>3. CASE ~(socket[v] = "on" /\ i \notin early[v])
    <3>1. v = w /\ Ingest!Connect(w)
      BY <1>1, <2>1, <2>3 DEF IngestTypes, Ingest!Connect, Ingest!Leave, Ingest!Disconnect
    <3>2. kind[i] = "none" BY <1>1, <2>1, <3>1 DEF IngestTypes, Ingest!Connect
    <3>3. stage[i] = "new" /\ emitted[i] = <<>> /\ inbox[v][i] = <<>>
      BY <1>1, <3>2 DEF JobShape
    <3>4. sending[i] = {} BY <1>1, <3>3 DEF Broadcasts, Ingest!Tells
    <3>5. <<>> \o <<>> = <<>> OBVIOUS
    <3>6. QED BY <3>3, <3>4, <3>5
  <2>4. QED BY <2>2, <2>3
<1>6. QED BY <1>3, <1>4, <1>5 DEF IngestInv

\* The event reaches one more socket, or is found not to.
LEMMA SendSteps ==
    ASSUME IngestInv, NEW j \in Jobs, NEW w \in Sockets, Ingest!Send(j, w) \/ Ingest!SendFails(j, w)
    PROVE  IngestInv'
<1>1. IngestTypes /\ Broadcasts /\ Ingest!WatcherSeesJob /\ (\A i \in Jobs : JobShape(i) /\ EndsOnce(i))
  BY DEF IngestInv
<1>2. /\ UNCHANGED <<kind, stage, payload, written, connected, socket, emitted, early, jobFaults>>
      /\ w \in sending[j] /\ sending' = [sending EXCEPT ![j] = @ \ {w}]
  BY DEF Ingest!Send, Ingest!SendFails, Ingest!StillToSend
<1>3. stage[j] \in Ingest!Tells /\ stage[j] # "new" BY <1>1, <1>2 DEF Broadcasts, Ingest!Tells
<1>4. sending' \in [Jobs -> SUBSET Sockets] BY <1>1, <1>2 DEF IngestTypes
<1>5. CASE Ingest!Send(j, w)
  <2>1. inbox[w][j] \in Seq(Ingest!Tells) /\ Append(inbox[w][j], stage[j]) \in Seq(Ingest!Tells)
    BY <1>1, <1>3 DEF IngestTypes
  <2>2. /\ inbox' \in [Sockets -> [Jobs -> Seq(Ingest!Tells)]]
        /\ inbox'[w][j] = Append(inbox[w][j], stage[j])
        /\ \A v \in Sockets, i \in Jobs : v # w \/ i # j => inbox'[v][i] = inbox[v][i]
        /\ UNCHANGED corpses /\ socket[w] = "on"
    BY <1>1, <1>5, <2>1 DEF IngestTypes, Ingest!Send
  <2>3. IngestTypes' BY <1>1, <1>2, <1>4, <2>2 DEF IngestTypes
  <2>4. Broadcasts' BY <1>1, <1>2, <1>3, <2>2 DEF Broadcasts, IngestTypes
  <2>5. Ingest!WatcherSeesJob'
    <3>1. SUFFICES ASSUME NEW v \in Sockets, NEW i \in Jobs, socket[v] = "on", i \notin early[v]
                   PROVE  emitted[i] = inbox'[v][i] \o (IF v \in sending'[i] THEN <<stage[i]>> ELSE <<>>)
      BY <1>2 DEF Ingest!WatcherSeesJob
    <3>2. emitted[i] = inbox[v][i] \o (IF v \in sending[i] THEN <<stage[i]>> ELSE <<>>)
      BY <1>1, <3>1 DEF Ingest!WatcherSeesJob
    <3>3. CASE v # w \/ i # j
      <4>1. inbox'[v][i] = inbox[v][i] /\ (v \in sending'[i] <=> v \in sending[i])
        BY <1>1, <1>2, <2>2, <3>3 DEF IngestTypes
      <4>2. QED BY <3>2, <4>1
    <3>4. CASE v = w /\ i = j
      <4>1. w \notin sending'[j] BY <1>1, <1>2 DEF IngestTypes
      <4>2. emitted[j] = inbox[w][j] \o <<stage[j]>> BY <1>2, <3>2, <3>4
      <4>3. Append(inbox[w][j], stage[j]) = inbox[w][j] \o <<stage[j]>>
        <5>1. \A s \in Seq(Ingest!Tells), e \in Ingest!Tells : Append(s, e) = s \o <<e>>
          BY AppendIsConcat
        <5>2. QED BY <1>3, <2>1, <5>1, Zenon
      <4>4. inbox'[w][j] \o <<>> = inbox'[w][j] BY <2>1, <2>2, ConcatEmptySeq
      <4>5. QED BY <2>2, <3>4, <4>1, <4>2, <4>3, <4>4
    <3>5. QED BY <3>3, <3>4
  <2>6. ASSUME NEW i \in Jobs PROVE JobShape(i)' /\ EndsOnce(i)'
    <3>1. kind[i] = "none" => i # j BY <1>1, <1>3 DEF JobShape
    <3>2. JobShape(i)' BY <1>1, <1>2, <2>2, <3>1 DEF JobShape
    <3>3. EndsOnce(i)' BY <1>1, <1>2 DEF EndsOnce
    <3>4. QED BY <3>2, <3>3
  <2>7. QED BY <2>3, <2>4, <2>5, <2>6 DEF IngestInv
<1>6. CASE Ingest!SendFails(j, w)
  <2>1. socket[w] = "gone" /\ corpses' = [corpses EXCEPT ![j] = @ \cup {w}] /\ UNCHANGED inbox
    BY <1>6 DEF Ingest!SendFails
  <2>2. IngestTypes' BY <1>1, <1>2, <1>4, <2>1 DEF IngestTypes
  <2>3. Broadcasts' BY <1>1, <1>2, <1>3, <2>1 DEF Broadcasts, IngestTypes
  <2>4. Ingest!WatcherSeesJob'
    <3>1. SUFFICES ASSUME NEW v \in Sockets, NEW i \in Jobs, socket[v] = "on", i \notin early[v]
                   PROVE  emitted[i] = inbox[v][i] \o (IF v \in sending'[i] THEN <<stage[i]>> ELSE <<>>)
      BY <1>2, <2>1 DEF Ingest!WatcherSeesJob
    <3>2. emitted[i] = inbox[v][i] \o (IF v \in sending[i] THEN <<stage[i]>> ELSE <<>>)
      BY <1>1, <3>1 DEF Ingest!WatcherSeesJob
    <3>3. v # w BY <2>1, <3>1
    <3>4. v \in sending'[i] <=> v \in sending[i] BY <1>1, <1>2, <3>3 DEF IngestTypes
    <3>5. QED BY <3>2, <3>4
  <2>5. \A i \in Jobs : JobShape(i)' /\ EndsOnce(i)' BY <1>1, <1>2, <2>1 DEF JobShape, EndsOnce
  <2>6. QED BY <2>2, <2>3, <2>4, <2>5 DEF IngestInv
<1>7. QED BY <1>5, <1>6

\* The process stops, and with it every job that runs and every socket.
LEMMA CutJobsStep == ASSUME IngestInv, Ingest!Cut PROVE IngestInv'
<1>1. IngestTypes /\ Broadcasts /\ Ingest!WatcherSeesJob /\ (\A i \in Jobs : JobShape(i) /\ EndsOnce(i))
  BY DEF IngestInv
<1>2. /\ stage' = [j \in Jobs |-> IF stage[j] \in {"new"} \cup Ingest!Ends THEN stage[j] ELSE "cut"]
      /\ sending' = [j \in Jobs |-> {}] /\ corpses' = [j \in Jobs |-> {}]
      /\ connected' = {}
      /\ socket' = [w \in Sockets |-> IF socket[w] = "on" THEN "gone" ELSE socket[w]]
      /\ UNCHANGED <<kind, payload, written, inbox, emitted, early>>
      /\ jobFaults' \in 0 .. MaxJobFaults
  BY <1>1, ServiceAssumption DEF Ingest!Cut, Ingest!Fault, IngestTypes
<1>3. stage' \in [Jobs -> Ingest!Steps \cup Ingest!Tells \cup Ingest!Ends]
  BY <1>1, <1>2 DEF IngestTypes, Ingest!Ends, Ingest!Steps
<1>4. \A w \in Sockets : socket'[w] # "on" BY <1>2
<1>5. IngestTypes' BY <1>1, <1>2, <1>3 DEF IngestTypes
<1>6. Broadcasts' BY <1>2, <1>4 DEF Broadcasts
<1>7. Ingest!WatcherSeesJob' BY <1>4 DEF Ingest!WatcherSeesJob
<1>8. ASSUME NEW i \in Jobs PROVE JobShape(i)' /\ EndsOnce(i)'
  <2>1. JobShape(i) /\ EndsOnce(i) BY <1>1
  <2>2. CASE stage[i] \in {"new"} \cup Ingest!Ends
    <3>1. stage'[i] = stage[i] BY <1>2, <2>2
    <3>2. QED BY <1>2, <2>1, <3>1 DEF JobShape, EndsOnce
  <2>3. CASE stage[i] \notin {"new"} \cup Ingest!Ends
    <3>1. stage'[i] = "cut" /\ stage[i] # "new" BY <1>2, <2>3
    <3>2. JobShape(i)' BY <1>2, <2>1, <3>1 DEF JobShape, Ingest!Tells
    <3>3. EndsOnce(i)' BY <1>2, <2>1, <3>1 DEF EndsOnce, Ingest!Ends
    <3>4. QED BY <3>2, <3>3
  <2>4. QED BY <2>2, <2>3
<1>9. QED BY <1>5, <1>6, <1>7, <1>8 DEF IngestInv

LEMMA IngestStep ==
    ASSUME IngestInv, Ingest!Next \/ UNCHANGED IngestVars
    PROVE  IngestInv'
<1>1. CASE UNCHANGED IngestVars
  <2>1. UNCHANGED <<kind, stage, sending, corpses, payload, written, connected, socket, inbox, emitted,
                    early, jobFaults>>
    BY <1>1 DEF IngestVars
  <2>2. IngestTypes' /\ Broadcasts' BY <2>1 DEF IngestInv, IngestTypes, Broadcasts
  <2>3. Ingest!WatcherSeesJob' BY <2>1 DEF IngestInv, Ingest!WatcherSeesJob
  <2>4. \A i \in Jobs : JobShape(i)' /\ EndsOnce(i)' BY <2>1 DEF IngestInv, JobShape, EndsOnce
  <2>5. QED BY <2>2, <2>3, <2>4 DEF IngestInv
<1>2. CASE Ingest!Next
  <2>1. ASSUME NEW w \in Sockets, Ingest!Connect(w) \/ Ingest!Leave(w) \/ Ingest!Disconnect(w)
        PROVE  IngestInv'
    BY <2>1, WatcherSteps
  <2>2. ASSUME NEW j \in Jobs,
               Ingest!Progress(j) \/ Ingest!Fail(j) \/ \E k \in Ingest!Kinds : Ingest!Begin(j, k)
        PROVE  IngestInv'
    BY <2>2, JobSteps, SendSteps DEF Ingest!Progress
  <2>3. QED BY <1>2, <2>1, <2>2, CutJobsStep DEF Ingest!Next
<1>3. QED BY <1>1, <1>2

(* A watcher that is there has every event of every job begun since it came*)
(* once and in order, whoever else comes, goes or fails during a broadcast;*)
(* done is told once, last and only of what is in the graph; a text or an  *)
(* image answered with success is kept with its source; and a dataset      *)
(* stream the server closed has one line for each sample (IngestJobs and   *)
(* DatasetStream, ingest.py, ws_manager.py and synthesize.py).             *)
THEOREM JobsToldTruly == Spec => []JobsAreTold
<1>1. Init => IngestInv /\ StreamInv BY ServicesBegin, IngestInit, StreamInit
<1>2. IngestInv /\ StreamInv /\ [Next]_vars => IngestInv' /\ StreamInv'
  BY ServicesMove, IngestStep, StreamStep
<1>3. IngestInv /\ StreamInv => JobsAreTold
  <2> SUFFICES ASSUME IngestInv, StreamInv PROVE JobsAreTold OBVIOUS
  <2>1. Ingest!WatcherSeesJob /\ Stream!EverySampleIsSent BY StreamComplete DEF IngestInv
  <2>2. Ingest!SourceIsKept BY DEF IngestInv, JobShape, Ingest!SourceIsKept
  <2>3. Ingest!EndIsTrue
    <3>1. ASSUME NEW j \in Jobs
          PROVE  /\ stage[j] = "ok" => j \in written
                 /\ \A n \in DOMAIN emitted[j] :
                       /\ emitted[j][n] = "done" => j \in written
                       /\ emitted[j][n] \in {"done", "error"} => n = Len(emitted[j])
      <4>1. emitted[j] \in Seq(Ingest!Tells) BY DEF IngestInv, IngestTypes
      <4>2. DOMAIN emitted[j] = 1 .. Len(emitted[j]) BY <4>1
      <4>3. QED BY <4>2 DEF IngestInv, JobShape, EndsOnce
    <3>2. QED BY <3>1 DEF Ingest!EndIsTrue
  <2>4. QED BY <2>1, <2>2, <2>3 DEF JobsAreTold
<1>4. QED BY <1>1, <1>2, <1>3, PTL DEF Spec
=============================================================================
