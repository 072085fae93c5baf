---------------------------- MODULE SourceProofs ----------------------------
(***************************************************************************)
(* What the connectors and the records of the administration may be relied *)
(* on for, whatever the constants: URL and MCP syncs, the SQL connector and*)
(* the scheduled runs; the workflow log and the datasets.                  *)
(*                                                                         *)
(* Each section treats one component: how a step of the whole is a step of *)
(* the component, its inductive invariant, one proof per conjunct of the   *)
(* invariant with one case per action, and the property at the end.        *)
(***************************************************************************)
EXTENDS AdminProofs

-----------------------------------------------------------------------------
(* Syncs from URLs and MCP servers.                                        *)

LEMMA SyncBegins ==
    ASSUME AdminInit, focus = "sync"
    PROVE  Sync!Init
BY DEF AdminInit, AdminFocus

LEMMA SyncMoves ==
    ASSUME [AdminNext]_adminVars, focus' = "sync"
    PROVE  focus = "sync" /\ (Sync!Next \/ UNCHANGED SyncVars)
BY DEF AdminNext, AdminStays, adminVars

(* A request that has begun to read holds an object; what it parses was    *)
(* answered with a version it did not have.                                *)
Underway == {"read", "parse", "ingest", "ok"}
HoldsSound(q) ==
    /\ stage[q] \in Underway => holds[q] \in Syncs
    /\ stage[q] = "parse" => todo[q] # {} /\ answerOf[q] \in 1 .. MaxVersion
                             /\ base[q][Sync!Next1(q)] <= answerOf[q]

(* What is pending was noted; an error has named all of it.                *)
PendingSound(q) ==
    /\ pending[q] \subseteq records[q]
    /\ stage[q] \in {"new", "load"} => records[q] = {} /\ todo[q] = Sources
    /\ pending[q] # {} => stage[q] \in {"ingest", "error"}
    /\ stage[q] = "error" => records[q] \subseteq reported
    /\ stage[q] \in {"ingest", "ok"} => records[q] \subseteq ingested \cup pending[q] /\ todo[q] = {}
    /\ stage[q] = "ok" => pending[q] = {}

(* Every mark of every object, in the cache or still held by a request.    *)
MarksSettled ==
    /\ \A s \in Sources : inRedis[s] > 0 => <<s, inRedis[s]>> \in Sync!Settled
    /\ \A o \in Syncs, s \in Sources : heap[o][s] > 0 => <<s, heap[o][s]>> \in Sync!Settled

(* Versions only grow. *)
BaseSound ==
    /\ \A s \in Sources : version[s] >= 1
    /\ \A q \in Syncs : \A s \in Sources : base[q][s] <= version[s]

(* A source that is done has a version that is settled and new enough.     *)
FreshEnough(q, s) == \E v \in base[q][s] .. MaxVersion : <<s, v>> \in Sync!Settled
DoneIsFresh ==
    \A q \in Syncs : stage[q] \in Underway =>
        \A s \in Sources : s \in todo[q] \cup skipped[q] \/ FreshEnough(q, s)

SyncInv ==
    /\ Sync!TypeOK
    /\ \A q \in Syncs : HoldsSound(q)
    /\ \A q \in Syncs : PendingSound(q)
    /\ BaseSound /\ MarksSettled /\ DoneIsFresh

-----------------------------------------------------------------------------
LEMMA SyncInvInit == ASSUME Sync!Init PROVE SyncInv
<1> USE SourceAssumption DEF Sync!Init, Sync!Fresh
<1>1. Sync!TypeOK
  BY DEF Sync!TypeOK, Sync!States, Sync!Versions, Sync!Records, Sync!Stages
<1>2. \A q \in Syncs : stage[q] = "new" /\ pending[q] = {} /\ records[q] = {} /\ todo[q] = Sources
  OBVIOUS
<1>3. \A s \in Sources : inRedis[s] = 0 /\ \A o \in Syncs : heap[o][s] = 0
  OBVIOUS
<1>4. BaseSound
  BY DEF BaseSound
<1>5. QED BY <1>1, <1>2, <1>3, <1>4 DEF SyncInv, HoldsSound, PendingSound, Underway, MarksSettled, DoneIsFresh

(* The type invariant, read as a record of what is needed. *)
SyncTyped ==
    /\ version \in [Sources -> 0 .. MaxVersion] /\ inRedis \in [Sources -> 0 .. MaxVersion]
    /\ heap \in [Syncs -> [Sources -> 0 .. MaxVersion]] /\ base \in [Syncs -> [Sources -> 0 .. MaxVersion]]
    /\ holds \in [Syncs -> Syncs \cup {NoObject}] /\ stage \in [Syncs -> Sync!Stages]
    /\ answerOf \in [Syncs -> 0 .. MaxVersion]
    /\ todo \in [Syncs -> SUBSET Sources] /\ skipped \in [Syncs -> SUBSET Sources]
    /\ records \in [Syncs -> SUBSET Sync!Records] /\ pending \in [Syncs -> SUBSET Sync!Records]

LEMMA SyncRead == SyncInv => SyncTyped
BY DEF SyncInv, Sync!TypeOK, SyncTyped, Sync!States, Sync!Versions

\* The source a request takes is one it has left to do.
LEMMA NextIsTodo ==
    ASSUME SyncTyped, NEW q \in Syncs, todo[q] # {}
    PROVE  Sync!Next1(q) \in todo[q] /\ Sync!Next1(q) \in Sources
BY DEF SyncTyped, Sync!Next1

LEMMA SyncTypeStep ==
    ASSUME SyncInv, Sync!Next
    PROVE  Sync!TypeOK'
<1> USE SourceAssumption DEF SyncInv, Sync!TypeOK, Sync!States, Sync!Versions, Sync!Stages, Sync!Fault, Sync!Goto, Sync!Done1
<1>0. SyncTyped /\ syncFaults \in 0 .. MaxSyncFaults /\ MaxSyncFaults \in Nat
  BY SyncRead
<1> HIDE DEF SyncInv
<1>00. Sync!TypeOK /\ (\A q \in Syncs : HoldsSound(q)) /\ BaseSound
  BY DEF SyncInv
<1> HIDE DEF Sync!TypeOK
<1>1. ASSUME NEW s \in Sources, Sync!Change(s) PROVE Sync!TypeOK'
  BY <1>1, <1>00 DEF Sync!Change, Sync!TypeOK
<1>2. ASSUME NEW q \in Syncs, Sync!Begin(q) PROVE Sync!TypeOK'
  <2>1. base' \in [Syncs -> Sync!States]
    BY <1>2, <1>00 DEF Sync!Begin, Sync!TypeOK
  <2>2. stage' \in [Syncs -> Sync!Stages] /\ holds' \in [Syncs -> Syncs \cup {NoObject}]
    <3>0. cached \in Syncs \cup {NoObject} /\ holds \in [Syncs -> Syncs \cup {NoObject}]
      BY <1>00 DEF Sync!TypeOK
    <3>1. holds' = [holds EXCEPT ![q] = cached] \/ holds' = holds
      BY <1>2 DEF Sync!Begin
    <3>2. holds' \in [Syncs -> Syncs \cup {NoObject}]
      BY <3>0, <3>1
    <3>3. stage' = [stage EXCEPT ![q] = "read"] \/ stage' = [stage EXCEPT ![q] = "load"]
      BY <1>2 DEF Sync!Begin
    <3>4. stage' \in [Syncs -> Sync!Stages]
      BY <1>0, <3>3 DEF SyncTyped
    <3>5. QED BY <3>2, <3>4
  <2>3. QED BY <1>2, <2>1, <2>2, <1>00 DEF Sync!Begin, Sync!TypeOK
<1>3. ASSUME NEW q \in Syncs, Sync!Load(q) PROVE Sync!TypeOK'
  <2>0. inRedis \in [Sources -> 0 .. MaxVersion] /\ [s \in Sources |-> 0] \in [Sources -> 0 .. MaxVersion]
    BY <1>0 DEF SyncTyped
  <2>1. PICK x \in [Sources -> 0 .. MaxVersion] : heap' = [heap EXCEPT ![q] = x]
    BY <1>3, <2>0 DEF Sync!Load, Sync!Fresh
  <2>2. heap' \in [Syncs -> [Sources -> 0 .. MaxVersion]]
    BY <2>1, <1>0 DEF SyncTyped
  <2>3. QED BY <1>3, <2>2, <1>00 DEF Sync!TypeOK, Sync!Load
<1>4. ASSUME NEW q \in Syncs, Sync!Request(q) PROVE Sync!TypeOK'
  <2>1. Sync!Next1(q) \in Sources
    BY <1>4, SyncRead, NextIsTodo DEF Sync!Request
  <2>2. todo' \in [Syncs -> SUBSET Sources] /\ answerOf' \in [Syncs -> 0 .. MaxVersion] /\ stage' \in [Syncs -> Sync!Stages]
    <3>1. PICK s \in Sources : s = Sync!Next1(q)
      BY <2>1
    <3>2. \/ todo' = [todo EXCEPT ![q] = @ \ {s}] /\ UNCHANGED <<stage, answerOf>>
          \/ stage' = [stage EXCEPT ![q] = "parse"] /\ answerOf' = [answerOf EXCEPT ![q] = version[s]] /\ UNCHANGED todo
      BY <1>4, <3>1 DEF Sync!Request
    <3>3. CASE todo' = [todo EXCEPT ![q] = @ \ {s}] /\ UNCHANGED <<stage, answerOf>>
      BY <1>0, <3>3 DEF SyncTyped
    <3>4. CASE stage' = [stage EXCEPT ![q] = "parse"] /\ answerOf' = [answerOf EXCEPT ![q] = version[s]] /\ UNCHANGED todo
      <4>1. version[s] \in 0 .. MaxVersion
        BY <1>0 DEF SyncTyped
      <4>2. QED BY <1>0, <3>4, <4>1 DEF SyncTyped
    <3>5. QED BY <3>2, <3>3, <3>4
  <2>3. QED BY <1>4, <2>2, <1>00 DEF Sync!TypeOK, Sync!Request
<1>5. ASSUME NEW q \in Syncs, Sync!GiveUp(q) PROVE Sync!TypeOK'
  <2>1. Sync!Next1(q) \in Sources
    BY <1>5, SyncRead, NextIsTodo DEF Sync!GiveUp
  <2>2. QED BY <1>5, <2>1, <1>00 DEF Sync!TypeOK, Sync!GiveUp
<1>6. ASSUME NEW q \in Syncs, NEW s \in Sources, NEW v \in 1 .. MaxVersion, holds[q] \in Syncs, Sync!Noted(q, s, v)
      PROVE  heap' \in [Syncs -> Sync!States] /\ records' \in [Syncs -> SUBSET Sync!Records]
  BY <1>0, <1>6 DEF SyncTyped, Sync!Noted, Sync!Records
<1>7. ASSUME NEW q \in Syncs, Sync!Parse(q) PROVE Sync!TypeOK'
  <2>1. Sync!Next1(q) \in Sources /\ holds[q] \in Syncs /\ answerOf[q] \in 1 .. MaxVersion
    BY <1>00, <1>7, SyncRead, NextIsTodo DEF Sync!Parse, HoldsSound, Underway
  <2>2. heap' \in [Syncs -> Sync!States] /\ records' \in [Syncs -> SUBSET Sync!Records]
    BY <1>0, <1>6, <1>7, <2>1 DEF SyncTyped, Sync!Parse, Sync!Unreadable
  <2>3. skipped' \in [Syncs -> SUBSET Sources] /\ syncFaults' \in 0 .. MaxSyncFaults
    BY <1>0, <1>7, <2>1 DEF SyncTyped, Sync!Parse
  <2>4. /\ stage' \in [Syncs -> Sync!Stages] /\ todo' \in [Syncs -> SUBSET Sources] /\ answerOf' \in [Syncs -> 0 .. MaxVersion]
        /\ UNCHANGED <<connector, version, cached, inRedis, holds, pending, base, ingested, reported>>
    BY <1>0, <1>7, <2>1 DEF SyncTyped, Sync!Parse
  <2>5. QED BY <1>00, <2>2, <2>3, <2>4 DEF Sync!TypeOK
<1>8. ASSUME NEW q \in Syncs, Sync!ReadResource(q) PROVE Sync!TypeOK'
  <2>1. Sync!Next1(q) \in Sources /\ holds[q] \in Syncs
    BY <1>00, <1>8, SyncRead, NextIsTodo DEF Sync!ReadResource, HoldsSound, Underway
  <2>2. version[Sync!Next1(q)] \in 1 .. MaxVersion
    BY <1>0, <1>00, <2>1 DEF BaseSound, SyncTyped
  <2>3. heap' \in [Syncs -> Sync!States] /\ records' \in [Syncs -> SUBSET Sync!Records]
    BY <1>0, <1>6, <1>8, <2>1, <2>2 DEF SyncTyped, Sync!ReadResource
  <2>4. QED BY <1>00, <1>8, <2>3 DEF Sync!TypeOK, Sync!ReadResource
<1>9. ASSUME NEW q \in Syncs, Sync!Abort(q) PROVE Sync!TypeOK'
  BY <1>9, <1>00 DEF Sync!Abort, Sync!TypeOK
<1>10. ASSUME NEW q \in Syncs, Sync!Save(q) PROVE Sync!TypeOK'
  <2>1. holds[q] \in Syncs
    BY <1>00, <1>10 DEF Sync!Save, HoldsSound, Underway
  <2>2. QED BY <1>00, <1>10, <2>1 DEF Sync!TypeOK, Sync!Save, Sync!Seen
<1>11. ASSUME NEW q \in Syncs, Sync!Answer(q) PROVE Sync!TypeOK'
  BY <1>11, <1>00 DEF Sync!Answer, Sync!TypeOK
<1>12. ASSUME NEW q \in Syncs, NEW r \in Sync!Records, Sync!Ingested(q, r) \/ Sync!IngestFailed(q, r) PROVE Sync!TypeOK'
  <2>1. CASE Sync!Ingested(q, r)
    BY <1>00, <2>1 DEF Sync!TypeOK, Sync!Ingested
  <2>2. CASE Sync!IngestFailed(q, r)
    BY <1>00, <2>2 DEF Sync!TypeOK, Sync!IngestFailed
  <2>3. QED BY <1>12, <2>1, <2>2
<1>13. ASSUME Sync!Restart PROVE Sync!TypeOK'
  BY <1>13, <1>00 DEF Sync!Restart, Sync!TypeOK
<1>14. ASSUME Sync!Expire PROVE Sync!TypeOK'
  BY <1>14, <1>00 DEF Sync!TypeOK, Sync!Expire, Sync!Fresh
<1> HIDE DEF SyncInv, Sync!TypeOK, Sync!Fault, Sync!Goto, Sync!Done1
<1>15. QED BY <1>1, <1>2, <1>3, <1>4, <1>5, <1>7, <1>8, <1>9, <1>10, <1>11, <1>12, <1>13, <1>14 DEF Sync!Next

-----------------------------------------------------------------------------
(* A version is settled: written, lost with an error, or still held.       *)
Held(x) ==
    \/ x \in ingested \/ x \in reported
    \/ \E q \in Syncs : x \in pending[q]
    \/ \E q \in Syncs : stage[q] \in {"read", "parse"} /\ x \in records[q]

HeldAre == \A x : x \in Sync!Settled <=> Held(x)

LEMMA HeldIsSettled == HeldAre
<1> SUFFICES ASSUME NEW x PROVE x \in Sync!Settled <=> Held(x)
  BY DEF HeldAre
<1>1. x \in UNION {pending[q] : q \in Syncs} <=> \E q \in Syncs : x \in pending[q]
  BY Zenon
<1>2. x \in UNION {records[q] : q \in {p \in Syncs : stage[p] \in {"read", "parse"}}}
         <=> \E q \in Syncs : stage[q] \in {"read", "parse"} /\ x \in records[q]
  BY Zenon
<1>3. PICK A, B : /\ A = UNION {records[q] : q \in {p \in Syncs : stage[p] \in {"read", "parse"}}}
                  /\ B = UNION {pending[q] : q \in Syncs}
  OBVIOUS
<1>4. Sync!Settled = ingested \cup reported \cup (A \cup B)
  BY <1>3, Zenon DEF Sync!Settled, Sync!InFlight
<1>5. x \in Sync!Settled <=> x \in ingested \/ x \in reported \/ x \in A \/ x \in B
  BY <1>4
<1>6. x \in Sync!Settled <=> Held(x)
  BY <1>1, <1>2, <1>3, <1>5, Zenon DEF Held
<1>7. QED BY <1>6

LEMMA HeldWillBeSettled == HeldAre'
BY HeldIsSettled, PTL

(* Nothing that is settled is forgotten, by any step.                      *)
NoneForgotten == \A x : Held(x) => Held(x)'

LEMMA SettledGrows ==
    ASSUME SyncInv, Sync!Next
    PROVE  NoneForgotten
<1>0. SyncTyped /\ \A q \in Syncs : PendingSound(q)
  BY SyncRead DEF SyncInv
<1> USE DEF Sync!Goto, Sync!Fault
<1>1. ASSUME NEW x, x \in ingested \/ x \in reported PROVE Held(x)'
  <2>1. ingested \subseteq ingested' /\ reported \subseteq reported'
    BY DEF Sync!Next, Sync!Change, Sync!Begin, Sync!Load, Sync!Request, Sync!GiveUp, Sync!Parse, Sync!ReadResource, Sync!Abort,
           Sync!Save, Sync!Answer, Sync!Ingested, Sync!IngestFailed, Sync!Restart, Sync!Expire
  <2>2. QED BY <1>1, <2>1 DEF Held
<1>2. ASSUME NEW x, NEW q \in Syncs, x \in pending[q] PROVE Held(x)'
  <2>1. x \in records[q] /\ stage[q] \in {"ingest", "error"} /\ (stage[q] = "error" => x \in reported)
    BY <1>0, <1>2 DEF PendingSound
  <2>2. CASE stage[q] = "error"
    BY <1>1, <2>1, <2>2
  <2>3. ASSUME NEW p \in Syncs, NEW r \in Sync!Records, Sync!Ingested(p, r) \/ Sync!IngestFailed(p, r) PROVE Held(x)'
    <3>1. CASE p # q \/ r # x
      <4>1. x \in pending'[q]
        BY <1>0, <1>2, <2>3, <3>1 DEF SyncTyped, Sync!Ingested, Sync!IngestFailed
      <4>2. QED BY <4>1 DEF Held
    <3>2. CASE p = q /\ r = x
      BY <2>1, <2>3, <3>2 DEF Held, Sync!Ingested, Sync!IngestFailed
    <3>3. QED BY <3>1, <3>2
  <2>4. ASSUME NEW p \in Syncs, Sync!Save(p), stage[q] = "ingest" PROVE Held(x)'
    <3>1. x \in pending'[q]
      BY <1>0, <1>2, <2>4 DEF SyncTyped, Sync!Save
    <3>2. QED BY <3>1 DEF Held
  <2>5. ASSUME Sync!Restart, stage[q] = "ingest" PROVE Held(x)'
    BY <2>1, <2>5 DEF Held, Sync!Restart, Sync!Live
  <2>6. CASE pending' = pending
    BY <1>2, <2>6 DEF Held
  <2>7. QED
    BY <2>1, <2>2, <2>3, <2>4, <2>5, <2>6 DEF Sync!Next, Sync!Change, Sync!Begin, Sync!Load, Sync!Request, Sync!GiveUp, Sync!Parse,
       Sync!ReadResource, Sync!Abort, Sync!Answer, Sync!Expire
<1>3. ASSUME NEW x, NEW q \in Syncs, stage[q] \in {"read", "parse"}, x \in records[q] PROVE Held(x)'
  <2>1. ASSUME NEW p \in Syncs, Sync!Abort(p) PROVE Held(x)'
    BY <1>0, <1>3, <2>1 DEF Held, SyncTyped, Sync!Abort
  <2>2. ASSUME NEW p \in Syncs, Sync!Save(p) PROVE Held(x)'
    BY <1>0, <1>3, <2>2 DEF Held, SyncTyped, Sync!Save
  <2>3. ASSUME NEW p \in Syncs, NEW r \in Sync!Records, Sync!Ingested(p, r) \/ Sync!IngestFailed(p, r) PROVE Held(x)'
    <3>1. p # q
      BY <1>0, <1>3, <2>3 DEF PendingSound, Sync!Ingested, Sync!IngestFailed
    <3>2. QED BY <1>0, <1>3, <2>3, <3>1 DEF Held, SyncTyped, Sync!Ingested, Sync!IngestFailed
  <2>4. ASSUME Sync!Restart PROVE Held(x)'
    BY <1>3, <2>4 DEF Held, Sync!Restart, Sync!Live
  <2>5. ASSUME NEW p \in Syncs, Sync!Begin(p) \/ Sync!Load(p) \/ Sync!Request(p) \/ Sync!GiveUp(p) \/ Sync!Answer(p) PROVE Held(x)'
    <3>1. stage'[q] \in {"read", "parse"} /\ records' = records
      BY <1>0, <1>3, <2>5 DEF SyncTyped, Sync!Begin, Sync!Load, Sync!Request, Sync!GiveUp, Sync!Answer
    <3>2. QED BY <1>3, <3>1 DEF Held
  <2>6. ASSUME NEW p \in Syncs, Sync!Parse(p) \/ Sync!ReadResource(p) PROVE Held(x)'
    <3>1. stage'[q] \in {"read", "parse"} /\ x \in records'[q]
      BY <1>0, <1>3, <2>6 DEF SyncTyped, Sync!Parse, Sync!ReadResource, Sync!Noted
    <3>2. QED BY <1>3, <3>1 DEF Held
  <2>7. CASE UNCHANGED <<stage, records>>
    BY <1>3, <2>7 DEF Held
  <2>8. QED
    BY <2>1, <2>2, <2>3, <2>4, <2>5, <2>6, <2>7 DEF Sync!Next, Sync!Change, Sync!Expire
<1>4. QED BY <1>1, <1>2, <1>3 DEF NoneForgotten, Held

-----------------------------------------------------------------------------
LEMMA BaseStep ==
    ASSUME SyncInv, Sync!Next
    PROVE  BaseSound' /\ \A s \in Sources : version[s] <= version'[s]
<1>0. SyncTyped /\ BaseSound
  BY SyncRead DEF SyncInv
<1>1. ASSUME NEW s \in Sources, Sync!Change(s) PROVE BaseSound' /\ \A t \in Sources : version[t] <= version'[t]
  <2>1. \A t \in Sources : version[t] <= version'[t] /\ version'[t] >= 1
    BY SourceAssumption, <1>0, <1>1 DEF SyncTyped, BaseSound, Sync!Change
  <2>2. \A q \in Syncs : \A t \in Sources : base[q][t] \in Nat /\ version[t] \in Nat /\ version'[t] \in Nat
    BY SourceAssumption, <1>0, <1>1 DEF SyncTyped, Sync!Change
  <2>3. QED BY <1>0, <1>1, <2>1, <2>2 DEF BaseSound, Sync!Change
<1>2. ASSUME NEW q \in Syncs, Sync!Begin(q) PROVE BaseSound' /\ \A s \in Sources : version[s] <= version'[s]
  <2>1. version' = version /\ base' = [base EXCEPT ![q] = version] /\ \A s \in Sources : version[s] \in Nat
    BY SourceAssumption, <1>0, <1>2 DEF SyncTyped, Sync!Begin
  <2>2. \A p \in Syncs : base'[p] = IF p = q THEN version ELSE base[p]
    BY <1>0, <2>1 DEF SyncTyped
  <2>3. QED BY <1>0, <2>1, <2>2 DEF BaseSound
<1>3. ASSUME UNCHANGED <<version, base>> PROVE BaseSound' /\ \A s \in Sources : version[s] <= version'[s]
  <2>1. \A s \in Sources : version[s] \in Nat
    BY SourceAssumption, <1>0 DEF SyncTyped
  <2>2. QED BY <1>0, <1>3, <2>1 DEF BaseSound
<1>4. QED
  BY <1>1, <1>2, <1>3 DEF Sync!Next, Sync!Load, Sync!Request, Sync!GiveUp, Sync!Parse, Sync!ReadResource, Sync!Abort, Sync!Save,
     Sync!Answer, Sync!Ingested, Sync!IngestFailed, Sync!Restart, Sync!Expire

LEMMA PendingStep ==
    ASSUME SyncInv, Sync!Next, NEW q \in Syncs
    PROVE  PendingSound(q)'
<1>0. SyncTyped /\ PendingSound(q)
  BY SyncRead DEF SyncInv
<1>00. stage[q] \in Sync!Stages /\ pending[q] \subseteq Sync!Records /\ records[q] \subseteq Sync!Records
  BY <1>0 DEF SyncTyped
<1> USE DEF Sync!Goto, Sync!Fault
<1>1. ASSUME NEW p \in Syncs, p # q, \/ Sync!Begin(p) \/ Sync!Load(p) \/ Sync!Request(p) \/ Sync!GiveUp(p) \/ Sync!Parse(p)
                                     \/ Sync!ReadResource(p) \/ Sync!Abort(p) \/ Sync!Save(p) \/ Sync!Answer(p)
                                     \/ \E r \in Sync!Records : Sync!Ingested(p, r) \/ Sync!IngestFailed(p, r)
      PROVE  PendingSound(q)'
  <2>1. stage'[q] = stage[q] /\ records'[q] = records[q] /\ pending'[q] = pending[q] /\ todo'[q] = todo[q]
    BY <1>0, <1>1 DEF SyncTyped, Sync!Begin, Sync!Load, Sync!Request, Sync!GiveUp, Sync!Parse, Sync!ReadResource, Sync!Abort,
       Sync!Save, Sync!Answer, Sync!Ingested, Sync!IngestFailed, Sync!Noted, Sync!Done1
  <2>2. ingested \subseteq ingested' /\ reported \subseteq reported'
    BY <1>1 DEF Sync!Begin, Sync!Load, Sync!Request, Sync!GiveUp, Sync!Parse, Sync!ReadResource, Sync!Abort,
       Sync!Save, Sync!Answer, Sync!Ingested, Sync!IngestFailed
  <2>3. QED BY <1>0, <2>1, <2>2 DEF PendingSound
<1>2. CASE Sync!Begin(q) \/ Sync!Load(q)
  BY <1>0, <1>2 DEF PendingSound, SyncTyped, Sync!Begin, Sync!Load
<1>3. CASE Sync!Request(q) \/ Sync!GiveUp(q) \/ Sync!Parse(q) \/ Sync!ReadResource(q)
  <2>1. stage[q] \in {"read", "parse"} /\ stage'[q] \in {"read", "parse"} /\ pending' = pending /\ records[q] \subseteq records'[q]
    BY <1>0, <1>3 DEF SyncTyped, Sync!Request, Sync!GiveUp, Sync!Parse, Sync!ReadResource, Sync!Noted
  <2>2. QED BY <1>0, <2>1 DEF PendingSound
<1>4. CASE Sync!Abort(q)
  BY <1>0, <1>4 DEF PendingSound, SyncTyped, Sync!Abort
<1>5. CASE Sync!Save(q)
  <2>1. stage'[q] = "ingest" /\ pending'[q] = records[q] /\ records' = records /\ todo'[q] = {}
    BY <1>0, <1>5 DEF SyncTyped, Sync!Save
  <2>2. QED BY <2>1 DEF PendingSound
<1>6. CASE Sync!Answer(q)
  BY <1>0, <1>6 DEF PendingSound, SyncTyped, Sync!Answer, Sync!AllDone
<1>7. ASSUME NEW r \in Sync!Records, Sync!Ingested(q, r) PROVE PendingSound(q)'
  <2>1. /\ stage' = stage /\ pending'[q] = pending[q] \ {r} /\ records' = records /\ todo' = todo /\ reported' = reported
        /\ ingested' = ingested \cup {r} /\ r \in pending[q]
    BY <1>0, <1>7 DEF SyncTyped, Sync!Ingested
  <2>2. QED BY <1>0, <2>1 DEF PendingSound
<1>8. ASSUME NEW r \in Sync!Records, Sync!IngestFailed(q, r) PROVE PendingSound(q)'
  <2>1. /\ stage'[q] = "error" /\ pending'[q] = pending[q] \ {r} /\ records' = records /\ reported' = reported \cup records[q]
    BY <1>0, <1>8 DEF SyncTyped, Sync!IngestFailed
  <2>2. QED BY <1>0, <2>1 DEF PendingSound
<1>9. CASE Sync!Restart
  <2>1. /\ stage'[q] = IF stage[q] \in {"load", "read", "parse", "ingest"} THEN "dead" ELSE stage[q]
        /\ pending'[q] = {} /\ records' = records /\ ingested' = ingested /\ reported \subseteq reported' /\ todo' = todo
    BY <1>9 DEF Sync!Restart, Sync!Live
  <2>2. QED BY <1>0, <2>1 DEF PendingSound
<1>10. CASE UNCHANGED <<stage, records, pending, todo, ingested, reported>>
  BY <1>0, <1>10 DEF PendingSound
<1>11. QED
  BY <1>1, <1>2, <1>3, <1>4, <1>5, <1>6, <1>7, <1>8, <1>9, <1>10 DEF Sync!Next, Sync!Change, Sync!Expire

LEMMA HoldsStep ==
    ASSUME SyncInv, Sync!Next, NEW q \in Syncs
    PROVE  HoldsSound(q)'
<1>0. SyncTyped /\ BaseSound /\ HoldsSound(q) /\ cached \in Syncs \cup {NoObject} /\ stage[q] \in Sync!Stages
  BY SyncRead DEF SyncInv, Sync!TypeOK, SyncTyped
<1> USE DEF Sync!Goto, Sync!Fault, Underway
<1>1. ASSUME todo'[q] = todo[q] PROVE Sync!Next1(q)' = Sync!Next1(q)
  BY <1>1 DEF Sync!Next1
<1>2. ASSUME stage'[q] = stage[q], holds'[q] = holds[q], stage[q] = "parse" => UNCHANGED <<todo[q], answerOf[q], base[q]>>
      PROVE  HoldsSound(q)'
  BY <1>0, <1>1, <1>2 DEF HoldsSound
<1>3. ASSUME NEW p \in Syncs, p # q, \/ Sync!Begin(p) \/ Sync!Load(p) \/ Sync!Request(p) \/ Sync!GiveUp(p) \/ Sync!Parse(p)
                                     \/ Sync!ReadResource(p) \/ Sync!Abort(p) \/ Sync!Save(p) \/ Sync!Answer(p)
                                     \/ \E r \in Sync!Records : Sync!Ingested(p, r) \/ Sync!IngestFailed(p, r)
      PROVE  HoldsSound(q)'
  <2>1. stage'[q] = stage[q] /\ holds'[q] = holds[q] /\ todo'[q] = todo[q] /\ answerOf'[q] = answerOf[q] /\ base'[q] = base[q]
    BY <1>0, <1>3 DEF SyncTyped, Sync!Begin, Sync!Load, Sync!Request, Sync!GiveUp, Sync!Parse, Sync!ReadResource, Sync!Abort,
       Sync!Save, Sync!Answer, Sync!Ingested, Sync!IngestFailed, Sync!Done1
  <2>2. QED BY <1>2, <2>1
<1>4. CASE Sync!Begin(q)
  BY <1>0, <1>4 DEF HoldsSound, SyncTyped, Sync!Begin
<1>5. CASE Sync!Load(q)
  BY <1>0, <1>5 DEF HoldsSound, SyncTyped, Sync!Load
<1>6. CASE Sync!Request(q)
  <2>1. PICK s \in Sources : s = Sync!Next1(q) /\ s \in todo[q]
    BY <1>0, <1>6, NextIsTodo DEF Sync!Request
  <2>2. CASE stage' = stage
    BY <1>0, <1>6, <2>2 DEF HoldsSound, Sync!Request
  <2>3. CASE stage' # stage
    <3>1. /\ stage'[q] = "parse" /\ todo' = todo /\ holds' = holds /\ base' = base /\ answerOf' = [answerOf EXCEPT ![q] = version[s]]
      BY <1>0, <1>6, <2>1, <2>3 DEF SyncTyped, Sync!Request
    <3>2. answerOf'[q] = version[s] /\ version[s] \in 1 .. MaxVersion /\ base[q][s] <= version[s]
      BY <1>0, <3>1, SourceAssumption DEF SyncTyped, BaseSound
    <3>3. Sync!Next1(q)' = s
      BY <1>1, <2>1, <3>1
    <3>4. holds[q] \in Syncs
      BY <1>0, <1>6 DEF HoldsSound, Sync!Request
    <3>5. QED BY <2>1, <3>1, <3>2, <3>3, <3>4 DEF HoldsSound
  <2>4. QED BY <2>2, <2>3
<1>7. CASE \/ Sync!GiveUp(q) \/ Sync!Parse(q) \/ Sync!ReadResource(q) \/ Sync!Abort(q) \/ Sync!Save(q) \/ Sync!Answer(q)
           \/ \E r \in Sync!Records : Sync!Ingested(q, r)
  <2>0. PendingSound(q)
    BY DEF SyncInv
  <2>1. holds' = holds /\ (stage[q] \in Underway \/ stage'[q] \notin Underway) /\ (stage'[q] # "parse")
    BY <1>0, <1>7, <2>0 DEF SyncTyped, Sync!GiveUp, Sync!Parse, Sync!ReadResource, Sync!Abort,
       Sync!Save, Sync!Answer, Sync!Ingested, PendingSound
  <2>2. QED BY <1>0, <2>1 DEF HoldsSound
<1>8. ASSUME NEW r \in Sync!Records, Sync!IngestFailed(q, r) PROVE HoldsSound(q)'
  <2>1. stage'[q] = "error"
    BY <1>0, <1>8 DEF SyncTyped, Sync!IngestFailed
  <2>2. QED BY <2>1 DEF HoldsSound
<1>9. CASE Sync!Restart
  <2>1. holds' = holds /\ stage'[q] = IF stage[q] \in {"load", "read", "parse", "ingest"} THEN "dead" ELSE stage[q]
    BY <1>9 DEF Sync!Restart, Sync!Live
  <2>2. QED BY <1>0, <2>1 DEF HoldsSound
<1>10. CASE UNCHANGED <<stage, holds, todo, answerOf, base>>
  BY <1>2, <1>10
<1>11. QED
  BY <1>3, <1>4, <1>5, <1>6, <1>7, <1>8, <1>9, <1>10 DEF Sync!Next, Sync!Change, Sync!Expire

(* Marks are set with the record beside them. *)
LEMMA SettledStays ==
    ASSUME SyncInv, Sync!Next
    PROVE  Sync!Settled \subseteq Sync!Settled'
BY SettledGrows, HeldIsSettled, HeldWillBeSettled DEF NoneForgotten, HeldAre

LEMMA MarksStep ==
    ASSUME SyncInv, Sync!Next
    PROVE  MarksSettled'
<1>0. SyncTyped /\ MarksSettled /\ (\A q \in Syncs : HoldsSound(q)) /\ BaseSound
  BY SyncRead DEF SyncInv
<1>1. /\ \A s \in Sources : inRedis[s] > 0 => <<s, inRedis[s]>> \in Sync!Settled'
      /\ \A o \in Syncs, s \in Sources : heap[o][s] > 0 => <<s, heap[o][s]>> \in Sync!Settled'
  BY <1>0, SettledStays DEF MarksSettled
<1>2. ASSUME \A s \in Sources : inRedis'[s] > 0 => <<s, inRedis'[s]>> \in Sync!Settled',
             \A o \in Syncs, s \in Sources : heap'[o][s] > 0 => <<s, heap'[o][s]>> \in Sync!Settled'
      PROVE  MarksSettled'
  BY <1>2 DEF MarksSettled
<1> USE DEF Sync!Goto, Sync!Fault
<1>3. CASE UNCHANGED <<inRedis, heap>>
  BY <1>1, <1>2, <1>3
<1>4. ASSUME NEW q \in Syncs, Sync!Load(q) PROVE MarksSettled'
  <2>1. PICK x \in [Sources -> 0 .. MaxVersion] : heap' = [heap EXCEPT ![q] = x] /\ (x = inRedis \/ x = [s \in Sources |-> 0])
    <3>1. inRedis \in [Sources -> 0 .. MaxVersion] /\ [s \in Sources |-> 0] \in [Sources -> 0 .. MaxVersion]
      BY SourceAssumption, <1>0 DEF SyncTyped
    <3>2. QED BY <1>4, <3>1 DEF Sync!Load, Sync!Fresh
  <2>2. inRedis' = inRedis /\ \A o \in Syncs : heap'[o] = IF o = q THEN x ELSE heap[o]
    BY <1>0, <1>4, <2>1 DEF SyncTyped, Sync!Load
  <2>3. \A s \in Sources : x[s] > 0 => <<s, x[s]>> \in Sync!Settled'
    BY <1>1, <2>1
  <2>4. QED BY <1>1, <1>2, <2>2, <2>3
<1>5. ASSUME NEW q \in Syncs, NEW t \in Sources, NEW v \in 1 .. MaxVersion, holds[q] \in Syncs, Sync!Noted(q, t, v),
             inRedis' = inRedis, stage'[q] \in {"read", "parse"}
      PROVE  MarksSettled'
  <2>1. /\ \A o \in Syncs, s \in Sources : heap'[o][s] = IF o = holds[q] /\ s = t THEN v ELSE heap[o][s]
        /\ <<t, v>> \in records'[q]
    BY <1>0, <1>5 DEF SyncTyped, Sync!Noted
  <2>2. Held(<<t, v>>)'
    BY <1>5, <2>1 DEF Held
  <2>3. <<t, v>> \in Sync!Settled'
    BY <2>2, HeldWillBeSettled DEF HeldAre
  <2>4. QED BY <1>1, <1>2, <1>5, <2>1, <2>3
<1>6. ASSUME NEW q \in Syncs, Sync!Parse(q) PROVE MarksSettled'
  <2>1. PICK t \in Sources : t = Sync!Next1(q) /\ t \in todo[q]
    BY <1>0, <1>6, NextIsTodo DEF Sync!Parse, HoldsSound
  <2>2. holds[q] \in Syncs /\ answerOf[q] \in 1 .. MaxVersion /\ stage'[q] = "read" /\ inRedis' = inRedis
    BY <1>0, <1>6 DEF Sync!Parse, HoldsSound, Underway, SyncTyped
  <2>3. CASE heap' = heap
    BY <1>1, <1>2, <2>2, <2>3
  <2>4. CASE Sync!Noted(q, t, answerOf[q])
    BY <1>5, <2>2, <2>4
  <2>5. QED BY <1>6, <2>1, <2>3, <2>4 DEF Sync!Parse, Sync!Unreadable
<1>7. ASSUME NEW q \in Syncs, Sync!ReadResource(q) PROVE MarksSettled'
  <2>1. PICK t \in Sources : t = Sync!Next1(q) /\ t \in todo[q]
    BY <1>0, <1>7, NextIsTodo DEF Sync!ReadResource
  <2>2. holds[q] \in Syncs /\ version[t] \in 1 .. MaxVersion /\ stage'[q] = "read" /\ inRedis' = inRedis
    BY SourceAssumption, <1>0, <1>7 DEF Sync!ReadResource, HoldsSound, Underway, SyncTyped, BaseSound
  <2>3. CASE heap' = heap
    BY <1>1, <1>2, <2>2, <2>3
  <2>4. CASE Sync!Noted(q, t, version[t])
    BY <1>5, <2>2, <2>4
  <2>5. QED BY <1>7, <2>1, <2>3, <2>4 DEF Sync!ReadResource
<1>8. ASSUME NEW q \in Syncs, Sync!Save(q) PROVE MarksSettled'
  <2>1. heap' = heap /\ (inRedis' = heap[holds[q]] \/ inRedis' = inRedis) /\ holds[q] \in Syncs
    BY <1>0, <1>8 DEF Sync!Save, Sync!Seen, HoldsSound, Underway
  <2>2. QED BY <1>1, <1>2, <2>1
<1>9. CASE Sync!Expire
  <2>1. heap' = heap /\ \A s \in Sources : inRedis'[s] = 0
    BY <1>9 DEF Sync!Expire, Sync!Fresh
  <2>2. QED BY <1>1, <1>2, <2>1
<1>10. QED
  BY <1>3, <1>4, <1>6, <1>7, <1>8, <1>9 DEF Sync!Next, Sync!Change, Sync!Begin, Sync!Request, Sync!GiveUp, Sync!Abort, Sync!Answer,
     Sync!Ingested, Sync!IngestFailed, Sync!Restart

(* A source is done when the version seen is the one served, or with its   *)
(* own record noted; versions only grow, so both are new enough.           *)
LEMMA FreshStep ==
    ASSUME SyncInv, Sync!Next
    PROVE  DoneIsFresh'
<1>0. /\ SyncTyped /\ MarksSettled /\ DoneIsFresh /\ BaseSound
      /\ \A q \in Syncs : HoldsSound(q) /\ PendingSound(q)
  BY SyncRead DEF SyncInv
<1>00. Sync!Settled \subseteq Sync!Settled'
  BY SettledStays
<1> SUFFICES ASSUME NEW q \in Syncs, stage'[q] \in Underway, NEW s \in Sources, s \notin todo'[q] \cup skipped'[q]
             PROVE  FreshEnough(q, s)'
  BY DEF DoneIsFresh
<1> USE DEF Sync!Goto, Sync!Fault
<1>1. ASSUME stage[q] \in Underway, s \notin todo[q] \cup skipped[q], base'[q] = base[q] PROVE FreshEnough(q, s)'
  <2>1. PICK v \in base[q][s] .. MaxVersion : <<s, v>> \in Sync!Settled
    BY <1>0, <1>1 DEF DoneIsFresh, FreshEnough
  <2>2. v \in base'[q][s] .. MaxVersion /\ <<s, v>> \in Sync!Settled'
    BY <1>00, <1>1, <2>1
  <2>3. QED BY <2>2 DEF FreshEnough
<1>2. ASSUME NEW p \in Syncs, p # q, \/ Sync!Begin(p) \/ Sync!Load(p) \/ Sync!Request(p) \/ Sync!GiveUp(p) \/ Sync!Parse(p)
                                     \/ Sync!ReadResource(p) \/ Sync!Abort(p) \/ Sync!Save(p) \/ Sync!Answer(p)
                                     \/ \E r \in Sync!Records : Sync!Ingested(p, r) \/ Sync!IngestFailed(p, r)
      PROVE  FreshEnough(q, s)'
  <2>1. stage'[q] = stage[q] /\ todo'[q] = todo[q] /\ skipped'[q] = skipped[q] /\ base'[q] = base[q]
    BY <1>0, <1>2 DEF SyncTyped, Sync!Begin, Sync!Load, Sync!Request, Sync!GiveUp, Sync!Parse, Sync!ReadResource, Sync!Abort,
       Sync!Save, Sync!Answer, Sync!Ingested, Sync!IngestFailed, Sync!Done1
  <2>2. QED BY <1>1, <2>1
<1>3. CASE Sync!Begin(q) \/ Sync!Load(q)
  <2>1. todo'[q] = todo[q] /\ stage[q] \in {"new", "load"}
    BY <1>3 DEF Sync!Begin, Sync!Load
  <2>2. QED BY <1>0, <2>1 DEF PendingSound
<1>4. ASSUME stage[q] \in {"read", "parse"}, base' = base, NEW t \in Sources, todo' = [todo EXCEPT ![q] = @ \ {t}],
             skipped[q] \subseteq skipped'[q], s = t => FreshEnough(q, t)'
      PROVE  FreshEnough(q, s)'
  <2>1. todo'[q] = todo[q] \ {t}
    BY <1>0, <1>4 DEF SyncTyped
  <2>2. QED BY <1>1, <1>4, <2>1 DEF Underway
<1>5. ASSUME NEW t \in Sources, NEW v \in 1 .. MaxVersion, base' = base, base[q][t] <= v, <<t, v>> \in Sync!Settled'
      PROVE  FreshEnough(q, t)'
  <2>1. base[q][t] \in Nat
    BY <1>0 DEF SyncTyped
  <2>2. v \in base'[q][t] .. MaxVersion
    BY SourceAssumption, <1>5, <2>1
  <2>3. QED BY <1>5, <2>2 DEF FreshEnough
<1>6. ASSUME NEW t \in Sources, NEW v \in 1 .. MaxVersion, holds[q] \in Syncs, stage'[q] \in {"read", "parse"},
             Sync!Noted(q, t, v)
      PROVE  <<t, v>> \in Sync!Settled'
  <2>1. <<t, v>> \in records'[q]
    BY <1>0, <1>6 DEF SyncTyped, Sync!Noted
  <2>2. Held(<<t, v>>)'
    BY <1>6, <2>1 DEF Held
  <2>3. QED BY <2>2, HeldWillBeSettled DEF HeldAre
<1>7. ASSUME NEW t \in Sources, holds[q] \in Syncs, version[t] = heap[holds[q]][t]
      PROVE  version[t] \in 1 .. MaxVersion /\ base[q][t] <= version[t] /\ <<t, version[t]>> \in Sync!Settled'
  <2>1. version[t] \in 1 .. MaxVersion /\ base[q][t] <= version[t]
    BY SourceAssumption, <1>0 DEF SyncTyped, BaseSound
  <2>2. <<t, version[t]>> \in Sync!Settled
    BY <1>0, <1>7, <2>1, SourceAssumption DEF MarksSettled
  <2>3. QED BY <1>00, <2>1, <2>2
<1>8. CASE Sync!Request(q)
  <2>1. PICK t \in Sources : t = Sync!Next1(q)
    BY <1>0, <1>8, NextIsTodo DEF Sync!Request
  <2>2. holds[q] \in Syncs /\ stage[q] = "read" /\ base' = base /\ skipped' = skipped
    BY <1>0, <1>8 DEF Sync!Request, HoldsSound, Underway
  <2>3. CASE todo' = todo
    BY <1>1, <2>2, <2>3 DEF Underway
  <2>4. CASE version[t] = heap[holds[q]][t] /\ todo' = [todo EXCEPT ![q] = @ \ {t}]
    <3>1. FreshEnough(q, t)'
      BY <1>5, <1>7, <2>2, <2>4
    <3>2. QED BY <1>4, <2>2, <2>4, <3>1
  <2>5. QED BY <1>8, <2>1, <2>3, <2>4 DEF Sync!Request, Sync!Seen, Sync!Done1
<1>9. CASE Sync!GiveUp(q)
  <2>1. PICK t \in Sources : t = Sync!Next1(q)
    BY <1>0, <1>9, NextIsTodo DEF Sync!GiveUp
  <2>2. /\ todo' = [todo EXCEPT ![q] = @ \ {t}] /\ skipped'[q] = skipped[q] \cup {t} /\ base' = base /\ stage[q] = "read"
    BY <1>0, <1>9, <2>1 DEF SyncTyped, Sync!GiveUp, Sync!Done1
  <2>3. s # t
    BY <2>2
  <2>4. QED BY <1>4, <2>2, <2>3
<1>10. CASE Sync!Parse(q)
  <2>1. PICK t \in Sources : t = Sync!Next1(q)
    BY <1>0, <1>10, NextIsTodo DEF Sync!Parse, HoldsSound
  <2>2. /\ holds[q] \in Syncs /\ answerOf[q] \in 1 .. MaxVersion /\ base[q][t] <= answerOf[q]
        /\ stage[q] = "parse" /\ stage'[q] = "read" /\ base' = base /\ todo' = [todo EXCEPT ![q] = @ \ {t}]
    BY <1>0, <1>10, <2>1 DEF Sync!Parse, Sync!Done1, HoldsSound, Underway, SyncTyped
  <2>3. CASE skipped' = [skipped EXCEPT ![q] = @ \cup {t}]
    <3>1. skipped'[q] = skipped[q] \cup {t} /\ s # t
      BY <1>0, <2>3 DEF SyncTyped
    <3>2. QED BY <1>4, <2>2, <3>1
  <2>4. CASE Sync!Noted(q, t, answerOf[q]) /\ skipped' = skipped
    <3>1. FreshEnough(q, t)'
      BY <1>5, <1>6, <2>2, <2>4
    <3>2. QED BY <1>4, <2>2, <2>4, <3>1
  <2>5. QED BY <1>10, <2>1, <2>3, <2>4 DEF Sync!Parse
<1>11. CASE Sync!ReadResource(q)
  <2>1. PICK t \in Sources : t = Sync!Next1(q)
    BY <1>0, <1>11, NextIsTodo DEF Sync!ReadResource
  <2>2. /\ holds[q] \in Syncs /\ version[t] \in 1 .. MaxVersion /\ base[q][t] <= version[t] /\ skipped' = skipped
        /\ stage[q] = "read" /\ stage'[q] = "read" /\ base' = base /\ todo' = [todo EXCEPT ![q] = @ \ {t}]
    BY SourceAssumption, <1>0, <1>11, <2>1 DEF Sync!ReadResource, Sync!Done1, HoldsSound, Underway, SyncTyped, BaseSound
  <2>3. version[t] = heap[holds[q]][t] \/ Sync!Noted(q, t, version[t])
    BY <1>11, <2>1 DEF Sync!ReadResource, Sync!Seen
  <2>4. FreshEnough(q, t)'
    BY <1>5, <1>6, <1>7, <2>2, <2>3
  <2>5. QED BY <1>4, <2>2, <2>4
<1>12. CASE Sync!Abort(q) \/ Sync!Save(q) \/ Sync!Answer(q) \/ \E r \in Sync!Records : Sync!Ingested(q, r) \/ Sync!IngestFailed(q, r)
  <2>1. /\ todo' = todo /\ skipped' = skipped /\ base' = base
        /\ stage'[q] = "error" \/ stage'[q] = stage[q] \/ stage[q] \in Underway
    BY <1>0, <1>12 DEF SyncTyped, Sync!Abort, Sync!Save, Sync!Answer, Sync!Ingested, Sync!IngestFailed, Underway
  <2>2. QED BY <1>1, <2>1 DEF Underway
<1>13. CASE UNCHANGED <<todo, skipped, base>> /\ (stage'[q] = "dead" \/ stage'[q] = stage[q])
  BY <1>1, <1>13 DEF Underway
<1>14. CASE Sync!Restart
  BY <1>13, <1>14 DEF Sync!Restart
<1>15. QED
  BY <1>2, <1>3, <1>8, <1>9, <1>10, <1>11, <1>12, <1>13, <1>14 DEF Sync!Next, Sync!Change, Sync!Expire

LEMMA SyncInvStep ==
    ASSUME SyncInv, Sync!Next \/ UNCHANGED SyncVars
    PROVE  SyncInv'
<1>1. ASSUME UNCHANGED SyncVars PROVE SyncInv'
  <2>1. Sync!Settled' = Sync!Settled /\ \A q \in Syncs : Sync!Next1(q)' = Sync!Next1(q)
    BY <1>1 DEF SyncVars, Sync!Settled, Sync!InFlight, Sync!Next1
  <2>2. Sync!TypeOK'
    BY <1>1 DEF SyncInv, SyncVars, Sync!TypeOK
  <2>3. \A q \in Syncs : HoldsSound(q)' /\ PendingSound(q)'
    BY <1>1, <2>1 DEF SyncInv, SyncVars, HoldsSound, PendingSound
  <2>4. BaseSound' /\ MarksSettled' /\ DoneIsFresh'
    BY <1>1, <2>1 DEF SyncInv, SyncVars, BaseSound, MarksSettled, DoneIsFresh, FreshEnough
  <2>5. QED BY <2>2, <2>3, <2>4 DEF SyncInv
<1>2. ASSUME Sync!Next PROVE SyncInv'
  <2>1. Sync!TypeOK' /\ BaseSound' /\ MarksSettled' /\ DoneIsFresh'
    BY <1>2, SyncTypeStep, BaseStep, MarksStep, FreshStep
  <2>2. \A q \in Syncs : HoldsSound(q)'
    BY <1>2, HoldsStep
  <2>3. \A q \in Syncs : PendingSound(q)'
    BY <1>2, PendingStep
  <2>4. QED BY <2>1, <2>2, <2>3 DEF SyncInv
<1>3. QED BY <1>1, <1>2

LEMMA SyncKept == AdminSpec => [](focus = "sync" => SyncInv)
<1>1. AdminInit => (focus = "sync" => SyncInv)
  BY SyncBegins, SyncInvInit
<1>2. (focus = "sync" => SyncInv) /\ [AdminNext]_adminVars => (focus = "sync" => SyncInv)'
  BY SyncMoves, SyncInvStep
<1>3. QED BY <1>1, <1>2, PTL DEF AdminSpec

LEMMA SyncsSettle == SyncInv => Sync!SeenIsSettled /\ Sync!FreshAfterSuccess
<1> SUFFICES ASSUME SyncInv PROVE Sync!SeenIsSettled /\ Sync!FreshAfterSuccess
  OBVIOUS
<1>0. /\ SyncTyped /\ MarksSettled /\ DoneIsFresh /\ cached \in Syncs \cup {NoObject} /\ \A q \in Syncs : PendingSound(q)
  BY SyncRead DEF SyncInv, Sync!TypeOK
<1>1. Sync!SeenIsSettled
  BY <1>0 DEF Sync!SeenIsSettled, MarksSettled
<1>2. ASSUME NEW q \in Syncs, stage[q] = "ok"
      PROVE  /\ records[q] \subseteq ingested
             /\ \A s \in Sources \ skipped[q] : \E v \in base[q][s] .. MaxVersion : <<s, v>> \in Sync!Settled
  <2>1. pending[q] = {} /\ todo[q] = {} /\ records[q] \subseteq ingested
    BY <1>0, <1>2 DEF PendingSound
  <2>2. QED BY <1>0, <1>2, <2>1 DEF DoneIsFresh, FreshEnough, Underway
<1>3. QED BY <1>1, <1>2 DEF Sync!FreshAfterSuccess

-----------------------------------------------------------------------------
(* The SQL connector.                                                      *)

LEMMA SqlBegins ==
    ASSUME AdminInit, focus = "sql"
    PROVE  Sql!Init
BY DEF AdminInit, AdminFocus

LEMMA SqlMoves ==
    ASSUME [AdminNext]_adminVars, focus' = "sql"
    PROVE  focus = "sql" /\ (Sql!Next \/ UNCHANGED SqlVars)
BY DEF AdminNext, AdminStays, adminVars

(* What is left of the page lies ahead of the cursor, what was yielded     *)
(* behind it.                                                              *)
PageSound ==
    /\ Sql!Sorted(yielded) /\ Sql!Sorted(page)
    /\ page # <<>> => reading # NoQueryYet
    /\ \A i \in DOMAIN yielded : Sql!Key(yielded[i]) <= at
    /\ \A j \in DOMAIN page : /\ page[j] \in present /\ rowOf[page[j]].query = reading
                              /\ at <= Sql!Key(page[j])
    /\ \A i \in DOMAIN yielded, j \in DOMAIN page : yielded[i] # page[j]

CursorSound ==
    /\ used = {} => storedKey = 0
    /\ reading # NoQueryYet => reading \in used

(* Neither the stored cursor, nor that of the request, nor a row that waits*)
(* in the page is past a row the property speaks of.                       *)
Counts(r) == rowOf[r].good /\ used = {rowOf[r].query} /\ Sql!Unique(r)
PassesNot(r) ==
    /\ Sql!Key(r) <= storedKey => r \in everYielded
    /\ reading # NoQueryYet /\ Sql!Key(r) <= at => r \in everYielded
    /\ \A i \in DOMAIN page : Sql!Key(r) <= Sql!Key(page[i])
                                 => r \in everYielded \/ \E j \in DOMAIN page : page[j] = r

SqlInv ==
    /\ Sql!TypeOK /\ PageSound /\ CursorSound
    /\ \A r \in present \ late : Counts(r) => PassesNot(r)

-----------------------------------------------------------------------------
LEMMA SqlCard == ASSUME NEW S PROVE Sql!Cardinality(S) = Cardinality(S)
BY DEF Sql!Cardinality, Cardinality, Sql!IsFiniteSet, IsFiniteSet

LEMMA RowsCounted ==
    /\ IsFiniteSet(Sql!Rows) /\ Cardinality(Sql!Rows) = MaxRows
    /\ \A S \in SUBSET Sql!Rows : Cardinality(S) \in Nat
<1>1. IsFiniteSet(1 .. MaxRows) /\ Cardinality(1 .. MaxRows) = MaxRows
  BY SourceAssumption, FS_Interval
<1>2. \A S \in SUBSET Sql!Rows : Cardinality(S) \in Nat
  BY <1>1, FS_Subset, FS_CardinalityType DEF Sql!Rows
<1>3. QED BY <1>1, <1>2 DEF Sql!Rows

(* Pages and yields, read as sequences. *)
Short(p, n) == p \in Seq(Sql!Rows) /\ Len(p) <= n
LEMMA ShortAreTyped ==
    ASSUME NEW p, NEW n \in Nat
    PROVE  p \in UNION {[1 .. k -> Sql!Rows] : k \in 0 .. n} <=> Short(p, n)
<1>1. ASSUME p \in UNION {[1 .. k -> Sql!Rows] : k \in 0 .. n} PROVE Short(p, n)
  <2>1. PICK k \in 0 .. n : p \in [1 .. k -> Sql!Rows]
    BY <1>1
  <2>2. k \in Nat /\ p \in Seq(Sql!Rows)
    BY <2>1, SeqDef
  <2>3. Len(p) = k
    BY <2>1, <2>2, LenProperties
  <2>4. QED BY <2>1, <2>2, <2>3 DEF Short
<1>2. ASSUME Short(p, n) PROVE p \in UNION {[1 .. k -> Sql!Rows] : k \in 0 .. n}
  <2>1. Len(p) \in 0 .. n /\ p \in [1 .. Len(p) -> Sql!Rows]
    BY <1>2, LenProperties DEF Short
  <2>2. QED BY <2>1
<1>3. QED BY <1>1, <1>2

(* The types, read as what the steps need. *)
SqlTyped ==
    /\ rowOf \in [Sql!Rows -> [query : Queries, key : 1 .. MaxKey, good : BOOLEAN]]
    /\ present \subseteq Sql!Rows /\ everYielded \subseteq Sql!Rows
    /\ storedKey \in 0 .. MaxKey /\ at \in 0 .. MaxKey
    /\ page \in Seq(Sql!Rows) /\ yielded \in Seq(Sql!Rows)

LEMMA SqlRead == SqlInv => SqlTyped /\ Short(page, BatchSize) /\ Short(yielded, MaxRows)
<1>1. Sql!Cardinality(Sql!Rows) = MaxRows
  BY SqlCard, RowsCounted
<1>2. QED
  BY <1>1, ShortAreTyped, SourceAssumption, AdminAssumption DEF SqlInv, Sql!TypeOK, SqlTyped, Short, Sql!Keys

(* A list of rows without a repeat is no longer than there are rows.       *)
LEMMA SortedIsShort ==
    ASSUME NEW p \in Seq(Sql!Rows), \A i, j \in DOMAIN p : i < j => p[i] # p[j]
    PROVE  Len(p) <= MaxRows
<1>1. p \in [1 .. Len(p) -> Sql!Rows] /\ Len(p) \in Nat /\ DOMAIN p = 1 .. Len(p)
  BY LenProperties
<1>2. \A i, j \in 1 .. Len(p) : i # j => p[i] # p[j]
  <2> SUFFICES ASSUME NEW i \in 1 .. Len(p), NEW j \in 1 .. Len(p), i # j PROVE p[i] # p[j]
    OBVIOUS
  <2>1. i < j \/ j < i
    BY <1>1
  <2>2. QED BY <1>1, <2>1
<1>3. p \in Injection(1 .. Len(p), Sql!Rows)
  BY <1>1, <1>2 DEF Injection, IsInjective
<1>4. Cardinality(1 .. Len(p)) <= Cardinality(Sql!Rows)
  BY <1>3, RowsCounted, FS_Injection
<1>5. Cardinality(1 .. Len(p)) = Len(p)
  <2>1. PICK n \in Nat : n = Len(p)
    BY <1>1
  <2>2. Cardinality(1 .. n) = n
    BY FS_Interval
  <2>3. QED BY <2>1, <2>2
<1>6. QED BY <1>4, <1>5, RowsCounted

LEMMA SqlInvInit == ASSUME Sql!Init PROVE SqlInv
<1> USE DEF Sql!Init
<1>1. page = <<>> /\ yielded = <<>> /\ page \in Seq(Sql!Rows) /\ Len(page) = 0 /\ DOMAIN page = {}
  BY EmptySeq, LenProperties
<1>2. Short(page, BatchSize) /\ Short(yielded, MaxRows)
  BY <1>1, SourceAssumption, AdminAssumption DEF Short
<1>3. Sql!Cardinality(Sql!Rows) = MaxRows
  BY SqlCard, RowsCounted
<1>4. Sql!TypeOK
  <2>1. /\ page \in UNION {[1 .. k -> Sql!Rows] : k \in 0 .. BatchSize}
        /\ yielded \in UNION {[1 .. k -> Sql!Rows] : k \in 0 .. Sql!Cardinality(Sql!Rows)}
    BY <1>2, <1>3, ShortAreTyped, SourceAssumption, AdminAssumption
  <2>2. inPage \in 0 .. BatchSize /\ storedKey \in 0 .. MaxKey /\ at \in 0 .. MaxKey /\ runs \in 0 .. MaxRuns
    BY SourceAssumption, AdminAssumption
  <2>3. rowOf \in [Sql!Rows -> [query : Queries, key : Sql!Keys, good : BOOLEAN]]
    OBVIOUS
  <2>4. QED BY <2>1, <2>2, <2>3 DEF Sql!TypeOK
<1>5. PageSound /\ CursorSound
  BY <1>1 DEF PageSound, CursorSound, Sql!Sorted
<1>6. \A r \in present \ late : Counts(r) => PassesNot(r)
  BY DEF Counts
<1>7. QED BY <1>4, <1>5, <1>6 DEF SqlInv

-----------------------------------------------------------------------------
\* A new row that is not late lies ahead of every cursor.
LEMMA InsertStep ==
    ASSUME SqlInv, NEW r \in Sql!Rows, Sql!Insert(r)
    PROVE  SqlInv'
<1>0. SqlTyped /\ Sql!TypeOK /\ PageSound /\ CursorSound /\ DOMAIN page = 1 .. Len(page)
  BY SqlRead, LenProperties DEF SqlInv, SqlTyped
<1>1. /\ present' = present \cup {r} /\ late \subseteq late' /\ late' \subseteq late \cup {r} /\ r \notin present
      /\ UNCHANGED <<rowOf, storedKey, reading, at, page, inPage, yielded, everYielded, used, runs>>
  BY DEF Sql!Insert
<1>2. Sql!TypeOK'
  BY <1>0, <1>1 DEF Sql!TypeOK
<1>3. PageSound' /\ CursorSound'
  BY <1>0, <1>1 DEF PageSound, CursorSound, Sql!Sorted, Sql!Key
<1>4. ASSUME NEW x \in present' \ late', Counts(x)' PROVE PassesNot(x)'
  <2>1. Counts(x)
    BY <1>1, <1>4 DEF Counts, Sql!Unique, Sql!Key
  <2>2. CASE x # r
    <3>1. x \in present \ late
      BY <1>1, <1>4, <2>2
    <3>2. PassesNot(x)
      BY <2>1, <3>1 DEF SqlInv
    <3>3. QED BY <1>1, <3>2 DEF PassesNot, Sql!Key
  <2>3. CASE x = r
    <3>1. \A k \in Sql!Reached : ~(Sql!Key(r) <= k)
      BY <1>1, <1>4, <2>3 DEF Sql!Insert
    <3>2. /\ ~(Sql!Key(r) <= storedKey) /\ ~(Sql!Key(r) <= at)
          /\ \A i \in DOMAIN page : ~(Sql!Key(r) <= Sql!Key(page[i]))
      BY <3>1 DEF Sql!Reached
    <3>3. QED BY <1>1, <2>3, <3>2 DEF PassesNot, Sql!Key
  <2>4. QED BY <2>2, <2>3
<1>5. QED BY <1>2, <1>3, <1>4 DEF SqlInv

\* A request starts behind the stored cursor, or from the beginning.
LEMMA SqlBeginStep ==
    ASSUME SqlInv, NEW q \in Queries, NEW explicit \in BOOLEAN, Sql!Begin(q, explicit)
    PROVE  SqlInv'
<1>0. SqlTyped /\ Sql!TypeOK /\ CursorSound
  BY SqlRead DEF SqlInv
<1>00. page' = <<>> /\ yielded' = <<>> /\ DOMAIN page' = {} /\ DOMAIN yielded' = {}
  <2>1. <<>> \in Seq(Sql!Rows) /\ Len(<<>>) = 0
    BY EmptySeq
  <2>2. DOMAIN <<>> = 1 .. 0
    BY <2>1, LenProperties
  <2>3. QED BY <2>2 DEF Sql!Begin
<1>1. /\ at' \in {0, storedKey} /\ reading' = q /\ used' = used \cup {q} /\ inPage' = BatchSize /\ runs < MaxRuns /\ runs' = runs + 1
      /\ UNCHANGED <<rowOf, present, storedKey, everYielded, late>>
  BY DEF Sql!Begin
<1>2. Sql!TypeOK'
  <2>1. \A n \in Nat : <<>> \in UNION {[1 .. k -> Sql!Rows] : k \in 0 .. n}
    <3> SUFFICES ASSUME NEW n \in Nat PROVE Short(<<>>, n)
      BY ShortAreTyped
    <3>1. QED BY EmptySeq DEF Short
  <2>2. Sql!Cardinality(Sql!Rows) = MaxRows
    BY SqlCard, RowsCounted
  <2>3. /\ page' \in UNION {[1 .. k -> Sql!Rows] : k \in 0 .. BatchSize}
        /\ yielded' \in UNION {[1 .. k -> Sql!Rows] : k \in 0 .. Sql!Cardinality(Sql!Rows)}
    BY <1>00, <2>1, <2>2, SourceAssumption, AdminAssumption
  <2>4. inPage' \in 0 .. BatchSize /\ at' \in 0 .. MaxKey /\ runs' \in 0 .. MaxRuns
    BY <1>0, <1>1, SourceAssumption, AdminAssumption DEF SqlTyped, Sql!TypeOK
  <2>5. QED BY <1>0, <1>1, <2>3, <2>4 DEF Sql!TypeOK
<1>3. PageSound' /\ CursorSound'
  BY <1>0, <1>00, <1>1 DEF PageSound, CursorSound, Sql!Sorted
<1>4. ASSUME NEW x \in present' \ late', Counts(x)' PROVE PassesNot(x)'
  <2>1. rowOf[x].good /\ q = rowOf[x].query /\ used \subseteq {q} /\ Sql!Unique(x) /\ x \in present \ late
    BY <1>1, <1>4 DEF Counts, Sql!Unique, Sql!Key
  <2>2. Sql!Key(x) \in 1 .. MaxKey
    BY <1>0, <2>1 DEF SqlTyped, Sql!Key
  <2>3. Sql!Key(x) <= storedKey => x \in everYielded
    <3>1. CASE used = {}
      BY <1>0, <2>2, <3>1, SourceAssumption DEF CursorSound
    <3>2. CASE used = {q}
      BY <2>1, <3>2 DEF SqlInv, Counts, PassesNot
    <3>3. QED BY <2>1, <3>1, <3>2
  <2>4. Sql!Key(x) <= at' => x \in everYielded
    BY <1>1, <2>2, <2>3, SourceAssumption
  <2>5. QED BY <1>00, <1>1, <2>3, <2>4 DEF PassesNot, Sql!Key
<1>5. QED BY <1>2, <1>3, <1>4 DEF SqlInv

LEMMA SqlEndStep ==
    ASSUME SqlInv, Sql!End \/ Sql!Break
    PROVE  SqlInv'
<1>0. SqlTyped /\ Sql!TypeOK /\ CursorSound /\ PageSound
  BY SqlRead DEF SqlInv
<1>00. page' = <<>> /\ DOMAIN page' = {} /\ Short(page', BatchSize)
  <2>1. <<>> \in Seq(Sql!Rows) /\ Len(<<>>) = 0
    BY EmptySeq
  <2>2. DOMAIN <<>> = 1 .. 0
    BY <2>1, LenProperties
  <2>3. Short(<<>>, BatchSize)
    BY <2>1, AdminAssumption DEF Short
  <2>4. page' = <<>>
    BY DEF Sql!End, Sql!Break
  <2>5. QED BY <2>2, <2>3, <2>4
<1>1. /\ reading' = NoQueryYet /\ inPage' \in {0, BatchSize}
      /\ UNCHANGED <<rowOf, present, storedKey, at, yielded, everYielded, late, used, runs>>
  BY DEF Sql!End, Sql!Break
<1>2. Sql!TypeOK'
  <2>1. page' \in UNION {[1 .. k -> Sql!Rows] : k \in 0 .. BatchSize}
    BY <1>00, ShortAreTyped, AdminAssumption
  <2>2. inPage' \in 0 .. BatchSize
    BY <1>1, AdminAssumption
  <2>3. QED BY <1>0, <1>1, <2>1, <2>2 DEF Sql!TypeOK
<1>3. PageSound' /\ CursorSound'
  BY <1>0, <1>00, <1>1 DEF PageSound, CursorSound, Sql!Sorted, Sql!Key
<1>4. ASSUME NEW x \in present' \ late', Counts(x)' PROVE PassesNot(x)'
  <2>1. Counts(x) /\ x \in present \ late
    BY <1>1, <1>4 DEF Counts, Sql!Unique, Sql!Key
  <2>2. PassesNot(x)
    BY <2>1 DEF SqlInv
  <2>3. QED BY <1>00, <1>1, <2>2 DEF PassesNot, Sql!Key
<1>5. QED BY <1>2, <1>3, <1>4 DEF SqlInv

(* A page is the first so many rows after the cursor, in order. *)
LEMMA FetchDoes ==
    ASSUME SqlInv, Sql!Fetch
    PROVE  \E n \in 0 .. BatchSize :
              /\ inPage' = n /\ page' \in [1 .. n -> Sql!After(at)] /\ Sql!Sorted(page')
              /\ \A r \in Sql!After(at), i \in 1 .. n : Sql!Key(r) >= Sql!Key(page'[i]) \/ \E j \in 1 .. n : page'[j] = r
<1> DEFINE c == Sql!Cardinality(Sql!After(at))
           n == IF c < BatchSize THEN c ELSE BatchSize
<1>1. c \in Nat
  <2>1. Sql!After(at) \subseteq Sql!Rows
    BY SqlRead DEF Sql!After, SqlTyped
  <2>2. QED BY <2>1, SqlCard, RowsCounted
<1>2. n \in 0 .. BatchSize
  BY <1>1, AdminAssumption
<1>3. /\ inPage' = n
      /\ page' \in {p \in [1 .. n -> Sql!After(at)] :
            /\ Sql!Sorted(p)
            /\ \A r \in Sql!After(at), i \in 1 .. n : Sql!Key(r) >= Sql!Key(p[i]) \/ \E j \in 1 .. n : p[j] = r}
  BY DEF Sql!Fetch, Sql!Ordered
<1> HIDE DEF n
<1>4. QED BY <1>2, <1>3

LEMMA FetchStep ==
    ASSUME SqlInv, Sql!Fetch
    PROVE  SqlInv'
<1>0. SqlTyped /\ Sql!TypeOK /\ CursorSound /\ PageSound
  BY SqlRead DEF SqlInv
<1>1. PICK n \in 0 .. BatchSize :
         /\ inPage' = n /\ page' \in [1 .. n -> Sql!After(at)] /\ Sql!Sorted(page')
         /\ \A r \in Sql!After(at), i \in 1 .. n : Sql!Key(r) >= Sql!Key(page'[i]) \/ \E j \in 1 .. n : page'[j] = r
  BY FetchDoes
<1>2. /\ reading # NoQueryYet
      /\ UNCHANGED <<rowOf, present, storedKey, reading, at, yielded, everYielded, late, used, runs>>
  BY DEF Sql!Fetch
<1>3. n \in Nat /\ DOMAIN page' = 1 .. n /\ \A i \in 1 .. n : page'[i] \in Sql!After(at)
  BY <1>1, AdminAssumption
<1>4. \A i \in 1 .. n : /\ page'[i] \in present /\ page'[i] \in Sql!Rows
                        /\ rowOf[page'[i]].query = reading /\ Sql!Key(page'[i]) > at
  BY <1>0, <1>3 DEF Sql!After, SqlTyped
<1>5. \A r \in Sql!Rows : Sql!Key(r) \in Nat
  BY <1>0 DEF SqlTyped, Sql!Key
<1>6. Sql!TypeOK'
  <2>1. page' \in [1 .. n -> Sql!Rows]
    BY <1>1, <1>4
  <2>2. page' \in UNION {[1 .. k -> Sql!Rows] : k \in 0 .. BatchSize}
    BY <1>1, <2>1
  <2>3. QED BY <1>0, <1>1, <1>2, <2>2 DEF Sql!TypeOK
<1>7. PageSound'
  <2>1. Sql!Sorted(yielded)' /\ Sql!Sorted(page)'
    BY <1>0, <1>1, <1>2 DEF PageSound, Sql!Sorted, Sql!Key
  <2>2. at \in Nat /\ DOMAIN yielded = 1 .. Len(yielded) /\ \A i \in DOMAIN yielded : yielded[i] \in Sql!Rows
    BY <1>0, LenProperties, ElementOfSeq, SourceAssumption DEF SqlTyped
  <2>3. \A j \in DOMAIN page' : page'[j] \in present /\ rowOf[page'[j]].query = reading /\ at <= Sql!Key(page'[j])
    BY <1>3, <1>4, <1>5, <2>2
  <2>4. \A i \in DOMAIN yielded, j \in DOMAIN page' : yielded[i] # page'[j]
    <3> SUFFICES ASSUME NEW i \in DOMAIN yielded, NEW j \in DOMAIN page', yielded[i] = page'[j] PROVE FALSE
      OBVIOUS
    <3>1. Sql!Key(yielded[i]) <= at /\ Sql!Key(yielded[i]) > at /\ Sql!Key(yielded[i]) \in Nat
      BY <1>0, <1>3, <1>4, <1>5, <2>2 DEF PageSound
    <3>2. QED BY <2>2, <3>1
  <2>5. QED BY <1>0, <1>2, <2>1, <2>3, <2>4 DEF PageSound, Sql!Key
<1>8. CursorSound'
  BY <1>0, <1>2 DEF CursorSound
<1>9. ASSUME NEW x \in present' \ late', Counts(x)' PROVE PassesNot(x)'
  <2>1. Counts(x) /\ x \in present \ late /\ x \in Sql!Rows
    BY <1>0, <1>2, <1>9 DEF Counts, Sql!Unique, Sql!Key, SqlTyped
  <2>2. PassesNot(x)
    BY <2>1 DEF SqlInv
  <2>3. rowOf[x].query = reading
    BY <1>0, <1>2, <2>1 DEF CursorSound, Counts
  <2>4. ASSUME NEW i \in 1 .. n, Sql!Key(x) <= Sql!Key(page'[i]), x \notin everYielded
        PROVE  \E j \in 1 .. n : page'[j] = x
    <3>1. at \in Nat /\ Sql!Key(x) \in Nat /\ Sql!Key(page'[i]) \in Nat
      BY <1>0, <1>4, <1>5, <2>1, SourceAssumption DEF SqlTyped
    <3>2. x \in Sql!After(at)
      BY <1>2, <2>1, <2>2, <2>3, <2>4, <3>1 DEF PassesNot, Sql!After
    <3>3. Sql!Key(x) >= Sql!Key(page'[i]) \/ \E j \in 1 .. n : page'[j] = x
      BY <1>1, <3>2
    <3>4. ASSUME Sql!Key(x) = Sql!Key(page'[i]) PROVE page'[i] = x
      BY <1>4, <2>1, <2>3, <3>4 DEF Counts, Sql!Unique
    <3>5. QED BY <2>4, <3>1, <3>3, <3>4
  <2>5. QED BY <1>2, <1>3, <2>2, <2>4 DEF PassesNot, Sql!Key
<1>10. QED BY <1>6, <1>7, <1>8, <1>9 DEF SqlInv

\* The first row of the page is yielded, or passed over when it cannot be read.
LEMMA RowStep ==
    ASSUME SqlInv, Sql!Row
    PROVE  SqlInv'
<1>0. SqlTyped /\ Sql!TypeOK /\ CursorSound /\ PageSound /\ Short(page, BatchSize) /\ Short(yielded, MaxRows)
  BY SqlRead DEF SqlInv
<1>1. /\ page # <<>> /\ page' = Tail(page)
      /\ UNCHANGED <<rowOf, present, reading, inPage, late, used, runs>>
  BY DEF Sql!Row
<1>2. PICK m \in Nat, n \in Nat : m = Len(yielded) /\ n = Len(page) /\ n >= 1
  BY <1>0, <1>1, LenProperties, EmptySeq DEF SqlTyped
<1>3. /\ DOMAIN page = 1 .. n /\ page' \in Seq(Sql!Rows) /\ Len(page') = n - 1 /\ DOMAIN page' = 1 .. n - 1
      /\ \A i \in 1 .. n - 1 : page'[i] = page[i + 1]
  BY <1>0, <1>1, <1>2, HeadTailProperties, LenProperties DEF SqlTyped
<1>4. PICK h \in Sql!Rows : h = page[1] /\ h = Head(page)
  BY <1>0, <1>1, <1>2, ElementOfSeq DEF SqlTyped
<1>5. \A r \in Sql!Rows : Sql!Key(r) \in 1 .. MaxKey
  BY <1>0 DEF SqlTyped, Sql!Key
<1>6. /\ DOMAIN yielded = 1 .. m /\ \A i \in 1 .. m : yielded[i] \in Sql!Rows
      /\ \A i \in 1 .. n : page[i] \in Sql!Rows
  BY <1>0, <1>2, LenProperties, ElementOfSeq DEF SqlTyped
<1>7. /\ \A i \in 1 .. m : (Sql!Key(yielded[i]) <= at) /\ (\A j \in 1 .. n : yielded[i] # page[j])
      /\ \A i, j \in 1 .. m : i < j => Sql!Key(yielded[i]) <= Sql!Key(yielded[j]) /\ yielded[i] # yielded[j]
      /\ \A i, j \in 1 .. n : i < j => Sql!Key(page[i]) <= Sql!Key(page[j]) /\ page[i] # page[j]
      /\ at <= Sql!Key(h) /\ h \in present /\ rowOf[h].query = reading /\ reading # NoQueryYet /\ at \in Nat
      /\ \A j \in 1 .. n : page[j] \in present /\ rowOf[page[j]].query = reading
  <2>1. /\ \A i \in 1 .. m : (Sql!Key(yielded[i]) <= at) /\ (\A j \in 1 .. n : yielded[i] # page[j])
        /\ \A j \in 1 .. n : page[j] \in present /\ rowOf[page[j]].query = reading /\ at <= Sql!Key(page[j])
        /\ reading # NoQueryYet
    BY <1>0, <1>1, <1>3, <1>6 DEF PageSound
  <2>2. /\ \A i, j \in 1 .. m : i < j => Sql!Key(yielded[i]) <= Sql!Key(yielded[j]) /\ yielded[i] # yielded[j]
        /\ \A i, j \in 1 .. n : i < j => Sql!Key(page[i]) <= Sql!Key(page[j]) /\ page[i] # page[j]
    BY <1>0, <1>3, <1>6 DEF PageSound, Sql!Sorted
  <2>3. 1 \in 1 .. n /\ at \in Nat
    BY <1>0, <1>2, SourceAssumption DEF SqlTyped
  <2>4. QED BY <1>4, <2>1, <2>2, <2>3
<1>8. \A j \in 1 .. n - 1 : j + 1 \in 1 .. n /\ 1 < j + 1
  OBVIOUS
<1>9. /\ Sql!Sorted(page)'
      /\ \A j \in 1 .. n - 1 : /\ page'[j] \in present /\ rowOf[page'[j]].query = reading
                               /\ page'[j] # h /\ Sql!Key(h) <= Sql!Key(page'[j])
                               /\ \A i \in 1 .. m : yielded[i] # page'[j]
  <2>1. \A i, j \in 1 .. n - 1 : i < j => i + 1 < j + 1
    OBVIOUS
  <2>2. \A i, j \in 1 .. n - 1 : i < j => Sql!Key(page'[i]) <= Sql!Key(page'[j]) /\ page'[i] # page'[j]
    BY <1>3, <1>7, <1>8, <2>1
  <2>3. Sql!Sorted(page)'
    BY <1>1, <1>3, <2>2 DEF Sql!Sorted, Sql!Key
  <2>4. 1 \in 1 .. n
    BY <1>2
  <2>5. \A j \in 1 .. n - 1 : page'[j] # h /\ Sql!Key(h) <= Sql!Key(page'[j])
    BY <1>3, <1>4, <1>7, <1>8, <2>4
  <2>6. \A j \in 1 .. n - 1 : /\ page'[j] \in present /\ rowOf[page'[j]].query = reading
                              /\ \A i \in 1 .. m : yielded[i] # page'[j]
    BY <1>3, <1>7, <1>8
  <2>7. QED BY <2>3, <2>5, <2>6
<1>10. Short(page', BatchSize)
  BY <1>0, <1>2, <1>3, AdminAssumption DEF Short
<1>11. CASE rowOf[h].good
  <2>1. /\ at' = Sql!Key(h) /\ storedKey' = Sql!Key(h) /\ yielded' = Append(yielded, h) /\ everYielded' = everYielded \cup {h}
    BY <1>4, <1>11 DEF Sql!Row
  <2>2. /\ yielded' \in Seq(Sql!Rows) /\ Len(yielded') = m + 1 /\ DOMAIN yielded' = 1 .. m + 1 /\ yielded'[m + 1] = h
        /\ \A i \in 1 .. m : yielded'[i] = yielded[i]
    BY <1>0, <1>2, <2>1, AppendProperties, LenProperties DEF SqlTyped
  <2>3. \A i \in 1 .. m + 1 : i \in 1 .. m \/ i = m + 1
    OBVIOUS
  <2>4. 1 \in 1 .. n
    BY <1>2
  <2>5. \A i \in 1 .. m : Sql!Key(yielded[i]) <= Sql!Key(h) /\ yielded[i] # h
    <3> SUFFICES ASSUME NEW i \in 1 .. m PROVE Sql!Key(yielded[i]) <= Sql!Key(h) /\ yielded[i] # h
      OBVIOUS
    <3>1. Sql!Key(yielded[i]) <= at /\ at <= Sql!Key(h) /\ Sql!Key(yielded[i]) \in Nat /\ Sql!Key(h) \in Nat
      BY <1>5, <1>6, <1>7, SourceAssumption
    <3>2. QED BY <1>4, <1>7, <2>4, <3>1
  <2>6. \A i, j \in 1 .. m + 1 : i < j => Sql!Key(yielded'[i]) <= Sql!Key(yielded'[j]) /\ yielded'[i] # yielded'[j]
    <3> SUFFICES ASSUME NEW i \in 1 .. m + 1, NEW j \in 1 .. m + 1, i < j
                 PROVE  Sql!Key(yielded'[i]) <= Sql!Key(yielded'[j]) /\ yielded'[i] # yielded'[j]
      OBVIOUS
    <3>1. i \in 1 .. m /\ (j \in 1 .. m \/ j = m + 1)
      OBVIOUS
    <3>2. QED BY <1>7, <2>2, <2>5, <3>1
  <2>7. Sql!Sorted(yielded)'
    BY <1>1, <2>2, <2>6 DEF Sql!Sorted, Sql!Key
  <2>8. Short(yielded', MaxRows)
    BY <2>2, <2>6, SortedIsShort DEF Short
  <2>9. PageSound'
    <3>1. \A i \in 1 .. m + 1 : Sql!Key(yielded'[i]) <= Sql!Key(h)
      BY <1>5, <2>2, <2>3, <2>5, SourceAssumption
    <3>2. \A i \in 1 .. m + 1, j \in 1 .. n - 1 : yielded'[i] # page'[j]
      BY <1>9, <2>2, <2>3
    <3>3. /\ \A i \in DOMAIN yielded' : rowOf'[yielded'[i]].key <= at'
          /\ \A j \in DOMAIN page' : /\ page'[j] \in present' /\ rowOf'[page'[j]].query = reading'
                                     /\ at' <= rowOf'[page'[j]].key
      BY <1>1, <1>3, <1>9, <2>1, <2>2, <3>1 DEF Sql!Key
    <3>4. QED BY <1>1, <1>3, <1>7, <1>9, <2>2, <2>7, <3>2, <3>3 DEF PageSound, Sql!Key
  <2>10. CursorSound'
    BY <1>0, <1>1, <1>7 DEF CursorSound
  <2>11. Sql!TypeOK'
    <3>1. /\ page' \in UNION {[1 .. k -> Sql!Rows] : k \in 0 .. BatchSize}
          /\ yielded' \in UNION {[1 .. k -> Sql!Rows] : k \in 0 .. Sql!Cardinality(Sql!Rows)}
      BY <1>10, <2>8, ShortAreTyped, SqlCard, RowsCounted, SourceAssumption, AdminAssumption
    <3>2. at' \in 0 .. MaxKey /\ storedKey' \in 0 .. MaxKey /\ everYielded' \subseteq Sql!Rows
      BY <1>0, <1>5, <2>1, SourceAssumption DEF SqlTyped
    <3>3. QED BY <1>0, <1>1, <3>1, <3>2 DEF Sql!TypeOK
  <2>12. ASSUME NEW x \in present' \ late', Counts(x)' PROVE PassesNot(x)'
    <3>1. Counts(x) /\ x \in present \ late /\ x \in Sql!Rows
      BY <1>0, <1>1, <2>12 DEF Counts, Sql!Unique, Sql!Key, SqlTyped
    <3>2. PassesNot(x) /\ rowOf[x].query = reading
      BY <1>0, <1>7, <3>1 DEF SqlInv, CursorSound, Counts
    \* A row as far as the head is the head, or was there before.
    <3>3. ASSUME Sql!Key(x) <= Sql!Key(h), x \notin everYielded PROVE x = h
      <4>1. PICK j \in 1 .. n : page[j] = x
        BY <1>2, <1>3, <1>4, <3>2, <3>3 DEF PassesNot
      <4>2. ASSUME j # 1 PROVE FALSE
        <5>1. Sql!Key(h) <= Sql!Key(x) /\ h # x /\ 1 \in 1 .. n
          BY <1>2, <1>4, <1>7, <4>1, <4>2
        <5>2. Sql!Key(h) = Sql!Key(x)
          BY <1>5, <3>1, <3>3, <5>1, SourceAssumption
        <5>3. QED BY <1>7, <3>1, <3>2, <5>1, <5>2 DEF Counts, Sql!Unique
      <4>3. QED BY <1>4, <4>1, <4>2
    <3>4. Sql!Key(x) <= Sql!Key(h) => x \in everYielded'
      BY <2>1, <3>3
    <3>5. ASSUME NEW i \in 1 .. n - 1, Sql!Key(x) <= Sql!Key(page'[i]), x \notin everYielded'
          PROVE  \E j \in 1 .. n - 1 : page'[j] = x
      <4>1. PICK j \in 1 .. n : page[j] = x
        BY <1>3, <1>8, <2>1, <3>2, <3>5 DEF PassesNot
      <4>2. j # 1
        BY <1>4, <2>1, <3>5, <4>1
      <4>3. j - 1 \in 1 .. n - 1 /\ (j - 1) + 1 = j
        BY <1>2, <4>2
      <4>4. QED BY <1>3, <4>1, <4>3
    <3>6. QED BY <1>1, <1>3, <2>1, <3>4, <3>5 DEF PassesNot, Sql!Key
  <2>13. QED BY <2>9, <2>10, <2>11, <2>12 DEF SqlInv
<1>12. CASE ~rowOf[h].good
  <2>1. UNCHANGED <<at, storedKey, yielded, everYielded>>
    BY <1>4, <1>12 DEF Sql!Row
  <2>2. PageSound'
    <3>1. \A j \in 1 .. n - 1 : at <= Sql!Key(page'[j])
      <4> SUFFICES ASSUME NEW j \in 1 .. n - 1 PROVE at <= Sql!Key(page'[j])
        OBVIOUS
      <4>1. Sql!Key(page'[j]) \in Nat /\ Sql!Key(h) \in Nat
        BY <1>3, <1>5, <1>6, <1>8, SourceAssumption
      <4>2. QED BY <1>7, <1>9, <4>1
    <3>2. QED BY <1>0, <1>1, <1>3, <1>6, <1>7, <1>9, <2>1, <3>1 DEF PageSound, Sql!Sorted, Sql!Key
  <2>3. CursorSound'
    BY <1>0, <1>1, <1>7, <2>1 DEF CursorSound
  <2>4. Sql!TypeOK'
    <3>1. page' \in UNION {[1 .. k -> Sql!Rows] : k \in 0 .. BatchSize}
      BY <1>10, ShortAreTyped, AdminAssumption
    <3>2. QED BY <1>0, <1>1, <2>1, <3>1 DEF Sql!TypeOK
  <2>5. ASSUME NEW x \in present' \ late', Counts(x)' PROVE PassesNot(x)'
    <3>1. Counts(x) /\ x \in present \ late /\ x # h
      BY <1>1, <1>12, <2>5 DEF Counts, Sql!Unique, Sql!Key
    <3>2. PassesNot(x)
      BY <3>1 DEF SqlInv
    <3>3. ASSUME NEW i \in 1 .. n - 1, Sql!Key(x) <= Sql!Key(page'[i]), x \notin everYielded
          PROVE  \E j \in 1 .. n - 1 : page'[j] = x
      <4>1. PICK j \in 1 .. n : page[j] = x
        BY <1>3, <1>8, <3>2, <3>3 DEF PassesNot
      <4>2. j # 1
        BY <1>4, <3>1, <4>1
      <4>3. j - 1 \in 1 .. n - 1 /\ (j - 1) + 1 = j
        BY <1>2, <4>2
      <4>4. QED BY <1>3, <4>1, <4>3
    <3>4. QED BY <1>1, <1>3, <2>1, <3>2, <3>3 DEF PassesNot, Sql!Key
  <2>6. QED BY <2>2, <2>3, <2>4, <2>5 DEF SqlInv
<1>13. QED BY <1>11, <1>12

LEMMA SqlInvStep ==
    ASSUME SqlInv, Sql!Next \/ UNCHANGED SqlVars
    PROVE  SqlInv'
<1>1. ASSUME UNCHANGED SqlVars PROVE SqlInv'
  <2>1. Sql!TypeOK' /\ PageSound' /\ CursorSound'
    BY <1>1 DEF SqlInv, SqlVars, Sql!TypeOK, PageSound, CursorSound, Sql!Sorted, Sql!Key
  <2>2. \A r \in present' \ late' : Counts(r)' => PassesNot(r)'
    BY <1>1 DEF SqlInv, SqlVars, Counts, PassesNot, Sql!Unique, Sql!Key
  <2>3. QED BY <2>1, <2>2 DEF SqlInv
<1>2. QED BY <1>1, InsertStep, SqlBeginStep, FetchStep, RowStep, SqlEndStep DEF Sql!Next

LEMMA SqlKept == AdminSpec => [](focus = "sql" => SqlInv)
<1>1. AdminInit => (focus = "sql" => SqlInv)
  BY SqlBegins, SqlInvInit
<1>2. (focus = "sql" => SqlInv) /\ [AdminNext]_adminVars => (focus = "sql" => SqlInv)'
  BY SqlMoves, SqlInvStep
<1>3. QED BY <1>1, <1>2, PTL DEF AdminSpec

LEMMA PagesCover == SqlInv => Sql!PagesDoNotRepeat /\ Sql!CursorPassesNothing
BY DEF SqlInv, PageSound, Counts, PassesNot, Sql!PagesDoNotRepeat, Sql!CursorPassesNothing

-----------------------------------------------------------------------------
(* The scheduled runs of the connectors.                                   *)

LEMMA JobsBegin ==
    ASSUME AdminInit, focus = "jobs"
    PROVE  Connectors!Init
BY DEF AdminInit, AdminFocus

LEMMA JobsMove ==
    ASSUME [AdminNext]_adminVars, focus' = "jobs"
    PROVE  focus = "jobs" /\ (Connectors!Next \/ UNCHANGED ConnectorsVars)
BY DEF AdminNext, AdminStays, adminVars

\* A task that has read its connector's cursor, and the last document it is done with.
Streaming == {"read", "handle", "hung", "save"}
Streams(t) == task[t].pc \in Streaming
DoneTo(t)  == IF task[t].pc = "handle" THEN task[t].hand - 1 ELSE task[t].at
Cov(f)     == published[f] \cup unreadable[f] \cup dropped[f]

(* The cursor of a run is at the document in hand, or all it has passed was*)
(* handed on.                                                              *)
HandSound(t) == task[t].pc = "handle" => task[t].hand = task[t].at /\ task[t].hand \in 1 .. MaxDocs
TaskCovered(t) == Streams(t) => 1 .. DoneTo(t) \subseteq Cov(t[1])

(* A connector whose runs neither overlapped nor lost their end has one run*)
(* at a time, which starts from the cursor it may overwrite, and nothing   *)
(* was published beyond the cursor or that run.                            *)
OneRun(f) ==
    \A m, n \in Slots : task[<<f, m>>].pc # "free" /\ task[<<f, n>>].pc # "free" => m = n
NothingAhead(f) ==
    /\ \A n \in Slots : Streams(<<f, n>>) => /\ task[<<f, n>>].from = cursorOf[f]
                                             /\ published[f] \subseteq 1 .. DoneTo(<<f, n>>)
    /\ (\A n \in Slots : ~Streams(<<f, n>>)) => published[f] \subseteq 1 .. cursorOf[f]
SettledFeed(f) == f \notin unsettled => OneRun(f) /\ NothingAhead(f) /\ again[f] = {}

\* Tasks that wait for the semaphore wait once.
WaitOnce == \A i, j \in DOMAIN waiting : i # j => waiting[i] # waiting[j]


-----------------------------------------------------------------------------
JobsCard == \A S : Connectors!Cardinality(S) = Cardinality(S)
LEMMA JobsCardIs == JobsCard
BY DEF JobsCard, Connectors!Cardinality, Cardinality, Connectors!IsFiniteSet, IsFiniteSet

LEMMA TasksFinite == IsFiniteSet(Connectors!Tasks)
BY SourceAssumption, FS_Product DEF Connectors!Tasks

TaskType == [pc : {"free", "queued", "load", "read", "handle", "hung", "save"}, at : 0 .. MaxDocs,
             from : 0 .. MaxDocs, fresh : BOOLEAN, hand : 0 .. MaxDocs, failed : BOOLEAN]
RunningTasks == {t \in Connectors!Tasks : Connectors!Running(t)}
QueuedTasks  == {t \in Connectors!Tasks : task[t].pc = "queued"}

(* The types, in two parts: the data, and who waits and who runs.          *)
JobsData ==
    /\ docs \in [Feeds -> 0 .. MaxDocs] /\ cursorOf \in [Feeds -> 0 .. MaxDocs]
    /\ due \subseteq Feeds /\ saved \subseteq Feeds /\ unsettled \subseteq Feeds
    /\ task \in [Connectors!Tasks -> TaskType] /\ stopping \in BOOLEAN /\ runFaults \in 0 .. MaxRunFaults
    /\ published \in [Feeds -> SUBSET Connectors!Docs] /\ again \in [Feeds -> SUBSET Connectors!Docs]
    /\ unreadable \in [Feeds -> SUBSET Connectors!Docs] /\ dropped \in [Feeds -> SUBSET Connectors!Docs]
Semaphore ==
    /\ waiting \in Seq(Connectors!Tasks) /\ WaitOnce
    /\ \A t \in Connectors!Tasks : task[t].pc = "queued" <=> \E i \in DOMAIN waiting : waiting[i] = t
    /\ Cardinality(RunningTasks) <= Permits

LEMMA JobsRead ==
    Connectors!TypeOK /\ waiting \in Seq(Connectors!Tasks) /\ WaitOnce <=> JobsData /\ Semaphore
<1>1. Connectors!Cardinality(RunningTasks) = Cardinality(RunningTasks)
  BY JobsCardIs DEF JobsCard
<1>2. ASSUME waiting \in Seq(Connectors!Tasks)
      PROVE  Connectors!Range(waiting) = QueuedTasks <=>
                \A t \in Connectors!Tasks : task[t].pc = "queued" <=> \E i \in DOMAIN waiting : waiting[i] = t
  <2>1. \A i \in DOMAIN waiting : waiting[i] \in Connectors!Tasks
    BY <1>2, LenProperties, ElementOfSeq
  <2>2. QED BY <2>1 DEF Connectors!Range, QueuedTasks
<1>3. QED BY <1>1, <1>2 DEF Connectors!TypeOK, JobsData, Semaphore, TaskType, RunningTasks, QueuedTasks

LEMMA FewerRun ==
    ASSUME Semaphore, RunningTasks' \subseteq RunningTasks
    PROVE  Cardinality(RunningTasks') <= Permits
<1>1. RunningTasks \subseteq Connectors!Tasks
  BY DEF RunningTasks
<1>2. IsFiniteSet(RunningTasks) /\ Cardinality(RunningTasks) \in Nat
  BY <1>1, TasksFinite, FS_Subset, FS_CardinalityType
<1>3. Cardinality(RunningTasks') <= Cardinality(RunningTasks) /\ Cardinality(RunningTasks') \in Nat
  BY <1>2, FS_Subset, FS_CardinalityType
<1>4. QED BY <1>2, <1>3, SourceAssumption DEF Semaphore

(* A step of one running task leaves the semaphore sound.                  *)
OnlyTask(t) ==
    /\ Connectors!Running(t) /\ waiting' = waiting /\ task'[t].pc # "queued"
    /\ \A u \in Connectors!Tasks \ {t} : task'[u] = task[u]

LEMMA OneMoves ==
    ASSUME Semaphore, NEW t \in Connectors!Tasks, OnlyTask(t)
    PROVE  Semaphore'
<1>1. task[t].pc # "queued"
  BY DEF OnlyTask, Connectors!Running
<1>2. RunningTasks' \subseteq RunningTasks
  BY DEF OnlyTask, RunningTasks, Connectors!Running
<1>3. \A u \in Connectors!Tasks : task'[u].pc = "queued" <=> task[u].pc = "queued"
  BY <1>1 DEF OnlyTask
<1>4. WaitOnce' /\ waiting' = waiting
  BY DEF OnlyTask, Semaphore, WaitOnce
<1>5. QED BY <1>2, <1>3, <1>4, FewerRun DEF Semaphore

-----------------------------------------------------------------------------
(* The poll starts at most one free task of a connector. *)
FreeSlots(f) == {n \in Slots : task[<<f, n>>].pc = "free"}

LEMMA PollDoes ==
    ASSUME JobsData, Connectors!Poll
    PROVE  \E new \in SUBSET Connectors!Tasks :
              /\ \A t \in new : t[1] \in due /\ task[t].pc = "free"
              /\ \A t, u \in new : t[1] = u[1] => t = u
              /\ \E order \in Connectors!SetToSeqs(new) : waiting' = waiting \o order
              /\ task' = [t \in Connectors!Tasks |-> IF t \in new THEN [Connectors!Free EXCEPT !.pc = "queued"] ELSE task[t]]
              /\ \A t \in new : FreeSlots(t[1]) # Slots => t[1] \in unsettled'
              /\ unsettled \subseteq unsettled' /\ unsettled' \subseteq Feeds
              /\ ~stopping /\ UNCHANGED <<docs, due, saved, cursorOf, stopping, published, again, unreadable, dropped, runFaults>>
<1> DEFINE started == {f \in due : FreeSlots(f) # {}}
           new == {<<f, CHOOSE n \in FreeSlots(f) : TRUE>> : f \in started}
<1>1. /\ \E order \in Connectors!SetToSeqs(new) : waiting' = waiting \o order
      /\ task' = [t \in Connectors!Tasks |-> IF t \in new THEN [Connectors!Free EXCEPT !.pc = "queued"] ELSE task[t]]
      /\ unsettled' = unsettled \cup {f \in started : FreeSlots(f) # Slots}
      /\ ~stopping /\ UNCHANGED <<docs, due, saved, cursorOf, stopping, published, again, unreadable, dropped, runFaults>>
  BY DEF Connectors!Poll, FreeSlots, Connectors!store, Connectors!history
<1>2. started \subseteq Feeds /\ due \subseteq Feeds
  BY DEF JobsData
<1>3. ASSUME NEW t \in new
      PROVE  /\ t \in Connectors!Tasks /\ t[1] \in started /\ task[t].pc = "free"
             /\ t = <<t[1], CHOOSE n \in FreeSlots(t[1]) : TRUE>>
  <2>1. PICK f \in started : t = <<f, CHOOSE n \in FreeSlots(f) : TRUE>>
    OBVIOUS
  <2>2. PICK k : k = (CHOOSE m \in FreeSlots(f) : TRUE) /\ k \in FreeSlots(f)
    OBVIOUS
  <2>3. t = <<f, k>> /\ k \in Slots /\ task[<<f, k>>].pc = "free"
    BY <2>1, <2>2 DEF FreeSlots
  <2>4. f \in Feeds /\ t[1] = f /\ f \in started
    BY <1>2, <2>3
  <2>5. t \in Connectors!Tasks /\ task[t].pc = "free" /\ t[1] \in started
    BY <2>3, <2>4 DEF Connectors!Tasks
  <2>6. t = <<t[1], CHOOSE n \in FreeSlots(t[1]) : TRUE>>
    BY <2>1, <2>4, Zenon
  <2>7. QED BY <2>5, <2>6
<1> HIDE DEF new, started
<1>4. \A t, u \in new : t[1] = u[1] => t = u
  BY <1>3, Zenon
<1>5. unsettled \subseteq unsettled' /\ unsettled' \subseteq Feeds
  BY <1>1, <1>2 DEF JobsData
<1>6. \A t \in new : FreeSlots(t[1]) # Slots => t[1] \in unsettled'
  BY <1>1, <1>3
<1>7. started \subseteq due
  BY DEF started
<1>8. QED BY <1>1, <1>3, <1>4, <1>5, <1>6, <1>7

LEMMA FreeTyped ==
    /\ Connectors!Free \in TaskType /\ Connectors!Free.pc = "free"
    /\ [Connectors!Free EXCEPT !.pc = "queued"] \in TaskType
    /\ [Connectors!Free EXCEPT !.pc = "queued"].pc = "queued"
<1>1. Connectors!Free \in TaskType /\ Connectors!Free.pc = "free"
  BY SourceAssumption DEF Connectors!Free, TaskType
<1>2. [Connectors!Free EXCEPT !.pc = "queued"] \in TaskType /\ [Connectors!Free EXCEPT !.pc = "queued"].pc = "queued"
  BY <1>1 DEF TaskType
<1>3. QED BY <1>1, <1>2

LEMMA PollKeeps ==
    ASSUME JobsData, Semaphore, Connectors!Poll
    PROVE  JobsData' /\ Semaphore'
<1>1. PICK new \in SUBSET Connectors!Tasks :
         /\ \A t \in new : t[1] \in due /\ task[t].pc = "free"
         /\ \E order \in Connectors!SetToSeqs(new) : waiting' = waiting \o order
         /\ task' = [t \in Connectors!Tasks |-> IF t \in new THEN [Connectors!Free EXCEPT !.pc = "queued"] ELSE task[t]]
         /\ unsettled' \subseteq Feeds
         /\ UNCHANGED <<docs, due, saved, cursorOf, stopping, published, again, unreadable, dropped, runFaults>>
  BY PollDoes
<1>2. JobsData'
  BY <1>1, FreeTyped DEF JobsData
<1>3. RunningTasks' \subseteq RunningTasks
  BY <1>1, FreeTyped DEF RunningTasks, Connectors!Running
<1>4. PICK c \in Nat : c = Cardinality(new) /\ c = Connectors!Cardinality(new)
  BY TasksFinite, FS_Subset, FS_CardinalityType, JobsCardIs DEF JobsCard
<1>5. PICK order \in [1 .. c -> new] : /\ waiting' = waiting \o order
                                       /\ \A i, j \in 1 .. c : i # j => order[i] # order[j]
  BY <1>1, <1>4 DEF Connectors!SetToSeqs
<1>6. \A t \in new : \E i \in 1 .. c : order[i] = t
  <2>1. order \in Injection(1 .. c, new) /\ IsFiniteSet(new)
    BY <1>5, TasksFinite, FS_Subset DEF Injection, IsInjective
  <2>2. Cardinality(1 .. c) = c
    BY FS_Interval
  <2>3. order \in Surjection(1 .. c, new)
    BY <1>4, <2>1, <2>2, FS_Injection
  <2>4. QED BY <2>3 DEF Surjection
<1>7. order \in Seq(Connectors!Tasks) /\ Len(order) = c
  <2>1. order \in Seq(new)
    BY <1>5, SeqDef
  <2>2. QED BY <1>5, <2>1, SeqMonotonic, LenProperties
<1>8. PICK m \in Nat : m = Len(waiting) /\ DOMAIN waiting = 1 .. m
  BY LenProperties DEF Semaphore
<1>9. /\ waiting' \in Seq(Connectors!Tasks) /\ Len(waiting') = m + c /\ DOMAIN waiting' = 1 .. m + c
      /\ \A i \in 1 .. m + c : waiting'[i] = IF i <= m THEN waiting[i] ELSE order[i - m]
  <2>1. waiting \in Seq(Connectors!Tasks) /\ Len(waiting) = m /\ Len(order) = c /\ order \in Seq(Connectors!Tasks)
    BY <1>7, <1>8 DEF Semaphore
  <2>2. PICK s : s = waiting \o order
    OBVIOUS
  <2>3. /\ s \in Seq(Connectors!Tasks) /\ Len(s) = m + c
        /\ \A i \in 1 .. m + c : s[i] = IF i <= m THEN waiting[i] ELSE order[i - m]
    BY <2>1, <2>2, ConcatProperties
  <2>4. DOMAIN s = 1 .. m + c
    BY <2>3, LenProperties
  <2>5. waiting' = s
    BY <1>5, <2>2
  <2>6. QED BY <2>3, <2>4, <2>5
<1>10. \A i \in 1 .. m : task[waiting[i]].pc = "queued" /\ waiting[i] \in Connectors!Tasks
  BY <1>8, ElementOfSeq DEF Semaphore
<1>11. WaitOnce'
  <2> SUFFICES ASSUME NEW i \in 1 .. m + c, NEW j \in 1 .. m + c, i # j PROVE waiting'[i] # waiting'[j]
    BY <1>9 DEF WaitOnce
  <2>1. \A k \in 1 .. m + c : k > m => k - m \in 1 .. c /\ waiting'[k] = order[k - m] /\ task[order[k - m]].pc = "free"
    BY <1>1, <1>5, <1>9
  <2>2. \A k \in 1 .. m + c : k <= m => k \in 1 .. m /\ waiting'[k] = waiting[k] /\ task[waiting[k]].pc = "queued"
    BY <1>9, <1>10
  <2>3. CASE i <= m /\ j <= m
    BY <1>8, <2>2, <2>3 DEF Semaphore, WaitOnce
  <2>4. CASE i > m /\ j > m
    <3>1. i - m # j - m
      BY <1>8
    <3>2. QED BY <1>5, <2>1, <2>4, <3>1
  <2>5. CASE (i <= m /\ j > m) \/ (i > m /\ j <= m)
    <3>1. "free" # "queued"
      OBVIOUS
    <3>2. QED BY <2>1, <2>2, <2>5, <3>1
  <2>6. QED BY <1>8, <2>3, <2>4, <2>5
<1>12. ASSUME NEW t \in Connectors!Tasks PROVE task'[t].pc = "queued" <=> \E i \in DOMAIN waiting' : waiting'[i] = t
  <2>1. CASE t \in new
    <3>1. PICK i \in 1 .. c : order[i] = t
      BY <1>6, <2>1
    <3>2. m + i \in 1 .. m + c /\ m + i > m /\ (m + i) - m = i
      OBVIOUS
    <3>3. waiting'[m + i] = t
      BY <1>9, <3>1, <3>2
    <3>4. QED BY <1>1, <1>9, <2>1, <3>2, <3>3, FreeTyped
  <2>2. CASE t \notin new
    <3>1. task'[t] = task[t]
      BY <1>1, <2>2
    <3>2. ASSUME NEW i \in 1 .. m + c, waiting'[i] = t PROVE i \in 1 .. m /\ waiting[i] = t
      <4>1. i > m => i - m \in 1 .. c
        OBVIOUS
      <4>2. QED BY <1>5, <1>9, <2>2, <3>2, <4>1
    <3>3. ASSUME NEW i \in 1 .. m, waiting[i] = t PROVE i \in 1 .. m + c /\ waiting'[i] = t
      BY <1>9, <3>3
    <3>4. QED BY <1>8, <1>9, <3>1, <3>2, <3>3 DEF Semaphore
  <2>3. QED BY <2>1, <2>2
<1>13. QED BY <1>2, <1>3, <1>9, <1>11, <1>12, FewerRun DEF Semaphore

(* The semaphore lets in as many as it has permits, the first that waits.  *)
LEMMA AcquireKeeps ==
    ASSUME JobsData, Semaphore, Connectors!Acquire
    PROVE  /\ JobsData' /\ Semaphore'
           /\ \E h \in Connectors!Tasks : task[h].pc = "queued" /\ task' = [task EXCEPT ![h].pc = "load"]
<1>1. /\ waiting # <<>> /\ Connectors!Cardinality(RunningTasks) < Permits
      /\ task' = [task EXCEPT ![Head(waiting)].pc = "load"] /\ waiting' = Tail(waiting)
      /\ UNCHANGED <<docs, due, saved, cursorOf, stopping, published, again, unreadable, dropped, unsettled, runFaults>>
  BY DEF Connectors!Acquire, RunningTasks, Connectors!store, Connectors!history
<1>2. PICK m \in Nat : m = Len(waiting) /\ m >= 1
  BY <1>1, LenProperties, EmptySeq DEF Semaphore
<1>3. /\ DOMAIN waiting = 1 .. m /\ waiting' \in Seq(Connectors!Tasks) /\ DOMAIN waiting' = 1 .. m - 1
      /\ \A i \in 1 .. m - 1 : waiting'[i] = waiting[i + 1]
  BY <1>1, <1>2, HeadTailProperties, LenProperties DEF Semaphore
<1>4. PICK h \in Connectors!Tasks : h = Head(waiting) /\ h = waiting[1]
  BY <1>1, <1>2, ElementOfSeq DEF Semaphore
<1>5. task[h].pc = "queued"
  BY <1>2, <1>3, <1>4 DEF Semaphore
<1>6. /\ \A u \in Connectors!Tasks \ {h} : task'[u] = task[u]
      /\ task'[h].pc = "load" /\ task' \in [Connectors!Tasks -> TaskType]
  BY <1>1, <1>4 DEF JobsData, TaskType
<1>7. JobsData'
  BY <1>1, <1>6 DEF JobsData
<1>8. WaitOnce'
  <2>1. \A i \in 1 .. m - 1 : i + 1 \in DOMAIN waiting
    BY <1>3
  <2>2. \A i, j \in 1 .. m - 1 : i # j => i + 1 # j + 1
    OBVIOUS
  <2>3. SUFFICES ASSUME NEW i \in 1 .. m - 1, NEW j \in 1 .. m - 1, i # j PROVE waiting'[i] # waiting'[j]
    BY <1>3 DEF WaitOnce
  <2>4. waiting[i + 1] # waiting[j + 1]
    BY <2>1, <2>2, <2>3 DEF Semaphore, WaitOnce
  <2>5. QED BY <1>3, <2>4
<1>9. ASSUME NEW t \in Connectors!Tasks PROVE task'[t].pc = "queued" <=> \E i \in DOMAIN waiting' : waiting'[i] = t
  <2>1. ASSUME NEW i \in 1 .. m - 1, waiting'[i] = t PROVE t # h /\ task[t].pc = "queued"
    <3>1. i + 1 \in 1 .. m /\ i + 1 # 1 /\ 1 \in 1 .. m
      BY <1>2
    <3>2. waiting[i + 1] = t
      BY <1>3, <2>1
    <3>3. QED BY <1>3, <1>4, <3>1, <3>2 DEF Semaphore, WaitOnce
  <2>2. ASSUME t # h, task[t].pc = "queued" PROVE \E i \in 1 .. m - 1 : waiting'[i] = t
    <3>1. PICK j \in 1 .. m : waiting[j] = t
      BY <1>3, <2>2 DEF Semaphore
    <3>2. j # 1
      BY <1>4, <2>2, <3>1
    <3>3. j - 1 \in 1 .. m - 1 /\ (j - 1) + 1 = j
      BY <3>2
    <3>4. QED BY <1>3, <3>1, <3>3
  <2>3. task'[t].pc = "queued" <=> t # h /\ task[t].pc = "queued"
    BY <1>6
  <2>4. QED BY <1>3, <2>1, <2>2, <2>3
<1>10. Cardinality(RunningTasks') <= Permits
  <2>1. RunningTasks' = RunningTasks \cup {h}
    BY <1>4, <1>6 DEF RunningTasks, Connectors!Running
  <2>2. RunningTasks \subseteq Connectors!Tasks
    BY DEF RunningTasks
  <2>3. PICK c \in Nat : c = Cardinality(RunningTasks) /\ IsFiniteSet(RunningTasks)
    BY <2>2, TasksFinite, FS_Subset, FS_CardinalityType
  <2>4. c < Permits
    BY <1>1, <2>3, JobsCardIs DEF JobsCard
  <2>5. Cardinality(RunningTasks \cup {h}) = c \/ Cardinality(RunningTasks \cup {h}) = c + 1
    BY <2>3, FS_AddElement
  <2>6. QED BY <2>1, <2>4, <2>5, SourceAssumption
<1>11. QED BY <1>1, <1>3, <1>4, <1>5, <1>7, <1>8, <1>9, <1>10 DEF Semaphore

\* Every task ends, or is left to save what it has.
LEMMA EndsKeep ==
    ASSUME JobsData, Semaphore, waiting' = <<>>, task' \in [Connectors!Tasks -> TaskType],
           \A t \in Connectors!Tasks : task'[t].pc # "queued" /\ (Connectors!Running(t)' => Connectors!Running(t))
    PROVE  Semaphore'
<1>1. waiting' \in Seq(Connectors!Tasks) /\ DOMAIN waiting' = {}
  <2>1. <<>> \in Seq(Connectors!Tasks) /\ Len(<<>>) = 0
    BY EmptySeq
  <2>2. DOMAIN <<>> = 1 .. 0
    BY <2>1, LenProperties
  <2>3. QED BY <2>1, <2>2
<1>2. RunningTasks' \subseteq RunningTasks
  BY DEF RunningTasks
<1>3. QED BY <1>1, <1>2, FewerRun DEF Semaphore, WaitOnce

LEMMA KillKeeps ==
    ASSUME JobsData, Semaphore, Connectors!Kill
    PROVE  JobsData' /\ Semaphore'
<1>1. /\ waiting' = <<>> /\ task' = [t \in Connectors!Tasks |-> Connectors!Free]
      /\ unsettled' = unsettled \cup {t[1] : t \in {u \in Connectors!Tasks : Connectors!Running(u)}}
      /\ stopping' = FALSE /\ runFaults < MaxRunFaults /\ runFaults' = runFaults + 1
      /\ UNCHANGED <<docs, due, saved, cursorOf, published, again, unreadable, dropped>>
  BY DEF Connectors!Kill, Connectors!Fault, Connectors!store, Connectors!history
<1>2. unsettled' \subseteq Feeds
  BY <1>1 DEF JobsData, Connectors!Tasks
<1>3. JobsData'
  <2>1. task' \in [Connectors!Tasks -> TaskType]
    BY <1>1, FreeTyped
  <2>2. runFaults' \in 0 .. MaxRunFaults
    BY <1>1, SourceAssumption DEF JobsData
  <2>3. QED BY <1>1, <1>2, <2>1, <2>2 DEF JobsData
<1>4. Semaphore'
  BY <1>1, <1>3, FreeTyped, EndsKeep DEF JobsData, Connectors!Running
<1>5. QED BY <1>3, <1>4

LEMMA ShutdownDoes ==
    ASSUME JobsData, Connectors!Shutdown
    PROVE  /\ waiting' = <<>> /\ stopping' = TRUE /\ runFaults < MaxRunFaults /\ runFaults' = runFaults + 1
           /\ \A t \in Connectors!Tasks : task'[t] = IF Streams(t) THEN [task[t] EXCEPT !.pc = "save", !.hand = 0] ELSE Connectors!Free
           /\ task' \in [Connectors!Tasks -> TaskType]
           /\ \A f \in Feeds : dropped'[f] = dropped[f] \cup
                 {task[t].hand : t \in {u \in Connectors!Tasks : u[1] = f /\ task[u].pc = "handle"}}
           /\ DOMAIN dropped' = Feeds
           /\ UNCHANGED <<docs, due, saved, cursorOf, published, again, unreadable, unsettled>>
<1>1. /\ waiting' = <<>> /\ stopping' = TRUE /\ runFaults < MaxRunFaults /\ runFaults' = runFaults + 1
      /\ dropped' = [f \in Feeds |-> dropped[f] \cup
                        {task[t].hand : t \in {u \in Connectors!Tasks : u[1] = f /\ task[u].pc = "handle"}}]
      /\ UNCHANGED <<docs, due, saved, cursorOf, published, again, unreadable, unsettled>>
  BY DEF Connectors!Shutdown, Connectors!Fault, Connectors!store
<1>2. task' = [t \in Connectors!Tasks |-> IF t \in {u \in Connectors!Tasks : Streams(u)}
                                          THEN [task[t] EXCEPT !.pc = "save", !.hand = 0] ELSE Connectors!Free]
  BY DEF Connectors!Shutdown, Streams, Streaming
<1>3. \A t \in Connectors!Tasks : task'[t] = IF Streams(t) THEN [task[t] EXCEPT !.pc = "save", !.hand = 0] ELSE Connectors!Free
  BY <1>2
<1>4. \A t \in Connectors!Tasks : [task[t] EXCEPT !.pc = "save", !.hand = 0] \in TaskType
  <2> SUFFICES ASSUME NEW t \in Connectors!Tasks PROVE [task[t] EXCEPT !.pc = "save", !.hand = 0] \in TaskType
    OBVIOUS
  <2>1. PICK r \in TaskType : r = task[t]
    BY DEF JobsData
  <2>2. 0 \in 0 .. MaxDocs
    BY SourceAssumption
  <2>3. [r EXCEPT !.pc = "save", !.hand = 0] \in TaskType
    BY <2>2 DEF TaskType
  <2>4. QED BY <2>1, <2>3
<1>5. task' \in [Connectors!Tasks -> TaskType]
  BY <1>2, <1>4, FreeTyped
<1>6. QED BY <1>1, <1>3, <1>5

LEMMA ShutdownKeeps ==
    ASSUME JobsData, Semaphore, Connectors!Shutdown, \A t \in Connectors!Tasks : HandSound(t)
    PROVE  JobsData' /\ Semaphore'
<1>1. ASSUME NEW t \in Connectors!Tasks PROVE task'[t].pc = IF Streams(t) THEN "save" ELSE "free"
  BY ShutdownDoes, FreeTyped DEF JobsData, TaskType
<1>2. Semaphore'
  BY <1>1, ShutdownDoes, EndsKeep DEF Connectors!Running, Streams, Streaming
<1>3. \A f \in Feeds : dropped'[f] \subseteq Connectors!Docs
  <2> SUFFICES ASSUME NEW f \in Feeds, NEW d \in dropped'[f] PROVE d \in Connectors!Docs
    OBVIOUS
  <2>0. dropped'[f] = dropped[f] \cup {task[t].hand : t \in {u \in Connectors!Tasks : u[1] = f /\ task[u].pc = "handle"}}
    BY ShutdownDoes, Zenon
  <2>1. d \in dropped[f] \/ \E t \in Connectors!Tasks : task[t].pc = "handle" /\ d = task[t].hand
    BY <2>0
  <2>2. dropped[f] \subseteq Connectors!Docs
    BY DEF JobsData
  <2>3. QED BY <2>1, <2>2 DEF HandSound, Connectors!Docs
<1>4. dropped' \in [Feeds -> SUBSET Connectors!Docs]
  <2>1. dropped' = [f \in Feeds |-> dropped'[f]]
    BY ShutdownDoes DEF Connectors!Shutdown
  <2>2. QED BY <1>3, <2>1
<1>5. runFaults' \in 0 .. MaxRunFaults /\ task' \in [Connectors!Tasks -> TaskType] /\ stopping' \in BOOLEAN
  <2>1. runFaults < MaxRunFaults /\ runFaults' = runFaults + 1 /\ stopping' = TRUE /\ task' \in [Connectors!Tasks -> TaskType]
    BY ShutdownDoes
  <2>2. QED BY <2>1, SourceAssumption DEF JobsData
<1>6. UNCHANGED <<docs, due, saved, cursorOf, published, again, unreadable, unsettled>>
  BY ShutdownDoes
<1>7. QED BY <1>2, <1>4, <1>5, <1>6 DEF JobsData

-----------------------------------------------------------------------------
(* What a step of one task owes the coverage and the settled connectors.   *)
Covering ==
    /\ \A f \in Feeds : 1 .. cursorOf[f] \subseteq Cov(f)
    /\ \A t \in Connectors!Tasks : HandSound(t) /\ TaskCovered(t)
Settling == \A f \in Feeds : SettledFeed(f)

\* The only run of a settled connector.
RanAlone(t) ==
    /\ Streams(t) => task[t].from = cursorOf[t[1]] /\ published[t[1]] \subseteq 1 .. DoneTo(t)
    /\ ~Streams(t) => published[t[1]] \subseteq 1 .. cursorOf[t[1]]
    /\ again[t[1]] = {}

LEMMA TaskIs ==
    ASSUME NEW t \in Connectors!Tasks
    PROVE  t = <<t[1], t[2]>> /\ t[1] \in Feeds /\ t[2] \in Slots
BY DEF Connectors!Tasks

LEMMA RunsAlone ==
    ASSUME Settling, NEW t \in Connectors!Tasks, t[1] \notin unsettled, task[t].pc # "free"
    PROVE  RanAlone(t) /\ \A n \in Slots \ {t[2]} : task[<<t[1], n>>].pc = "free"
<1>1. PICK f \in Feeds, k \in Slots : t = <<f, k>> /\ t[1] = f /\ t[2] = k
  BY TaskIs
<1>2. OneRun(f) /\ NothingAhead(f) /\ again[f] = {}
  BY <1>1 DEF Settling, SettledFeed
<1>3. \A n \in Slots \ {k} : task[<<f, n>>].pc = "free"
  BY <1>1, <1>2 DEF OneRun
<1>4. ~Streams(t) => \A n \in Slots : ~Streams(<<f, n>>)
  BY <1>1, <1>3 DEF Streams, Streaming
<1>5. RanAlone(t)
  BY <1>1, <1>2, <1>4 DEF NothingAhead, RanAlone
<1>6. QED BY <1>1, <1>3, <1>5

LEMMA OthersRest ==
    ASSUME NEW f \in Feeds, SettledFeed(f), \A n \in Slots : task'[<<f, n>>] = task[<<f, n>>],
           cursorOf'[f] = cursorOf[f], published'[f] = published[f], again'[f] = again[f],
           f \in unsettled => f \in unsettled'
    PROVE  SettledFeed(f)'
<1>1. SUFFICES ASSUME f \notin unsettled' PROVE OneRun(f)' /\ NothingAhead(f)' /\ again'[f] = {}
  BY DEF SettledFeed
<1>2. OneRun(f) /\ NothingAhead(f) /\ again[f] = {}
  BY <1>1 DEF SettledFeed
<1>3. OneRun(f)'
  BY <1>2 DEF OneRun
<1>4. \A n \in Slots : Streams(<<f, n>>)' = Streams(<<f, n>>) /\ DoneTo(<<f, n>>)' = DoneTo(<<f, n>>)
  BY DEF Streams, DoneTo
<1>5. NothingAhead(f)'
  BY <1>2, <1>4 DEF NothingAhead
<1>6. QED BY <1>2, <1>3, <1>5

LEMMA TaskKeeps ==
    ASSUME Covering, Settling, NEW t \in Connectors!Tasks, OnlyTask(t),
           \A f \in Feeds : Cov(f) \subseteq Cov(f)',
           \A f \in Feeds \ {t[1]} : /\ cursorOf'[f] = cursorOf[f] /\ published'[f] = published[f]
                                     /\ again'[f] = again[f] /\ (f \in unsettled => f \in unsettled'),
           HandSound(t)', TaskCovered(t)', 1 .. cursorOf'[t[1]] \subseteq Cov(t[1])',
           t[1] \notin unsettled' => t[1] \notin unsettled /\ RanAlone(t)'
    PROVE  Covering' /\ Settling'
<1>1. \A f \in Feeds : 1 .. cursorOf'[f] \subseteq Cov(f)'
  BY DEF Covering
<1>2. ASSUME NEW u \in Connectors!Tasks PROVE HandSound(u)' /\ TaskCovered(u)'
  <2>1. CASE u = t
    BY <2>1
  <2>2. CASE u # t
    <3>1. task'[u] = task[u] /\ u[1] \in Feeds /\ HandSound(u) /\ TaskCovered(u)
      BY <2>2, TaskIs DEF OnlyTask, Covering
    <3>2. Streams(u)' = Streams(u) /\ DoneTo(u)' = DoneTo(u) /\ Cov(u[1]) \subseteq Cov(u[1])'
      BY <3>1 DEF Streams, DoneTo
    <3>3. HandSound(u)'
      BY <3>1 DEF HandSound
    <3>4. TaskCovered(u)'
      BY <3>1, <3>2 DEF TaskCovered
    <3>5. QED BY <3>3, <3>4
  <2>3. QED BY <2>1, <2>2
<1>3. PICK g \in Feeds, k \in Slots : t = <<g, k>> /\ t[1] = g /\ t[2] = k
  BY TaskIs
<1>4. \A f \in Feeds, n \in Slots : <<f, n>> # t => task'[<<f, n>>] = task[<<f, n>>]
  BY DEF OnlyTask, Connectors!Tasks
<1>5. ASSUME NEW f \in Feeds, f # g PROVE SettledFeed(f)'
  <2>1. \A n \in Slots : task'[<<f, n>>] = task[<<f, n>>]
    BY <1>3, <1>4, <1>5
  <2>2. QED BY <1>3, <1>5, <2>1, OthersRest DEF Settling
<1>6. SettledFeed(g)'
  <2>1. SUFFICES ASSUME g \notin unsettled' PROVE OneRun(g)' /\ NothingAhead(g)' /\ again'[g] = {}
    BY DEF SettledFeed
  <2>2. g \notin unsettled /\ RanAlone(t)'
    BY <1>3, <2>1
  <2>3. task[t].pc # "free"
    BY DEF OnlyTask, Connectors!Running
  <2>4. \A n \in Slots \ {k} : task[<<g, n>>].pc = "free"
    BY <1>3, <2>2, <2>3, RunsAlone
  <2>5. \A n \in Slots \ {k} : task'[<<g, n>>].pc = "free"
    BY <1>3, <1>4, <2>4
  <2>6. OneRun(g)'
    BY <2>5 DEF OneRun
  <2>7. \A n \in Slots \ {k} : ~Streams(<<g, n>>)'
    BY <2>5 DEF Streams, Streaming
  <2>8. NothingAhead(g)'
    <3>1. Streams(t)' => task'[t].from = cursorOf'[g] /\ published'[g] \subseteq 1 .. DoneTo(t)'
      BY <1>3, <2>2 DEF RanAlone
    <3>2. ~Streams(t)' => published'[g] \subseteq 1 .. cursorOf'[g]
      BY <1>3, <2>2 DEF RanAlone
    <3>3. QED BY <1>3, <2>7, <3>1, <3>2 DEF NothingAhead
  <2>9. QED BY <1>3, <2>2, <2>6, <2>8 DEF RanAlone
<1>7. Settling'
  BY <1>5, <1>6 DEF Settling
<1>8. QED BY <1>1, <1>2, <1>7 DEF Covering

-----------------------------------------------------------------------------
(* The steps of one task.                                                  *)
JobsSound == JobsData /\ Semaphore /\ Covering /\ Settling
History == <<published, again, unreadable, dropped>>

\* A step that moves one task and hands nothing on.
Quiet(t) ==
    /\ OnlyTask(t) /\ task' \in [Connectors!Tasks -> TaskType]
    /\ UNCHANGED <<docs, due, saved, cursorOf, stopping, unsettled, runFaults>> /\ UNCHANGED History

LEMMA QuietKeeps ==
    ASSUME JobsSound, NEW t \in Connectors!Tasks, Quiet(t), HandSound(t)', TaskCovered(t)',
           t[1] \notin unsettled => RanAlone(t)'
    PROVE  JobsSound'
<1>1. JobsData'
  BY DEF JobsSound, JobsData, Quiet, History
<1>2. Semaphore'
  BY OneMoves DEF JobsSound, Quiet
<1>3. \A f \in Feeds : Cov(f)' = Cov(f)
  BY DEF Quiet, History, Cov
<1>4. t[1] \in Feeds
  BY TaskIs
<1>5. 1 .. cursorOf'[t[1]] \subseteq Cov(t[1])'
  BY <1>3, <1>4 DEF JobsSound, Covering, Quiet
<1>6. UNCHANGED <<cursorOf, published, again, unsettled>>
  BY DEF Quiet, History
<1>7. Covering' /\ Settling'
  <2>1. \A f \in Feeds \ {t[1]} : /\ cursorOf'[f] = cursorOf[f] /\ published'[f] = published[f]
                                  /\ again'[f] = again[f] /\ (f \in unsettled => f \in unsettled')
    BY <1>6
  <2>2. \A f \in Feeds : Cov(f) \subseteq Cov(f)'
    BY <1>3
  <2>3. OnlyTask(t) /\ Covering /\ Settling
    BY DEF Quiet, JobsSound
  <2>4. t[1] \notin unsettled' => t[1] \notin unsettled /\ RanAlone(t)'
    BY <1>6
  <2>5. QED BY <1>5, <2>1, <2>2, <2>3, <2>4, TaskKeeps
<1>8. QED BY <1>1, <1>2, <1>7 DEF JobsSound

\* What an only run knows of itself before its step.
LEMMA AloneNow ==
    ASSUME JobsSound, NEW t \in Connectors!Tasks, t[1] \notin unsettled, Connectors!Running(t)
    PROVE  RanAlone(t)
BY RunsAlone DEF JobsSound, Connectors!Running

LEMMA LoadKeeps ==
    ASSUME JobsSound, NEW t \in Connectors!Tasks, Connectors!Load(t)
    PROVE  JobsSound'
<1>1. /\ task[t].pc = "load"
      /\ task' = [task EXCEPT ![t].pc = "read", ![t].fresh = t[1] \notin saved,
                              ![t].at = cursorOf[t[1]], ![t].from = cursorOf[t[1]]]
      /\ UNCHANGED <<docs, due, saved, cursorOf, waiting, stopping, unsettled, runFaults>> /\ UNCHANGED History
  BY DEF Connectors!Load, Connectors!store, Connectors!history, History
<1>2. PICK r \in TaskType : r = task[t]
  BY DEF JobsSound, JobsData
<1>3. PICK c \in 0 .. MaxDocs : c = cursorOf[t[1]]
  BY TaskIs DEF JobsSound, JobsData
<1>4. PICK b \in BOOLEAN : b = (t[1] \notin saved)
  OBVIOUS
<1>5. PICK s : s = [r EXCEPT !.pc = "read", !.fresh = b, !.at = c, !.from = c]
  OBVIOUS
<1>6. s \in TaskType /\ s.pc = "read" /\ s.at = c /\ s.from = c
  BY <1>5, <1>2 DEF TaskType
<1>7. task' = [task EXCEPT ![t] = s] /\ task \in [Connectors!Tasks -> TaskType]
  BY <1>1, <1>2, <1>3, <1>4, <1>5 DEF JobsSound, JobsData
<1>8. task'[t] = s /\ task' \in [Connectors!Tasks -> TaskType] /\ \A u \in Connectors!Tasks \ {t} : task'[u] = task[u]
  BY <1>6, <1>7
<1>9. Quiet(t)
  BY <1>1, <1>6, <1>8 DEF Quiet, OnlyTask, Connectors!Running
<1>10. HandSound(t)'
  BY <1>6, <1>8 DEF HandSound
<1>11. Streams(t)' /\ DoneTo(t)' = c /\ ~Streams(t)
  BY <1>1, <1>6, <1>8 DEF Streams, Streaming, DoneTo
<1>12. TaskCovered(t)'
  <2>1. 1 .. c \subseteq Cov(t[1])
    BY <1>3, TaskIs DEF JobsSound, Covering
  <2>2. Cov(t[1])' = Cov(t[1])
    BY <1>1 DEF Cov, History
  <2>3. QED BY <1>11, <2>1, <2>2 DEF TaskCovered
<1>13. t[1] \notin unsettled => RanAlone(t)'
  <2> SUFFICES ASSUME t[1] \notin unsettled PROVE RanAlone(t)'
    OBVIOUS
  <2>1. RanAlone(t)
    BY <1>1, AloneNow DEF Connectors!Running
  <2>2. published[t[1]] \subseteq 1 .. c /\ again[t[1]] = {}
    BY <1>3, <1>11, <2>1 DEF RanAlone
  <2>3. UNCHANGED <<cursorOf, published, again>>
    BY <1>1 DEF History
  <2>4. task'[t].from = cursorOf'[t[1]]
    BY <1>3, <1>6, <1>8, <2>3
  <2>5. QED BY <1>11, <2>2, <2>3, <2>4 DEF RanAlone
<1>14. QED BY <1>9, <1>10, <1>12, <1>13, QuietKeeps

LEMMA RefuseKeeps ==
    ASSUME JobsSound, NEW t \in Connectors!Tasks, Connectors!Refuse(t)
    PROVE  JobsSound'
<1>1. /\ task[t].pc = "load" /\ task' = [task EXCEPT ![t] = Connectors!Free]
      /\ UNCHANGED <<docs, due, saved, cursorOf, waiting, stopping, unsettled, runFaults>> /\ UNCHANGED History
  BY DEF Connectors!Refuse, Connectors!Refused, Connectors!store, Connectors!history, History
<1>2. /\ task'[t] = Connectors!Free /\ task' \in [Connectors!Tasks -> TaskType]
      /\ \A u \in Connectors!Tasks \ {t} : task'[u] = task[u]
  BY <1>1, FreeTyped DEF JobsSound, JobsData
<1>3. Quiet(t)
  BY <1>1, <1>2, FreeTyped DEF Quiet, OnlyTask, Connectors!Running
<1>4. ~Streams(t)' /\ HandSound(t)' /\ TaskCovered(t)' /\ ~Streams(t)
  BY <1>1, <1>2, FreeTyped DEF Streams, Streaming, HandSound, TaskCovered
<1>5. t[1] \notin unsettled => RanAlone(t)'
  <2> SUFFICES ASSUME t[1] \notin unsettled PROVE RanAlone(t)'
    OBVIOUS
  <2>1. RanAlone(t)
    BY <1>1, AloneNow DEF Connectors!Running
  <2>2. UNCHANGED <<cursorOf, published, again>>
    BY <1>1 DEF History
  <2>3. QED BY <1>4, <2>1, <2>2 DEF RanAlone
<1>6. QED BY <1>3, <1>4, <1>5, QuietKeeps

(* A read moves the cursor to the document it hands on, so what the run is *)
(* done with stays as it was; so it does when the read ends the run.       *)
LEMMA SamePlace ==
    ASSUME JobsSound, NEW t \in Connectors!Tasks, task[t].pc = "read",
           NEW s \in TaskType, task' = [task EXCEPT ![t] = s],
           UNCHANGED <<docs, due, saved, cursorOf, waiting, stopping, unsettled, runFaults>>, UNCHANGED History,
           s.from = task[t].from, s.pc \in Streaming,
           s.pc = "handle" => s.hand = s.at /\ s.at = task[t].at + 1,
           s.pc # "handle" => s.at = task[t].at
    PROVE  JobsSound'
<1>1. PICK r \in TaskType : r = task[t]
  BY DEF JobsSound, JobsData
<1>2. task'[t] = s /\ task' \in [Connectors!Tasks -> TaskType] /\ \A u \in Connectors!Tasks \ {t} : task'[u] = task[u]
  BY DEF JobsSound, JobsData
<1>3. Quiet(t)
  BY <1>2 DEF Quiet, OnlyTask, Connectors!Running, Streaming
<1>4. r.at \in 0 .. MaxDocs /\ s.at \in 0 .. MaxDocs /\ s.hand \in 0 .. MaxDocs
  BY <1>1 DEF TaskType
<1>5. HandSound(t)'
  BY <1>1, <1>2, <1>4, SourceAssumption DEF HandSound
<1>6. DoneTo(t) = r.at /\ Streams(t) /\ Streams(t)'
  BY <1>1, <1>2 DEF DoneTo, Streams, Streaming
<1>7. DoneTo(t)' = r.at
  <2>1. CASE s.pc = "handle"
    <3>1. s.hand - 1 = r.at
      BY <1>1, <1>4, <2>1, SourceAssumption
    <3>2. QED BY <1>2, <2>1, <3>1 DEF DoneTo
  <2>2. CASE s.pc # "handle"
    BY <1>1, <1>2, <2>2 DEF DoneTo
  <2>3. QED BY <2>1, <2>2
<1>8. TaskCovered(t)'
  <2>1. Cov(t[1])' = Cov(t[1])
    BY DEF Cov, History
  <2>2. 1 .. r.at \subseteq Cov(t[1])
    BY <1>6 DEF JobsSound, Covering, TaskCovered
  <2>3. QED BY <1>7, <2>1, <2>2 DEF TaskCovered
<1>9. t[1] \notin unsettled => RanAlone(t)'
  <2> SUFFICES ASSUME t[1] \notin unsettled PROVE RanAlone(t)'
    OBVIOUS
  <2>1. RanAlone(t)
    BY AloneNow DEF Connectors!Running
  <2>2. task[t].from = cursorOf[t[1]] /\ published[t[1]] \subseteq 1 .. r.at /\ again[t[1]] = {}
    BY <1>6, <2>1 DEF RanAlone
  <2>3. UNCHANGED <<cursorOf, published, again>>
    BY DEF History
  <2>4. QED BY <1>2, <1>6, <1>7, <2>2, <2>3 DEF RanAlone
<1>10. QED BY <1>3, <1>5, <1>8, <1>9, QuietKeeps

LEMMA ReadKeeps ==
    ASSUME JobsSound, NEW t \in Connectors!Tasks, Connectors!Read(t) \/ Connectors!ReadFails(t) \/ Connectors!ReadHangs(t)
    PROVE  JobsSound'
<1>1. /\ task[t].pc = "read"
      /\ UNCHANGED <<docs, due, saved, cursorOf, waiting, stopping, unsettled, runFaults>> /\ UNCHANGED History
  BY DEF Connectors!Read, Connectors!ReadFails, Connectors!ReadHangs, Connectors!store, Connectors!history, History
<1>2. PICK r \in TaskType : r = task[t]
  BY DEF JobsSound, JobsData
<1>3. PICK n : n = docs[t[1]]
  OBVIOUS
<1>4. n \in 0 .. MaxDocs /\ r.at \in 0 .. MaxDocs
  BY <1>2, <1>3, TaskIs DEF JobsSound, JobsData, TaskType
<1>5. \/ /\ r.at < n
         /\ task' = [task EXCEPT ![t] = [r EXCEPT !.pc = "handle", !.hand = r.at + 1, !.at = r.at + 1]]
      \/ task' = [task EXCEPT ![t] = [r EXCEPT !.pc = "save"]]
      \/ task' = [task EXCEPT ![t] = [r EXCEPT !.pc = "save", !.failed = TRUE]]
      \/ task' = [task EXCEPT ![t] = [r EXCEPT !.pc = "hung"]]
  <2>1. task \in [Connectors!Tasks -> TaskType]
    BY DEF JobsSound, JobsData
  <2>2. CASE Connectors!Read(t)
    BY <1>2, <1>3, <2>1, <2>2 DEF Connectors!Read, Connectors!Bookmark
  <2>3. CASE Connectors!ReadFails(t)
    BY <1>2, <2>1, <2>3 DEF Connectors!ReadFails
  <2>4. CASE Connectors!ReadHangs(t)
    BY <1>2, <2>1, <2>4 DEF Connectors!ReadHangs
  <2>5. QED BY <2>2, <2>3, <2>4
<1>6. CASE r.at < n /\ task' = [task EXCEPT ![t] = [r EXCEPT !.pc = "handle", !.hand = r.at + 1, !.at = r.at + 1]]
  <2>1. PICK s : s = [r EXCEPT !.pc = "handle", !.hand = r.at + 1, !.at = r.at + 1]
    OBVIOUS
  <2>2. r.at + 1 \in 0 .. MaxDocs
    BY <1>4, <1>6, SourceAssumption
  <2>3. s \in TaskType /\ s.pc = "handle" /\ s.hand = s.at /\ s.at = r.at + 1 /\ s.from = r.from
    BY <2>1, <2>2, <1>2 DEF TaskType
  <2>4. QED BY <1>1, <1>2, <1>6, <2>1, <2>3, SamePlace DEF Streaming
<1>7. CASE task' = [task EXCEPT ![t] = [r EXCEPT !.pc = "save"]]
  <2>1. PICK s : s = [r EXCEPT !.pc = "save"]
    OBVIOUS
  <2>2. s \in TaskType /\ s.pc = "save" /\ s.at = r.at /\ s.from = r.from
    BY <2>1, <1>2 DEF TaskType
  <2>3. QED BY <1>1, <1>2, <1>7, <2>1, <2>2, SamePlace DEF Streaming
<1>8. CASE task' = [task EXCEPT ![t] = [r EXCEPT !.pc = "save", !.failed = TRUE]]
  <2>1. PICK s : s = [r EXCEPT !.pc = "save", !.failed = TRUE]
    OBVIOUS
  <2>2. s \in TaskType /\ s.pc = "save" /\ s.at = r.at /\ s.from = r.from
    BY <2>1, <1>2 DEF TaskType
  <2>3. QED BY <1>1, <1>2, <1>8, <2>1, <2>2, SamePlace DEF Streaming
<1>9. CASE task' = [task EXCEPT ![t] = [r EXCEPT !.pc = "hung"]]
  <2>1. PICK s : s = [r EXCEPT !.pc = "hung"]
    OBVIOUS
  <2>2. s \in TaskType /\ s.pc = "hung" /\ s.at = r.at /\ s.from = r.from
    BY <2>1, <1>2 DEF TaskType
  <2>3. QED BY <1>1, <1>2, <1>9, <2>1, <2>2, SamePlace DEF Streaming
<1>10. QED BY <1>5, <1>6, <1>7, <1>8, <1>9

(* The document in hand is published or skipped; an only run has published *)
(* nothing that reaches it.                                                *)
LEMMA HandleKeeps ==
    ASSUME JobsSound, NEW t \in Connectors!Tasks, Connectors!Handle(t)
    PROVE  JobsSound'
<1>1. PICK r \in TaskType : r = task[t] /\ r.pc = "handle"
  BY DEF JobsSound, JobsData, Connectors!Handle
<1>2. PICK d \in 1 .. MaxDocs : d = r.hand /\ d = r.at
  BY <1>1 DEF JobsSound, Covering, HandSound
<1>3. PICK f \in Feeds : f = t[1]
  BY TaskIs
<1>4. PICK s : s = [r EXCEPT !.pc = "read", !.hand = 0]
  OBVIOUS
<1>5. s \in TaskType /\ s.pc = "read" /\ s.at = d /\ s.from = r.from
  <2>1. 0 \in 0 .. MaxDocs
    BY SourceAssumption
  <2>2. QED BY <1>1, <1>2, <1>4, <2>1 DEF TaskType
<1>6. /\ task' = [task EXCEPT ![t] = s]
      /\ UNCHANGED <<docs, due, saved, cursorOf, waiting, stopping, dropped, unsettled, runFaults>>
      /\ \/ /\ published' = [published EXCEPT ![f] = @ \cup {d}] /\ unreadable' = unreadable
            /\ again' = IF d \in published[f] THEN [again EXCEPT ![f] = @ \cup {d}] ELSE again
         \/ unreadable' = [unreadable EXCEPT ![f] = @ \cup {d}] /\ UNCHANGED <<published, again>>
  <2>1. task \in [Connectors!Tasks -> TaskType]
    BY DEF JobsSound, JobsData
  <2>2. task' = [task EXCEPT ![t] = s]
    BY <1>1, <1>4, <2>1 DEF Connectors!Handle
  <2>3. QED BY <1>1, <1>2, <1>3, <2>2 DEF Connectors!Handle, Connectors!store
<1>7. /\ task'[t] = s /\ task' \in [Connectors!Tasks -> TaskType]
      /\ \A u \in Connectors!Tasks \ {t} : task'[u] = task[u]
  BY <1>5, <1>6 DEF JobsSound, JobsData
<1>8. OnlyTask(t)
  BY <1>1, <1>5, <1>6, <1>7 DEF OnlyTask, Connectors!Running
<1>9. /\ published' \in [Feeds -> SUBSET Connectors!Docs] /\ again' \in [Feeds -> SUBSET Connectors!Docs]
      /\ unreadable' \in [Feeds -> SUBSET Connectors!Docs]
      /\ \A g \in Feeds : Cov(g) \subseteq Cov(g)'
      /\ \A g \in Feeds \ {f} : published'[g] = published[g] /\ again'[g] = again[g]
      /\ d \in Cov(f)' /\ published'[f] \subseteq published[f] \cup {d}
      /\ d \notin published[f] => again'[f] = again[f]
  <2>1. /\ published \in [Feeds -> SUBSET Connectors!Docs] /\ again \in [Feeds -> SUBSET Connectors!Docs]
        /\ unreadable \in [Feeds -> SUBSET Connectors!Docs] /\ d \in Connectors!Docs
    BY DEF JobsSound, JobsData, Connectors!Docs
  <2>2. CASE /\ published' = [published EXCEPT ![f] = @ \cup {d}] /\ unreadable' = unreadable
             /\ again' = IF d \in published[f] THEN [again EXCEPT ![f] = @ \cup {d}] ELSE again
    BY <1>6, <2>1, <2>2 DEF Cov
  <2>3. CASE unreadable' = [unreadable EXCEPT ![f] = @ \cup {d}] /\ UNCHANGED <<published, again>>
    BY <1>6, <2>1, <2>3 DEF Cov
  <2>4. QED BY <1>6, <2>2, <2>3
<1>10. JobsData'
  BY <1>6, <1>7, <1>9 DEF JobsSound, JobsData
<1>11. Semaphore'
  BY <1>8, OneMoves DEF JobsSound
<1>12. Streams(t) /\ Streams(t)' /\ DoneTo(t) = d - 1 /\ DoneTo(t)' = d /\ HandSound(t)'
  BY <1>1, <1>2, <1>5, <1>7 DEF Streams, Streaming, DoneTo, HandSound
<1>13. TaskCovered(t)'
  <2>1. 1 .. d - 1 \subseteq Cov(f)
    BY <1>3, <1>12 DEF JobsSound, Covering, TaskCovered
  <2>2. \A x \in 1 .. d : x \in 1 .. d - 1 \/ x = d
    OBVIOUS
  <2>3. 1 .. d \subseteq Cov(f)'
    BY <1>9, <2>1, <2>2
  <2>4. QED BY <1>3, <1>12, <2>3 DEF TaskCovered
<1>14. f \notin unsettled => RanAlone(t)'
  <2> SUFFICES ASSUME f \notin unsettled PROVE RanAlone(t)'
    OBVIOUS
  <2>1. RanAlone(t)
    BY <1>1, <1>3, AloneNow DEF Connectors!Running
  <2>2. r.from = cursorOf[f] /\ published[f] \subseteq 1 .. d - 1 /\ again[f] = {}
    BY <1>1, <1>3, <1>12, <2>1 DEF RanAlone
  <2>3. d \notin published[f]
    BY <2>2
  <2>4. \A x \in published[f] \cup {d} : x \in 1 .. d
    BY <2>2
  <2>5. published'[f] \subseteq 1 .. d /\ again'[f] = {} /\ cursorOf' = cursorOf
    BY <1>6, <1>9, <2>2, <2>3, <2>4
  <2>6. task'[t].from = cursorOf'[f]
    BY <1>5, <1>7, <2>2, <2>5
  <2>7. QED BY <1>3, <1>12, <2>5, <2>6 DEF RanAlone
<1>15. Covering' /\ Settling'
  <2>1. \A g \in Feeds \ {t[1]} : /\ cursorOf'[g] = cursorOf[g] /\ published'[g] = published[g]
                                  /\ again'[g] = again[g] /\ (g \in unsettled => g \in unsettled')
    BY <1>3, <1>6, <1>9
  <2>2. 1 .. cursorOf'[t[1]] \subseteq Cov(t[1])'
    BY <1>3, <1>6, <1>9 DEF JobsSound, Covering
  <2>3. t[1] \notin unsettled' => t[1] \notin unsettled /\ RanAlone(t)'
    BY <1>3, <1>6, <1>14
  <2>4. Covering /\ Settling
    BY DEF JobsSound
  <2>5. QED BY <1>8, <1>9, <1>12, <1>13, <2>1, <2>2, <2>3, <2>4, TaskKeeps
<1>16. QED BY <1>10, <1>11, <1>15 DEF JobsSound

(* At its end a run frees its task; the cursor it stores is one it covered,*)
(* and an end that is not stored unsettles the connector.                  *)
LEMMA SaveKeeps ==
    ASSUME JobsSound, NEW t \in Connectors!Tasks, Connectors!Save(t)
    PROVE  JobsSound'
<1>1. PICK r \in TaskType : r = task[t] /\ r.pc = "save"
  BY DEF JobsSound, JobsData, Connectors!Save
<1>2. PICK f \in Feeds : f = t[1]
  BY TaskIs
<1>3. PICK a \in 0 .. MaxDocs : a = r.at
  BY <1>1 DEF TaskType
<1>4. /\ task' = [task EXCEPT ![t] = Connectors!Free]
      /\ UNCHANGED <<docs, waiting, stopping>> /\ UNCHANGED History
      /\ \/ /\ saved' = saved \cup {f} /\ due' = due \ {f} /\ runFaults' = runFaults /\ unsettled' = unsettled
            /\ cursorOf' = IF a # r.from THEN [cursorOf EXCEPT ![f] = a] ELSE cursorOf
         \/ /\ runFaults' = runFaults \/ (runFaults < MaxRunFaults /\ runFaults' = runFaults + 1)
            /\ unsettled' = unsettled \cup {f} /\ UNCHANGED <<due, saved, cursorOf>>
  <2>1. /\ task' = [task EXCEPT ![t] = Connectors!Free]
        /\ UNCHANGED <<docs, waiting, stopping>> /\ UNCHANGED History
    BY DEF Connectors!Save, Connectors!history, History
  <2>2. CASE Connectors!Saved(t)
    BY <1>1, <1>2, <1>3, <2>1, <2>2 DEF Connectors!Saved, Connectors!Kept, Connectors!NoFault
  <2>3. CASE Connectors!NotSaved(t)
    BY <1>2, <2>1, <2>3 DEF Connectors!NotSaved, Connectors!Fault, Connectors!NoFault, Connectors!store
  <2>4. QED BY <2>2, <2>3 DEF Connectors!Save
<1>5. /\ task'[t] = Connectors!Free /\ task' \in [Connectors!Tasks -> TaskType]
      /\ \A u \in Connectors!Tasks \ {t} : task'[u] = task[u]
  BY <1>4, FreeTyped DEF JobsSound, JobsData
<1>6. OnlyTask(t)
  BY <1>1, <1>4, <1>5, FreeTyped DEF OnlyTask, Connectors!Running
<1>7. /\ cursorOf' \in [Feeds -> 0 .. MaxDocs]
      /\ cursorOf'[f] = cursorOf[f] \/ cursorOf'[f] = a
      /\ a # r.from => cursorOf'[f] = a \/ f \in unsettled'
      /\ a = r.from => cursorOf'[f] = cursorOf[f]
      /\ \A g \in Feeds \ {f} : cursorOf'[g] = cursorOf[g]
  <2>1. cursorOf \in [Feeds -> 0 .. MaxDocs]
    BY DEF JobsSound, JobsData
  <2>2. QED BY <1>4, <2>1
<1>8. unsettled \subseteq unsettled' /\ unsettled' \subseteq Feeds /\ saved' \subseteq Feeds /\ due' \subseteq Feeds
  BY <1>4 DEF JobsSound, JobsData
<1>9. runFaults' \in 0 .. MaxRunFaults
  BY <1>4, SourceAssumption DEF JobsSound, JobsData
<1>10. JobsData'
  BY <1>4, <1>5, <1>7, <1>8, <1>9 DEF JobsSound, JobsData, History
<1>11. Semaphore'
  BY <1>6, OneMoves DEF JobsSound
<1>12. Streams(t) /\ DoneTo(t) = a /\ ~Streams(t)' /\ HandSound(t)' /\ TaskCovered(t)'
  BY <1>1, <1>3, <1>5, FreeTyped DEF Streams, Streaming, DoneTo, HandSound, TaskCovered
<1>13. \A g \in Feeds : Cov(g)' = Cov(g)
  BY <1>4 DEF Cov, History
<1>14. 1 .. cursorOf'[f] \subseteq Cov(f)'
  <2>1. 1 .. a \subseteq Cov(f)
    BY <1>2, <1>12 DEF JobsSound, Covering, TaskCovered
  <2>2. 1 .. cursorOf[f] \subseteq Cov(f)
    BY DEF JobsSound, Covering
  <2>3. QED BY <1>7, <1>13, <2>1, <2>2
<1>15. f \notin unsettled' => f \notin unsettled /\ RanAlone(t)'
  <2> SUFFICES ASSUME f \notin unsettled' PROVE f \notin unsettled /\ RanAlone(t)'
    OBVIOUS
  <2>1. f \notin unsettled
    BY <1>8
  <2>2. RanAlone(t)
    BY <1>1, <1>2, <2>1, AloneNow DEF Connectors!Running
  <2>3. r.from = cursorOf[f] /\ published[f] \subseteq 1 .. a /\ again[f] = {}
    BY <1>1, <1>2, <1>12, <2>2 DEF RanAlone
  <2>4. cursorOf'[f] = a
    BY <1>7, <2>3
  <2>5. published'[f] \subseteq 1 .. cursorOf'[f] /\ again'[f] = {}
    BY <1>4, <2>3, <2>4 DEF History
  <2>6. QED BY <1>2, <1>12, <2>1, <2>5 DEF RanAlone
<1>16. Covering' /\ Settling'
  <2>1. \A g \in Feeds \ {t[1]} : /\ cursorOf'[g] = cursorOf[g] /\ published'[g] = published[g]
                                  /\ again'[g] = again[g] /\ (g \in unsettled => g \in unsettled')
    BY <1>2, <1>4, <1>7, <1>8 DEF History
  <2>2. \A g \in Feeds : Cov(g) \subseteq Cov(g)'
    BY <1>13
  <2>3. Covering /\ Settling
    BY DEF JobsSound
  <2>4. 1 .. cursorOf'[t[1]] \subseteq Cov(t[1])' /\ (t[1] \notin unsettled' => t[1] \notin unsettled /\ RanAlone(t)')
    BY <1>2, <1>14, <1>15
  <2>5. QED BY <1>6, <1>12, <2>1, <2>2, <2>3, <2>4, TaskKeeps
<1>17. QED BY <1>10, <1>11, <1>16 DEF JobsSound

-----------------------------------------------------------------------------
(* The steps of the scheduler, which move many tasks but no cursor.        *)
LEMMA ManyKeep ==
    ASSUME JobsData, JobsData', Covering, Settling, UNCHANGED <<cursorOf, published, again, unreadable>>,
           \A f \in Feeds : dropped[f] \subseteq dropped'[f], unsettled \subseteq unsettled',
           \A t \in Connectors!Tasks : HandSound(t)' /\ TaskCovered(t)',
           \A f \in Feeds \ unsettled' : OneRun(f)' /\ NothingAhead(f)'
    PROVE  Covering' /\ Settling'
<1>1. \A f \in Feeds : Cov(f) \subseteq Cov(f)'
  BY DEF Cov
<1>2. Covering'
  BY <1>1 DEF Covering
<1>3. \A f \in Feeds \ unsettled' : again'[f] = {}
  BY DEF Settling, SettledFeed
<1>4. Settling'
  BY <1>3 DEF Settling, SettledFeed
<1>5. QED BY <1>2, <1>4

\* Tasks that did not stream before and do not now leave what was covered as it is.
LEMMA IdleKeep ==
    ASSUME JobsData, JobsData', Covering, Settling, cursorOf' = cursorOf, unsettled \subseteq unsettled', UNCHANGED History,
           NEW S \in SUBSET Connectors!Tasks, \A t \in S : ~Streams(t) /\ ~Streams(t)',
           \A t \in Connectors!Tasks \ S : task'[t] = task[t],
           \A f \in Feeds \ unsettled' : OneRun(f)'
    PROVE  Covering' /\ Settling'
<1>1. \A t \in Connectors!Tasks : (Streams(t)' <=> Streams(t)) /\ (Streams(t) => task'[t] = task[t] /\ DoneTo(t)' = DoneTo(t))
  BY DEF Streams, DoneTo
<1>2. ASSUME NEW t \in Connectors!Tasks PROVE HandSound(t)' /\ TaskCovered(t)'
  <2>1. HandSound(t) /\ TaskCovered(t)
    BY DEF Covering
  <2>2. Cov(t[1])' = Cov(t[1])
    BY DEF Cov, History
  <2>3. TaskCovered(t)'
    BY <1>1, <2>1, <2>2 DEF TaskCovered
  <2>4. task'[t].pc = "handle" => Streams(t)'
    BY DEF Streams, Streaming
  <2>5. HandSound(t)'
    BY <1>1, <2>1, <2>4 DEF HandSound
  <2>6. QED BY <2>3, <2>5
<1>3. ASSUME NEW f \in Feeds \ unsettled' PROVE NothingAhead(f)'
  <2>1. NothingAhead(f)
    BY DEF Settling, SettledFeed
  <2>2. \A n \in Slots : <<f, n>> \in Connectors!Tasks
    BY DEF Connectors!Tasks
  <2>3. cursorOf'[f] = cursorOf[f] /\ published'[f] = published[f]
    BY DEF History
  <2>4. QED BY <1>1, <2>1, <2>2, <2>3 DEF NothingAhead
<1>4. QED BY <1>2, <1>3, ManyKeep DEF History

LEMMA PollCovers ==
    ASSUME JobsSound, Connectors!Poll
    PROVE  JobsSound'
<1>1. JobsData' /\ Semaphore'
  BY PollKeeps DEF JobsSound
<1>2. PICK new \in SUBSET Connectors!Tasks :
         /\ \A t \in new : t[1] \in due /\ task[t].pc = "free"
         /\ \A t, u \in new : t[1] = u[1] => t = u
         /\ task' = [t \in Connectors!Tasks |-> IF t \in new THEN [Connectors!Free EXCEPT !.pc = "queued"] ELSE task[t]]
         /\ \A t \in new : FreeSlots(t[1]) # Slots => t[1] \in unsettled'
         /\ unsettled \subseteq unsettled'
         /\ UNCHANGED <<cursorOf, published, again, unreadable, dropped>>
  BY PollDoes DEF JobsSound
<1>3. \A t \in new : task'[t].pc = "queued"
  BY <1>2, FreeTyped
<1>4. \A t \in new : ~Streams(t) /\ ~Streams(t)'
  BY <1>2, <1>3 DEF Streams, Streaming
<1>5. \A t \in Connectors!Tasks \ new : task'[t] = task[t]
  BY <1>2
<1>6. ASSUME NEW f \in Feeds \ unsettled' PROVE OneRun(f)'
  <2>1. OneRun(f)
    BY <1>2 DEF JobsSound, Settling, SettledFeed
  <2>2. \A n \in Slots : <<f, n>> \in Connectors!Tasks
    BY DEF Connectors!Tasks
  <2>3. CASE \A n \in Slots : <<f, n>> \notin new
    BY <1>5, <2>1, <2>2, <2>3 DEF OneRun
  <2>4. CASE \E n \in Slots : <<f, n>> \in new
    <3>1. PICK n \in Slots : <<f, n>> \in new
      BY <2>4
    <3>2. \A m \in Slots : task[<<f, m>>].pc = "free"
      BY <1>2, <3>1 DEF FreeSlots
    <3>3. ASSUME NEW m \in Slots, m # n PROVE task'[<<f, m>>].pc = "free"
      <4>1. PICK t \in Connectors!Tasks, u \in Connectors!Tasks : t = <<f, m>> /\ u = <<f, n>> /\ t # u /\ t[1] = f /\ u[1] = f
        BY <2>2, <3>3
      <4>2. t \notin new
        BY <1>2, <3>1, <4>1
      <4>3. QED BY <1>5, <3>2, <4>1, <4>2
    <3>4. QED BY <3>3 DEF OneRun
  <2>5. QED BY <2>3, <2>4
<1>7. Covering' /\ Settling'
  <2>1. cursorOf' = cursorOf /\ UNCHANGED History
    BY <1>2 DEF History
  <2>2. JobsData /\ Covering /\ Settling
    BY DEF JobsSound
  <2>3. QED BY <1>1, <1>2, <1>4, <1>5, <1>6, <2>1, <2>2, IdleKeep
<1>8. QED BY <1>1, <1>7 DEF JobsSound

LEMMA AcquireCovers ==
    ASSUME JobsSound, Connectors!Acquire
    PROVE  JobsSound'
<1>1. JobsData' /\ Semaphore'
  BY AcquireKeeps DEF JobsSound
<1>2. PICK h \in Connectors!Tasks : task[h].pc = "queued" /\ task' = [task EXCEPT ![h].pc = "load"]
  BY AcquireKeeps DEF JobsSound
<1>3. /\ \A t \in Connectors!Tasks \ {h} : task'[t] = task[t]
      /\ task'[h].pc = "load"
  BY <1>2 DEF JobsSound, JobsData, TaskType
<1>4. UNCHANGED <<cursorOf, unsettled>> /\ UNCHANGED History
  BY DEF Connectors!Acquire, Connectors!store, Connectors!history, History
<1>5. \A t \in {h} : ~Streams(t) /\ ~Streams(t)'
  BY <1>2, <1>3 DEF Streams, Streaming
<1>6. \A t \in Connectors!Tasks : task'[t].pc = "free" <=> task[t].pc = "free"
  BY <1>2, <1>3
<1>7. ASSUME NEW f \in Feeds \ unsettled' PROVE OneRun(f)'
  <2>1. OneRun(f)
    BY <1>4 DEF JobsSound, Settling, SettledFeed
  <2>2. \A n \in Slots : <<f, n>> \in Connectors!Tasks
    BY DEF Connectors!Tasks
  <2>3. QED BY <1>6, <2>1, <2>2 DEF OneRun
<1>8. Covering' /\ Settling'
  <2>1. JobsData /\ Covering /\ Settling /\ {h} \in SUBSET Connectors!Tasks
    BY DEF JobsSound
  <2>2. \A t \in Connectors!Tasks \ {h} : task'[t] = task[t]
    BY <1>3
  <2>3. cursorOf' = cursorOf /\ unsettled \subseteq unsettled' /\ UNCHANGED History
    BY <1>4
  <2>4. QED BY <1>1, <1>5, <1>7, <2>1, <2>2, <2>3, IdleKeep
<1>9. QED BY <1>1, <1>8 DEF JobsSound

LEMMA KillCovers ==
    ASSUME JobsSound, Connectors!Kill
    PROVE  JobsSound'
<1>1. JobsData' /\ Semaphore'
  BY KillKeeps DEF JobsSound
<1>2. /\ task' = [t \in Connectors!Tasks |-> Connectors!Free]
      /\ unsettled' = unsettled \cup {t[1] : t \in {u \in Connectors!Tasks : Connectors!Running(u)}}
      /\ UNCHANGED <<cursorOf, published, again, unreadable, dropped>>
  BY DEF Connectors!Kill, Connectors!store, Connectors!history
<1>3. \A t \in Connectors!Tasks : task'[t].pc = "free" /\ ~Streams(t)' /\ HandSound(t)' /\ TaskCovered(t)'
  BY <1>2, FreeTyped DEF Streams, Streaming, HandSound, TaskCovered
<1>4. ASSUME NEW f \in Feeds \ unsettled' PROVE OneRun(f)' /\ NothingAhead(f)'
  <2>1. \A n \in Slots : <<f, n>> \in Connectors!Tasks /\ <<f, n>>[1] = f
    BY DEF Connectors!Tasks
  <2>2. OneRun(f)'
    BY <1>3, <2>1 DEF OneRun
  <2>3. \A t \in Connectors!Tasks : t[1] = f => ~Connectors!Running(t)
    BY <1>2
  <2>4. \A n \in Slots : ~Streams(<<f, n>>)
    <3>1. \A t \in Connectors!Tasks : Streams(t) => Connectors!Running(t)
      BY DEF Streams, Streaming, Connectors!Running
    <3>2. QED BY <2>1, <2>3, <3>1
  <2>5. NothingAhead(f)
    BY <1>2 DEF JobsSound, Settling, SettledFeed
  <2>6. NothingAhead(f)'
    BY <1>2, <1>3, <2>1, <2>4, <2>5 DEF NothingAhead
  <2>7. QED BY <2>2, <2>6
<1>5. Covering' /\ Settling'
  <2>1. unsettled \subseteq unsettled' /\ \A f \in Feeds : dropped[f] \subseteq dropped'[f]
    BY <1>2
  <2>2. JobsData /\ Covering /\ Settling
    BY DEF JobsSound
  <2>3. QED BY <1>1, <1>2, <1>3, <1>4, <2>1, <2>2, ManyKeep
<1>6. QED BY <1>1, <1>5 DEF JobsSound

(* A run that was streaming is left at its cursor; the record it had in    *)
(* hand is the one that is dropped.                                        *)
LEMMA ShutdownCovers ==
    ASSUME JobsSound, Connectors!Shutdown
    PROVE  JobsSound'
<1>1. JobsData' /\ Semaphore'
  BY ShutdownKeeps DEF JobsSound, Covering
<1>2. /\ \A t \in Connectors!Tasks : task'[t] = IF Streams(t) THEN [task[t] EXCEPT !.pc = "save", !.hand = 0] ELSE Connectors!Free
      /\ \A f \in Feeds : dropped'[f] = dropped[f] \cup
            {task[t].hand : t \in {u \in Connectors!Tasks : u[1] = f /\ task[u].pc = "handle"}}
      /\ UNCHANGED <<cursorOf, published, again, unreadable, unsettled>>
  BY ShutdownDoes DEF JobsSound
<1>3. ASSUME NEW t \in Connectors!Tasks
      PROVE  /\ Streams(t) => task'[t].pc = "save" /\ task'[t].at = task[t].at /\ task'[t].from = task[t].from
             /\ ~Streams(t) => task'[t].pc = "free"
  <2>1. PICK r \in TaskType : r = task[t]
    BY DEF JobsSound, JobsData
  <2>2. PICK s : s = [r EXCEPT !.pc = "save", !.hand = 0]
    OBVIOUS
  <2>3. s.pc = "save" /\ s.at = r.at /\ s.from = r.from
    BY <2>2, <2>1 DEF TaskType
  <2>4. QED BY <1>2, <2>1, <2>2, <2>3, FreeTyped
<1>4. \A t \in Connectors!Tasks : (Streams(t)' <=> Streams(t)) /\ HandSound(t)' /\ (Streams(t) => DoneTo(t)' = task[t].at)
  BY <1>3 DEF Streams, Streaming, HandSound, DoneTo
<1>5. \A f \in Feeds : dropped[f] \subseteq dropped'[f] /\ Cov(f) \subseteq Cov(f)'
  BY <1>2 DEF Cov
<1>6. ASSUME NEW t \in Connectors!Tasks, Streams(t)
      PROVE  /\ 1 .. task[t].at \subseteq Cov(t[1])'
             /\ 1 .. DoneTo(t) \subseteq 1 .. task[t].at
  <2>1. t[1] \in Feeds /\ 1 .. DoneTo(t) \subseteq Cov(t[1])'
    BY <1>5, <1>6, TaskIs DEF JobsSound, Covering, TaskCovered
  <2>2. CASE task[t].pc # "handle"
    BY <2>1, <2>2 DEF DoneTo
  <2>3. CASE task[t].pc = "handle"
    <3>1. PICK d \in 1 .. MaxDocs : d = task[t].hand /\ d = task[t].at
      BY <2>3 DEF JobsSound, Covering, HandSound
    <3>2. d \in dropped'[t[1]]
      <4>1. PICK f \in Feeds : f = t[1]
        BY <2>1
      <4>2. dropped'[f] = dropped[f] \cup
               {task[u].hand : u \in {v \in Connectors!Tasks : v[1] = f /\ task[v].pc = "handle"}}
        BY <1>2, Zenon
      <4>3. t \in {v \in Connectors!Tasks : v[1] = f /\ task[v].pc = "handle"}
        BY <2>3, <4>1
      <4>4. QED BY <3>1, <4>1, <4>2, <4>3
    <3>3. DoneTo(t) = d - 1
      BY <2>3, <3>1 DEF DoneTo
    <3>4. \A x \in 1 .. d : x \in 1 .. d - 1 \/ x = d
      OBVIOUS
    <3>5. 1 .. d \subseteq Cov(t[1])'
      BY <2>1, <3>2, <3>3, <3>4 DEF Cov
    <3>6. QED BY <3>1, <3>3, <3>5
  <2>4. QED BY <2>2, <2>3
<1>7. \A t \in Connectors!Tasks : TaskCovered(t)'
  BY <1>4, <1>6 DEF TaskCovered
<1>8. ASSUME NEW f \in Feeds \ unsettled' PROVE OneRun(f)' /\ NothingAhead(f)'
  <2>1. \A n \in Slots : <<f, n>> \in Connectors!Tasks /\ <<f, n>>[1] = f
    BY DEF Connectors!Tasks
  <2>2. OneRun(f) /\ NothingAhead(f)
    BY <1>2 DEF JobsSound, Settling, SettledFeed
  <2>3. OneRun(f)'
    <3>1. \A t \in Connectors!Tasks : task'[t].pc # "free" => task[t].pc # "free"
      BY <1>3 DEF Streams, Streaming
    <3>2. QED BY <2>1, <2>2, <3>1 DEF OneRun
  <2>4. ASSUME NEW n \in Slots, Streams(<<f, n>>)
        PROVE  task'[<<f, n>>].from = cursorOf'[f] /\ published'[f] \subseteq 1 .. DoneTo(<<f, n>>)'
    <3>1. PICK t \in Connectors!Tasks : t = <<f, n>>
      BY <2>1
    <3>2. task[t].from = cursorOf[f] /\ published[f] \subseteq 1 .. DoneTo(t)
      BY <2>2, <2>4, <3>1 DEF NothingAhead
    <3>3. task'[t].from = cursorOf'[f]
      BY <1>2, <1>3, <2>4, <3>1, <3>2
    <3>4. published'[f] \subseteq 1 .. DoneTo(t)'
      BY <1>2, <1>4, <1>6, <2>4, <3>1, <3>2
    <3>5. QED BY <3>1, <3>3, <3>4
  <2>5. NothingAhead(f)'
    BY <1>2, <1>4, <2>1, <2>2, <2>4 DEF NothingAhead
  <2>6. QED BY <2>3, <2>5
<1>9. Covering' /\ Settling'
  <2>1. unsettled \subseteq unsettled'
    BY <1>2
  <2>2. JobsData /\ Covering /\ Settling
    BY DEF JobsSound
  <2>3. QED BY <1>1, <1>2, <1>4, <1>5, <1>7, <1>8, <2>1, <2>2, ManyKeep
<1>10. QED BY <1>1, <1>9 DEF JobsSound

\* A new document, the interval, the restart: nothing of a run changes.
LEMMA ClockCovers ==
    ASSUME JobsSound, Connectors!Restart \/ \E f \in Feeds : Connectors!NewDoc(f) \/ Connectors!Elapse(f)
    PROVE  JobsSound'
<1>1. /\ UNCHANGED <<saved, cursorOf, task, waiting, unsettled, runFaults>> /\ UNCHANGED History
      /\ stopping' \in {FALSE, stopping}
      /\ docs' = docs \/ \E f \in Feeds : docs[f] < MaxDocs /\ docs' = [docs EXCEPT ![f] = @ + 1]
      /\ due' = due \/ \E f \in Feeds : due' = due \cup {f}
  <2>1. CASE Connectors!Restart
    BY <2>1 DEF Connectors!Restart, Connectors!store, Connectors!history, History
  <2>2. CASE \E f \in Feeds : Connectors!NewDoc(f)
    BY <2>2 DEF Connectors!NewDoc, Connectors!store, Connectors!history, History
  <2>3. CASE \E f \in Feeds : Connectors!Elapse(f)
    BY <2>3 DEF Connectors!Elapse, Connectors!store, Connectors!history, History
  <2>4. QED BY <2>1, <2>2, <2>3
<1>2. docs' \in [Feeds -> 0 .. MaxDocs]
  BY <1>1, SourceAssumption DEF JobsSound, JobsData
<1>3. JobsData'
  BY <1>1, <1>2 DEF JobsSound, JobsData, History
<1>4. Semaphore'
  BY <1>1 DEF JobsSound, Semaphore, WaitOnce, RunningTasks, Connectors!Running
<1>5. Covering' /\ Settling'
  <2>1. \A t \in {} : ~Streams(t) /\ ~Streams(t)'
    OBVIOUS
  <2>2. JobsData /\ Covering /\ Settling /\ {} \in SUBSET Connectors!Tasks
    BY DEF JobsSound
  <2>3. \A t \in Connectors!Tasks : task'[t] = task[t]
    BY <1>1
  <2>4. \A f \in Feeds \ unsettled' : OneRun(f)'
    BY <1>1, <2>2 DEF Settling, SettledFeed, OneRun
  <2>5. QED BY <1>1, <1>3, <2>1, <2>2, <2>3, <2>4, IdleKeep
<1>6. QED BY <1>3, <1>4, <1>5 DEF JobsSound

LEMMA RestKeeps ==
    ASSUME JobsSound, UNCHANGED ConnectorsVars
    PROVE  JobsSound'
<1>1. UNCHANGED <<docs, due, saved, cursorOf, task, waiting, stopping, unsettled, runFaults>> /\ UNCHANGED History
  BY DEF ConnectorsVars, History
<1>2. JobsData'
  BY <1>1 DEF JobsSound, JobsData, History
<1>3. Semaphore'
  BY <1>1 DEF JobsSound, Semaphore, WaitOnce, RunningTasks, Connectors!Running
<1>4. Covering'
  BY <1>1 DEF JobsSound, Covering, Cov, HandSound, TaskCovered, Streams, DoneTo, History
<1>5. Settling'
  <2>1. ASSUME NEW f \in Feeds PROVE SettledFeed(f)'
    BY <1>1, OthersRest DEF JobsSound, Settling, History
  <2>2. QED BY <2>1 DEF Settling
<1>6. QED BY <1>2, <1>3, <1>4, <1>5 DEF JobsSound

LEMMA JobsStep ==
    ASSUME JobsSound, Connectors!Next \/ UNCHANGED ConnectorsVars
    PROVE  JobsSound'
<1>1. CASE \E f \in Feeds : Connectors!NewDoc(f) \/ Connectors!Elapse(f)
  BY <1>1, ClockCovers
<1>2. CASE Connectors!Restart
  BY <1>2, ClockCovers
<1>3. CASE Connectors!Poll
  BY <1>3, PollCovers
<1>4. CASE Connectors!Acquire
  BY <1>4, AcquireCovers
<1>5. CASE Connectors!Kill
  BY <1>5, KillCovers
<1>6. CASE Connectors!Shutdown
  BY <1>6, ShutdownCovers
<1>7. ASSUME NEW t \in Connectors!Tasks, Connectors!Work(t) \/ Connectors!ReadHangs(t)
      PROVE  JobsSound'
  BY <1>7, LoadKeeps, RefuseKeeps, ReadKeeps, HandleKeeps, SaveKeeps DEF Connectors!Work
<1>8. CASE UNCHANGED ConnectorsVars
  BY <1>8, RestKeeps
<1>9. QED BY <1>1, <1>2, <1>3, <1>4, <1>5, <1>6, <1>7, <1>8 DEF Connectors!Next

LEMMA JobsInit == ASSUME Connectors!Init PROVE JobsSound
<1>1. /\ docs \in [Feeds -> 0 .. MaxDocs] /\ cursorOf = [f \in Feeds |-> 0]
      /\ due = Feeds /\ saved = {} /\ unsettled = {}
      /\ task = [t \in Connectors!Tasks |-> Connectors!Free] /\ waiting = <<>> /\ stopping = FALSE
      /\ published = [f \in Feeds |-> {}] /\ again = published /\ unreadable = published /\ dropped = published
      /\ runFaults = 0
  BY DEF Connectors!Init
<1>2. JobsData
  <2>1. cursorOf \in [Feeds -> 0 .. MaxDocs] /\ runFaults \in 0 .. MaxRunFaults
    BY <1>1, SourceAssumption
  <2>2. task \in [Connectors!Tasks -> TaskType]
    BY <1>1, FreeTyped
  <2>3. QED BY <1>1, <2>1, <2>2 DEF JobsData
<1>3. \A t \in Connectors!Tasks : task[t].pc = "free"
  BY <1>1, FreeTyped
<1>4. Semaphore
  <2>1. waiting \in Seq(Connectors!Tasks) /\ DOMAIN waiting = {}
    <3>1. <<>> \in Seq(Connectors!Tasks) /\ Len(<<>>) = 0
      BY EmptySeq
    <3>2. DOMAIN <<>> = 1 .. 0
      BY <3>1, LenProperties
    <3>3. QED BY <1>1, <3>1, <3>2
  <2>2. RunningTasks = {}
    BY <1>3 DEF RunningTasks, Connectors!Running
  <2>3. Cardinality(RunningTasks) <= Permits
    BY <2>2, FS_EmptySet, SourceAssumption
  <2>4. QED BY <1>3, <2>1, <2>3 DEF Semaphore, WaitOnce
<1>5. \A f \in Feeds : cursorOf[f] = 0 /\ published[f] = {} /\ again[f] = {}
  BY <1>1
<1>6. Covering
  <2>1. \A f \in Feeds : 1 .. cursorOf[f] = {}
    BY <1>5
  <2>2. QED BY <1>3, <2>1 DEF Covering, HandSound, TaskCovered, Streams, Streaming
<1>7. Settling
  <2>1. \A f \in Feeds, n \in Slots : task[<<f, n>>].pc = "free" /\ ~Streams(<<f, n>>)
    BY <1>3 DEF Streams, Streaming, Connectors!Tasks
  <2>2. ASSUME NEW f \in Feeds PROVE SettledFeed(f)
    BY <1>5, <2>1 DEF SettledFeed, OneRun, NothingAhead
  <2>3. QED BY <2>2 DEF Settling
<1>8. QED BY <1>2, <1>4, <1>6, <1>7 DEF JobsSound

LEMMA JobsKept == AdminSpec => [](focus = "jobs" => JobsSound)
<1>1. AdminInit => (focus = "jobs" => JobsSound)
  BY JobsBegin, JobsInit
<1>2. (focus = "jobs" => JobsSound) /\ [AdminNext]_adminVars => (focus = "jobs" => JobsSound)'
  BY JobsMove, JobsStep
<1>3. QED BY <1>1, <1>2, PTL DEF AdminSpec

LEMMA RunsCover == JobsSound => Connectors!CursorIsCovered /\ Connectors!NothingTwice
BY DEF JobsSound, Covering, Settling, SettledFeed, Cov, Connectors!CursorIsCovered, Connectors!NothingTwice

-----------------------------------------------------------------------------
(* What is marked as seen was ingested or its loss answered, and a sync    *)
(* answered with success ingested what it read (base_connector.py); no page*)
(* repeats a row of its cursor and no stored key passes a row that counts  *)
(* (sql_connector.py); no saved cursor passes a document that was not      *)
(* handed on, and only overlapping or unsaved runs publish one twice       *)
(* (connectors/runner.py).                                                 *)
THEOREM SourcesCovered == AdminSpec => []SourcesAreCovered
<1>1. /\ (focus = "sync" => SyncInv) /\ (focus = "sql" => SqlInv) /\ (focus = "jobs" => JobsSound)
      => SourcesAreCovered
  BY SyncsSettle, PagesCover, RunsCover DEF SourcesAreCovered
<1>2. QED BY <1>1, SyncKept, SqlKept, JobsKept, PTL

-----------------------------------------------------------------------------
(* The singleton of the workflow log.                                      *)

LEMMA ReplayBegins ==
    ASSUME AdminInit, focus = "replay"
    PROVE  Replay!Init
BY DEF AdminInit, AdminFocus

LEMMA ReplayMoves ==
    ASSUME [AdminNext]_adminVars, focus' = "replay"
    PROVE  focus = "replay" /\ (Replay!Next \/ UNCHANGED ReplayVars)
BY DEF AdminNext, AdminStays, adminVars

Askers == Events \cup {Replay!Reader}
SingletonTyped ==
    /\ service \in [Services -> {"none", "starting", "up", "stopping", "stopped"}]
    /\ ready \in [Services -> BOOLEAN]
    /\ current \in Services \cup {NoService} /\ holder \in Askers \cup {"lifespan", Nobody}
EmissionTyped ==
    /\ emission \in [Events -> {"none", "asking", "sending", "recorded", "dropped"}]
    /\ \A e \in copying \cup copied : e \in Events /\ emission[e] = "recorded"

\* No instance has a producer; one has, and the others have not.
Idle(s) == service[s] \in {"none", "stopped"}
Only(s, stage_) == s \in Services /\ service[s] = stage_ /\ \A r \in Services \ {s} : Idle(r)

(* What the lock protects: who holds it is starting the one instance, or   *)
(* stopping the published one; while it is free, the published one runs.   *)
LockSound ==
    /\ holder = Nobody => IF current = NoService THEN \A s \in Services : Idle(s) ELSE Only(current, "up")
    /\ holder = "lifespan" => Only(current, "stopping")
    /\ holder \in Askers => current = NoService /\ \E s \in Services : Only(s, "starting")
ReplayInv == SingletonTyped /\ EmissionTyped /\ LockSound

LEMMA HoldersDiffer == Nobody \notin Askers /\ "lifespan" \notin Askers /\ Nobody # "lifespan"
BY RecordAssumption DEF Askers, Replay!Reader

LEMMA ReplayInvInit == ASSUME Replay!Init PROVE ReplayInv
<1>1. SingletonTyped
  BY DEF Replay!Init, SingletonTyped
<1>2. EmissionTyped
  BY DEF Replay!Init, EmissionTyped
<1>3. LockSound
  BY HoldersDiffer DEF Replay!Init, LockSound, Idle
<1>4. QED BY <1>1, <1>2, <1>3 DEF ReplayInv

LEMMA SingletonStep ==
    ASSUME SingletonTyped, LockSound, Replay!Next \/ UNCHANGED ReplayVars
    PROVE  SingletonTyped' /\ LockSound'
<1>1. ASSUME UNCHANGED <<service, ready, current, holder>> PROVE SingletonTyped' /\ LockSound'
  BY <1>1 DEF SingletonTyped, LockSound, Only, Idle
<1>2. ASSUME NEW a \in Askers, Replay!Creates(a) PROVE SingletonTyped' /\ LockSound'
  <2>1. PICK s \in Services : service[s] = "none" /\ service' = [service EXCEPT ![s] = "starting"]
    BY <1>2 DEF Replay!Creates
  <2>2. holder = Nobody /\ current = NoService /\ holder' = a /\ UNCHANGED <<ready, current>>
    BY <1>2 DEF Replay!Creates, Replay!Free
  <2>3. SingletonTyped'
    BY <2>1, <2>2 DEF SingletonTyped
  <2>4. \A r \in Services : Idle(r)
    BY <2>2 DEF LockSound
  <2>5. Only(s, "starting")'
    BY <2>1, <2>4 DEF SingletonTyped, Only, Idle
  <2>6. LockSound'
    BY <2>2, <2>5, HoldersDiffer DEF LockSound
  <2>7. QED BY <2>3, <2>6
<1>3. ASSUME NEW a \in Askers, Replay!Started(a) PROVE SingletonTyped' /\ LockSound'
  <2>1. PICK s \in Services, connected \in BOOLEAN :
           /\ service[s] = "starting" /\ service' = [service EXCEPT ![s] = "up"]
           /\ ready' = [ready EXCEPT ![s] = connected] /\ current' = s
    BY <1>3 DEF Replay!Started
  <2>2. holder = a /\ holder' = Nobody
    BY <1>3 DEF Replay!Started
  <2>3. SingletonTyped'
    BY <2>1, <2>2 DEF SingletonTyped
  <2>4. PICK o \in Services : Only(o, "starting")
    BY <2>2 DEF LockSound
  <2>5. o = s
    BY <2>1, <2>4 DEF Only, Idle
  <2>6. Only(s, "up")'
    BY <2>1, <2>4, <2>5 DEF SingletonTyped, Only, Idle
  <2>7. LockSound'
    BY <2>1, <2>2, <2>6, HoldersDiffer, RecordAssumption DEF LockSound
  <2>8. QED BY <2>3, <2>7
<1>4. ASSUME NEW a \in Askers, Replay!StartFails(a) PROVE SingletonTyped' /\ LockSound'
  <2>1. /\ service' = [s \in Services |-> IF service[s] = "starting" THEN "stopped" ELSE service[s]]
        /\ holder = a /\ holder' = Nobody /\ UNCHANGED <<ready, current>>
    BY <1>4 DEF Replay!StartFails
  <2>2. SingletonTyped'
    BY <2>1 DEF SingletonTyped
  <2>3. current = NoService /\ \E s \in Services : Only(s, "starting")
    BY <2>1 DEF LockSound
  <2>4. \A s \in Services : Idle(s)'
    BY <2>1, <2>3 DEF Only, Idle
  <2>5. LockSound'
    BY <2>1, <2>3, <2>4, HoldersDiffer DEF LockSound
  <2>6. QED BY <2>2, <2>5
<1>5. CASE Replay!ShutdownBegins
  <2>1. /\ holder = Nobody /\ UNCHANGED <<ready, current>>
        /\ current = NoService => UNCHANGED <<holder, service>>
        /\ current # NoService => holder' = "lifespan" /\ service' = [service EXCEPT ![current] = "stopping"]
    BY <1>5 DEF Replay!ShutdownBegins, Replay!Free
  <2>2. CASE current = NoService
    BY <1>1, <2>1, <2>2
  <2>3. CASE current # NoService
    <3>1. Only(current, "up")
      BY <2>1, <2>3 DEF LockSound
    <3>2. Only(current, "stopping")' /\ SingletonTyped'
      BY <2>1, <2>3, <3>1 DEF SingletonTyped, Only, Idle
    <3>3. LockSound'
      BY <2>1, <2>3, <3>2, HoldersDiffer DEF LockSound
    <3>4. QED BY <3>2, <3>3
  <2>4. QED BY <2>2, <2>3
<1>6. CASE Replay!ShutdownEnds
  <2>1. /\ holder = "lifespan" /\ service' = [service EXCEPT ![current] = "stopped"]
        /\ ready' = [ready EXCEPT ![current] = FALSE] /\ current' = NoService /\ holder' = Nobody
    BY <1>6 DEF Replay!ShutdownEnds
  <2>2. Only(current, "stopping")
    BY <2>1 DEF LockSound
  <2>3. SingletonTyped' /\ \A s \in Services : Idle(s)'
    BY <2>1, <2>2 DEF SingletonTyped, Only, Idle
  <2>4. LockSound'
    BY <2>1, <2>3, HoldersDiffer DEF LockSound
  <2>5. QED BY <2>3, <2>4
<1>7. ASSUME NEW a \in Askers, Replay!Found(a) \/ Replay!BacksOff(a) PROVE UNCHANGED <<service, ready, current, holder>>
  BY <1>7 DEF Replay!Found, Replay!BacksOff, Replay!singleton
<1>8. CASE Replay!CooledDown \/ Replay!Expires \/ Replay!AskLog \/ Replay!ServeLog \/ Replay!ServeList \/ UNCHANGED ReplayVars
  <2>1. UNCHANGED <<service, ready, current, holder>>
    BY <1>8 DEF Replay!CooledDown, Replay!Expires, Replay!AskLog, Replay!ServeLog, Replay!ServeList, Replay!singleton, ReplayVars
  <2>2. QED BY <1>1, <2>1
<1>9. ASSUME NEW e \in Events,
             Replay!Fire(e) \/ Replay!Sent(e) \/ Replay!SendFails(e) \/ Replay!Copied(e) \/ Replay!CopyFails(e)
      PROVE  UNCHANGED <<service, ready, current, holder>>
  BY <1>9 DEF Replay!Fire, Replay!Sent, Replay!SendFails, Replay!Copied, Replay!CopyFails, Replay!singleton
<1>10. QED BY <1>1, <1>2, <1>3, <1>4, <1>5, <1>6, <1>7, <1>8, <1>9 DEF Replay!Next, Askers

LEMMA EmissionStep ==
    ASSUME EmissionTyped, Replay!Next \/ UNCHANGED ReplayVars
    PROVE  EmissionTyped'
<1> DEFINE stages == {"none", "asking", "sending", "recorded", "dropped"}
           Leaves(e) == emission[e] # "recorded" /\ \E x \in stages : emission' = [emission EXCEPT ![e] = x]
<1>1. ASSUME NEW e \in Events, Leaves(e), UNCHANGED <<copying, copied>> PROVE EmissionTyped'
  BY <1>1 DEF EmissionTyped
<1>2. ASSUME emission' = emission, copying' \subseteq copying, copied' \subseteq copied \cup copying PROVE EmissionTyped'
  BY <1>2 DEF EmissionTyped
<1>3. ASSUME NEW a \in Askers, Replay!Found(a) \/ Replay!BacksOff(a) \/ Replay!Creates(a) \/ Replay!Started(a) \/ Replay!StartFails(a)
      PROVE  EmissionTyped'
  <2>1. UNCHANGED <<copying, copied>>
    BY <1>3 DEF Replay!Found, Replay!BacksOff, Replay!Creates, Replay!Started, Replay!StartFails
  <2>2. CASE Replay!Creates(a)
    BY <1>2, <2>1, <2>2 DEF Replay!Creates
  <2>3. CASE a = Replay!Reader /\ ~Replay!Creates(a)
    <3>1. (\E s : Replay!GoOn(a, s)) \/ Replay!GoWithout(a)
      BY <1>3, <2>3 DEF Replay!Found, Replay!BacksOff, Replay!Started, Replay!StartFails
    <3>2. emission' = emission
      BY <2>3, <3>1 DEF Replay!GoOn, Replay!GoWithout
    <3>3. QED BY <1>2, <2>1, <3>2
  <2>4. CASE a # Replay!Reader /\ ~Replay!Creates(a)
    <3>1. Replay!Asking(a) /\ ((\E s : Replay!GoOn(a, s)) \/ Replay!GoWithout(a))
      BY <1>3, <2>4 DEF Replay!Found, Replay!BacksOff, Replay!Started, Replay!StartFails
    <3>2. emission[a] = "asking" /\ a \in Events
      BY <2>4, <3>1 DEF Replay!Asking, Askers
    <3>3. emission' = [emission EXCEPT ![a] = "sending"] \/ emission' = [emission EXCEPT ![a] = "dropped"]
      BY <2>4, <3>1 DEF Replay!GoOn, Replay!GoWithout
    <3>4. QED BY <1>1, <2>1, <3>2, <3>3
  <2>5. QED BY <2>2, <2>3, <2>4
<1>4. ASSUME NEW e \in Events, Replay!Fire(e) \/ Replay!SendFails(e) PROVE EmissionTyped'
  <2>1. Leaves(e) /\ UNCHANGED <<copying, copied>>
    BY <1>4 DEF Replay!Fire, Replay!SendFails
  <2>2. QED BY <1>1, <2>1
<1>5. ASSUME NEW e \in Events, Replay!Sent(e) PROVE EmissionTyped'
  <2>1. /\ emission' = [emission EXCEPT ![e] = "recorded"] /\ copied' = copied /\ copying' \subseteq copying \cup {e}
    BY <1>5 DEF Replay!Sent
  <2>2. QED BY <2>1 DEF EmissionTyped
<1>6. ASSUME NEW e \in Events, Replay!Copied(e) \/ Replay!CopyFails(e) PROVE EmissionTyped'
  <2>1. emission' = emission /\ copying' \subseteq copying /\ copied' \subseteq copied \cup copying
    BY <1>6 DEF Replay!Copied, Replay!CopyFails
  <2>2. QED BY <1>2, <2>1
<1>7. CASE Replay!CooledDown \/ Replay!ShutdownBegins \/ Replay!ShutdownEnds \/ Replay!Expires \/ Replay!AskLog
           \/ Replay!ServeLog \/ Replay!ServeList \/ UNCHANGED ReplayVars
  <2>1. UNCHANGED <<emission, copying, copied>>
    BY <1>7 DEF Replay!CooledDown, Replay!ShutdownBegins, Replay!ShutdownEnds, Replay!Expires, Replay!AskLog,
                Replay!ServeLog, Replay!ServeList, ReplayVars
  <2>2. QED BY <1>2, <2>1
<1>8. QED BY <1>3, <1>4, <1>5, <1>6, <1>7 DEF Replay!Next, Askers

LEMMA ReplayKept == AdminSpec => [](focus = "replay" => ReplayInv)
<1>1. AdminInit => (focus = "replay" => ReplayInv)
  BY ReplayBegins, ReplayInvInit
<1>2. (focus = "replay" => ReplayInv) /\ [AdminNext]_adminVars => (focus = "replay" => ReplayInv)'
  BY ReplayMoves, SingletonStep, EmissionStep DEF ReplayInv
<1>3. QED BY <1>1, <1>2, PTL DEF AdminSpec

LEMMA ReplayCard == ASSUME NEW S PROVE Replay!Cardinality(S) = Cardinality(S)
BY DEF Replay!Cardinality, Cardinality, Replay!IsFiniteSet, IsFiniteSet

LEMMA OneRuns == ReplayInv => Replay!OneProducer
<1>1. SUFFICES ASSUME SingletonTyped, LockSound PROVE Replay!OneProducer
  BY DEF ReplayInv
<1>2. PICK A : A = {s \in Services : service[s] \in {"starting", "up", "stopping"}}
  OBVIOUS
<1>3. \E s : A \subseteq {s}
  <2>1. (\A s \in Services : Idle(s)) \/ \E s \in Services : \A r \in Services \ {s} : Idle(r)
    BY <1>1 DEF SingletonTyped, LockSound, Only
  <2>2. QED BY <1>2, <2>1 DEF Idle
<1>4. Cardinality(A) <= 1
  <2>1. PICK s : A \subseteq {s}
    BY <1>3
  <2>2. Cardinality({s}) = 1 /\ IsFiniteSet({s})
    BY FS_Singleton
  <2>3. QED BY <2>1, <2>2, FS_Subset
<1>5. current # NoService => service[current] \in {"up", "stopping"}
  BY <1>1 DEF SingletonTyped, LockSound, Only
<1>6. Replay!Cardinality(A) <= 1
  BY <1>4, ReplayCard
<1>7. QED BY <1>2, <1>5, <1>6 DEF Replay!OneProducer

-----------------------------------------------------------------------------
(* The log of a run: events in the order of their timestamps.              *)

LEMMA FirstOf ==
    ASSUME NEW S, IsFiniteSet(S), S # {}, NEW le,
           \A x, y, z \in S : <<x, y>> \in le /\ <<y, z>> \in le => <<x, z>> \in le,
           \A x, y \in S : <<x, y>> \in le \/ <<y, x>> \in le
    PROVE  \E x \in S : \A y \in S : <<x, y>> \in le
<1>1. PICK B \in SUBSET (SUBSET S) : B = {s \in SUBSET S : s # {} /\ ~\E x \in s : \A y \in s : <<x, y>> \in le}
  OBVIOUS
<1>2. ASSUME B # {} PROVE FALSE
  <2>1. PICK b \in B : \A s \in SUBSET S : s \subseteq b /\ s # b => s \notin B
    BY <1>2, SmallestSet
  <2>2. b \in SUBSET S /\ b # {} /\ ~\E x \in b : \A y \in b : <<x, y>> \in le
    BY <1>1
  <2>3. PICK z \in b : TRUE
    BY <2>2
  <2>4. PICK c \in SUBSET S : c = b \ {z}
    BY <2>2
  <2>5. c \notin B
    BY <2>1, <2>3, <2>4
  <2>6. CASE c = {}
    BY <2>2, <2>3, <2>4, <2>6
  <2>7. CASE c # {}
    <3>1. PICK x \in c : \A y \in c : <<x, y>> \in le
      BY <1>1, <2>5, <2>7
    <3>2. CASE <<x, z>> \in le
      BY <2>2, <2>4, <3>1, <3>2
    <3>3. CASE <<z, x>> \in le
      <4>1. \A y \in b : <<z, y>> \in le
        BY <2>2, <2>3, <2>4, <3>1, <3>3
      <4>2. QED BY <2>2, <4>1
    <3>4. QED BY <2>2, <2>4, <3>1, <3>2, <3>3
  <2>8. QED BY <2>6, <2>7
<1>3. QED BY <1>1, <1>2

StampTyped == stampOf \in [Events -> Nat]

LEMMA LatestStamp ==
    ASSUME StampTyped, NEW S \in SUBSET Events, S # {}
    PROVE  /\ \E x \in S : \A y \in S : stampOf[y] <= stampOf[x]
           /\ \E x \in S : \A y \in S : stampOf[x] <= stampOf[y]
<1>1. IsFiniteSet(S) /\ \A x \in S : stampOf[x] \in Nat
  BY FS_Subset, RecordAssumption DEF StampTyped
<1>2. PICK le, ge : /\ le = {p \in S \X S : stampOf[p[1]] <= stampOf[p[2]]}
                    /\ ge = {p \in S \X S : stampOf[p[2]] <= stampOf[p[1]]}
  OBVIOUS
<1>3. \A x, y \in S : (<<x, y>> \in le <=> stampOf[x] <= stampOf[y]) /\ (<<x, y>> \in ge <=> stampOf[y] <= stampOf[x])
  BY <1>2
<1>4. \E x \in S : \A y \in S : <<x, y>> \in ge
  <2>1. \A x, y, z \in S : <<x, y>> \in ge /\ <<y, z>> \in ge => <<x, z>> \in ge
    BY <1>1, <1>3
  <2>2. \A x, y \in S : <<x, y>> \in ge \/ <<y, x>> \in ge
    <3>1. \A x, y \in S : stampOf[x] <= stampOf[y] \/ stampOf[y] <= stampOf[x]
      BY <1>1
    <3>2. QED BY <1>3, <3>1, Zenon
  <2>3. QED BY <1>1, <2>1, <2>2, FirstOf
<1>5. \E x \in S : \A y \in S : <<x, y>> \in le
  <2>1. \A x, y, z \in S : <<x, y>> \in le /\ <<y, z>> \in le => <<x, z>> \in le
    BY <1>1, <1>3
  <2>2. \A x, y \in S : <<x, y>> \in le \/ <<y, x>> \in le
    <3>1. \A x, y \in S : stampOf[x] <= stampOf[y] \/ stampOf[y] <= stampOf[x]
      BY <1>1
    <3>2. QED BY <1>3, <3>1, Zenon
  <2>3. QED BY <1>1, <2>1, <2>2, FirstOf
<1>6. QED BY <1>3, <1>4, <1>5

LEMMA MaxMin ==
    ASSUME StampTyped, NEW S \in SUBSET Events, S # {}
    PROVE  LET T == {stampOf[e] : e \in S}
           IN  \A e \in S : /\ Replay!Max(T) \in Nat /\ stampOf[e] <= Replay!Max(T)
                            /\ Replay!Min(T) \in Nat /\ Replay!Min(T) <= stampOf[e]
<1>1. PICK T : T = {stampOf[e] : e \in S}
  OBVIOUS
<1>2. T \subseteq Nat /\ \A e \in S : stampOf[e] \in T
  BY <1>1 DEF StampTyped
<1>3. \E x \in T : \A y \in T : x >= y
  <2>1. PICK e \in S : \A f \in S : stampOf[f] <= stampOf[e]
    BY LatestStamp
  <2>2. \A y \in T : stampOf[e] >= y
    BY <1>1, <1>2, <2>1
  <2>3. QED BY <1>2, <2>2
<1>4. \E x \in T : \A y \in T : x <= y
  <2>1. PICK e \in S : \A f \in S : stampOf[e] <= stampOf[f]
    BY LatestStamp
  <2>2. \A y \in T : stampOf[e] <= y
    BY <1>1, <1>2, <2>1
  <2>3. QED BY <1>2, <2>2
<1>5. Replay!Max(T) \in T /\ \A y \in T : Replay!Max(T) >= y
  BY <1>3 DEF Replay!Max
<1>6. Replay!Min(T) \in T /\ \A y \in T : Replay!Min(T) <= y
  BY <1>4 DEF Replay!Min
<1>7. \A e \in S : /\ Replay!Max(T) \in Nat /\ stampOf[e] <= Replay!Max(T)
                   /\ Replay!Min(T) \in Nat /\ Replay!Min(T) <= stampOf[e]
  BY <1>2, <1>5, <1>6
<1>8. QED BY <1>1, <1>7

Sorted(s, S) ==
    /\ s \in [1 .. Cardinality(S) -> S]
    /\ \A i, j \in 1 .. Cardinality(S) : i < j => stampOf[s[i]] < stampOf[s[j]]

LEMMA SortedExists ==
    ASSUME StampTyped, NEW T \in SUBSET Events, \A e, f \in T : e # f => stampOf[e] # stampOf[f]
    PROVE  \E s : Sorted(s, T)
<1>1. IsFiniteSet(T)
  BY FS_Subset, RecordAssumption
<1>2. PICK B \in SUBSET (SUBSET T) : B = {S \in SUBSET T : ~\E s : Sorted(s, S)}
  OBVIOUS
<1>3. ASSUME B # {} PROVE FALSE
  <2>1. PICK b \in B : \A s \in SUBSET T : s \subseteq b /\ s # b => s \notin B
    BY <1>1, <1>3, SmallestSet
  <2>2. b \in SUBSET T /\ ~\E s : Sorted(s, b)
    BY <1>2
  <2>3. b # {}
    <3>1. SUFFICES ASSUME b = {} PROVE FALSE
      OBVIOUS
    <3>2. Cardinality(b) = 0
      BY <3>1, FS_EmptySet
    <3>3. Sorted(<<>>, b)
      BY <3>1, <3>2 DEF Sorted
    <3>4. QED BY <2>2, <3>3
  <2>4. PICK x \in b : \A y \in b : stampOf[y] <= stampOf[x]
    BY <2>2, <2>3, LatestStamp
  <2>5. PICK c \in SUBSET T : c = b \ {x}
    BY <2>2
  <2>6. PICK r : Sorted(r, c)
    BY <1>2, <2>1, <2>4, <2>5
  <2>7. PICK n \in Nat : n = Cardinality(c) /\ Cardinality(b) = n + 1
    <3>1. IsFiniteSet(b)
      BY <1>1, <2>2, FS_Subset
    <3>2. Cardinality(c) = Cardinality(b) - 1 /\ Cardinality(b) \in Nat /\ Cardinality(c) \in Nat
      BY <2>5, <3>1, FS_RemoveElement, FS_CardinalityType
    <3>3. QED BY <3>2
  <2>8. PICK q : q = [i \in 1 .. n + 1 |-> IF i <= n THEN r[i] ELSE x]
    OBVIOUS
  <2>9. r \in [1 .. n -> c] /\ \A i, j \in 1 .. n : i < j => stampOf[r[i]] < stampOf[r[j]]
    BY <2>6, <2>7 DEF Sorted
  <2>10. \A i \in 1 .. n + 1 : (i \in 1 .. n /\ q[i] = r[i] /\ q[i] \in c) \/ (i = n + 1 /\ q[i] = x)
    BY <2>7, <2>8, <2>9
  <2>11. q \in [1 .. n + 1 -> b]
    BY <2>5, <2>8, <2>10
  <2>12. \A y \in c : stampOf[y] < stampOf[x]
    <3>1. \A y \in b : stampOf[y] \in Nat
      BY <2>2 DEF StampTyped
    <3>2. QED BY <2>2, <2>4, <2>5, <3>1
  <2>13. ASSUME NEW i \in 1 .. n + 1, NEW j \in 1 .. n + 1, i < j PROVE stampOf[q[i]] < stampOf[q[j]]
    <3>1. i \in 1 .. n /\ q[i] = r[i] /\ q[i] \in c
      BY <2>7, <2>10, <2>13
    <3>2. CASE j = n + 1
      BY <2>7, <2>10, <2>12, <3>1, <3>2
    <3>3. CASE j \in 1 .. n
      BY <2>7, <2>9, <2>10, <2>13, <3>1, <3>3
    <3>4. QED BY <2>7, <3>2, <3>3
  <2>14. Sorted(q, b)
    BY <2>7, <2>11, <2>13 DEF Sorted
  <2>15. QED BY <2>2, <2>14
<1>4. QED BY <1>2, <1>3

LEMMA ByTimeSorts ==
    ASSUME StampTyped, NEW T \in SUBSET Events, \A e, f \in T : e # f => stampOf[e] # stampOf[f]
    PROVE  Sorted(Replay!ByTime(T), T)
<1>1. PICK n : n = Cardinality(T) /\ n = Replay!Cardinality(T)
  BY ReplayCard
<1>2. PICK t : Sorted(t, T)
  BY SortedExists
<1>3. t \in [1 .. n -> T] /\ DOMAIN t = 1 .. n
  BY <1>1, <1>2 DEF Sorted
<1>4. \A i, j \in DOMAIN t : i < j => Replay!Earlier(t[i], t[j])
  BY <1>1, <1>2, <1>3 DEF Sorted, Replay!Earlier
<1>5. PICK s : s = Replay!ByTime(T)
  OBVIOUS
<1>6. s \in [1 .. n -> T] /\ \A i, j \in DOMAIN s : i < j => Replay!Earlier(s[i], s[j])
  BY <1>1, <1>3, <1>4, <1>5 DEF Replay!ByTime
<1>7. DOMAIN s = 1 .. n
  BY <1>6
<1>8. Sorted(s, T)
  BY <1>1, <1>6, <1>7 DEF Sorted, Replay!Earlier
<1>9. QED BY <1>5, <1>8

(* A timestamp is given once, when the event is handed to the service; an  *)
(* event of either store, and every event of a served log, has one.        *)
Stamped(e) == stampOf[e] > 0 /\ emission[e] \notin {"none", "asking"}
StampsSound ==
    /\ StampTyped
    /\ \A e \in Events : emission[e] \in {"sending", "recorded"} => stampOf[e] > 0
    /\ \A e, f \in Events : stampOf[e] = stampOf[f] /\ stampOf[e] > 0 => e = f
TopicSound == topic \in Seq(Events) /\ \A i \in 1 .. Len(topic) : Stamped(topic[i])
LogSound ==
    /\ log \in Seq(Events) /\ \A i \in 1 .. Len(log) : Stamped(log[i])
    /\ \A i, j \in 1 .. Len(log) : i < j => stampOf[log[i]] < stampOf[log[j]]
    /\ \A i, j \in 1 .. Len(log) : WorkflowOf[log[i]] = WorkflowOf[log[j]]
LogInv == StampsSound /\ TopicSound /\ LogSound /\ "at" \in DOMAIN reader /\ Replay!SummarySpansLog

LEMMA LogInvInit == ASSUME Replay!Init PROVE LogInv
<1>1. /\ emission = [e \in Events |-> "none"] /\ stampOf = [e \in Events |-> 0] /\ topic = <<>> /\ log = <<>>
      /\ reader = [at |-> "none", through |-> NoService]
  BY DEF Replay!Init, Replay!NoLog
<1>2. StampsSound
  BY <1>1 DEF StampsSound, StampTyped
<1>3. TopicSound /\ LogSound
  BY <1>1 DEF TopicSound, LogSound
<1>4. "at" \in DOMAIN reader /\ reader.at # "done"
  BY <1>1
<1>5. QED BY <1>2, <1>3, <1>4 DEF LogInv, Replay!SummarySpansLog

\* What was served stays as it is, with its timestamps.
LEMMA LogStays ==
    ASSUME LogInv, StampsSound', TopicSound', "at" \in DOMAIN reader', UNCHANGED <<log, summary, both>>,
           reader'.at = "done" => reader.at = "done",
           \A e \in Events : Stamped(e) => Stamped(e)' /\ stampOf'[e] = stampOf[e]
    PROVE  LogInv'
<1>1. log \in Seq(Events) /\ \A i \in 1 .. Len(log) : log[i] \in Events /\ Stamped(log[i])
  BY DEF LogInv, LogSound
<1>2. \A i \in 1 .. Len(log) : Stamped(log[i])' /\ stampOf'[log[i]] = stampOf[log[i]]
  <2> SUFFICES ASSUME NEW i \in 1 .. Len(log) PROVE Stamped(log[i])' /\ stampOf'[log[i]] = stampOf[log[i]]
    OBVIOUS
  <2>1. PICK e \in Events : e = log[i] /\ Stamped(e)
    BY <1>1
  <2>2. Stamped(e)' /\ stampOf'[e] = stampOf[e]
    BY <2>1
  <2>3. QED BY <2>1, <2>2 DEF Stamped
<1>3. LogSound'
  BY <1>1, <1>2 DEF LogInv, LogSound
<1>4. Replay!SummarySpansLog'
  <2> SUFFICES ASSUME reader'.at = "done", log # <<>>, both = Replay!ToSet(log)
               PROVE  \E s \in summary : /\ s.run = WorkflowOf[log[1]] /\ s.count >= Len(log)
                                         /\ s.first <= stampOf'[log[1]] /\ s.last >= stampOf'[Replay!Last(log)]
    BY DEF Replay!SummarySpansLog, Replay!NoLog, Replay!ToSet, Replay!Last
  <2>1. PICK s \in summary : /\ s.run = WorkflowOf[log[1]] /\ s.count >= Len(log)
                             /\ s.first <= stampOf[log[1]] /\ s.last >= stampOf[Replay!Last(log)]
    BY DEF LogInv, Replay!SummarySpansLog, Replay!NoLog
  <2>2. 1 \in 1 .. Len(log) /\ Len(log) \in 1 .. Len(log)
    BY <1>1
  <2>3. stampOf'[log[1]] = stampOf[log[1]] /\ stampOf'[Replay!Last(log)] = stampOf[Replay!Last(log)]
    BY <1>2, <2>2 DEF Replay!Last
  <2>4. QED BY <2>1, <2>3
<1>5. QED BY <1>3, <1>4 DEF LogInv

\* The steps that give no timestamp.
LEMMA NoNewStamp ==
    ASSUME LogInv, UNCHANGED <<stampOf, log, summary, both>>, "at" \in DOMAIN reader',
           reader'.at = "done" => reader.at = "done",
           \A e \in Events : emission[e] \notin {"none", "asking"} => emission'[e] \notin {"none", "asking"},
           \A e \in Events : emission'[e] \in {"sending", "recorded"} => emission[e] \in {"sending", "recorded"},
           topic' \in Seq(Events), \A i \in 1 .. Len(topic') : Stamped(topic'[i])
    PROVE  LogInv'
<1>1. \A e \in Events : Stamped(e) => Stamped(e)' /\ stampOf'[e] = stampOf[e]
  BY DEF Stamped
<1>2. StampsSound'
  BY DEF LogInv, StampsSound, StampTyped
<1>3. TopicSound'
  <2>1. \A i \in 1 .. Len(topic') : topic'[i] \in Events
    OBVIOUS
  <2>2. \A i \in 1 .. Len(topic') : Stamped(topic[i])'
    BY <2>1, <1>1 DEF Stamped
  <2>3. QED BY <2>2 DEF TopicSound
<1>4. QED BY <1>1, <1>2, <1>3, LogStays

LEMMA EventStep ==
    ASSUME ReplayInv, LogInv, NEW e \in Events,
           Replay!Fire(e) \/ Replay!Sent(e) \/ Replay!SendFails(e) \/ Replay!Copied(e) \/ Replay!CopyFails(e)
    PROVE  LogInv'
<1>1. UNCHANGED <<stampOf, log, summary, both, reader>>
  BY DEF Replay!Fire, Replay!Sent, Replay!SendFails, Replay!Copied, Replay!CopyFails, Replay!served
<1>2. "at" \in DOMAIN reader' /\ (reader'.at = "done" => reader.at = "done")
  BY <1>1 DEF LogInv
<1>3. emission \in [Events -> {"none", "asking", "sending", "recorded", "dropped"}]
  BY DEF ReplayInv, EmissionTyped
<1>4. topic \in Seq(Events) /\ \A i \in 1 .. Len(topic) : Stamped(topic[i])
  BY DEF LogInv, TopicSound
<1>5. CASE Replay!Fire(e)
  <2>1. emission[e] = "none" /\ emission' = [emission EXCEPT ![e] = "asking"] /\ topic' = topic
    BY <1>5 DEF Replay!Fire
  <2>2. \A f \in Events : /\ emission[f] \notin {"none", "asking"} => emission'[f] \notin {"none", "asking"}
                          /\ emission'[f] \in {"sending", "recorded"} => emission[f] \in {"sending", "recorded"}
    BY <1>3, <2>1
  <2>3. QED BY <1>1, <1>2, <1>4, <2>1, <2>2, NoNewStamp
<1>6. CASE Replay!Sent(e) \/ Replay!SendFails(e)
  <2>1. PICK x \in {"recorded", "dropped"} :
           emission[e] = "sending" /\ emission' = [emission EXCEPT ![e] = x] /\ topic' \in {topic, Append(topic, e)}
    BY <1>6 DEF Replay!Sent, Replay!SendFails
  <2>2. \A f \in Events : /\ emission[f] \notin {"none", "asking"} => emission'[f] \notin {"none", "asking"}
                          /\ emission'[f] \in {"sending", "recorded"} => emission[f] \in {"sending", "recorded"}
    BY <1>3, <2>1
  <2>3. Stamped(e)
    BY <2>1 DEF LogInv, StampsSound, Stamped
  <2>4. topic' \in Seq(Events) /\ \A i \in 1 .. Len(topic') : Stamped(topic'[i])
    <3>1. CASE topic' = topic
      BY <1>4, <3>1
    <3>2. CASE topic' = Append(topic, e)
      <4>1. topic' \in Seq(Events) /\ Len(topic') = Len(topic) + 1 /\ topic'[Len(topic) + 1] = e
        BY <1>4, <3>2
      <4>2. \A i \in 1 .. Len(topic) : topic'[i] = topic[i]
        BY <1>4, <3>2
      <4>3. ASSUME NEW i \in 1 .. Len(topic') PROVE Stamped(topic'[i])
        <5>1. CASE i = Len(topic) + 1
          BY <2>3, <4>1, <5>1
        <5>2. CASE i \in 1 .. Len(topic)
          BY <1>4, <4>2, <5>2
        <5>3. QED BY <1>4, <4>1, <5>1, <5>2
      <4>4. QED BY <4>1, <4>3
    <3>3. QED BY <2>1, <3>1, <3>2
  <2>5. QED BY <1>1, <1>2, <2>2, <2>4, NoNewStamp
<1>7. CASE Replay!Copied(e) \/ Replay!CopyFails(e)
  <2>1. UNCHANGED <<emission, topic>>
    BY <1>7 DEF Replay!Copied, Replay!CopyFails
  <2>2. QED BY <1>1, <1>2, <1>4, <2>1, NoNewStamp
<1>8. QED BY <1>5, <1>6, <1>7

LEMMA QuietStep ==
    ASSUME LogInv,
           \/ Replay!CooledDown \/ Replay!ShutdownBegins \/ Replay!ShutdownEnds \/ Replay!Expires \/ Replay!AskLog
           \/ UNCHANGED ReplayVars \/ \E a \in Askers : Replay!Creates(a)
    PROVE  LogInv'
<1>1. UNCHANGED <<stampOf, log, summary, both, emission>>
  BY DEF Replay!CooledDown, Replay!ShutdownBegins, Replay!ShutdownEnds, Replay!Expires, Replay!AskLog, Replay!Creates,
         Replay!served, ReplayVars
<1>2. topic' \in {topic, Tail(topic)} /\ (topic' = Tail(topic) => topic = topic' \/ topic # <<>>)
  BY DEF Replay!CooledDown, Replay!ShutdownBegins, Replay!ShutdownEnds, Replay!Expires, Replay!AskLog, Replay!Creates,
         Replay!served, ReplayVars
<1>3. reader' = reader \/ reader' = [reader EXCEPT !.at = "askLog"]
  BY DEF Replay!CooledDown, Replay!ShutdownBegins, Replay!ShutdownEnds, Replay!Expires, Replay!AskLog, Replay!Creates,
         Replay!served, ReplayVars
<1>4. "at" \in DOMAIN reader' /\ (reader'.at = "done" => reader.at = "done")
  <2>1. PICK q : q = [reader EXCEPT !.at = "askLog"]
    OBVIOUS
  <2>2. "at" \in DOMAIN q /\ q.at = "askLog"
    BY <2>1 DEF LogInv
  <2>3. QED BY <1>3, <2>1, <2>2 DEF LogInv
<1>5. topic \in Seq(Events) /\ \A i \in 1 .. Len(topic) : Stamped(topic[i])
  BY DEF LogInv, TopicSound
<1>6. topic' \in Seq(Events) /\ \A i \in 1 .. Len(topic') : Stamped(topic'[i])
  <2>1. CASE topic' = topic
    BY <1>5, <2>1
  <2>2. CASE topic' = Tail(topic) /\ topic # <<>>
    <3>1. topic' \in Seq(Events) /\ Len(topic') = Len(topic) - 1 /\ \A i \in 1 .. Len(topic') : topic'[i] = topic[i + 1]
      BY <1>5, <2>2, HeadTailProperties
    <3>2. \A i \in 1 .. Len(topic') : i + 1 \in 1 .. Len(topic)
      BY <1>5, <3>1
    <3>3. QED BY <1>5, <3>1, <3>2
  <2>3. QED BY <1>2, <2>1, <2>2
<1>7. QED BY <1>1, <1>4, <1>6, NoNewStamp

LEMMA GoWithoutStep ==
    ASSUME ReplayInv, LogInv, NEW a \in Askers, Replay!BacksOff(a) \/ Replay!StartFails(a)
    PROVE  LogInv'
<1>1. Replay!Asking(a) /\ Replay!GoWithout(a) /\ UNCHANGED <<stampOf, topic, log, summary, both>>
  BY DEF Replay!BacksOff, Replay!StartFails
<1>2. emission \in [Events -> {"none", "asking", "sending", "recorded", "dropped"}]
  BY DEF ReplayInv, EmissionTyped
<1>3. "at" \in DOMAIN reader' /\ (reader'.at = "done" => reader.at = "done")
  BY <1>1 DEF Replay!GoWithout, LogInv
<1>4. \A f \in Events : /\ emission[f] \notin {"none", "asking"} => emission'[f] \notin {"none", "asking"}
                        /\ emission'[f] \in {"sending", "recorded"} => emission[f] \in {"sending", "recorded"}
  <2>1. CASE a = Replay!Reader
    BY <1>1, <2>1 DEF Replay!GoWithout
  <2>2. CASE a # Replay!Reader
    BY <1>1, <1>2, <2>2 DEF Replay!GoWithout
  <2>3. QED BY <2>1, <2>2
<1>5. topic' \in Seq(Events) /\ \A i \in 1 .. Len(topic') : Stamped(topic'[i])
  BY <1>1 DEF LogInv, TopicSound
<1>6. QED BY <1>1, <1>3, <1>4, <1>5, NoNewStamp

\* A new timestamp is later than all before.
LEMMA GoOnStep ==
    ASSUME ReplayInv, LogInv, NEW a \in Askers, Replay!Found(a) \/ Replay!Started(a)
    PROVE  LogInv'
<1>1. PICK s : Replay!GoOn(a, s)
  BY DEF Replay!Found, Replay!Started
<1>2. Replay!Asking(a) /\ UNCHANGED <<topic, log, summary, both>>
  BY DEF Replay!Found, Replay!Started
<1>3. emission \in [Events -> {"none", "asking", "sending", "recorded", "dropped"}]
  BY DEF ReplayInv, EmissionTyped
<1>4. topic \in Seq(Events) /\ \A i \in 1 .. Len(topic) : Stamped(topic[i])
  BY DEF LogInv, TopicSound
<1>5. CASE a = Replay!Reader
  <2>1. UNCHANGED <<emission, stampOf>> /\ "at" \in DOMAIN reader' /\ reader'.at # "done"
    BY <1>1, <1>5 DEF Replay!GoOn
  <2>2. QED BY <1>2, <1>4, <2>1, NoNewStamp
<1>6. CASE a # Replay!Reader
  <2>1. PICK n : n = 1 + Replay!Max({stampOf[e] : e \in Events})
    OBVIOUS
  <2>2. a \in Events /\ emission[a] = "asking" /\ emission' = [emission EXCEPT ![a] = "sending"]
        /\ stampOf' = [stampOf EXCEPT ![a] = n] /\ reader' = reader
    BY <1>1, <1>2, <1>6, <2>1 DEF Replay!GoOn, Replay!Asking, Askers
  <2>3. StampTyped /\ \A e, f \in Events : stampOf[e] = stampOf[f] /\ stampOf[e] > 0 => e = f
    BY DEF LogInv, StampsSound
  <2>4. n \in Nat /\ n > 0 /\ \A e \in Events : stampOf[e] \in Nat /\ stampOf[e] < n
    <3>1. PICK m : m = Replay!Max({stampOf[e] : e \in Events})
      OBVIOUS
    <3>2. \A e \in Events : m \in Nat /\ stampOf[e] <= m
      BY <2>2, <2>3, <3>1, MaxMin
    <3>3. \A e \in Events : stampOf[e] \in Nat
      BY <2>3 DEF StampTyped
    <3>4. QED BY <2>1, <2>2, <3>1, <3>2, <3>3
  <2>5. /\ \A e \in Events \ {a} : stampOf'[e] = stampOf[e] /\ emission'[e] = emission[e]
        /\ stampOf'[a] = n /\ emission'[a] = "sending" /\ StampTyped'
    BY <1>3, <2>2, <2>3, <2>4 DEF StampTyped
  <2>6. StampsSound'
    <3>1. \A e, f \in Events : stampOf'[e] = stampOf'[f] /\ stampOf'[e] > 0 => e = f
      <4> SUFFICES ASSUME NEW e \in Events, NEW f \in Events, stampOf'[e] = stampOf'[f], stampOf'[e] > 0, e # f
                   PROVE  FALSE
        OBVIOUS
      <4>1. CASE e = a
        BY <2>4, <2>5, <4>1
      <4>2. CASE f = a
        BY <2>4, <2>5, <4>2
      <4>3. CASE e # a /\ f # a
        BY <2>3, <2>5, <4>3
      <4>4. QED BY <4>1, <4>2, <4>3
    <3>2. \A e \in Events : emission'[e] \in {"sending", "recorded"} => stampOf'[e] > 0
      BY <2>4, <2>5 DEF LogInv, StampsSound
    <3>3. QED BY <2>5, <3>1, <3>2 DEF StampsSound
  <2>7. \A e \in Events : Stamped(e) => Stamped(e)' /\ stampOf'[e] = stampOf[e]
    BY <2>2, <2>5 DEF Stamped
  <2>8. TopicSound'
    BY <1>2, <1>4, <2>7 DEF TopicSound, Stamped
  <2>9. QED BY <1>2, <2>2, <2>6, <2>7, <2>8, LogStays DEF LogInv
<1>7. QED BY <1>5, <1>6

\* The events of both stores have timestamps, all different.
LEMMA StoresStamped ==
    ASSUME ReplayInv, LogInv, NEW T, T \subseteq copied \/ T \subseteq {topic[i] : i \in 1 .. Len(topic)}
    PROVE  /\ T \subseteq Events /\ IsFiniteSet(T) /\ \A e \in T : Stamped(e)
           /\ \A e, f \in T : e # f => stampOf[e] # stampOf[f]
<1>1. \A e \in copied : e \in Events /\ Stamped(e)
  BY DEF ReplayInv, EmissionTyped, LogInv, StampsSound, Stamped
<1>2. \A i \in 1 .. Len(topic) : topic[i] \in Events /\ Stamped(topic[i])
  BY DEF LogInv, TopicSound
<1>3. T \subseteq Events /\ \A e \in T : Stamped(e)
  BY <1>1, <1>2
<1>4. IsFiniteSet(T)
  BY <1>3, FS_Subset, RecordAssumption
<1>5. \A e, f \in T : e # f => stampOf[e] # stampOf[f]
  BY <1>3 DEF Stamped, LogInv, StampsSound
<1>6. QED BY <1>3, <1>4, <1>5

LEMMA ServeLogStep ==
    ASSUME ReplayInv, LogInv, Replay!ServeLog
    PROVE  LogInv'
<1>1. UNCHANGED <<emission, stampOf, topic, copied>>
  BY DEF Replay!ServeLog
<1>2. PICK w \in Replay!Runs, owner \in Replay!Scopes :
         /\ \/ log' = Replay!ByTime(Replay!Visible(Replay!TableLog(w), owner))
            \/ log' = Replay!ByTime(Replay!Visible(Replay!TopicLog(w), owner))
         /\ reader' = [at |-> "askList", through |-> NoService, run |-> w, owner |-> owner]
  BY DEF Replay!ServeLog
<1>3. PICK T : /\ log' = Replay!ByTime(T)
               /\ T \subseteq copied \/ T \subseteq {topic[i] : i \in 1 .. Len(topic)}
               /\ \A e \in T : WorkflowOf[e] = w
  <2>1. CASE log' = Replay!ByTime(Replay!Visible(Replay!TableLog(w), owner))
    <3>1. PICK T : T = Replay!Visible(Replay!TableLog(w), owner)
      OBVIOUS
    <3>2. T \subseteq copied /\ \A e \in T : WorkflowOf[e] = w
      BY <3>1 DEF Replay!Visible, Replay!TableLog
    <3>3. QED BY <2>1, <3>1, <3>2
  <2>2. CASE log' = Replay!ByTime(Replay!Visible(Replay!TopicLog(w), owner))
    <3>1. PICK T : T = Replay!Visible(Replay!TopicLog(w), owner)
      OBVIOUS
    <3>2. DOMAIN topic = 1 .. Len(topic)
      BY DEF LogInv, TopicSound
    <3>3. T \subseteq {topic[i] : i \in 1 .. Len(topic)} /\ \A e \in T : WorkflowOf[e] = w
      BY <3>1, <3>2 DEF Replay!Visible, Replay!TopicLog
    <3>4. QED BY <2>2, <3>1, <3>3
  <2>3. QED BY <1>2, <2>1, <2>2
<1>4. /\ T \subseteq Events /\ IsFiniteSet(T) /\ \A e \in T : Stamped(e)
      /\ \A e, f \in T : e # f => stampOf[e] # stampOf[f]
  BY <1>3, StoresStamped
<1>5. Sorted(log', T)
  BY <1>3, <1>4, ByTimeSorts DEF LogInv, StampsSound
<1>6. PICK n \in Nat : n = Cardinality(T)
  BY <1>4, FS_CardinalityType
<1>7. log' \in [1 .. n -> T] /\ \A i, j \in 1 .. n : i < j => stampOf[log'[i]] < stampOf[log'[j]]
  BY <1>5, <1>6 DEF Sorted
<1>8. log' \in Seq(T) /\ log' \in Seq(Events) /\ Len(log') = n /\ \A i \in 1 .. n : log'[i] \in T
  BY <1>4, <1>7
<1>9. LogSound'
  <2>1. \A i \in 1 .. n : Stamped(log[i])' /\ WorkflowOf[log'[i]] = w
    BY <1>1, <1>3, <1>4, <1>8 DEF Stamped
  <2>2. QED BY <1>1, <1>7, <1>8, <2>1 DEF LogSound
<1>10. StampsSound' /\ TopicSound'
  BY <1>1 DEF LogInv, StampsSound, StampTyped, TopicSound, Stamped
<1>11. "at" \in DOMAIN reader' /\ reader'.at # "done"
  BY <1>2
<1>12. QED BY <1>9, <1>10, <1>11 DEF LogInv, Replay!SummarySpansLog

LEMMA ServeListStep ==
    ASSUME ReplayInv, LogInv, Replay!ServeList
    PROVE  LogInv'
<1>1. UNCHANGED <<emission, stampOf, topic, copied, log>> /\ reader' = [at |-> "done", through |-> NoService]
      /\ both' = Replay!ToSet(log) \intersect copied \intersect Replay!ToSet(topic)
  BY DEF Replay!ServeList
<1>2. PICK owner \in Replay!Scopes :
         /\ \A i \in DOMAIN log : owner \in {AnyOwner, OwnerOf[log[i]]}
         /\ \/ summary' = Replay!Summaries(copied, owner)
            \/ summary' = Replay!Summaries(Replay!ToSet(topic), owner)
  BY DEF Replay!ServeList
<1>3. PICK S : S \in {copied, Replay!ToSet(topic)} /\ summary' = Replay!Summaries(S, owner)
  BY <1>2
<1>4. /\ log \in Seq(Events) /\ DOMAIN log = 1 .. Len(log) /\ Len(log) \in Nat
      /\ \A i, j \in 1 .. Len(log) : i < j => stampOf[log[i]] < stampOf[log[j]]
      /\ \A i, j \in 1 .. Len(log) : WorkflowOf[log[i]] = WorkflowOf[log[j]]
  BY DEF LogInv, LogSound
<1>5. StampsSound' /\ TopicSound' /\ LogSound' /\ "at" \in DOMAIN reader'
  BY <1>1 DEF LogInv, StampsSound, StampTyped, TopicSound, LogSound, Stamped
<1>6. Replay!SummarySpansLog'
  <2> SUFFICES ASSUME log # <<>>, both' = Replay!ToSet(log)
               PROVE  \E s \in summary' : /\ s.run = WorkflowOf[log[1]] /\ s.count >= Len(log)
                                          /\ s.first <= stampOf[log[1]] /\ s.last >= stampOf[Replay!Last(log)]
    BY <1>1 DEF Replay!SummarySpansLog, Replay!NoLog, Replay!ToSet, Replay!Last
  <2>1. PICK n, w : n = Len(log) /\ w = WorkflowOf[log[1]]
    OBVIOUS
  <2>2. n \in Nat /\ 1 \in 1 .. n /\ n \in 1 .. n
    BY <1>4, <2>1
  <2>3. PICK own : own = {e \in S : owner = AnyOwner \/ OwnerOf[e] = owner}
    OBVIOUS
  <2>4. PICK W : W = {e \in own : WorkflowOf[e] = w}
    OBVIOUS
  <2>5. \A i \in 1 .. n : log[i] \in W
    <3> SUFFICES ASSUME NEW i \in 1 .. n PROVE log[i] \in W
      OBVIOUS
    <3>1. log[i] \in Replay!ToSet(log)
      BY <1>4, <2>1 DEF Replay!ToSet
    <3>2. log[i] \in S
      BY <1>1, <1>3, <3>1
    <3>3. owner = AnyOwner \/ OwnerOf[log[i]] = owner
      BY <1>2, <1>4, <2>1
    <3>4. WorkflowOf[log[i]] = w
      BY <1>4, <2>1, <2>2
    <3>5. QED BY <2>3, <2>4, <3>2, <3>3, <3>4
  <2>6. S \subseteq copied \/ S \subseteq {topic[i] : i \in 1 .. Len(topic)}
    <3>1. DOMAIN topic = 1 .. Len(topic)
      BY DEF LogInv, TopicSound
    <3>2. QED BY <1>3, <3>1 DEF Replay!ToSet
  <2>7. W \in SUBSET Events /\ IsFiniteSet(W) /\ W # {}
    <3>1. S \subseteq Events /\ IsFiniteSet(S)
      BY <2>6, StoresStamped
    <3>2. W \subseteq S
      BY <2>3, <2>4
    <3>3. QED BY <2>2, <2>5, <3>1, <3>2, FS_Subset
  <2>8. PICK s : s = [run |-> w, first |-> Replay!EarliestOf({stampOf[e] : e \in W}),
                      last |-> Replay!LatestOf({stampOf[e] : e \in W}), count |-> Replay!Cardinality(W)]
    OBVIOUS
  <2>9. s \in summary'
    <3>1. w \in {WorkflowOf[e] : e \in own}
      BY <2>1, <2>2, <2>4, <2>5
    <3>2. QED BY <1>3, <2>3, <2>4, <2>8, <3>1 DEF Replay!Summaries
  <2>10. Cardinality(W) >= n
    <3>1. log \in [1 .. n -> W]
      BY <1>4, <2>1, <2>5
    <3>2. \A i, j \in 1 .. n : log[i] = log[j] => i = j
      <4> SUFFICES ASSUME NEW i \in 1 .. n, NEW j \in 1 .. n, log[i] = log[j], i # j PROVE FALSE
        OBVIOUS
      <4>1. stampOf[log[i]] \in Nat /\ (i < j \/ j < i)
        BY <2>5, <2>7, <2>2 DEF LogInv, StampsSound, StampTyped
      <4>2. QED BY <1>4, <2>1, <4>1
    <3>3. log \in Injection(1 .. n, W)
      BY <3>1, <3>2 DEF Injection, IsInjective
    <3>4. Cardinality(1 .. n) = n
      BY <2>2, FS_Interval
    <3>5. Cardinality(1 .. n) <= Cardinality(W)
      BY <2>7, <3>3, FS_Injection
    <3>6. Cardinality(W) \in Nat
      BY <2>7, FS_CardinalityType
    <3>7. QED BY <2>2, <3>4, <3>5, <3>6
  <2>11. s.first <= stampOf[log[1]] /\ s.last >= stampOf[log[n]]
    <3>1. PICK first, last : /\ first = Replay!Min({stampOf[e] : e \in W})
                             /\ last = Replay!Max({stampOf[e] : e \in W})
      OBVIOUS
    <3>2. \A e \in W : last \in Nat /\ stampOf[e] <= last /\ first \in Nat /\ first <= stampOf[e]
      BY <2>7, <3>1, MaxMin DEF LogInv, StampsSound
    <3>3. \A e \in W : stampOf[e] \in Nat
      BY <2>7 DEF LogInv, StampsSound, StampTyped
    <3>4. first <= stampOf[log[1]] /\ last >= stampOf[log[n]]
      BY <2>2, <2>5, <3>2, <3>3
    <3>5. s.first = first /\ s.last = last
      BY <2>8, <3>1 DEF Replay!EarliestOf, Replay!LatestOf
    <3>6. QED BY <3>4, <3>5
  <2>12. s.run = w /\ s.count >= n
    BY <2>8, <2>10, ReplayCard
  <2>13. QED BY <2>1, <2>9, <2>11, <2>12 DEF Replay!Last
<1>7. QED BY <1>5, <1>6 DEF LogInv

LEMMA LogStep ==
    ASSUME ReplayInv, LogInv, Replay!Next \/ UNCHANGED ReplayVars
    PROVE  LogInv'
<1>1. CASE UNCHANGED ReplayVars
  BY <1>1, QuietStep
<1>2. ASSUME NEW a \in Askers,
             Replay!Found(a) \/ Replay!BacksOff(a) \/ Replay!Creates(a) \/ Replay!Started(a) \/ Replay!StartFails(a)
      PROVE  LogInv'
  BY <1>2, GoOnStep, GoWithoutStep, QuietStep
<1>3. CASE Replay!CooledDown \/ Replay!ShutdownBegins \/ Replay!ShutdownEnds \/ Replay!Expires \/ Replay!AskLog
  BY <1>3, QuietStep
<1>4. ASSUME NEW e \in Events,
             Replay!Fire(e) \/ Replay!Sent(e) \/ Replay!SendFails(e) \/ Replay!Copied(e) \/ Replay!CopyFails(e)
      PROVE  LogInv'
  BY <1>4, EventStep
<1>5. CASE Replay!ServeLog \/ Replay!ServeList
  BY <1>5, ServeLogStep, ServeListStep
<1>6. QED BY <1>1, <1>2, <1>3, <1>4, <1>5 DEF Replay!Next, Askers

LEMMA LogKept == AdminSpec => [](focus = "replay" => LogInv)
<1>1. AdminInit => (focus = "replay" => LogInv)
  BY ReplayBegins, LogInvInit
<1>2. (focus = "replay" => ReplayInv) /\ (focus = "replay" => LogInv) /\ [AdminNext]_adminVars
      => (focus = "replay" => LogInv)'
  BY ReplayMoves, LogStep
<1>3. QED BY <1>1, <1>2, ReplayKept, PTL DEF AdminSpec

-----------------------------------------------------------------------------
(* Deduplication, by the number of examples it has gone through.           *)

IsPair(e)  == e = [instruction |-> e.instruction, response |-> e.response]
IsSample(S) == \A e \in S : IsPair(e)

DedupStep(examples, K, n) ==
    IF n = 0 THEN <<>>
    ELSE IF Dataset!Seen(examples[n], K[n - 1]) THEN K[n - 1]
    ELSE Append(K[n - 1], examples[n])
DedupRule(examples, K) == K = [n \in 0 .. Len(examples) |-> DedupStep(examples, K, n)]

\* What has been kept of the first n examples.
DedupGood(S, examples, k, n) ==
    /\ k \in Seq(S) /\ Len(k) <= n
    /\ \A i, j \in 1 .. Len(k) : k[i] = k[j] => i = j
    /\ {k[i] : i \in 1 .. Len(k)} = {examples[i] : i \in 1 .. n}

LEMMA DedupExists ==
    ASSUME NEW examples, Len(examples) \in Nat
    PROVE  \E K : DedupRule(examples, K)
<1> DEFINE N == Len(examples)
           upto(K, n) == \A i \in 0 .. n : K[i] = DedupStep(examples, K, i)
           reached(n) == \E K : DOMAIN K = 0 .. N /\ upto(K, n)
           bad == {n \in 0 .. N : ~reached(n)}
<1>1. ASSUME bad # {} PROVE FALSE
  <2>1. PICK n \in bad : \A k \in bad : n <= k
    <3>1. bad \in SUBSET (0 .. N)
      OBVIOUS
    <3> HIDE DEF bad
    <3>2. QED BY <1>1, <3>1, HasLeast
  <2>2. n \in 0 .. N /\ n \in Nat /\ ~reached(n)
    <3> HIDE DEF reached
    <3>1. QED OBVIOUS
  <2>3. CASE n = 0
    <3>1. PICK K : K = [i \in 0 .. N |-> <<>>]
      OBVIOUS
    <3>2. K[0] = <<>> /\ DOMAIN K = 0 .. N
      BY <3>1
    <3>3. upto(K, 0)
      BY <3>2 DEF DedupStep
    <3>4. reached(0)
      BY <3>2, <3>3
    <3>5. QED BY <2>2, <2>3, <3>4
  <2>4. CASE n # 0
    <3>1. n - 1 \in 0 .. N /\ ~(n <= n - 1)
      BY <2>2, <2>4
    <3>2. reached(n - 1)
      <4> HIDE DEF reached
      <4>1. QED BY <2>1, <3>1
    <3>3. PICK G : DOMAIN G = 0 .. N /\ upto(G, n - 1)
      BY <3>2
    <3>4. PICK K : K = [G EXCEPT ![n] = DedupStep(examples, G, n)]
      OBVIOUS
    <3>5. K[n] = DedupStep(examples, G, n) /\ DOMAIN K = 0 .. N /\ \A i \in 0 .. N : i # n => K[i] = G[i]
      BY <2>2, <3>3, <3>4
    <3>6. ASSUME NEW i \in 0 .. n PROVE K[i] = DedupStep(examples, K, i)
      <4>1. i \in 0 .. N /\ (i # 0 => i - 1 \in 0 .. N /\ i - 1 # n)
        BY <2>2
      <4>2. DedupStep(examples, K, i) = DedupStep(examples, G, i)
        <5>1. i # 0 => K[i - 1] = G[i - 1]
          BY <3>5, <4>1
        <5>2. QED BY <5>1 DEF DedupStep
      <4>3. CASE i = n
        BY <3>5, <4>2, <4>3
      <4>4. CASE i # n
        <5>1. i \in 0 .. n - 1
          BY <2>2, <4>4
        <5>2. QED BY <3>3, <3>5, <4>1, <4>2, <4>4, <5>1
      <4>5. QED BY <4>3, <4>4
    <3>7. reached(n)
      BY <3>5, <3>6
    <3>8. QED BY <2>2, <3>7
  <2>5. QED BY <2>3, <2>4
<1>2. reached(N)
  <2> HIDE DEF reached
  <2>1. N \in 0 .. N
    OBVIOUS
  <2>2. QED BY <1>1, <2>1
<1>3. PICK K : DOMAIN K = 0 .. N /\ upto(K, N)
  BY <1>2
<1>4. PICK H : H = [n \in 0 .. N |-> DedupStep(examples, K, n)]
  OBVIOUS
<1>5. \A n \in 0 .. N : H[n] = K[n]
  BY <1>3, <1>4
<1>6. \A n \in 0 .. N : DedupStep(examples, K, n) = DedupStep(examples, H, n)
  <2> SUFFICES ASSUME NEW n \in 0 .. N PROVE DedupStep(examples, K, n) = DedupStep(examples, H, n)
    OBVIOUS
  <2>1. n # 0 => n - 1 \in 0 .. N
    OBVIOUS
  <2>2. n # 0 => K[n - 1] = H[n - 1]
    BY <1>5, <2>1
  <2>3. QED BY <2>2 DEF DedupStep
<1>7. H = [n \in 0 .. N |-> DedupStep(examples, H, n)]
  BY <1>4, <1>6
<1>8. QED BY <1>7 DEF DedupRule

LEMMA DedupIs ==
    ASSUME NEW examples, Len(examples) \in Nat
    PROVE  \E K : DedupRule(examples, K) /\ Dataset!Deduped(examples) = K[Len(examples)]
<1>1. PICK K : K = CHOOSE H : DedupRule(examples, H)
  OBVIOUS
<1>2. DedupRule(examples, K)
  BY <1>1, DedupExists
<1>3. Dataset!Deduped(examples) = K[Len(examples)]
  BY <1>1 DEF Dataset!Deduped, DedupRule, DedupStep
<1>4. QED BY <1>2, <1>3

LEMMA DedupKeeps ==
    ASSUME NEW S, IsSample(S), NEW examples \in Seq(S), NEW n \in 1 .. Len(examples),
           NEW k, DedupGood(S, examples, k, n - 1)
    PROVE  /\ Dataset!Seen(examples[n], k) => DedupGood(S, examples, k, n)
           /\ ~Dataset!Seen(examples[n], k) => DedupGood(S, examples, Append(k, examples[n]), n)
<1>1. PICK e \in S : e = examples[n]
  OBVIOUS
<1>2. k \in Seq(S) /\ Len(k) \in Nat /\ Len(k) <= n - 1 /\ n \in Nat /\ DOMAIN k = 1 .. Len(k)
  BY DEF DedupGood
<1>3. Dataset!Seen(e, k) <=> \E i \in 1 .. Len(k) : k[i] = e
  <2>1. ASSUME NEW i \in 1 .. Len(k), Dataset!KeyOf(k[i]) = Dataset!KeyOf(e) PROVE k[i] = e
    <3>1. PICK d \in S : d = k[i]
      BY <1>2
    <3>2. d.instruction = e.instruction /\ d.response = e.response
      BY <2>1, <3>1 DEF Dataset!KeyOf
    <3>3. IsPair(d) /\ IsPair(e)
      BY DEF IsSample
    <3>4. QED BY <3>1, <3>2, <3>3 DEF IsPair
  <2>2. QED BY <1>2, <2>1 DEF Dataset!Seen
<1>4. {examples[i] : i \in 1 .. n} = {examples[i] : i \in 1 .. n - 1} \cup {e}
  <2>1. 1 .. n = (1 .. n - 1) \cup {n}
    BY <1>2
  <2>2. QED BY <1>1, <2>1
<1>5. CASE Dataset!Seen(e, k)
  <2>1. e \in {k[i] : i \in 1 .. Len(k)}
    BY <1>3, <1>5
  <2>2. {k[i] : i \in 1 .. Len(k)} = {examples[i] : i \in 1 .. n}
    BY <1>4, <2>1 DEF DedupGood
  <2>3. \A i, j \in 1 .. Len(k) : k[i] = k[j] => i = j
    BY DEF DedupGood
  <2>4. Len(k) <= n
    BY <1>2
  <2>5. DedupGood(S, examples, k, n)
    BY <1>2, <2>2, <2>3, <2>4 DEF DedupGood
  <2>6. QED BY <1>1, <1>5, <2>5
<1>6. CASE ~Dataset!Seen(e, k)
  <2>1. PICK a : a = Append(k, e)
    OBVIOUS
  <2>2. /\ a \in Seq(S) /\ Len(a) = Len(k) + 1 /\ a[Len(k) + 1] = e
        /\ \A i \in 1 .. Len(k) : a[i] = k[i]
    BY <1>2, <2>1
  <2>3. \A i, j \in 1 .. Len(a) : a[i] = a[j] => i = j
    <3>1. \A i \in 1 .. Len(k) : a[i] # e
      BY <1>3, <1>6, <2>2
    <3>2. \A i \in 1 .. Len(a) : i \in 1 .. Len(k) \/ i = Len(k) + 1
      BY <1>2, <2>2
    <3>3. QED BY <2>2, <3>1, <3>2 DEF DedupGood
  <2>4. {a[i] : i \in 1 .. Len(a)} = {k[i] : i \in 1 .. Len(k)} \cup {e}
    <3>1. 1 .. Len(a) = (1 .. Len(k)) \cup {Len(k) + 1}
      BY <1>2, <2>2
    <3>2. QED BY <2>2, <3>1
  <2>5. {a[i] : i \in 1 .. Len(a)} = {examples[i] : i \in 1 .. n}
    BY <1>4, <2>4 DEF DedupGood
  <2>6. Len(a) <= n
    BY <1>2, <2>2
  <2>7. DedupGood(S, examples, a, n)
    BY <2>2, <2>3, <2>5, <2>6 DEF DedupGood
  <2>8. QED BY <1>1, <1>6, <2>1, <2>7
<1>7. QED BY <1>1, <1>5, <1>6

LEMMA DedupSound ==
    ASSUME NEW S, IsSample(S), NEW examples \in Seq(S)
    PROVE  DedupGood(S, examples, Dataset!Deduped(examples), Len(examples))
<1>1. PICK N \in Nat : N = Len(examples)
  OBVIOUS
<1>2. PICK K : DedupRule(examples, K) /\ Dataset!Deduped(examples) = K[N]
  BY <1>1, DedupIs
<1>3. \A n \in 0 .. N : K[n] = DedupStep(examples, K, n)
  BY <1>1, <1>2 DEF DedupRule
<1>4. PICK B \in SUBSET (0 .. N) : B = {n \in 0 .. N : ~DedupGood(S, examples, K[n], n)}
  OBVIOUS
<1>5. ASSUME B # {} PROVE FALSE
  <2>1. PICK n \in B : \A k \in B : n <= k
    BY <1>5, HasLeast
  <2>2. n \in 0 .. N /\ ~DedupGood(S, examples, K[n], n)
    BY <1>4
  <2>3. n # 0
    <3>1. SUFFICES ASSUME n = 0 PROVE FALSE
      OBVIOUS
    <3>2. K[0] = <<>>
      BY <1>3, <2>2, <3>1 DEF DedupStep
    <3>3. DedupGood(S, examples, <<>>, 0)
      BY DEF DedupGood
    <3>4. QED BY <2>2, <3>1, <3>2, <3>3
  <2>4. n \in 1 .. N /\ n - 1 \in 0 .. N /\ ~(n <= n - 1)
    BY <2>2, <2>3
  <2>5. PICK k : k = K[n - 1]
    OBVIOUS
  <2>6. DedupGood(S, examples, k, n - 1)
    BY <1>4, <2>1, <2>4, <2>5
  <2>7. K[n] = IF Dataset!Seen(examples[n], k) THEN k ELSE Append(k, examples[n])
    BY <1>3, <2>2, <2>3, <2>5 DEF DedupStep
  <2>8. QED BY <1>1, <2>2, <2>4, <2>6, <2>7, DedupKeeps
<1>6. DedupGood(S, examples, K[N], N)
  BY <1>4, <1>5
<1>7. QED BY <1>1, <1>2, <1>6

-----------------------------------------------------------------------------
(* Datasets.                                                               *)

LEMMA DatasetBegins ==
    ASSUME AdminInit, focus = "datasets"
    PROVE  Dataset!Init
BY DEF AdminInit, AdminFocus

LEMMA DatasetMoves ==
    ASSUME [AdminNext]_adminVars, focus' = "datasets"
    PROVE  focus = "datasets" /\ (Dataset!Next \/ UNCHANGED DatasetVars)
BY DEF AdminNext, AdminStays, adminVars

Methods == {"factual_qa", "reasoning_chains", "relation_extraction"}
ArcsIn(g) == {g[i] : i \in DOMAIN g}
Samples == Drafts \cup {Dataset!Extraction(a) : a \in UNION {ArcsIn(ArcsOf[MakerAgent[m]]) : m \in Makers}}

LEMMA SamplesArePairs == IsSample(Samples)
BY RecordAssumption DEF IsSample, IsPair, Samples, Dataset!Extraction

LEMMA CapIsNat == Dataset!Cap \in Nat
BY RecordAssumption DEF Dataset!Cap

\* What a strategy may add.
LEMMA OffersAreSamples ==
    ASSUME NEW m \in Makers, NEW strategy \in Methods, NEW more \in Dataset!Offers(strategy, Dataset!Graph(m))
    PROVE  more \in Seq(Samples)
<1>1. PICK g : g = ArcsOf[MakerAgent[m]]
  OBVIOUS
<1>2. g \in Seq(ArcsIn(g)) /\ Dataset!Graph(m) = g
  BY <1>1, RecordAssumption DEF ArcsIn, Dataset!Graph
<1>3. Dataset!Written \subseteq Seq(Samples)
  <2> SUFFICES ASSUME NEW n \in 0 .. Dataset!Cap, NEW w \in [1 .. n -> Drafts] PROVE w \in Seq(Samples)
    BY DEF Dataset!Written
  <2>1. n \in Nat /\ Drafts \subseteq Samples
    BY CapIsNat DEF Samples
  <2>2. QED BY <2>1
<1>4. CASE strategy \in {"factual_qa", "reasoning_chains"}
  <2>1. more \in Dataset!Written \/ more = <<>>
    BY <1>2, <1>4 DEF Dataset!Offers
  <2>2. <<>> \in Seq(Samples)
    OBVIOUS
  <2>3. QED BY <1>3, <2>1, <2>2
<1>5. CASE strategy = "relation_extraction"
  <2>1. PICK found : found = [i \in DOMAIN g |-> Dataset!Extraction(g[i])]
    OBVIOUS
  <2>2. PICK n : n = IF Len(g) < Dataset!Cap THEN Len(g) ELSE Dataset!Cap
    OBVIOUS
  <2>3. more = SubSeq(found, 1, n)
    BY <1>2, <1>5, <2>1, <2>2 DEF Dataset!Offers
  <2>4. n \in Int /\ n <= Len(g) /\ Len(g) \in Nat /\ DOMAIN g = 1 .. Len(g)
    BY <1>2, <2>2, CapIsNat
  <2>5. \A i \in 1 .. n : found[i] \in Samples
    <3> SUFFICES ASSUME NEW i \in 1 .. n PROVE found[i] \in Samples
      OBVIOUS
    <3>1. i \in DOMAIN g /\ found[i] = Dataset!Extraction(g[i])
      BY <2>1, <2>4
    <3>2. g[i] \in ArcsIn(ArcsOf[MakerAgent[m]])
      BY <1>1, <3>1 DEF ArcsIn
    <3>3. QED BY <3>1, <3>2 DEF Samples
  <2>6. QED BY <2>3, <2>4, <2>5, SubSeqProperties
<1>6. QED BY <1>4, <1>5 DEF Methods

MakerFields == {"at", "todo", "examples", "id", "total", "duplicates"}
MakerShaped(m) ==
    /\ DOMAIN maker[m] = MakerFields /\ maker[m].id \in 0 .. MaxSecond
    /\ maker[m].at \in {"asked", "missing", "running", "saved", "failed"}
    /\ maker[m].todo \in Seq(Methods)
    /\ maker[m].examples \in Seq(Samples) /\ Len(maker[m].examples) <= MaxExamples
DatasetShaped ==
    /\ second \in 0 .. MaxSecond /\ DOMAIN maker = Makers /\ DOMAIN fetched = Makers
    /\ DOMAIN fileOf = Dataset!Clients \X (0 .. MaxSecond)
    /\ \A m \in Makers : MakerShaped(m)

(* A file is the last of its name: it is by a request that was answered    *)
(* with its second, and holds as many lines as that request was told.      *)
By(f, agent, s) ==
    /\ f.by \in Makers /\ maker[f.by].at = "saved" /\ maker[f.by].id = s /\ MakerAgent[f.by] = agent
    /\ f.lines = Dataset!Deduped(maker[f.by].examples)
    /\ Len(f.lines) = maker[f.by].total
    /\ maker[f.by].duplicates = Len(maker[f.by].examples) - Len(f.lines)
FilesSound == \A p \in DOMAIN fileOf : fileOf[p] # NoFile => By(fileOf[p], p[1], p[2])
FetchSound(m) ==
    fetched[m] # NoFile =>
        /\ maker[m].at = "saved"
        /\ \E agent \in Dataset!Clients : /\ By(fetched[m].file, agent, maker[m].id)
                                          /\ fetched[m].admin \/ agent = MakerAgent[m]
DatasetInv == DatasetShaped /\ FilesSound /\ \A m \in Makers : FetchSound(m)

LEMMA DatasetInvInit == ASSUME Dataset!Init PROVE DatasetInv
<1>1. /\ second = 0 /\ fetched = [m \in Makers |-> NoFile]
      /\ maker = [m \in Makers |-> [at |-> "asked", todo |-> <<>>, examples |-> <<>>,
                                   id |-> 0, total |-> 0, duplicates |-> 0]]
  BY DEF Dataset!Init
<1>2. fileOf = [p \in Dataset!Clients \X (0 .. MaxSecond) |-> NoFile]
  BY DEF Dataset!Init
<1>3. DOMAIN fileOf = Dataset!Clients \X (0 .. MaxSecond)
  BY <1>2
<1>4. \A p \in DOMAIN fileOf : fileOf[p] = NoFile
  BY <1>2
<1>5. 0 \in 0 .. MaxSecond
  BY RecordAssumption
<1>6. \A m \in Makers : MakerShaped(m)
  <2>1. <<>> \in Seq(Methods) /\ <<>> \in Seq(Samples) /\ Len(<<>>) <= MaxExamples
    BY RecordAssumption
  <2>2. QED BY <1>1, <1>5, <2>1 DEF MakerShaped, MakerFields
<1>7. DatasetShaped
  BY <1>1, <1>3, <1>5, <1>6 DEF DatasetShaped
<1>8. FilesSound /\ \A m \in Makers : FetchSound(m)
  BY <1>1, <1>4 DEF FilesSound, FetchSound
<1>9. QED BY <1>7, <1>8 DEF DatasetInv

(* What was saved stays as it is.                                          *)
SavedStay == \A m \in Makers : maker[m].at = "saved" => maker'[m] = maker[m]

LEMMA ByStays ==
    ASSUME SavedStay
    PROVE  \A f, agent, s : By(f, agent, s) => By(f, agent, s)'
BY DEF SavedStay, By

LEMMA FetchStays ==
    ASSUME SavedStay, NEW m \in Makers, FetchSound(m), fetched'[m] = fetched[m]
    PROVE  FetchSound(m)'
<1>1. SUFFICES ASSUME fetched[m] # NoFile
      PROVE  /\ maker'[m].at = "saved"
             /\ \E agent \in Dataset!Clients : /\ By(fetched[m].file, agent, maker[m].id)'
                                               /\ fetched[m].admin \/ agent = MakerAgent[m]
  BY DEF FetchSound, By
<1>2. maker[m].at = "saved" /\ maker'[m] = maker[m]
  BY <1>1 DEF FetchSound, SavedStay
<1>3. PICK agent \in Dataset!Clients : /\ By(fetched[m].file, agent, maker[m].id)
                                       /\ fetched[m].admin \/ agent = MakerAgent[m]
  BY <1>1 DEF FetchSound
<1>4. PICK f, n : f = fetched[m].file /\ n = maker[m].id
  OBVIOUS
<1>5. By(f, agent, n)'
  BY <1>3, <1>4, ByStays, Zenon
<1>6. By(fetched[m].file, agent, maker[m].id)'
  BY <1>2, <1>4, <1>5 DEF By
<1>7. QED BY <1>2, <1>3, <1>6

\* A request moves before it is saved, and leaves the files alone.
LEMMA OneWorks ==
    ASSUME DatasetInv, NEW m \in Makers, maker[m].at # "saved", \A n \in Makers \ {m} : maker'[n] = maker[n],
           DOMAIN maker' = Makers, MakerShaped(m)', UNCHANGED <<second, fileOf, fetched>>
    PROVE  DatasetInv'
<1>1. DatasetShaped'
  BY DEF DatasetInv, DatasetShaped, MakerShaped
<1>2. SavedStay
  BY DEF SavedStay
<1>3. FilesSound'
  BY <1>2, ByStays DEF DatasetInv, FilesSound
<1>4. \A n \in Makers : FetchSound(n)'
  BY <1>2, FetchStays DEF DatasetInv
<1>5. QED BY <1>1, <1>3, <1>4 DEF DatasetInv

\* What a step before the last does to a request.
LEMMA WorkSound ==
    ASSUME DatasetInv, NEW m \in Makers, maker[m].at \in {"asked", "running"},
           UNCHANGED <<second, fileOf, fetched>>,
           NEW x \in {"missing", "running", "failed"}, NEW y \in Seq(Methods),
           NEW z \in Seq(Samples), Len(z) <= MaxExamples,
           maker' = [maker EXCEPT ![m] = [maker[m] EXCEPT !.at = x, !.todo = y, !.examples = z]]
    PROVE  DatasetInv'
<1>1. PICK r : r = maker[m]
  OBVIOUS
<1>2. PICK s : s = [r EXCEPT !.at = x, !.todo = y, !.examples = z]
  OBVIOUS
<1>3. DOMAIN r = MakerFields /\ r.id \in 0 .. MaxSecond /\ DOMAIN maker = Makers
  BY <1>1 DEF DatasetInv, DatasetShaped, MakerShaped
<1>4. DOMAIN s = MakerFields /\ s.at = x /\ s.id = r.id /\ s.todo = y /\ s.examples = z
  BY <1>2, <1>3 DEF MakerFields
<1>5. maker'[m] = s /\ DOMAIN maker' = Makers /\ \A n \in Makers \ {m} : maker'[n] = maker[n]
  BY <1>1, <1>2, <1>3
<1>6. MakerShaped(m)'
  BY <1>3, <1>4, <1>5 DEF MakerShaped, DatasetInv, DatasetShaped
<1>7. QED BY <1>5, <1>6, OneWorks

LEMMA SaveSound ==
    ASSUME DatasetInv, NEW m \in Makers, Dataset!Save(m)
    PROVE  DatasetInv'
<1>1. PICK lines : lines = Dataset!Deduped(maker[m].examples)
  OBVIOUS
<1>2. PICK r, n, d : r = maker[m] /\ n = Len(lines) /\ d = Len(maker[m].examples) - Len(lines)
  OBVIOUS
<1>3. PICK a \in Dataset!Clients : a = MakerAgent[m]
  BY DEF Dataset!Clients
<1>4. /\ r.at = "running" /\ UNCHANGED <<second, fetched>>
      /\ fileOf' = [fileOf EXCEPT ![<<a, second>>] = [by |-> m, lines |-> lines]]
      /\ maker' = [maker EXCEPT ![m].at = "saved", ![m].id = second, ![m].total = n, ![m].duplicates = d]
  BY <1>1, <1>2, <1>3 DEF Dataset!Save, Dataset!PathOf
<1>5. DOMAIN maker = Makers /\ DOMAIN r = MakerFields /\ second \in 0 .. MaxSecond
  BY <1>2 DEF DatasetInv, DatasetShaped, MakerShaped
<1>6. PICK s : s = [r EXCEPT !.at = "saved", !.id = second, !.total = n, !.duplicates = d]
  OBVIOUS
<1>7. /\ DOMAIN s = MakerFields /\ s.at = "saved" /\ s.id = second /\ s.total = n /\ s.duplicates = d
      /\ s.todo = r.todo /\ s.examples = r.examples
  BY <1>5, <1>6 DEF MakerFields
<1>8. maker'[m] = s /\ DOMAIN maker' = Makers /\ \A k \in Makers \ {m} : maker'[k] = maker[k]
  BY <1>2, <1>4, <1>5, <1>6
<1>9. DOMAIN fileOf' = DOMAIN fileOf /\ <<a, second>> \in DOMAIN fileOf
  BY <1>4, <1>5 DEF DatasetInv, DatasetShaped
<1>10. DatasetShaped'
  <2>1. \A k \in Makers : MakerShaped(k)'
    BY <1>2, <1>5, <1>7, <1>8 DEF DatasetInv, DatasetShaped, MakerShaped
  <2>2. QED BY <1>4, <1>8, <1>9, <2>1 DEF DatasetInv, DatasetShaped
<1>11. SavedStay
  BY <1>2, <1>4, <1>8 DEF SavedStay
<1>12. FilesSound'
  <2> SUFFICES ASSUME NEW p \in DOMAIN fileOf, fileOf'[p] # NoFile PROVE By(fileOf[p], p[1], p[2])'
    BY <1>9 DEF FilesSound, By
  <2>1. CASE p = <<a, second>>
    <3>1. fileOf'[p] = [by |-> m, lines |-> lines] /\ p[1] = a /\ p[2] = second
      BY <1>4, <1>9, <2>1
    <3>2. fileOf'[p].by = m /\ Len(fileOf'[p].lines) = n
      BY <1>2, <3>1
    <3>3. maker'[m].at = "saved" /\ maker'[m].id = p[2] /\ MakerAgent[m] = p[1] /\ maker'[m].total = n
      BY <1>3, <1>7, <1>8, <3>1
    <3>4. PICK f : f = fileOf'[p]
      OBVIOUS
    <3>5. f.lines = Dataset!Deduped(maker'[m].examples)
      BY <1>1, <1>2, <1>7, <1>8, <3>1, <3>4
    <3>6. maker'[m].duplicates = Len(maker'[m].examples) - Len(f.lines)
      BY <1>2, <1>7, <1>8, <3>1, <3>4
    <3>7. f.by = m /\ Len(f.lines) = n
      BY <3>2, <3>4
    <3>8. By(f, p[1], p[2])'
      BY <3>3, <3>5, <3>6, <3>7 DEF By
    <3>9. QED BY <3>4, <3>8 DEF By
  <2>2. CASE p # <<a, second>>
    <3>1. fileOf'[p] = fileOf[p]
      BY <1>4, <2>2
    <3>2. By(fileOf[p], p[1], p[2])
      BY <3>1 DEF DatasetInv, FilesSound
    <3>3. PICK f, x, y : f = fileOf[p] /\ x = p[1] /\ y = p[2]
      OBVIOUS
    <3>4. By(f, x, y)'
      BY <1>11, <3>2, <3>3, ByStays, Zenon
    <3>5. QED BY <3>1, <3>3, <3>4 DEF By
  <2>3. QED BY <2>1, <2>2
<1>13. \A k \in Makers : FetchSound(k)'
  BY <1>4, <1>11, FetchStays DEF DatasetInv
<1>14. QED BY <1>10, <1>12, <1>13 DEF DatasetInv

LEMMA DownloadSound ==
    ASSUME DatasetInv, NEW m \in Makers, Dataset!Download(m)
    PROVE  DatasetInv'
<1>1. PICK admin, f : admin \in BOOLEAN /\ f \in Dataset!Candidates(m, admin) /\
         fetched' = [fetched EXCEPT ![m] = [file |-> f, admin |-> admin]]
  BY DEF Dataset!Download
<1>2. maker[m].at = "saved" /\ UNCHANGED <<second, maker, fileOf>>
  BY DEF Dataset!Download
<1>3. PICK n \in 0 .. MaxSecond : n = maker[m].id
  BY DEF DatasetInv, DatasetShaped, MakerShaped
<1>4. PICK agent \in Dataset!Clients : f = fileOf[<<agent, n>>] /\ f # NoFile /\ (admin \/ agent = MakerAgent[m])
  <2>1. MakerAgent[m] \in Dataset!Clients
    BY DEF Dataset!Clients
  <2>2. QED BY <1>1, <1>3, <2>1 DEF Dataset!Candidates, Dataset!PathOf
<1>5. By(f, agent, n)
  <2>1. PICK p \in DOMAIN fileOf : p = <<agent, n>> /\ p[1] = agent /\ p[2] = n
    BY <1>3, <1>4 DEF DatasetInv, DatasetShaped
  <2>2. QED BY <1>4, <2>1 DEF DatasetInv, FilesSound
<1>6. DatasetShaped' /\ FilesSound'
  <2>1. DOMAIN fetched' = Makers
    BY <1>1 DEF DatasetInv, DatasetShaped
  <2>2. QED BY <1>2, <2>1 DEF DatasetInv, DatasetShaped, MakerShaped, FilesSound, By
<1>7. SavedStay
  BY <1>2 DEF SavedStay
<1>8. ASSUME NEW k \in Makers PROVE FetchSound(k)'
  <2>1. CASE k # m
    <3>1. fetched'[k] = fetched[k]
      BY <1>1, <2>1
    <3>2. QED BY <1>7, <3>1, FetchStays DEF DatasetInv
  <2>2. CASE k = m
    <3>1. fetched'[m].file = f /\ fetched'[m].admin = admin /\ maker'[m].at = "saved" /\ maker'[m].id = n
      BY <1>1, <1>2, <1>3 DEF DatasetInv, DatasetShaped
    <3>2. By(f, agent, n)'
      BY <1>5, <1>7, ByStays, Zenon
    <3>3. QED BY <1>4, <2>2, <3>1, <3>2 DEF FetchSound
  <2>3. QED BY <2>1, <2>2
<1>9. QED BY <1>6, <1>8 DEF DatasetInv

LEMMA DatasetStep ==
    ASSUME DatasetInv, Dataset!Next \/ UNCHANGED DatasetVars
    PROVE  DatasetInv'
<1>1. CASE Dataset!Tick \/ UNCHANGED DatasetVars
  <2>1. UNCHANGED <<maker, fileOf, fetched>> /\ second' \in 0 .. MaxSecond
    BY <1>1, RecordAssumption DEF Dataset!Tick, DatasetVars, DatasetInv, DatasetShaped
  <2>2. QED BY <2>1 DEF DatasetInv, DatasetShaped, MakerShaped, FilesSound, FetchSound, By
<1>2. ASSUME NEW m \in Makers, Dataset!Missing(m) \/ Dataset!Probe(m) \/ Dataset!RunStrategy(m) \/ Dataset!Fails(m)
      PROVE  DatasetInv'
  <2>1. PICK r : r = maker[m]
    OBVIOUS
  <2>2. DOMAIN maker = Makers /\ DOMAIN r = MakerFields
    BY <2>1 DEF DatasetInv, DatasetShaped, MakerShaped
  <2>3. CASE Dataset!Missing(m)
    <3>1. maker' = [maker EXCEPT ![m] = [r EXCEPT !.at = "missing", !.todo = r.todo, !.examples = r.examples]]
      BY <2>1, <2>2, <2>3 DEF Dataset!Missing, MakerFields
    <3>2. r.at = "asked" /\ UNCHANGED <<second, fileOf, fetched>>
      BY <2>1, <2>3 DEF Dataset!Missing
    <3>3. r.todo \in Seq(Methods) /\ r.examples \in Seq(Samples) /\ Len(r.examples) <= MaxExamples
      BY <2>1 DEF DatasetInv, DatasetShaped, MakerShaped
    <3>4. QED BY <2>1, <3>1, <3>2, <3>3, WorkSound
  <2>4. CASE Dataset!Probe(m)
    <3>1. PICK y \in {Dataset!Strategies} \cup {<<Dataset!Strategies[i]>> : i \in DOMAIN Dataset!Strategies} : maker' = [maker EXCEPT ![m].at = "running", ![m].todo = y]
      BY <2>4 DEF Dataset!Probe
    <3>2. maker' = [maker EXCEPT ![m] = [r EXCEPT !.at = "running", !.todo = y, !.examples = r.examples]]
      BY <2>1, <2>2, <3>1 DEF MakerFields
    <3>3. r.at = "asked" /\ UNCHANGED <<second, fileOf, fetched>>
      BY <2>1, <2>4 DEF Dataset!Probe
    <3>4. y \in Seq(Methods)
      <4>1. Dataset!Strategies \in Seq(Methods)
        BY DEF Dataset!Strategies, Methods
      <4>2. \A i \in DOMAIN Dataset!Strategies : <<Dataset!Strategies[i]>> \in Seq(Methods)
        BY <4>1
      <4>3. QED BY <4>1, <4>2
    <3>5. r.examples \in Seq(Samples) /\ Len(r.examples) <= MaxExamples
      BY <2>1 DEF DatasetInv, DatasetShaped, MakerShaped
    <3>6. QED BY <2>1, <3>2, <3>3, <3>4, <3>5, WorkSound
  <2>5. CASE Dataset!RunStrategy(m)
    <3>1. r.todo \in Seq(Methods) /\ r.todo # <<>> /\ r.examples \in Seq(Samples)
      BY <2>1, <2>5 DEF Dataset!RunStrategy, DatasetInv, DatasetShaped, MakerShaped
    <3>2. PICK more \in Dataset!Offers(Head(r.todo), Dataset!Graph(m)) :
             LET all == r.examples \o more
                 full == Len(all) >= MaxExamples
             IN  maker' = [maker EXCEPT
                     ![m].examples = IF full THEN SubSeq(all, 1, MaxExamples) ELSE all,
                     ![m].todo = IF full THEN <<>> ELSE Tail(@)]
      BY <2>1, <2>5 DEF Dataset!RunStrategy
    <3>3. PICK all : all = r.examples \o more
      OBVIOUS
    <3>4. all \in Seq(Samples) /\ Len(all) \in Nat /\ MaxExamples \in Nat
      <4>1. Head(r.todo) \in Methods
        BY <3>1
      <4>2. more \in Seq(Samples)
        BY <4>1, OffersAreSamples
      <4>3. QED BY <3>1, <3>3, <4>2, RecordAssumption
    <3>5. PICK y, z : /\ y = (IF Len(all) >= MaxExamples THEN <<>> ELSE Tail(r.todo))
                       /\ z = (IF Len(all) >= MaxExamples THEN SubSeq(all, 1, MaxExamples) ELSE all)
      OBVIOUS
    <3>6. y \in Seq(Methods)
      BY <3>1, <3>5
    <3>7. z \in Seq(Samples) /\ Len(z) <= MaxExamples
      <4>1. CASE Len(all) >= MaxExamples
        <5>1. \A i \in 1 .. MaxExamples : all[i] \in Samples
          BY <3>4, <4>1
        <5>2. SubSeq(all, 1, MaxExamples) \in Seq(Samples) /\ Len(SubSeq(all, 1, MaxExamples)) <= MaxExamples
          BY <3>4, <5>1, SubSeqProperties
        <5>3. QED BY <3>5, <4>1, <5>2
      <4>2. CASE ~(Len(all) >= MaxExamples)
        BY <3>4, <3>5, <4>2
      <4>3. QED BY <4>1, <4>2
    <3>8. maker' = [maker EXCEPT ![m].examples = z, ![m].todo = y]
      BY <2>1, <2>2, <3>2, <3>3, <3>5
    <3>9. r.at = "running" /\ UNCHANGED <<second, fileOf, fetched>>
      BY <2>1, <2>5 DEF Dataset!RunStrategy
    <3>10. maker' = [maker EXCEPT ![m] = [r EXCEPT !.at = "running", !.todo = y, !.examples = z]]
      BY <2>1, <2>2, <3>8, <3>9 DEF MakerFields
    <3>11. QED BY <2>1, <3>9, <3>10, <3>6, <3>7, WorkSound
  <2>6. CASE Dataset!Fails(m)
    <3>1. maker' = [maker EXCEPT ![m] = [r EXCEPT !.at = "failed", !.todo = <<>>, !.examples = <<>>]]
      BY <2>1, <2>6 DEF Dataset!Fails
    <3>2. r.at \in {"asked", "running"} /\ UNCHANGED <<second, fileOf, fetched>>
      BY <2>1, <2>6 DEF Dataset!Fails
    <3>3. <<>> \in Seq(Methods) /\ <<>> \in Seq(Samples) /\ Len(<<>>) <= MaxExamples
      BY RecordAssumption
    <3>4. QED BY <2>1, <3>1, <3>2, <3>3, WorkSound
  <2>7. QED BY <1>2, <2>3, <2>4, <2>5, <2>6
<1>3. QED BY <1>1, <1>2, SaveSound, DownloadSound DEF Dataset!Next

LEMMA DatasetKept == AdminSpec => [](focus = "datasets" => DatasetInv)
<1>1. AdminInit => (focus = "datasets" => DatasetInv)
  BY DatasetBegins, DatasetInvInit
<1>2. (focus = "datasets" => DatasetInv) /\ [AdminNext]_adminVars => (focus = "datasets" => DatasetInv)'
  BY DatasetMoves, DatasetStep
<1>3. QED BY <1>1, <1>2, PTL DEF AdminSpec

LEMMA IdsLead == DatasetInv => Dataset!IdLeadsBack
<1> SUFFICES ASSUME DatasetInv, NEW m \in Makers, fetched[m] # NoFile
             PROVE  LET f == fetched[m].file
                        rivals == {n \in Dataset!SavedWith(m) : fetched[m].admin \/ MakerAgent[n] = MakerAgent[m]}
                    IN  /\ f.by \in rivals \union {m}
                        /\ f.by = m => Len(f.lines) = maker[m].total
  BY DEF Dataset!IdLeadsBack
<1>1. PICK f : f = fetched[m].file
  OBVIOUS
<1>2. PICK agent \in Dataset!Clients : By(f, agent, maker[m].id) /\ (fetched[m].admin \/ agent = MakerAgent[m])
  BY <1>1 DEF DatasetInv, FetchSound
<1>3. f.by = m \/ (f.by \in Dataset!SavedWith(m) /\ (fetched[m].admin \/ MakerAgent[f.by] = MakerAgent[m]))
  BY <1>2 DEF By, Dataset!SavedWith
<1>4. f.by = m => Len(f.lines) = maker[m].total
  BY <1>2 DEF By
<1>5. QED BY <1>1, <1>3, <1>4

LEMMA RepeatsOnly == DatasetInv => Dataset!DatasetIsDistinct
<1> SUFFICES ASSUME DatasetInv, NEW p \in DOMAIN fileOf, fileOf[p] # NoFile
             PROVE  LET f == fileOf[p]
                    IN  /\ Dataset!IsInjective(f.lines)
                        /\ Dataset!ToSet(f.lines) = Dataset!ToSet(maker[f.by].examples)
                        /\ Len(f.lines) + maker[f.by].duplicates = Len(maker[f.by].examples)
  BY DEF Dataset!DatasetIsDistinct
<1>1. PICK f : f = fileOf[p]
  OBVIOUS
<1>2. By(f, p[1], p[2])
  BY <1>1 DEF DatasetInv, FilesSound
<1>3. PICK all, lines : all = maker[f.by].examples /\ lines = f.lines
  OBVIOUS
<1>4. all \in Seq(Samples) /\ lines = Dataset!Deduped(all) /\ maker[f.by].duplicates = Len(all) - Len(lines)
  BY <1>2, <1>3 DEF By, DatasetInv, DatasetShaped, MakerShaped
<1>5. DedupGood(Samples, all, lines, Len(all))
  BY <1>4, DedupSound, SamplesArePairs
<1>6. lines \in Seq(Samples) /\ DOMAIN lines = 1 .. Len(lines) /\ DOMAIN all = 1 .. Len(all)
  BY <1>4, <1>5 DEF DedupGood
<1>7. Dataset!IsInjective(lines)
  BY <1>5, <1>6 DEF DedupGood, Dataset!IsInjective
<1>8. Dataset!ToSet(lines) = Dataset!ToSet(all)
  BY <1>5, <1>6 DEF DedupGood, Dataset!ToSet
<1>9. Len(lines) + maker[f.by].duplicates = Len(all)
  BY <1>4, <1>6
<1>10. QED BY <1>1, <1>3, <1>7, <1>8, <1>9

-----------------------------------------------------------------------------
(* The process never has two connected replay producers and the list of    *)
(* runs covers the log read before it (services/replay_service.py,         *)
(* api/v1/replay.py); a dataset id leads back to the dataset it was        *)
(* answered for, and deduplication removes only repeats                    *)
(* (api/v1/synthesize.py, services/synthesizer.py).                        *)
THEOREM RecordsFound == AdminSpec => []RecordsAreFound
<1>1. /\ focus = "replay" => ReplayInv
      /\ focus = "replay" => LogInv
      /\ focus = "datasets" => DatasetInv
      => RecordsAreFound
  BY OneRuns, IdsLead, RepeatsOnly DEF RecordsAreFound, LogInv
<1>2. QED BY <1>1, ReplayKept, LogKept, DatasetKept, PTL

-----------------------------------------------------------------------------
(* The types of the plane.  A bucket never exceeds the number of calls:    *)
(* the calls can be assigned to the buckets they have been counted in, so  *)
(* that two buckets share a call only when the inner one, entered later,   *)
(* has handed its total on.                                                *)

SharedUpward(A, N, d, e) ==
    A[d] \cap A[e] # {} => (Llm!Ended(d) /\ N[e] < N[d]) \/ (Llm!Ended(e) /\ N[d] < N[e])

Assigned(A, N) ==
    /\ A \in [Blocks -> SUBSET paid] /\ N \in [Blocks -> Nat]
    /\ \A d \in Blocks : bucket[d] = Cardinality(A[d])
    /\ \A d \in Blocks : blockState[d] = "new" => A[d] = {}
    /\ \A d \in Blocks : blockState[d] # "new" /\ ParentOf[d] # NoBlock
                            => blockState[ParentOf[d]] # "new" /\ N[ParentOf[d]] < N[d]
    /\ \A d, e \in Blocks : d # e => SharedUpward(A, N, d, e)

CalledInside == \A c \in Completions : retry[c].pc # "new" => blockState[CalledIn[c]] # "new"
RetryTyped == retry \in [Completions -> [pc : {"new", "calling", "waiting", "answered", "raised"},
                                         tries : 0 .. MaxTries]]
BucketInv == LlmInv /\ CalledInside /\ RetryTyped /\ \E A, N : Assigned(A, N)

LEMMA BucketInvInit == ASSUME Llm!Init PROVE BucketInv
<1>1. LlmInv
  BY LlmInvInit
<1>2. CalledInside
  BY DEF CalledInside, Llm!Init
<1>3. PICK A, N : A = [b \in Blocks |-> {}] /\ N = [b \in Blocks |-> 0]
  OBVIOUS
<1>4. Cardinality({}) = 0
  BY FS_EmptySet
<1>5. Assigned(A, N)
  BY <1>3, <1>4 DEF Llm!Init, Assigned, SharedUpward
<1>6. RetryTyped
  BY CallAssumption DEF RetryTyped, Llm!Init
<1>7. QED BY <1>1, <1>2, <1>5, <1>6 DEF BucketInv

LEMMA BucketsStay ==
    ASSUME NEW A, NEW N, Assigned(A, N), UNCHANGED <<blockState, bucket, paid>>
    PROVE  Assigned(A, N)'
BY DEF Assigned, SharedUpward, Llm!Ended

LEMMA BucketEnter ==
    ASSUME LlmInv, NEW A, NEW N, Assigned(A, N), NEW b \in Blocks, Llm!Enter(b)
    PROVE  \E M : Assigned(A, M)'
<1>1. /\ blockState[b] = "new" /\ blockState' = [blockState EXCEPT ![b] = "open"]
      /\ UNCHANGED <<bucket, paid>> /\ \A d \in Blocks \cap {ParentOf[b]} : blockState[d] = "open"
  BY DEF Llm!Enter
<1>2. blockState \in [Blocks -> {"new", "open", "closed"}] /\ ParentOf \in [Blocks -> Blocks \cup {NoBlock}]
  BY CallAssumption DEF LlmInv, LlmTyped
<1>3. N \in [Blocks -> Nat] /\ A[b] = {}
  BY <1>1 DEF Assigned
<1>4. PICK M : M = [N EXCEPT ![b] = IF ParentOf[b] = NoBlock THEN 0 ELSE N[ParentOf[b]] + 1]
  OBVIOUS
<1>5. M \in [Blocks -> Nat] /\ \A d \in Blocks \ {b} : M[d] = N[d]
  BY <1>2, <1>3, <1>4
<1>6. \A d \in Blocks : Llm!Ended(d)' = Llm!Ended(d)
  BY <1>1, <1>2 DEF Llm!Ended
<1>7. ASSUME NEW d \in Blocks, blockState'[d] # "new", ParentOf[d] # NoBlock
      PROVE  blockState'[ParentOf[d]] # "new" /\ M[ParentOf[d]] < M[d]
  <2>1. PICK p \in Blocks : p = ParentOf[d]
    BY <1>2, <1>7
  <2>2. CASE d = b
    <3>1. blockState[p] = "open" /\ p # b
      BY <1>1, <2>1, <2>2
    <3>2. M[b] = N[p] + 1 /\ M[p] = N[p] /\ N[p] \in Nat
      BY <1>3, <1>4, <1>5, <1>7, <2>1, <2>2, <3>1
    <3>3. QED BY <1>1, <1>2, <2>1, <2>2, <3>1, <3>2
  <2>3. CASE d # b
    <3>1. blockState[d] # "new"
      BY <1>1, <1>2, <1>7, <2>3
    <3>2. blockState[p] # "new" /\ N[p] < N[d]
      BY <1>7, <2>1, <3>1 DEF Assigned
    <3>3. p # b
      BY <1>1, <3>2
    <3>4. QED BY <1>1, <1>2, <1>5, <2>1, <2>3, <3>2, <3>3
  <2>4. QED BY <2>2, <2>3
<1>8. ASSUME NEW d \in Blocks, NEW e \in Blocks, d # e PROVE SharedUpward(A, M, d, e)'
  <2>1. SharedUpward(A, N, d, e)
    BY <1>8 DEF Assigned
  <2>2. d = b \/ e = b => A[d] \cap A[e] = {}
    BY <1>3
  <2>3. QED BY <1>5, <1>6, <2>1, <2>2 DEF SharedUpward
<1>9. \A d \in Blocks : blockState'[d] = "new" => blockState[d] = "new"
  BY <1>1, <1>2
<1>10. Assigned(A, M)'
  <2>1. A \in [Blocks -> SUBSET paid'] /\ \A d \in Blocks : bucket'[d] = Cardinality(A[d])
    BY <1>1 DEF Assigned
  <2>2. \A d \in Blocks : blockState'[d] = "new" => A[d] = {}
    BY <1>9 DEF Assigned
  <2>3. QED BY <1>5, <1>7, <1>8, <2>1, <2>2 DEF Assigned
<1>11. QED BY <1>10

LEMMA BucketLeave ==
    ASSUME LlmInv, NEW A, NEW N, Assigned(A, N), NEW b \in Blocks, Llm!Leave(b)
    PROVE  \E B : Assigned(B, N)'
<1>1. /\ blockState[b] = "open" /\ blockState' = [blockState EXCEPT ![b] = "closed"] /\ UNCHANGED paid
  BY DEF Llm!Leave
<1>2. /\ blockState \in [Blocks -> {"new", "open", "closed"}] /\ bucket \in [Blocks -> Nat]
      /\ ParentOf \in [Blocks -> Blocks \cup {NoBlock}]
  BY CallAssumption DEF LlmInv, LlmTyped
<1>3. A \in [Blocks -> SUBSET paid] /\ N \in [Blocks -> Nat] /\ ~Llm!Ended(b)
  BY <1>1 DEF Assigned, Llm!Ended
<1>4. \A d \in Blocks : blockState'[d] = "new" <=> blockState[d] = "new"
  BY <1>1, <1>2
<1>5. \A d \in Blocks : Llm!Ended(d) => Llm!Ended(d)'
  BY <1>1, <1>2 DEF Llm!Ended
<1>6. CASE ParentOf[b] = NoBlock
  <2>1. bucket' = bucket
    BY <1>6 DEF Llm!Leave
  <2>2. \A d, e \in Blocks : d # e => SharedUpward(A, N, d, e)'
    BY <1>5 DEF Assigned, SharedUpward
  <2>3. \A d \in Blocks : blockState'[d] # "new" /\ ParentOf[d] # NoBlock
                            => blockState'[ParentOf[d]] # "new" /\ N[ParentOf[d]] < N[d]
    BY <1>2, <1>4 DEF Assigned
  <2>4. Assigned(A, N)'
    BY <1>1, <1>4, <2>1, <2>2, <2>3 DEF Assigned
  <2>5. QED BY <2>4
<1>7. CASE ParentOf[b] # NoBlock
  <2>1. PICK p \in Blocks : p = ParentOf[b]
    BY <1>2, <1>7
  <2>2. blockState[p] # "new" /\ N[p] < N[b] /\ p # b
    <3>1. blockState[p] # "new" /\ N[p] < N[b]
      BY <1>1, <1>7, <2>1 DEF Assigned
    <3>2. N[p] \in Nat /\ N[b] \in Nat
      BY <1>3
    <3>3. QED BY <3>1, <3>2
  <2>3. bucket' = [bucket EXCEPT ![p] = @ + bucket[b]]
    BY <1>7, <2>1 DEF Llm!Leave, Llm!RolledUp
  <2>4. PICK B : B = [A EXCEPT ![p] = A[p] \cup A[b]]
    OBVIOUS
  <2>5. B \in [Blocks -> SUBSET paid] /\ B[p] = A[p] \cup A[b] /\ \A d \in Blocks \ {p} : B[d] = A[d]
    BY <1>3, <2>4
  <2>6. A[p] \cap A[b] = {}
    <3>1. SharedUpward(A, N, b, p)
      BY <2>2 DEF Assigned
    <3>2. N[p] \in Nat /\ N[b] \in Nat
      BY <1>3
    <3>3. QED BY <1>3, <2>2, <3>1, <3>2 DEF SharedUpward
  <2>7. Cardinality(B[p]) = Cardinality(A[p]) + Cardinality(A[b])
    <3>1. A[p] \subseteq paid /\ A[b] \subseteq paid /\ IsFiniteSet(paid)
      BY <1>3, LlmFinite DEF LlmInv
    <3>2. IsFiniteSet(A[p]) /\ IsFiniteSet(A[b])
      BY <3>1, FS_Subset
    <3>3. Cardinality(A[p] \cap A[b]) = 0
      BY <2>6, FS_EmptySet
    <3>4. Cardinality(A[p] \cup A[b]) = Cardinality(A[p]) + Cardinality(A[b]) - Cardinality(A[p] \cap A[b])
      BY <3>2, FS_Union
    <3>5. Cardinality(A[p]) \in Nat /\ Cardinality(A[b]) \in Nat
      BY <3>2, FS_CardinalityType
    <3>6. QED BY <2>5, <3>3, <3>4, <3>5
  <2>8. \A d \in Blocks : bucket'[d] = Cardinality(B[d])
    <3>1. \A d \in Blocks : bucket[d] = Cardinality(A[d])
      BY DEF Assigned
    <3>2. bucket'[p] = bucket[p] + bucket[b] /\ \A d \in Blocks \ {p} : bucket'[d] = bucket[d]
      BY <1>2, <2>3
    <3>3. QED BY <2>5, <2>7, <3>1, <3>2
  <2>9. Llm!Ended(b)'
    BY <1>1, <1>2, <1>7 DEF Llm!Ended
  <2>10. ASSUME NEW e \in Blocks, e # p PROVE SharedUpward(B, N, p, e)'
    <3>1. \A d \in Blocks : N[d] \in Nat
      BY <1>3
    <3>2. CASE e = b
      BY <2>2, <2>9, <3>2 DEF SharedUpward
    <3>3. CASE e # b
      <4>1. SharedUpward(A, N, p, e) /\ SharedUpward(A, N, b, e)
        BY <2>10, <3>3 DEF Assigned
      <4>2. B[p] \cap B[e] # {} => A[p] \cap A[e] # {} \/ A[b] \cap A[e] # {}
        BY <2>5, <2>10
      <4>3. CASE A[p] \cap A[e] # {}
        BY <1>5, <4>1, <4>3 DEF SharedUpward
      <4>4. CASE A[b] \cap A[e] # {}
        <5>1. Llm!Ended(e) /\ N[b] < N[e]
          BY <1>3, <4>1, <4>4 DEF SharedUpward
        <5>2. N[p] < N[e]
          BY <2>2, <3>1, <5>1
        <5>3. QED BY <1>5, <5>1, <5>2 DEF SharedUpward
      <4>5. QED BY <4>2, <4>3, <4>4 DEF SharedUpward
    <3>4. QED BY <3>2, <3>3
  <2>11. ASSUME NEW d \in Blocks, NEW e \in Blocks, d # e PROVE SharedUpward(B, N, d, e)'
    <3>1. CASE d = p
      BY <2>10, <2>11, <3>1
    <3>2. CASE e = p
      <4>1. SharedUpward(B, N, p, d)'
        BY <2>10, <2>11, <3>2
      <4>2. B[d] \cap B[p] = B[p] \cap B[d]
        OBVIOUS
      <4>3. QED BY <3>2, <4>1, <4>2 DEF SharedUpward
    <3>3. CASE d # p /\ e # p
      <4>1. SharedUpward(A, N, d, e)
        BY <2>11 DEF Assigned
      <4>2. B[d] = A[d] /\ B[e] = A[e]
        BY <2>5, <3>3
      <4>3. QED BY <1>5, <4>1, <4>2 DEF SharedUpward
    <3>4. QED BY <3>1, <3>2, <3>3
  <2>12. \A d \in Blocks : blockState'[d] = "new" => B[d] = {}
    <3>1. \A d \in Blocks : blockState[d] = "new" => d # p /\ A[d] = {}
      BY <2>2 DEF Assigned
    <3>2. QED BY <1>4, <2>5, <3>1
  <2>13. \A d \in Blocks : blockState'[d] # "new" /\ ParentOf[d] # NoBlock
                            => blockState'[ParentOf[d]] # "new" /\ N[ParentOf[d]] < N[d]
    BY <1>2, <1>4 DEF Assigned
  <2>14. B \in [Blocks -> SUBSET paid']
    BY <1>1, <2>5
  <2>15. Assigned(B, N)'
    BY <1>3, <2>8, <2>11, <2>12, <2>13, <2>14 DEF Assigned
  <2>16. QED BY <2>15
<1>8. QED BY <1>6, <1>7

LEMMA BucketSucceed ==
    ASSUME LlmInv, CalledInside, NEW A, NEW N, Assigned(A, N), NEW c \in Completions, Llm!Succeed(c)
    PROVE  \E B : Assigned(B, N)'
<1>1. PICK b \in Blocks : b = CalledIn[c]
  BY CallAssumption
<1>2. /\ retry[c].pc = "calling" /\ paid' = paid \cup {c} /\ bucket' = [bucket EXCEPT ![b] = @ + 1]
      /\ blockState' = blockState
  BY <1>1 DEF Llm!Succeed, Llm!Recorded
<1>3. c \notin paid /\ blockState[b] # "new" /\ bucket \in [Blocks -> Nat]
  BY <1>1, <1>2 DEF LlmInv, LlmTyped, Charged, CalledInside
<1>4. A \in [Blocks -> SUBSET paid] /\ N \in [Blocks -> Nat]
  BY DEF Assigned
<1>5. PICK B : B = [A EXCEPT ![b] = A[b] \cup {c}]
  OBVIOUS
<1>6. B \in [Blocks -> SUBSET paid'] /\ B[b] = A[b] \cup {c} /\ \A d \in Blocks \ {b} : B[d] = A[d]
  BY <1>2, <1>4, <1>5
<1>7. Cardinality(B[b]) = Cardinality(A[b]) + 1
  <2>1. IsFiniteSet(A[b]) /\ c \notin A[b]
    <3>1. A[b] \subseteq paid
      BY <1>4
    <3>2. QED BY <1>3, <3>1, LlmFinite, FS_Subset DEF LlmInv
  <2>2. QED BY <1>6, <2>1, FS_AddElement
<1>8. \A d \in Blocks : bucket'[d] = Cardinality(B[d])
  <2>1. \A d \in Blocks : bucket[d] = Cardinality(A[d])
    BY DEF Assigned
  <2>2. bucket'[b] = bucket[b] + 1 /\ \A d \in Blocks \ {b} : bucket'[d] = bucket[d]
    BY <1>2, <1>3
  <2>3. QED BY <1>6, <1>7, <2>1, <2>2
<1>9. \A d, e \in Blocks : d # e => SharedUpward(B, N, d, e)'
  <2>1. \A d, e \in Blocks : d # e => B[d] \cap B[e] = A[d] \cap A[e]
    <3>1. \A d \in Blocks : c \notin A[d]
      BY <1>3, <1>4
    <3>2. QED BY <1>6, <3>1
  <2>2. \A d, e \in Blocks : d # e => SharedUpward(A, N, d, e)
    BY DEF Assigned
  <2>3. QED BY <1>2, <2>1, <2>2 DEF SharedUpward, Llm!Ended
<1>10. Assigned(B, N)'
  <2>1. \A d \in Blocks : blockState'[d] = "new" => B[d] = {}
    BY <1>2, <1>3, <1>6 DEF Assigned
  <2>2. \A d \in Blocks : blockState'[d] # "new" /\ ParentOf[d] # NoBlock
                            => blockState'[ParentOf[d]] # "new" /\ N[ParentOf[d]] < N[d]
    BY <1>2 DEF Assigned
  <2>3. QED BY <1>4, <1>6, <1>8, <1>9, <2>1, <2>2 DEF Assigned
<1>11. QED BY <1>10

LEMMA CalledInsideStep ==
    ASSUME LlmInv, CalledInside, Llm!Next \/ UNCHANGED LlmVars
    PROVE  CalledInside'
<1>1. blockState \in [Blocks -> {"new", "open", "closed"}] /\ DOMAIN retry = Completions
      /\ CalledIn \in [Completions -> Blocks]
  BY CallAssumption DEF LlmInv, LlmTyped
<1>2. CASE UNCHANGED LlmVars
  BY <1>2 DEF CalledInside, LlmVars
<1>3. ASSUME NEW b \in Blocks, Llm!Enter(b) \/ Llm!Leave(b) PROVE CalledInside'
  <2>1. retry' = retry /\ \A d \in Blocks : blockState'[d] = "new" => blockState[d] = "new"
    BY <1>1, <1>3 DEF Llm!Enter, Llm!Leave
  <2>2. QED BY <1>1, <2>1 DEF CalledInside
<1>4. ASSUME NEW c \in Completions, Llm!Call(c) \/ Llm!Work(c) PROVE CalledInside'
  <2>1. blockState' = blockState /\ \A d \in Completions \ {c} : retry'[d] = retry[d]
    BY <1>1, <1>4 DEF Llm!Call, Llm!Work, Llm!TryAgain, Llm!Succeed, Llm!FailTransiently, Llm!FailForGood, Llm!GiveUp, Llm!Step
  <2>2. blockState[CalledIn[c]] # "new"
    BY <1>4 DEF CalledInside, Llm!Call, Llm!Work, Llm!TryAgain, Llm!Succeed, Llm!FailTransiently, Llm!FailForGood, Llm!GiveUp
  <2>3. QED BY <2>1, <2>2 DEF CalledInside
<1>5. QED BY <1>2, <1>3, <1>4 DEF Llm!Next

LEMMA RetryTypedStep ==
    ASSUME RetryTyped, LlmInv', Llm!Next \/ UNCHANGED LlmVars
    PROVE  RetryTyped'
<1> DEFINE S == [pc : {"new", "calling", "waiting", "answered", "raised"}, tries : 0 .. MaxTries]
<1>1. retry \in [Completions -> S]
  BY DEF RetryTyped
<1>2. CASE UNCHANGED retry
  BY <1>2 DEF RetryTyped
<1>3. ASSUME NEW c \in Completions, Llm!Call(c) \/ Llm!Work(c) PROVE RetryTyped'
  <2>1. PICK q \in S : q = retry[c]
    BY <1>1
  <2>2. CASE Llm!FailTransiently(c)
    <3>1. PICK r : r = [pc |-> IF Llm!Exhausted(c) THEN "raised" ELSE "waiting", tries |-> q.tries + 1]
      OBVIOUS
    <3>2. retry' = [retry EXCEPT ![c] = r]
      BY <1>1, <2>1, <2>2, <3>1 DEF Llm!FailTransiently
    <3>3. CallTyped(c)' /\ retry'[c] = r
      BY <1>1, <3>2 DEF LlmInv, LlmTyped
    <3>4. r.tries \in 0 .. MaxTries
      BY <3>3 DEF CallTyped
    <3>5. r \in S
      BY <3>1, <3>4
    <3>6. retry' \in [Completions -> S]
      BY <1>1, <3>2, <3>5
    <3>7. QED BY <3>6 DEF RetryTyped
  <2>3. CASE ~Llm!FailTransiently(c)
    <3>1. PICK to \in {"calling", "answered", "raised"} : retry' = [retry EXCEPT ![c].pc = to]
      BY <1>3, <2>3 DEF Llm!Call, Llm!Work, Llm!TryAgain, Llm!Succeed, Llm!FailForGood, Llm!GiveUp, Llm!Step
    <3>2. [q EXCEPT !.pc = to] \in S
      OBVIOUS
    <3>3. retry' \in [Completions -> S]
      BY <1>1, <2>1, <3>1, <3>2
    <3>4. QED BY <3>3 DEF RetryTyped
  <2>4. QED BY <2>2, <2>3
<1>4. ASSUME NEW b \in Blocks, Llm!Enter(b) \/ Llm!Leave(b) PROVE UNCHANGED retry
  BY <1>4 DEF Llm!Enter, Llm!Leave
<1>5. QED BY <1>2, <1>3, <1>4 DEF Llm!Next, LlmVars

LEMMA BucketStep ==
    ASSUME BucketInv, Llm!Next \/ UNCHANGED LlmVars
    PROVE  BucketInv'
<1>1. LlmInv' /\ CalledInside' /\ RetryTyped'
  BY LlmStep, CalledInsideStep, RetryTypedStep DEF BucketInv
<1>2. PICK A, N : Assigned(A, N)
  BY DEF BucketInv
<1>3. LlmInv /\ CalledInside
  BY DEF BucketInv
<1>4. \E B, M : Assigned(B, M)'
  <2>1. CASE UNCHANGED LlmVars
    BY <1>2, <2>1, BucketsStay DEF LlmVars
  <2>2. ASSUME NEW b \in Blocks, Llm!Enter(b) \/ Llm!Leave(b) PROVE \E B, M : Assigned(B, M)'
    BY <1>2, <1>3, <2>2, BucketEnter, BucketLeave
  <2>3. ASSUME NEW c \in Completions, Llm!Call(c) \/ Llm!Work(c) PROVE \E B, M : Assigned(B, M)'
    <3>1. CASE Llm!Succeed(c)
      BY <1>2, <1>3, <3>1, BucketSucceed
    <3>2. CASE ~Llm!Succeed(c)
      <4>1. UNCHANGED <<blockState, bucket, paid>>
        BY <2>3, <3>2 DEF Llm!Call, Llm!Work, Llm!TryAgain, Llm!FailTransiently, Llm!FailForGood, Llm!GiveUp
      <4>2. QED BY <1>2, <4>1, BucketsStay
    <3>3. QED BY <3>1, <3>2
  <2>4. QED BY <2>1, <2>2, <2>3 DEF Llm!Next
<1>5. QED BY <1>1, <1>4 DEF BucketInv

LEMMA BucketsKept == AdminSpec => [](focus = "llm" => BucketInv)
<1>1. AdminInit => (focus = "llm" => BucketInv)
  BY LlmBegins, BucketInvInit
<1>2. (focus = "llm" => BucketInv) /\ [AdminNext]_adminVars => (focus = "llm" => BucketInv)'
  BY LlmMoves, BucketStep
<1>3. QED BY <1>1, <1>2, PTL DEF AdminSpec

LEMMA BucketsTyped == BucketInv => Llm!TypeOK
<1> SUFFICES ASSUME BucketInv PROVE Llm!TypeOK
  OBVIOUS
<1>1. PICK A, N : Assigned(A, N)
  BY DEF BucketInv
<1>2. PICK n \in Nat : n = Cardinality(Completions) /\ Llm!Cardinality(Completions) = n
  <2>1. Llm!Cardinality(Completions) = Cardinality(Completions)
    BY DEF Llm!Cardinality, Cardinality, Llm!IsFiniteSet, IsFiniteSet
  <2>2. QED BY <2>1, CallAssumption, FS_CardinalityType
<1>3. paid \subseteq Completions /\ IsFiniteSet(paid) /\ IsFiniteSet(Live) /\ IsFiniteSet(Completions)
  BY LlmFinite, CallAssumption DEF BucketInv, LlmInv, Charged
<1>4. \A s \in SUBSET paid : Cardinality(s) <= n
  <2>1. \A s \in SUBSET paid : s \in SUBSET Completions
    BY <1>3
  <2>2. QED BY <1>2, <1>3, <2>1, FS_Subset
<1>5. bucket \in [Blocks -> 0 .. n]
  <2>1. bucket \in [Blocks -> Nat] /\ \A d \in Blocks : A[d] \in SUBSET paid /\ bucket[d] = Cardinality(A[d])
    BY <1>1 DEF BucketInv, LlmInv, LlmTyped, Assigned
  <2>2. \A d \in Blocks : bucket[d] <= n /\ bucket[d] \in Nat
    BY <1>4, <2>1
  <2>3. \A d \in Blocks : bucket[d] \in 0 .. n
    BY <1>2, <2>2
  <2>4. QED BY <2>1, <2>3
<1>6. lost \in 0 .. n
  <2>1. Live \subseteq Blocks /\ bucket \in [Blocks -> Nat] /\ lost \in Nat
    BY DEF Live, BucketInv, LlmInv, LlmTyped
  <2>2. Total(bucket, Live) \in Nat
    BY <1>3, <2>1, TotalNat
  <2>3. Total(bucket, Live) + lost = Cardinality(paid)
    BY DEF BucketInv, LlmInv, TokensCounted
  <2>4. Cardinality(paid) <= n /\ Cardinality(paid) \in Nat
    BY <1>3, <1>4, FS_CardinalityType
  <2>5. QED BY <1>2, <2>1, <2>2, <2>3, <2>4
<1>7. retry \in [Completions -> [pc : {"new", "calling", "waiting", "answered", "raised"}, tries : 0 .. MaxTries]]
  BY DEF BucketInv, RetryTyped
<1>8. blockState \in [Blocks -> {"new", "open", "closed"}]
  BY DEF BucketInv, LlmInv, LlmTyped
<1>9. QED BY <1>2, <1>3, <1>5, <1>6, <1>7, <1>8 DEF Llm!TypeOK

LEMMA BackupTyped == BackInv => Backup!TypeOK
<1> SUFFICES ASSUME BackInv PROVE Backup!TypeOK
  OBVIOUS
<1>1. /\ source \in GraphType /\ file \in GraphType /\ import \in ImportType
      /\ exporting \in {"no", "nodes", "edges", "done"} /\ moved \in BOOLEAN /\ exists \in BOOLEAN
      /\ target \in [nodes : SUBSET Backup!NodeIds, edges : SUBSET Backup!EdgeIds]
      /\ erased \subseteq Backup!NodeIds
      /\ Cardinality(import.nodeBatch) <= BatchSize /\ Cardinality(import.edgeBatch) <= BatchSize
  BY DEF BackInv, BackTyped
<1>2. import.pc \in {"idle", "lines", "last", "ok", "failed", "conflict"}
  BY <1>1 DEF ImportType
<1>3. \A S : Backup!Cardinality(S) = Cardinality(S)
  BY BackCard
<1>4. QED BY <1>1, <1>2, <1>3 DEF Backup!TypeOK, GraphType

LEMMA ReplayTyped == ReplayInv => Replay!TypeOK
BY DEF ReplayInv, SingletonTyped, EmissionTyped, Askers, Replay!TypeOK, Replay!Reader

LEMMA DatasetTyped == DatasetInv => Dataset!TypeOK
<1> SUFFICES ASSUME DatasetInv PROVE Dataset!TypeOK
  OBVIOUS
<1>1. second \in 0 .. MaxSecond
  BY DEF DatasetInv, DatasetShaped
<1>2. ASSUME NEW m \in Makers
      PROVE  /\ maker[m].at \in {"asked", "missing", "running", "saved", "failed"}
             /\ Len(maker[m].examples) <= MaxExamples
  BY DEF DatasetInv, DatasetShaped, MakerShaped
<1>3. ASSUME NEW p \in DOMAIN fileOf PROVE fileOf[p] = NoFile \/ fileOf[p].by \in Makers
  BY DEF DatasetInv, FilesSound, By
<1>4. QED BY <1>1, <1>2, <1>3 DEF Dataset!TypeOK

(* Every component of the plane keeps to its types, and a bucket of tokens *)
(* never counts more than the calls that were made (lib/litellm_retry.py). *)
THEOREM AdminTypes == AdminSpec => []AdminTypeOK
<1>1. /\ (focus = "registry" => RegInv) /\ (focus = "connections" => ConnInv)
      /\ (focus = "sync" => SyncInv) /\ (focus = "sql" => SqlInv) /\ (focus = "jobs" => JobsSound)
      /\ (focus = "backup" => BackInv) /\ (focus = "limiter" => LimiterInv)
      /\ (focus = "llm" => BucketInv) /\ (focus = "replay" => ReplayInv)
      /\ (focus = "datasets" => DatasetInv)
      => AdminTypeOK
  <2>1. /\ RegInv => Registry!TypeOK
        /\ ConnInv => Connections!TypeOK
        /\ SyncInv => Sync!TypeOK
        /\ SqlInv => Sql!TypeOK
    BY DEF RegInv, ConnInv, SyncInv, SqlInv
  <2>2. JobsSound => Connectors!TypeOK
    BY JobsRead DEF JobsSound
  <2>3. LimiterInv => Limiter!TypeOK
    BY DEF LimiterInv, LimiterTyped, Limiter!TypeOK
  <2>4. QED BY <2>1, <2>2, <2>3, BackupTyped, BucketsTyped, ReplayTyped, DatasetTyped DEF AdminTypeOK
<1>2. QED
  BY <1>1, RegKept, ConnKept, SyncKept, SqlKept, JobsKept, BackKept, LimiterKept, BucketsKept, ReplayKept,
     DatasetKept, PTL
=============================================================================
