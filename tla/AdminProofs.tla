---------------------------- MODULE AdminProofs -----------------------------
(***************************************************************************)
(* What the registries of connections and agents, an import, the window of *)
(* a client and the counted tokens may be relied on for, whatever the      *)
(* constants.                                                              *)
(*                                                                         *)
(* Each section treats one component: how a step of the whole is a step of *)
(* the component, its inductive invariant, one proof per conjunct of the   *)
(* invariant with one case per action, and the property at the end.        *)
(***************************************************************************)
EXTENDS AdminPlane, FiniteSetTheorems, SequenceTheorems, WellFoundedInduction, TLAPS

-----------------------------------------------------------------------------
(* Connections.                                                            *)

LEMMA ConnBegins ==
    ASSUME AdminInit, focus = "connections"
    PROVE  Connections!Init
BY DEF AdminInit, AdminFocus

LEMMA ConnMoves ==
    ASSUME [AdminNext]_adminVars, focus' = "connections"
    PROVE  focus = "connections" /\ (Connections!Next \/ UNCHANGED ConnectionsVars)
BY DEF AdminNext, AdminStays, adminVars

(* What a request has left to do, by its operation. *)
CallShape(r) ==
    \/ call[r] = Connections!NoCall
    \/ /\ call[r].op = "create" /\ call[r].at \in {"record", "index", "source", "target"}
       /\ \E c \in Conns : call[r].conns = {c}
    \/ /\ call[r].op = "revoke" /\ call[r].at \in {"reload", "record", "index", "source", "target"}
       /\ \E c \in Conns : call[r].conns = {c}
    \/ call[r].op = "list" /\ call[r].at = "load"

(* A connection without a record is new to everybody, or gone for good. *)
CreateSound(r) ==
    call[r].op = "create" =>
        /\ call[r].at = "record" => call[r].conns \cap (stored \cup created \cup revoking) = {}
        /\ call[r].at # "record" => call[r].conns \subseteq stored \cup revoking
        /\ call[r].at = "target" =>
              \A c \in call[r].conns : c \in connsOf[ends[c].source] \cup revoking

RevokeSound(r) ==
    call[r].op = "revoke" =>
        /\ call[r].conns \subseteq revoking
        /\ call[r].at \in {"index", "source", "target"} => call[r].conns \cap stored = {}

ListSound(r) ==
    call[r].op = "list" =>
        /\ call[r].owed \subseteq created
        /\ call[r].owed \ revoking \subseteq call[r].shown \cup call[r].conns
        /\ call[r].barred \subseteq revoked /\ call[r].shown \cap call[r].barred = {}

(* A fresh id has one creator. *)
OneCreator ==
    \A r, q \in Calls : r # q /\ call[r].op = "create" /\ call[q].op = "create"
                            => call[r].conns \cap call[q].conns = {}

RevokedAreGone == revoked \subseteq revoking /\ revoked \cap stored = {}
CreatedAreKept ==
    \A c \in created \ revoking : c \in stored /\ \A a \in Connections!Ends(c) : c \in connsOf[a]

ConnInv ==
    /\ Connections!TypeOK
    /\ \A r \in Calls : CallShape(r)
    /\ \A r \in Calls : CreateSound(r)
    /\ \A r \in Calls : RevokeSound(r)
    /\ \A r \in Calls : ListSound(r)
    /\ OneCreator /\ RevokedAreGone /\ CreatedAreKept

-----------------------------------------------------------------------------
LEMMA ConnInvInit == ASSUME Connections!Init PROVE ConnInv
<1> USE DEF Connections!Init
<1>1. Connections!TypeOK
  BY AdminAssumption DEF Connections!TypeOK, Connections!NoCall, Connections!Points, Connections!Sets
<1>2. \A r \in Calls : call[r] = Connections!NoCall
  OBVIOUS
<1>3. QED
  BY <1>1, <1>2 DEF ConnInv, CallShape, CreateSound, RevokeSound, ListSound, OneCreator,
     RevokedAreGone, CreatedAreKept, Connections!NoCall

CallType == [op : {"none", "create", "revoke", "list"}, at : Connections!Points, conns : SUBSET Conns,
             shown : SUBSET Conns, owed : SUBSET Conns, barred : SUBSET Conns]

LEMMA CallsTyped == Connections!TypeOK => call \in [Calls -> CallType]
BY DEF Connections!TypeOK, CallType, Connections!Sets

LEMMA GotoTyped ==
    ASSUME call \in [Calls -> CallType], NEW r \in Calls, NEW to \in Connections!Points,
           Connections!Goto(r, to)
    PROVE  call' \in [Calls -> CallType]
<1>1. Connections!NoCall \in CallType
  BY DEF Connections!NoCall, CallType, Connections!Points
<1>2. [call[r] EXCEPT !.at = to] \in CallType
  BY DEF CallType
<1>3. QED BY <1>1, <1>2 DEF Connections!Goto

LEMMA BeginTyped ==
    ASSUME call \in [Calls -> CallType], NEW r \in Calls, NEW c \in CallType,
           Connections!Begin(r, c)
    PROVE  call' \in [Calls -> CallType]
BY DEF Connections!Begin

StoresTyped ==
    /\ ends \in [Conns -> [source : Partners, target : Partners]]
    /\ stored \subseteq Conns /\ allConns \subseteq Conns /\ connsOf \in [Partners -> SUBSET Conns]
    /\ created \subseteq Conns /\ revoked \subseteq Conns /\ revoking \subseteq Conns

LEMMA CallsTypedStep ==
    ASSUME ConnInv, Connections!Next \/ UNCHANGED ConnectionsVars
    PROVE  call' \in [Calls -> CallType]
<1>0. call \in [Calls -> CallType] /\ connsOf \in [Partners -> SUBSET Conns]
  BY CallsTyped DEF ConnInv, Connections!TypeOK, Connections!Sets
<1>a. stored \subseteq Conns /\ created \subseteq Conns /\ revoked \subseteq Conns
  BY DEF ConnInv, Connections!TypeOK
<1>b. {"idle", "record", "index", "source", "target"} \subseteq Connections!Points
  BY DEF Connections!Points
<1>1. ASSUME NEW r \in Calls, NEW c \in Conns, Connections!BeginCreate(r, c)
      PROVE call' \in [Calls -> CallType]
  <2>1. [Connections!NoCall EXCEPT !.op = "create", !.at = "record", !.conns = {c}] \in CallType
    BY DEF CallType, Connections!NoCall, Connections!Points
  <2>2. QED BY <1>0, <1>1, <2>1, BeginTyped DEF Connections!BeginCreate
<1>2. ASSUME NEW r \in Calls, NEW c \in Conns, Connections!BeginRevoke(r, c)
      PROVE call' \in [Calls -> CallType]
  <2>1. [Connections!NoCall EXCEPT !.op = "revoke", !.at = "reload", !.conns = {c}] \in CallType
    BY DEF CallType, Connections!NoCall, Connections!Points
  <2>2. QED BY <1>0, <1>2, <2>1, BeginTyped DEF Connections!BeginRevoke
<1>3. ASSUME NEW r \in Calls, NEW a \in Partners, Connections!BeginList(r, a)
      PROVE call' \in [Calls -> CallType]
  <2> DEFINE owed == (created \cap Connections!Mine(a)) \ revoking
  <2>1. owed \subseteq Conns /\ connsOf[a] \subseteq Conns
    BY <1>0, <1>a
  <2>2. [Connections!NoCall EXCEPT !.op = "list", !.at = "load", !.conns = connsOf[a],
                                   !.owed = owed, !.barred = revoked] \in CallType
    <3> HIDE DEF owed
    <3> QED BY <2>1, <1>a DEF CallType, Connections!NoCall, Connections!Points
  <2>3. QED BY <1>0, <1>3, <2>2, BeginTyped DEF Connections!BeginList
<1>4. ASSUME NEW r \in Calls, Connections!Reload(r) PROVE call' \in [Calls -> CallType]
  BY <1>0, <1>b, <1>4, GotoTyped DEF Connections!Reload
<1>5. ASSUME NEW r \in Calls, \/ Connections!Record(r) \/ Connections!Index(r) \/ Connections!SourceIndex(r)
                              \/ Connections!TargetIndex(r) \/ Connections!EndList(r) \/ Connections!CallError(r)
      PROVE call' \in [Calls -> CallType]
  BY <1>0, <1>b, <1>5, GotoTyped DEF Connections!Record, Connections!Index, Connections!SourceIndex,
     Connections!TargetIndex, Connections!EndList, Connections!CallError
<1>6. ASSUME NEW r \in Calls, Connections!LoadOne(r) PROVE call' \in [Calls -> CallType]
  <2>1. PICK c \in call[r].conns :
          call' = [call EXCEPT ![r].conns = @ \ {c}, ![r].shown = @ \cup Connections!Shown(c)]
    BY <1>6 DEF Connections!LoadOne
  <2>2. Connections!Shown(c) \subseteq Conns
    BY <1>a DEF Connections!Shown
  <2>3. QED BY <1>0, <2>1, <2>2 DEF CallType
<1>7. CASE UNCHANGED ConnectionsVars
  BY <1>0, <1>7 DEF ConnectionsVars
<1>8. QED BY <1>1, <1>2, <1>3, <1>4, <1>5, <1>6, <1>7 DEF Connections!Next

LEMMA ConnTypesStep ==
    ASSUME ConnInv, Connections!Next \/ UNCHANGED ConnectionsVars
    PROVE  Connections!TypeOK'
<1>1. call' \in [Calls -> CallType]
  BY CallsTypedStep
<1>2. StoresTyped' /\ begun' \in 0 .. MaxCalls /\ callFaults' \in 0 .. MaxCallFaults
  <2>0. /\ StoresTyped /\ begun \in 0 .. MaxCalls /\ callFaults \in 0 .. MaxCallFaults
        /\ \A r \in Calls : call[r].conns \subseteq Conns
    BY CallsTyped DEF ConnInv, Connections!TypeOK, Connections!Sets, CallType, StoresTyped
  <2> USE AdminAssumption DEF StoresTyped
  <2>1. CASE \E r \in Calls, c \in Conns : Connections!BeginCreate(r, c) \/ Connections!BeginRevoke(r, c)
    BY <2>0, <2>1 DEF Connections!BeginCreate, Connections!BeginRevoke, Connections!Begin
  <2>2. CASE \E r \in Calls, a \in Partners : Connections!BeginList(r, a)
    BY <2>0, <2>2 DEF Connections!BeginList, Connections!Begin
  <2>3. CASE \E r \in Calls : Connections!Reload(r) \/ Connections!LoadOne(r) \/ Connections!EndList(r)
    BY <2>0, <2>3 DEF Connections!Reload, Connections!LoadOne, Connections!EndList, Connections!History
  <2>4. CASE \E r \in Calls : Connections!Record(r) \/ Connections!Index(r)
    BY <2>0, <2>4 DEF Connections!Record, Connections!Index, Connections!History, Connections!IndexedAs
  <2>5. CASE \E r \in Calls : Connections!SourceIndex(r)
    BY <2>0, <2>5 DEF Connections!SourceIndex, Connections!History, Connections!IndexedAs
  <2>6. CASE \E r \in Calls : Connections!TargetIndex(r)
    BY <2>0, <2>6 DEF Connections!TargetIndex, Connections!History, Connections!IndexedAs, Connections!TargetOf
  <2>7. CASE \E r \in Calls : Connections!CallError(r)
    BY <2>0, <2>7 DEF Connections!CallError
  <2>8. CASE UNCHANGED ConnectionsVars
    BY <2>0, <2>8 DEF ConnectionsVars
  <2>9. QED BY <2>1, <2>2, <2>3, <2>4, <2>5, <2>6, <2>7, <2>8 DEF Connections!Next
<1>9. QED BY <1>1, <1>2 DEF Connections!TypeOK, CallType, StoresTyped, Connections!Sets

(* The steps of one request. *)
Steps(r) ==
    \/ \E c \in Conns : Connections!BeginCreate(r, c) \/ Connections!BeginRevoke(r, c)
    \/ \E a \in Partners : Connections!BeginList(r, a)
    \/ Connections!Reload(r) \/ Connections!Record(r) \/ Connections!Index(r)
    \/ Connections!SourceIndex(r) \/ Connections!TargetIndex(r)
    \/ Connections!LoadOne(r) \/ Connections!EndList(r) \/ Connections!CallError(r)

LEMMA StepsAreAll == Connections!Next <=> \E r \in Calls : Steps(r)
BY DEF Connections!Next, Steps

LEMMA OthersWait ==
    ASSUME ConnInv, NEW r \in Calls, Steps(r), NEW q \in Calls \ {r}
    PROVE  call'[q] = call[q]
BY CallsTyped DEF ConnInv, Steps, Connections!Begin, Connections!Goto, Connections!BeginCreate, Connections!BeginRevoke,
   Connections!BeginList, Connections!Reload, Connections!Record, Connections!Index, Connections!SourceIndex,
   Connections!TargetIndex, Connections!LoadOne, Connections!EndList, Connections!CallError

Like(c, d) ==
    c.op = d.op /\ c.conns = d.conns /\ c.shown = d.shown /\ c.owed = d.owed /\ c.barred = d.barred

LEMMA Gone ==
    ASSUME call \in [Calls -> CallType], NEW r \in Calls, NEW to, Connections!Goto(r, to)
    PROVE  /\ to = "idle" => call'[r] = Connections!NoCall
           /\ to # "idle" => call'[r].at = to /\ Like(call'[r], call[r])
BY DEF Connections!Goto, CallType, Like

LEMMA Moved ==
    ASSUME call \in [Calls -> CallType], NEW r \in Calls
    PROVE  /\ Connections!Reload(r) =>
                (call'[r] = Connections!NoCall \/ (call'[r].at = "record" /\ Like(call'[r], call[r])))
           /\ Connections!Record(r) => call'[r].at = "index" /\ Like(call'[r], call[r])
           /\ Connections!Index(r) => call'[r].at = "source" /\ Like(call'[r], call[r])
           /\ Connections!SourceIndex(r) => call'[r].at = "target" /\ Like(call'[r], call[r])
           /\ Connections!TargetIndex(r) => call'[r] = Connections!NoCall
           /\ Connections!EndList(r) => call'[r] = Connections!NoCall
           /\ Connections!CallError(r) => call'[r] = Connections!NoCall
<1>1. Connections!Reload(r) =>
        (call'[r] = Connections!NoCall \/ (call'[r].at = "record" /\ Like(call'[r], call[r])))
  BY Gone DEF Connections!Reload
<1>2. /\ Connections!Record(r) => call'[r].at = "index" /\ Like(call'[r], call[r])
      /\ Connections!Index(r) => call'[r].at = "source" /\ Like(call'[r], call[r])
      /\ Connections!SourceIndex(r) => call'[r].at = "target" /\ Like(call'[r], call[r])
  BY Gone DEF Connections!Record, Connections!Index, Connections!SourceIndex
<1>3. /\ Connections!TargetIndex(r) => call'[r] = Connections!NoCall
      /\ Connections!EndList(r) => call'[r] = Connections!NoCall
      /\ Connections!CallError(r) => call'[r] = Connections!NoCall
  BY Gone DEF Connections!TargetIndex, Connections!EndList, Connections!CallError
<1>4. QED BY <1>1, <1>2, <1>3

LEMMA Begun ==
    ASSUME call \in [Calls -> CallType], NEW r \in Calls
    PROVE  /\ \A c \in Conns : Connections!BeginCreate(r, c) =>
                 call'[r].op = "create" /\ call'[r].at = "record" /\ call'[r].conns = {c}
           /\ \A c \in Conns : Connections!BeginRevoke(r, c) =>
                 call'[r].op = "revoke" /\ call'[r].at = "reload" /\ call'[r].conns = {c}
           /\ \A a \in Partners : Connections!BeginList(r, a) =>
                 /\ call'[r].op = "list" /\ call'[r].at = "load" /\ call'[r].conns = connsOf[a]
                 /\ call'[r].shown = {} /\ call'[r].barred = revoked
                 /\ call'[r].owed = (created \cap Connections!Mine(a)) \ revoking
<1> USE DEF Connections!Begin, Connections!NoCall
<1>1. ASSUME NEW c \in Conns, Connections!BeginCreate(r, c)
      PROVE  call'[r].op = "create" /\ call'[r].at = "record" /\ call'[r].conns = {c}
  BY <1>1 DEF Connections!BeginCreate
<1>2. ASSUME NEW c \in Conns, Connections!BeginRevoke(r, c)
      PROVE  call'[r].op = "revoke" /\ call'[r].at = "reload" /\ call'[r].conns = {c}
  BY <1>2 DEF Connections!BeginRevoke
<1>3. ASSUME NEW a \in Partners, Connections!BeginList(r, a)
      PROVE  /\ call'[r].op = "list" /\ call'[r].at = "load" /\ call'[r].conns = connsOf[a]
             /\ call'[r].shown = {} /\ call'[r].barred = revoked
             /\ call'[r].owed = (created \cap Connections!Mine(a)) \ revoking
  BY <1>3 DEF Connections!BeginList
<1>4. QED BY <1>1, <1>2, <1>3

LEMMA LoadedOne ==
    ASSUME call \in [Calls -> CallType], NEW r \in Calls, Connections!LoadOne(r)
    PROVE  /\ call'[r].op = call[r].op /\ call'[r].at = call[r].at
           /\ call'[r].owed = call[r].owed /\ call'[r].barred = call[r].barred
           /\ \E c \in call[r].conns : /\ call'[r].conns = call[r].conns \ {c}
                                       /\ call'[r].shown = call[r].shown \cup Connections!Shown(c)
BY DEF Connections!LoadOne, CallType

LEMMA IdleCall ==
    /\ Connections!NoCall.op = "none" /\ Connections!NoCall.at = "idle" /\ Connections!NoCall.conns = {}
BY DEF Connections!NoCall

LEMMA ShapeStep ==
    ASSUME ConnInv, NEW r \in Calls, Steps(r)
    PROVE  \A q \in Calls : CallShape(q)'
<1>0. call \in [Calls -> CallType] /\ CallShape(r)
  BY CallsTyped DEF ConnInv
<1>1. ASSUME NEW q \in Calls \ {r} PROVE CallShape(q)'
  BY <1>1, OthersWait DEF ConnInv, CallShape
<1>2. CallShape(r)'
  <2> USE <1>0, IdleCall DEF CallShape
  <2>1. ASSUME NEW c \in Conns, Connections!BeginCreate(r, c) \/ Connections!BeginRevoke(r, c) PROVE CallShape(r)'
    BY <2>1, Begun
  <2>2. ASSUME NEW a \in Partners, Connections!BeginList(r, a) PROVE CallShape(r)'
    BY <2>2, Begun
  <2>3. CASE Connections!Reload(r)
    BY <2>3, Moved DEF Connections!Reload, Like
  <2>4. CASE Connections!Record(r)
    BY <2>4, Moved DEF Connections!Record, Like
  <2>5. CASE Connections!Index(r)
    BY <2>5, Moved DEF Connections!Index, Like
  <2>6. CASE Connections!SourceIndex(r)
    BY <2>6, Moved DEF Connections!SourceIndex, Like
  <2>7. CASE Connections!TargetIndex(r) \/ Connections!EndList(r) \/ Connections!CallError(r)
    BY <2>7, Moved
  <2>8. CASE Connections!LoadOne(r)
    BY <2>8, LoadedOne DEF Connections!LoadOne
  <2>9. QED BY <2>1, <2>2, <2>3, <2>4, <2>5, <2>6, <2>7, <2>8 DEF Steps
<1>3. QED BY <1>1, <1>2

LEMMA CreateStep ==
    ASSUME ConnInv, NEW r \in Calls, Steps(r)
    PROVE  \A q \in Calls : CreateSound(q)'
<1>0. /\ call \in [Calls -> CallType] /\ connsOf \in [Partners -> SUBSET Conns]
      /\ \A q \in Calls : CallShape(q) /\ CreateSound(q) /\ RevokeSound(q)
      /\ ends \in [Conns -> [source : Partners, target : Partners]]
      /\ OneCreator
  BY CallsTyped DEF ConnInv, Connections!TypeOK, Connections!Sets
<1>1. ASSUME NEW q \in Calls \ {r} PROVE CreateSound(q)'
  <2>0. call'[q] = call[q] /\ call[q] \in CallType
    BY <1>0, OthersWait
  <2>a. CreateSound(q) /\ CallShape(q) /\ RevokeSound(r) /\ CallShape(r)
    BY <1>0
  <2> USE <2>0, <2>a DEF CreateSound
  <2>1. ASSUME NEW c \in Conns, Connections!BeginCreate(r, c) \/ Connections!BeginRevoke(r, c) PROVE CreateSound(q)'
    BY <2>1 DEF Connections!BeginCreate, Connections!BeginRevoke, Connections!Begin
  <2>2. ASSUME \/ \E a \in Partners : Connections!BeginList(r, a)
               \/ Connections!Reload(r) \/ Connections!Index(r)
               \/ Connections!EndList(r) \/ Connections!CallError(r) \/ Connections!LoadOne(r)
        PROVE CreateSound(q)'
    BY <2>2 DEF Connections!Reload, Connections!Index, Connections!BeginList, Connections!Begin,
       Connections!EndList, Connections!CallError, Connections!LoadOne, Connections!History
  <2>3. ASSUME Connections!Record(r) PROVE CreateSound(q)'
    <3>1. CASE call[r].op = "create"
      BY <1>0, <2>3, <3>1 DEF Connections!Record, Connections!History, Connections!IndexedAs, OneCreator
    <3>2. CASE call[r].op = "revoke"
      BY <2>3, <3>2 DEF Connections!Record, Connections!History, Connections!IndexedAs, RevokeSound
    <3>3. QED BY <2>3, <3>1, <3>2, IdleCall DEF CallShape, Connections!Record
  <2>4. ASSUME Connections!SourceIndex(r) PROVE CreateSound(q)'
    <3>1. \A a \in Partners : connsOf[a] \ revoking \subseteq connsOf'[a]
      BY <1>0, <2>4, IdleCall DEF Connections!SourceIndex, Connections!IndexedAs, RevokeSound, CallShape
    <3>2. \A c \in call[q].conns : ends[c].source \in Partners
      BY <1>0, <2>0 DEF CallType
    <3>3. QED BY <3>1, <3>2, <2>4 DEF Connections!SourceIndex, Connections!History
  <2>5. ASSUME Connections!TargetIndex(r) PROVE CreateSound(q)'
    <3>1. \A a \in Partners : connsOf[a] \ revoking \subseteq connsOf'[a]
      BY <1>0, <2>5, IdleCall DEF Connections!TargetIndex, Connections!IndexedAs, RevokeSound, CallShape
    <3>2. \A c \in call[q].conns : ends[c].source \in Partners
      BY <1>0, <2>0 DEF CallType
    <3>3. call[q].op = "create" => call[q].conns \cap created' = call[q].conns \cap created
      BY <1>0, <2>5 DEF Connections!TargetIndex, OneCreator
    <3>4. QED BY <3>1, <3>2, <3>3, <2>5 DEF Connections!TargetIndex, Connections!History
  <2>6. QED BY <2>1, <2>2, <2>3, <2>4, <2>5 DEF Steps
<1>2. CreateSound(r)'
  <2>0. CreateSound(r) /\ CallShape(r) /\ RevokeSound(r) /\ call[r] \in CallType
    BY <1>0
  <2> USE <2>0, IdleCall DEF CreateSound
  <2>1. ASSUME NEW c \in Conns, Connections!BeginCreate(r, c) PROVE CreateSound(r)'
    <3>1. c \notin stored' \cup created' \cup revoking'
      BY <2>1 DEF Connections!BeginCreate, Connections!Begin
    <3>2. QED BY <1>0, <2>1, <3>1, Begun
  <2>10. ASSUME NEW c \in Conns, Connections!BeginRevoke(r, c) PROVE CreateSound(r)'
    BY <1>0, <2>10, Begun
  <2>2. ASSUME NEW a \in Partners, Connections!BeginList(r, a) PROVE CreateSound(r)'
    BY <1>0, <2>2, Begun
  <2>3. CASE Connections!Reload(r)
    BY <1>0, <2>3, Moved DEF Connections!Reload, CallShape, Like
  <2>4. CASE Connections!LoadOne(r)
    BY <1>0, <2>4, LoadedOne DEF Connections!LoadOne, CallShape
  <2>5. CASE Connections!Record(r)
    BY <1>0, <2>5, Moved DEF Connections!Record, Connections!IndexedAs, Connections!History, Like
  <2>6. CASE Connections!Index(r)
    BY <1>0, <2>6, Moved DEF Connections!Index, Connections!History, Like
  <2>7. ASSUME Connections!SourceIndex(r) PROVE CreateSound(r)'
    <3>1. call'[r].at = "target" /\ Like(call'[r], call[r])
      BY <1>0, <2>7, Moved
    <3>2. CASE call[r].op = "create"
      <4>1. PICK c \in Conns : call[r].conns = {c}
        BY <3>2, IdleCall DEF CallShape
      <4>2. c \in connsOf'[ends[c].source]
        BY <1>0, <2>7, <3>2, <4>1 DEF Connections!SourceIndex, Connections!IndexedAs
      <4>3. QED BY <2>7, <3>1, <4>1, <4>2 DEF Connections!SourceIndex, Connections!History, Like
    <3>3. QED BY <3>1, <3>2 DEF Like
  <2>8. CASE Connections!TargetIndex(r) \/ Connections!EndList(r) \/ Connections!CallError(r)
    BY <1>0, <2>8, Moved
  <2>9. QED BY <2>1, <2>2, <2>3, <2>4, <2>5, <2>6, <2>7, <2>8, <2>10 DEF Steps
<1>3. QED BY <1>1, <1>2

LEMMA RevokeStep ==
    ASSUME ConnInv, NEW r \in Calls, Steps(r)
    PROVE  \A q \in Calls : RevokeSound(q)'
<1>0. /\ call \in [Calls -> CallType]
      /\ \A q \in Calls : CallShape(q) /\ CreateSound(q) /\ RevokeSound(q)
      /\ OneCreator
  BY CallsTyped DEF ConnInv
<1>1. ASSUME NEW q \in Calls \ {r} PROVE RevokeSound(q)'
  <2>0. call'[q] = call[q] /\ RevokeSound(q) /\ CreateSound(r) /\ RevokeSound(r) /\ CallShape(r)
    BY <1>0, OthersWait
  <2> USE <2>0 DEF RevokeSound
  <2>1. CASE Connections!Record(r)
    BY <2>1, IdleCall DEF Connections!Record, Connections!IndexedAs, Connections!History, CreateSound, CallShape
  <2>2. CASE \/ \E c \in Conns : Connections!BeginCreate(r, c) \/ Connections!BeginRevoke(r, c)
             \/ \E a \in Partners : Connections!BeginList(r, a)
    BY <2>2 DEF Connections!BeginCreate, Connections!BeginRevoke, Connections!BeginList, Connections!Begin
  <2>3. CASE \/ Connections!Reload(r) \/ Connections!Index(r) \/ Connections!SourceIndex(r)
             \/ Connections!TargetIndex(r) \/ Connections!LoadOne(r) \/ Connections!EndList(r)
             \/ Connections!CallError(r)
    BY <2>3 DEF Connections!Reload, Connections!Index, Connections!SourceIndex, Connections!TargetIndex,
       Connections!LoadOne, Connections!EndList, Connections!CallError, Connections!History
  <2>4. QED BY <2>1, <2>2, <2>3 DEF Steps
<1>2. RevokeSound(r)'
  <2>0. RevokeSound(r) /\ CallShape(r) /\ call[r] \in CallType
    BY <1>0
  <2> USE <2>0, IdleCall DEF RevokeSound
  <2>1. ASSUME NEW c \in Conns, Connections!BeginCreate(r, c) PROVE RevokeSound(r)'
    BY <1>0, <2>1, Begun
  <2>2. ASSUME NEW c \in Conns, Connections!BeginRevoke(r, c) PROVE RevokeSound(r)'
    <3>1. c \in revoking'
      BY <2>2 DEF Connections!BeginRevoke
    <3>2. QED BY <1>0, <2>2, <3>1, Begun
  <2>3. ASSUME NEW a \in Partners, Connections!BeginList(r, a) PROVE RevokeSound(r)'
    BY <1>0, <2>3, Begun
  <2>4. CASE Connections!Reload(r)
    BY <1>0, <2>4, Moved DEF Connections!Reload, Connections!History, Like
  <2>5. CASE Connections!Record(r)
    BY <1>0, <2>5, Moved DEF Connections!Record, Connections!IndexedAs, Connections!History, Like
  <2>6. CASE Connections!Index(r)
    BY <1>0, <2>6, Moved DEF Connections!Index, Connections!History, Like
  <2>7. CASE Connections!SourceIndex(r)
    BY <1>0, <2>7, Moved DEF Connections!SourceIndex, Connections!History, Like
  <2>8. CASE Connections!TargetIndex(r) \/ Connections!EndList(r) \/ Connections!CallError(r)
    BY <1>0, <2>8, Moved
  <2>9. CASE Connections!LoadOne(r)
    BY <1>0, <2>9, LoadedOne DEF Connections!LoadOne, CallShape
  <2>10. QED BY <2>1, <2>2, <2>3, <2>4, <2>5, <2>6, <2>7, <2>8, <2>9 DEF Steps
<1>3. QED BY <1>1, <1>2

LEMMA ListStep ==
    ASSUME ConnInv, NEW r \in Calls, Steps(r)
    PROVE  \A q \in Calls : ListSound(q)'
<1>0. /\ call \in [Calls -> CallType]
      /\ \A q \in Calls : CallShape(q) /\ ListSound(q)
      /\ RevokedAreGone /\ CreatedAreKept
  BY CallsTyped DEF ConnInv
<1>g. created \subseteq created' /\ revoked \subseteq revoked' /\ revoking \subseteq revoking'
  <2>1. CASE \/ \E c \in Conns : Connections!BeginCreate(r, c) \/ Connections!BeginRevoke(r, c)
             \/ \E a \in Partners : Connections!BeginList(r, a)
    BY <2>1 DEF Connections!BeginCreate, Connections!BeginRevoke, Connections!BeginList, Connections!Begin
  <2>2. CASE \/ Connections!Reload(r) \/ Connections!Record(r) \/ Connections!Index(r)
             \/ Connections!SourceIndex(r)
             \/ Connections!TargetIndex(r) \/ Connections!LoadOne(r) \/ Connections!EndList(r)
             \/ Connections!CallError(r)
    BY <2>2 DEF Connections!Reload, Connections!Record, Connections!Index, Connections!SourceIndex, Connections!TargetIndex,
       Connections!LoadOne, Connections!EndList, Connections!CallError, Connections!History
  <2>3. QED BY <2>1, <2>2 DEF Steps
<1>1. ASSUME NEW q \in Calls \ {r} PROVE ListSound(q)'
  BY <1>0, <1>1, <1>g, OthersWait DEF ListSound
<1>2. ListSound(r)'
  <2>0. ListSound(r) /\ CallShape(r) /\ call[r] \in CallType
    BY <1>0
  <2> USE <2>0, IdleCall DEF ListSound
  <2>1. ASSUME NEW c \in Conns, Connections!BeginCreate(r, c) \/ Connections!BeginRevoke(r, c) PROVE ListSound(r)'
    BY <1>0, <2>1, Begun
  <2>2. ASSUME NEW a \in Partners, Connections!BeginList(r, a) PROVE ListSound(r)'
    <3>1. (created \cap Connections!Mine(a)) \ revoking \subseteq connsOf[a]
      BY <1>0 DEF CreatedAreKept, Connections!Mine
    <3>2. QED BY <1>0, <1>g, <2>2, <3>1, Begun
  <2>3. CASE Connections!Reload(r) \/ Connections!Record(r) \/ Connections!Index(r) \/ Connections!SourceIndex(r)
    BY <1>0, <2>3, Moved DEF Connections!Reload, Connections!Record, Connections!Index, Connections!SourceIndex, CallShape, Like
  <2>4. CASE Connections!TargetIndex(r) \/ Connections!EndList(r) \/ Connections!CallError(r)
    BY <1>0, <2>4, Moved
  <2>5. CASE Connections!LoadOne(r)
    <3>1. PICK c \in call[r].conns : /\ call'[r].conns = call[r].conns \ {c}
                                     /\ call'[r].shown = call[r].shown \cup Connections!Shown(c)
      BY <1>0, <2>5, LoadedOne
    <3>2. /\ call'[r].op = call[r].op /\ call'[r].owed = call[r].owed /\ call'[r].barred = call[r].barred
          /\ created' = created /\ revoked' = revoked /\ revoking' = revoking
      BY <1>0, <2>5, LoadedOne DEF Connections!LoadOne, Connections!History
    <3>3. call[r].op = "list" /\ c \in call[r].owed \ revoking => c \in Connections!Shown(c)
      BY <1>0 DEF CreatedAreKept, Connections!Shown
    <3>4. call[r].op = "list" => Connections!Shown(c) \cap call[r].barred = {}
      BY <1>0 DEF RevokedAreGone, Connections!Shown
    <3>5. Connections!Shown(c) \subseteq {c}
      BY DEF Connections!Shown
    <3> HIDE <2>5
    <3>6. QED BY <3>1, <3>2, <3>3, <3>4, <3>5
  <2>6. QED BY <2>1, <2>2, <2>3, <2>4, <2>5 DEF Steps
<1>3. QED BY <1>1, <1>2

LEMMA StoresStep ==
    ASSUME ConnInv, NEW r \in Calls, Steps(r)
    PROVE  OneCreator' /\ RevokedAreGone' /\ CreatedAreKept'
<1>0. /\ call \in [Calls -> CallType] /\ connsOf \in [Partners -> SUBSET Conns]
      /\ ends \in [Conns -> [source : Partners, target : Partners]]
      /\ CallShape(r) /\ CreateSound(r) /\ RevokeSound(r)
      /\ OneCreator /\ RevokedAreGone /\ CreatedAreKept
      /\ created \subseteq Conns
  BY CallsTyped DEF ConnInv, Connections!TypeOK, Connections!Sets
<1>1. OneCreator'
  <2>1. ASSUME NEW c \in Conns, Connections!BeginCreate(r, c)
        PROVE  \A q \in Calls \ {r} : call[q].op = "create" => c \notin call[q].conns
    BY <2>1 DEF Connections!BeginCreate, Connections!InFlight
  <2>2. \/ \E c \in Conns : /\ call'[r].conns = {c}
                            /\ \A q \in Calls \ {r} : call[q].op = "create" => c \notin call[q].conns
        \/ call'[r].op = "create" => call[r].op = "create" /\ call'[r].conns = call[r].conns
    <3>1. CASE \/ \E c \in Conns : Connections!BeginCreate(r, c) \/ Connections!BeginRevoke(r, c)
               \/ \E a \in Partners : Connections!BeginList(r, a)
      BY <1>0, <2>1, <3>1, Begun
    <3>2. CASE \/ Connections!Reload(r) \/ Connections!Record(r) \/ Connections!Index(r) \/ Connections!SourceIndex(r)
               \/ Connections!TargetIndex(r) \/ Connections!EndList(r) \/ Connections!CallError(r)
      BY <1>0, <3>2, Moved, IdleCall DEF Like
    <3>3. CASE Connections!LoadOne(r)
      BY <1>0, <3>3, LoadedOne, IdleCall DEF CallShape, Connections!LoadOne
    <3>4. QED BY <3>1, <3>2, <3>3 DEF Steps
  <2>3. \A q \in Calls \ {r} : call'[q] = call[q]
    BY OthersWait
  <2>4. QED BY <1>0, <2>2, <2>3 DEF OneCreator
<1>2. RevokedAreGone' /\ CreatedAreKept'
  <2>e. ends' = ends
    BY DEF Steps, Connections!BeginCreate, Connections!BeginRevoke, Connections!BeginList, Connections!Begin, Connections!Reload, Connections!Record, Connections!Index, Connections!SourceIndex,
       Connections!TargetIndex, Connections!LoadOne, Connections!EndList, Connections!CallError, Connections!History
  <2> USE <1>0, <2>e, IdleCall DEF RevokedAreGone, CreatedAreKept, Connections!Ends
  <2>1. CASE \/ \E c \in Conns : Connections!BeginCreate(r, c) \/ Connections!BeginRevoke(r, c)
             \/ \E a \in Partners : Connections!BeginList(r, a)
    BY <2>1 DEF Connections!BeginCreate, Connections!BeginRevoke, Connections!BeginList, Connections!Begin
  <2>2. CASE \/ Connections!Reload(r) \/ Connections!Index(r) \/ Connections!LoadOne(r)
             \/ Connections!EndList(r) \/ Connections!CallError(r)
    BY <2>2 DEF Connections!Reload, Connections!Index, Connections!LoadOne, Connections!EndList,
       Connections!CallError, Connections!History
  <2>3. CASE Connections!Record(r)
    BY <2>3 DEF Connections!Record, Connections!History, Connections!IndexedAs, CreateSound, RevokeSound, CallShape
  <2>4. CASE Connections!SourceIndex(r)
    <3>1. \A a \in Partners : connsOf[a] \ revoking \subseteq connsOf'[a]
      BY <2>4 DEF Connections!SourceIndex, Connections!IndexedAs, RevokeSound, CallShape
    <3>2. \A c \in created : Connections!Ends(c) \subseteq Partners
      OBVIOUS
    <3>3. QED BY <2>4, <3>1, <3>2 DEF Connections!SourceIndex, Connections!History
  <2>5. CASE Connections!TargetIndex(r)
    <3>1. \A a \in Partners : connsOf[a] \ revoking \subseteq connsOf'[a]
      BY <2>5 DEF Connections!TargetIndex, Connections!IndexedAs, RevokeSound, CallShape
    <3>2. \A c \in Conns : Connections!Ends(c) \subseteq Partners
      OBVIOUS
    <3>3. CASE call[r].op = "create"
      <4>1. PICK c \in Conns : call[r].conns = {c}
        BY <3>3 DEF CallShape
      <4>2. c \in connsOf'[ends[c].target]
        BY <2>5, <3>3, <4>1 DEF Connections!TargetIndex, Connections!IndexedAs, Connections!TargetOf
      <4>3. c \in revoking \/ (c \in stored /\ \A a \in Connections!Ends(c) : c \in connsOf'[a])
        BY <2>5, <3>1, <3>2, <3>3, <4>1, <4>2 DEF CreateSound, Connections!TargetIndex
      <4>4. created' = created \cup {c} /\ stored' = stored /\ revoking' = revoking /\ revoked' = revoked
        BY <2>5, <3>3, <4>1 DEF Connections!TargetIndex, Connections!History
      <4>5. QED BY <3>1, <3>2, <4>3, <4>4
    <3>4. CASE call[r].op = "revoke"
      <4>1. /\ created' = created /\ stored' = stored /\ revoking' = revoking
            /\ revoked' = revoked \cup call[r].conns
        BY <2>5, <3>4 DEF Connections!TargetIndex, Connections!History
      <4>2. QED BY <2>5, <3>1, <3>2, <3>4, <4>1 DEF RevokeSound, Connections!TargetIndex
    <3>5. QED BY <2>5, <3>3, <3>4 DEF CallShape, Connections!TargetIndex
  <2>6. QED BY <2>1, <2>2, <2>3, <2>4, <2>5 DEF Steps
<1>3. QED BY <1>1, <1>2

LEMMA ConnInvStep ==
    ASSUME ConnInv, Connections!Next \/ UNCHANGED ConnectionsVars
    PROVE  ConnInv'
<1>1. CASE Connections!Next
  BY <1>1, StepsAreAll, ConnTypesStep, ShapeStep, CreateStep, RevokeStep, ListStep, StoresStep DEF ConnInv
<1>2. CASE UNCHANGED ConnectionsVars
  BY <1>2, ConnTypesStep DEF ConnInv, ConnectionsVars, CallShape, CreateSound, RevokeSound, ListSound, OneCreator,
     RevokedAreGone, CreatedAreKept, Connections!Ends
<1>3. QED BY <1>1, <1>2

LEMMA ConnKept == AdminSpec => [](focus = "connections" => ConnInv)
<1>1. AdminInit => (focus = "connections" => ConnInv)
  BY ConnBegins, ConnInvInit
<1>2. (focus = "connections" => ConnInv) /\ [AdminNext]_adminVars => (focus = "connections" => ConnInv)'
  BY ConnMoves, ConnInvStep
<1>3. QED BY <1>1, <1>2, PTL DEF AdminSpec

LEMMA ConnectionsAgree == ConnInv => Connections!RevokedNotListed /\ Connections!CreatedIsListed
BY IdleCall DEF ConnInv, CallShape, ListSound, Connections!RevokedNotListed, Connections!CreatedIsListed, Connections!Listed

-----------------------------------------------------------------------------
(* Agents and keys.                                                        *)

LEMMA RegBegins ==
    ASSUME AdminInit, focus = "registry"
    PROVE  Registry!Init
BY DEF AdminInit, AdminFocus

LEMMA RegMoves ==
    ASSUME [AdminNext]_adminVars, focus' = "registry"
    PROVE  focus = "registry" /\ (Registry!Next \/ UNCHANGED RegistryVars)
BY DEF AdminNext, AdminStays, adminVars

(* A request is idle, or at a step of its operation. *)
ReqShape(q) ==
    \/ q = Registry!Idle
    \/ /\ q.agent \in Agents
       /\ q.op # "delete" => q.seen \in [hash : 0 .. MaxKeys, level : Levels]
       /\ \/ q.op = "create" /\ q.at \in {"store", "save", "index", "core", "level"}
          \/ q.op = "rotate" /\ q.at \in {"revoke", "scan", "store", "save", "index", "rollback"}
          \/ q.op = "update" /\ q.at \in {"save", "index", "level"}
          \/ q.op = "import" /\ q.at \in {"store", "save", "index", "core"}
          \/ q.op = "delete" /\ q.at \in {"graph", "scan", "unsave", "unindex"}

Overlapping == \A r, q \in Registry!Requests :
    r # q /\ req[r].agent = req[q].agent /\ req[r].agent \in Agents => "overlap" \in touched[req[r].agent]

(* A key is of one agent for as long as it works. *)
OwnKey(h, a) == h # 0 => h <= keys /\ slots[h] \in {a, NoAgent}
KeysSound ==
    /\ \A k \in 1 .. MaxKeys : k > keys => slots[k] = NoAgent
    /\ \A a \in Agents : OwnKey(record[a].hash, a)
    /\ \A r \in Registry!Requests : req[r].agent \in Agents =>
          OwnKey(req[r].seen.hash, req[r].agent) /\ OwnKey(req[r].key, req[r].agent)

Calm(a, kinds) == touched[a] \cap kinds = {}
Of(a) == {req[r] : r \in {x \in Registry!Requests : req[x].agent = a}}

(* What a request of one agent knows of its record, while nobody else writes it. *)
SeenSound(a, q) ==
    /\ q.at = "index" => record[a] = q.seen
    /\ q.at \in {"core", "level"} => record[a] = q.seen
    /\ q.op = "create" /\ q.at \in {"store", "save"} => record[a] = Registry!NoRecord
    /\ q.op = "rotate" => /\ Registry!Exists(a) /\ q.seen.level = record[a].level
                          /\ q.at = "revoke" => q.seen = record[a] /\ q.seen.hash # 0
                          /\ q.at = "scan" => record[a].hash = 0
    /\ q.op = "update" => Registry!Exists(a) /\ q.seen.hash = record[a].hash
    /\ q.at = "unindex" => record[a] = Registry!NoRecord
SeenInv(a) == Calm(a, {"overlap"}) => \A q \in Of(a) : SeenSound(a, q)

(* The key of the record works, but for the time of a rotation or deletion. *)
WorkInv(a) == Calm(a, {"overlap", "crash", "fault", "skip"}) =>
    /\ \/ record[a].hash # 0 => record[a].hash \in Registry!SlotsOf(a)
       \/ \E q \in Of(a) : \/ q.op = "rotate" /\ q.at \in {"store", "save"}
                           \/ q.op = "delete" /\ q.at \in {"scan", "unsave"}
    /\ \A q \in Of(a) : /\ q.at \in {"save", "index"} /\ q.seen.hash # 0 /\ q.op # "update"
                             => q.seen.hash \in Registry!SlotsOf(a)
                        /\ q.at # "rollback"

(* The keys of an agent that somebody was given: the one on record, but for the time of a rotation, creation or deletion. *)
Known(a) == IF Registry!Exists(a) THEN record[a].hash # 0 ELSE a \notin deleted
StrayInv(a) == faults <= 1 /\ Calm(a, {"overlap", "import", "skip"}) =>
    /\ \/ Known(a) => Registry!KeysOf(a) \subseteq {record[a].hash}
       \/ \E q \in Of(a) : \/ q.op = "rotate" /\ q.at \in {"save", "rollback"}
                           \/ q.op = "create" /\ q.at = "save"
                           \/ q.op = "delete" /\ q.at = "unindex"
    /\ \A q \in Of(a) :
          /\ q.op # "import"
          /\ q.at = "store" => Registry!KeysOf(a) = {}
          /\ q.op \in {"create", "rotate"} /\ q.at \in {"save", "index", "rollback"} => Registry!KeysOf(a) \subseteq {q.key}
          /\ q.op \in {"create", "rotate"} /\ q.at \in {"save", "index"} => q.seen.hash = q.key
          /\ q.at = "scan" => Registry!KeysOf(a) \subseteq q.todo
          /\ q.at = "rollback" => faults >= 1
          /\ q.at \in {"unsave", "unindex"} => Registry!KeysOf(a) = {} \/ faults >= 1

GoneInv(a) == Calm(a, Registry!Marks) =>
    /\ a \in deleted => /\ ~Registry!Exists(a) /\ a \notin index /\ Registry!SlotsOf(a) = {}
                        /\ core[a] = NoAgent /\ a \notin graph
                        /\ \A q \in Of(a) : q.op = "delete"
    /\ \A q \in Of(a) : q.op = "delete" =>
          /\ q.at # "graph" => core[a] = NoAgent /\ a \notin graph
          /\ q.at = "scan" => Registry!SlotsOf(a) \subseteq q.todo
          /\ q.at \in {"unsave", "unindex"} => Registry!SlotsOf(a) = {}

LevelInv(a) == Calm(a, Registry!Marks) =>
    /\ \/ Registry!Exists(a) => core[a] = record[a].level
       \/ \E q \in Of(a) : \/ q.op \in {"create", "update"} /\ q.at \in {"index", "core", "level"}
                           \/ q.op = "delete" /\ q.at \in {"scan", "unsave"}
    /\ \A q \in Of(a) : /\ q.op # "import"
                        /\ q.op = "create" /\ q.at \in {"store", "save"} => core[a] = NoAgent
                        /\ q.op = "create" /\ q.at = "level" => core[a] # NoAgent
                        /\ q.op = "update" => core[a] # NoAgent

AgentInv(a) == SeenInv(a) /\ WorkInv(a) /\ StrayInv(a) /\ GoneInv(a) /\ LevelInv(a)

RegInv ==
    /\ Registry!TypeOK
    /\ \A r \in Registry!Requests : ReqShape(req[r])
    /\ Overlapping /\ KeysSound
    /\ \A a \in Agents : AgentInv(a)

ReqType == [op : Registry!Ops, agent : Agents \cup {NoAgent}, at : Registry!Steps,
            seen : Registry!Records, found : BOOLEAN, key : 0 .. MaxKeys,
            todo : SUBSET (1 .. MaxKeys)]

AgentsTyped ==
    /\ record \in [Agents -> Registry!Records]
    /\ index \subseteq Agents /\ graph \subseteq Agents /\ deleted \subseteq Agents
    /\ slots \in [1 .. MaxKeys -> Agents \cup {NoAgent}]
    /\ core \in [Agents -> Levels \cup {NoLevel, NoAgent}]
    /\ touched \in [Agents -> SUBSET Registry!Marks]
CountsTyped ==
    /\ keys \in 0 .. MaxKeys /\ starts \in 0 .. MaxStarts /\ faults \in 0 .. MaxFaults
    /\ unclaimed \subseteq 1 .. MaxKeys

LEMMA RegTypes ==
    Registry!TypeOK <=> req \in [Registry!Requests -> ReqType] /\ AgentsTyped /\ CountsTyped
BY DEF Registry!TypeOK, ReqType, AgentsTyped, CountsTyped

LEMMA IdleReq ==
    /\ Registry!Idle.op = "none" /\ Registry!Idle.agent = NoAgent /\ Registry!Idle.at = "idle"
    /\ Registry!Idle \in ReqType
    /\ Registry!Idle.agent \notin Agents
BY AdminAssumption DEF Registry!Idle, ReqType, Registry!Ops, Registry!Steps, Registry!Records, Registry!NoRecord

(* The state an operation of one agent leaves of it, and of its request. *)
Effect(a, r, rc, sl, co, q) ==
    /\ record' = [record EXCEPT ![a] = rc]
    /\ Registry!SlotsOf(a)' = sl
    /\ \A b \in Agents \ {a} : Registry!SlotsOf(b)' = Registry!SlotsOf(b)
    /\ core' = [core EXCEPT ![a] = co]
    /\ req' = [req EXCEPT ![r] = q]
    /\ unclaimed \subseteq unclaimed'
Marked(a, to)   == touched' = [touched EXCEPT ![a] = to]
Unfailing == touched' = touched /\ faults' = faults
Failing(a) == touched' = [touched EXCEPT ![a] = @ \cup {"fault"}] /\ faults' = faults + 1
Ledgers == index' = index /\ graph' = graph /\ deleted' = deleted

Going(q, to) == IF to = "idle" THEN Registry!Idle ELSE [q EXCEPT !.at = to]

LEMMA RegTyped ==
    ASSUME RegInv, NEW r \in Registry!Requests
    PROVE  /\ req[r] \in ReqType /\ AgentsTyped /\ CountsTyped /\ ReqShape(req[r])
           /\ req \in [Registry!Requests -> ReqType]
           /\ req[r].at # "idle" => req[r].agent \in Agents
BY RegTypes, IdleReq DEF RegInv, ReqShape

LEMMA RecordTyped == ASSUME RegInv, NEW a \in Agents
    PROVE record[a] = [record EXCEPT ![a] = record[a]][a]
OBVIOUS

LEMMA Unwritten ==
    ASSUME AgentsTyped, NEW a \in Agents
    PROVE  record = [record EXCEPT ![a] = record[a]] /\ core = [core EXCEPT ![a] = core[a]]
BY DEF AgentsTyped

LEMMA SlotsUnwritten ==
    ASSUME slots' = slots
    PROVE  \A b \in Agents : Registry!SlotsOf(b)' = Registry!SlotsOf(b)
BY DEF Registry!SlotsOf

LEMMA StoreKeyDoes ==
    ASSUME RegInv, NEW r \in Registry!Requests, NEW a \in Agents, req[r].agent = a, Registry!StoreKey(r)
    PROVE  /\ Effect(a, r, record[a], Registry!SlotsOf(a) \cup {keys + 1}, core[a],
                     [req[r] EXCEPT !.at = "save", !.key = keys + 1, !.seen.hash = keys + 1])
           /\ Unfailing /\ Ledgers /\ keys' = keys + 1 /\ keys + 1 \in 1 .. MaxKeys /\ req[r].at = "store"
<1> USE AdminAssumption, RegTyped DEF AgentsTyped, CountsTyped
<1>k. keys \in 0 .. MaxKeys /\ keys < MaxKeys
  BY DEF Registry!StoreKey, Registry!NewSlot
<1>s. \A k \in 1 .. MaxKeys : k > keys => slots[k] = NoAgent
  BY DEF RegInv, KeysSound
<1>1. keys + 1 \in 1 .. MaxKeys /\ slots[keys + 1] = NoAgent
  BY <1>k, <1>s
<1>2. /\ Registry!SlotsOf(a)' = Registry!SlotsOf(a) \cup {keys + 1}
      /\ \A b \in Agents \ {a} : Registry!SlotsOf(b)' = Registry!SlotsOf(b)
  BY <1>1 DEF Registry!StoreKey, Registry!NewSlot, Registry!SlotsOf
<1>3. QED BY <1>1, <1>2, Unwritten DEF Registry!StoreKey, Registry!NewSlot, Registry!Minted, Registry!Kept, Effect, Unfailing, Ledgers

(* The steps that leave the key slots alone. *)
LEMMA RecordsDo ==
    ASSUME RegInv, NEW r \in Registry!Requests, NEW a \in Agents, req[r].agent = a
    PROVE  /\ Registry!SaveRecord(r) =>
                /\ Effect(a, r, req[r].seen, Registry!SlotsOf(a), core[a], [req[r] EXCEPT !.at = "index"])
                /\ Unfailing /\ Ledgers
           /\ Registry!SaveIndex(r) =>
                /\ Effect(a, r, record[a], Registry!SlotsOf(a), core[a], Going(req[r], Registry!AfterIndex(req[r].op)))
                /\ Unfailing /\ graph' = graph /\ deleted' = deleted /\ index' = index \cup {a}
           /\ Registry!EnsureCore(r) =>
                /\ Effect(a, r, record[a], Registry!SlotsOf(a), IF core[a] = NoAgent THEN NoLevel ELSE core[a],
                          Going(req[r], IF req[r].op = "create" THEN "level" ELSE "idle"))
                /\ Unfailing /\ Ledgers
           /\ Registry!SyncLevel(r) =>
                /\ Effect(a, r, record[a], Registry!SlotsOf(a), IF core[a] = NoAgent THEN NoAgent ELSE req[r].seen.level,
                          Registry!Idle)
                /\ Unfailing /\ Ledgers
<1> USE RegTyped, SlotsUnwritten, Unwritten DEF Registry!Stay, Registry!End, Registry!Kept, Registry!Ensured, Registry!LevelSet,
        Effect, Unfailing, Failing, Ledgers, Going
<1>2. ASSUME Registry!SaveRecord(r)
      PROVE  /\ Effect(a, r, req[r].seen, Registry!SlotsOf(a), core[a], [req[r] EXCEPT !.at = "index"])
             /\ Unfailing /\ Ledgers
  BY <1>2 DEF Registry!SaveRecord
<1>3. ASSUME Registry!SaveIndex(r)
      PROVE /\ Effect(a, r, record[a], Registry!SlotsOf(a), core[a], Going(req[r], Registry!AfterIndex(req[r].op)))
            /\ Unfailing /\ graph' = graph /\ deleted' = deleted /\ index' = index \cup {a}
  BY <1>3 DEF Registry!SaveIndex
<1>5. ASSUME Registry!EnsureCore(r)
      PROVE /\ Effect(a, r, record[a], Registry!SlotsOf(a), IF core[a] = NoAgent THEN NoLevel ELSE core[a],
                      Going(req[r], IF req[r].op = "create" THEN "level" ELSE "idle"))
            /\ Unfailing /\ Ledgers
  BY <1>5 DEF Registry!EnsureCore
<1>6. ASSUME Registry!SyncLevel(r)
      PROVE /\ Effect(a, r, record[a], Registry!SlotsOf(a), IF core[a] = NoAgent THEN NoAgent ELSE req[r].seen.level,
                          Registry!Idle)
            /\ Unfailing /\ Ledgers
  BY <1>6 DEF Registry!SyncLevel
<1>8. QED BY <1>2, <1>3, <1>5, <1>6

(* The steps that free key slots. *)
LEMMA Freed ==
    ASSUME RegInv, NEW a \in Agents, NEW k \in 0 .. MaxKeys,
           slots' = [slots EXCEPT ![k] = NoAgent], k # 0 => slots[k] \in {a, NoAgent}
    PROVE  /\ Registry!SlotsOf(a)' = Registry!SlotsOf(a) \ {k}
           /\ \A b \in Agents \ {a} : Registry!SlotsOf(b)' = Registry!SlotsOf(b)
<1>1. slots \in [1 .. MaxKeys -> Agents \cup {NoAgent}]
  BY RegTypes DEF RegInv, AgentsTyped
<1>2. \A n \in 1 .. MaxKeys : slots'[n] = IF n = k THEN NoAgent ELSE slots[n]
  BY <1>1
<1>3. QED BY <1>2, AdminAssumption DEF Registry!SlotsOf

LEMMA RevokesDo ==
    ASSUME RegInv, NEW r \in Registry!Requests, NEW a \in Agents, req[r].agent = a
    PROVE  /\ Registry!RevokeKnown(r) =>
                /\ Effect(a, r, record[a], Registry!SlotsOf(a) \ {req[r].seen.hash}, core[a],
                          [req[r] EXCEPT !.at = "store"])
                /\ Unfailing /\ Ledgers
           /\ Registry!RevokeOne(r) =>
                \E k \in Registry!SlotsOf(a) :
                    /\ Effect(a, r, record[a], Registry!SlotsOf(a) \ {k}, core[a],
                              [req[r] EXCEPT !.todo = @ \ {k}])
                    /\ Unfailing /\ Ledgers
           /\ Registry!Rollback(r) =>
                /\ \/ Effect(a, r, record[a], Registry!SlotsOf(a) \ {req[r].key}, core[a], Registry!Idle) /\ Unfailing
                   \/ \E sl \in SUBSET Registry!SlotsOf(a) :
                         Effect(a, r, record[a], sl, core[a], Registry!Idle) /\ Failing(a)
                /\ Ledgers
<1>0. /\ req[r].seen.hash \in 0 .. MaxKeys /\ req[r].key \in 0 .. MaxKeys
      /\ OwnKey(req[r].seen.hash, a) /\ OwnKey(req[r].key, a)
  BY RegTyped, AdminAssumption DEF RegInv, KeysSound, ReqType, Registry!Records, Registry!NoRecord
<1> USE RegTyped, SlotsUnwritten, Unwritten DEF Registry!Stay, Registry!End, Registry!Fault, Registry!Mark, Registry!Kept,
        Registry!Freed, Effect, Unfailing, Failing, Ledgers
<1>1. ASSUME Registry!RevokeKnown(r)
      PROVE  /\ Effect(a, r, record[a], Registry!SlotsOf(a) \ {req[r].seen.hash}, core[a],
                       [req[r] EXCEPT !.at = "store"])
             /\ Unfailing /\ Ledgers
  <2>1. slots' = [slots EXCEPT ![req[r].seen.hash] = NoAgent]
    BY <1>1 DEF Registry!RevokeKnown
  <2>2. /\ Registry!SlotsOf(a)' = Registry!SlotsOf(a) \ {req[r].seen.hash}
        /\ \A b \in Agents \ {a} : Registry!SlotsOf(b)' = Registry!SlotsOf(b)
    BY <1>0, <2>1, Freed DEF OwnKey
  <2>3. QED BY <1>1, <2>2 DEF Registry!RevokeKnown
<1>2. ASSUME Registry!RevokeOne(r)
      PROVE  \E k \in Registry!SlotsOf(a) :
                 /\ Effect(a, r, record[a], Registry!SlotsOf(a) \ {k}, core[a],
                           [req[r] EXCEPT !.todo = @ \ {k}])
                 /\ Unfailing /\ Ledgers
  <2>1. PICK k \in Registry!SlotsOf(a) : /\ slots' = [slots EXCEPT ![k] = NoAgent]
                                         /\ req' = [req EXCEPT ![r].todo = @ \ {k}]
    BY <1>2 DEF Registry!RevokeOne
  <2>2. k \in 0 .. MaxKeys /\ slots[k] = a
    BY AdminAssumption DEF Registry!SlotsOf
  <2>3. /\ Registry!SlotsOf(a)' = Registry!SlotsOf(a) \ {k}
        /\ \A b \in Agents \ {a} : Registry!SlotsOf(b)' = Registry!SlotsOf(b)
    BY <2>1, <2>2, Freed
  <2>4. QED BY <1>2, <2>1, <2>3 DEF Registry!RevokeOne
<1>3. ASSUME Registry!Rollback(r)
      PROVE  /\ \/ Effect(a, r, record[a], Registry!SlotsOf(a) \ {req[r].key}, core[a], Registry!Idle) /\ Unfailing
                \/ \E sl \in SUBSET Registry!SlotsOf(a) :
                      Effect(a, r, record[a], sl, core[a], Registry!Idle) /\ Failing(a)
             /\ Ledgers
  <2>0. ASSUME slots' = [slots EXCEPT ![req[r].key] = NoAgent]
        PROVE  /\ Registry!SlotsOf(a)' = Registry!SlotsOf(a) \ {req[r].key}
               /\ \A b \in Agents \ {a} : Registry!SlotsOf(b)' = Registry!SlotsOf(b)
    BY <1>0, <2>0, Freed DEF OwnKey
  <2>1. CASE slots' = [slots EXCEPT ![req[r].key] = NoAgent] /\ Registry!Kept
    BY <1>3, <2>0, <2>1 DEF Registry!Rollback
  <2>2. CASE Registry!Fault(req[r].agent) /\ slots' = slots /\ unclaimed' = unclaimed
    <3>1. Effect(a, r, record[a], Registry!SlotsOf(a), core[a], Registry!Idle) /\ Failing(a) /\ Ledgers
      BY <1>3, <2>2 DEF Registry!Rollback
    <3>2. QED BY <3>1
  <2>3. CASE /\ Registry!Fault(req[r].agent) /\ slots' = [slots EXCEPT ![req[r].key] = NoAgent]
             /\ unclaimed' = unclaimed
    <3>1. Effect(a, r, record[a], Registry!SlotsOf(a) \ {req[r].key}, core[a], Registry!Idle) /\ Failing(a) /\ Ledgers
      BY <1>3, <2>0, <2>3 DEF Registry!Rollback
    <3>2. QED BY <3>1
  <2>4. QED BY <1>3, <2>1, <2>2, <2>3 DEF Registry!Rollback
<1>4. QED BY <1>1, <1>2, <1>3

(* The steps of a scan and of a deletion. *)
LEMMA ScansDo ==
    ASSUME RegInv, NEW r \in Registry!Requests, NEW a \in Agents, req[r].agent = a
    PROVE  /\ Registry!SkipSlot(r) =>
                \E k \in req[r].todo :
                    /\ Effect(a, r, record[a], Registry!SlotsOf(a), core[a], [req[r] EXCEPT !.todo = @ \ {k}])
                    /\ touched' = [touched EXCEPT ![a] = @ \cup {"skip"}] /\ faults' = faults + 1 /\ Ledgers
           /\ Registry!ScanDone(r) =>
                /\ Effect(a, r, record[a], Registry!SlotsOf(a), core[a], Going(req[r], Registry!AfterScan(req[r].op)))
                /\ Unfailing /\ Ledgers
           /\ Registry!DeleteGraph(r) =>
                /\ Effect(a, r, record[a], Registry!SlotsOf(a), NoAgent,
                          [req[r] EXCEPT !.at = "scan", !.todo = Registry!SlotsOf(a)])
                /\ Unfailing /\ index' = index /\ deleted' = deleted /\ graph' = graph \ {a}
           /\ Registry!DropRecord(r) =>
                /\ Effect(a, r, Registry!NoRecord, Registry!SlotsOf(a), core[a], [req[r] EXCEPT !.at = "unindex"])
                /\ Unfailing /\ Ledgers
           /\ Registry!DropIndex(r) =>
                /\ Effect(a, r, record[a], Registry!SlotsOf(a), core[a], Registry!Idle)
                /\ Unfailing /\ graph' = graph /\ index' = index \ {a} /\ deleted' = deleted \cup {a}
<1> USE RegTyped, SlotsUnwritten, Unwritten DEF Registry!Stay, Registry!End, Registry!Fault, Registry!Mark, Registry!Kept,
        Effect, Unfailing, Failing, Ledgers, Going
<1>1. ASSUME Registry!SkipSlot(r)
      PROVE  \E k \in req[r].todo :
               /\ Effect(a, r, record[a], Registry!SlotsOf(a), core[a], [req[r] EXCEPT !.todo = @ \ {k}])
               /\ touched' = [touched EXCEPT ![a] = @ \cup {"skip"}] /\ faults' = faults + 1 /\ Ledgers
  BY <1>1 DEF Registry!SkipSlot
<1>2. ASSUME Registry!ScanDone(r)
      PROVE  /\ Effect(a, r, record[a], Registry!SlotsOf(a), core[a], Going(req[r], Registry!AfterScan(req[r].op)))
             /\ Unfailing /\ Ledgers
  BY <1>2 DEF Registry!ScanDone
<1>4. ASSUME Registry!DeleteGraph(r)
      PROVE  /\ Effect(a, r, record[a], Registry!SlotsOf(a), NoAgent,
                       [req[r] EXCEPT !.at = "scan", !.todo = Registry!SlotsOf(a)])
             /\ Unfailing /\ index' = index /\ deleted' = deleted /\ graph' = graph \ {a}
  BY <1>4 DEF Registry!DeleteGraph
<1>6. ASSUME Registry!DropRecord(r)
      PROVE  /\ Effect(a, r, Registry!NoRecord, Registry!SlotsOf(a), core[a], [req[r] EXCEPT !.at = "unindex"])
             /\ Unfailing /\ Ledgers
  BY <1>6 DEF Registry!DropRecord
<1>7. ASSUME Registry!DropIndex(r)
      PROVE  /\ Effect(a, r, record[a], Registry!SlotsOf(a), core[a], Registry!Idle)
             /\ Unfailing /\ graph' = graph /\ index' = index \ {a} /\ deleted' = deleted \cup {a}
  BY <1>7 DEF Registry!DropIndex
<1>9. QED BY <1>1, <1>2, <1>4, <1>6, <1>7

(* The steps that fail: their command was carried out or not. *)
Cores == Levels \cup {NoLevel, NoAgent}
LEMMA ErrorsDo ==
    ASSUME RegInv, NEW r \in Registry!Requests, NEW a \in Agents, req[r].agent = a
    PROVE  /\ Registry!StoreKeyError(r) => \E sl \in SUBSET (1 .. MaxKeys) :
                /\ Effect(a, r, record[a], sl, core[a], Registry!Idle)
                /\ Failing(a) /\ Ledgers /\ sl \ unclaimed' \subseteq Registry!SlotsOf(a)
           /\ Registry!SaveError(r) => \E rc \in {record[a], req[r].seen} :
                /\ Effect(a, r, rc, Registry!SlotsOf(a), core[a], Going(req[r], Registry!AfterSaveError(req[r].op)))
                /\ Failing(a) /\ graph' = graph /\ deleted' = deleted /\ index' \in {index, index \cup {a}}
                /\ rc # record[a] => req[r].at = "save"
                /\ req[r].op \in {"create", "import"} => {req[r].key} \ {0} \subseteq unclaimed'
           /\ Registry!CoreError(r) => \E co \in Cores :
                Effect(a, r, record[a], Registry!SlotsOf(a), co, Registry!Idle) /\ Failing(a) /\ Ledgers
           /\ Registry!RevokeError(r) => \E sl \in SUBSET Registry!SlotsOf(a) :
                /\ Effect(a, r, record[a], sl, core[a],
                          Going(req[r], IF req[r].op = "rotate" THEN "idle" ELSE Registry!AfterScan(req[r].op)))
                /\ Failing(a) /\ Ledgers
           /\ Registry!DeleteGraphError(r) => \E co \in Cores :
                /\ Effect(a, r, record[a], Registry!SlotsOf(a), co, Registry!Idle)
                /\ Failing(a) /\ index' = index /\ deleted' = deleted /\ graph' \in {graph, graph \ {a}}
           /\ Registry!DropError(r) => \E rc \in {record[a], Registry!NoRecord} :
                /\ Effect(a, r, rc, Registry!SlotsOf(a), core[a], Registry!Idle)
                /\ Failing(a) /\ graph' = graph /\ index' \in {index, index \ {a}}
                /\ deleted' \in {deleted, deleted \cup {a}}
<1>0. /\ core[a] \in Cores /\ req[r].seen.level \in Levels \cup {NoLevel}
      /\ Registry!SlotsOf(a) \in SUBSET (1 .. MaxKeys)
      /\ req[r].seen.hash \in 0 .. MaxKeys /\ OwnKey(req[r].seen.hash, a)
      /\ keys \in 0 .. MaxKeys /\ \A k \in 1 .. MaxKeys : k > keys => slots[k] = NoAgent
  BY RegTyped, AdminAssumption DEF RegInv, KeysSound, AgentsTyped, CountsTyped, ReqType, Registry!Records, Registry!NoRecord, Cores,
     Registry!SlotsOf
<1> USE RegTyped, SlotsUnwritten, Unwritten DEF Registry!Stay, Registry!End, Registry!Fault, Registry!Mark,
        Effect, Failing, Ledgers, Going
<1>1. ASSUME Registry!StoreKeyError(r)
      PROVE  \E sl \in SUBSET (1 .. MaxKeys) :
                /\ Effect(a, r, record[a], sl, core[a], Registry!Idle)
                /\ Failing(a) /\ Ledgers /\ sl \ unclaimed' \subseteq Registry!SlotsOf(a)
  <2>1. CASE slots' = slots /\ unclaimed' = unclaimed
    <3>1. Effect(a, r, record[a], Registry!SlotsOf(a), core[a], Registry!Idle) /\ Failing(a) /\ Ledgers
      BY <1>1, <2>1 DEF Registry!StoreKeyError
    <3>2. QED BY <1>0, <3>1
  <2>2. CASE Registry!NewSlot(req[r].agent) /\ unclaimed' = unclaimed \cup {keys + 1}
    <3>1. keys + 1 \in 1 .. MaxKeys /\ slots[keys + 1] = NoAgent
      BY <1>0, <2>2, AdminAssumption DEF Registry!NewSlot
    <3>2. /\ Registry!SlotsOf(a)' = Registry!SlotsOf(a) \cup {keys + 1}
          /\ \A b \in Agents \ {a} : Registry!SlotsOf(b)' = Registry!SlotsOf(b)
      BY <2>2, <3>1, AdminAssumption DEF Registry!NewSlot, Registry!SlotsOf, AgentsTyped
    <3>3. /\ Effect(a, r, record[a], Registry!SlotsOf(a) \cup {keys + 1}, core[a], Registry!Idle) /\ Failing(a) /\ Ledgers
      BY <1>1, <2>2, <3>2 DEF Registry!StoreKeyError
    <3>4. Registry!SlotsOf(a) \cup {keys + 1} \in SUBSET (1 .. MaxKeys)
      BY <1>0, <3>1
    <3>5. QED BY <2>2, <3>3, <3>4
  <2>3. QED BY <1>1, <2>1, <2>2 DEF Registry!StoreKeyError
<1>2. ASSUME Registry!SaveError(r)
      PROVE  \E rc \in {record[a], req[r].seen} :
                /\ Effect(a, r, rc, Registry!SlotsOf(a), core[a], Going(req[r], Registry!AfterSaveError(req[r].op)))
                /\ Failing(a) /\ graph' = graph /\ deleted' = deleted /\ index' \in {index, index \cup {a}}
                /\ rc # record[a] => req[r].at = "save"
                /\ req[r].op \in {"create", "import"} => {req[r].key} \ {0} \subseteq unclaimed'
  <2>1. PICK rc \in {record[a], req[r].seen} : /\ record' = [record EXCEPT ![a] = rc]
                                              /\ rc # record[a] => req[r].at = "save"
                                              /\ index' \in {index, index \cup {a}}
    BY <1>2 DEF Registry!SaveError
  <2>2. QED BY <1>2, <2>1 DEF Registry!SaveError
<1>3. ASSUME Registry!CoreError(r)
      PROVE  \E co \in Cores :
                Effect(a, r, record[a], Registry!SlotsOf(a), co, Registry!Idle) /\ Failing(a) /\ Ledgers
  <2>1. PICK co \in Cores : core' = [core EXCEPT ![a] = co]
    BY <1>0, <1>3 DEF Registry!CoreError, Registry!Ensured, Registry!LevelSet, Cores
  <2>2. QED BY <1>3, <2>1 DEF Registry!CoreError
<1>4. ASSUME Registry!RevokeError(r)
      PROVE  \E sl \in SUBSET Registry!SlotsOf(a) :
                /\ Effect(a, r, record[a], sl, core[a],
                          Going(req[r], IF req[r].op = "rotate" THEN "idle" ELSE Registry!AfterScan(req[r].op)))
                /\ Failing(a) /\ Ledgers
  <2>1. \E sl \in SUBSET Registry!SlotsOf(a) : /\ Registry!SlotsOf(a)' = sl
                                               /\ \A b \in Agents \ {a} : Registry!SlotsOf(b)' = Registry!SlotsOf(b)
    <3>1. CASE slots' = slots
      BY <3>1
    <3>2. CASE slots' = [slots EXCEPT ![req[r].seen.hash] = NoAgent]
      <4>1. /\ Registry!SlotsOf(a)' = Registry!SlotsOf(a) \ {req[r].seen.hash}
            /\ \A b \in Agents \ {a} : Registry!SlotsOf(b)' = Registry!SlotsOf(b)
        BY <1>0, <3>2, Freed DEF OwnKey
      <4>2. QED BY <4>1
    <3>3. CASE \E k \in Registry!SlotsOf(a) : slots' = [slots EXCEPT ![k] = NoAgent]
      <4>1. PICK k \in Registry!SlotsOf(a) : slots' = [slots EXCEPT ![k] = NoAgent]
        BY <3>3
      <4>2. k \in 0 .. MaxKeys /\ slots[k] = a
        BY AdminAssumption DEF Registry!SlotsOf
      <4>3. QED BY <4>1, <4>2, Freed
    <3>4. QED BY <1>4, <3>1, <3>2, <3>3 DEF Registry!RevokeError, Registry!Freed
  <2>2. QED BY <1>4, <2>1 DEF Registry!RevokeError
<1>5. ASSUME Registry!DeleteGraphError(r)
      PROVE  \E co \in Cores :
                /\ Effect(a, r, record[a], Registry!SlotsOf(a), co, Registry!Idle)
                /\ Failing(a) /\ index' = index /\ deleted' = deleted /\ graph' \in {graph, graph \ {a}}
  <2>1. PICK co \in Cores : core' = [core EXCEPT ![a] = co]
    BY <1>0, <1>5 DEF Registry!DeleteGraphError, Cores
  <2>2. QED BY <1>5, <2>1 DEF Registry!DeleteGraphError
<1>6. ASSUME Registry!DropError(r)
      PROVE  \E rc \in {record[a], Registry!NoRecord} :
                /\ Effect(a, r, rc, Registry!SlotsOf(a), core[a], Registry!Idle)
                /\ Failing(a) /\ graph' = graph /\ index' \in {index, index \ {a}}
                /\ deleted' \in {deleted, deleted \cup {a}}
  <2>1. PICK rc \in {record[a], Registry!NoRecord} : record' = [record EXCEPT ![a] = rc]
    BY <1>6 DEF Registry!DropError
  <2>2. QED BY <1>6, <2>1 DEF Registry!DropError
<1>7. QED BY <1>1, <1>2, <1>3, <1>4, <1>5, <1>6

-----------------------------------------------------------------------------
(* Types and shapes. *)
ReqGood(q) == q \in ReqType /\ ReqShape(q)

LEMMA Shaped ==
    ASSUME RegInv, NEW r \in Registry!Requests, NEW a \in Agents, req[r].agent = a
    PROVE  /\ ReqGood(Registry!Idle)
           /\ req[r].at = "save" => ReqGood([req[r] EXCEPT !.at = "index"])
           /\ req[r].at = "index" => ReqGood(Going(req[r], Registry!AfterIndex(req[r].op)))
           /\ req[r].at \in {"save", "index"} => ReqGood(Going(req[r], Registry!AfterSaveError(req[r].op)))
           /\ req[r].at = "core" => ReqGood(Going(req[r], IF req[r].op = "create" THEN "level" ELSE "idle"))
           /\ req[r].at = "store" => \A k \in 1 .. MaxKeys :
                ReqGood([req[r] EXCEPT !.at = "save", !.key = k, !.seen.hash = k])
           /\ req[r].at = "revoke" => ReqGood([req[r] EXCEPT !.at = "store"])
           /\ \A k \in 1 .. MaxKeys : ReqGood([req[r] EXCEPT !.todo = @ \ {k}])
           /\ req[r].at = "scan" => ReqGood(Going(req[r], Registry!AfterScan(req[r].op)))
           /\ req[r].at \in {"scan", "revoke"} =>
                ReqGood(Going(req[r], IF req[r].op = "rotate" THEN "idle" ELSE Registry!AfterScan(req[r].op)))
           /\ req[r].at = "graph" => ReqGood([req[r] EXCEPT !.at = "scan", !.todo = Registry!SlotsOf(a)])
           /\ req[r].at = "unsave" => ReqGood([req[r] EXCEPT !.at = "unindex"])
<1> DEFINE q == req[r]
<1>0. q \in ReqType /\ ReqShape(q) /\ q # Registry!Idle /\ q.agent = a
  BY RegTyped, IdleReq
<1>1. \/ q.op = "create" /\ q.at \in {"store", "save", "index", "core", "level"}
      \/ q.op = "rotate" /\ q.at \in {"revoke", "scan", "store", "save", "index", "rollback"}
      \/ q.op = "update" /\ q.at \in {"save", "index", "level"}
      \/ q.op = "import" /\ q.at \in {"store", "save", "index", "core"}
      \/ q.op = "delete" /\ q.at \in {"graph", "scan", "unsave", "unindex"}
  BY <1>0 DEF ReqShape
<1>2. q.op # "delete" => q.seen \in [hash : 0 .. MaxKeys, level : Levels]
  BY <1>0 DEF ReqShape
<1>3. /\ {"save", "index", "rollback", "core", "level", "store", "scan", "unsave", "unindex"} \subseteq Registry!Steps
      /\ Registry!SlotsOf(a) \subseteq 1 .. MaxKeys
  BY DEF Registry!Steps, Registry!SlotsOf
<1> HIDE DEF q
<1>4. ASSUME NEW t \in Registry!Steps PROVE [q EXCEPT !.at = t] \in ReqType
  BY <1>0 DEF ReqType
<1>5. ReqGood(Registry!Idle)
  BY IdleReq DEF ReqGood, ReqShape
<1>6. q.at = "save" => ReqGood([q EXCEPT !.at = "index"])
  BY <1>0, <1>1, <1>2, <1>3, <1>4 DEF ReqGood, ReqShape, ReqType
<1>7. q.at = "index" => ReqGood(Going(q, Registry!AfterIndex(q.op)))
  BY <1>0, <1>1, <1>2, <1>3, <1>4, <1>5 DEF ReqGood, ReqShape, ReqType, Going, Registry!AfterIndex
<1>8. q.at \in {"save", "index"} => ReqGood(Going(q, Registry!AfterSaveError(q.op)))
  BY <1>0, <1>1, <1>2, <1>3, <1>4, <1>5 DEF ReqGood, ReqShape, ReqType, Going, Registry!AfterSaveError
<1>9. q.at = "core" => ReqGood(Going(q, IF q.op = "create" THEN "level" ELSE "idle"))
  BY <1>0, <1>1, <1>2, <1>3, <1>4, <1>5 DEF ReqGood, ReqShape, ReqType, Going
<1>10. ASSUME q.at = "store", NEW k \in 1 .. MaxKeys
       PROVE ReqGood([q EXCEPT !.at = "save", !.key = k, !.seen.hash = k])
  <2> DEFINE p == [q EXCEPT !.at = "save", !.key = k, !.seen.hash = k]
  <2>1. /\ p.op = q.op /\ p.agent = q.agent /\ p.at = "save" /\ p.seen = [q.seen EXCEPT !.hash = k]
        /\ p.found = q.found /\ p.key = k /\ p.todo = q.todo
    BY <1>0 DEF ReqType
  <2>2. q.op # "delete" /\ p.seen \in [hash : 0 .. MaxKeys, level : Levels]
    BY <1>1, <1>2, <1>10, <2>1, AdminAssumption
  <2>3. k \in 0 .. MaxKeys
    BY AdminAssumption
  <2>4. p \in ReqType
    BY <1>0, <1>3, <2>2, <2>3 DEF ReqType, Registry!Records
  <2> HIDE DEF p
  <2>5. ReqShape(p)
    BY <1>0, <1>1, <1>10, <2>1, <2>2 DEF ReqShape
  <2>6. ReqGood(p)
    BY <2>4, <2>5 DEF ReqGood
  <2>7. QED BY <2>6 DEF p
<1>11. q.at = "revoke" => ReqGood([q EXCEPT !.at = "store"])
  BY <1>0, <1>1, <1>2, <1>3, <1>4 DEF ReqGood, ReqShape, ReqType
<1>12. ASSUME NEW k \in 1 .. MaxKeys PROVE ReqGood([q EXCEPT !.todo = @ \ {k}])
  <2>1. [q EXCEPT !.todo = @ \ {k}] \in ReqType
    BY <1>0 DEF ReqType
  <2>2. QED BY <1>0, <1>1, <1>2, <2>1 DEF ReqGood, ReqShape, ReqType
<1>13. q.at = "scan" => ReqGood(Going(q, Registry!AfterScan(q.op)))
  BY <1>0, <1>1, <1>2, <1>3, <1>4, <1>5 DEF ReqGood, ReqShape, ReqType, Going, Registry!AfterScan
<1>14. q.at \in {"scan", "revoke"} =>
         ReqGood(Going(q, IF q.op = "rotate" THEN "idle" ELSE Registry!AfterScan(q.op)))
  BY <1>0, <1>1, <1>2, <1>3, <1>4, <1>5 DEF ReqGood, ReqShape, ReqType, Going, Registry!AfterScan
<1>15. q.at = "graph" => ReqGood([q EXCEPT !.at = "scan", !.todo = Registry!SlotsOf(a)])
  <2>1. [q EXCEPT !.at = "scan", !.todo = Registry!SlotsOf(a)] \in ReqType
    BY <1>0, <1>3 DEF ReqType
  <2>2. QED BY <1>0, <1>1, <1>2, <2>1 DEF ReqGood, ReqShape, ReqType
<1>16. q.at = "unsave" => ReqGood([q EXCEPT !.at = "unindex"])
  BY <1>0, <1>1, <1>2, <1>3, <1>4 DEF ReqGood, ReqShape, ReqType
<1>17. QED
  BY <1>5, <1>6, <1>7, <1>8, <1>9, <1>10, <1>11, <1>12, <1>13, <1>14, <1>15, <1>16 DEF q

(* A step of a request changes its agent by one of these. *)
StepEffect(a, r) ==
    \E rc \in Registry!Records, sl \in SUBSET (1 .. MaxKeys), co \in Levels \cup {NoLevel, NoAgent},
       q \in {x \in ReqType : ReqShape(x)} :
          Effect(a, r, rc, sl, co, q) /\ q.agent \in {a, NoAgent}

(* Keys are only added, and slots of old keys only freed. *)
SlotEffect ==
    /\ keys' \in keys .. MaxKeys /\ slots' \in [1 .. MaxKeys -> Agents \cup {NoAgent}]
    /\ \A k \in 1 .. MaxKeys : k > keys' => slots'[k] = NoAgent
    /\ \A k \in 1 .. keys : slots'[k] \in {slots[k], NoAgent}
MarkEffect(a) ==
    \/ Unfailing
    \/ /\ faults < MaxFaults /\ faults' = faults + 1
       /\ \E m \in {"fault", "skip"} : touched' = [touched EXCEPT ![a] = @ \cup {m}]
LedgerEffect(a) ==
    /\ index' \in {index, index \cup {a}, index \ {a}}
    /\ graph' \in {graph, graph \ {a}}
    /\ deleted' \in {deleted, deleted \cup {a}}

Erring(r) == \/ Registry!StoreKeyError(r) \/ Registry!SaveError(r) \/ Registry!CoreError(r) \/ Registry!RevokeError(r)
             \/ Registry!DeleteGraphError(r) \/ Registry!DropError(r)

(* What the failing steps have in common. *)
LEMMA ErrorEffect ==
    ASSUME RegInv, NEW r \in Registry!Requests, Erring(r), NEW a \in Agents, req[r].agent = a
    PROVE  \E rc \in {record[a], req[r].seen, Registry!NoRecord}, sl \in SUBSET (1 .. MaxKeys), co \in Cores : \E t :
              Effect(a, r, rc, sl, co, Going(req[r], t)) /\ Failing(a) /\ ReqGood(Going(req[r], t)) /\ LedgerEffect(a)
<1> DEFINE Goal == \E rc \in {record[a], req[r].seen, Registry!NoRecord}, sl \in SUBSET (1 .. MaxKeys), co \in Cores : \E t :
              Effect(a, r, rc, sl, co, Going(req[r], t)) /\ Failing(a) /\ ReqGood(Going(req[r], t)) /\ LedgerEffect(a)
<1>0. core[a] \in Cores /\ Registry!SlotsOf(a) \in SUBSET (1 .. MaxKeys) /\ Going(req[r], "idle") = Registry!Idle
  BY RegTyped DEF AgentsTyped, Cores, Registry!SlotsOf, Going
<1>s. ReqGood(Registry!Idle)
  BY Shaped
<1>1. CASE Registry!StoreKeyError(r)
  <2>1. PICK sl \in SUBSET (1 .. MaxKeys) : Effect(a, r, record[a], sl, core[a], Registry!Idle) /\ Failing(a) /\ Ledgers
    BY <1>1, ErrorsDo
  <2>2. LedgerEffect(a)
    BY <2>1 DEF Ledgers, LedgerEffect
  <2>3. QED BY <1>0, <1>s, <2>1, <2>2
<1>2. CASE Registry!SaveError(r)
  <2>1. PICK rc \in {record[a], req[r].seen} :
          /\ Effect(a, r, rc, Registry!SlotsOf(a), core[a], Going(req[r], Registry!AfterSaveError(req[r].op)))
          /\ Failing(a) /\ graph' = graph /\ deleted' = deleted /\ index' \in {index, index \cup {a}}
    BY <1>2, ErrorsDo
  <2>2. LedgerEffect(a)
    BY <2>1 DEF LedgerEffect
  <2>3. ReqGood(Going(req[r], Registry!AfterSaveError(req[r].op)))
    BY <1>2, Shaped DEF Registry!SaveError
  <2>4. QED BY <1>0, <2>1, <2>2, <2>3
<1>3. CASE Registry!CoreError(r)
  <2>1. PICK co \in Cores : Effect(a, r, record[a], Registry!SlotsOf(a), co, Registry!Idle) /\ Failing(a) /\ Ledgers
    BY <1>3, ErrorsDo
  <2>2. LedgerEffect(a)
    BY <2>1 DEF Ledgers, LedgerEffect
  <2>3. QED BY <1>0, <1>s, <2>1, <2>2
<1>4. CASE Registry!RevokeError(r)
  <2> DEFINE t == IF req[r].op = "rotate" THEN "idle" ELSE Registry!AfterScan(req[r].op)
  <2>1. PICK sl \in SUBSET Registry!SlotsOf(a) :
          Effect(a, r, record[a], sl, core[a], Going(req[r], t)) /\ Failing(a) /\ Ledgers
    BY <1>4, ErrorsDo
  <2>2. LedgerEffect(a) /\ sl \in SUBSET (1 .. MaxKeys)
    BY <1>0, <2>1 DEF Ledgers, LedgerEffect
  <2>3. ReqGood(Going(req[r], t))
    BY <1>4, Shaped DEF Registry!RevokeError
  <2> HIDE DEF t
  <2>4. QED BY <1>0, <2>1, <2>2, <2>3
<1>5. CASE Registry!DeleteGraphError(r)
  <2>1. PICK co \in Cores : /\ Effect(a, r, record[a], Registry!SlotsOf(a), co, Registry!Idle) /\ Failing(a)
                            /\ index' = index /\ deleted' = deleted /\ graph' \in {graph, graph \ {a}}
    BY <1>5, ErrorsDo
  <2>2. LedgerEffect(a)
    BY <2>1 DEF LedgerEffect
  <2>3. QED BY <1>0, <1>s, <2>1, <2>2
<1>6. CASE Registry!DropError(r)
  <2>1. PICK rc \in {record[a], Registry!NoRecord} :
          /\ Effect(a, r, rc, Registry!SlotsOf(a), core[a], Registry!Idle) /\ Failing(a)
          /\ graph' = graph /\ index' \in {index, index \ {a}} /\ deleted' \in {deleted, deleted \cup {a}}
    BY <1>6, ErrorsDo
  <2>2. LedgerEffect(a)
    BY <2>1 DEF LedgerEffect
  <2>3. QED BY <1>0, <1>s, <2>1, <2>2
<1>7. QED BY <1>1, <1>2, <1>3, <1>4, <1>5, <1>6 DEF Erring

LEMMA StepEffects ==
    ASSUME RegInv, NEW r \in Registry!Requests, Registry!Step(r), NEW a \in Agents, req[r].agent = a
    PROVE  StepEffect(a, r)
<1> DEFINE Reqs == {x \in ReqType : ReqShape(x)}
           sl == Registry!SlotsOf(a)
<1>0. /\ record[a] \in Registry!Records /\ core[a] \in Cores /\ req[r].seen \in Registry!Records
      /\ sl \in SUBSET (1 .. MaxKeys) /\ Registry!NoRecord \in Registry!Records /\ req[r].key \in 0 .. MaxKeys
      /\ req[r].seen.level \in Levels \cup {NoLevel} /\ req[r].todo \in SUBSET (1 .. MaxKeys)
      /\ \A x \in ReqType : ReqGood(x) => x \in Reqs
      /\ req[r] \in ReqType
  BY RegTyped DEF AgentsTyped, ReqType, Registry!Records, Registry!NoRecord, Registry!SlotsOf, ReqGood, Cores
<1>a. Registry!Idle.agent = NoAgent /\ Registry!Idle \in Reqs
  BY IdleReq, Shaped, <1>0 DEF ReqGood
<1>b. ASSUME NEW t PROVE Going(req[r], t).agent \in {a, NoAgent}
  BY <1>0, <1>a DEF Going, ReqType
<1>c. ASSUME NEW rc \in Registry!Records, NEW co \in Cores, NEW q, ReqGood(q), q.agent \in {a, NoAgent}, NEW S \in SUBSET (1 .. MaxKeys),
             Effect(a, r, rc, S, co, q)
      PROVE  StepEffect(a, r)
  BY <1>c DEF StepEffect, ReqGood, Cores
<1> HIDE DEF Reqs, sl
<1>1. ASSUME Registry!StoreKey(r) PROVE StepEffect(a, r)
  <2> DEFINE q == [req[r] EXCEPT !.at = "save", !.key = keys + 1, !.seen.hash = keys + 1]
  <2>1. keys + 1 \in 1 .. MaxKeys /\ req[r].at = "store" /\ Effect(a, r, record[a], sl \cup {keys + 1}, core[a], q)
    BY <1>1, StoreKeyDoes DEF sl
  <2>2. ReqGood(q)
    BY <2>1, Shaped
  <2>3. q.agent = a
    BY <1>0 DEF ReqType
  <2> HIDE DEF q
  <2>4. QED BY <1>0, <1>c, <2>1, <2>2, <2>3
<1>e. ASSUME Erring(r) PROVE StepEffect(a, r)
  <2>p. PICK rc \in {record[a], req[r].seen, Registry!NoRecord}, S \in SUBSET (1 .. MaxKeys), co \in Cores :
          \E t : Effect(a, r, rc, S, co, Going(req[r], t)) /\ ReqGood(Going(req[r], t))
    BY <1>e, ErrorEffect
  <2>1. PICK t : Effect(a, r, rc, S, co, Going(req[r], t)) /\ ReqGood(Going(req[r], t))
    BY <2>p
  <2>2. rc \in Registry!Records /\ Going(req[r], t).agent \in {a, NoAgent}
    BY <1>0, <1>b
  <2>3. QED BY <1>c, <2>1, <2>2
<1>2. ASSUME Registry!DropIndex(r) PROVE StepEffect(a, r)
  <2>1. Effect(a, r, record[a], sl, core[a], Registry!Idle)
    BY <1>2, ScansDo DEF sl
  <2>2. QED BY <1>0, <1>a, <1>c, <2>1, Shaped
<1>3. ASSUME Registry!SaveRecord(r) PROVE StepEffect(a, r)
  <2>1. Effect(a, r, req[r].seen, sl, core[a], [req[r] EXCEPT !.at = "index"]) /\ req[r].at = "save"
    BY <1>3, RecordsDo DEF sl, Registry!SaveRecord
  <2>2. ReqGood([req[r] EXCEPT !.at = "index"]) /\ [req[r] EXCEPT !.at = "index"].agent = a
    BY <1>0, <2>1, Shaped DEF ReqType
  <2>3. QED BY <1>0, <1>c, <2>1, <2>2
<1>4. ASSUME Registry!SaveIndex(r) PROVE StepEffect(a, r)
  <2>1. Effect(a, r, record[a], sl, core[a], Going(req[r], Registry!AfterIndex(req[r].op))) /\ req[r].at = "index"
    BY <1>4, RecordsDo DEF sl, Registry!SaveIndex
  <2>2. QED BY <1>0, <1>b, <1>c, <2>1, Shaped
<1>6. ASSUME Registry!EnsureCore(r) PROVE StepEffect(a, r)
  <2> DEFINE co == IF core[a] = NoAgent THEN NoLevel ELSE core[a]
  <2>1. /\ Effect(a, r, record[a], sl, co, Going(req[r], IF req[r].op = "create" THEN "level" ELSE "idle"))
        /\ req[r].at = "core" /\ co \in Cores
    BY <1>0, <1>6, RecordsDo DEF sl, Registry!EnsureCore, Cores
  <2> HIDE DEF co
  <2>2. QED BY <1>0, <1>b, <1>c, <2>1, Shaped
<1>7. ASSUME Registry!SyncLevel(r) PROVE StepEffect(a, r)
  <2> DEFINE co == IF core[a] = NoAgent THEN NoAgent ELSE req[r].seen.level
  <2>1. Effect(a, r, record[a], sl, co, Registry!Idle) /\ co \in Cores
    BY <1>0, <1>7, RecordsDo DEF sl, Cores
  <2> HIDE DEF co
  <2>2. QED BY <1>0, <1>a, <1>c, <2>1, Shaped
<1>8. ASSUME Registry!RevokeKnown(r) PROVE StepEffect(a, r)
  <2>1. /\ Effect(a, r, record[a], sl \ {req[r].seen.hash}, core[a], [req[r] EXCEPT !.at = "store"])
        /\ req[r].at = "revoke"
    BY <1>8, RevokesDo DEF sl, Registry!RevokeKnown
  <2>2. ReqGood([req[r] EXCEPT !.at = "store"]) /\ [req[r] EXCEPT !.at = "store"].agent = a
    BY <1>0, <2>1, Shaped DEF ReqType
  <2>3. sl \ {req[r].seen.hash} \in SUBSET (1 .. MaxKeys)
    BY <1>0
  <2>4. QED BY <1>0, <1>c, <2>1, <2>2, <2>3
<1>9. ASSUME Registry!RevokeOne(r) PROVE StepEffect(a, r)
  <2>1. PICK k \in sl : Effect(a, r, record[a], sl \ {k}, core[a], [req[r] EXCEPT !.todo = @ \ {k}])
    BY <1>9, RevokesDo DEF sl
  <2>2. ReqGood([req[r] EXCEPT !.todo = @ \ {k}]) /\ [req[r] EXCEPT !.todo = @ \ {k}].agent = a
    BY <1>0, Shaped DEF ReqType
  <2>3. sl \ {k} \in SUBSET (1 .. MaxKeys)
    BY <1>0
  <2>4. QED BY <1>0, <1>c, <2>1, <2>2, <2>3
<1>10. ASSUME Registry!Rollback(r) PROVE StepEffect(a, r)
  <2>1. \E S \in SUBSET sl : Effect(a, r, record[a], S, core[a], Registry!Idle)
    BY <1>10, RevokesDo DEF sl
  <2>2. PICK S \in SUBSET sl : Effect(a, r, record[a], S, core[a], Registry!Idle)
    BY <2>1
  <2>3. S \in SUBSET (1 .. MaxKeys)
    BY <1>0
  <2>4. QED BY <1>0, <1>a, <1>c, <2>2, <2>3, Shaped
<1>11. ASSUME Registry!SkipSlot(r) PROVE StepEffect(a, r)
  <2>1. PICK k \in req[r].todo : Effect(a, r, record[a], sl, core[a], [req[r] EXCEPT !.todo = @ \ {k}])
    BY <1>11, ScansDo DEF sl
  <2>2. ReqGood([req[r] EXCEPT !.todo = @ \ {k}]) /\ [req[r] EXCEPT !.todo = @ \ {k}].agent = a
    BY <1>0, Shaped DEF ReqType
  <2>3. QED BY <1>0, <1>c, <2>1, <2>2
<1>12. ASSUME Registry!ScanDone(r) PROVE StepEffect(a, r)
  <2>1. Effect(a, r, record[a], sl, core[a], Going(req[r], Registry!AfterScan(req[r].op))) /\ req[r].at = "scan"
    BY <1>12, ScansDo DEF sl, Registry!ScanDone
  <2>2. QED BY <1>0, <1>b, <1>c, <2>1, Shaped
<1>14. ASSUME Registry!DeleteGraph(r) PROVE StepEffect(a, r)
  <2>1. /\ Effect(a, r, record[a], sl, NoAgent, [req[r] EXCEPT !.at = "scan", !.todo = sl])
        /\ req[r].at = "graph"
    BY <1>14, ScansDo DEF sl, Registry!DeleteGraph
  <2>2. ReqGood([req[r] EXCEPT !.at = "scan", !.todo = sl]) /\ [req[r] EXCEPT !.at = "scan", !.todo = sl].agent = a
    BY <1>0, <2>1, Shaped DEF ReqType, sl
  <2>3. NoAgent \in Cores
    BY DEF Cores
  <2>4. QED BY <1>0, <1>c, <2>1, <2>2, <2>3
<1>15. ASSUME Registry!DropRecord(r) PROVE StepEffect(a, r)
  <2>1. Effect(a, r, Registry!NoRecord, sl, core[a], [req[r] EXCEPT !.at = "unindex"]) /\ req[r].at = "unsave"
    BY <1>15, ScansDo DEF sl, Registry!DropRecord
  <2>2. ReqGood([req[r] EXCEPT !.at = "unindex"]) /\ [req[r] EXCEPT !.at = "unindex"].agent = a
    BY <1>0, <2>1, Shaped DEF ReqType
  <2>3. QED BY <1>0, <1>c, <2>1, <2>2
<1>16. QED
  BY <1>1, <1>e, <1>2, <1>3, <1>4, <1>6, <1>7, <1>8, <1>9, <1>10, <1>11, <1>12, <1>14, <1>15 DEF Registry!Step, Erring

LEMMA StepMarks ==
    ASSUME RegInv, NEW r \in Registry!Requests, Registry!Step(r), NEW a \in Agents, req[r].agent = a
    PROVE  MarkEffect(a) /\ LedgerEffect(a) /\ starts' = starts
<1>1. starts' = starts
  BY DEF Registry!Step, Registry!StoreKey, Registry!StoreKeyError, Registry!SaveRecord, Registry!SaveIndex, Registry!SaveError,
     Registry!Rollback, Registry!EnsureCore, Registry!SyncLevel, Registry!CoreError, Registry!RevokeKnown, Registry!RevokeOne,
     Registry!SkipSlot, Registry!ScanDone, Registry!RevokeError, Registry!DeleteGraph, Registry!DeleteGraphError,
     Registry!DropRecord, Registry!DropIndex, Registry!DropError, Registry!Kept
<1>2. MarkEffect(a)
  <2>1. CASE \/ Registry!StoreKey(r) \/ Registry!SaveRecord(r) \/ Registry!SaveIndex(r) \/ Registry!EnsureCore(r)
             \/ Registry!SyncLevel(r) \/ Registry!RevokeKnown(r) \/ Registry!RevokeOne(r) \/ Registry!ScanDone(r)
             \/ Registry!DeleteGraph(r) \/ Registry!DropRecord(r) \/ Registry!DropIndex(r)
    BY <2>1 DEF Registry!StoreKey, Registry!SaveRecord, Registry!SaveIndex, Registry!EnsureCore, Registry!SyncLevel,
       Registry!RevokeKnown, Registry!RevokeOne, Registry!ScanDone, Registry!DeleteGraph, Registry!DropRecord,
       Registry!DropIndex, Registry!Kept, MarkEffect, Unfailing
  <2>2. CASE \/ Registry!StoreKeyError(r) \/ Registry!SaveError(r) \/ Registry!CoreError(r) \/ Registry!RevokeError(r)
             \/ Registry!DeleteGraphError(r) \/ Registry!DropError(r)
    BY <2>2 DEF Registry!StoreKeyError, Registry!SaveError, Registry!CoreError, Registry!RevokeError,
       Registry!DeleteGraphError, Registry!DropError, Registry!Fault, Registry!Mark, MarkEffect
  <2>3. CASE Registry!Rollback(r)
    BY <2>3 DEF Registry!Rollback, Registry!Fault, Registry!Mark, Registry!Kept, MarkEffect, Unfailing
  <2>4. CASE Registry!SkipSlot(r)
    BY <2>4 DEF Registry!SkipSlot, Registry!Mark, MarkEffect
  <2>5. QED BY <2>1, <2>2, <2>3, <2>4 DEF Registry!Step
<1>3. LedgerEffect(a)
  <2>1. CASE Ledgers
    BY <2>1 DEF Ledgers, LedgerEffect
  <2>2. CASE Registry!SaveIndex(r) \/ Registry!DeleteGraph(r) \/ Registry!DropIndex(r)
    BY <2>2, RecordsDo, ScansDo DEF LedgerEffect
  <2>3. CASE Erring(r)
    BY <2>3, ErrorEffect
  <2>4. QED BY <2>1, <2>2, <2>3, StoreKeyDoes, RecordsDo, RevokesDo, ScansDo DEF Registry!Step, Erring
<1>4. QED BY <1>1, <1>2, <1>3

LEMMA StepSlots ==
    ASSUME RegInv, NEW r \in Registry!Requests, Registry!Step(r), NEW a \in Agents, req[r].agent = a
    PROVE  SlotEffect
<1>0. /\ slots \in [1 .. MaxKeys -> Agents \cup {NoAgent}] /\ keys \in 0 .. MaxKeys
      /\ \A k \in 1 .. MaxKeys : k > keys => slots[k] = NoAgent
  BY RegTyped DEF RegInv, KeysSound, AgentsTyped, CountsTyped
<1>1. ASSUME slots' = slots, keys' = keys PROVE SlotEffect
  BY <1>0, <1>1, AdminAssumption DEF SlotEffect
<1>2. ASSUME NEW n, slots' = [slots EXCEPT ![n] = NoAgent], keys' = keys PROVE SlotEffect
  <2>1. \A k \in 1 .. MaxKeys : slots'[k] = IF k = n THEN NoAgent ELSE slots[k]
    BY <1>0, <1>2
  <2>2. slots' \in [1 .. MaxKeys -> Agents \cup {NoAgent}]
    BY <1>0, <1>2
  <2>3. keys \in keys .. MaxKeys /\ 1 .. keys \subseteq 1 .. MaxKeys
    BY <1>0, AdminAssumption
  <2>4. QED BY <1>0, <1>2, <2>1, <2>2, <2>3 DEF SlotEffect
<1>c. ASSUME Registry!NewSlot(a) PROVE SlotEffect
  BY <1>0, <1>c, AdminAssumption DEF Registry!NewSlot, SlotEffect
<1>3. CASE Registry!StoreKey(r)
  BY <1>3, <1>c DEF Registry!StoreKey
<1>e. CASE Registry!StoreKeyError(r)
  BY <1>1, <1>c, <1>e DEF Registry!StoreKeyError
<1>4. CASE Registry!RevokeKnown(r)
  BY <1>2, <1>4 DEF Registry!RevokeKnown, Registry!Freed
<1>5. CASE Registry!RevokeOne(r)
  BY <1>2, <1>5 DEF Registry!RevokeOne, Registry!Freed
<1>6. CASE Registry!Rollback(r)
  BY <1>1, <1>2, <1>6 DEF Registry!Rollback, Registry!Freed
<1>f. CASE Registry!RevokeError(r)
  BY <1>1, <1>2, <1>f DEF Registry!RevokeError, Registry!Freed
<1>7. CASE \/ Registry!SaveRecord(r) \/ Registry!SaveIndex(r) \/ Registry!SaveError(r)
           \/ Registry!EnsureCore(r) \/ Registry!SyncLevel(r) \/ Registry!CoreError(r)
  BY <1>1, <1>7 DEF Registry!SaveRecord, Registry!SaveIndex, Registry!SaveError,
     Registry!EnsureCore, Registry!SyncLevel, Registry!CoreError
<1>8. CASE \/ Registry!SkipSlot(r) \/ Registry!ScanDone(r) \/ Registry!DeleteGraph(r)
           \/ Registry!DeleteGraphError(r) \/ Registry!DropRecord(r) \/ Registry!DropIndex(r) \/ Registry!DropError(r)
  BY <1>1, <1>8 DEF Registry!SkipSlot, Registry!ScanDone, Registry!DeleteGraph,
     Registry!DeleteGraphError, Registry!DropRecord, Registry!DropIndex, Registry!DropError
<1>9. QED BY <1>3, <1>e, <1>4, <1>5, <1>6, <1>f, <1>7, <1>8 DEF Registry!Step

(* The keys that nobody was given only grow in number. *)
LEMMA StepClaims ==
    ASSUME RegInv, NEW r \in Registry!Requests, Registry!Step(r), NEW a \in Agents, req[r].agent = a
    PROVE  unclaimed \subseteq unclaimed' /\ unclaimed' \subseteq 1 .. MaxKeys
<1>0. /\ unclaimed \subseteq 1 .. MaxKeys /\ keys \in 0 .. MaxKeys /\ req[r].key \in 0 .. MaxKeys
  BY RegTyped DEF CountsTyped, ReqType
<1>1. unclaimed \subseteq unclaimed'
  BY StepEffects DEF StepEffect, Effect
<1>2. CASE unclaimed' = unclaimed
  BY <1>0, <1>1, <1>2
<1>3. CASE Registry!StoreKeyError(r)
  <2>1. keys < MaxKeys => keys + 1 \in 1 .. MaxKeys
    BY <1>0, AdminAssumption
  <2>2. QED BY <1>0, <1>1, <1>3, <2>1 DEF Registry!StoreKeyError, Registry!NewSlot
<1>4. CASE Registry!SaveError(r)
  <2>1. {req[r].key} \ {0} \subseteq 1 .. MaxKeys
    BY <1>0, AdminAssumption
  <2>2. QED BY <1>0, <1>1, <1>4, <2>1 DEF Registry!SaveError
<1>5. QED
  BY <1>2, <1>3, <1>4 DEF Registry!Step, Registry!StoreKey, Registry!SaveRecord, Registry!SaveIndex, Registry!Rollback,
     Registry!EnsureCore, Registry!SyncLevel, Registry!CoreError, Registry!RevokeKnown, Registry!RevokeOne, Registry!SkipSlot,
     Registry!ScanDone, Registry!RevokeError, Registry!DeleteGraph, Registry!DeleteGraphError, Registry!DropRecord,
     Registry!DropIndex, Registry!DropError, Registry!Kept

LEMMA StepAgent ==
    ASSUME RegInv, NEW r \in Registry!Requests, Registry!Step(r)
    PROVE  req[r].agent \in Agents
<1>1. req[r].at # "idle"
  BY DEF Registry!Step, Registry!StoreKey, Registry!StoreKeyError, Registry!SaveRecord, Registry!SaveIndex, Registry!SaveError,
     Registry!Rollback, Registry!EnsureCore, Registry!SyncLevel, Registry!CoreError, Registry!RevokeKnown, Registry!RevokeOne,
     Registry!SkipSlot, Registry!ScanDone, Registry!RevokeError, Registry!DeleteGraph, Registry!DeleteGraphError,
     Registry!DropRecord, Registry!DropIndex, Registry!DropError
<1>2. QED BY <1>1, RegTyped

(* How a request begins. *)
BeginsWith(r, a, q) ==
    /\ q \in ReqType /\ ReqShape(q) /\ q.agent = a
    /\ req[r] = Registry!Idle /\ starts < MaxStarts /\ starts' = starts + 1
    /\ req' = [req EXCEPT ![r] = q]
    /\ touched' = [touched EXCEPT ![a] = @ \cup (IF Registry!Busy(a) THEN {"overlap"} ELSE {})
                                           \cup (IF q.op = "import" THEN {"import"} ELSE {})]
    /\ record' = record /\ index' = index /\ slots' = slots /\ core' = core /\ graph' = graph
    /\ keys' = keys /\ deleted' = deleted /\ faults' = faults /\ unclaimed' = unclaimed

Request(a, op, step, seen) ==
    [Registry!Idle EXCEPT !.op = op, !.agent = a, !.at = step, !.seen = seen, !.found = Registry!Exists(a),
                          !.todo = IF step = "scan" THEN Registry!SlotsOf(a) ELSE {}]

LEMMA RequestIs ==
    ASSUME NEW a, NEW op, NEW step, NEW seen
    PROVE  LET q == Request(a, op, step, seen) IN
           /\ q.op = op /\ q.agent = a /\ q.at = step /\ q.seen = seen /\ q.key = 0
           /\ q.todo = IF step = "scan" THEN Registry!SlotsOf(a) ELSE {}
BY DEF Request, Registry!Idle

LEMMA IdleBut ==
    ASSUME NEW a \in Agents, NEW op \in Registry!Ops, NEW step \in Registry!Steps, NEW seen \in Registry!Records,
           NEW b \in BOOLEAN, NEW t \in SUBSET (1 .. MaxKeys)
    PROVE  [Registry!Idle EXCEPT !.op = op, !.agent = a, !.at = step, !.seen = seen, !.found = b, !.todo = t] \in ReqType
<1>1. PICK q \in ReqType : q = Registry!Idle
  BY IdleReq
<1>2. [q EXCEPT !.op = op, !.agent = a, !.at = step, !.seen = seen, !.found = b, !.todo = t] \in ReqType
  BY DEF ReqType
<1>3. QED BY <1>1, <1>2

LEMMA RequestTyped ==
    ASSUME RegInv, NEW a \in Agents, NEW op \in Registry!Ops, NEW step \in Registry!Steps, NEW seen \in Registry!Records
    PROVE  Request(a, op, step, seen) \in ReqType
<1>1. Registry!Exists(a) \in BOOLEAN /\ Registry!SlotsOf(a) \in SUBSET (1 .. MaxKeys)
  BY DEF Registry!Exists, Registry!SlotsOf
<1>2. PICK b \in BOOLEAN : b = Registry!Exists(a)
  BY <1>1
<1>3. PICK t \in SUBSET (1 .. MaxKeys) : t = IF step = "scan" THEN Registry!SlotsOf(a) ELSE {}
  BY <1>1
<1>4. [Registry!Idle EXCEPT !.op = op, !.agent = a, !.at = step, !.seen = seen, !.found = b, !.todo = t] \in ReqType
  BY IdleBut
<1>5. QED BY <1>2, <1>3, <1>4, Zenon DEF Request

LEMMA BeginDoes ==
    ASSUME RegInv, NEW r \in Registry!Requests, NEW a \in Agents, NEW op, NEW step, NEW seen,
           Registry!Begin(r, a, op, step, seen), Request(a, op, step, seen) \in ReqType,
           ReqShape(Request(a, op, step, seen))
    PROVE  BeginsWith(r, a, Request(a, op, step, seen))
<1>1. Request(a, op, step, seen).agent = a /\ Request(a, op, step, seen).op = op
  BY RequestIs
<1>2. QED BY <1>1 DEF Registry!Begin, BeginsWith, Request

(* Every request begins from the record as loaded. *)
LEMMA Begins ==
    ASSUME RegInv, NEW r \in Registry!Requests, NEW a \in Agents
    PROVE  /\ Registry!BeginCreate(r, a) => \E l \in Levels :
                BeginsWith(r, a, Request(a, "create", "store", [hash |-> 0, level |-> l]))
           /\ Registry!BeginRotate(r, a) =>
                BeginsWith(r, a, Request(a, "rotate", IF record[a].hash # 0 THEN "revoke" ELSE "scan", record[a]))
           /\ Registry!BeginUpdate(r, a) => \E l \in Levels :
                BeginsWith(r, a, Request(a, "update", "save", [hash |-> record[a].hash, level |-> l]))
           /\ Registry!BeginImport(r, a) => \E l \in Levels :
                BeginsWith(r, a, Request(a, "import", "store", [hash |-> 0, level |-> l]))
           /\ Registry!BeginDelete(r, a) => BeginsWith(r, a, Request(a, "delete", "graph", record[a]))
<1>0. record[a] \in Registry!Records
      /\ (Registry!Exists(a) => record[a] \in [hash : 0 .. MaxKeys, level : Levels])
  BY RegTyped DEF AgentsTyped, Registry!Records, Registry!Exists
<1>k. \A l \in Levels : [hash |-> 0, level |-> l] \in [hash : 0 .. MaxKeys, level : Levels]
  BY AdminAssumption
<1>r. [hash : 0 .. MaxKeys, level : Levels] \subseteq Registry!Records
  BY DEF Registry!Records
<1>s. /\ {"create", "rotate", "update", "import", "delete"} \subseteq Registry!Ops
      /\ {"store", "revoke", "scan", "save", "graph"} \subseteq Registry!Steps
  BY DEF Registry!Ops, Registry!Steps
<1>1. ASSUME Registry!BeginCreate(r, a) PROVE \E l \in Levels :
                BeginsWith(r, a, Request(a, "create", "store", [hash |-> 0, level |-> l]))
  <2>1. PICK l \in Levels : Registry!Begin(r, a, "create", "store", [hash |-> 0, level |-> l])
    BY <1>1 DEF Registry!BeginCreate
  <2>2. Request(a, "create", "store", [hash |-> 0, level |-> l]) \in ReqType
    BY <1>k, <1>r, <1>s, RequestTyped
  <2>3. ReqShape(Request(a, "create", "store", [hash |-> 0, level |-> l]))
    BY <1>k, RequestIs DEF ReqShape
  <2>4. QED BY <2>1, <2>2, <2>3, BeginDoes
<1>2. ASSUME Registry!BeginRotate(r, a)
      PROVE BeginsWith(r, a, Request(a, "rotate", IF record[a].hash # 0 THEN "revoke" ELSE "scan", record[a]))
  <2> DEFINE step == IF record[a].hash # 0 THEN "revoke" ELSE "scan"
  <2>1. Registry!Begin(r, a, "rotate", step, record[a]) /\ step \in {"revoke", "scan"} /\ Registry!Exists(a)
    BY <1>2 DEF Registry!BeginRotate
  <2> HIDE DEF step
  <2>2. Request(a, "rotate", step, record[a]) \in ReqType
    BY <1>0, <1>s, <2>1, RequestTyped
  <2>3. ReqShape(Request(a, "rotate", step, record[a]))
    BY <1>0, <2>1, RequestIs DEF ReqShape
  <2>4. BeginsWith(r, a, Request(a, "rotate", step, record[a]))
    BY <2>1, <2>2, <2>3, BeginDoes
  <2>5. QED BY <2>4 DEF step
<1>3. ASSUME Registry!BeginUpdate(r, a) PROVE \E l \in Levels :
                BeginsWith(r, a, Request(a, "update", "save", [hash |-> record[a].hash, level |-> l]))
  <2>1. PICK l \in Levels : Registry!Begin(r, a, "update", "save", [record[a] EXCEPT !.level = l])
    BY <1>3 DEF Registry!BeginUpdate
  <2>2. [record[a] EXCEPT !.level = l] = [hash |-> record[a].hash, level |-> l]
        /\ [hash |-> record[a].hash, level |-> l] \in [hash : 0 .. MaxKeys, level : Levels]
    BY <1>0, <1>3 DEF Registry!BeginUpdate
  <2>3. Request(a, "update", "save", [hash |-> record[a].hash, level |-> l]) \in ReqType
    BY <1>r, <1>s, <2>2, RequestTyped
  <2>4. ReqShape(Request(a, "update", "save", [hash |-> record[a].hash, level |-> l]))
    BY <2>2, RequestIs DEF ReqShape
  <2>5. QED BY <2>1, <2>2, <2>3, <2>4, BeginDoes
<1>4. ASSUME Registry!BeginImport(r, a) PROVE \E l \in Levels :
                BeginsWith(r, a, Request(a, "import", "store", [hash |-> 0, level |-> l]))
  <2>1. PICK l \in Levels : Registry!Begin(r, a, "import", "store", [hash |-> 0, level |-> l])
    BY <1>4 DEF Registry!BeginImport
  <2>2. Request(a, "import", "store", [hash |-> 0, level |-> l]) \in ReqType
    BY <1>k, <1>r, <1>s, RequestTyped
  <2>3. ReqShape(Request(a, "import", "store", [hash |-> 0, level |-> l]))
    BY <1>k, RequestIs DEF ReqShape
  <2>4. QED BY <2>1, <2>2, <2>3, BeginDoes
<1>5. ASSUME Registry!BeginDelete(r, a) PROVE BeginsWith(r, a, Request(a, "delete", "graph", record[a]))
  <2>1. Registry!Begin(r, a, "delete", "graph", record[a])
    BY <1>5 DEF Registry!BeginDelete
  <2>2. Request(a, "delete", "graph", record[a]) \in ReqType
    BY <1>0, <1>s, RequestTyped
  <2>3. ReqShape(Request(a, "delete", "graph", record[a]))
    BY RequestIs DEF ReqShape
  <2>4. QED BY <2>1, <2>2, <2>3, BeginDoes
<1>6. QED BY <1>1, <1>2, <1>3, <1>4, <1>5

-----------------------------------------------------------------------------
RegActs(r, a) ==
    \/ Registry!BeginCreate(r, a) \/ Registry!BeginRotate(r, a) \/ Registry!BeginUpdate(r, a)
    \/ Registry!BeginImport(r, a) \/ Registry!BeginDelete(r, a)

(* A request begins without a key of its own. *)
Unkeyed(a, q) == q.key = 0 /\ q.seen.hash \in {0, record[a].hash}

(* The changes from outside the handlers, and a crash. *)
SettingDoes(a) ==
    /\ core' = [core EXCEPT ![a] = IF @ = NoAgent THEN NoLevel ELSE @]
    /\ touched' = [touched EXCEPT ![a] = IF Registry!Busy(a) \/ ~Registry!Exists(a) THEN @ \cup {"overlap"} ELSE @]
    /\ record' = record /\ index' = index /\ slots' = slots /\ graph' = graph /\ req' = req /\ keys' = keys
    /\ starts' = starts /\ deleted' = deleted /\ faults' = faults /\ unclaimed' = unclaimed
WriteDoes(a) ==
    /\ Registry!Exists(a) /\ graph' = graph \cup {a}
    /\ touched' = [touched EXCEPT ![a] = IF Registry!Busy(a) THEN @ \cup {"overlap"} ELSE @]
    /\ record' = record /\ index' = index /\ slots' = slots /\ core' = core /\ req' = req /\ keys' = keys
    /\ starts' = starts /\ deleted' = deleted /\ faults' = faults /\ unclaimed' = unclaimed
CrashDoes ==
    /\ faults < MaxFaults /\ faults' = faults + 1
    /\ req' = [r \in Registry!Requests |-> Registry!Idle]
    /\ touched' = [a \in Agents |-> IF Registry!Busy(a) THEN touched[a] \cup {"crash"} ELSE touched[a]]
    /\ record' = record /\ index' = index /\ slots' = slots /\ core' = core /\ graph' = graph /\ keys' = keys
    /\ starts' = starts /\ deleted' = deleted
    /\ unclaimed' = unclaimed \cup ({req[r].key : r \in Registry!Requests} \ {0})

LEMMA RegKinds ==
    ASSUME RegInv, Registry!Next \/ UNCHANGED RegistryVars
    PROVE  \/ \E r \in Registry!Requests, a \in Agents, q \in ReqType :
                RegActs(r, a) /\ BeginsWith(r, a, q) /\ Unkeyed(a, q)
           \/ \E r \in Registry!Requests : Registry!Step(r)
           \/ \E a \in Agents : SettingDoes(a) \/ WriteDoes(a)
           \/ CrashDoes
           \/ UNCHANGED RegistryVars
<1>1. ASSUME NEW r \in Registry!Requests, NEW a \in Agents, RegActs(r, a)
      PROVE  \E q \in ReqType : BeginsWith(r, a, q) /\ Unkeyed(a, q)
  <2>0. \A q : BeginsWith(r, a, q) => q \in ReqType
    BY DEF BeginsWith
  <2>1. ASSUME NEW op, NEW step, NEW h, NEW l, h \in {0, record[a].hash}
        PROVE  Unkeyed(a, Request(a, op, step, [hash |-> h, level |-> l]))
    BY <2>1, RequestIs DEF Unkeyed
  <2>2. ASSUME NEW op, NEW step PROVE Unkeyed(a, Request(a, op, step, record[a]))
    BY <2>2, RequestIs DEF Unkeyed
  <2>3. CASE Registry!BeginCreate(r, a)
    <3>1. PICK l \in Levels : BeginsWith(r, a, Request(a, "create", "store", [hash |-> 0, level |-> l]))
      BY <2>3, Begins
    <3>2. Unkeyed(a, Request(a, "create", "store", [hash |-> 0, level |-> l]))
      BY <2>1
    <3>3. QED BY <2>0, <3>1, <3>2
  <2>4. CASE Registry!BeginRotate(r, a)
    BY <2>0, <2>2, <2>4, Begins
  <2>5. CASE Registry!BeginUpdate(r, a)
    <3>1. PICK l \in Levels : BeginsWith(r, a, Request(a, "update", "save", [hash |-> record[a].hash, level |-> l]))
      BY <2>5, Begins
    <3>2. Unkeyed(a, Request(a, "update", "save", [hash |-> record[a].hash, level |-> l]))
      BY <2>1
    <3>3. QED BY <2>0, <3>1, <3>2
  <2>6. CASE Registry!BeginImport(r, a)
    <3>1. PICK l \in Levels : BeginsWith(r, a, Request(a, "import", "store", [hash |-> 0, level |-> l]))
      BY <2>6, Begins
    <3>2. Unkeyed(a, Request(a, "import", "store", [hash |-> 0, level |-> l]))
      BY <2>1
    <3>3. QED BY <2>0, <3>1, <3>2
  <2>7. CASE Registry!BeginDelete(r, a)
    BY <2>0, <2>2, <2>7, Begins
  <2>8. QED BY <1>1, <2>3, <2>4, <2>5, <2>6, <2>7 DEF RegActs
<1>2. ASSUME NEW a \in Agents, Registry!SetSetting(a) PROVE SettingDoes(a)
  <2>1. CASE Registry!Busy(a) \/ ~Registry!Exists(a)
    BY <1>2, <2>1 DEF Registry!SetSetting, SettingDoes, Registry!Mark, Registry!Ensured
  <2>2. CASE ~(Registry!Busy(a) \/ ~Registry!Exists(a))
    <3>1. touched = [touched EXCEPT ![a] = touched[a]]
      BY RegTyped, RegTypes DEF RegInv, AgentsTyped
    <3>2. QED BY <1>2, <2>2, <3>1 DEF Registry!SetSetting, SettingDoes, Registry!Ensured
  <2>3. QED BY <2>1, <2>2
<1>3. ASSUME NEW a \in Agents, Registry!WriteGraph(a) PROVE WriteDoes(a)
  <2>1. CASE Registry!Busy(a)
    BY <1>3, <2>1 DEF Registry!WriteGraph, WriteDoes, Registry!Mark
  <2>2. CASE ~Registry!Busy(a)
    <3>1. touched = [touched EXCEPT ![a] = touched[a]]
      BY RegTypes DEF RegInv, AgentsTyped
    <3>2. QED BY <1>3, <2>2, <3>1 DEF Registry!WriteGraph, WriteDoes
  <2>3. QED BY <2>1, <2>2
<1>4. ASSUME Registry!Crash PROVE CrashDoes
  BY <1>4 DEF Registry!Crash, CrashDoes
<1>5. QED BY <1>1, <1>2, <1>3, <1>4 DEF Registry!Next, RegActs

LEMMA RegTypesStep ==
    ASSUME RegInv, Registry!Next \/ UNCHANGED RegistryVars
    PROVE  Registry!TypeOK' /\ \A x \in Registry!Requests : ReqShape(req'[x])
<1>0. req \in [Registry!Requests -> ReqType] /\ AgentsTyped /\ CountsTyped /\ \A x \in Registry!Requests : ReqShape(req[x])
  BY RegTypes DEF RegInv
<1> DEFINE Goal == Registry!TypeOK' /\ \A x \in Registry!Requests : ReqShape(req'[x])
<1>t. Registry!TypeOK' <=> req' \in [Registry!Requests -> ReqType] /\ AgentsTyped' /\ CountsTyped'
  BY RegTypes DEF Registry!TypeOK, ReqType, AgentsTyped, CountsTyped, Registry!Requests, Registry!Records, Registry!NoRecord, Registry!Ops,
     Registry!Steps, Registry!Marks
<1>m. /\ "overlap" \in Registry!Marks /\ "import" \in Registry!Marks /\ "crash" \in Registry!Marks
      /\ "fault" \in Registry!Marks /\ "skip" \in Registry!Marks
  BY DEF Registry!Marks
<1>1. ASSUME NEW r \in Registry!Requests, NEW a \in Agents, NEW q \in ReqType, BeginsWith(r, a, q) PROVE Goal
  <2>1. req' \in [Registry!Requests -> ReqType] /\ \A x \in Registry!Requests : ReqShape(req'[x])
    BY <1>0, <1>1 DEF BeginsWith
  <2>2. AgentsTyped'
    BY <1>0, <1>1, <1>m DEF BeginsWith, AgentsTyped
  <2>3. CountsTyped'
    BY <1>0, <1>1, AdminAssumption DEF BeginsWith, CountsTyped
  <2>4. QED BY <1>t, <2>1, <2>2, <2>3
<1>2. ASSUME NEW r \in Registry!Requests, Registry!Step(r) PROVE Goal
  <2>1. PICK a \in Agents : req[r].agent = a
    BY <1>2, StepAgent
  <2>2. StepEffect(a, r) /\ MarkEffect(a) /\ LedgerEffect(a) /\ starts' = starts /\ SlotEffect
    BY <1>2, <2>1, StepEffects, StepMarks, StepSlots
  <2>3. req' \in [Registry!Requests -> ReqType] /\ \A x \in Registry!Requests : ReqShape(req'[x])
    BY <1>0, <2>2 DEF StepEffect, Effect
  <2>4. record' \in [Agents -> Registry!Records] /\ core' \in [Agents -> Levels \cup {NoLevel, NoAgent}]
    BY <1>0, <2>2 DEF StepEffect, Effect, AgentsTyped
  <2>5. /\ index' \subseteq Agents /\ graph' \subseteq Agents /\ deleted' \subseteq Agents
        /\ slots' \in [1 .. MaxKeys -> Agents \cup {NoAgent}]
    BY <1>0, <2>2 DEF LedgerEffect, SlotEffect, AgentsTyped
  <2>6. touched' \in [Agents -> SUBSET Registry!Marks]
    BY <1>0, <1>m, <2>2 DEF MarkEffect, Unfailing, AgentsTyped
  <2>u. unclaimed' \subseteq 1 .. MaxKeys
    BY <1>2, <2>1, StepClaims
  <2>7. CountsTyped'
    BY <1>0, <2>2, <2>u, AdminAssumption DEF MarkEffect, Unfailing, SlotEffect, CountsTyped
  <2>8. QED BY <1>t, <2>3, <2>4, <2>5, <2>6, <2>7 DEF AgentsTyped
<1>3. ASSUME NEW a \in Agents, SettingDoes(a) \/ WriteDoes(a) PROVE Goal
  <2>1. AgentsTyped'
    BY <1>0, <1>3, <1>m DEF SettingDoes, WriteDoes, AgentsTyped
  <2>2. QED BY <1>0, <1>3, <1>t, <2>1 DEF SettingDoes, WriteDoes, CountsTyped
<1>4. ASSUME CrashDoes PROVE Goal
  <2>1. req' \in [Registry!Requests -> ReqType] /\ \A x \in Registry!Requests : ReqShape(req'[x])
    BY <1>4, IdleReq DEF CrashDoes, ReqShape
  <2>2. AgentsTyped'
    BY <1>0, <1>4, <1>m DEF CrashDoes, AgentsTyped
  <2>u. \A x \in Registry!Requests : req[x].key \in 0 .. MaxKeys
    BY <1>0 DEF ReqType
  <2>v. unclaimed' \subseteq 1 .. MaxKeys
    <3>1. {req[x].key : x \in Registry!Requests} \ {0} \subseteq 1 .. MaxKeys
      BY <2>u, AdminAssumption
    <3>2. QED BY <1>0, <1>4, <3>1 DEF CrashDoes, CountsTyped
  <2>3. CountsTyped'
    BY <1>0, <1>4, <2>v, AdminAssumption DEF CrashDoes, CountsTyped
  <2>4. QED BY <1>t, <2>1, <2>2, <2>3
<1>5. CASE UNCHANGED RegistryVars
  BY <1>0, <1>5, <1>t DEF RegistryVars, AgentsTyped, CountsTyped
<1>6. QED BY <1>1, <1>2, <1>3, <1>4, <1>5, RegKinds

LEMMA OverlapStep ==
    ASSUME RegInv, Registry!Next \/ UNCHANGED RegistryVars
    PROVE  Overlapping'
<1>0. /\ req \in [Registry!Requests -> ReqType] /\ Overlapping /\ touched \in [Agents -> SUBSET Registry!Marks]
      /\ NoAgent \notin Agents
  BY RegTypes, AdminAssumption DEF RegInv, AgentsTyped
<1> USE <1>0 DEF Overlapping
<1>1. ASSUME NEW r \in Registry!Requests, NEW a \in Agents, NEW q \in ReqType, BeginsWith(r, a, q) PROVE Overlapping'
  <2>1. \A b \in Agents : touched[b] \subseteq touched'[b]
    BY <1>1 DEF BeginsWith
  <2>2. (\E x \in Registry!Requests \ {r} : req[x].agent = a) => "overlap" \in touched'[a]
    BY <1>1 DEF BeginsWith, Registry!Busy
  <2>3. \A x \in Registry!Requests : x # r => req'[x] = req[x]
    BY <1>1 DEF BeginsWith
  <2>4. req'[r].agent = a
    BY <1>1 DEF BeginsWith
  <2>5. QED BY <2>1, <2>2, <2>3, <2>4
<1>2. ASSUME NEW r \in Registry!Requests, Registry!Step(r) PROVE Overlapping'
  <2>1. PICK a \in Agents : req[r].agent = a
    BY <1>2, StepAgent
  <2>2. StepEffect(a, r) /\ MarkEffect(a)
    BY <1>2, <2>1, StepEffects, StepMarks
  <2>3. \A b \in Agents : touched[b] \subseteq touched'[b]
    BY <2>2 DEF MarkEffect, Unfailing
  <2>4. /\ \A x \in Registry!Requests : x # r => req'[x] = req[x]
        /\ req'[r].agent \in {a, NoAgent}
    BY <2>2 DEF StepEffect, Effect
  <2>5. QED BY <2>1, <2>3, <2>4
<1>3. ASSUME NEW a \in Agents, SettingDoes(a) \/ WriteDoes(a) PROVE Overlapping'
  <2>1. \A b \in Agents : touched[b] \subseteq touched'[b]
    BY <1>3 DEF SettingDoes, WriteDoes
  <2>2. QED BY <1>3, <2>1 DEF SettingDoes, WriteDoes
<1>4. ASSUME CrashDoes PROVE Overlapping'
  BY <1>4, IdleReq DEF CrashDoes
<1>5. CASE UNCHANGED RegistryVars
  BY <1>5 DEF RegistryVars
<1>6. QED BY <1>1, <1>2, <1>3, <1>4, <1>5, RegKinds

(* Only StoreKey brings a key into a request, and only SaveRecord into a record. *)
HashEffect(a, r) ==
    /\ record'[a].hash \in {0, record[a].hash, req[r].seen.hash}
    /\ req'[r] = Registry!Idle \/ (req'[r].seen = req[r].seen /\ req'[r].key = req[r].key)

LEMMA StepHashes ==
    ASSUME RegInv, NEW r \in Registry!Requests, Registry!Step(r), ~Registry!StoreKey(r), NEW a \in Agents, req[r].agent = a
    PROVE  HashEffect(a, r)
<1>0. /\ req \in [Registry!Requests -> ReqType] /\ req[r] \in ReqType /\ record \in [Agents -> Registry!Records]
      /\ Registry!NoRecord.hash = 0
  BY RegTypes DEF RegInv, AgentsTyped, Registry!NoRecord
<1>1. ASSUME NEW t PROVE /\ Going(req[r], t) = Registry!Idle \/ (Going(req[r], t).seen = req[r].seen /\ Going(req[r], t).key = req[r].key)
                         /\ [req[r] EXCEPT !.at = t].seen = req[r].seen /\ [req[r] EXCEPT !.at = t].key = req[r].key
  BY <1>0 DEF Going, ReqType
<1>2. ASSUME NEW t, NEW S PROVE /\ [req[r] EXCEPT !.todo = S].seen = req[r].seen /\ [req[r] EXCEPT !.todo = S].key = req[r].key
                                /\ [req[r] EXCEPT !.at = t, !.todo = S].seen = req[r].seen
                                /\ [req[r] EXCEPT !.at = t, !.todo = S].key = req[r].key
  BY <1>0 DEF ReqType
<1>3. ASSUME NEW rc, NEW sl, NEW co, NEW q, Effect(a, r, rc, sl, co, q),
             rc.hash = 0 \/ rc.hash = record[a].hash \/ rc.hash = req[r].seen.hash,
             q = Registry!Idle \/ (q.seen = req[r].seen /\ q.key = req[r].key)
      PROVE  HashEffect(a, r)
  BY <1>0, <1>3 DEF Effect, HashEffect
<1>e. CASE Erring(r)
  <2>1. PICK rc \in {record[a], req[r].seen, Registry!NoRecord}, sl \in SUBSET (1 .. MaxKeys), co \in Cores : \E t :
          Effect(a, r, rc, sl, co, Going(req[r], t))
    BY <1>e, ErrorEffect
  <2>2. QED BY <1>0, <1>1, <1>3, <2>1
<1>4. CASE Registry!SyncLevel(r)
  BY <1>3, <1>4, RecordsDo
<1>5. CASE Registry!SaveRecord(r)
  BY <1>1, <1>3, <1>5, RecordsDo
<1>6. CASE Registry!SaveIndex(r)
  BY <1>1, <1>3, <1>6, RecordsDo
<1>8. CASE Registry!EnsureCore(r)
  BY <1>1, <1>3, <1>8, RecordsDo
<1>9. CASE Registry!RevokeKnown(r)
  BY <1>1, <1>3, <1>9, RevokesDo
<1>10. CASE Registry!RevokeOne(r)
  <2>1. PICK k \in Registry!SlotsOf(a) :
          Effect(a, r, record[a], Registry!SlotsOf(a) \ {k}, core[a], [req[r] EXCEPT !.todo = @ \ {k}])
    BY <1>10, RevokesDo
  <2>2. QED BY <1>2, <1>3, <2>1
<1>11. CASE Registry!Rollback(r)
  BY <1>3, <1>11, RevokesDo
<1>12. CASE Registry!SkipSlot(r)
  <2>1. PICK k \in req[r].todo :
          Effect(a, r, record[a], Registry!SlotsOf(a), core[a], [req[r] EXCEPT !.todo = @ \ {k}])
    BY <1>12, ScansDo
  <2>2. QED BY <1>2, <1>3, <2>1
<1>13. CASE Registry!ScanDone(r)
  <2>1. Effect(a, r, record[a], Registry!SlotsOf(a), core[a], Going(req[r], Registry!AfterScan(req[r].op)))
    BY <1>13, ScansDo
  <2>2. QED BY <1>1, <1>3, <2>1
<1>15. CASE Registry!DeleteGraph(r)
  <2>1. Effect(a, r, record[a], Registry!SlotsOf(a), NoAgent,
               [req[r] EXCEPT !.at = "scan", !.todo = Registry!SlotsOf(a)])
    BY <1>15, ScansDo
  <2>2. QED BY <1>2, <1>3, <2>1
<1>16. CASE Registry!DropIndex(r)
  BY <1>3, <1>16, ScansDo
<1>17. CASE Registry!DropRecord(r)
  <2>1. Effect(a, r, Registry!NoRecord, Registry!SlotsOf(a), core[a], [req[r] EXCEPT !.at = "unindex"])
    BY <1>17, ScansDo
  <2>2. QED BY <1>0, <1>1, <1>3, <2>1
<1>18. QED
  BY <1>e, <1>4, <1>5, <1>6, <1>8, <1>9, <1>10, <1>11, <1>12, <1>13, <1>15, <1>16, <1>17 DEF Registry!Step, Erring

LEMMA KeysStep ==
    ASSUME RegInv, Registry!Next \/ UNCHANGED RegistryVars
    PROVE  KeysSound'
<1>0. /\ req \in [Registry!Requests -> ReqType] /\ KeysSound /\ record \in [Agents -> Registry!Records]
      /\ slots \in [1 .. MaxKeys -> Agents \cup {NoAgent}] /\ keys \in 0 .. MaxKeys
      /\ \A x \in Registry!Records : x.hash \in 0 .. MaxKeys
      /\ \A x \in Registry!Requests : req[x].seen.hash \in 0 .. MaxKeys /\ req[x].key \in 0 .. MaxKeys
      /\ NoAgent \notin Agents /\ MaxKeys \in Nat
  <2>1. \A x \in Registry!Records : x.hash \in 0 .. MaxKeys
    BY AdminAssumption DEF Registry!Records, Registry!NoRecord
  <2>2. QED BY <2>1, RegTypes, AdminAssumption DEF RegInv, AgentsTyped, CountsTyped, ReqType
<1>1. ASSUME NEW r \in Registry!Requests, NEW a \in Agents, NEW q \in ReqType, BeginsWith(r, a, q), Unkeyed(a, q) PROVE KeysSound'
  BY <1>0, <1>1 DEF BeginsWith, Unkeyed, KeysSound, OwnKey
<1>2. ASSUME NEW r \in Registry!Requests, Registry!Step(r) PROVE KeysSound'
  <2>1. PICK a \in Agents : req[r].agent = a
    BY <1>2, StepAgent
  <2>2. StepEffect(a, r) /\ SlotEffect
    BY <1>2, <2>1, StepEffects, StepSlots
  <2>3. /\ keys' \in Nat /\ keys <= keys' /\ \A k \in 1 .. MaxKeys : k > keys' => slots'[k] = NoAgent
        /\ \A k \in 1 .. keys : slots'[k] \in {slots[k], NoAgent}
    BY <1>0, <2>2 DEF SlotEffect
  <2>4. ASSUME NEW b \in Agents, NEW h \in 0 .. MaxKeys, OwnKey(h, b) PROVE h # 0 => h <= keys' /\ slots'[h] \in {b, NoAgent}
    BY <1>0, <2>3, <2>4 DEF OwnKey
  <2>5. /\ \A b \in Agents \ {a} : record'[b] = record[b]
        /\ \A x \in Registry!Requests : x # r => req'[x] = req[x]
        /\ req'[r].agent \in {a, NoAgent}
    BY <1>0, <2>2 DEF StepEffect, Effect
  <2>6. /\ \A b \in Agents : OwnKey(record[b].hash, b)
        /\ \A x \in Registry!Requests : req[x].agent \in Agents =>
             OwnKey(req[x].seen.hash, req[x].agent) /\ OwnKey(req[x].key, req[x].agent)
        /\ \A b \in Agents : OwnKey(0, b)
    BY <1>0 DEF KeysSound, OwnKey
  <2>7. CASE Registry!StoreKey(r)
    <3>1. /\ record' = [record EXCEPT ![a] = record[a]] /\ keys' = keys + 1 /\ keys + 1 \in 1 .. MaxKeys
          /\ req'[r] = [req[r] EXCEPT !.at = "save", !.key = keys + 1, !.seen.hash = keys + 1]
      BY <1>0, <2>1, <2>7, StoreKeyDoes DEF Effect
    <3>2. slots'[keys + 1] = a
      BY <1>0, <2>1, <2>7, <3>1 DEF Registry!StoreKey, Registry!NewSlot
    <3>3. req'[r].key = keys + 1 /\ req'[r].seen.hash = keys + 1
      BY <1>0, <3>1 DEF ReqType, Registry!Records, Registry!NoRecord
    <3>4. \A b \in Agents : record'[b] = record[b]
      BY <1>0, <3>1
    <3>5. ASSUME NEW x \in Registry!Requests, req'[x].agent \in Agents
          PROVE  /\ req'[x].seen.hash # 0 => req'[x].seen.hash <= keys' /\ slots'[req'[x].seen.hash] \in {req'[x].agent, NoAgent}
                 /\ req'[x].key # 0 => req'[x].key <= keys' /\ slots'[req'[x].key] \in {req'[x].agent, NoAgent}
      <4>1. CASE x = r
        <5>1. req'[r].agent = a
          BY <1>0, <2>5, <3>5, <4>1
        <5>2. keys' = keys + 1 /\ keys \in Nat
          BY <1>0, <3>1
        <5>3. QED BY <3>2, <3>3, <4>1, <5>1, <5>2
      <4>2. CASE x # r
        <5>1. /\ req[x].seen.hash \in 0 .. MaxKeys /\ OwnKey(req[x].seen.hash, req[x].agent)
              /\ req[x].key \in 0 .. MaxKeys /\ OwnKey(req[x].key, req[x].agent) /\ req[x].agent \in Agents
          BY <1>0, <2>5, <2>6, <3>5, <4>2
        <5>2. QED BY <2>4, <2>5, <4>2, <5>1
      <4>3. QED BY <4>1, <4>2
    <3>6. \A b \in Agents : record'[b].hash # 0 => record'[b].hash <= keys' /\ slots'[record'[b].hash] \in {b, NoAgent}
      BY <1>0, <2>4, <2>6, <3>4
    <3>7. QED BY <2>3, <3>5, <3>6 DEF KeysSound, OwnKey
  <2>8. CASE ~Registry!StoreKey(r)
    <3>1. HashEffect(a, r)
      BY <1>2, <2>1, <2>8, StepHashes
    <3>2. \A b \in Agents : record'[b].hash # 0 => record'[b].hash <= keys' /\ slots'[record'[b].hash] \in {b, NoAgent}
      <4>1. OwnKey(req[r].seen.hash, a) /\ req[r].seen.hash \in 0 .. MaxKeys
        BY <1>0, <2>1, <2>6
      <4>2. ASSUME NEW b \in Agents PROVE record'[b].hash \in 0 .. MaxKeys /\ OwnKey(record'[b].hash, b)
        <5>1. CASE b = a
          BY <1>0, <2>6, <3>1, <4>1, <5>1 DEF HashEffect
        <5>2. CASE b # a
          BY <1>0, <2>5, <2>6, <5>2
        <5>3. QED BY <5>1, <5>2
      <4>3. QED BY <2>4, <4>2
    <3>3. ASSUME NEW x \in Registry!Requests, req'[x].agent \in Agents
          PROVE  /\ req'[x].seen.hash # 0 => req'[x].seen.hash <= keys' /\ slots'[req'[x].seen.hash] \in {req'[x].agent, NoAgent}
                 /\ req'[x].key # 0 => req'[x].key <= keys' /\ slots'[req'[x].key] \in {req'[x].agent, NoAgent}
      <4>1. req'[x].seen = req[x].seen /\ req'[x].key = req[x].key /\ req'[x].agent = req[x].agent
        BY <1>0, <2>1, <2>5, <3>1, <3>3, IdleReq DEF HashEffect
      <4>2. /\ req[x].seen.hash \in 0 .. MaxKeys /\ OwnKey(req[x].seen.hash, req[x].agent)
            /\ req[x].key \in 0 .. MaxKeys /\ OwnKey(req[x].key, req[x].agent) /\ req[x].agent \in Agents
        BY <1>0, <2>6, <3>3, <4>1
      <4>3. QED BY <2>4, <4>1, <4>2
    <3>4. \A x \in Registry!Requests : req'[x].agent \in Agents =>
            /\ req'[x].seen.hash # 0 => req'[x].seen.hash <= keys' /\ slots'[req'[x].seen.hash] \in {req'[x].agent, NoAgent}
            /\ req'[x].key # 0 => req'[x].key <= keys' /\ slots'[req'[x].key] \in {req'[x].agent, NoAgent}
      BY <3>3
    <3>5. QED BY <2>3, <3>2, <3>4 DEF KeysSound, OwnKey
  <2>9. QED BY <2>7, <2>8
<1>3. ASSUME NEW a \in Agents, SettingDoes(a) \/ WriteDoes(a) PROVE KeysSound'
  BY <1>0, <1>3 DEF SettingDoes, WriteDoes, KeysSound, OwnKey
<1>4. ASSUME CrashDoes PROVE KeysSound'
  BY <1>0, <1>4, IdleReq DEF CrashDoes, KeysSound, OwnKey
<1>5. CASE UNCHANGED RegistryVars
  BY <1>0, <1>5 DEF RegistryVars, KeysSound, OwnKey
<1>6. QED BY <1>1, <1>2, <1>3, <1>4, <1>5, RegKinds

-----------------------------------------------------------------------------
(* What a step does to an agent it is not about. *)
SameView(b) ==
    /\ record'[b] = record[b] /\ Registry!SlotsOf(b)' = Registry!SlotsOf(b) /\ core'[b] = core[b]
    /\ Of(b)' = Of(b) /\ touched[b] \subseteq touched'[b] /\ faults' \in Nat /\ faults <= faults'
    /\ (b \in index' <=> b \in index) /\ (b \in graph' <=> b \in graph) /\ (b \in deleted' <=> b \in deleted)
    /\ unclaimed \subseteq unclaimed'

LEMMA SameKept ==
    ASSUME RegInv, NEW b \in Agents, SameView(b)
    PROVE  AgentInv(b)'
<1>0. AgentInv(b) /\ faults \in Nat
  BY RegTypes DEF RegInv, CountsTyped
<1>c. ASSUME NEW kinds, touched'[b] \cap kinds = {} PROVE Calm(b, kinds)
  BY <1>c DEF SameView, Calm
<1> USE <1>0, <1>c DEF SameView, AgentInv, Calm
<1>1. SeenInv(b)'
  BY DEF SeenInv, SeenSound, Registry!Exists
<1>2. WorkInv(b)'
  BY DEF WorkInv
<1>3. StrayInv(b)'
  BY DEF StrayInv, Registry!KeysOf, Known, Registry!Exists
<1>4. GoneInv(b)'
  BY DEF GoneInv, Registry!Exists
<1>5. LevelInv(b)'
  BY DEF LevelInv, Registry!Exists
<1>6. QED BY <1>1, <1>2, <1>3, <1>4, <1>5

LEMMA Alone ==
    ASSUME RegInv, NEW r \in Registry!Requests, NEW a \in Agents, req[r].agent = a, "overlap" \notin touched[a]
    PROVE  Of(a) = {req[r]}
BY DEF RegInv, Overlapping, Of

LEMMA AloneAfter ==
    ASSUME RegInv, NEW r \in Registry!Requests, NEW a \in Agents, req[r].agent = a, "overlap" \notin touched[a],
           NEW q, req' = [req EXCEPT ![r] = q]
    PROVE  /\ q.agent = a => Of(a)' = {q}
           /\ q.agent = NoAgent => Of(a)' = {}
<1>1. req \in [Registry!Requests -> ReqType] /\ NoAgent \notin Agents
  BY RegTypes, AdminAssumption DEF RegInv
<1>2. \A x \in Registry!Requests : x # r => req'[x] = req[x] /\ req[x].agent # a
  BY <1>1 DEF RegInv, Overlapping
<1>3. req'[r] = q
  BY <1>1
<1>4. QED BY <1>1, <1>2, <1>3 DEF Of

(* A request that has gone on to another step. *)
Onward(q, p, t) ==
    p.op = q.op /\ p.agent = q.agent /\ p.at = t /\ p.seen = q.seen /\ p.key = q.key /\ p.todo = q.todo
LEMMA GoesOn == ASSUME NEW q \in ReqType, NEW t PROVE Onward(q, [q EXCEPT !.at = t], t)
BY DEF ReqType, Onward

(* An agent that others have interfered with promises nothing. *)
LEMMA Interfered ==
    ASSUME NEW a \in Agents, "overlap" \in touched'[a]
    PROVE  AgentInv(a)'
BY DEF AgentInv, SeenInv, WorkInv, StrayInv, Registry!KeysOf, Known, Registry!Exists, GoneInv, LevelInv, Calm, Registry!Marks

(* The operations that come by a step. *)
OpsAt(q) ==
    /\ q.at = "store" => q.op \in {"create", "rotate", "import"}
    /\ q.at \in {"save", "index"} => q.op \in {"create", "rotate", "update", "import"}
    /\ q.at = "core" => q.op \in {"create", "import"}
    /\ q.at = "level" => q.op \in {"create", "update"}
    /\ q.at \in {"revoke", "rollback"} => q.op = "rotate"
    /\ q.at = "scan" => q.op \in {"rotate", "delete"}
    /\ q.at \in {"graph", "unsave", "unindex"} => q.op = "delete"
    /\ q.op # "delete" => q.seen.level \in Levels /\ q.seen # Registry!NoRecord

LEMMA OpsKnown ==
    ASSUME RegInv, NEW r \in Registry!Requests, NEW a \in Agents, req[r].agent = a
    PROVE  OpsAt(req[r])
<1>1. ReqShape(req[r]) /\ req[r] # Registry!Idle
  BY RegTyped, IdleReq
<1>2. req[r].op # "delete" => req[r].seen.level \in Levels /\ req[r].seen # Registry!NoRecord
  BY <1>1, AdminAssumption DEF ReqShape, Registry!NoRecord
<1>3. QED BY <1>1, <1>2 DEF ReqShape, OpsAt

LEMMA NoKey == Registry!NoRecord.hash = 0
BY DEF Registry!NoRecord

LEMMA StoreKeySound ==
    ASSUME RegInv, NEW r \in Registry!Requests, NEW a \in Agents, req[r].agent = a, Registry!StoreKey(r)
    PROVE  AgentInv(a)'
<1> DEFINE q == [req[r] EXCEPT !.at = "save", !.key = keys + 1, !.seen.hash = keys + 1]
<1>1. /\ Effect(a, r, record[a], Registry!SlotsOf(a) \cup {keys + 1}, core[a], q)
      /\ Unfailing /\ Ledgers /\ keys + 1 \in 1 .. MaxKeys /\ req[r].at = "store"
  BY StoreKeyDoes
<1>2. SUFFICES ASSUME "overlap" \notin touched[a] PROVE AgentInv(a)'
  BY <1>1, Interfered DEF Unfailing
<1>3. /\ q.op = req[r].op /\ q.agent = a /\ q.at = "save" /\ q.seen.hash = keys + 1 /\ q.seen.level = req[r].seen.level
      /\ q.key = keys + 1 /\ q.todo = req[r].todo
  BY RegTyped DEF ReqType, Registry!Records, Registry!NoRecord
<1> HIDE DEF q
<1>4. /\ Of(a) = {req[r]} /\ Of(a)' = {q}
      /\ record'[a] = record[a] /\ Registry!SlotsOf(a)' = Registry!SlotsOf(a) \cup {keys + 1} /\ core'[a] = core[a]
  BY <1>1, <1>2, <1>3, Alone, AloneAfter, RegTyped DEF Effect, AgentsTyped
<1>5. /\ touched' = touched /\ faults' = faults /\ index' = index /\ graph' = graph /\ deleted' = deleted
      /\ AgentInv(a) /\ OpsAt(req[r]) /\ unclaimed \subseteq unclaimed'
  BY <1>1, OpsKnown DEF Unfailing, Ledgers, RegInv, Effect
<1> USE <1>1, <1>3, <1>4, <1>5, NoKey DEF AgentInv, Calm, OpsAt
<1>6. SeenInv(a)'
  BY DEF SeenInv, SeenSound, Registry!Exists
<1>7. WorkInv(a)'
  BY DEF WorkInv, SeenInv, SeenSound
<1>8. StrayInv(a)'
  BY DEF StrayInv, Registry!KeysOf, Known, Registry!Exists, SeenInv, SeenSound
<1>9. GoneInv(a)'
  BY DEF GoneInv, Registry!Exists
<1>10. LevelInv(a)'
  BY DEF LevelInv, Registry!Exists
<1>11. QED BY <1>6, <1>7, <1>8, <1>9, <1>10

OnlyNext(a, q) == Of(a)' = {q}
NoneNext(a) == Of(a)' = {}
View(a, r, rc, sl, co) ==
    /\ Of(a) = {req[r]} /\ AgentInv(a) /\ OpsAt(req[r]) /\ req[r] \in ReqType /\ req[r].agent = a
    /\ record'[a] = rc /\ Registry!SlotsOf(a)' = sl /\ core'[a] = co
    /\ unclaimed \subseteq unclaimed' /\ faults \in Nat /\ NoAgent \notin Levels /\ NoLevel # NoAgent /\ NoLevel \notin Levels

(* What a step leaves of its agent, when it is the only request for it. *)
LEMMA Viewed ==
    ASSUME RegInv, NEW r \in Registry!Requests, NEW a \in Agents, req[r].agent = a, "overlap" \notin touched[a],
           NEW rc, NEW sl, NEW co, NEW q, Effect(a, r, rc, sl, co, q)
    PROVE  /\ View(a, r, rc, sl, co)
           /\ q.agent = a => OnlyNext(a, q)
           /\ q = Registry!Idle => NoneNext(a)
<1>1. Of(a) = {req[r]} /\ AgentInv(a) /\ OpsAt(req[r]) /\ req[r] \in ReqType /\ faults \in Nat
  BY Alone, OpsKnown, RegTyped DEF RegInv, CountsTyped
<1>2. record'[a] = rc /\ Registry!SlotsOf(a)' = sl /\ core'[a] = co /\ req' = [req EXCEPT ![r] = q] /\ unclaimed \subseteq unclaimed'
  BY RegTyped DEF Effect, AgentsTyped
<1>3. (q.agent = a => Of(a)' = {q}) /\ (q.agent = NoAgent => Of(a)' = {})
  BY <1>2, AloneAfter
<1>4. QED BY <1>1, <1>2, <1>3, IdleReq, AdminAssumption DEF OnlyNext, NoneNext, View

(* A request that ends on an error: all that is left to show is which keys it leaves. *)
LEMMA FailedLeaves ==
    ASSUME RegInv, NEW r \in Registry!Requests, NEW a \in Agents, req[r].agent = a,
           NEW rc, NEW sl, NEW co, Effect(a, r, rc, sl, co, Registry!Idle), Failing(a),
           faults = 0 /\ Calm(a, {"overlap", "import", "skip"}) /\ Known(a)' /\ View(a, r, rc, sl, co)
               => Registry!KeysOf(a)' \subseteq {rc.hash}
    PROVE  AgentInv(a)'
<1>1. /\ touched'[a] = touched[a] \cup {"fault"} /\ "fault" \in Registry!Marks
      /\ faults' = faults + 1 /\ faults \in Nat
  BY RegTyped DEF Failing, AgentsTyped, CountsTyped, Registry!Marks
<1>2. SUFFICES ASSUME "overlap" \notin touched[a] PROVE AgentInv(a)'
  BY <1>1, Interfered
<1>3. View(a, r, rc, sl, co) /\ NoneNext(a)
  BY <1>2, Viewed
<1>4. Of(a)' = {} /\ record'[a] = rc
  BY <1>3 DEF View, NoneNext
<1>5. SeenInv(a)'
  BY <1>4 DEF SeenInv
<1>6. WorkInv(a)' /\ GoneInv(a)' /\ LevelInv(a)'
  BY <1>1 DEF WorkInv, GoneInv, LevelInv, Calm
<1>7. StrayInv(a)'
  <2>1. SUFFICES ASSUME faults' <= 1, touched'[a] \cap {"overlap", "import", "skip"} = {}, Known(a)'
                 PROVE  Registry!KeysOf(a)' \subseteq {rc.hash}
    BY <1>4 DEF StrayInv, Calm
  <2>2. faults = 0 /\ Calm(a, {"overlap", "import", "skip"})
    BY <1>1, <2>1 DEF Calm
  <2>3. QED BY <1>3, <2>1, <2>2
<1>8. QED BY <1>5, <1>6, <1>7 DEF AgentInv

LEMMA FailedSound ==
    ASSUME RegInv, NEW r \in Registry!Requests, NEW a \in Agents, req[r].agent = a,
           \/ Registry!StoreKeyError(r) \/ Registry!CoreError(r) \/ Registry!DeleteGraphError(r)
           \/ Registry!SaveError(r) /\ req[r].op # "rotate"
           \/ Registry!RevokeError(r) /\ req[r].op = "rotate"
           \/ Registry!DropError(r)
    PROVE  AgentInv(a)'
<1>1. CASE Registry!StoreKeyError(r)
  <2>1. PICK sl : /\ Effect(a, r, record[a], sl, core[a], Registry!Idle)
                  /\ Failing(a) /\ Ledgers /\ sl \ unclaimed' \subseteq Registry!SlotsOf(a)
    BY <1>1, ErrorsDo
  <2>2. req[r].at = "store"
    BY <1>1 DEF Registry!StoreKeyError
  <2>3. faults = 0 /\ Calm(a, {"overlap", "import", "skip"}) /\ Known(a)' /\ View(a, r, record[a], sl, core[a])
               => Registry!KeysOf(a)' \subseteq {record[a].hash}
    BY <2>1, <2>2 DEF View, AgentInv, StrayInv, Registry!KeysOf
  <2>4. QED BY <2>1, <2>3, FailedLeaves
<1>2. CASE Registry!CoreError(r)
  <2>1. PICK co : Effect(a, r, record[a], Registry!SlotsOf(a), co, Registry!Idle) /\ Failing(a) /\ Ledgers
    BY <1>2, ErrorsDo
  <2>2. req[r].at \in {"core", "level"}
    BY <1>2 DEF Registry!CoreError
  <2>3. faults = 0 /\ Calm(a, {"overlap", "import", "skip"}) /\ Known(a)' /\ View(a, r, record[a], Registry!SlotsOf(a), co)
               => Registry!KeysOf(a)' \subseteq {record[a].hash}
    BY <2>1, <2>2 DEF View, AgentInv, StrayInv, Registry!KeysOf, Ledgers, Known, Registry!Exists
  <2>4. QED BY <2>1, <2>3, FailedLeaves
<1>3. CASE Registry!DeleteGraphError(r)
  <2>1. PICK co : Effect(a, r, record[a], Registry!SlotsOf(a), co, Registry!Idle) /\ Failing(a) /\ deleted' = deleted
    BY <1>3, ErrorsDo
  <2>2. req[r].at = "graph"
    BY <1>3 DEF Registry!DeleteGraphError
  <2>3. faults = 0 /\ Calm(a, {"overlap", "import", "skip"}) /\ Known(a)' /\ View(a, r, record[a], Registry!SlotsOf(a), co)
               => Registry!KeysOf(a)' \subseteq {record[a].hash}
    BY <2>1, <2>2 DEF View, AgentInv, StrayInv, Registry!KeysOf, Known, Registry!Exists
  <2>4. QED BY <2>1, <2>3, FailedLeaves
<1>4. CASE Registry!SaveError(r) /\ req[r].op # "rotate"
  <2>1. PICK rc \in {record[a], req[r].seen} :
           /\ Effect(a, r, rc, Registry!SlotsOf(a), core[a], Registry!Idle) /\ Failing(a) /\ deleted' = deleted
           /\ req[r].op \in {"create", "import"} => {req[r].key} \ {0} \subseteq unclaimed'
    BY <1>4, ErrorsDo DEF Registry!AfterSaveError, Going
  <2>2. req[r].at \in {"save", "index"}
    BY <1>4 DEF Registry!SaveError
  <2>3. 0 \notin Registry!SlotsOf(a)
    BY AdminAssumption DEF Registry!SlotsOf
  <2>4. SUFFICES ASSUME faults = 0, Calm(a, {"overlap", "import", "skip"}), Known(a)',
                        View(a, r, rc, Registry!SlotsOf(a), core[a])
                 PROVE  Registry!KeysOf(a)' \subseteq {rc.hash}
    BY <2>1, FailedLeaves
  <2>5. StrayInv(a) /\ SeenInv(a) /\ OpsAt(req[r]) /\ Of(a) = {req[r]} /\ unclaimed \subseteq unclaimed'
        /\ record'[a] = rc /\ Registry!SlotsOf(a)' = Registry!SlotsOf(a)
    BY <2>4 DEF View, AgentInv
  <2>6. Registry!KeysOf(a)' \subseteq Registry!KeysOf(a)
    BY <2>5 DEF Registry!KeysOf
  <2>7. CASE req[r].op = "create"
    <3>1. Registry!KeysOf(a) \subseteq {req[r].key}
      BY <2>2, <2>4, <2>5, <2>7 DEF StrayInv
    <3>2. Registry!KeysOf(a)' = {}
      BY <2>1, <2>3, <2>5, <2>6, <2>7, <3>1 DEF Registry!KeysOf
    <3>3. QED BY <3>2
  <2>8. CASE req[r].op = "update"
    <3>1. rc # Registry!NoRecord /\ rc.hash = record[a].hash /\ Registry!Exists(a)
      BY <2>1, <2>4, <2>5, <2>8 DEF SeenInv, SeenSound, OpsAt, Calm, Registry!Exists
    <3>2. Known(a)
      BY <2>1, <2>4, <2>5, <3>1 DEF Known, Registry!Exists
    <3>3. QED BY <2>4, <2>5, <2>6, <2>8, <3>1, <3>2 DEF StrayInv
  <2>9. req[r].op \in {"create", "update"}
    BY <1>4, <2>2, <2>4, <2>5 DEF OpsAt, StrayInv
  <2>10. QED BY <2>7, <2>8, <2>9
<1>5. CASE Registry!RevokeError(r) /\ req[r].op = "rotate"
  <2>1. PICK sl \in SUBSET Registry!SlotsOf(a) :
           Effect(a, r, record[a], sl, core[a], Registry!Idle) /\ Failing(a) /\ Ledgers
    BY <1>5, ErrorsDo DEF Going
  <2>2. req[r].at \in {"revoke", "scan"}
    BY <1>5 DEF Registry!RevokeError
  <2>3. faults = 0 /\ Calm(a, {"overlap", "import", "skip"}) /\ Known(a)' /\ View(a, r, record[a], sl, core[a])
               => Registry!KeysOf(a)' \subseteq {record[a].hash}
    BY <1>5, <2>1, <2>2 DEF View, AgentInv, StrayInv, Registry!KeysOf, Ledgers, Known, Registry!Exists
  <2>4. QED BY <2>1, <2>3, FailedLeaves
<1>6. CASE Registry!DropError(r)
  <2>1. PICK rc : Effect(a, r, rc, Registry!SlotsOf(a), core[a], Registry!Idle) /\ Failing(a)
    BY <1>6, ErrorsDo
  <2>2. req[r].at \in {"unsave", "unindex"}
    BY <1>6 DEF Registry!DropError
  <2>3. faults = 0 /\ Calm(a, {"overlap", "import", "skip"}) /\ Known(a)' /\ View(a, r, rc, Registry!SlotsOf(a), core[a])
               => Registry!KeysOf(a)' \subseteq {rc.hash}
    BY <2>1, <2>2 DEF View, AgentInv, StrayInv, Registry!KeysOf
  <2>4. QED BY <2>1, <2>3, FailedLeaves
<1>7. QED BY <1>1, <1>2, <1>3, <1>4, <1>5, <1>6

(* A request that goes on without an error: what is left to show of its agent. *)
LEMMA SaveRecordSound ==
    ASSUME RegInv, NEW r \in Registry!Requests, NEW a \in Agents, req[r].agent = a, Registry!SaveRecord(r)
    PROVE  AgentInv(a)'
<1>0. PICK q : q = [req[r] EXCEPT !.at = "index"]
  OBVIOUS
<1>1. /\ Effect(a, r, req[r].seen, Registry!SlotsOf(a), core[a], q) /\ Unfailing /\ Ledgers /\ req[r].at = "save"
  BY <1>0, RecordsDo DEF Registry!SaveRecord
<1>2. SUFFICES ASSUME "overlap" \notin touched[a] PROVE AgentInv(a)'
  BY <1>1, Interfered DEF Unfailing
<1>3. Onward(req[r], q, "index")
  BY <1>0, GoesOn, RegTyped
<1>a. View(a, r, req[r].seen, Registry!SlotsOf(a), core[a])
  BY <1>1, <1>2, Viewed
<1>4. q.agent = a
  BY <1>3 DEF Onward
<1>b. OnlyNext(a, q)
  BY <1>1, <1>2, <1>4, Viewed
<1> USE <1>1, <1>3, <1>a, <1>b, NoKey DEF View, OnlyNext, Unfailing, Ledgers, AgentInv, Calm, OpsAt, Onward
<1>6. SeenInv(a)'
  BY DEF SeenInv, SeenSound, Registry!Exists
<1>7. WorkInv(a)'
  BY DEF WorkInv, SeenInv, SeenSound
<1>8. StrayInv(a)'
  BY DEF StrayInv, Registry!KeysOf, Known, Registry!Exists, SeenInv, SeenSound
<1>9. GoneInv(a)'
  BY DEF GoneInv, Registry!Exists
<1>10. LevelInv(a)'
  BY DEF LevelInv, SeenInv, SeenSound, Registry!Exists, Registry!Marks
<1>11. QED BY <1>6, <1>7, <1>8, <1>9, <1>10

LEMMA SaveIndexSound ==
    ASSUME RegInv, NEW r \in Registry!Requests, NEW a \in Agents, req[r].agent = a, Registry!SaveIndex(r)
    PROVE  AgentInv(a)'
<1>q. PICK q : q = Going(req[r], Registry!AfterIndex(req[r].op))
  OBVIOUS
<1>1. /\ Effect(a, r, record[a], Registry!SlotsOf(a), core[a], q) /\ Unfailing /\ req[r].at = "index"
      /\ graph' = graph /\ deleted' = deleted /\ index' = index \cup {a}
  BY <1>q, RecordsDo DEF Registry!SaveIndex
<1>2. SUFFICES ASSUME "overlap" \notin touched[a] PROVE AgentInv(a)'
  BY <1>1, Interfered DEF Unfailing
<1>0. OpsAt(req[r])
  BY OpsKnown
<1>3. \/ req[r].op = "rotate" /\ q = Registry!Idle
      \/ req[r].op = "update" /\ Onward(req[r], q, "level")
      \/ req[r].op \in {"create", "import"} /\ Onward(req[r], q, "core")
  BY <1>q, <1>0, <1>1, GoesOn, RegTyped DEF OpsAt, Going, Registry!AfterIndex
<1>a. View(a, r, record[a], Registry!SlotsOf(a), core[a])
  BY <1>1, <1>2, Viewed
<1>4. q.agent = a \/ q = Registry!Idle
  BY <1>3 DEF Onward
<1>b. q.agent = a => OnlyNext(a, q)
  BY <1>1, <1>2, Viewed
<1>c. q = Registry!Idle => NoneNext(a)
  BY <1>1, <1>2, Viewed
<1> USE <1>1, <1>a, NoKey DEF View, OnlyNext, NoneNext, Unfailing, AgentInv, Calm, OpsAt, Onward
<1>6. SeenInv(a)'
  BY <1>3, <1>b, <1>c DEF SeenInv, SeenSound, Registry!Exists
<1>7. WorkInv(a)'
  BY <1>3, <1>b, <1>c DEF WorkInv, SeenInv, SeenSound
<1>8. StrayInv(a)'
  BY <1>3, <1>b, <1>c DEF StrayInv, Registry!KeysOf, Known, Registry!Exists, SeenInv, SeenSound
<1>9. GoneInv(a)'
  BY <1>3, <1>b, <1>c DEF GoneInv, Registry!Exists
<1>10. LevelInv(a)'
  BY <1>3, <1>b, <1>c DEF LevelInv, SeenInv, SeenSound, Registry!Exists, Registry!Marks
<1>11. QED BY <1>6, <1>7, <1>8, <1>9, <1>10

LEMMA EnsureCoreSound ==
    ASSUME RegInv, NEW r \in Registry!Requests, NEW a \in Agents, req[r].agent = a, Registry!EnsureCore(r)
    PROVE  AgentInv(a)'
<1>q. PICK q : q = Going(req[r], IF req[r].op = "create" THEN "level" ELSE "idle")
  OBVIOUS
<1>p. PICK co : co = IF core[a] = NoAgent THEN NoLevel ELSE core[a]
  OBVIOUS
<1>1. Effect(a, r, record[a], Registry!SlotsOf(a), co, q) /\ Unfailing /\ Ledgers /\ req[r].at = "core"
  BY <1>q, <1>p, RecordsDo DEF Registry!EnsureCore
<1>2. SUFFICES ASSUME "overlap" \notin touched[a] PROVE AgentInv(a)'
  BY <1>1, Interfered DEF Unfailing
<1>3. \/ req[r].op = "create" /\ Onward(req[r], q, "level")
      \/ req[r].op = "import" /\ q = Registry!Idle
  BY <1>q, <1>1, OpsKnown, GoesOn, RegTyped DEF OpsAt, Going
<1>a. View(a, r, record[a], Registry!SlotsOf(a), co)
  BY <1>1, <1>2, Viewed
<1>4. q.agent = a \/ q = Registry!Idle
  BY <1>3 DEF Onward
<1>b. q.agent = a => OnlyNext(a, q)
  BY <1>1, <1>2, Viewed
<1>c. q = Registry!Idle => NoneNext(a)
  BY <1>1, <1>2, Viewed
<1> USE <1>1, <1>a, NoKey DEF View, OnlyNext, NoneNext, Unfailing, Ledgers, AgentInv, Calm, OpsAt, Onward
<1>6. SeenInv(a)'
  BY <1>3, <1>b, <1>c DEF SeenInv, SeenSound, Registry!Exists
<1>7. WorkInv(a)'
  BY <1>3, <1>b, <1>c DEF WorkInv, SeenInv, SeenSound
<1>8. StrayInv(a)'
  BY <1>3, <1>b, <1>c DEF StrayInv, Registry!KeysOf, Known, Registry!Exists, SeenInv, SeenSound
<1>9. GoneInv(a)'
  BY <1>3, <1>b, <1>c DEF GoneInv, Registry!Exists
<1>10. LevelInv(a)'
  BY <1>p, <1>3, <1>b, <1>c DEF LevelInv, SeenInv, SeenSound, Registry!Exists, Registry!Marks
<1>11. QED BY <1>6, <1>7, <1>8, <1>9, <1>10

LEMMA SyncLevelSound ==
    ASSUME RegInv, NEW r \in Registry!Requests, NEW a \in Agents, req[r].agent = a, Registry!SyncLevel(r)
    PROVE  AgentInv(a)'
<1>p. PICK co : co = IF core[a] = NoAgent THEN NoAgent ELSE req[r].seen.level
  OBVIOUS
<1>1. Effect(a, r, record[a], Registry!SlotsOf(a), co, Registry!Idle) /\ Unfailing /\ Ledgers /\ req[r].at = "level"
  BY <1>p, RecordsDo DEF Registry!SyncLevel
<1>2. SUFFICES ASSUME "overlap" \notin touched[a] PROVE AgentInv(a)'
  BY <1>1, Interfered DEF Unfailing
<1>a. View(a, r, record[a], Registry!SlotsOf(a), co)
  BY <1>1, <1>2, Viewed
<1>b. NoneNext(a)
  BY <1>1, <1>2, Viewed
<1> USE <1>1, <1>a, <1>b, NoKey DEF View, NoneNext, Unfailing, Ledgers, AgentInv, Calm, OpsAt
<1>6. SeenInv(a)'
  BY DEF SeenInv
<1>7. WorkInv(a)'
  BY DEF WorkInv
<1>8. StrayInv(a)'
  BY DEF StrayInv, Registry!KeysOf, Known, Registry!Exists
<1>9. GoneInv(a)'
  BY DEF GoneInv, Registry!Exists
<1>10. LevelInv(a)'
  BY <1>p DEF LevelInv, SeenInv, SeenSound, Registry!Exists, Registry!Marks
<1>11. QED BY <1>6, <1>7, <1>8, <1>9, <1>10

LEMMA RevokeKnownSound ==
    ASSUME RegInv, NEW r \in Registry!Requests, NEW a \in Agents, req[r].agent = a, Registry!RevokeKnown(r)
    PROVE  AgentInv(a)'
<1>q. PICK q : q = [req[r] EXCEPT !.at = "store"]
  OBVIOUS
<1>p. PICK sl : sl = Registry!SlotsOf(a) \ {req[r].seen.hash}
  OBVIOUS
<1>1. Effect(a, r, record[a], sl, core[a], q) /\ Unfailing /\ Ledgers /\ req[r].at = "revoke"
  BY <1>q, <1>p, RevokesDo DEF Registry!RevokeKnown
<1>2. SUFFICES ASSUME "overlap" \notin touched[a] PROVE AgentInv(a)'
  BY <1>1, Interfered DEF Unfailing
<1>3. Onward(req[r], q, "store")
  BY <1>q, GoesOn, RegTyped
<1>a. View(a, r, record[a], sl, core[a])
  BY <1>1, <1>2, Viewed
<1>4. q.agent = a
  BY <1>3 DEF Onward
<1>b. OnlyNext(a, q)
  BY <1>1, <1>2, <1>4, Viewed
<1> USE <1>1, <1>3, <1>a, <1>b, NoKey DEF View, OnlyNext, Unfailing, Ledgers, AgentInv, Calm, OpsAt, Onward
<1>6. SeenInv(a)'
  BY DEF SeenInv, SeenSound, Registry!Exists
<1>7. WorkInv(a)'
  BY DEF WorkInv, SeenInv, SeenSound
<1>8. StrayInv(a)'
  BY <1>p DEF StrayInv, Registry!KeysOf, Known, Registry!Exists, SeenInv, SeenSound
<1>9. GoneInv(a)'
  BY <1>p DEF GoneInv, Registry!Exists
<1>10. LevelInv(a)'
  BY DEF LevelInv, SeenInv, SeenSound, Registry!Exists, Registry!Marks
<1>11. QED BY <1>6, <1>7, <1>8, <1>9, <1>10

LEMMA RevokeOneSound ==
    ASSUME RegInv, NEW r \in Registry!Requests, NEW a \in Agents, req[r].agent = a, Registry!RevokeOne(r)
    PROVE  AgentInv(a)'
<1>k. PICK k \in Registry!SlotsOf(a) :
         /\ Effect(a, r, record[a], Registry!SlotsOf(a) \ {k}, core[a], [req[r] EXCEPT !.todo = @ \ {k}])
         /\ Unfailing /\ Ledgers
  BY RevokesDo
<1>q. PICK q : q = [req[r] EXCEPT !.todo = @ \ {k}]
  OBVIOUS
<1>p. PICK sl : sl = Registry!SlotsOf(a) \ {k}
  OBVIOUS
<1>1. Effect(a, r, record[a], sl, core[a], q) /\ Unfailing /\ Ledgers /\ req[r].at = "scan"
  BY <1>k, <1>q, <1>p DEF Registry!RevokeOne
<1>2. SUFFICES ASSUME "overlap" \notin touched[a] PROVE AgentInv(a)'
  BY <1>1, Interfered DEF Unfailing
<1>3. /\ q.op = req[r].op /\ q.agent = a /\ q.at = "scan" /\ q.seen = req[r].seen /\ q.key = req[r].key
      /\ q.todo = req[r].todo \ {k}
  BY <1>q, <1>1, RegTyped DEF ReqType
<1>a. View(a, r, record[a], sl, core[a])
  BY <1>1, <1>2, Viewed
<1>b. OnlyNext(a, q)
  BY <1>1, <1>2, <1>3, Viewed
<1> USE <1>1, <1>3, <1>a, <1>b, NoKey DEF View, OnlyNext, Unfailing, Ledgers, AgentInv, Calm, OpsAt
<1>6. SeenInv(a)'
  BY DEF SeenInv, SeenSound, Registry!Exists
<1>7. WorkInv(a)'
  BY DEF WorkInv, SeenInv, SeenSound
<1>8. StrayInv(a)'
  BY <1>p DEF StrayInv, Registry!KeysOf, Known, Registry!Exists, SeenInv, SeenSound
<1>9. GoneInv(a)'
  BY <1>p DEF GoneInv, Registry!Exists
<1>10. LevelInv(a)'
  BY DEF LevelInv, SeenInv, SeenSound, Registry!Exists, Registry!Marks
<1>11. QED BY <1>6, <1>7, <1>8, <1>9, <1>10

(* A failed command leaves a mark on the agent. *)
LEMMA Spoilt ==
    ASSUME RegInv, NEW a \in Agents, Failing(a)
    PROVE  /\ touched'[a] = touched[a] \cup {"fault"} /\ "fault" \in Registry!Marks
           /\ faults' = faults + 1 /\ faults \in Nat
BY RegTypes DEF RegInv, Failing, AgentsTyped, CountsTyped, Registry!Marks

LEMMA RollbackSound ==
    ASSUME RegInv, NEW r \in Registry!Requests, NEW a \in Agents, req[r].agent = a, Registry!Rollback(r)
    PROVE  AgentInv(a)'
<1>1. /\ \/ Effect(a, r, record[a], Registry!SlotsOf(a) \ {req[r].key}, core[a], Registry!Idle) /\ Unfailing
         \/ \E sl \in SUBSET Registry!SlotsOf(a) : Effect(a, r, record[a], sl, core[a], Registry!Idle) /\ Failing(a)
      /\ req[r].at = "rollback"
  BY RevokesDo DEF Registry!Rollback
<1>0. touched[a] \subseteq touched'[a]
  BY <1>1, Spoilt DEF Unfailing
<1>2. SUFFICES ASSUME "overlap" \notin touched[a] PROVE AgentInv(a)'
  BY <1>0, Interfered
<1>3. CASE Effect(a, r, record[a], Registry!SlotsOf(a) \ {req[r].key}, core[a], Registry!Idle) /\ Unfailing
  <2>p. PICK sl : sl = Registry!SlotsOf(a) \ {req[r].key}
    OBVIOUS
  <2>a. View(a, r, record[a], sl, core[a])
    BY <1>2, <1>3, <2>p, Viewed
  <2>b. NoneNext(a)
    BY <1>2, <1>3, Viewed
  <2>o. WorkInv(a) /\ WorkInv(a) => ~Calm(a, {"overlap", "crash", "fault", "skip"})
    BY <1>1, <2>a DEF View, WorkInv, AgentInv
  <2>m. /\ \A kinds : Calm(a, kinds) <=> touched[a] \cap kinds = {}
        /\ "fault" \in Registry!Marks /\ "skip" \in Registry!Marks /\ "crash" \in Registry!Marks /\ "overlap" \in Registry!Marks
    BY DEF Calm, Registry!Marks
  <2> USE <1>1, <1>3, <2>a, <2>b, NoKey DEF View, NoneNext, Unfailing, AgentInv
  <2>6. SeenInv(a)'
    BY DEF SeenInv
  <2>7. WorkInv(a)'
    BY <2>o DEF WorkInv, Calm
  <2>8. StrayInv(a)'
    BY <2>p DEF StrayInv, Registry!KeysOf, Known, Registry!Exists, Calm, OpsAt
  <2>9. GoneInv(a)'
    BY <2>o, <2>m DEF GoneInv, Calm
  <2>10. LevelInv(a)'
    BY <2>o, <2>m DEF LevelInv, Calm
  <2>11. QED BY <2>6, <2>7, <2>8, <2>9, <2>10
<1>4. ASSUME NEW sl, Effect(a, r, record[a], sl, core[a], Registry!Idle), Failing(a)
      PROVE  AgentInv(a)'
  <2>a. View(a, r, record[a], sl, core[a])
    BY <1>2, <1>4, Viewed
  <2>b. NoneNext(a)
    BY <1>2, <1>4, Viewed
  <2>c. /\ touched'[a] = touched[a] \cup {"fault"} /\ "fault" \in Registry!Marks
        /\ faults' = faults + 1 /\ faults \in Nat
    BY <1>4, Spoilt
  <2>d. StrayInv(a)'
    BY <1>1, <2>a, <2>b, <2>c DEF StrayInv, Registry!KeysOf, Known, Registry!Exists, Calm, AgentInv, View
  <2>e. SeenInv(a)'
    BY <2>b DEF SeenInv, NoneNext
  <2>f. WorkInv(a)' /\ GoneInv(a)' /\ LevelInv(a)'
    BY <2>c DEF WorkInv, GoneInv, LevelInv, Calm
  <2>g. QED BY <2>d, <2>e, <2>f DEF AgentInv
<1>5. QED BY <1>1, <1>3, <1>4

LEMMA SkipSlotSound ==
    ASSUME RegInv, NEW r \in Registry!Requests, NEW a \in Agents, req[r].agent = a, Registry!SkipSlot(r)
    PROVE  AgentInv(a)'
<1>k. PICK k \in req[r].todo :
         /\ Effect(a, r, record[a], Registry!SlotsOf(a), core[a], [req[r] EXCEPT !.todo = @ \ {k}])
         /\ touched' = [touched EXCEPT ![a] = @ \cup {"skip"}] /\ faults' = faults + 1
  BY ScansDo
<1>q. PICK q : q = [req[r] EXCEPT !.todo = @ \ {k}]
  OBVIOUS
<1>1. Effect(a, r, record[a], Registry!SlotsOf(a), core[a], q) /\ req[r].at = "scan"
  BY <1>k, <1>q DEF Registry!SkipSlot
<1>m. touched'[a] = touched[a] \cup {"skip"} /\ "skip" \in Registry!Marks
  BY <1>k, RegTyped DEF AgentsTyped, Registry!Marks
<1>2. SUFFICES ASSUME "overlap" \notin touched[a] PROVE AgentInv(a)'
  BY <1>m, Interfered
<1>3. /\ q.op = req[r].op /\ q.agent = a /\ q.at = "scan" /\ q.seen = req[r].seen /\ q.key = req[r].key
      /\ q.todo = req[r].todo \ {k}
  BY <1>q, <1>1, RegTyped DEF ReqType
<1>a. View(a, r, record[a], Registry!SlotsOf(a), core[a])
  BY <1>1, <1>2, Viewed
<1>b. OnlyNext(a, q)
  BY <1>1, <1>2, <1>3, Viewed
<1>6. SeenInv(a)'
  BY <1>1, <1>3, <1>a, <1>b, <1>m DEF SeenInv, SeenSound, Registry!Exists, View, OnlyNext, AgentInv, Calm
<1>7. WorkInv(a)' /\ StrayInv(a)' /\ GoneInv(a)' /\ LevelInv(a)'
  BY <1>m DEF WorkInv, StrayInv, Registry!KeysOf, Known, Registry!Exists, GoneInv, LevelInv, Calm
<1>8. QED BY <1>6, <1>7 DEF AgentInv

LEMMA ScanDoneSound ==
    ASSUME RegInv, NEW r \in Registry!Requests, NEW a \in Agents, req[r].agent = a, Registry!ScanDone(r)
    PROVE  AgentInv(a)'
<1>q. PICK q : q = Going(req[r], Registry!AfterScan(req[r].op))
  OBVIOUS
<1>1. /\ Effect(a, r, record[a], Registry!SlotsOf(a), core[a], q) /\ Unfailing /\ Ledgers /\ req[r].at = "scan"
      /\ req[r].todo \cap Registry!SlotsOf(a) = {}
  BY <1>q, ScansDo DEF Registry!ScanDone, Registry!Scanned
<1>2. SUFFICES ASSUME "overlap" \notin touched[a] PROVE AgentInv(a)'
  BY <1>1, Interfered DEF Unfailing
<1>3. \/ req[r].op = "rotate" /\ Onward(req[r], q, "store")
      \/ req[r].op = "delete" /\ Onward(req[r], q, "unsave")
  BY <1>q, <1>1, OpsKnown, GoesOn, RegTyped DEF OpsAt, Going, Registry!AfterScan
<1>a. View(a, r, record[a], Registry!SlotsOf(a), core[a])
  BY <1>1, <1>2, Viewed
<1>4. q.agent = a
  BY <1>3 DEF Onward
<1>b. OnlyNext(a, q)
  BY <1>1, <1>2, <1>4, Viewed
<1> USE <1>1, <1>3, <1>a, <1>b, NoKey DEF View, OnlyNext, Unfailing, Ledgers, AgentInv, Calm, OpsAt, Onward
<1>6. SeenInv(a)'
  BY DEF SeenInv, SeenSound, Registry!Exists
<1>7. WorkInv(a)'
  BY DEF WorkInv, SeenInv, SeenSound
<1>8. StrayInv(a)'
  BY DEF StrayInv, Registry!KeysOf, Known, Registry!Exists, SeenInv, SeenSound
<1>9. GoneInv(a)'
  BY DEF GoneInv, Registry!Exists
<1>10. LevelInv(a)'
  BY DEF LevelInv, SeenInv, SeenSound, Registry!Exists, Registry!Marks
<1>11. QED BY <1>6, <1>7, <1>8, <1>9, <1>10

(* A request that goes on after an error: a deletion whose scan failed, and a rotation that takes its key back. *)
LEMMA RetractSound ==
    ASSUME RegInv, NEW r \in Registry!Requests, NEW a \in Agents, req[r].agent = a,
           \/ Registry!RevokeError(r) /\ req[r].op # "rotate"
           \/ Registry!SaveError(r) /\ req[r].op = "rotate"
    PROVE  AgentInv(a)'
<1>1. \E q, rc, sl :
         /\ Effect(a, r, rc, sl, core[a], q) /\ Failing(a) /\ deleted' = deleted /\ sl \subseteq Registry!SlotsOf(a)
         /\ \/ rc = record[a] /\ req[r].op = "delete" /\ req[r].at = "scan" /\ Onward(req[r], q, "unsave")
            \/ /\ rc \in {record[a], req[r].seen} /\ req[r].op = "rotate" /\ req[r].at \in {"save", "index"}
               /\ Onward(req[r], q, "rollback")
  <2>0. OpsAt(req[r]) /\ req[r] \in ReqType
    BY OpsKnown, RegTyped
  <2>1. CASE Registry!RevokeError(r) /\ req[r].op # "rotate"
    <3>1. req[r].at = "scan" /\ req[r].op = "delete"
      BY <2>0, <2>1 DEF Registry!RevokeError, OpsAt
    <3>2. PICK q : q = [req[r] EXCEPT !.at = "unsave"]
      OBVIOUS
    <3>3. PICK sl \in SUBSET Registry!SlotsOf(a) : Effect(a, r, record[a], sl, core[a], q) /\ Failing(a) /\ Ledgers
      BY <2>1, <3>2, ErrorsDo DEF Going, Registry!AfterScan
    <3>4. Onward(req[r], q, "unsave")
      BY <2>0, <3>2, GoesOn
    <3>5. QED BY <3>1, <3>3, <3>4 DEF Ledgers
  <2>2. CASE Registry!SaveError(r) /\ req[r].op = "rotate"
    <3>1. req[r].at \in {"save", "index"}
      BY <2>2 DEF Registry!SaveError
    <3>2. PICK q : q = [req[r] EXCEPT !.at = "rollback"]
      OBVIOUS
    <3>3. PICK rc \in {record[a], req[r].seen} :
             Effect(a, r, rc, Registry!SlotsOf(a), core[a], q) /\ Failing(a) /\ deleted' = deleted
      BY <2>2, <3>2, ErrorsDo DEF Going, Registry!AfterSaveError
    <3>4. Onward(req[r], q, "rollback")
      BY <2>0, <3>2, GoesOn
    <3>5. QED BY <2>2, <3>1, <3>3, <3>4
  <2>3. QED BY <2>1, <2>2
<1>q. PICK q, rc, sl :
         /\ Effect(a, r, rc, sl, core[a], q) /\ Failing(a) /\ deleted' = deleted /\ sl \subseteq Registry!SlotsOf(a)
         /\ \/ rc = record[a] /\ req[r].op = "delete" /\ req[r].at = "scan" /\ Onward(req[r], q, "unsave")
            \/ /\ rc \in {record[a], req[r].seen} /\ req[r].op = "rotate" /\ req[r].at \in {"save", "index"}
               /\ Onward(req[r], q, "rollback")
  BY <1>1
<1>m. /\ touched'[a] = touched[a] \cup {"fault"} /\ "fault" \in Registry!Marks
      /\ faults' = faults + 1 /\ faults \in Nat
  BY <1>q, Spoilt
<1>2. SUFFICES ASSUME "overlap" \notin touched[a] PROVE AgentInv(a)'
  BY <1>m, Interfered
<1>a. View(a, r, rc, sl, core[a])
  BY <1>q, <1>2, Viewed
<1>4. q.agent = a
  BY <1>q DEF Onward
<1>b. OnlyNext(a, q)
  BY <1>q, <1>2, <1>4, Viewed
<1>5. Registry!KeysOf(a)' \subseteq Registry!KeysOf(a)
  BY <1>q, <1>a DEF View, Registry!KeysOf
<1>6. SeenInv(a)'
  BY <1>q, <1>2, <1>a, <1>b, <1>m DEF SeenInv, SeenSound, Registry!Exists, View, OnlyNext, AgentInv, Calm, Onward, OpsAt
<1>7. StrayInv(a)'
  BY <1>q, <1>5, <1>a, <1>b, <1>m DEF StrayInv, Known, Registry!Exists, View, OnlyNext, AgentInv, Calm, Onward
<1>8. WorkInv(a)' /\ GoneInv(a)' /\ LevelInv(a)'
  BY <1>m DEF WorkInv, GoneInv, LevelInv, Calm
<1>9. QED BY <1>6, <1>7, <1>8 DEF AgentInv

LEMMA DeleteGraphSound ==
    ASSUME RegInv, NEW r \in Registry!Requests, NEW a \in Agents, req[r].agent = a, Registry!DeleteGraph(r)
    PROVE  AgentInv(a)'
<1>q. PICK q : q = [req[r] EXCEPT !.at = "scan", !.todo = Registry!SlotsOf(a)]
  OBVIOUS
<1>1. /\ Effect(a, r, record[a], Registry!SlotsOf(a), NoAgent, q) /\ Unfailing /\ req[r].at = "graph"
      /\ index' = index /\ deleted' = deleted /\ graph' = graph \ {a}
  BY <1>q, ScansDo DEF Registry!DeleteGraph
<1>2. SUFFICES ASSUME "overlap" \notin touched[a] PROVE AgentInv(a)'
  BY <1>1, Interfered DEF Unfailing
<1>3. /\ q.op = "delete" /\ q.agent = a /\ q.at = "scan" /\ q.todo = Registry!SlotsOf(a)
      /\ req[r].op = "delete"
  BY <1>q, <1>1, OpsKnown, RegTyped DEF ReqType, OpsAt
<1>a. View(a, r, record[a], Registry!SlotsOf(a), NoAgent)
  BY <1>1, <1>2, Viewed
<1>b. OnlyNext(a, q)
  BY <1>1, <1>2, <1>3, Viewed
<1> USE <1>1, <1>3, <1>a, <1>b, NoKey DEF View, OnlyNext, Unfailing, AgentInv, Calm
<1>6. SeenInv(a)'
  BY DEF SeenInv, SeenSound
<1>7. WorkInv(a)'
  BY DEF WorkInv
<1>8. StrayInv(a)'
  BY DEF StrayInv, Registry!KeysOf, Known, Registry!Exists
<1>9. GoneInv(a)'
  BY DEF GoneInv, Registry!Exists
<1>10. LevelInv(a)'
  BY DEF LevelInv
<1>11. QED BY <1>6, <1>7, <1>8, <1>9, <1>10

LEMMA DropRecordSound ==
    ASSUME RegInv, NEW r \in Registry!Requests, NEW a \in Agents, req[r].agent = a, Registry!DropRecord(r)
    PROVE  AgentInv(a)'
<1>q. PICK q : q = [req[r] EXCEPT !.at = "unindex"]
  OBVIOUS
<1>1. /\ Effect(a, r, Registry!NoRecord, Registry!SlotsOf(a), core[a], q) /\ Unfailing /\ Ledgers /\ req[r].at = "unsave"
  BY <1>q, ScansDo DEF Registry!DropRecord
<1>2. SUFFICES ASSUME "overlap" \notin touched[a] PROVE AgentInv(a)'
  BY <1>1, Interfered DEF Unfailing
<1>3. Onward(req[r], q, "unindex")
  BY <1>q, GoesOn, RegTyped
<1>a. View(a, r, Registry!NoRecord, Registry!SlotsOf(a), core[a])
  BY <1>1, <1>2, Viewed
<1>4. q.agent = a
  BY <1>3 DEF Onward
<1>b. OnlyNext(a, q)
  BY <1>1, <1>2, <1>4, Viewed
<1> USE <1>1, <1>3, <1>a, <1>b, NoKey DEF View, OnlyNext, Unfailing, Ledgers, AgentInv, Calm, OpsAt, Onward
<1>6. SeenInv(a)'
  BY DEF SeenInv, SeenSound, Registry!Exists
<1>7. WorkInv(a)'
  BY DEF WorkInv
<1>8. StrayInv(a)'
  BY DEF StrayInv, Registry!KeysOf, Known, Registry!Exists
<1>9. GoneInv(a)'
  BY DEF GoneInv, Registry!Exists
<1>10. LevelInv(a)'
  BY DEF LevelInv, Registry!Exists
<1>11. QED BY <1>6, <1>7, <1>8, <1>9, <1>10

LEMMA DropIndexSound ==
    ASSUME RegInv, NEW r \in Registry!Requests, NEW a \in Agents, req[r].agent = a, Registry!DropIndex(r)
    PROVE  AgentInv(a)'
<1>1. /\ Effect(a, r, record[a], Registry!SlotsOf(a), core[a], Registry!Idle) /\ Unfailing /\ req[r].at = "unindex"
      /\ graph' = graph /\ index' = index \ {a} /\ deleted' = deleted \cup {a}
  BY ScansDo DEF Registry!DropIndex
<1>2. SUFFICES ASSUME "overlap" \notin touched[a] PROVE AgentInv(a)'
  BY <1>1, Interfered DEF Unfailing
<1>a. View(a, r, record[a], Registry!SlotsOf(a), core[a])
  BY <1>1, <1>2, Viewed
<1>b. NoneNext(a)
  BY <1>1, <1>2, Viewed
<1> USE <1>1, <1>a, <1>b, NoKey DEF View, NoneNext, Unfailing, AgentInv, Calm, OpsAt
<1>6. SeenInv(a)'
  BY DEF SeenInv
<1>7. WorkInv(a)'
  BY DEF WorkInv
<1>8. StrayInv(a)'
  BY DEF StrayInv, Registry!KeysOf, Known, Registry!Exists, SeenInv, SeenSound
<1>9. GoneInv(a)'
  BY DEF GoneInv, SeenInv, SeenSound, Registry!Exists, Registry!Marks
<1>10. LevelInv(a)'
  BY DEF LevelInv, SeenInv, SeenSound, Registry!Exists, Registry!Marks
<1>11. QED BY <1>6, <1>7, <1>8, <1>9, <1>10

-----------------------------------------------------------------------------
(* What a step of a request leaves of the other agents. *)
LEMMA StepElse ==
    ASSUME RegInv, NEW r \in Registry!Requests, Registry!Step(r), NEW a \in Agents, req[r].agent = a,
           NEW b \in Agents, b # a
    PROVE  AgentInv(b)'
<1>0. AgentsTyped /\ req \in [Registry!Requests -> ReqType] /\ faults \in Nat
  BY RegTyped DEF CountsTyped
<1>1. PICK rc \in Registry!Records, sl \in SUBSET (1 .. MaxKeys), co \in Levels \cup {NoLevel, NoAgent},
           q \in {x \in ReqType : ReqShape(x)} : Effect(a, r, rc, sl, co, q) /\ q.agent \in {a, NoAgent}
  BY StepEffects DEF StepEffect
<1>2. /\ record'[b] = record[b] /\ Registry!SlotsOf(b)' = Registry!SlotsOf(b) /\ core'[b] = core[b]
      /\ unclaimed \subseteq unclaimed'
  BY <1>0, <1>1 DEF Effect, AgentsTyped
<1>3. Of(b)' = Of(b)
  <2>1. req' = [req EXCEPT ![r] = q] /\ q.agent # b /\ req[r].agent # b
    BY <1>1, AdminAssumption DEF Effect
  <2>2. \A x \in Registry!Requests : req'[x].agent = b => x # r /\ req'[x] = req[x]
    BY <1>0, <2>1
  <2>3. \A x \in Registry!Requests : req[x].agent = b => x # r /\ req'[x] = req[x]
    BY <1>0, <2>1
  <2>4. QED BY <2>2, <2>3 DEF Of
<1>4. touched[b] \subseteq touched'[b] /\ faults' \in Nat /\ faults <= faults'
  BY <1>0, StepMarks DEF MarkEffect, Unfailing, AgentsTyped
<1>5. (b \in index' <=> b \in index) /\ (b \in graph' <=> b \in graph) /\ (b \in deleted' <=> b \in deleted)
  BY StepMarks DEF LedgerEffect
<1>6. SameView(b)
  BY <1>2, <1>3, <1>4, <1>5 DEF SameView
<1>7. QED BY <1>6, SameKept

LEMMA StepSound ==
    ASSUME RegInv, NEW r \in Registry!Requests, Registry!Step(r), NEW b \in Agents
    PROVE  AgentInv(b)'
<1>1. req[r].agent \in Agents
  BY StepAgent
<1>2. PICK a \in Agents : req[r].agent = a
  BY <1>1
<1>3. CASE b # a
  BY <1>2, <1>3, StepElse
<1>4. AgentInv(a)'
  <2>1. CASE \/ Registry!StoreKeyError(r) \/ Registry!CoreError(r) \/ Registry!DeleteGraphError(r)
             \/ Registry!SaveError(r) /\ req[r].op # "rotate"
             \/ Registry!RevokeError(r) /\ req[r].op = "rotate"
             \/ Registry!DropError(r)
    BY <1>2, <2>1, FailedSound
  <2>2. CASE \/ Registry!RevokeError(r) /\ req[r].op # "rotate"
             \/ Registry!SaveError(r) /\ req[r].op = "rotate"
    BY <1>2, <2>2, RetractSound
  <2>3. QED
    BY <1>2, <2>1, <2>2, StoreKeySound, SaveRecordSound, SaveIndexSound, RollbackSound, EnsureCoreSound, SyncLevelSound,
       RevokeKnownSound, RevokeOneSound, SkipSlotSound, ScanDoneSound, DeleteGraphSound, DropRecordSound, DropIndexSound
       DEF Registry!Step
<1>5. QED BY <1>3, <1>4

(* A request that begins when there is no other of its agent. *)
LEMMA BeginElse ==
    ASSUME RegInv, NEW r \in Registry!Requests, NEW a \in Agents, NEW q \in ReqType, BeginsWith(r, a, q),
           NEW b \in Agents, b # a
    PROVE  AgentInv(b)'
<1>0. AgentsTyped /\ req \in [Registry!Requests -> ReqType] /\ faults \in Nat
  BY RegTyped DEF CountsTyped
<1>1. record' = record /\ slots' = slots /\ core' = core /\ index' = index /\ graph' = graph /\ deleted' = deleted
      /\ faults' = faults /\ unclaimed' = unclaimed
  BY DEF BeginsWith
<1>2. Registry!SlotsOf(b)' = Registry!SlotsOf(b)
  BY <1>1, SlotsUnwritten
<1>3. Of(b)' = Of(b)
  <2>1. req' = [req EXCEPT ![r] = q] /\ q.agent # b /\ req[r].agent # b
    BY IdleReq DEF BeginsWith
  <2>2. \A x \in Registry!Requests : req'[x].agent = b => x # r /\ req'[x] = req[x]
    BY <1>0, <2>1
  <2>3. \A x \in Registry!Requests : req[x].agent = b => x # r /\ req'[x] = req[x]
    BY <1>0, <2>1
  <2>4. QED BY <2>2, <2>3 DEF Of
<1>4. touched'[b] = touched[b]
  BY <1>0 DEF BeginsWith, AgentsTyped
<1>5. SameView(b)
  BY <1>0, <1>1, <1>2, <1>3, <1>4 DEF SameView
<1>6. QED BY <1>5, SameKept

(* What a request that begins alone finds of its agent. *)
Fresh(a, q, kinds) ==
    /\ Of(a) = {} /\ Of(a)' = {q} /\ AgentInv(a) /\ "overlap" \notin touched[a]
    /\ record'[a] = record[a] /\ Registry!SlotsOf(a)' = Registry!SlotsOf(a) /\ core'[a] = core[a]
    /\ touched'[a] = touched[a] \cup kinds /\ faults' = faults
    /\ index' = index /\ graph' = graph /\ deleted' = deleted /\ unclaimed' = unclaimed

LEMMA BeginView ==
    ASSUME RegInv, NEW r \in Registry!Requests, NEW a \in Agents, NEW q, BeginsWith(r, a, q),
           ~(Registry!Busy(a) \/ "overlap" \in touched[a])
    PROVE  Fresh(a, q, IF q.op = "import" THEN {"import"} ELSE {})
<1>0. AgentsTyped /\ req \in [Registry!Requests -> ReqType] /\ AgentInv(a)
  BY RegTyped DEF RegInv
<1>1. /\ record' = record /\ slots' = slots /\ core' = core /\ index' = index /\ graph' = graph /\ deleted' = deleted
      /\ faults' = faults /\ q.agent = a /\ req' = [req EXCEPT ![r] = q] /\ unclaimed' = unclaimed
  BY DEF BeginsWith
<1>2. Registry!SlotsOf(a)' = Registry!SlotsOf(a)
  BY <1>1, SlotsUnwritten
<1>3. \A x \in Registry!Requests : req[x].agent # a
  BY DEF Registry!Busy
<1>4. Of(a) = {}
  BY <1>3 DEF Of
<1>5. Of(a)' = {q}
  <2>1. req'[r] = q /\ \A x \in Registry!Requests : x # r => req'[x] = req[x]
    BY <1>0, <1>1
  <2>2. QED BY <1>1, <1>3, <2>1 DEF Of
<1>6. touched'[a] = touched[a] \cup (IF q.op = "import" THEN {"import"} ELSE {})
  BY <1>0 DEF BeginsWith, AgentsTyped
<1>7. QED BY <1>0, <1>1, <1>2, <1>4, <1>5, <1>6 DEF Fresh

LEMMA BeginInterfered ==
    ASSUME RegInv, NEW r \in Registry!Requests, NEW a \in Agents, NEW q, BeginsWith(r, a, q),
           Registry!Busy(a) \/ "overlap" \in touched[a]
    PROVE  AgentInv(a)'
<1>1. "overlap" \in touched'[a]
  BY RegTyped DEF BeginsWith, AgentsTyped
<1>2. QED BY <1>1, Interfered

LEMMA BeginCreateSound ==
    ASSUME RegInv, NEW r \in Registry!Requests, NEW a \in Agents, Registry!BeginCreate(r, a)
    PROVE  AgentInv(a)'
<1>1. PICK l \in Levels : BeginsWith(r, a, Request(a, "create", "store", [hash |-> 0, level |-> l]))
  BY Begins
<1>2. PICK q : q = Request(a, "create", "store", [hash |-> 0, level |-> l])
  OBVIOUS
<1>3. q.op = "create" /\ q.agent = a /\ q.at = "store" /\ q.seen = [hash |-> 0, level |-> l] /\ q.key = 0
  BY <1>2, RequestIs
<1>4. BeginsWith(r, a, q)
  BY <1>1, <1>2
<1>5. /\ a \notin deleted /\ ~Registry!Exists(a) /\ Registry!SlotsOf(a) = {} /\ ~Registry!Busy(a) /\ core[a] = NoAgent
  BY DEF Registry!BeginCreate
<1>6. SUFFICES ASSUME "overlap" \notin touched[a] PROVE AgentInv(a)'
  BY <1>4, BeginInterfered
<1>7. Fresh(a, q, {})
  BY <1>3, <1>4, <1>5, <1>6, BeginView
<1> USE <1>3, <1>5, <1>7, NoKey DEF Fresh, AgentInv, Calm, Registry!Exists
<1>8. SeenInv(a)'
  BY DEF SeenInv, SeenSound
<1>9. WorkInv(a)'
  BY DEF WorkInv
<1>10. StrayInv(a)'
  BY DEF StrayInv, Registry!KeysOf, Known, Registry!Exists
<1>11. GoneInv(a)'
  BY DEF GoneInv
<1>12. LevelInv(a)'
  BY DEF LevelInv
<1>13. QED BY <1>8, <1>9, <1>10, <1>11, <1>12

LEMMA BeginRotateSound ==
    ASSUME RegInv, NEW r \in Registry!Requests, NEW a \in Agents, Registry!BeginRotate(r, a)
    PROVE  AgentInv(a)'
<1>1. PICK q : q = Request(a, "rotate", IF record[a].hash # 0 THEN "revoke" ELSE "scan", record[a])
  OBVIOUS
<1>2. BeginsWith(r, a, q)
  BY <1>1, Begins
<1>3. /\ q.op = "rotate" /\ q.agent = a /\ q.seen = record[a] /\ q.key = 0
      /\ \/ record[a].hash # 0 /\ q.at = "revoke"
         \/ record[a].hash = 0 /\ q.at = "scan" /\ q.todo = Registry!SlotsOf(a)
  BY <1>1, RequestIs
<1>4. Registry!Exists(a)
  BY DEF Registry!BeginRotate
<1>5. SUFFICES ASSUME ~(Registry!Busy(a) \/ "overlap" \in touched[a]) PROVE AgentInv(a)'
  BY <1>2, BeginInterfered
<1>6. Fresh(a, q, {})
  BY <1>2, <1>3, <1>5, BeginView
<1> USE <1>3, <1>4, <1>6, NoKey DEF Fresh, AgentInv, Calm, Registry!Exists
<1>8. SeenInv(a)'
  BY DEF SeenInv, SeenSound
<1>9. WorkInv(a)'
  BY DEF WorkInv
<1>10. StrayInv(a)'
  BY DEF StrayInv, Registry!KeysOf, Known, Registry!Exists
<1>11. GoneInv(a)'
  BY DEF GoneInv
<1>12. LevelInv(a)'
  BY DEF LevelInv
<1>13. QED BY <1>8, <1>9, <1>10, <1>11, <1>12

LEMMA BeginUpdateSound ==
    ASSUME RegInv, NEW r \in Registry!Requests, NEW a \in Agents, Registry!BeginUpdate(r, a)
    PROVE  AgentInv(a)'
<1>1. PICK l \in Levels : BeginsWith(r, a, Request(a, "update", "save", [hash |-> record[a].hash, level |-> l]))
  BY Begins
<1>2. PICK q : q = Request(a, "update", "save", [hash |-> record[a].hash, level |-> l])
  OBVIOUS
<1>3. q.op = "update" /\ q.agent = a /\ q.at = "save" /\ q.seen.hash = record[a].hash /\ q.key = 0
  BY <1>2, RequestIs
<1>4. BeginsWith(r, a, q) /\ Registry!Exists(a)
  BY <1>1, <1>2 DEF Registry!BeginUpdate
<1>5. SUFFICES ASSUME ~(Registry!Busy(a) \/ "overlap" \in touched[a]) PROVE AgentInv(a)'
  BY <1>4, BeginInterfered
<1>6. Fresh(a, q, {})
  BY <1>4, <1>3, <1>5, BeginView
<1>7. record[a].level \in Levels /\ NoAgent \notin Levels
  BY <1>4, RegTyped, AdminAssumption DEF AgentsTyped, Registry!Records, Registry!Exists
<1> USE <1>3, <1>4, <1>6, NoKey DEF Fresh, AgentInv, Calm, Registry!Exists
<1>8. SeenInv(a)'
  BY DEF SeenInv, SeenSound
<1>9. WorkInv(a)'
  BY DEF WorkInv
<1>10. StrayInv(a)'
  BY DEF StrayInv, Registry!KeysOf, Known, Registry!Exists
<1>11. GoneInv(a)'
  BY DEF GoneInv
<1>12. LevelInv(a)'
  BY <1>7 DEF LevelInv
<1>13. QED BY <1>8, <1>9, <1>10, <1>11, <1>12

LEMMA BeginImportSound ==
    ASSUME RegInv, NEW r \in Registry!Requests, NEW a \in Agents, Registry!BeginImport(r, a)
    PROVE  AgentInv(a)'
<1>1. PICK l \in Levels : BeginsWith(r, a, Request(a, "import", "store", [hash |-> 0, level |-> l]))
  BY Begins
<1>2. PICK q : q = Request(a, "import", "store", [hash |-> 0, level |-> l])
  OBVIOUS
<1>3. q.op = "import" /\ q.agent = a /\ q.at = "store" /\ q.key = 0
  BY <1>2, RequestIs
<1>4. BeginsWith(r, a, q)
  BY <1>1, <1>2
<1>5. SUFFICES ASSUME ~(Registry!Busy(a) \/ "overlap" \in touched[a]) PROVE AgentInv(a)'
  BY <1>4, BeginInterfered
<1>6. Fresh(a, q, {"import"})
  BY <1>4, <1>3, <1>5, BeginView
<1> USE <1>3, <1>6, NoKey DEF Fresh, AgentInv, Calm, Registry!Exists
<1>8. SeenInv(a)'
  BY DEF SeenInv, SeenSound
<1>9. WorkInv(a)'
  BY DEF WorkInv
<1>10. StrayInv(a)'
  BY DEF StrayInv, Registry!KeysOf, Known, Registry!Exists
<1>11. GoneInv(a)' /\ LevelInv(a)'
  BY DEF GoneInv, LevelInv, Registry!Marks
<1>12. QED BY <1>8, <1>9, <1>10, <1>11

LEMMA BeginDeleteSound ==
    ASSUME RegInv, NEW r \in Registry!Requests, NEW a \in Agents, Registry!BeginDelete(r, a)
    PROVE  AgentInv(a)'
<1>1. PICK q : q = Request(a, "delete", "graph", record[a])
  OBVIOUS
<1>2. BeginsWith(r, a, q)
  BY <1>1, Begins
<1>3. q.op = "delete" /\ q.agent = a /\ q.at = "graph" /\ q.seen = record[a] /\ q.key = 0
  BY <1>1, RequestIs
<1>5. SUFFICES ASSUME ~(Registry!Busy(a) \/ "overlap" \in touched[a]) PROVE AgentInv(a)'
  BY <1>2, BeginInterfered
<1>6. Fresh(a, q, {})
  BY <1>2, <1>3, <1>5, BeginView
<1> USE <1>3, <1>6, NoKey DEF Fresh, AgentInv, Calm, Registry!Exists
<1>8. SeenInv(a)'
  BY DEF SeenInv, SeenSound
<1>9. WorkInv(a)'
  BY DEF WorkInv
<1>10. StrayInv(a)'
  BY DEF StrayInv, Registry!KeysOf, Known, Registry!Exists
<1>11. GoneInv(a)'
  BY DEF GoneInv
<1>12. LevelInv(a)'
  BY DEF LevelInv
<1>13. QED BY <1>8, <1>9, <1>10, <1>11, <1>12

LEMMA Unrequested ==
    ASSUME NEW a \in Agents, ~Registry!Busy(a)
    PROVE  Of(a) = {}
BY DEF Registry!Busy, Of

LEMMA SettingSound ==
    ASSUME RegInv, NEW a \in Agents, SettingDoes(a), NEW b \in Agents
    PROVE  AgentInv(b)'
<1>0. AgentsTyped /\ req \in [Registry!Requests -> ReqType] /\ faults \in Nat /\ AgentInv(b)
  BY RegTypes DEF RegInv, CountsTyped
<1>1. /\ record' = record /\ slots' = slots /\ index' = index /\ graph' = graph /\ deleted' = deleted
      /\ faults' = faults /\ req' = req /\ unclaimed' = unclaimed
      /\ core' = [core EXCEPT ![a] = IF @ = NoAgent THEN NoLevel ELSE @]
      /\ touched' = [touched EXCEPT ![a] = IF Registry!Busy(a) \/ ~Registry!Exists(a) THEN @ \cup {"overlap"} ELSE @]
  BY DEF SettingDoes
<1>2. Registry!SlotsOf(b)' = Registry!SlotsOf(b)
  BY <1>1, SlotsUnwritten
<1>3. Of(b)' = Of(b)
  BY <1>1 DEF Of
<1>4. CASE b # a
  <2>1. core'[b] = core[b] /\ touched'[b] = touched[b]
    BY <1>0, <1>1, <1>4 DEF AgentsTyped
  <2>2. SameView(b)
    BY <1>0, <1>1, <1>2, <1>3, <2>1 DEF SameView
  <2>3. QED BY <2>2, SameKept
<1>5. CASE b = a /\ (Registry!Busy(a) \/ ~Registry!Exists(a))
  <2>1. "overlap" \in touched'[b]
    BY <1>0, <1>1, <1>5 DEF AgentsTyped
  <2>2. QED BY <2>1, Interfered
<1>6. CASE b = a /\ ~Registry!Busy(a) /\ Registry!Exists(a)
  <2>1. touched'[b] = touched[b] /\ Of(b) = {}
    BY <1>0, <1>1, <1>6, Unrequested DEF AgentsTyped
  <2>2. core'[b] = IF core[b] = NoAgent THEN NoLevel ELSE core[b]
    BY <1>0, <1>1, <1>6 DEF AgentsTyped
  <2>3. record[b].level \in Levels /\ NoAgent \notin Levels
    BY <1>0, <1>6, AdminAssumption DEF AgentsTyped, Registry!Records, Registry!Exists
  <2> USE <1>0, <1>1, <1>2, <1>3, <1>6, <2>1 DEF AgentInv, Calm
  <2>4. SeenInv(b)' /\ WorkInv(b)' /\ StrayInv(b)'
    BY DEF SeenInv, WorkInv, StrayInv, Registry!KeysOf, Known, Registry!Exists
  <2>5. GoneInv(b)'
    BY DEF GoneInv, Registry!Exists
  <2>6. LevelInv(b)'
    BY <2>2, <2>3 DEF LevelInv, Registry!Exists
  <2>7. QED BY <2>4, <2>5, <2>6
<1>7. QED BY <1>4, <1>5, <1>6

LEMMA WriteSound ==
    ASSUME RegInv, NEW a \in Agents, WriteDoes(a), NEW b \in Agents
    PROVE  AgentInv(b)'
<1>0. AgentsTyped /\ req \in [Registry!Requests -> ReqType] /\ faults \in Nat /\ AgentInv(b)
  BY RegTypes DEF RegInv, CountsTyped
<1>1. /\ record' = record /\ slots' = slots /\ index' = index /\ core' = core /\ deleted' = deleted
      /\ faults' = faults /\ req' = req /\ unclaimed' = unclaimed /\ graph' = graph \cup {a} /\ Registry!Exists(a)
      /\ touched' = [touched EXCEPT ![a] = IF Registry!Busy(a) THEN @ \cup {"overlap"} ELSE @]
  BY DEF WriteDoes
<1>2. Registry!SlotsOf(b)' = Registry!SlotsOf(b)
  BY <1>1, SlotsUnwritten
<1>3. Of(b)' = Of(b)
  BY <1>1 DEF Of
<1>4. CASE b # a
  <2>1. touched'[b] = touched[b]
    BY <1>0, <1>1, <1>4 DEF AgentsTyped
  <2>2. SameView(b)
    BY <1>0, <1>1, <1>2, <1>3, <1>4, <2>1 DEF SameView
  <2>3. QED BY <2>2, SameKept
<1>5. CASE b = a /\ Registry!Busy(a)
  <2>1. "overlap" \in touched'[b]
    BY <1>0, <1>1, <1>5 DEF AgentsTyped
  <2>2. QED BY <2>1, Interfered
<1>6. CASE b = a /\ ~Registry!Busy(a)
  <2>1. touched'[b] = touched[b] /\ Of(b) = {}
    BY <1>0, <1>1, <1>6, Unrequested DEF AgentsTyped
  <2> USE <1>0, <1>1, <1>2, <1>3, <1>6, <2>1 DEF AgentInv, Calm
  <2>4. SeenInv(b)' /\ WorkInv(b)' /\ StrayInv(b)'
    BY DEF SeenInv, WorkInv, StrayInv, Registry!KeysOf, Known, Registry!Exists
  <2>5. GoneInv(b)'
    BY DEF GoneInv, Registry!Exists
  <2>6. LevelInv(b)'
    BY DEF LevelInv, Registry!Exists
  <2>7. QED BY <2>4, <2>5, <2>6
<1>7. QED BY <1>4, <1>5, <1>6

(* A crash spoils the agents whose requests die with it, and no other. *)
LEMMA CrashSound ==
    ASSUME RegInv, CrashDoes, NEW b \in Agents
    PROVE  AgentInv(b)'
<1>0. AgentsTyped /\ faults \in Nat
  BY RegTypes DEF RegInv, CountsTyped
<1>1. /\ record' = record /\ slots' = slots /\ core' = core /\ index' = index /\ graph' = graph /\ deleted' = deleted
      /\ faults' = faults + 1 /\ req' = [r \in Registry!Requests |-> Registry!Idle]
      /\ unclaimed' = unclaimed \cup ({req[r].key : r \in Registry!Requests} \ {0})
      /\ touched'[b] = IF Registry!Busy(b) THEN touched[b] \cup {"crash"} ELSE touched[b]
  BY DEF CrashDoes
<1>2. Registry!SlotsOf(b)' = Registry!SlotsOf(b)
  BY <1>1, SlotsUnwritten
<1>e. Of(b)' = {}
  BY <1>1, IdleReq, AdminAssumption DEF Of
<1>3. CASE Registry!Busy(b)
  <2>1. "crash" \in touched'[b] /\ touched[b] \subseteq touched'[b] /\ "crash" \in Registry!Marks
    BY <1>1, <1>3 DEF Registry!Marks
  <2>2. SeenInv(b)' /\ WorkInv(b)' /\ GoneInv(b)' /\ LevelInv(b)'
    BY <1>e, <2>1 DEF SeenInv, WorkInv, GoneInv, LevelInv, Calm
  <2>3. StrayInv(b)'
    <3>1. SUFFICES ASSUME faults = 0, Calm(b, {"overlap", "import", "skip"}), Known(b)
                   PROVE  Registry!KeysOf(b)' \subseteq {record[b].hash}
      BY <1>0, <1>1, <1>e, <2>1 DEF StrayInv, Calm, Known, Registry!Exists
    <3>2. PICK r \in Registry!Requests : req[r].agent = b
      BY <1>3 DEF Registry!Busy
    <3>3. Of(b) = {req[r]} /\ OpsAt(req[r])
      BY <3>1, <3>2, Alone, OpsKnown DEF Calm
    <3>4. StrayInv(b)
      BY DEF RegInv, AgentInv
    <3>5. Registry!KeysOf(b)' \subseteq Registry!KeysOf(b) \ ({req[r].key} \ {0})
      BY <1>1, <1>2 DEF Registry!KeysOf
    <3>6. 0 \notin Registry!KeysOf(b)
      BY AdminAssumption DEF Registry!KeysOf, Registry!SlotsOf
    <3>7. \/ Registry!KeysOf(b) \subseteq {record[b].hash}
          \/ Registry!KeysOf(b) \subseteq {req[r].key}
          \/ Registry!KeysOf(b) = {}
      BY <3>1, <3>3, <3>4 DEF StrayInv, OpsAt
    <3>8. QED BY <3>5, <3>6, <3>7
  <2>4. QED BY <2>2, <2>3 DEF AgentInv
<1>4. CASE ~Registry!Busy(b)
  <2>1. Of(b) = {}
    BY <1>4, Unrequested
  <2>2. Of(b)' = Of(b)
    BY <1>e, <2>1
  <2>3. SameView(b)
    BY <1>0, <1>1, <1>2, <1>4, <2>1, <2>2 DEF SameView
  <2>4. QED BY <2>3, SameKept
<1>5. QED BY <1>3, <1>4

LEMMA RestSound ==
    ASSUME RegInv, UNCHANGED RegistryVars, NEW b \in Agents
    PROVE  AgentInv(b)'
<1>1. AgentsTyped /\ faults \in Nat
  BY RegTypes DEF RegInv, CountsTyped
<1>2. /\ record' = record /\ slots' = slots /\ core' = core /\ index' = index /\ graph' = graph /\ deleted' = deleted
      /\ faults' = faults /\ req' = req /\ touched' = touched /\ unclaimed' = unclaimed
  BY DEF RegistryVars
<1>3. Registry!SlotsOf(b)' = Registry!SlotsOf(b) /\ Of(b)' = Of(b)
  BY <1>2, SlotsUnwritten DEF Of
<1>4. SameView(b)
  BY <1>1, <1>2, <1>3 DEF SameView
<1>5. QED BY <1>4, SameKept

LEMMA RegInvStep ==
    ASSUME RegInv, Registry!Next \/ UNCHANGED RegistryVars
    PROVE  RegInv'
<1>1. ASSUME NEW b \in Agents PROVE AgentInv(b)'
  <2>1. CASE \E r \in Registry!Requests : Registry!Step(r)
    BY <2>1, StepSound
  <2>2. CASE \E r \in Registry!Requests, a \in Agents, q \in ReqType :
                RegActs(r, a) /\ BeginsWith(r, a, q) /\ Unkeyed(a, q)
    <3>1. PICK r \in Registry!Requests, a \in Agents, q \in ReqType : RegActs(r, a) /\ BeginsWith(r, a, q)
      BY <2>2
    <3>2. CASE b # a
      BY <3>1, <3>2, BeginElse
    <3>3. CASE b = a
      BY <3>1, <3>3, BeginCreateSound, BeginRotateSound, BeginUpdateSound, BeginImportSound, BeginDeleteSound DEF RegActs
    <3>4. QED BY <3>2, <3>3
  <2>3. CASE \E a \in Agents : SettingDoes(a) \/ WriteDoes(a)
    BY <2>3, SettingSound, WriteSound
  <2>4. CASE CrashDoes
    BY <2>4, CrashSound
  <2>5. CASE UNCHANGED RegistryVars
    BY <2>5, RestSound
  <2>6. QED BY <2>1, <2>2, <2>3, <2>4, <2>5, RegKinds
<1>2. QED BY <1>1, RegTypesStep, OverlapStep, KeysStep DEF RegInv

LEMMA AgentsAgree == RegInv =>
    Registry!NoStrayKey /\ Registry!KeyWorks /\ Registry!DeletedLeavesNothing /\ Registry!LevelsAgree
<1> SUFFICES ASSUME RegInv
             PROVE  Registry!NoStrayKey /\ Registry!KeyWorks /\ Registry!DeletedLeavesNothing /\ Registry!LevelsAgree
  OBVIOUS
<1>1. ASSUME NEW a \in Agents, NEW kinds, Registry!AtRest(a, kinds)
      PROVE  Of(a) = {} /\ Calm(a, kinds) /\ AgentInv(a)
  BY <1>1, Unrequested DEF RegInv, Calm, Registry!AtRest
<1>2. Registry!NoStrayKey
  <2>1. SUFFICES ASSUME faults <= 1, NEW a \in Agents, Registry!AtRest(a, {"overlap", "import", "skip"}), Known(a)
                 PROVE  Registry!KeysOf(a) \subseteq {record[a].hash}
    BY DEF Registry!NoStrayKey, Known
  <2>2. QED BY <1>1, <2>1 DEF AgentInv, StrayInv, Registry!KeysOf, Known, Registry!Exists
<1>3. Registry!KeyWorks
  <2>1. SUFFICES ASSUME NEW a \in Agents, Registry!AtRest(a, {"overlap", "crash", "fault", "skip"}), record[a].hash # 0
                 PROVE  slots[record[a].hash] = a
    BY DEF Registry!KeyWorks
  <2>2. QED BY <1>1, <2>1 DEF AgentInv, WorkInv, Registry!SlotsOf
<1>4. Registry!DeletedLeavesNothing
  <2>1. SUFFICES ASSUME NEW a \in deleted, Registry!AtRest(a, Registry!Marks)
                 PROVE  /\ ~Registry!Exists(a) /\ a \notin index /\ Registry!SlotsOf(a) = {}
                        /\ core[a] = NoAgent /\ a \notin graph
    BY DEF Registry!DeletedLeavesNothing
  <2>2. a \in Agents
    BY RegTypes DEF RegInv, AgentsTyped
  <2>3. QED BY <1>1, <2>1, <2>2 DEF AgentInv, GoneInv
<1>5. Registry!LevelsAgree
  <2>1. SUFFICES ASSUME NEW a \in Agents, Registry!AtRest(a, Registry!Marks), Registry!Exists(a)
                 PROVE  core[a] = record[a].level
    BY DEF Registry!LevelsAgree
  <2>2. QED BY <1>1, <2>1 DEF AgentInv, LevelInv
<1>6. QED BY <1>2, <1>3, <1>4, <1>5

LEMMA RegInvInit == ASSUME Registry!Init PROVE RegInv
<1>1. PICK old \in SUBSET Agents, l \in Levels :
         /\ Registry!Cardinality(old) <= MaxKeys
         /\ record = [a \in Agents |-> IF a \in old THEN [hash |-> 0, level |-> l] ELSE Registry!NoRecord]
         /\ index = old /\ graph = old
         /\ core = [a \in Agents |-> IF a \in old THEN l ELSE NoAgent]
         /\ \E k \in [1 .. Registry!Cardinality(old) -> old] :
               /\ \A a \in old : \E n \in DOMAIN k : k[n] = a
               /\ slots = [n \in 1 .. MaxKeys |-> IF n \in DOMAIN k THEN k[n] ELSE NoAgent]
         /\ keys = Registry!Cardinality(old)
  BY DEF Registry!Init
<1>2. /\ req = [r \in Registry!Requests |-> Registry!Idle] /\ starts = 0 /\ faults = 0 /\ deleted = {} /\ unclaimed = {}
      /\ touched = [a \in Agents |-> {}]
  BY DEF Registry!Init
<1>3. keys \in 0 .. MaxKeys /\ \A k \in 1 .. MaxKeys : k \notin 1 .. keys <=> k > keys
  <2>1. IsFiniteSet(old)
    BY FS_Subset, AdminAssumption
  <2>2. Cardinality(old) \in Nat
    BY <2>1, FS_CardinalityType
  <2>3. Registry!Cardinality(old) = Cardinality(old)
    BY DEF Registry!Cardinality, Cardinality, Registry!IsFiniteSet, IsFiniteSet
  <2>4. QED BY <1>1, <2>2, <2>3, AdminAssumption
<1>4. /\ slots \in [1 .. MaxKeys -> Agents \cup {NoAgent}]
      /\ \A k \in 1 .. MaxKeys : k > keys => slots[k] = NoAgent
  <2>1. PICK k \in [1 .. keys -> old] : slots = [n \in 1 .. MaxKeys |-> IF n \in DOMAIN k THEN k[n] ELSE NoAgent]
    BY <1>1
  <2>2. \A n \in 1 .. MaxKeys : slots[n] = IF n \in 1 .. keys THEN k[n] ELSE NoAgent
    BY <2>1
  <2>3. QED BY <1>3, <2>1, <2>2
<1>5. Registry!TypeOK
  <2>1. /\ NoAgent \notin Agents /\ Registry!NoRecord \in Registry!Records
        /\ [hash |-> 0, level |-> l] \in Registry!Records
    BY AdminAssumption DEF Registry!Records, Registry!NoRecord
  <2>2. AgentsTyped
    BY <1>1, <1>2, <1>4, <2>1 DEF AgentsTyped
  <2>3. CountsTyped /\ req \in [Registry!Requests -> ReqType]
    BY <1>2, <1>3, IdleReq, AdminAssumption DEF CountsTyped
  <2>4. QED BY <2>2, <2>3, RegTypes
<1>6. \A r \in Registry!Requests : req[r] = Registry!Idle /\ req[r].agent \notin Agents
  BY <1>2, IdleReq
<1>7. \A a \in Agents : /\ record[a] = IF a \in old THEN [hash |-> 0, level |-> l] ELSE Registry!NoRecord
                        /\ record[a].hash = 0
                        /\ core[a] = IF a \in old THEN l ELSE NoAgent
  BY <1>1, NoKey
<1>8. (\A r \in Registry!Requests : ReqShape(req[r])) /\ Overlapping /\ KeysSound
  BY <1>4, <1>6, <1>7 DEF ReqShape, Overlapping, KeysSound, OwnKey
<1>9. ASSUME NEW a \in Agents PROVE AgentInv(a)
  <2>1. Of(a) = {}
    BY <1>6 DEF Of
  <2>2. record[a] = Registry!NoRecord \/ core[a] = record[a].level
    BY <1>7
  <2>3. a \notin deleted
    BY <1>2
  <2>5. Known(a) => Registry!KeysOf(a) = {}
    <3>1. PICK k \in [1 .. keys -> old] : slots = [n \in 1 .. MaxKeys |-> IF n \in DOMAIN k THEN k[n] ELSE NoAgent]
      BY <1>1
    <3>2. a \notin old => Registry!SlotsOf(a) = {}
      BY <3>1, AdminAssumption DEF Registry!SlotsOf
    <3>3. a \in old => ~Known(a)
      BY <1>7, AdminAssumption DEF Known, Registry!Exists, Registry!NoRecord
    <3>4. QED BY <3>2, <3>3 DEF Registry!KeysOf
  <2>4. QED BY <1>7, <2>1, <2>2, <2>3, <2>5 DEF AgentInv, SeenInv, WorkInv, StrayInv, GoneInv, LevelInv, Registry!Exists
<1>10. QED BY <1>5, <1>8, <1>9 DEF RegInv

LEMMA RegKept == AdminSpec => [](focus = "registry" => RegInv)
<1>1. AdminInit => (focus = "registry" => RegInv)
  BY RegBegins, RegInvInit
<1>2. (focus = "registry" => RegInv) /\ [AdminNext]_adminVars => (focus = "registry" => RegInv)'
  BY RegMoves, RegInvStep
<1>3. QED BY <1>1, <1>2, PTL DEF AdminSpec

(* The stores of agents and connections agree between the requests that change them, whichever of their commands  *)
(* fail, and whether a failed command was carried out or not: of the keys that somebody was given only the one on *)
(* record works, the key of a record works, a deleted agent has left neither record, index entry, key nor node,   *)
(* both copies of a level are one, and a connection is listed by the partners of it until it is revoked.          *)
THEOREM RegistriesAgreed == AdminSpec => []RegistriesAgree
<1>1. (focus = "registry" => RegInv) /\ (focus = "connections" => ConnInv) => RegistriesAgree
  BY AgentsAgree, ConnectionsAgree DEF RegistriesAgree
<1>2. QED BY <1>1, RegKept, ConnKept, PTL

-----------------------------------------------------------------------------
(* The backup of an agent.                                                 *)
LEMMA BackBegins ==
    ASSUME AdminInit, focus = "backup"
    PROVE  Backup!Init
BY DEF AdminInit, AdminFocus

LEMMA BackMoves ==
    ASSUME [AdminNext]_adminVars, focus' = "backup"
    PROVE  focus = "backup" /\ (Backup!Next \/ UNCHANGED BackupVars)
BY DEF AdminNext, AdminStays, adminVars

GraphType == [nodes : SUBSET Items, edges : SUBSET Ties]
ImportType == [pc : {"idle", "lines", "last", "ok", "failed", "conflict"}, attempt : 0 .. MaxAttempts, copy : BOOLEAN,
               nodes : SUBSET Items, edges : SUBSET Ties, nodeBatch : SUBSET Items, edgeBatch : SUBSET Ties,
               restored : Nat, joined : Nat, skipped : Nat]
BackTyped ==
    /\ source \in GraphType /\ file \in GraphType /\ import \in ImportType
    /\ exporting \in {"no", "nodes", "edges", "done"} /\ moved \in BOOLEAN /\ exists \in BOOLEAN
    /\ target \in [nodes : SUBSET Backup!NodeIds, edges : SUBSET Backup!EdgeIds] /\ erased \subseteq Backup!NodeIds

(* The file is the graph, but for what was written while it was made. *)
FileSound ==
    /\ import.pc # "idle" => exporting = "done"
    /\ exporting = "edges" /\ ~moved => file.nodes = source.nodes
    /\ exporting = "done" /\ ~moved => file = source

Reading == {"lines", "last", "ok"}
Written(ns) == {Backup!Nid(n) : n \in ns} \subseteq target.nodes \cup erased
Joined(e) == <<e, Backup!Tag>> \in target.edges \/ {Backup!Nid(e[1]), Backup!Nid(e[2])} \cap erased # {}
NodesDone == file.nodes \ (import.nodes \cup import.nodeBatch)
EdgesDone == file.edges \ (import.edges \cup import.edgeBatch)
Whole == Backup!Within(file.edges, file.nodes)

LinesSound ==
    /\ import.nodes \subseteq file.nodes /\ import.nodeBatch \subseteq file.nodes \ import.nodes
    /\ import.edges \subseteq file.edges /\ import.edgeBatch \subseteq file.edges \ import.edges
    /\ \/ import.nodes = {} /\ import.nodeBatch = {}
       \/ import.edges = file.edges /\ import.edgeBatch = {} /\ import.pc = "lines"
    /\ import.pc \in {"last", "ok"} => import.edges = {} /\ import.nodes = {} /\ import.nodeBatch = {}
    /\ import.pc = "ok" => import.edgeBatch = {}
    /\ import.copy => import.edgeBatch \subseteq Whole
DataSound ==
    /\ Written(NodesDone)
    /\ \A e \in EdgesDone \cap Whole : Joined(e)
CountsSound ==
    erased = {} =>
        /\ import.restored = Cardinality(NodesDone)
        /\ import.joined + import.skipped >= Cardinality(EdgesDone \cap Whole)
        /\ import.copy => import.joined + import.skipped = Cardinality(EdgesDone)

BackInv ==
    /\ BackTyped /\ FileSound
    /\ Cardinality(import.nodeBatch) <= BatchSize /\ Cardinality(import.edgeBatch) <= BatchSize
    /\ import.pc \in Reading => LinesSound /\ DataSound /\ CountsSound

LEMMA BackCard == ASSUME NEW S PROVE Backup!Cardinality(S) = Cardinality(S)
BY DEF Backup!Cardinality, Cardinality, Backup!IsFiniteSet, IsFiniteSet

(* The sets of the backup are finite. *)
LEMMA Counted ==
    ASSUME NEW S, S \subseteq Items \/ S \subseteq Ties
    PROVE  IsFiniteSet(S) /\ Cardinality(S) \in Nat
BY FS_Subset, FS_CardinalityType, AdminAssumption

LEMMA CountedOnceMore ==
    ASSUME NEW S, S \subseteq Items \/ S \subseteq Ties, NEW x, x \notin S
    PROVE  Cardinality(S \cup {x}) = Cardinality(S) + 1
BY Counted, FS_AddElement

LEMMA CountedApart ==
    ASSUME NEW S, NEW T, (S \cup T) \subseteq Items \/ (S \cup T) \subseteq Ties, S \cap T = {}
    PROVE  Cardinality(S \cup T) = Cardinality(S) + Cardinality(T)
<1>1. IsFiniteSet(S) /\ IsFiniteSet(T) /\ Cardinality(S) \in Nat /\ Cardinality(T) \in Nat
  BY Counted
<1>2. Cardinality(S \cup T) = Cardinality(S) + Cardinality(T) - Cardinality(S \cap T)
  BY <1>1, FS_Union
<1>3. Cardinality(S \cap T) = 0
  BY FS_EmptySet
<1>4. QED BY <1>1, <1>2, <1>3

LEMMA CountedLess ==
    ASSUME NEW T, T \subseteq Items \/ T \subseteq Ties, NEW S \in SUBSET T
    PROVE  Cardinality(S) <= Cardinality(T)
BY Counted, FS_Subset

LEMMA BackInvInit == ASSUME Backup!Init PROVE BackInv
<1>1. /\ source \in GraphType /\ exporting = "no" /\ file = [nodes |-> {}, edges |-> {}] /\ moved = FALSE
      /\ target = [nodes |-> {}, edges |-> {}] /\ exists \in BOOLEAN /\ erased = {}
      /\ import = Backup!Idle
  BY DEF Backup!Init, Backup!Empty, GraphType
<1>2. /\ import \in ImportType /\ import.pc = "idle" /\ import.nodeBatch = {} /\ import.edgeBatch = {}
  BY <1>1, AdminAssumption DEF Backup!Idle, ImportType
<1>3. BackTyped
  BY <1>1, <1>2 DEF BackTyped, GraphType
<1>4. Cardinality({}) = 0
  BY FS_EmptySet
<1>5. QED BY <1>1, <1>2, <1>3, <1>4, AdminAssumption DEF BackInv, FileSound, Reading

(* The steps of the export, and a new import. *)
LEMMA ExportStep ==
    ASSUME BackInv, Backup!Change \/ Backup!BeginExport \/ Backup!ExportNodes \/ Backup!ExportEdges
    PROVE  BackInv'
<1>1. /\ import' = import /\ target' = target /\ exists' = exists /\ erased' = erased
      /\ exporting # "done" /\ import.pc = "idle" /\ BackTyped
  BY DEF BackInv, FileSound, Backup!Change, Backup!BeginExport, Backup!ExportNodes, Backup!ExportEdges, Backup!Busy
<1>2. source' \in GraphType
  <2>1. CASE Backup!Change
    BY <1>1, <2>1 DEF Backup!Change, BackTyped, GraphType, Backup!Within
  <2>2. QED BY <1>1, <2>1 DEF BackTyped, Backup!BeginExport, Backup!ExportNodes, Backup!ExportEdges
<1>3. /\ file' \in GraphType /\ exporting' \in {"no", "nodes", "edges", "done"} /\ moved' \in BOOLEAN
      /\ exporting' = "edges" /\ ~moved' => file'.nodes = source'.nodes
      /\ exporting' = "done" /\ ~moved' => file' = source'
  <2>1. CASE Backup!Change
    BY <1>1, <2>1 DEF Backup!Change, BackTyped, Backup!Busy
  <2>2. CASE Backup!BeginExport \/ Backup!ExportNodes
    BY <1>1, <2>2 DEF Backup!BeginExport, Backup!ExportNodes, BackTyped, GraphType
  <2>3. CASE Backup!ExportEdges
    <3>1. /\ source' = source /\ moved' = moved /\ exporting' = "done" /\ exporting = "edges"
          /\ file' = [file EXCEPT !.edges = source.edges]
      BY <2>3 DEF Backup!ExportEdges
    <3>2. file'.nodes = file.nodes /\ file'.edges = source.edges /\ file' \in GraphType
      BY <1>1, <3>1 DEF BackTyped, GraphType
    <3>3. ~moved => file' = source
      BY <1>1, <3>1, <3>2 DEF BackInv, FileSound, BackTyped, GraphType
    <3>4. QED BY <1>1, <3>1, <3>2, <3>3 DEF BackTyped
  <2>4. QED BY <2>1, <2>2, <2>3
<1>4. BackTyped'
  BY <1>1, <1>2, <1>3 DEF BackTyped, GraphType, ImportType, Backup!NodeIds, Backup!EdgeIds
<1>5. QED BY <1>1, <1>3, <1>4 DEF BackInv, FileSound, Reading

LEMMA BeginImportStep ==
    ASSUME BackInv, NEW copy \in BOOLEAN, NEW merge \in BOOLEAN, Backup!BeginImport(copy, merge)
    PROVE  BackInv'
<1>1. /\ source' = source /\ file' = file /\ exporting' = exporting /\ moved' = moved /\ target' = target
      /\ erased' = erased /\ exists' \in BOOLEAN /\ exporting = "done" /\ BackTyped /\ FileSound
  BY DEF Backup!BeginImport, BackInv, BackTyped
<1>2. PICK pc \in {"conflict", "lines"} :
         import' = [Backup!Idle EXCEPT !.pc = pc, !.attempt = import.attempt + 1, !.copy = copy,
                                       !.nodes = file.nodes, !.edges = file.edges]
  BY DEF Backup!BeginImport
<1>3. /\ import' \in ImportType /\ import'.pc = pc /\ import'.copy = copy /\ import'.nodes = file.nodes
      /\ import'.edges = file.edges /\ import'.nodeBatch = {} /\ import'.edgeBatch = {}
      /\ import'.restored = 0 /\ import'.joined = 0 /\ import'.skipped = 0
  <2>1. import.attempt + 1 \in 0 .. MaxAttempts
    BY <1>1, AdminAssumption DEF Backup!BeginImport, BackTyped, ImportType
  <2>2. QED BY <1>1, <1>2, <2>1 DEF Backup!Idle, BackTyped, GraphType, ImportType
<1>4. BackTyped'
  BY <1>1, <1>3 DEF BackTyped, GraphType, ImportType, Backup!NodeIds, Backup!EdgeIds
<1>5. Cardinality({}) = 0
  BY FS_EmptySet
<1>6. NodesDone' = {} /\ EdgesDone' = {}
  BY <1>1, <1>3 DEF NodesDone, EdgesDone
<1>7. pc = "lines" => LinesSound' /\ DataSound' /\ CountsSound'
  <2>1. LinesSound' \/ pc # "lines"
    BY <1>1, <1>3 DEF LinesSound
  <2>2. DataSound'
    BY <1>6 DEF DataSound, Written
  <2>3. CountsSound'
    BY <1>3, <1>5, <1>6 DEF CountsSound
  <2>4. QED BY <2>1, <2>2, <2>3
<1>8. QED BY <1>1, <1>3, <1>4, <1>5, <1>7, AdminAssumption DEF BackInv, FileSound, Reading

(* What the steps of an import leave alone. *)
SameFile == source' = source /\ file' = file /\ exporting' = exporting /\ moved' = moved /\ exists' = exists

LEMMA InLines ==
    ASSUME BackInv, import.pc \in Reading
    PROVE  /\ BackTyped /\ FileSound /\ LinesSound /\ DataSound /\ CountsSound
           /\ import \in ImportType /\ file \in GraphType /\ Whole \subseteq file.edges
           /\ file.nodes \subseteq Items /\ file.edges \subseteq Ties
           /\ import.restored \in Nat /\ import.joined \in Nat /\ import.skipped \in Nat
BY DEF BackInv, BackTyped, ImportType, GraphType, Whole, Backup!Within

LEMMA NodeLineStep ==
    ASSUME BackInv, Backup!NodeLine
    PROVE  BackInv'
<1>1. SameFile /\ target' = target /\ erased' = erased /\ import.pc = "lines" /\ Backup!HasRoom(import.nodeBatch)
  BY DEF Backup!NodeLine, SameFile
<1>2. PICK n \in import.nodes : import' = [import EXCEPT !.nodes = @ \ {n}, !.nodeBatch = @ \cup {n}]
  BY DEF Backup!NodeLine
<1>0. /\ BackTyped /\ FileSound /\ LinesSound /\ DataSound /\ CountsSound
      /\ import \in ImportType /\ file \in GraphType /\ Whole \subseteq file.edges
      /\ file.nodes \subseteq Items /\ file.edges \subseteq Ties
  BY <1>1, InLines DEF Reading
<1>3. /\ import' \in ImportType /\ import'.pc = "lines" /\ import'.copy = import.copy /\ import'.attempt = import.attempt
      /\ import'.nodes = import.nodes \ {n} /\ import'.nodeBatch = import.nodeBatch \cup {n}
      /\ import'.edges = import.edges /\ import'.edgeBatch = import.edgeBatch
      /\ import'.restored = import.restored /\ import'.joined = import.joined /\ import'.skipped = import.skipped
  BY <1>0, <1>1, <1>2 DEF ImportType
<1>4. BackTyped'
  BY <1>0, <1>1, <1>3 DEF BackTyped, GraphType, ImportType, Backup!NodeIds, Backup!EdgeIds, SameFile
<1>5. Cardinality(import'.nodeBatch) <= BatchSize
  <2>1. n \notin import.nodeBatch /\ import.nodeBatch \subseteq Items
    BY <1>0 DEF LinesSound
  <2>2. Cardinality(import.nodeBatch) \in Nat /\ Cardinality(import.nodeBatch \cup {n}) = Cardinality(import.nodeBatch) + 1
    BY <2>1, Counted, CountedOnceMore
  <2>3. Cardinality(import.nodeBatch) < BatchSize
    BY <1>1, BackCard DEF Backup!HasRoom
  <2>4. QED BY <1>3, <2>2, <2>3, AdminAssumption
<1>6. NodesDone' = NodesDone /\ EdgesDone' = EdgesDone /\ Whole' = Whole /\ Backup!Tag' = Backup!Tag
  BY <1>0, <1>1, <1>3 DEF NodesDone, EdgesDone, Whole, SameFile, Backup!Within, Backup!Tag, LinesSound
<1>7. LinesSound'
  BY <1>0, <1>1, <1>3, <1>6 DEF LinesSound, SameFile
<1>8. DataSound'
  BY <1>0, <1>1, <1>6 DEF DataSound, Written, Joined, Backup!Nid
<1>9. CountsSound'
  BY <1>0, <1>1, <1>3, <1>6 DEF CountsSound
<1>10. QED BY <1>0, <1>1, <1>3, <1>4, <1>5, <1>7, <1>8, <1>9 DEF BackInv, FileSound, SameFile

(* A batch of nodes written. *)
LEMMA NodesFlushed ==
    ASSUME BackInv, NEW pc \in {"lines", "last"}, import.pc = "lines", SameFile, erased' = erased,
           target' = Backup!NodesWritten(import.nodeBatch),
           import' = [import EXCEPT !.pc = pc, !.nodeBatch = {}, !.restored = @ + Cardinality(import.nodeBatch)],
           pc = "last" => import.nodes = {} /\ import.edges = {}
    PROVE  BackInv'
<1>0. /\ BackTyped /\ FileSound /\ LinesSound /\ DataSound /\ CountsSound
      /\ import \in ImportType /\ file \in GraphType /\ Whole \subseteq file.edges
      /\ file.nodes \subseteq Items /\ file.edges \subseteq Ties
      /\ import.restored \in Nat
  BY InLines DEF Reading
<1>n. import.nodeBatch \subseteq Items /\ Cardinality(import.nodeBatch) \in Nat /\ NodesDone \subseteq Items
  BY <1>0, Counted DEF LinesSound, NodesDone
<1>3. /\ import' \in ImportType /\ import'.pc = pc /\ import'.copy = import.copy /\ import'.attempt = import.attempt
      /\ import'.nodes = import.nodes /\ import'.nodeBatch = {}
      /\ import'.edges = import.edges /\ import'.edgeBatch = import.edgeBatch
      /\ import'.restored = import.restored + Cardinality(import.nodeBatch)
      /\ import'.joined = import.joined /\ import'.skipped = import.skipped
  <2>1. PICK c \in Nat : c = import.restored + Cardinality(import.nodeBatch)
    BY <1>0, <1>n
  <2>2. import' = [import EXCEPT !.pc = pc, !.nodeBatch = {}, !.restored = c]
    BY <2>1
  <2>3. /\ import' \in ImportType /\ import'.pc = pc /\ import'.copy = import.copy /\ import'.attempt = import.attempt
        /\ import'.nodes = import.nodes /\ import'.nodeBatch = {}
        /\ import'.edges = import.edges /\ import'.edgeBatch = import.edgeBatch
        /\ import'.restored = c /\ import'.joined = import.joined /\ import'.skipped = import.skipped
    BY <1>0, <2>2 DEF ImportType
  <2>4. QED BY <2>1, <2>3
<1>t. Backup!Tag \in 0 .. MaxAttempts
  BY <1>0, AdminAssumption DEF Backup!Tag, ImportType
<1>i. \A n \in import.nodeBatch : Backup!Nid(n) \in Backup!NodeIds
  BY <1>n, <1>t DEF Backup!Nid, Backup!NodeIds
<1>g. /\ target' \in [nodes : SUBSET Backup!NodeIds, edges : SUBSET Backup!EdgeIds]
      /\ target'.nodes = target.nodes \cup {Backup!Nid(n) : n \in import.nodeBatch} /\ target'.edges = target.edges
  BY <1>0, <1>i DEF BackTyped, Backup!NodesWritten
<1>4. BackTyped'
  BY <1>0, <1>3, <1>g DEF BackTyped, GraphType, ImportType, Backup!NodeIds, Backup!EdgeIds, SameFile
<1>6. /\ NodesDone' = NodesDone \cup import.nodeBatch /\ EdgesDone' = EdgesDone /\ Whole' = Whole /\ Backup!Tag' = Backup!Tag
      /\ NodesDone \cap import.nodeBatch = {}
  BY <1>0, <1>3 DEF NodesDone, EdgesDone, Whole, SameFile, Backup!Within, Backup!Tag, LinesSound
<1>7. LinesSound'
  BY <1>0, <1>3, <1>6 DEF LinesSound, SameFile
<1>8. DataSound'
  <2>1. Written(NodesDone)'
    BY <1>0, <1>6, <1>g DEF DataSound, Written, Backup!Nid
  <2>2. \A e \in (EdgesDone \cap Whole)' : Joined(e)'
    BY <1>0, <1>6, <1>g DEF DataSound, Joined, Backup!Nid
  <2>3. QED BY <2>1, <2>2 DEF DataSound
<1>9. CountsSound'
  <2>1. Cardinality(NodesDone \cup import.nodeBatch) = Cardinality(NodesDone) + Cardinality(import.nodeBatch)
    BY <1>n, <1>6, CountedApart
  <2>2. Cardinality(NodesDone) \in Nat
    BY <1>n, Counted
  <2>3. QED BY <1>0, <1>n, <1>3, <1>6, <2>1, <2>2 DEF CountsSound
<1>10. Cardinality({}) = 0
  BY FS_EmptySet
<1>11. QED BY <1>0, <1>3, <1>4, <1>7, <1>8, <1>9, <1>10, AdminAssumption DEF BackInv, FileSound, SameFile

LEMMA NodeFlushStep ==
    ASSUME BackInv, Backup!NodeFlush \/ Backup!LastNodes
    PROVE  BackInv'
<1>0. import \in ImportType
  BY DEF BackInv, BackTyped
<1>1. CASE Backup!NodeFlush
  <2>1. import' = [import EXCEPT !.pc = "lines", !.nodeBatch = {}, !.restored = @ + Cardinality(import.nodeBatch)]
    BY <1>0, <1>1, BackCard DEF Backup!NodeFlush, Backup!FlushNodes, ImportType
  <2>2. SameFile /\ erased' = erased /\ target' = Backup!NodesWritten(import.nodeBatch) /\ import.pc = "lines"
    BY <1>1 DEF Backup!NodeFlush, Backup!FlushNodes, SameFile
  <2>3. QED BY <2>1, <2>2, NodesFlushed
<1>2. CASE Backup!LastNodes
  <2>1. import' = [import EXCEPT !.pc = "last", !.nodeBatch = {}, !.restored = @ + Cardinality(import.nodeBatch)]
    BY <1>0, <1>2, BackCard DEF Backup!LastNodes, Backup!FlushNodes, ImportType
  <2>2. SameFile /\ erased' = erased /\ target' = Backup!NodesWritten(import.nodeBatch) /\ import.pc = "lines"
        /\ import.nodes = {} /\ import.edges = {}
    BY <1>2 DEF Backup!LastNodes, Backup!FlushNodes, SameFile
  <2>3. QED BY <2>1, <2>2, NodesFlushed
<1>3. QED BY <1>1, <1>2

(* A relation taken from the file: into the batch, or skipped by a copy. *)
LEMMA EdgeLineStep ==
    ASSUME BackInv, Backup!EdgeLine
    PROVE  BackInv'
<1>1. /\ SameFile /\ target' = target /\ erased' = erased /\ import.pc = "lines" /\ import.nodes = {}
      /\ ~Backup!FlushesNodes /\ Backup!HasRoom(import.edgeBatch)
  BY DEF Backup!EdgeLine, SameFile
<1>2. PICK e \in import.edges :
        import' = IF import.copy /\ ~({e[1], e[2]} \subseteq file.nodes)
                  THEN [import EXCEPT !.edges = @ \ {e}, !.skipped = @ + 1]
                  ELSE [import EXCEPT !.edges = @ \ {e}, !.edgeBatch = @ \cup {e}]
  BY DEF Backup!EdgeLine
<1>0. /\ BackTyped /\ FileSound /\ LinesSound /\ DataSound /\ CountsSound
      /\ import \in ImportType /\ file \in GraphType /\ Whole \subseteq file.edges
      /\ file.nodes \subseteq Items /\ file.edges \subseteq Ties
      /\ import.joined \in Nat /\ import.skipped \in Nat
  BY <1>1, InLines DEF Reading
<1>b. import.nodeBatch = {}
  BY <1>1, <1>2 DEF Backup!FlushesNodes
<1>w. e \in file.edges /\ e \notin import.edgeBatch /\ (e \in Whole <=> {e[1], e[2]} \subseteq file.nodes)
  BY <1>0 DEF LinesSound, Whole, Backup!Within
<1>d. EdgesDone \subseteq Ties /\ e \notin EdgesDone
  BY <1>0 DEF EdgesDone
<1>3. CASE import.copy /\ ~({e[1], e[2]} \subseteq file.nodes)
  <2>1. /\ import' \in ImportType /\ import'.pc = "lines" /\ import'.copy = import.copy /\ import'.attempt = import.attempt
        /\ import'.nodes = import.nodes /\ import'.nodeBatch = import.nodeBatch
        /\ import'.edges = import.edges \ {e} /\ import'.edgeBatch = import.edgeBatch
        /\ import'.restored = import.restored /\ import'.joined = import.joined /\ import'.skipped = import.skipped + 1
    <3>1. PICK c \in Nat : c = import.skipped + 1
      BY <1>0
    <3>2. import' = [import EXCEPT !.edges = @ \ {e}, !.skipped = c]
      BY <1>2, <1>3, <3>1
    <3>3. /\ import' \in ImportType /\ import'.pc = "lines" /\ import'.copy = import.copy
          /\ import'.attempt = import.attempt
          /\ import'.nodes = import.nodes /\ import'.nodeBatch = import.nodeBatch
          /\ import'.edges = import.edges \ {e} /\ import'.edgeBatch = import.edgeBatch
          /\ import'.restored = import.restored /\ import'.joined = import.joined /\ import'.skipped = c
      BY <1>0, <1>1, <3>2 DEF ImportType
    <3>4. QED BY <3>1, <3>3
  <2>2. BackTyped'
    BY <1>0, <1>1, <2>1 DEF BackTyped, GraphType, ImportType, Backup!NodeIds, Backup!EdgeIds, SameFile
  <2>3. /\ NodesDone' = NodesDone /\ EdgesDone' = EdgesDone \cup {e} /\ Whole' = Whole /\ Backup!Tag' = Backup!Tag
        /\ (EdgesDone \cup {e}) \cap Whole = EdgesDone \cap Whole
    BY <1>0, <1>1, <1>3, <1>w, <2>1 DEF NodesDone, EdgesDone, Whole, SameFile, Backup!Within, Backup!Tag, LinesSound
  <2>4. LinesSound'
    BY <1>0, <1>1, <1>b, <2>1, <2>3 DEF LinesSound, SameFile
  <2>5. DataSound'
    BY <1>0, <1>1, <2>3 DEF DataSound, Written, Joined, Backup!Nid
  <2>6. CountsSound'
    <3>1. Cardinality(EdgesDone \cup {e}) = Cardinality(EdgesDone) + 1 /\ Cardinality(EdgesDone) \in Nat
          /\ Cardinality(EdgesDone \cap Whole) \in Nat
      BY <1>d, Counted, CountedOnceMore
    <3>2. erased = {} => /\ import.restored = Cardinality(NodesDone)
                         /\ import.joined + import.skipped >= Cardinality(EdgesDone \cap Whole)
                         /\ import.copy => import.joined + import.skipped = Cardinality(EdgesDone)
      BY <1>0 DEF CountsSound
    <3>3. erased = {} => /\ import.joined + (import.skipped + 1) >= Cardinality(EdgesDone \cap Whole)
                         /\ import.copy => import.joined + (import.skipped + 1) = Cardinality(EdgesDone \cup {e})
      BY <1>0, <3>1, <3>2
    <3>4. QED BY <1>1, <2>1, <2>3, <3>2, <3>3 DEF CountsSound
  <2>7. QED BY <1>0, <1>1, <2>1, <2>2, <2>4, <2>5, <2>6 DEF BackInv, FileSound, SameFile
<1>4. CASE ~(import.copy /\ ~({e[1], e[2]} \subseteq file.nodes))
  <2>1. /\ import' \in ImportType /\ import'.pc = "lines" /\ import'.copy = import.copy /\ import'.attempt = import.attempt
        /\ import'.nodes = import.nodes /\ import'.nodeBatch = import.nodeBatch
        /\ import'.edges = import.edges \ {e} /\ import'.edgeBatch = import.edgeBatch \cup {e}
        /\ import'.restored = import.restored /\ import'.joined = import.joined /\ import'.skipped = import.skipped
    BY <1>0, <1>1, <1>2, <1>4 DEF ImportType
  <2>2. BackTyped'
    BY <1>0, <1>1, <2>1 DEF BackTyped, GraphType, ImportType, Backup!NodeIds, Backup!EdgeIds, SameFile
  <2>3. NodesDone' = NodesDone /\ EdgesDone' = EdgesDone /\ Whole' = Whole /\ Backup!Tag' = Backup!Tag
    BY <1>0, <1>1, <1>w, <2>1 DEF NodesDone, EdgesDone, Whole, SameFile, Backup!Within, Backup!Tag, LinesSound
  <2>4. LinesSound'
    BY <1>0, <1>1, <1>b, <1>w, <1>4, <2>1, <2>3 DEF LinesSound, SameFile
  <2>5. DataSound'
    BY <1>0, <1>1, <2>3 DEF DataSound, Written, Joined, Backup!Nid
  <2>6. CountsSound'
    BY <1>0, <1>1, <2>1, <2>3 DEF CountsSound
  <2>7. Cardinality(import'.edgeBatch) <= BatchSize
    <3>1. import.edgeBatch \subseteq Ties
      BY <1>0 DEF ImportType
    <3>2. Cardinality(import.edgeBatch) \in Nat /\ Cardinality(import.edgeBatch \cup {e}) = Cardinality(import.edgeBatch) + 1
      BY <1>w, <3>1, Counted, CountedOnceMore
    <3>3. Cardinality(import.edgeBatch) < BatchSize
      BY <1>1, BackCard DEF Backup!HasRoom
    <3>4. QED BY <2>1, <3>2, <3>3, AdminAssumption
  <2>8. QED BY <1>0, <1>1, <2>1, <2>2, <2>4, <2>5, <2>6, <2>7 DEF BackInv, FileSound, SameFile
<1>5. QED BY <1>3, <1>4

(* A batch of relations written: each whose ends are at the target. *)
LEMMA EdgesFlushed ==
    ASSUME BackInv, NEW pc \in {"lines", "ok"}, import.pc \in {"lines", "last"}, SameFile, erased' = erased,
           target' = Backup!EdgesWritten(import.edgeBatch),
           import' = [import EXCEPT !.pc = pc, !.edgeBatch = {},
                                    !.joined = @ + Cardinality(Backup!Joinable(import.edgeBatch))],
           pc = "lines" <=> import.pc = "lines"
    PROVE  BackInv'
<1> DEFINE J == Backup!Joinable(import.edgeBatch)
<1>0. /\ BackTyped /\ FileSound /\ LinesSound /\ DataSound /\ CountsSound
      /\ import \in ImportType /\ file \in GraphType /\ Whole \subseteq file.edges
      /\ file.nodes \subseteq Items /\ file.edges \subseteq Ties
      /\ import.joined \in Nat /\ import.skipped \in Nat
  BY InLines DEF Reading
<1>n. /\ import.edgeBatch \subseteq Ties /\ J \subseteq import.edgeBatch /\ EdgesDone \subseteq Ties
      /\ \A e \in import.edgeBatch : e \in J <=> {Backup!Nid(e[1]), Backup!Nid(e[2])} \subseteq target.nodes
  BY <1>0 DEF LinesSound, EdgesDone, Backup!Joinable
<1>c. Cardinality(J) \in Nat
  BY <1>n, Counted
<1> HIDE DEF J
<1>3. /\ import' \in ImportType /\ import'.pc = pc /\ import'.copy = import.copy /\ import'.attempt = import.attempt
      /\ import'.nodes = import.nodes /\ import'.nodeBatch = import.nodeBatch
      /\ import'.edges = import.edges /\ import'.edgeBatch = {}
      /\ import'.restored = import.restored
      /\ import'.joined = import.joined + Cardinality(J) /\ import'.skipped = import.skipped
  <2>1. PICK c \in Nat : c = import.joined + Cardinality(J)
    BY <1>0, <1>c
  <2>2. import' = [import EXCEPT !.pc = pc, !.edgeBatch = {}, !.joined = c]
    BY <2>1 DEF J
  <2>3. /\ import' \in ImportType /\ import'.pc = pc /\ import'.copy = import.copy /\ import'.attempt = import.attempt
        /\ import'.nodes = import.nodes /\ import'.nodeBatch = import.nodeBatch
        /\ import'.edges = import.edges /\ import'.edgeBatch = {}
        /\ import'.restored = import.restored /\ import'.joined = c /\ import'.skipped = import.skipped
    BY <1>0, <2>2 DEF ImportType
  <2>4. QED BY <2>1, <2>3
<1>t. Backup!Tag \in 0 .. MaxAttempts
  BY <1>0, AdminAssumption DEF Backup!Tag, ImportType
<1>g. /\ target' \in [nodes : SUBSET Backup!NodeIds, edges : SUBSET Backup!EdgeIds]
      /\ target'.nodes = target.nodes /\ target'.edges = target.edges \cup {<<e, Backup!Tag>> : e \in J}
  <2>1. \A e \in J : <<e, Backup!Tag>> \in Backup!EdgeIds
    BY <1>n, <1>t DEF Backup!EdgeIds
  <2>2. QED BY <1>0, <2>1 DEF BackTyped, Backup!EdgesWritten, J
<1>4. BackTyped'
  BY <1>0, <1>3, <1>g DEF BackTyped, GraphType, ImportType, Backup!NodeIds, Backup!EdgeIds, SameFile
<1>6. /\ NodesDone' = NodesDone /\ EdgesDone' = EdgesDone \cup import.edgeBatch /\ Whole' = Whole /\ Backup!Tag' = Backup!Tag
      /\ EdgesDone \cap import.edgeBatch = {}
  BY <1>0, <1>3 DEF NodesDone, EdgesDone, Whole, SameFile, Backup!Within, Backup!Tag, LinesSound
<1>7. LinesSound'
  BY <1>0, <1>3, <1>6 DEF LinesSound, SameFile
<1>e. import.edgeBatch # {} => NodesDone = file.nodes
  BY <1>0 DEF LinesSound, NodesDone
<1>j. \A e \in import.edgeBatch \cap Whole : e \in J \/ {Backup!Nid(e[1]), Backup!Nid(e[2])} \cap erased # {}
  <2>1. SUFFICES ASSUME NEW e \in import.edgeBatch \cap Whole
                 PROVE  e \in J \/ {Backup!Nid(e[1]), Backup!Nid(e[2])} \cap erased # {}
    OBVIOUS
  <2>2. e[1] \in NodesDone /\ e[2] \in NodesDone
    BY <1>e, <2>1 DEF Whole, Backup!Within
  <2>3. Backup!Nid(e[1]) \in target.nodes \cup erased /\ Backup!Nid(e[2]) \in target.nodes \cup erased
    BY <1>0, <2>2 DEF DataSound, Written
  <2>4. QED BY <1>n, <2>1, <2>3
<1>8. DataSound'
  <2>1. Written(NodesDone)'
    BY <1>0, <1>6, <1>g DEF DataSound, Written, Backup!Nid
  <2>2. ASSUME NEW e \in (EdgesDone \cup import.edgeBatch) \cap Whole PROVE Joined(e)'
    <3>1. CASE e \in EdgesDone
      BY <1>0, <1>6, <1>g, <2>2, <3>1 DEF DataSound, Joined, Backup!Nid
    <3>2. CASE e \in import.edgeBatch
      BY <1>6, <1>g, <1>j, <2>2, <3>2 DEF Joined, Backup!Nid
    <3>3. QED BY <2>2, <3>1, <3>2
  <2>3. QED BY <1>6, <2>1, <2>2 DEF DataSound
<1>9. CountsSound'
  <2>1. SUFFICES ASSUME erased = {} PROVE CountsSound'
    BY DEF CountsSound
  <2>2. import.edgeBatch \cap Whole \subseteq J
    BY <1>j, <2>1
  <2>3. /\ Cardinality(EdgesDone \cup import.edgeBatch) = Cardinality(EdgesDone) + Cardinality(import.edgeBatch)
        /\ Cardinality(EdgesDone) \in Nat /\ Cardinality(import.edgeBatch) \in Nat
    BY <1>n, <1>6, Counted, CountedApart
  <2>4. /\ Cardinality((EdgesDone \cap Whole) \cup (import.edgeBatch \cap Whole))
              = Cardinality(EdgesDone \cap Whole) + Cardinality(import.edgeBatch \cap Whole)
        /\ Cardinality(EdgesDone \cap Whole) \in Nat /\ Cardinality(import.edgeBatch \cap Whole) \in Nat
    <3>1. ((EdgesDone \cap Whole) \cup (import.edgeBatch \cap Whole)) \subseteq Ties
          /\ (EdgesDone \cap Whole) \cap (import.edgeBatch \cap Whole) = {}
      BY <1>n, <1>6
    <3>2. QED BY <3>1, Counted, CountedApart
  <2>5. Cardinality(import.edgeBatch \cap Whole) <= Cardinality(J)
    BY <1>n, <2>2, CountedLess
  <2>6. (EdgesDone \cup import.edgeBatch) \cap Whole = (EdgesDone \cap Whole) \cup (import.edgeBatch \cap Whole)
    OBVIOUS
  <2>7. import.copy => J = import.edgeBatch
    BY <1>0, <1>n, <2>2 DEF LinesSound
  <2>8. import'.restored = Cardinality(NodesDone)
    BY <1>0, <1>3, <2>1 DEF CountsSound
  <2>9. import'.joined + import'.skipped >= Cardinality((EdgesDone \cup import.edgeBatch) \cap Whole)
    <3>1. import.joined + import.skipped >= Cardinality(EdgesDone \cap Whole)
      BY <1>0, <2>1 DEF CountsSound
    <3>2. import.joined + Cardinality(J) + import.skipped >= Cardinality(EdgesDone \cap Whole) + Cardinality(import.edgeBatch \cap Whole)
      BY <1>0, <1>c, <2>4, <2>5, <3>1
    <3>3. QED BY <1>3, <2>4, <2>6, <3>2
  <2>10. import.copy => import'.joined + import'.skipped = Cardinality(EdgesDone \cup import.edgeBatch)
    BY <1>0, <1>c, <1>3, <2>1, <2>3, <2>7 DEF CountsSound
  <2>11. QED BY <1>3, <1>6, <2>8, <2>9, <2>10 DEF CountsSound
<1>10. Cardinality({}) = 0
  BY FS_EmptySet
<1>11. QED BY <1>0, <1>3, <1>4, <1>7, <1>8, <1>9, <1>10, AdminAssumption DEF BackInv, FileSound, SameFile

LEMMA EdgeFlushStep ==
    ASSUME BackInv, Backup!EdgeFlush \/ Backup!LastEdges
    PROVE  BackInv'
<1>0. import \in ImportType
  BY DEF BackInv, BackTyped
<1>1. CASE Backup!EdgeFlush
  <2>1. import' = [import EXCEPT !.pc = "lines", !.edgeBatch = {},
                                 !.joined = @ + Cardinality(Backup!Joinable(import.edgeBatch))]
    BY <1>0, <1>1, BackCard DEF Backup!EdgeFlush, Backup!FlushEdges, ImportType
  <2>2. SameFile /\ erased' = erased /\ target' = Backup!EdgesWritten(import.edgeBatch) /\ import.pc = "lines"
    BY <1>1 DEF Backup!EdgeFlush, Backup!FlushEdges, SameFile
  <2>3. QED BY <2>1, <2>2, EdgesFlushed
<1>2. CASE Backup!LastEdges
  <2>1. import' = [import EXCEPT !.pc = "ok", !.edgeBatch = {},
                                 !.joined = @ + Cardinality(Backup!Joinable(import.edgeBatch))]
    BY <1>0, <1>2, BackCard DEF Backup!LastEdges, Backup!FlushEdges, ImportType
  <2>2. SameFile /\ erased' = erased /\ target' = Backup!EdgesWritten(import.edgeBatch) /\ import.pc = "last"
    BY <1>2 DEF Backup!LastEdges, Backup!FlushEdges, SameFile
  <2>3. QED BY <2>1, <2>2, EdgesFlushed
<1>3. QED BY <1>1, <1>2

LEMMA ImportFailsStep ==
    ASSUME BackInv, Backup!ImportFails
    PROVE  BackInv'
<1>0. BackTyped /\ FileSound /\ import \in ImportType /\ import.pc \in {"lines", "last"}
  BY DEF BackInv, BackTyped, Backup!ImportFails
<1>1. /\ SameFile /\ erased' = erased /\ import' = [import EXCEPT !.pc = "failed"]
      /\ target' \in {target, Backup!NodesWritten(import.nodeBatch), Backup!EdgesWritten(import.edgeBatch)}
  BY DEF Backup!ImportFails, SameFile
<1>2. import' \in ImportType /\ import'.pc = "failed" /\ import'.nodeBatch = import.nodeBatch /\ import'.edgeBatch = import.edgeBatch
  BY <1>0, <1>1 DEF ImportType
<1>3. target' \in [nodes : SUBSET Backup!NodeIds, edges : SUBSET Backup!EdgeIds]
  <2>1. Backup!Tag \in 0 .. MaxAttempts /\ import.nodeBatch \subseteq Items /\ import.edgeBatch \subseteq Ties
    BY <1>0, AdminAssumption DEF Backup!Tag, ImportType
  <2>2. /\ \A n \in import.nodeBatch : Backup!Nid(n) \in Backup!NodeIds
        /\ \A e \in Backup!Joinable(import.edgeBatch) : <<e, Backup!Tag>> \in Backup!EdgeIds
    BY <2>1 DEF Backup!Nid, Backup!NodeIds, Backup!EdgeIds, Backup!Joinable
  <2>3. Backup!NodesWritten(import.nodeBatch) \in [nodes : SUBSET Backup!NodeIds, edges : SUBSET Backup!EdgeIds]
    BY <1>0, <2>2 DEF BackTyped, Backup!NodesWritten
  <2>4. Backup!EdgesWritten(import.edgeBatch) \in [nodes : SUBSET Backup!NodeIds, edges : SUBSET Backup!EdgeIds]
    BY <1>0, <2>2 DEF BackTyped, Backup!EdgesWritten
  <2>5. QED BY <1>0, <1>1, <2>3, <2>4 DEF BackTyped
<1>4. BackTyped'
  BY <1>0, <1>1, <1>2, <1>3 DEF BackTyped, GraphType, ImportType, Backup!NodeIds, Backup!EdgeIds, SameFile
<1>5. QED BY <1>0, <1>1, <1>2, <1>4 DEF BackInv, FileSound, SameFile, Reading

(* What is erased at the target is remembered. *)
LEMMA EraseStep ==
    ASSUME BackInv, NEW i \in Backup!NodeIds, Backup!Erase(i)
    PROVE  BackInv'
<1>0. BackTyped /\ FileSound /\ import \in ImportType
  BY DEF BackInv, BackTyped
<1>1. /\ SameFile /\ import' = import /\ erased' = erased \cup {i}
      /\ target' = [nodes |-> target.nodes \ {i},
                    edges |-> {e \in target.edges : e[2] # i[2] \/ i[1] \notin {e[1][1], e[1][2]}}]
  BY DEF Backup!Erase, SameFile
<1>2. BackTyped'
  BY <1>0, <1>1 DEF BackTyped, GraphType, ImportType, Backup!NodeIds, Backup!EdgeIds, SameFile
<1>3. ASSUME import.pc \in Reading PROVE LinesSound' /\ DataSound' /\ CountsSound'
  <2>0. LinesSound /\ DataSound
    BY <1>3, InLines
  <2>1. NodesDone' = NodesDone /\ EdgesDone' = EdgesDone /\ Whole' = Whole /\ Backup!Tag' = Backup!Tag
    BY <1>1 DEF NodesDone, EdgesDone, Whole, SameFile, Backup!Within, Backup!Tag
  <2>2. LinesSound'
    BY <1>1, <2>0, <2>1 DEF LinesSound, SameFile
  <2>3. Written(NodesDone)'
    BY <1>1, <2>0, <2>1 DEF DataSound, Written, Backup!Nid
  <2>4. ASSUME NEW e \in EdgesDone \cap Whole PROVE Joined(e)'
    <3>1. Joined(e)
      BY <2>0, <2>4 DEF DataSound
    <3>2. i = <<i[1], i[2]>>
      BY DEF Backup!NodeIds
    <3>3. PICK t : t = Backup!Tag
      OBVIOUS
    <3>4. CASE <<e, t>> \in target.edges /\ t = i[2] /\ i[1] \in {e[1], e[2]}
      BY <1>1, <2>1, <3>2, <3>3, <3>4 DEF Joined, Backup!Nid
    <3>5. CASE <<e, t>> \in target.edges /\ ~(t = i[2] /\ i[1] \in {e[1], e[2]})
      <4>1. <<e, t>> \in target'.edges
        BY <1>1, <3>5
      <4>2. QED BY <2>1, <3>3, <4>1 DEF Joined
    <3>6. CASE {Backup!Nid(e[1]), Backup!Nid(e[2])} \cap erased # {}
      BY <1>1, <2>1, <3>6 DEF Joined, Backup!Nid
    <3>7. QED BY <3>1, <3>3, <3>4, <3>5, <3>6 DEF Joined
  <2>5. DataSound'
    BY <2>1, <2>3, <2>4 DEF DataSound
  <2>6. CountsSound'
    BY <1>1 DEF CountsSound
  <2>7. QED BY <2>2, <2>5, <2>6
<1>4. QED BY <1>0, <1>1, <1>2, <1>3 DEF BackInv, FileSound, SameFile

LEMMA BackInvStep ==
    ASSUME BackInv, Backup!Next \/ UNCHANGED BackupVars
    PROVE  BackInv'
<1>1. ASSUME UNCHANGED BackupVars PROVE BackInv'
  BY <1>1 DEF BackupVars, BackInv, BackTyped, FileSound, LinesSound, DataSound, CountsSound, Written, Joined, NodesDone, EdgesDone,
     Whole, Backup!Nid, Backup!Tag, Backup!Within, Backup!NodeIds, Backup!EdgeIds, GraphType, ImportType
<1>2. QED BY <1>1, ExportStep, BeginImportStep, NodeLineStep, NodeFlushStep, EdgeLineStep, EdgeFlushStep, ImportFailsStep,
             EraseStep DEF Backup!Next

LEMMA BackKept == AdminSpec => [](focus = "backup" => BackInv)
<1>1. AdminInit => (focus = "backup" => BackInv)
  BY BackBegins, BackInvInit
<1>2. (focus = "backup" => BackInv) /\ [AdminNext]_adminVars => (focus = "backup" => BackInv)'
  BY BackMoves, BackInvStep
<1>3. QED BY <1>1, <1>2, PTL DEF AdminSpec

LEMMA ImportsComplete == BackInv => Backup!ImportIsComplete /\ Backup!CountsAccount
<1> SUFFICES ASSUME BackInv, import.pc = "ok" PROVE Backup!ImportIsComplete /\ Backup!CountsAccount
  BY DEF Backup!ImportIsComplete, Backup!CountsAccount
<1>0. /\ FileSound /\ LinesSound /\ DataSound /\ CountsSound /\ Whole \subseteq file.edges /\ file.edges \subseteq Ties
      /\ import.joined \in Nat /\ import.skipped \in Nat /\ import.restored \in Nat /\ BackTyped
  BY InLines DEF Reading
<1>1. NodesDone = file.nodes /\ EdgesDone = file.edges /\ EdgesDone \cap Whole = Whole
  BY <1>0 DEF LinesSound, NodesDone, EdgesDone
<1>2. Backup!ImportIsComplete
  <2>1. moved \/ file = source
    BY <1>0 DEF FileSound
  <2>2. {Backup!Nid(n) : n \in file.nodes} \subseteq target.nodes \cup erased
    BY <1>0, <1>1 DEF DataSound, Written
  <2>3. \A e \in Backup!Within(file.edges, file.nodes) :
           <<e, Backup!Tag>> \in target.edges \/ {Backup!Nid(e[1]), Backup!Nid(e[2])} \cap erased # {}
    BY <1>0, <1>1 DEF DataSound, Joined, Whole
  <2>4. QED BY <2>1, <2>2, <2>3 DEF Backup!ImportIsComplete
<1>3. Backup!CountsAccount
  <2>1. SUFFICES ASSUME erased = {} PROVE Backup!CountsAccount
    BY DEF Backup!CountsAccount
  <2>2. /\ import.restored = Cardinality(file.nodes)
        /\ import.joined + import.skipped >= Cardinality(Whole)
        /\ import.copy => import.joined + import.skipped = Cardinality(file.edges)
    BY <1>0, <1>1, <2>1 DEF CountsSound
  <2>3. /\ Cardinality(Whole \cup (file.edges \ Whole)) = Cardinality(Whole) + Cardinality(file.edges \ Whole)
        /\ Cardinality(Whole) \in Nat /\ Cardinality(file.edges \ Whole) \in Nat
    <3>1. (Whole \cup (file.edges \ Whole)) \subseteq Ties /\ Whole \cap (file.edges \ Whole) = {}
      BY <1>0
    <3>2. QED BY <3>1, Counted, CountedApart
  <2>4. Whole \cup (file.edges \ Whole) = file.edges
    BY <1>0
  <2>5. import.joined + import.skipped + Cardinality(file.edges \ Whole) >= Cardinality(file.edges)
    <3>1. PICK w \in Nat, x \in Nat : w = Cardinality(Whole) /\ x = Cardinality(file.edges \ Whole)
      BY <2>3
    <3>2. Cardinality(file.edges) = w + x
      BY <2>3, <2>4, <3>1
    <3>3. import.joined + import.skipped >= w
      BY <2>2, <3>1
    <3>4. import.joined + import.skipped + x >= w + x
      BY <1>0, <3>3
    <3>5. QED BY <3>1, <3>2, <3>4
  <2>6. QED BY <2>2, <2>5, BackCard DEF Backup!CountsAccount, Whole
<1>4. QED BY <1>2, <1>3

(* An import answered as complete has written every node of the file and every relation between them that was not *)
(* deleted at the target meanwhile, and its counts add up to the lines, for any graphs, batch sizes and attempts. *)
THEOREM BackupsComplete == AdminSpec => []BackupIsComplete
<1>1. (focus = "backup" => BackInv) => BackupIsComplete
  BY ImportsComplete DEF BackupIsComplete
<1>2. QED BY <1>1, BackKept, PTL

-----------------------------------------------------------------------------
(* The window of a client.                                                 *)

LEMMA LimiterBegins ==
    ASSUME AdminInit, focus = "limiter"
    PROVE  Limiter!Init
BY DEF AdminInit, AdminFocus

LEMMA LimiterMoves ==
    ASSUME [AdminNext]_adminVars, focus' = "limiter"
    PROVE  focus = "limiter" /\ (Limiter!Next \/ UNCHANGED LimiterVars)
BY DEF AdminNext, AdminStays, adminVars

\* A set of natural numbers has a least one: intervals shrink.
LEMMA HasLeast ==
    ASSUME NEW k \in Nat, NEW S \in SUBSET (0 .. k), S # {}
    PROVE  \E t \in S : \A u \in S : t <= u
<1> DEFINE upto == {0 .. x : x \in S}
<1>1. upto \subseteq FiniteSubsetsOf(0 .. k) /\ upto # {}
  <2>1. \A x \in S : 0 .. x \in FiniteSubsetsOf(0 .. k)
    BY FS_Interval DEF FiniteSubsetsOf
  <2>2. QED BY <2>1
<1>2. PICK b \in upto : \A c \in upto : ~(<<c, b>> \in StrictSubsetOrdering(0 .. k))
  <2> HIDE DEF upto
  <2>1. QED BY <1>1, FS_StrictSubsetOrderingWellFounded, WFMin
<1>3. PICK t \in S : b = 0 .. t
  OBVIOUS
<1>4. ASSUME NEW u \in S, ~(t <= u) PROVE FALSE
  <2>1. t \in Int /\ u \in Int /\ 0 .. u \subseteq 0 .. t /\ t \in 0 .. t /\ t \notin 0 .. u
    BY <1>4
  <2>2. <<0 .. u, b>> \in StrictSubsetOrdering(0 .. k)
    BY <1>3, <2>1 DEF StrictSubsetOrdering
  <2>3. QED BY <1>2, <2>2
<1>5. QED BY <1>4

\* A family of finite sets has a smallest member.
LEMMA SmallestSet ==
    ASSUME NEW S, IsFiniteSet(S), NEW B \in SUBSET (SUBSET S), B # {}
    PROVE  \E b \in B : \A s \in SUBSET S : s \subseteq b /\ s # b => s \notin B
<1>1. B \subseteq FiniteSubsetsOf(S)
  BY FS_Subset DEF FiniteSubsetsOf
<1>2. PICK b \in B : \A c \in B : ~(<<c, b>> \in StrictSubsetOrdering(S))
  BY <1>1, FS_StrictSubsetOrderingWellFounded, WFMin
<1>3. ASSUME NEW s \in B, s \subseteq b, s # b PROVE FALSE
  BY <1>2, <1>3 DEF StrictSubsetOrdering
<1>4. QED BY <1>3

LEMMA Picked ==
    ASSUME NEW s, s # {}
    PROVE  (CHOOSE x \in s : TRUE) \in s
OBVIOUS

LEMMA LimiterCard == ASSUME NEW S PROVE Limiter!Cardinality(S) = Cardinality(S)
BY DEF Limiter!Cardinality, Cardinality, Limiter!IsFiniteSet, IsFiniteSet

Allowed(h) == verdict[h] = "allowed"
AllowedIn(t) == {h \in Arrivals : Allowed(h) /\ t - WindowSize < stamp[h] /\ stamp[h] <= t}

LimiterTyped ==
    /\ moment \in 0 .. MaxTime /\ stamp \in [Arrivals -> -1 .. MaxTime]
    /\ verdict \in [Arrivals -> {"none", "allowed", "refused", "open"}]
    /\ members \subseteq 0 .. MaxTime /\ retryAt \in [Arrivals -> 0 .. MaxTime + WindowSize]
    /\ blurred \in BOOLEAN /\ down \in 0 .. MaxDown
    /\ \A h \in Arrivals : Allowed(h) => stamp[h] \in 0 .. MaxTime

(* While readings are distinct and in order: the set has every admitted    *)
(* request, or one at least a window younger.                              *)
WindowCounted(h) == stamp[h] \in members \/ \E m \in members : stamp[h] <= m - WindowSize
Sharp ==
    /\ \A h, k \in Arrivals : Allowed(h) /\ Allowed(k) /\ stamp[h] = stamp[k] => h = k
    /\ \A h \in Arrivals : Allowed(h) => WindowCounted(h)
    /\ \A t \in 0 .. MaxTime : Cardinality(AllowedIn(t)) <= Limit
LimiterInv == LimiterTyped /\ (blurred \/ Sharp)

\* Steps that admit nothing and leave the set as it is.
LEMMA NothingAdmitted ==
    ASSUME Sharp, members' = members, \A h \in Arrivals : Allowed(h)' => Allowed(h) /\ stamp'[h] = stamp[h],
           \A h \in Arrivals : Allowed(h) => Allowed(h)'
    PROVE  Sharp'
<1>1. \A t : AllowedIn(t)' = AllowedIn(t)
  BY DEF AllowedIn
<1>2. \A h \in Arrivals : Allowed(h)' => WindowCounted(h)'
  BY DEF Sharp, WindowCounted
<1>3. \A h, k \in Arrivals : Allowed(h)' /\ Allowed(k)' /\ stamp'[h] = stamp'[k] => h = k
  BY DEF Sharp
<1>4. \A t \in 0 .. MaxTime : Cardinality(AllowedIn(t)') <= Limit
  BY <1>1 DEF Sharp
<1>5. QED BY <1>2, <1>3, <1>4 DEF Sharp

(* An admitted request finds less than Limit members in its window, and    *)
(* everything admitted in a window that reaches it is one of them.         *)
LEMMA AdmittedFits ==
    ASSUME LimiterTyped, Sharp, NEW g \in Arrivals, NEW t \in 0 .. MaxTime,
           stamp[g] \in 0 .. MaxTime, t - WindowSize < stamp[g], stamp[g] <= t, \A m \in members : m < stamp[g],
           Cardinality(Limiter!InWindow(g)) < Limit
    PROVE  Cardinality(AllowedIn(t) \cup {g}) <= Limit
<1> DEFINE A == AllowedIn(t)
           W == Limiter!InWindow(g)
           s == [h \in A |-> stamp[h]]
<1>1. IsFiniteSet(A) /\ IsFiniteSet(W) /\ W \subseteq members
  <2>1. A \subseteq Arrivals /\ W \subseteq members /\ members \subseteq 0 .. MaxTime
    BY DEF AllowedIn, Limiter!InWindow, LimiterTyped
  <2>2. IsFiniteSet(0 .. MaxTime)
    BY FS_Interval, LimitAssumption
  <2>3. QED BY <2>1, <2>2, FS_Subset, LimitAssumption
<1>2. \A h \in A : stamp[h] \in W
  <2> SUFFICES ASSUME NEW h \in A PROVE stamp[h] \in W
    OBVIOUS
  <2>1. h \in Arrivals /\ Allowed(h) /\ t - WindowSize < stamp[h] /\ stamp[h] \in 0 .. MaxTime /\ WindowCounted(h)
    BY DEF AllowedIn, LimiterTyped, Sharp
  <2>2. ~\E m \in members : stamp[h] <= m - WindowSize
    <3>1. SUFFICES ASSUME NEW m \in members, stamp[h] <= m - WindowSize PROVE FALSE
      OBVIOUS
    <3>2. PICK a \in Int, b \in Int, c \in Int : a = stamp[h] /\ b = m /\ c = stamp[g]
      BY <2>1 DEF LimiterTyped
    <3>3. b < c /\ c <= t /\ t - WindowSize < a /\ a <= b - WindowSize
      BY <2>1, <3>1, <3>2
    <3>4. QED BY <3>2, <3>3, LimitAssumption
  <2>3. stamp[h] > stamp[g] - WindowSize
    BY <2>1, LimitAssumption
  <2>4. QED BY <2>1, <2>2, <2>3 DEF WindowCounted, Limiter!InWindow
<1>3. s \in Injection(A, W)
  <2>1. s \in [A -> W]
    BY <1>2
  <2>2. \A h, k \in A : s[h] = s[k] => h = k
    BY DEF AllowedIn, Sharp
  <2>3. QED BY <2>1, <2>2 DEF Injection, IsInjective
<1>4. Cardinality(A) <= Cardinality(W)
  BY <1>1, <1>3, FS_Injection
<1>5. Cardinality(A) \in Nat /\ Cardinality(W) \in Nat
  BY <1>1, FS_CardinalityType
<1>6. Cardinality(A \cup {g}) \in {Cardinality(A), Cardinality(A) + 1}
  BY <1>1, FS_AddElement
<1>7. Cardinality(W) < Limit
  OBVIOUS
<1> HIDE DEF A, W, s
<1>8. Cardinality(A \cup {g}) <= Limit
  BY <1>4, <1>5, <1>6, <1>7, LimitAssumption
<1>9. QED BY <1>8 DEF A

LEMMA EnteredSharp ==
    ASSUME LimiterTyped, Sharp, NEW g \in Arrivals, ~blurred',
           Limiter!Decide(g) \/ (Limiter!LetThrough(g) /\ Limiter!Enters(g))
    PROVE  Sharp'
<1>1. PICK x \in 0 .. MaxTime : x = stamp[g]
  BY DEF Limiter!Decide, Limiter!LetThrough, Limiter!Waiting, LimiterTyped
<1>2. /\ members' = Limiter!InWindow(g) \cup {x} /\ stamp' = stamp /\ verdict[g] = "none"
      /\ \A m \in members : ~(m >= x)
      /\ \/ \E v \in {"refused", "open"} : verdict' = [verdict EXCEPT ![g] = v]
         \/ verdict' = [verdict EXCEPT ![g] = "allowed"] /\ ~(Limiter!Cardinality(Limiter!InWindow(g)) >= Limit)
  BY <1>1 DEF Limiter!Decide, Limiter!LetThrough, Limiter!Enters, Limiter!Waiting, Limiter!Full
<1>3. members \subseteq Int /\ \A m \in members : m < x
  BY <1>2 DEF LimiterTyped
<1>4. \A h \in Arrivals \ {g} : Allowed(h)' <=> Allowed(h)
  BY <1>2 DEF Allowed, LimiterTyped
<1>5. ~Allowed(g)
  BY <1>2 DEF Allowed
<1>6. \A h \in Arrivals : Allowed(h) => stamp[h] \in 0 .. MaxTime /\ stamp[h] < x
  <2> SUFFICES ASSUME NEW h \in Arrivals, Allowed(h) PROVE stamp[h] \in 0 .. MaxTime /\ stamp[h] < x
    OBVIOUS
  <2>1. stamp[h] \in 0 .. MaxTime /\ WindowCounted(h)
    BY DEF LimiterTyped, Sharp
  <2>2. CASE stamp[h] \in members
    BY <1>3, <2>1, <2>2
  <2>3. CASE \E m \in members : stamp[h] <= m - WindowSize
    <3>1. PICK m \in members : stamp[h] <= m - WindowSize
      BY <2>3
    <3>2. m \in Int /\ m < x
      BY <1>3
    <3>3. QED BY <2>1, <3>1, <3>2, LimitAssumption
  <2>4. QED BY <2>1, <2>2, <2>3 DEF WindowCounted
<1>7. \A h, k \in Arrivals : Allowed(h)' /\ Allowed(k)' /\ stamp'[h] = stamp'[k] => h = k
  <2> SUFFICES ASSUME NEW h \in Arrivals, NEW k \in Arrivals, Allowed(h)', Allowed(k)', stamp[h] = stamp[k] PROVE h = k
    BY <1>2
  <2>1. CASE h # g /\ k # g
    BY <1>4, <2>1 DEF Sharp
  <2>2. CASE (h = g /\ k # g) \/ (h # g /\ k = g)
    BY <1>1, <1>4, <1>6, <2>2
  <2>3. QED BY <2>1, <2>2
<1>8. \A h \in Arrivals : Allowed(h)' => WindowCounted(h)'
  <2> SUFFICES ASSUME NEW h \in Arrivals, Allowed(h)' PROVE stamp[h] \in members' \/ \E m \in members' : stamp[h] <= m - WindowSize
    BY <1>2 DEF WindowCounted
  <2>1. CASE h = g
    BY <1>1, <1>2, <2>1
  <2>2. CASE h # g
    <3>1. Allowed(h) /\ WindowCounted(h) /\ stamp[h] \in 0 .. MaxTime /\ x \in members'
      BY <1>2, <1>4, <1>6, <2>2 DEF Sharp
    <3>2. CASE stamp[h] \in members /\ stamp[h] > x - WindowSize
      BY <1>1, <1>2, <3>2 DEF Limiter!InWindow
    <3>3. CASE stamp[h] \in members /\ ~(stamp[h] > x - WindowSize)
      <4>1. stamp[h] <= x - WindowSize
        BY <3>1, <3>3, LimitAssumption
      <4>2. QED BY <3>1, <4>1
    <3>4. CASE \E m \in members : stamp[h] <= m - WindowSize
      <4>1. PICK m \in members : stamp[h] <= m - WindowSize
        BY <3>4
      <4>2. stamp[h] <= x - WindowSize
        BY <1>3, <3>1, <4>1, LimitAssumption
      <4>3. QED BY <3>1, <4>2
    <3>5. QED BY <3>1, <3>2, <3>3, <3>4 DEF WindowCounted
  <2>3. QED BY <2>1, <2>2
<1>9. ASSUME NEW t \in 0 .. MaxTime PROVE Cardinality(AllowedIn(t)') <= Limit
  <2>1. Cardinality(AllowedIn(t)) <= Limit
    BY DEF Sharp
  <2>2. AllowedIn(t)' \subseteq AllowedIn(t) \cup {g} /\ AllowedIn(t) \subseteq AllowedIn(t)'
    BY <1>2, <1>4, <1>5 DEF AllowedIn
  <2>3. CASE g \notin AllowedIn(t)'
    <3>1. AllowedIn(t)' = AllowedIn(t)
      BY <1>5, <2>2, <2>3 DEF AllowedIn
    <3>2. QED BY <2>1, <3>1
  <2>4. CASE g \in AllowedIn(t)'
    <3>1. Allowed(g)' /\ t - WindowSize < x /\ x <= t
      BY <1>1, <1>2, <2>4 DEF AllowedIn
    <3>2. ~(Limiter!Cardinality(Limiter!InWindow(g)) >= Limit)
      BY <1>2, <3>1 DEF Allowed, LimiterTyped
    <3>3. PICK W : W = Limiter!InWindow(g)
      OBVIOUS
    <3>4. IsFiniteSet(W)
      <4>1. W \subseteq 0 .. MaxTime
        BY <3>3 DEF Limiter!InWindow, LimiterTyped
      <4>2. IsFiniteSet(0 .. MaxTime)
        BY FS_Interval, LimitAssumption
      <4>3. QED BY <4>1, <4>2, FS_Subset
    <3>5. Cardinality(W) \in Nat /\ Limiter!Cardinality(W) = Cardinality(W)
      BY <3>4, FS_CardinalityType, LimiterCard
    <3>6. Cardinality(Limiter!InWindow(g)) < Limit
      BY <3>2, <3>3, <3>5, LimitAssumption
    <3>7. Cardinality(AllowedIn(t) \cup {g}) <= Limit
      BY <1>1, <1>3, <3>1, <3>6, AdmittedFits
    <3>8. AllowedIn(t)' = AllowedIn(t) \cup {g}
      BY <2>2, <2>4
    <3>9. QED BY <3>7, <3>8
  <2>5. QED BY <2>3, <2>4
<1>10. QED BY <1>7, <1>8, <1>9 DEF Sharp

LEMMA LimiterTypeStep ==
    ASSUME LimiterTyped, Limiter!Next \/ UNCHANGED LimiterVars
    PROVE  LimiterTyped'
<1>1. CASE Limiter!Tick
  BY <1>1, LimitAssumption DEF LimiterTyped, Limiter!Tick, Allowed
<1>2. ASSUME NEW h \in Arrivals, Limiter!Arrive(h) PROVE LimiterTyped'
  <2>1. stamp' = [stamp EXCEPT ![h] = moment] /\ UNCHANGED <<moment, verdict, members, retryAt, blurred, down>>
    BY <1>2 DEF Limiter!Arrive
  <2>2. moment \in -1 .. MaxTime
    BY LimitAssumption DEF LimiterTyped
  <2>3. stamp' \in [Arrivals -> -1 .. MaxTime] /\ \A k \in Arrivals : stamp'[k] = stamp[k] \/ stamp'[k] \in 0 .. MaxTime
    BY <2>1, <2>2 DEF LimiterTyped
  <2>4. QED BY <2>1, <2>3 DEF LimiterTyped, Allowed
<1>3. ASSUME NEW h \in Arrivals, Limiter!Decide(h) PROVE LimiterTyped'
  <2>1. PICK x \in 0 .. MaxTime : x = stamp[h]
    BY <1>3 DEF Limiter!Decide, Limiter!Waiting, LimiterTyped
  <2>2. members' \subseteq 0 .. MaxTime
    BY <1>3, <2>1 DEF LimiterTyped, Limiter!Decide, Limiter!Enters, Limiter!InWindow
  <2>3. Limiter!Oldest(h) \in 0 .. MaxTime
    <3>1. PICK A : A = Limiter!InWindow(h) \cup {stamp[h]}
      OBVIOUS
    <3>2. A \subseteq 0 .. MaxTime /\ x \in A
      BY <2>1, <3>1 DEF LimiterTyped, Limiter!InWindow
    <3>3. \E t \in A : \A u \in A : t <= u
      <4>1. MaxTime \in Nat /\ A \in SUBSET (0 .. MaxTime) /\ A # {}
        BY <3>2, LimitAssumption
      <4>2. QED BY <4>1, HasLeast
    <3>4. (CHOOSE t \in A : \A u \in A : t <= u) \in A
      BY <3>3
    <3>5. QED BY <3>1, <3>2, <3>4 DEF Limiter!Oldest
  <2>4. retryAt' \in [Arrivals -> 0 .. MaxTime + WindowSize]
    <3>1. PICK y \in 0 .. MaxTime : y = Limiter!Oldest(h)
      BY <2>3
    <3>2. y + WindowSize \in 0 .. MaxTime + WindowSize
      BY LimitAssumption
    <3>3. retryAt' = retryAt \/ retryAt' = [retryAt EXCEPT ![h] = y + WindowSize]
      BY <1>3, <3>1 DEF Limiter!Decide
    <3>4. QED BY <3>2, <3>3 DEF LimiterTyped
  <2>5. /\ verdict' \in [Arrivals -> {"none", "allowed", "refused", "open"}] /\ blurred' \in BOOLEAN
        /\ \A k \in Arrivals : k = h \/ verdict'[k] = verdict[k]
    BY <1>3 DEF LimiterTyped, Limiter!Decide, Limiter!Enters
  <2>6. UNCHANGED <<moment, stamp, down>>
    BY <1>3 DEF Limiter!Decide
  <2>7. \A k \in Arrivals : Allowed(k)' => stamp'[k] \in 0 .. MaxTime
    BY <2>1, <2>5, <2>6 DEF LimiterTyped, Allowed
  <2>8. QED BY <2>2, <2>4, <2>5, <2>6, <2>7 DEF LimiterTyped
<1>4. ASSUME NEW h \in Arrivals, Limiter!LetThrough(h) PROVE LimiterTyped'
  <2>1. PICK x \in 0 .. MaxTime : x = stamp[h]
    BY <1>4 DEF Limiter!LetThrough, Limiter!Waiting, LimiterTyped
  <2>2. members' \subseteq 0 .. MaxTime /\ blurred' \in BOOLEAN
    BY <1>4, <2>1 DEF LimiterTyped, Limiter!LetThrough, Limiter!Enters, Limiter!InWindow
  <2>3. QED BY <1>4, <2>2, LimitAssumption DEF LimiterTyped, Limiter!LetThrough, Allowed
<1>5. CASE UNCHANGED LimiterVars
  BY <1>5 DEF LimiterVars, LimiterTyped, Allowed
<1>6. QED BY <1>1, <1>2, <1>3, <1>4, <1>5 DEF Limiter!Next

LEMMA LimiterStep ==
    ASSUME LimiterInv, Limiter!Next \/ UNCHANGED LimiterVars
    PROVE  LimiterInv'
<1>1. LimiterTyped /\ LimiterTyped'
  BY LimiterTypeStep DEF LimiterInv
<1>2. SUFFICES ASSUME ~blurred' PROVE Sharp'
  BY <1>1 DEF LimiterInv
<1>3. CASE Limiter!Tick \/ UNCHANGED LimiterVars
  <2>1. UNCHANGED <<stamp, verdict, members, blurred>>
    BY <1>3 DEF Limiter!Tick, LimiterVars
  <2>2. QED BY <1>2, <2>1, NothingAdmitted DEF LimiterInv, Allowed
<1>4. ASSUME NEW g \in Arrivals, Limiter!Arrive(g) PROVE Sharp'
  <2>1. /\ stamp[g] = -1 /\ \A h \in Arrivals : h = g \/ stamp'[h] = stamp[h]
        /\ UNCHANGED <<verdict, members, blurred>>
    BY <1>1, <1>4 DEF Limiter!Arrive, LimiterTyped
  <2>2. ~Allowed(g)
    BY <1>1, <2>1 DEF LimiterTyped
  <2>3. QED BY <1>2, <2>1, <2>2, NothingAdmitted DEF LimiterInv, Allowed
<1>5. ASSUME NEW g \in Arrivals, Limiter!Decide(g) PROVE Sharp'
  <2>1. ~blurred
    BY <1>1, <1>2, <1>5 DEF Limiter!Decide, Limiter!Enters, LimiterTyped
  <2>2. QED BY <1>1, <1>2, <1>5, <2>1, EnteredSharp DEF LimiterInv
<1>6. ASSUME NEW g \in Arrivals, Limiter!LetThrough(g), Limiter!Enters(g) PROVE Sharp'
  <2>1. ~blurred
    BY <1>1, <1>2, <1>6 DEF Limiter!Enters, LimiterTyped
  <2>2. QED BY <1>1, <1>2, <1>6, <2>1, EnteredSharp DEF LimiterInv
<1>8. ASSUME NEW g \in Arrivals, Limiter!LetThrough(g), ~Limiter!Enters(g) PROVE Sharp'
  <2>1. /\ verdict[g] = "none" /\ verdict'[g] = "open" /\ \A h \in Arrivals : h = g \/ verdict'[h] = verdict[h]
        /\ UNCHANGED <<stamp, members, blurred>>
    BY <1>1, <1>8 DEF Limiter!LetThrough, Limiter!Waiting, LimiterTyped
  <2>2. \A h \in Arrivals : Allowed(h)' <=> Allowed(h)
    BY <2>1 DEF Allowed
  <2>3. QED BY <1>2, <2>1, <2>2, NothingAdmitted DEF LimiterInv
<1>7. QED BY <1>3, <1>4, <1>5, <1>6, <1>8 DEF Limiter!Next

LEMMA LimiterInvInit == ASSUME Limiter!Init PROVE LimiterInv
<1>1. LimiterTyped /\ ~blurred /\ \A h \in Arrivals : ~Allowed(h)
  <2>1. /\ moment = 0 /\ stamp = [h \in Arrivals |-> -1] /\ verdict = [h \in Arrivals |-> "none"]
        /\ members = {} /\ retryAt = [h \in Arrivals |-> 0] /\ blurred = FALSE /\ down = 0
    BY DEF Limiter!Init
  <2>2. \A h \in Arrivals : ~Allowed(h)
    BY <2>1 DEF Allowed
  <2>3. 0 \in 0 .. MaxTime /\ -1 \in -1 .. MaxTime /\ 0 \in 0 .. MaxTime + WindowSize /\ 0 \in 0 .. MaxDown
    BY LimitAssumption
  <2>4. QED BY <2>1, <2>2, <2>3 DEF LimiterTyped
<1>2. \A t \in 0 .. MaxTime : AllowedIn(t) = {}
  BY <1>1 DEF AllowedIn
<1>3. Sharp
  BY <1>1, <1>2, FS_EmptySet, LimitAssumption DEF Sharp
<1>4. QED BY <1>1, <1>3 DEF LimiterInv

LEMMA LimiterKept == AdminSpec => [](focus = "limiter" => LimiterInv)
<1>1. AdminInit => (focus = "limiter" => LimiterInv)
  BY LimiterBegins, LimiterInvInit
<1>2. (focus = "limiter" => LimiterInv) /\ [AdminNext]_adminVars => (focus = "limiter" => LimiterInv)'
  BY LimiterMoves, LimiterStep
<1>3. QED BY <1>1, <1>2, PTL DEF AdminSpec

LEMMA WindowsHold == LimiterInv => Limiter!WithinLimit
<1>1. \A t : {h \in Arrivals : verdict[h] = "allowed" /\ t - WindowSize < stamp[h] /\ stamp[h] <= t} = AllowedIn(t)
  BY DEF AllowedIn, Allowed
<1>2. \A t : Limiter!Cardinality(AllowedIn(t)) = Cardinality(AllowedIn(t))
  BY LimiterCard
<1>3. QED BY <1>1, <1>2 DEF LimiterInv, Sharp, Limiter!WithinLimit

-----------------------------------------------------------------------------
(* Counted tokens: the sum over a set is a recursive function, and a least *)
(* counterexample among the subsets takes the place of induction.          *)

Total(g, S) == Llm!MapThenSumSet(LAMBDA b : g[b], S)

SumRule(g, S, F) ==
    F = [s \in SUBSET S |-> IF s = {} THEN 0 ELSE LET x == CHOOSE x \in s : TRUE IN g[x] + F[s \ {x}]]

\* The function exists: one for the sets up to each size.
LEMMA SumExists ==
    ASSUME NEW S, IsFiniteSet(S), NEW g
    PROVE  \E F : SumRule(g, S, F)
<1> DEFINE next(s, F) == IF s = {} THEN 0 ELSE LET x == CHOOSE x \in s : TRUE IN g[x] + F[s \ {x}]
           upto(n, F) == \A s \in SUBSET S : Cardinality(s) <= n => F[s] = next(s, F)
           reached(n) == \E F : DOMAIN F = SUBSET S /\ upto(n, F)
           bad == {n \in 0 .. Cardinality(S) : ~reached(n)}
<1>1. Cardinality(S) \in Nat /\ \A s \in SUBSET S : IsFiniteSet(s) /\ Cardinality(s) \in 0 .. Cardinality(S)
  BY FS_Subset, FS_CardinalityType
<1>2. ASSUME bad # {} PROVE FALSE
  <2>1. PICK n \in bad : \A k \in bad : n <= k
    <3>1. bad \in SUBSET (0 .. Cardinality(S))
      OBVIOUS
    <3> HIDE DEF bad
    <3>2. QED BY <1>1, <1>2, <3>1, HasLeast
  <2>2. n \in 0 .. Cardinality(S) /\ n \in Nat /\ ~reached(n)
    <3> HIDE DEF reached
    <3>1. QED BY <1>1
  <2>3. CASE n = 0
    <3>1. PICK F : F = [s \in SUBSET S |-> 0]
      OBVIOUS
    <3>2. \A s \in SUBSET S : Cardinality(s) <= 0 => s = {}
      BY <1>1, FS_EmptySet
    <3>3. upto(0, F) /\ DOMAIN F = SUBSET S
      BY <3>1, <3>2
    <3>4. reached(0)
      BY <3>3
    <3>5. QED BY <2>2, <2>3, <3>4
  <2>4. CASE n # 0
    <3> HIDE DEF reached
    <3>1. n - 1 \in 0 .. Cardinality(S) /\ ~(n <= n - 1)
      BY <1>1, <2>2, <2>4
    <3>2. reached(n - 1)
      BY <2>1, <3>1
    <3> USE DEF reached
    <3>3. PICK G : DOMAIN G = SUBSET S /\ upto(n - 1, G)
      BY <3>2
    <3>4. PICK F : F = [s \in SUBSET S |-> IF Cardinality(s) <= n - 1 THEN G[s] ELSE next(s, G)]
      OBVIOUS
    <3>5. ASSUME NEW s \in SUBSET S, Cardinality(s) <= n PROVE F[s] = next(s, F)
      <4>1. CASE s = {}
        <5>1. Cardinality(s) = 0
          BY <4>1, FS_EmptySet
        <5>2. F[s] = G[s] /\ G[s] = next(s, G)
          BY <2>2, <2>4, <3>3, <3>4, <5>1
        <5>3. QED BY <4>1, <5>2
      <4>2. CASE s # {}
        <5>1. PICK x \in s : x = CHOOSE y \in s : TRUE
          BY <4>2, Picked
        <5>2. PICK r \in SUBSET S : r = s \ {x}
          OBVIOUS
        <5>3. Cardinality(r) = Cardinality(s) - 1
          BY <1>1, <5>1, <5>2, FS_RemoveElement
        <5>4. Cardinality(r) <= n - 1
          BY <1>1, <2>2, <3>5, <5>3
        <5>5. F[r] = G[r]
          BY <3>4, <5>4
        <5>6. F[s] = next(s, G)
          BY <3>3, <3>4
        <5>7. next(s, G) = g[x] + G[r] /\ next(s, F) = g[x] + F[r]
          BY <4>2, <5>1, <5>2
        <5>8. QED BY <5>5, <5>6, <5>7
      <4>3. QED BY <4>1, <4>2
    <3>6. DOMAIN F = SUBSET S /\ upto(n, F)
      BY <3>4, <3>5
    <3>7. reached(n)
      BY <3>6
    <3>8. QED BY <2>2, <3>7
  <2>5. QED BY <2>3, <2>4
<1>3. Cardinality(S) \notin bad
  BY <1>2
<1>4. PICK F : DOMAIN F = SUBSET S /\ upto(Cardinality(S), F)
  BY <1>1, <1>3
<1>5. PICK H : H = [s \in SUBSET S |-> F[s]]
  OBVIOUS
<1>6. \A s \in SUBSET S : H[s] = next(s, H)
  <2> SUFFICES ASSUME NEW s \in SUBSET S PROVE H[s] = next(s, H)
    OBVIOUS
  <2>1. H[s] = F[s] /\ F[s] = next(s, F)
    BY <1>1, <1>4, <1>5
  <2>2. CASE s = {}
    BY <2>1, <2>2
  <2>3. CASE s # {}
    <3>1. PICK x \in s : x = CHOOSE y \in s : TRUE
      BY <2>3, Picked
    <3>2. H[s \ {x}] = F[s \ {x}]
      BY <1>5
    <3>3. QED BY <2>1, <2>3, <3>1, <3>2
  <2>4. QED BY <2>2, <2>3
<1>7. H = [s \in SUBSET S |-> next(s, H)]
  BY <1>5, <1>6
<1>8. SumRule(g, S, H)
  BY <1>7 DEF SumRule
<1>9. QED BY <1>8

LEMMA SumStep ==
    ASSUME NEW S, NEW g, NEW F, SumRule(g, S, F), NEW s \in SUBSET S
    PROVE  /\ s = {} => F[s] = 0
           /\ s # {} => \E x \in s : x = (CHOOSE y \in s : TRUE) /\ F[s] = g[x] + F[s \ {x}]
<1>1. F[s] = IF s = {} THEN 0 ELSE LET x == CHOOSE x \in s : TRUE IN g[x] + F[s \ {x}]
  BY DEF SumRule
<1>2. ASSUME s # {} PROVE \E x \in s : x = (CHOOSE y \in s : TRUE) /\ F[s] = g[x] + F[s \ {x}]
  <2>1. PICK x \in s : x = CHOOSE y \in s : TRUE
    BY <1>2, Picked
  <2>2. QED BY <1>1, <1>2, <2>1
<1>3. QED BY <1>1, <1>2

LEMMA SumNat ==
    ASSUME NEW S, IsFiniteSet(S), NEW g, \A x \in S : g[x] \in Nat, NEW F, SumRule(g, S, F)
    PROVE  \A s \in SUBSET S : F[s] \in Nat
<1>1. PICK B \in SUBSET (SUBSET S) : B = {s \in SUBSET S : F[s] \notin Nat}
  OBVIOUS
<1>2. ASSUME B # {} PROVE FALSE
  <2>1. PICK b \in B : \A s \in SUBSET S : s \subseteq b /\ s # b => s \notin B
    BY <1>2, SmallestSet
  <2>2. b \in SUBSET S /\ F[b] \notin Nat
    BY <1>1
  <2>3. b # {}
    BY <2>2, SumStep
  <2>4. PICK x \in b : F[b] = g[x] + F[b \ {x}]
    BY <2>2, <2>3, SumStep
  <2>5. F[b \ {x}] \in Nat
    BY <1>1, <2>1, <2>2
  <2>6. g[x] \in Nat
    BY <2>2
  <2>7. QED BY <2>2, <2>4, <2>5, <2>6
<1>3. QED BY <1>1, <1>2

\* Any element can be taken first.
LEMMA SumPeel ==
    ASSUME NEW S, IsFiniteSet(S), NEW g, \A x \in S : g[x] \in Nat, NEW F, SumRule(g, S, F)
    PROVE  \A s \in SUBSET S : \A x \in s : F[s] = g[x] + F[s \ {x}]
<1>1. PICK B \in SUBSET (SUBSET S) : B = {s \in SUBSET S : \E x \in s : F[s] # g[x] + F[s \ {x}]}
  OBVIOUS
<1>2. ASSUME B # {} PROVE FALSE
  <2>1. PICK b \in B : \A s \in SUBSET S : s \subseteq b /\ s # b => s \notin B
    BY <1>2, SmallestSet
  <2>2. b \in SUBSET S
    OBVIOUS
  <2>3. PICK x \in b : F[b] # g[x] + F[b \ {x}]
    BY <1>1
  <2>4. PICK y \in b : F[b] = g[y] + F[b \ {y}]
    BY <2>2, <2>3, SumStep
  <2>5. x # y
    BY <2>3, <2>4
  <2>6. PICK u \in SUBSET S, v \in SUBSET S, w \in SUBSET S :
           u = b \ {x} /\ v = b \ {y} /\ w = b \ {x, y}
    BY <2>2
  <2>7. u \notin B /\ v \notin B
    BY <2>1, <2>6
  <2>8. F[u] = g[y] + F[w]
    <3>1. y \in u /\ w = u \ {y}
      BY <2>5, <2>6
    <3>2. QED BY <1>1, <2>7, <3>1
  <2>9. F[v] = g[x] + F[w]
    <3>1. x \in v /\ w = v \ {x}
      BY <2>5, <2>6
    <3>2. QED BY <1>1, <2>7, <3>1
  <2>10. F[w] \in Nat /\ g[x] \in Nat /\ g[y] \in Nat
    BY <2>2, SumNat
  <2>11. F[b] = g[y] + F[v] /\ F[b] # g[x] + F[u]
    BY <2>3, <2>4, <2>6
  <2>12. QED BY <2>8, <2>9, <2>10, <2>11
<1>3. QED BY <1>1, <1>2

\* The sum depends on the summed values only.
LEMMA SumSame ==
    ASSUME NEW S, IsFiniteSet(S), NEW g, NEW F, SumRule(g, S, F),
           NEW T, NEW h, NEW H, SumRule(h, T, H),
           NEW U, U \subseteq S, U \subseteq T, \A x \in U : g[x] = h[x]
    PROVE  F[U] = H[U]
<1>1. PICK B \in SUBSET (SUBSET U) : B = {s \in SUBSET U : F[s] # H[s]}
  OBVIOUS
<1>2. ASSUME B # {} PROVE FALSE
  <2>1. IsFiniteSet(U)
    BY FS_Subset
  <2>2. PICK b \in B : \A s \in SUBSET U : s \subseteq b /\ s # b => s \notin B
    BY <1>2, <2>1, SmallestSet
  <2>3. b \in SUBSET S /\ b \in SUBSET T /\ b \in SUBSET U /\ F[b] # H[b]
    BY <1>1
  <2>4. (b = {} => F[b] = 0) /\ (b # {} => \E x \in b : x = (CHOOSE y \in b : TRUE) /\ F[b] = g[x] + F[b \ {x}])
    BY <2>3, SumStep
  <2>5. (b = {} => H[b] = 0) /\ (b # {} => \E x \in b : x = (CHOOSE y \in b : TRUE) /\ H[b] = h[x] + H[b \ {x}])
    BY <2>3, SumStep
  <2>6. b # {}
    BY <2>3, <2>4, <2>5
  <2>7. PICK x \in b : x = (CHOOSE y \in b : TRUE) /\ F[b] = g[x] + F[b \ {x}]
    BY <2>4, <2>6
  <2>8. H[b] = h[x] + H[b \ {x}]
    BY <2>5, <2>6, <2>7
  <2>9. F[b \ {x}] = H[b \ {x}]
    BY <1>1, <2>2, <2>3
  <2>10. QED BY <2>3, <2>7, <2>8, <2>9
<1>3. QED BY <1>1, <1>2

LEMMA TotalIs ==
    ASSUME NEW S, IsFiniteSet(S), NEW g
    PROVE  \E F : SumRule(g, S, F) /\ Total(g, S) = F[S]
<1>1. PICK F : F = CHOOSE G : SumRule(g, S, G)
  OBVIOUS
<1>2. SumRule(g, S, F)
  BY <1>1, SumExists
<1>3. Total(g, S) = F[S]
  BY <1>1 DEF Total, Llm!MapThenSumSet, Llm!MapThenFoldSet, SumRule
<1>4. QED BY <1>2, <1>3

LEMMA TotalSame ==
    ASSUME NEW S, IsFiniteSet(S), NEW g, NEW h, \A x \in S : g[x] = h[x]
    PROVE  Total(g, S) = Total(h, S)
<1>1. PICK F : SumRule(g, S, F) /\ Total(g, S) = F[S]
  BY TotalIs
<1>2. PICK H : SumRule(h, S, H) /\ Total(h, S) = H[S]
  BY TotalIs
<1>3. QED BY <1>1, <1>2, SumSame

LEMMA TotalPeel ==
    ASSUME NEW S, IsFiniteSet(S), NEW g, \A x \in S : g[x] \in Nat, NEW x \in S
    PROVE  /\ Total(g, S) = g[x] + Total(g, S \ {x})
           /\ Total(g, S) \in Nat /\ Total(g, S \ {x}) \in Nat /\ g[x] \in Nat
<1>1. PICK T : T = S \ {x}
  OBVIOUS
<1>2. IsFiniteSet(T) /\ T \subseteq S /\ \A y \in T : g[y] \in Nat
  BY <1>1, FS_Subset
<1>3. PICK F : SumRule(g, S, F) /\ Total(g, S) = F[S]
  BY TotalIs
<1>4. PICK H : SumRule(g, T, H) /\ Total(g, T) = H[T]
  BY <1>2, TotalIs
<1>5. F[T] = H[T]
  BY <1>2, <1>3, <1>4, SumSame
<1>6. F[S] = g[x] + F[T]
  BY <1>1, <1>3, SumPeel
<1>7. F[S] \in Nat /\ H[T] \in Nat
  BY <1>2, <1>3, <1>4, SumNat
<1>8. QED BY <1>1, <1>3, <1>4, <1>5, <1>6, <1>7

LEMMA TotalZero ==
    ASSUME NEW S, IsFiniteSet(S), NEW g, \A x \in S : g[x] = 0
    PROVE  Total(g, S) = 0
<1>1. PICK F : SumRule(g, S, F) /\ Total(g, S) = F[S]
  BY TotalIs
<1>2. PICK B \in SUBSET (SUBSET S) : B = {s \in SUBSET S : F[s] # 0}
  OBVIOUS
<1>3. ASSUME B # {} PROVE FALSE
  <2>1. PICK b \in B : \A s \in SUBSET S : s \subseteq b /\ s # b => s \notin B
    BY <1>3, SmallestSet
  <2>2. b \in SUBSET S /\ F[b] # 0
    BY <1>2
  <2>3. b # {}
    BY <1>1, <2>2, SumStep
  <2>4. PICK x \in b : F[b] = g[x] + F[b \ {x}]
    BY <1>1, <2>2, <2>3, SumStep
  <2>5. F[b \ {x}] = 0 /\ g[x] = 0
    BY <1>2, <2>1, <2>2
  <2>6. QED BY <2>2, <2>4, <2>5
<1>4. QED BY <1>1, <1>2, <1>3

LEMMA TotalNat ==
    ASSUME NEW S, IsFiniteSet(S), NEW g, \A x \in S : g[x] \in Nat
    PROVE  Total(g, S) \in Nat
<1>1. CASE S = {}
  BY <1>1, TotalZero
<1>2. CASE \E x \in S : TRUE
  BY <1>2, TotalPeel
<1>3. QED BY <1>1, <1>2

LEMMA LlmBegins ==
    ASSUME AdminInit, focus = "llm"
    PROVE  Llm!Init
BY DEF AdminInit, AdminFocus

LEMMA LlmMoves ==
    ASSUME [AdminNext]_adminVars, focus' = "llm"
    PROVE  focus = "llm" /\ (Llm!Next \/ UNCHANGED LlmVars)
BY DEF AdminNext, AdminStays, adminVars

CallTyped(c) ==
    /\ DOMAIN retry[c] = {"pc", "tries"} /\ retry[c].tries \in 0 .. MaxTries
    /\ retry[c].pc \in {"new", "calling", "waiting", "answered", "raised"}
    /\ retry[c].pc \in {"new", "calling", "waiting"} => retry[c].tries < MaxTries
LlmTyped ==
    /\ blockState \in [Blocks -> {"new", "open", "closed"}] /\ bucket \in [Blocks -> Nat] /\ lost \in Nat
    /\ DOMAIN retry = Completions /\ \A c \in Completions : CallTyped(c)

Live    == {b \in Blocks : ~Llm!Ended(b)}
TokensCounted == Total(bucket, Live) + lost = Cardinality(paid)
Charged == paid = {c \in Completions : retry[c].pc = "answered"}
Nested  == \A b \in Blocks : blockState[b] # "new" => ParentOf[b] # b
LlmInv  == LlmTyped /\ Charged /\ Nested /\ TokensCounted

LEMMA LlmFinite ==
    ASSUME Charged
    PROVE  IsFiniteSet(paid) /\ IsFiniteSet(Live)
BY FS_Subset, CallAssumption DEF Charged, Live

LEMMA LlmInvInit == ASSUME Llm!Init PROVE LlmInv
<1>1. /\ blockState = [b \in Blocks |-> "new"] /\ bucket = [b \in Blocks |-> 0]
      /\ retry = [c \in Completions |-> [pc |-> "new", tries |-> 0]]
      /\ paid = {} /\ lost = 0
  BY DEF Llm!Init
<1>2. LlmTyped
  <2>1. \A c \in Completions : CallTyped(c)
    BY <1>1, CallAssumption DEF CallTyped
  <2>2. QED BY <1>1, <2>1 DEF LlmTyped
<1>3. Charged /\ Nested
  BY <1>1 DEF Charged, Nested
<1>4. TokensCounted
  <2>1. Live \subseteq Blocks
    BY DEF Live
  <2>2. Total(bucket, Live) = 0
    BY <1>1, <1>3, <2>1, LlmFinite, TotalZero
  <2>3. QED BY <1>1, <2>2, FS_EmptySet DEF TokensCounted
<1>5. QED BY <1>2, <1>3, <1>4 DEF LlmInv

\* Most steps of a call leave blocks, buckets and charges alone.
LEMMA CallOnly ==
    ASSUME LlmInv, NEW c \in Completions, retry[c].pc # "answered",
           UNCHANGED <<blockState, bucket, paid, lost>>,
           NEW r, retry' = [retry EXCEPT ![c] = r], DOMAIN r = {"pc", "tries"},
           r.tries \in 0 .. MaxTries, r.pc \in {"calling", "waiting", "raised"},
           r.pc \in {"calling", "waiting"} => r.tries < MaxTries
    PROVE  LlmInv'
<1>1. DOMAIN retry' = Completions /\ retry'[c] = r /\ \A d \in Completions \ {c} : retry'[d] = retry[d]
  BY DEF LlmInv, LlmTyped
<1>2. LlmTyped'
  <2>1. \A d \in Completions : CallTyped(d)'
    BY <1>1 DEF LlmInv, LlmTyped, CallTyped
  <2>2. QED BY <1>1, <2>1 DEF LlmInv, LlmTyped
<1>3. Charged'
  BY <1>1 DEF LlmInv, Charged
<1>4. Nested' /\ Live' = Live
  BY DEF LlmInv, Nested, Live, Llm!Ended
<1>5. TokensCounted'
  BY <1>4 DEF LlmInv, TokensCounted
<1>6. QED BY <1>2, <1>3, <1>4, <1>5 DEF LlmInv

LEMMA CallSound ==
    ASSUME LlmInv, NEW c \in Completions,
           Llm!Call(c) \/ Llm!TryAgain(c) \/ Llm!FailTransiently(c) \/ Llm!FailForGood(c) \/ Llm!GiveUp(c)
    PROVE  LlmInv'
<1>1. PICK q : q = retry[c]
  OBVIOUS
<1>2. DOMAIN retry = Completions /\ CallTyped(c) /\ MaxTries \in Nat
  BY CallAssumption DEF LlmInv, LlmTyped
<1>3. UNCHANGED <<blockState, bucket, paid, lost>> /\ q.pc \in {"new", "calling", "waiting"}
  BY <1>1 DEF Llm!Call, Llm!TryAgain, Llm!FailTransiently, Llm!FailForGood, Llm!GiveUp
<1>4. CASE Llm!FailTransiently(c)
  <2>1. PICK r : r = [pc |-> IF Llm!Exhausted(c) THEN "raised" ELSE "waiting", tries |-> q.tries + 1]
    OBVIOUS
  <2>2. retry' = [retry EXCEPT ![c] = r]
    BY <1>1, <1>2, <1>4, <2>1 DEF Llm!FailTransiently
  <2>3. q.tries < MaxTries /\ q.tries \in Nat
    BY <1>1, <1>2, <1>3 DEF CallTyped
  <2>4. r.tries \in 0 .. MaxTries /\ DOMAIN r = {"pc", "tries"}
    BY <1>2, <2>1, <2>3
  <2>5. r.pc \in {"raised", "waiting"} /\ (r.pc = "waiting" => r.tries < MaxTries)
    BY <1>1, <1>2, <2>1, <2>3 DEF Llm!Exhausted
  <2>6. QED BY <1>1, <1>3, <2>2, <2>4, <2>5, CallOnly
<1>5. CASE Llm!Call(c) \/ Llm!TryAgain(c) \/ Llm!FailForGood(c) \/ Llm!GiveUp(c)
  <2>1. PICK to \in {"calling", "raised"} : retry' = [retry EXCEPT ![c].pc = to]
    BY <1>5 DEF Llm!Call, Llm!TryAgain, Llm!FailForGood, Llm!GiveUp, Llm!Step
  <2>2. PICK r : r = [q EXCEPT !.pc = to]
    OBVIOUS
  <2>3. retry' = [retry EXCEPT ![c] = r]
    BY <1>1, <2>1, <2>2
  <2>4. DOMAIN r = {"pc", "tries"} /\ r.pc = to /\ r.tries = q.tries
    BY <1>1, <1>2, <2>2 DEF CallTyped
  <2>5. r.tries \in 0 .. MaxTries /\ r.tries < MaxTries
    BY <1>1, <1>2, <1>3, <2>4 DEF CallTyped
  <2>6. QED BY <1>1, <1>3, <2>3, <2>4, <2>5, CallOnly
<1>6. QED BY <1>4, <1>5

\* A charged call adds one to the bucket of its block, live or ended.
LEMMA SucceedSound ==
    ASSUME LlmInv, NEW c \in Completions, Llm!Succeed(c)
    PROVE  LlmInv'
<1>1. PICK b \in Blocks : b = CalledIn[c]
  BY CallAssumption
<1>2. /\ retry[c].pc = "calling" /\ retry' = [retry EXCEPT ![c].pc = "answered"]
      /\ paid' = paid \cup {c} /\ bucket' = [bucket EXCEPT ![b] = @ + 1] /\ blockState' = blockState
      /\ lost' = IF Llm!Ended(b) THEN lost + 1 ELSE lost
  BY <1>1 DEF Llm!Succeed, Llm!Step, Llm!Recorded
<1>3. PICK q, r : q = retry[c] /\ r = [q EXCEPT !.pc = "answered"]
  OBVIOUS
<1>4. DOMAIN retry = Completions /\ CallTyped(c) /\ bucket \in [Blocks -> Nat] /\ lost \in Nat
  BY DEF LlmInv, LlmTyped
<1>5. DOMAIN r = {"pc", "tries"} /\ r.pc = "answered" /\ r.tries = q.tries /\ q.tries \in 0 .. MaxTries
  BY <1>3, <1>4 DEF CallTyped
<1>6. DOMAIN retry' = Completions /\ retry'[c] = r /\ \A d \in Completions \ {c} : retry'[d] = retry[d]
  BY <1>2, <1>3, <1>4
<1>7. LlmTyped'
  <2>1. \A d \in Completions : CallTyped(d)'
    BY <1>5, <1>6 DEF LlmInv, LlmTyped, CallTyped
  <2>2. bucket' \in [Blocks -> Nat] /\ lost' \in Nat
    BY <1>2, <1>4
  <2>3. QED BY <1>2, <1>6, <2>1, <2>2 DEF LlmInv, LlmTyped
<1>8. Charged' /\ Nested' /\ Live' = Live
  <2>1. Charged'
    BY <1>2, <1>5, <1>6 DEF LlmInv, Charged
  <2>2. QED BY <1>2, <2>1 DEF LlmInv, Nested, Live, Llm!Ended
<1>9. Cardinality(paid') = Cardinality(paid) + 1 /\ Cardinality(paid) \in Nat
  <2>1. c \notin paid
    BY <1>2 DEF LlmInv, Charged
  <2>2. IsFiniteSet(paid)
    BY LlmFinite DEF LlmInv
  <2>3. QED BY <1>2, <2>1, <2>2, FS_AddElement, FS_CardinalityType
<1>10. IsFiniteSet(Live) /\ Live \subseteq Blocks /\ \A x \in Live : bucket[x] \in Nat /\ bucket'[x] \in Nat
  <2>1. IsFiniteSet(Live)
    BY LlmFinite DEF LlmInv
  <2>2. Live \subseteq Blocks
    BY DEF Live
  <2>3. QED BY <1>2, <1>4, <2>1, <2>2
<1>11. TokensCounted'
  <2>1. CASE b \in Live
    <3>1. PICK T : T = Live \ {b}
      OBVIOUS
    <3>2. IsFiniteSet(T) /\ \A x \in T : bucket[x] = bucket'[x]
      BY <1>2, <1>4, <1>10, <3>1, FS_Subset
    <3>3. Total(bucket, T) = Total(bucket', T)
      BY <3>2, TotalSame
    <3>4. Total(bucket, Live) = bucket[b] + Total(bucket, T) /\ Total(bucket, T) \in Nat
      BY <1>10, <2>1, <3>1, TotalPeel
    <3>5. Total(bucket', Live) = bucket'[b] + Total(bucket', T)
      BY <1>10, <2>1, <3>1, TotalPeel
    <3>6. bucket'[b] = bucket[b] + 1 /\ bucket[b] \in Nat /\ lost' = lost
      BY <1>2, <1>4, <2>1 DEF Live
    <3>7. Total(bucket, Live) + lost = Cardinality(paid)
      BY DEF LlmInv, TokensCounted
    <3>8. Total(bucket', Live) + lost' = Cardinality(paid')
      BY <1>4, <1>9, <3>3, <3>4, <3>5, <3>6, <3>7
    <3>9. QED BY <1>8, <3>8 DEF TokensCounted
  <2>2. CASE b \notin Live
    <3>1. \A x \in Live : bucket[x] = bucket'[x]
      BY <1>2, <1>4, <1>10, <2>2
    <3>2. Total(bucket, Live) = Total(bucket', Live)
      BY <1>10, <3>1, TotalSame
    <3>3. lost' = lost + 1
      BY <1>2, <2>2 DEF Live
    <3>4. Total(bucket, Live) + lost = Cardinality(paid)
      BY DEF LlmInv, TokensCounted
    <3>5. Total(bucket', Live) + lost' = Cardinality(paid')
      <4>1. Total(bucket, Live) \in Nat
        BY <1>10, TotalNat
      <4>2. QED BY <1>4, <1>9, <3>2, <3>3, <3>4, <4>1
    <3>6. QED BY <1>8, <3>5 DEF TokensCounted
  <2>3. QED BY <2>1, <2>2
<1>12. QED BY <1>7, <1>8, <1>11 DEF LlmInv

LEMMA EnterSound ==
    ASSUME LlmInv, NEW b \in Blocks, Llm!Enter(b)
    PROVE  LlmInv'
<1>1. /\ blockState[b] = "new" /\ blockState' = [blockState EXCEPT ![b] = "open"]
      /\ UNCHANGED <<bucket, retry, paid, lost>>
  BY DEF Llm!Enter
<1>2. ParentOf[b] # b
  BY <1>1 DEF Llm!Enter
<1>3. blockState \in [Blocks -> {"new", "open", "closed"}]
  BY DEF LlmInv, LlmTyped
<1>4. LlmTyped' /\ Charged'
  BY <1>1, <1>3 DEF LlmInv, LlmTyped, CallTyped, Charged
<1>5. Nested'
  BY <1>1, <1>2, <1>3 DEF LlmInv, Nested
<1>6. Live' = Live
  BY <1>1, <1>3 DEF Live, Llm!Ended
<1>7. TokensCounted'
  BY <1>1, <1>6 DEF LlmInv, TokensCounted
<1>8. QED BY <1>4, <1>5, <1>7 DEF LlmInv

\* A total moves into the bucket around, and is lost in one that has ended.
LEMMA LeaveSound ==
    ASSUME LlmInv, NEW b \in Blocks, Llm!Leave(b)
    PROVE  LlmInv'
<1>1. PICK p \in Blocks \cup {NoBlock} : p = ParentOf[b]
  BY CallAssumption
<1>2. /\ blockState[b] = "open" /\ blockState' = [blockState EXCEPT ![b] = "closed"]
      /\ UNCHANGED <<retry, paid>>
  BY DEF Llm!Leave
<1>3. /\ blockState \in [Blocks -> {"new", "open", "closed"}] /\ bucket \in [Blocks -> Nat] /\ lost \in Nat
      /\ p # b /\ b \in Live
  BY <1>1, <1>2 DEF LlmInv, LlmTyped, Nested, Live, Llm!Ended
<1>4. Nested' /\ Charged'
  BY <1>2, <1>3 DEF LlmInv, Nested, Charged
<1>5. CASE p = NoBlock
  <2>1. UNCHANGED <<bucket, lost>>
    BY <1>1, <1>5 DEF Llm!Leave
  <2>2. Live' = Live
    BY <1>1, <1>2, <1>3, <1>5 DEF Live, Llm!Ended
  <2>3. TokensCounted' /\ LlmTyped'
    BY <1>2, <1>3, <2>1, <2>2 DEF LlmInv, TokensCounted, LlmTyped, CallTyped
  <2>4. QED BY <1>4, <2>3 DEF LlmInv
<1>6. CASE p # NoBlock
  <2>1. /\ p \in Blocks /\ bucket' = [bucket EXCEPT ![p] = @ + bucket[b]]
        /\ lost' = IF Llm!Ended(p) THEN lost + bucket[b] ELSE lost
    BY <1>1, <1>6 DEF Llm!Leave, Llm!RolledUp
  <2>2. PICK T : T = Live \ {b}
    OBVIOUS
  <2>3. Live' = T
    BY <1>1, <1>2, <1>3, <1>6, <2>2 DEF Live, Llm!Ended
  <2>4. bucket' \in [Blocks -> Nat] /\ lost' \in Nat
    BY <1>3, <2>1
  <2>5. LlmTyped'
    BY <1>2, <1>3, <2>4 DEF LlmInv, LlmTyped, CallTyped
  <2>6. IsFiniteSet(Live) /\ IsFiniteSet(T) /\ T \subseteq Blocks /\ Live \subseteq Blocks
    <3>1. IsFiniteSet(Live)
      BY LlmFinite DEF LlmInv
    <3>2. QED BY <2>2, <3>1, FS_Subset DEF Live
  <2>7. \A x \in Live : bucket[x] \in Nat
    BY <1>3, <2>6
  <2>8. \A x \in T : bucket[x] \in Nat /\ bucket'[x] \in Nat
    BY <1>3, <2>4, <2>6
  <2>9. /\ Total(bucket, Live) = bucket[b] + Total(bucket, T)
        /\ Total(bucket, T) \in Nat /\ bucket[b] \in Nat
    BY <1>3, <2>2, <2>6, <2>7, TotalPeel
  <2>10. Total(bucket, Live) + lost = Cardinality(paid)
    BY DEF LlmInv, TokensCounted
  <2>11. Total(bucket', T) + lost' = Cardinality(paid)
    <3>1. CASE p \in Live
      <4>1. p \in T /\ lost' = lost
        BY <1>3, <2>1, <2>2, <3>1 DEF Live
      <4>2. PICK U : U = T \ {p}
        OBVIOUS
      <4>3. IsFiniteSet(U) /\ \A x \in U : bucket[x] = bucket'[x]
        BY <1>3, <2>1, <2>6, <4>2, FS_Subset
      <4>4. Total(bucket, U) = Total(bucket', U)
        BY <4>3, TotalSame
      <4>5. /\ Total(bucket, T) = bucket[p] + Total(bucket, U)
            /\ Total(bucket, U) \in Nat /\ bucket[p] \in Nat
        BY <2>6, <2>8, <4>1, <4>2, TotalPeel
      <4>6. Total(bucket', T) = bucket'[p] + Total(bucket', U)
        BY <2>6, <2>8, <4>1, <4>2, TotalPeel
      <4>7. bucket'[p] = bucket[p] + bucket[b]
        BY <1>3, <2>1
      <4>8. QED BY <1>3, <2>9, <2>10, <4>1, <4>4, <4>5, <4>6, <4>7
    <3>2. CASE p \notin Live
      <4>1. Llm!Ended(p) /\ \A x \in T : bucket[x] = bucket'[x]
        BY <1>3, <2>1, <2>2, <2>6, <3>2 DEF Live
      <4>2. Total(bucket, T) = Total(bucket', T)
        BY <2>6, <4>1, TotalSame
      <4>3. lost' = lost + bucket[b]
        BY <2>1, <4>1
      <4>4. QED BY <1>3, <2>9, <2>10, <4>2, <4>3
    <3>3. QED BY <3>1, <3>2
  <2>12. TokensCounted'
    BY <1>2, <2>3, <2>11 DEF TokensCounted
  <2>13. QED BY <1>4, <2>5, <2>12 DEF LlmInv
<1>7. QED BY <1>5, <1>6

LEMMA LlmStep ==
    ASSUME LlmInv, Llm!Next \/ UNCHANGED LlmVars
    PROVE  LlmInv'
<1>1. CASE UNCHANGED LlmVars
  <2>1. UNCHANGED <<blockState, bucket, retry, paid, lost>>
    BY <1>1 DEF LlmVars
  <2>2. LlmTyped' /\ Charged' /\ Nested' /\ Live' = Live
    BY <2>1 DEF LlmInv, LlmTyped, CallTyped, Charged, Nested, Live, Llm!Ended
  <2>3. TokensCounted'
    BY <2>1, <2>2 DEF LlmInv, TokensCounted
  <2>4. QED BY <2>2, <2>3 DEF LlmInv
<1>2. ASSUME NEW b \in Blocks, Llm!Enter(b) \/ Llm!Leave(b) PROVE LlmInv'
  BY <1>2, EnterSound, LeaveSound
<1>3. ASSUME NEW c \in Completions, Llm!Call(c) \/ Llm!Work(c) PROVE LlmInv'
  BY <1>3, CallSound, SucceedSound DEF Llm!Work
<1>4. QED BY <1>1, <1>2, <1>3 DEF Llm!Next

LEMMA LlmKept == AdminSpec => [](focus = "llm" => LlmInv)
<1>1. AdminInit => (focus = "llm" => LlmInv)
  BY LlmBegins, LlmInvInit
<1>2. (focus = "llm" => LlmInv) /\ [AdminNext]_adminVars => (focus = "llm" => LlmInv)'
  BY LlmMoves, LlmStep
<1>3. QED BY <1>1, <1>2, PTL DEF AdminSpec

LEMMA CallsCounted == LlmInv => Llm!CountedOnce
<1> SUFFICES ASSUME LlmInv PROVE Llm!CountedOnce
  OBVIOUS
<1>1. IsFiniteSet(Live) /\ IsFiniteSet(paid) /\ \A x \in Live : bucket[x] \in Nat
  <2>1. IsFiniteSet(Live) /\ IsFiniteSet(paid)
    BY LlmFinite DEF LlmInv
  <2>2. QED BY <2>1 DEF LlmInv, LlmTyped, Live
<1>2. Total(bucket, Live) \in Nat
  BY <1>1, TotalNat
<1>3. Cardinality(paid) \in Nat /\ lost \in Nat /\ Llm!Cardinality(paid) = Cardinality(paid)
  <2>1. Llm!Cardinality(paid) = Cardinality(paid)
    BY DEF Llm!Cardinality, Cardinality, Llm!IsFiniteSet, IsFiniteSet
  <2>2. QED BY <1>1, <2>1, FS_CardinalityType DEF LlmInv, LlmTyped
<1>4. Total(bucket, Live) = Llm!Cardinality(paid) - lost
  BY <1>2, <1>3 DEF LlmInv, TokensCounted
<1>5. QED BY <1>4 DEF Total, Live, Llm!CountedOnce

-----------------------------------------------------------------------------
(* No window holds more allowed requests than the limit                    *)
(* (middleware/rate_limiter.py), and every paid call is counted once, in   *)
(* the block it was made in (lib/litellm_retry.py).                        *)
THEOREM AccountsExact == AdminSpec => []AccountsAreExact
<1>1. (focus = "limiter" => LimiterInv) /\ (focus = "llm" => LlmInv) => AccountsAreExact
  BY WindowsHold, CallsCounted DEF AccountsAreExact
<1>2. QED BY <1>1, LimiterKept, LlmKept, PTL
=============================================================================
