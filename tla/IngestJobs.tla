----------------------------- MODULE IngestJobs -----------------------------
(***************************************************************************)
(* The ingest requests that run in the process of the API: text, image,    *)
(* ready-made graphs, and text whose progress is broadcast to the          *)
(* WebSockets that watch the agent.  A broadcast sends to one socket after *)
(* the other, over a snapshot, while other jobs broadcast and sockets come *)
(* and go.                                                                 *)
(*                                                                         *)
(* Source: backend/app/api/v1/ingest.py, api/v1/ws.py,                     *)
(* services/ws_manager.py and connectors/upload_connector.py.              *)
(***************************************************************************)
EXTENDS Naturals, Sequences

CONSTANTS
    Jobs,               \* requests; each is made once
    Sockets,            \* each connects once
    MaxJobFaults        \* bound: failures of any step

VARIABLES
    kind,               \* "none", or what the request asks for
    stage,              \* its step
    sending,            \* sockets the current event is still to be sent to
    corpses,            \* sockets that failed in the current broadcast
    payload,            \* what was extracted and attached
    written,            \* jobs whose payload is in the graph
    connected,          \* sockets of the agent
    socket,             \* what the client of a socket does
    inbox,              \* events of each job that each client received
    emitted,            \* history: events each job began to send
    early,              \* history: jobs begun before the socket connected
    jobFaults

vars == <<kind, stage, sending, corpses, payload, written, connected, socket, inbox, emitted, early, jobFaults>>

Kinds    == {"text", "image", "graph", "stream"}
Tells    == {"extracting", "resolving", "writing", "node", "edge", "done", "error"}
Steps    == {"new", "extract", "resolve", "write", "answer"}
Ends     == {"ok", "failed", "cut"}

TypeOK ==
    /\ kind \in [Jobs -> Kinds \cup {"none"}] /\ stage \in [Jobs -> Steps \cup Tells \cup Ends]
    /\ sending \in [Jobs -> SUBSET Sockets] /\ corpses \in [Jobs -> SUBSET Sockets]
    /\ payload \in [Jobs -> SUBSET {"entities", "source"}]
    /\ written \subseteq Jobs /\ connected \subseteq Sockets
    /\ socket \in [Sockets -> {"away", "on", "gone"}]
    /\ \A w \in Sockets, j \in Jobs : inbox[w][j] \in Seq(Tells)
    /\ \A j \in Jobs : emitted[j] \in Seq(Tells)
    /\ early \in [Sockets -> SUBSET Jobs]
    /\ jobFaults \in 0 .. MaxJobFaults

Init ==
    /\ kind = [j \in Jobs |-> "none"] /\ stage = [j \in Jobs |-> "new"]
    /\ sending = [j \in Jobs |-> {}] /\ corpses = [j \in Jobs |-> {}]
    /\ payload = [j \in Jobs |-> {}] /\ written = {} /\ connected = {}
    /\ socket = [w \in Sockets |-> "away"]
    /\ inbox = [w \in Sockets |-> [j \in Jobs |-> <<>>]] /\ emitted = [j \in Jobs |-> <<>>]
    /\ early = [w \in Sockets |-> {}]
    /\ jobFaults = 0

\* To the next step; an event is broadcast to the sockets of that moment.
Goto(j, at) ==
    /\ stage' = [stage EXCEPT ![j] = at]
    /\ sending' = [sending EXCEPT ![j] = IF at \in Tells THEN connected' ELSE {}]
    /\ emitted' = [emitted EXCEPT ![j] = IF at \in Tells THEN Append(@, at) ELSE @]
Fault == jobFaults < MaxJobFaults /\ jobFaults' = jobFaults + 1

-----------------------------------------------------------------------------
\* websocket_endpoint.
Connect(w) ==
    /\ socket[w] = "away" /\ socket' = [socket EXCEPT ![w] = "on"]
    /\ connected' = connected \cup {w}
    /\ early' = [early EXCEPT ![w] = {j \in Jobs : kind[j] # "none"}]
    /\ UNCHANGED <<kind, stage, sending, corpses, payload, written, inbox, emitted, jobFaults>>

Leave(w) ==
    /\ socket[w] = "on" /\ socket' = [socket EXCEPT ![w] = "gone"]
    /\ UNCHANGED <<kind, stage, sending, corpses, payload, written, connected, inbox, emitted, early, jobFaults>>

\* The receive loop ends with WebSocketDisconnect.
Disconnect(w) ==
    /\ socket[w] = "gone" /\ w \in connected
    /\ connected' = connected \ {w}
    /\ UNCHANGED <<kind, stage, sending, corpses, payload, written, socket, inbox, emitted, early, jobFaults>>

-----------------------------------------------------------------------------
Begin(j, k) ==
    /\ stage[j] = "new" /\ kind' = [kind EXCEPT ![j] = k]
    /\ UNCHANGED connected
    /\ Goto(j, CASE k = "stream" -> "extracting" [] k = "graph" -> "resolve" [] OTHER -> "extract")
    /\ UNCHANGED <<corpses, payload, written, socket, inbox, early, jobFaults>>

\* What follows a step that succeeded.
FollowsEarly(j) ==
    CASE stage[j] = "extracting" -> "extract"
      [] stage[j] = "extract"    -> IF kind[j] = "stream" THEN "resolving" ELSE "resolve"
      [] stage[j] = "resolving"  -> "resolve"
      [] stage[j] = "resolve"    -> IF kind[j] = "stream" THEN "node" ELSE "write"
      [] stage[j] = "node"       -> "edge"
      [] stage[j] = "edge"       -> "done"
      [] stage[j] = "done"       -> "write"
      [] stage[j] = "write"      -> "answer"
      [] stage[j] = "answer"     -> "ok"
      [] stage[j] = "error"      -> "failed"
Follows(j) ==
    CASE stage[j] = "extracting" -> "extract"
      [] stage[j] = "extract"    -> IF kind[j] = "stream" THEN "resolving" ELSE "resolve"
      [] stage[j] = "resolving"  -> "resolve"
      [] stage[j] = "resolve"    -> IF kind[j] = "stream" THEN "writing" ELSE "write"
      [] stage[j] = "writing"    -> "write"
      [] stage[j] = "write"      -> IF kind[j] = "stream" THEN "node" ELSE "answer"
      [] stage[j] = "node"       -> "edge"
      [] stage[j] = "edge"       -> "done"
      [] stage[j] = "done"       -> "ok"
      [] stage[j] = "answer"     -> "ok"
      [] stage[j] = "error"      -> "failed"

\* A FACT or an IMAGE node keeps what was ingested, whatever was extracted.
AttachedToFound(j, found) == IF kind[j] \in {"text", "image"} /\ found # {} THEN {"source"} ELSE {}
Attached(j, found)        == IF kind[j] \in {"text", "image"} THEN {"source"} ELSE {}

Extract(j) ==
    /\ stage[j] = "extract" /\ UNCHANGED connected /\ Goto(j, Follows(j))
    /\ \E found \in SUBSET {"entities"} :
          payload' = [payload EXCEPT ![j] = found \cup Attached(j, found)]
    /\ UNCHANGED <<kind, corpses, written, socket, inbox, early, jobFaults>>

Resolve(j) ==
    /\ stage[j] = "resolve" /\ UNCHANGED connected /\ Goto(j, Follows(j))
    /\ UNCHANGED <<kind, corpses, payload, written, socket, inbox, early, jobFaults>>

Write(j) ==
    /\ stage[j] = "write" /\ UNCHANGED connected /\ Goto(j, Follows(j))
    /\ written' = written \cup {j}
    /\ UNCHANGED <<kind, corpses, payload, socket, inbox, early, jobFaults>>

\* After the write the supersession and replay tasks are started and left alone.
Answer(j) ==
    /\ stage[j] = "answer" /\ UNCHANGED connected /\ Goto(j, Follows(j))
    /\ UNCHANGED <<kind, corpses, payload, written, socket, inbox, early, jobFaults>>

\* Any step may fail; a write may have happened, in part or whole, all the same.
Fail(j) ==
    /\ stage[j] \in {"extract", "resolve", "write", "answer"} /\ Fault
    /\ UNCHANGED connected
    /\ Goto(j, IF kind[j] = "stream" THEN "error" ELSE "failed")
    /\ written' \in IF stage[j] = "write" THEN {written, written \cup {j}} ELSE {written}
    /\ UNCHANGED <<kind, corpses, payload, socket, inbox, early>>

\* The process stops: background tasks and requests end where they are, and
\* every socket is closed.
Cut ==
    /\ Fault
    /\ \E j \in Jobs : stage[j] \notin {"new"} \cup Ends
    /\ stage' = [j \in Jobs |-> IF stage[j] \in {"new"} \cup Ends THEN stage[j] ELSE "cut"]
    /\ sending' = [j \in Jobs |-> {}] /\ corpses' = [j \in Jobs |-> {}]
    /\ connected' = {}
    /\ socket' = [w \in Sockets |-> IF socket[w] = "on" THEN "gone" ELSE socket[w]]
    /\ UNCHANGED <<kind, payload, written, inbox, emitted, early>>

-----------------------------------------------------------------------------
Send(j, w) ==
    /\ w \in sending[j] /\ socket[w] = "on"
    /\ inbox' = [inbox EXCEPT ![w][j] = Append(@, stage[j])]
    /\ sending' = [sending EXCEPT ![j] = @ \ {w}]
    /\ UNCHANGED <<kind, stage, corpses, payload, written, connected, socket, emitted, early, jobFaults>>

StillToSendNone(j, w) == {}
StillToSend(j, w)     == sending[j] \ {w}

\* A failed send is remembered, and the loop goes on.
SendFails(j, w) ==
    /\ w \in sending[j] /\ socket[w] = "gone"
    /\ sending' = [sending EXCEPT ![j] = StillToSend(j, w)]
    /\ corpses' = [corpses EXCEPT ![j] = @ \cup {w}]
    /\ UNCHANGED <<kind, stage, payload, written, connected, socket, inbox, emitted, early, jobFaults>>

EndBroadcastKept(j) == stage[j] \in Tells /\ sending[j] = {} /\ corpses[j] = {}
EndBroadcastOf(j)   == stage[j] \in Tells /\ sending[j] = {}

EndBroadcast(j) ==
    /\ EndBroadcastOf(j)
    /\ connected' = connected \ corpses[j]
    /\ corpses' = [corpses EXCEPT ![j] = {}]
    /\ Goto(j, Follows(j))
    /\ UNCHANGED <<kind, payload, written, socket, inbox, early, jobFaults>>

Progress(j) ==
    \/ Extract(j) \/ Resolve(j) \/ Write(j) \/ Answer(j) \/ EndBroadcast(j)
    \/ \E w \in Sockets : Send(j, w) \/ SendFails(j, w)

Next ==
    \/ \E w \in Sockets : Connect(w) \/ Leave(w) \/ Disconnect(w)
    \/ \E j \in Jobs : Progress(j) \/ Fail(j) \/ \E k \in Kinds : Begin(j, k)
    \/ Cut

-----------------------------------------------------------------------------
(* A client that stays connected receives every event of a job begun since,*)
(* once and in order, whatever other sockets fail or come and go meanwhile.*)
WatcherSeesJob ==
    \A w \in Sockets, j \in Jobs :
        socket[w] = "on" /\ j \notin early[w] =>
            emitted[j] = inbox[w][j] \o (IF w \in sending[j] THEN <<stage[j]>> ELSE <<>>)

(* "done" and a success answer are given only for what is in the graph, and a *)
(* job announces one end: nothing follows its "done" or "error".           *)
EndIsTrue ==
    \A j \in Jobs :
        /\ stage[j] = "ok" => j \in written
        /\ \A n \in DOMAIN emitted[j] :
              /\ emitted[j][n] = "done" => j \in written
              /\ emitted[j][n] \in {"done", "error"} => n = Len(emitted[j])

(* What a text or image request ingested is found in the graph after its   *)
(* success answer, also when the extraction found no entity in it.         *)
SourceIsKept ==
    \A j \in Jobs : stage[j] = "ok" /\ kind[j] \in {"text", "image"} =>
        j \in written /\ "source" \in payload[j]

(* Every job comes to an end, also while its watchers disappear.           *)
JobEnds == \A j \in Jobs : stage[j] # "new" ~> stage[j] \in Ends
=============================================================================
