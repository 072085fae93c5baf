------------------------------ MODULE SwarmLog ------------------------------
(***************************************************************************)
(* The live log: workers publish events on a Redis channel, and every      *)
(* browser tab holds a generator that races one pending read of its own    *)
(* subscription against a heartbeat.  The read is an asynchronous          *)
(* generator too: cancelling it closes the subscription.                   *)
(*                                                                         *)
(* Source: backend/app/services/redis_service.py (publish and subscribe)   *)
(* and stream_swarm_events of backend/app/api/v1/swarm.py.                 *)
(***************************************************************************)
EXTENDS Naturals, Sequences

CONSTANTS
    Tabs,
    MaxEvents,      \* bound: events published
    MaxDrops        \* bound: lost Redis connections

VARIABLES
    published,      \* events are numbered as they are published
    gen,            \* where the generator of a tab stands
    read,           \* its read task
    sub,            \* whether the subscription is open at the server
    buffer,         \* events received for the subscription, not yet read
    item,           \* the event the finished read holds (0: none)
    sent,           \* events written to the tab
    since,          \* events published before the subscription was opened
    opened,         \* tabs whose subscription was opened
    gone,           \* tabs whose client has left
    lossy,          \* tabs whose connection to Redis was lost once
    drops

vars == <<published, gen, read, sub, buffer, item, sent, since, opened, gone, lossy, drops>>

Stages  == {"off", "greeted", "mute", "check", "racing", "yielded", "closing", "settled", "done"}
Reads   == {"none", "start", "poll", "done", "failed"}
Events  == 1 .. MaxEvents
EventSeqs == UNION {[1 .. n -> Events] : n \in 0 .. MaxEvents}

TypeOK ==
    /\ published \in 0 .. MaxEvents
    /\ gen \in [Tabs -> Stages] /\ read \in [Tabs -> Reads]
    /\ sub \subseteq Tabs /\ gone \subseteq Tabs /\ opened \subseteq Tabs /\ lossy \subseteq Tabs
    /\ buffer \in [Tabs -> EventSeqs] /\ sent \in [Tabs -> EventSeqs]
    /\ item \in [Tabs -> 0 .. MaxEvents] /\ since \in [Tabs -> 0 .. MaxEvents]
    /\ drops \in 0 .. MaxDrops

Init ==
    /\ published = 0 /\ drops = 0
    /\ gen = [t \in Tabs |-> "off"] /\ read = [t \in Tabs |-> "none"]
    /\ sub = {} /\ opened = {} /\ gone = {} /\ lossy = {}
    /\ buffer = [t \in Tabs |-> <<>>] /\ sent = [t \in Tabs |-> <<>>]
    /\ item = [t \in Tabs |-> 0] /\ since = [t \in Tabs |-> 0]

Goto(t, at) == gen' = [gen EXCEPT ![t] = at]
Task(t, r)  == read' = [read EXCEPT ![t] = r]

-----------------------------------------------------------------------------
\* publish_swarm_log: to whoever is subscribed; an error drops the event.
Publish ==
    /\ published < MaxEvents
    /\ published' = published + 1
    /\ buffer' = [t \in Tabs |-> IF t \in sub THEN Append(buffer[t], published + 1) ELSE buffer[t]]
    /\ UNCHANGED <<gen, read, sub, item, sent, since, opened, gone, lossy, drops>>

\* A tab connects and leaves.
Connect(t) ==
    /\ gen[t] = "off" /\ Goto(t, "greeted")
    /\ UNCHANGED <<published, read, sub, buffer, item, sent, since, opened, gone, lossy, drops>>

Leave(t) ==
    /\ gen[t] \notin {"off", "done"} /\ t \notin gone
    /\ gone' = gone \cup {t}
    /\ UNCHANGED <<published, gen, read, sub, buffer, item, sent, since, opened, lossy, drops>>

-----------------------------------------------------------------------------
(* The read task: subscribe_to_swarm_logs.  A poll that times out goes     *)
(* round its loop and changes nothing.                                     *)

Subscribe(t) ==
    /\ read[t] = "start" /\ Task(t, "poll")
    /\ sub' = sub \cup {t} /\ opened' = opened \cup {t}
    /\ since' = [since EXCEPT ![t] = published]
    /\ UNCHANGED <<published, gen, buffer, item, sent, gone, lossy, drops>>

SubscribeError(t) ==
    /\ read[t] = "start" /\ Task(t, "failed")
    /\ UNCHANGED <<published, gen, sub, buffer, item, sent, since, opened, gone, lossy, drops>>

Poll(t) ==
    /\ read[t] = "poll" /\ buffer[t] # <<>> /\ Task(t, "done")
    /\ item' = [item EXCEPT ![t] = Head(buffer[t])]
    /\ buffer' = [buffer EXCEPT ![t] = Tail(@)]
    /\ UNCHANGED <<published, gen, sub, sent, since, opened, gone, lossy, drops>>

\* The poll's ConnectionError is taken for a timeout: the subscription is
\* opened again by a later poll, and what was published meanwhile is lost.
ConnectionLost(t) ==
    /\ t \in sub /\ drops < MaxDrops
    /\ drops' = drops + 1
    /\ sub' = sub \ {t} /\ lossy' = lossy \cup {t}
    /\ buffer' = [buffer EXCEPT ![t] = <<>>]
    /\ UNCHANGED <<published, gen, read, item, sent, since, opened, gone>>

Resubscribe(t) ==
    /\ read[t] = "poll" /\ t \notin sub
    /\ sub' = sub \cup {t}
    /\ UNCHANGED <<published, gen, read, buffer, item, sent, since, opened, gone, lossy, drops>>

-----------------------------------------------------------------------------
(* The generator of the response: _event_generator.                        *)

\* After the connect frame; without Redis the stream has heartbeats only.
Start(t) ==
    /\ gen[t] = "greeted"
    /\ \/ Goto(t, "check") /\ Task(t, "start")
       \/ Goto(t, "mute") /\ UNCHANGED read
    /\ UNCHANGED <<published, sub, buffer, item, sent, since, opened, gone, lossy, drops>>

MuteEnd(t) ==
    /\ gen[t] = "mute" /\ t \in gone /\ Goto(t, "done")
    /\ UNCHANGED <<published, read, sub, buffer, item, sent, since, opened, gone, lossy, drops>>

AfterCheckUnaware(t) == "racing"
AfterCheck(t)        == IF t \in gone THEN "closing" ELSE "racing"

Check(t) ==
    /\ gen[t] = "check" /\ Goto(t, AfterCheck(t))
    /\ UNCHANGED <<published, read, sub, buffer, item, sent, since, opened, gone, lossy, drops>>

HeartbeatCancels(t) ==
    /\ gen[t] = "racing" /\ read[t] \in {"none", "start", "poll"}
    /\ Goto(t, "check") /\ Task(t, "failed")
    /\ sub' = sub \ {t} /\ buffer' = [buffer EXCEPT ![t] = <<>>]
    /\ UNCHANGED <<published, item, sent, since, opened, gone, lossy, drops>>

\* asyncio.wait leaves the pending read alone when the heartbeat is due.
Heartbeat(t) ==
    /\ gen[t] = "racing" /\ read[t] \in {"none", "start", "poll"}
    /\ Goto(t, "check")
    /\ UNCHANGED <<published, read, sub, buffer, item, sent, since, opened, gone, lossy, drops>>

Send(t) ==
    /\ gen[t] = "racing" /\ read[t] = "done" /\ Goto(t, "yielded")
    /\ sent' = [sent EXCEPT ![t] = Append(@, item[t])]
    /\ item' = [item EXCEPT ![t] = 0]
    /\ UNCHANGED <<published, read, sub, buffer, since, opened, gone, lossy, drops>>

NextReadForgotten == "none"
NextRead          == "poll"

\* Only after the frame was taken does the next read begin.
Resume(t) ==
    /\ gen[t] = "yielded" /\ Goto(t, "check") /\ Task(t, NextRead)
    /\ UNCHANGED <<published, sub, buffer, item, sent, since, opened, gone, lossy, drops>>

ReadFailed(t) ==
    /\ gen[t] = "racing" /\ read[t] = "failed" /\ Goto(t, "closing")
    /\ UNCHANGED <<published, read, sub, buffer, item, sent, since, opened, gone, lossy, drops>>

\* The response is cancelled when the client has left, wherever it stands.
Cancelled(t) ==
    /\ t \in gone /\ gen[t] \in {"greeted", "check", "racing", "yielded"}
    /\ Goto(t, IF gen[t] = "greeted" THEN "done" ELSE "closing")
    /\ UNCHANGED <<published, read, sub, buffer, item, sent, since, opened, gone, lossy, drops>>

\* The finally block: a pending read is cancelled and closes its subscription
\* as it unwinds ...
CancelRead(t) ==
    /\ gen[t] = "closing" /\ Goto(t, "settled")
    /\ IF read[t] \in {"start", "poll"}
       THEN /\ Task(t, "failed")
            /\ sub' = sub \ {t} /\ buffer' = [buffer EXCEPT ![t] = <<>>]
       ELSE UNCHANGED <<read, sub, buffer>>
    /\ UNCHANGED <<published, item, sent, since, opened, gone, lossy, drops>>

\* ... and aclose() does so for a read that had finished.
ClosedNot(t) == {}
Closed(t)    == {t}

CloseReader(t) ==
    /\ gen[t] = "settled" /\ Goto(t, "done")
    /\ sub' = sub \ Closed(t)
    /\ buffer' = [buffer EXCEPT ![t] = <<>>]
    /\ UNCHANGED <<published, read, item, sent, since, opened, gone, lossy, drops>>

Reader(t)    == Subscribe(t) \/ Poll(t) \/ Resubscribe(t)
Generator(t) ==
    \/ Start(t) \/ MuteEnd(t) \/ Check(t) \/ Heartbeat(t) \/ Send(t) \/ Resume(t)
    \/ ReadFailed(t) \/ CancelRead(t) \/ CloseReader(t)

Next ==
    \/ Publish
    \/ \E t \in Tabs :
          \/ Connect(t) \/ Leave(t) \/ Reader(t) \/ Generator(t)
          \/ SubscribeError(t) \/ ConnectionLost(t) \/ Cancelled(t)

-----------------------------------------------------------------------------
Received(t)  == sent[t] \o (IF item[t] = 0 THEN <<>> ELSE <<item[t]>>) \o buffer[t]

(* Once its subscription is open, every event published has been written to*)
(* the tab, or is on its way, exactly once and in order, and the subscription *)
(* stays: no heartbeat of a quiet channel ends the stream or costs an event. *)
(* (Unless the client left or the connection to Redis was lost.)           *)
NothingMissed ==
    \A t \in opened \ (gone \cup lossy) :
        t \in sub /\ Received(t) = [n \in 1 .. published - since[t] |-> since[t] + n]

(* A response that has ended has closed its subscription, whatever stage its *)
(* read was in: none stays open for a tab that is gone.                    *)
EndedIsUnsubscribed == \A t \in Tabs : gen[t] = "done" => t \notin sub

(* A client that leaves is noticed within a heartbeat, on a quiet channel  *)
(* too, and its generator ends.                                            *)
LeavingIsNoticed == \A t \in Tabs : t \in gone ~> gen[t] = "done"

(* An event received for a tab is written to it, however long the channel  *)
(* was quiet before it.                                                    *)
EventReachesTab ==
    \A t \in Tabs, e \in Events :
        (buffer[t] # <<>> /\ Head(buffer[t]) = e)
            ~> (t \in gone \cup lossy \/ \E n \in DOMAIN sent[t] : sent[t][n] = e)
=============================================================================
