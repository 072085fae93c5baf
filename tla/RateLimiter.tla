---------------------------- MODULE RateLimiter -----------------------------
(***************************************************************************)
(* The sliding window of one client: a request reads the clock, then one   *)
(* pipeline drops what has left the window, counts the rest and adds the   *)
(* request, admitted or not, as a member named by its clock reading.       *)
(*                                                                         *)
(* Source: backend/app/middleware/rate_limiter.py.  Redis runs a pipeline  *)
(* of one client after the other; requests wait for it in any order.       *)
(***************************************************************************)
EXTENDS Integers, FiniteSets

CONSTANTS
    Arrivals,             \* requests of one client
    Limit, WindowSize,    \* limit, window_seconds
    MaxTime,        \* bound: clock readings
    MaxDown         \* bound: requests that find Redis down

VARIABLES
    moment,
    stamp,          \* clock reading of a request, -1 before it has come
    verdict,        \* "none", "allowed", "refused", "open" (Redis was down)
    members,        \* members of the sorted set: clock readings
    retryAt,        \* reset_at a refused request was told
    blurred,        \* history: two requests were one member, or ran out of order
    down

vars == <<moment, stamp, verdict, members, retryAt, blurred, down>>

TypeOK ==
    /\ moment \in 0 .. MaxTime /\ stamp \in [Arrivals -> -1 .. MaxTime]
    /\ verdict \in [Arrivals -> {"none", "allowed", "refused", "open"}]
    /\ members \subseteq 0 .. MaxTime /\ retryAt \in [Arrivals -> 0 .. MaxTime + WindowSize]
    /\ blurred \in BOOLEAN /\ down \in 0 .. MaxDown

Init ==
    /\ moment = 0 /\ stamp = [h \in Arrivals |-> -1] /\ verdict = [h \in Arrivals |-> "none"]
    /\ members = {} /\ retryAt = [h \in Arrivals |-> 0] /\ blurred = FALSE /\ down = 0

Tick == moment < MaxTime /\ moment' = moment + 1 /\ UNCHANGED <<stamp, verdict, members, retryAt, blurred, down>>

Arrive(h) ==
    /\ stamp[h] = -1 /\ stamp' = [stamp EXCEPT ![h] = moment]
    /\ UNCHANGED <<moment, verdict, members, retryAt, blurred, down>>

-----------------------------------------------------------------------------
Waiting(h)  == stamp[h] # -1 /\ verdict[h] = "none"
InWindow(h) == {t \in members : t > stamp[h] - WindowSize}

FullBeyond(count) == count > Limit
Full(count)       == count >= Limit

\* The count is of the members before the request; the reset time is that of
\* the oldest member, refused requests included.
Oldest(h) == LET all == InWindow(h) \cup {stamp[h]} IN CHOOSE t \in all : \A u \in all : t <= u

Enters(h) ==
    /\ members' = InWindow(h) \cup {stamp[h]}
    /\ blurred' = (blurred \/ \E t \in members : t >= stamp[h])

Decide(h) ==
    /\ Waiting(h) /\ Enters(h)
    /\ IF Full(Cardinality(InWindow(h)))
       THEN verdict' = [verdict EXCEPT ![h] = "refused"] /\ retryAt' = [retryAt EXCEPT ![h] = Oldest(h) + WindowSize]
       ELSE verdict' = [verdict EXCEPT ![h] = "allowed"] /\ UNCHANGED retryAt
    /\ UNCHANGED <<moment, stamp, down>>

\* Redis does not answer: the request goes through.  Its pipeline may have run,
\* with the answer to it, or to the ZRANGE of a refused request, lost.
LetThrough(h) ==
    /\ Waiting(h) /\ down < MaxDown /\ down' = down + 1
    /\ Enters(h) \/ UNCHANGED <<members, blurred>>
    /\ verdict' = [verdict EXCEPT ![h] = "open"]
    /\ UNCHANGED <<moment, stamp, retryAt>>

Next == Tick \/ \E h \in Arrivals : Arrive(h) \/ Decide(h) \/ LetThrough(h)

-----------------------------------------------------------------------------
(* No window holds more than Limit admitted requests, apart from those that*)
(* went through with Redis down, as long as no two requests had the same   *)
(* clock reading and they reached Redis in the order of their readings: two*)
(* readings that are equal are one member, and a late request drops less.  *)
WithinLimit ==
    blurred \/ \A t \in 0 .. MaxTime :
        Cardinality({h \in Arrivals : verdict[h] = "allowed" /\ t - WindowSize < stamp[h] /\ stamp[h] <= t}) <= Limit
=============================================================================
