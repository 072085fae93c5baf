------------------------------ MODULE SqlPages ------------------------------
(***************************************************************************)
(* The SQL connector reads a query page by page, ordered by a cursor       *)
(* column, and keeps the cursor of the last row it could turn into a       *)
(* record.  The run state has one cursor per agent, whatever the query.    *)
(*                                                                         *)
(* Source: backend/app/connectors/sql_connector.py and ingest_sql of       *)
(* backend/app/api/v1/ingest.py.                                           *)
(***************************************************************************)
EXTENDS Naturals, FiniteSets, Sequences

CONSTANTS
    MaxRows,            \* bound: rows
    Queries, NoQueryYet,
    MaxKey,             \* cursor values are 1 .. MaxKey
    BatchSize,
    MaxRuns             \* bound: requests

VARIABLES
    rowOf,              \* every row: its query, its key, whether it can be read
    present,            \* rows that exist
    storedKey,          \* the cursor of the run state; 0 is none
    reading,            \* the query of the running request
    at,                 \* its cursor
    page,               \* rows of the page it has not looked at
    inPage,             \* rows the page had
    yielded,            \* rows it yielded, in order
    everYielded,        \* history: rows ever yielded
    late,               \* history: rows inserted at or below a cursor already passed
    used,               \* history: queries the agent has run
    runs

vars == <<rowOf, present, storedKey, reading, at, page, inPage, yielded, everYielded, late, used, runs>>

Rows == 1 .. MaxRows
Keys == 1 .. MaxKey

TypeOK ==
    /\ rowOf \in [Rows -> [query : Queries, key : Keys, good : BOOLEAN]]
    /\ present \subseteq Rows /\ everYielded \subseteq Rows /\ late \subseteq Rows
    /\ storedKey \in 0 .. MaxKey /\ at \in 0 .. MaxKey
    /\ reading \in Queries \cup {NoQueryYet}
    /\ page \in UNION {[1 .. n -> Rows] : n \in 0 .. BatchSize} /\ inPage \in 0 .. BatchSize
    /\ yielded \in UNION {[1 .. n -> Rows] : n \in 0 .. Cardinality(Rows)}
    /\ used \subseteq Queries /\ runs \in 0 .. MaxRuns

Init ==
    /\ rowOf \in [Rows -> [query : Queries, key : Keys, good : BOOLEAN]]
    /\ \A r \in Rows \ {1} : rowOf[r - 1].key <= rowOf[r].key
    /\ present \in SUBSET Rows
    /\ storedKey = 0 /\ at = 0 /\ reading = NoQueryYet
    /\ page = <<>> /\ inPage = BatchSize /\ yielded = <<>>
    /\ everYielded = {} /\ late = {} /\ used = {} /\ runs = 0

Key(r)     == rowOf[r].key
AfterFrom(k) == {r \in present : rowOf[r].query = reading /\ Key(r) >= k}
After(k)     == {r \in present : rowOf[r].query = reading /\ Key(r) > k}
Sorted(p)    == \A i, j \in DOMAIN p : i < j => Key(p[i]) <= Key(p[j]) /\ p[i] # p[j]
Reached      == {storedKey, at} \cup {Key(page[i]) : i \in DOMAIN page}

-----------------------------------------------------------------------------
\* Another program writes a row, not necessarily with the highest key.
Insert(r) ==
    /\ r \notin present /\ present' = present \cup {r}
    /\ late' = IF \E k \in Reached : Key(r) <= k THEN late \cup {r} ELSE late
    /\ UNCHANGED <<rowOf, storedKey, reading, at, page, inPage, yielded, everYielded, used, runs>>

\* The explicit cursor, then the stored one, then the sentinel.
Begin(q, explicit) ==
    /\ reading = NoQueryYet /\ runs < MaxRuns /\ runs' = runs + 1
    /\ reading' = q /\ used' = used \cup {q}
    /\ at' = IF explicit THEN 0 ELSE storedKey
    /\ page' = <<>> /\ inPage' = BatchSize /\ yielded' = <<>>
    /\ UNCHANGED <<rowOf, present, storedKey, everYielded, late>>

OrderedAny(p) == \A i, j \in DOMAIN p : i # j => p[i] # p[j]
Ordered(p)    == Sorted(p)

\* WHERE key > cursor ORDER BY key LIMIT size, while the last page was full.
Fetch ==
    /\ reading # NoQueryYet /\ page = <<>> /\ inPage >= BatchSize
    /\ LET n == IF Cardinality(After(at)) < BatchSize THEN Cardinality(After(at)) ELSE BatchSize IN
          /\ inPage' = n
          /\ page' \in {p \in [1 .. n -> After(at)] :
                /\ Ordered(p)
                /\ \A r \in After(at), i \in 1 .. n : Key(r) >= Key(p[i]) \/ \E j \in 1 .. n : p[j] = r}
    /\ UNCHANGED <<rowOf, present, storedKey, reading, at, yielded, everYielded, late, used, runs>>

\* An unreadable row is logged and passed over, without moving the cursor.
Row ==
    /\ page # <<>> /\ page' = Tail(page)
    /\ LET r == Head(page) IN
          /\ at' = IF rowOf[r].good THEN Key(r) ELSE at
          /\ storedKey' = IF rowOf[r].good THEN Key(r) ELSE storedKey
          /\ yielded' = IF rowOf[r].good THEN Append(yielded, r) ELSE yielded
          /\ everYielded' = IF rowOf[r].good THEN everYielded \cup {r} ELSE everYielded
    /\ UNCHANGED <<rowOf, present, reading, inPage, late, used, runs>>

\* The last page was not full; the run state is saved, the records ingested.
End ==
    /\ reading # NoQueryYet /\ page = <<>> /\ inPage < BatchSize
    /\ reading' = NoQueryYet /\ page' = <<>> /\ inPage' = BatchSize
    /\ UNCHANGED <<rowOf, present, storedKey, at, yielded, everYielded, late, used, runs>>

\* The connection breaks: the request fails with the cursor already moved.
Break ==
    /\ reading # NoQueryYet /\ reading' = NoQueryYet
    /\ page' = <<>> /\ inPage' = 0
    /\ UNCHANGED <<rowOf, present, storedKey, at, yielded, everYielded, late, used, runs>>

Next ==
    \/ \E r \in Rows : Insert(r)
    \/ \E q \in Queries, explicit \in BOOLEAN : Begin(q, explicit)
    \/ Fetch \/ Row \/ End \/ Break

-----------------------------------------------------------------------------
Unique(r) == \A s \in Rows \ {r} : rowOf[s].query = rowOf[r].query => Key(s) # Key(r)

(* Whatever the pages look like, a run yields no row twice and keeps the   *)
(* order of the cursor, also when rows are inserted or unreadable between  *)
(* pages.                                                                  *)
PagesDoNotRepeat == Sorted(yielded)

(* The stored cursor never passes a readable row that was not yielded, if the *)
(* agent uses one query, keys are unique, and the row was not inserted behind *)
(* the cursor: also when a page ends in unreadable rows or a run breaks.   *)
CursorPassesNothing ==
    \A r \in present \ late :
        rowOf[r].good /\ used = {rowOf[r].query} /\ Unique(r) /\ Key(r) <= storedKey
           => r \in everYielded
=============================================================================
