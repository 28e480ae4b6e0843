------------------------------ MODULE Dashboard ------------------------------
(***************************************************************************)
(* The read path of the platform: the API's list of runs                   *)
(* (api/routes/runs.py), the client that reads it page by page             *)
(* (dashboard/api_client.py), and the cache that holds what was read       *)
(* (dashboard/app.py), over the database that Quality describes.           *)
(*                                                                         *)
(* Every page is a request and a statement of its own, so runs are         *)
(* published and evaluated between two pages.  The list is ordered by      *)
(* started_at, newest first: a run can be inserted anywhere in it.         *)
(***************************************************************************)
EXTENDS Quality, Sequences

CONSTANTS
    StartedAt,      \* started_at of a run
    PageSize,       \* the limit of one request
    MaxReadings     \* bound on the times the list is read

ASSUME DashboardAssumption ==
    /\ StartedAt \in [Runs -> Nat]
    /\ PageSize \in Nat \ {0}
    /\ MaxReadings \in Nat

VARIABLES
    view,           \* "empty", "reading" or "listed" (runs cached)
    offset,         \* offset of the next page
    items,          \* the runs read so far, or cached
    since,          \* history: the runs in the list when reading began
    readings        \* times the list was read

dashboard == <<view, offset, items, since, readings>>
vars == <<run_status, zones, results, counters, phase, job, evaluations, faults,
          view, offset, items, since, readings>>

Item == [run : Runs, status : {"running", "succeeded", "failed"}]

TypeOK ==
    /\ QualityTypeOK
    /\ view \in {"empty", "reading", "listed"}
    /\ offset \in Nat
    /\ items \in Seq(Item)
    /\ since \subseteq Runs
    /\ readings \in 0..MaxReadings

Init ==
    /\ QualityInit
    /\ view = "empty" /\ offset = 0 /\ items = <<>>
    /\ since = {} /\ readings = 0

-----------------------------------------------------------------------------
(* api/routes/runs.py.                                                      *)

Listed == {r \in Runs : run_status[r] # "absent"}

\* ORDER BY started_at DESC, run_id DESC.
Precedes(r, s) == \/ StartedAt[r] > StartedAt[s]
                  \/ StartedAt[r] = StartedAt[s] /\ r > s

Position(r) == Cardinality({s \in Listed : Precedes(s, r)})

\* The page is cut by the default limit of the route.
Page_Bug(from) ==
    LET shown == {r \in Listed : Position(r) >= from /\ Position(r) < from + PageSize - 1} IN
    [i \in 1..Cardinality(shown) |->
       LET r == CHOOSE x \in shown : Position(x) = from + i - 1 IN
       [run |-> r, status |-> run_status[r]]]

\* list_runs with LIMIT PageSize OFFSET from.
Page(from) ==
    LET shown == {r \in Listed : Position(r) >= from /\ Position(r) < from + PageSize} IN
    [i \in 1..Cardinality(shown) |->
       LET r == CHOOSE x \in shown : Position(x) = from + i - 1 IN
       [run |-> r, status |-> run_status[r]]]

-----------------------------------------------------------------------------
(* APIClient._all_pages, called when the list is not in the cache.          *)

StartReading ==
    /\ view = "empty"
    /\ readings < MaxReadings
    /\ readings' = readings + 1
    /\ view' = "reading"
    /\ offset' = 0
    /\ items' = <<>>
    /\ since' = Listed
    /\ UNCHANGED quality_vars

\* The next request starts one row early.
NextOffset_Bug == offset + PageSize - 1

NextOffset == offset + PageSize

ReadPage ==
    LET page == Page(offset) IN
    /\ view = "reading"
    /\ items' = items \o page
    /\ \/ Len(page) < PageSize /\ view' = "listed" /\ UNCHANGED offset
       \/ Len(page) >= PageSize /\ offset' = NextOffset /\ UNCHANGED view
    /\ UNCHANGED <<quality_vars, since, readings>>

\* The API cannot be reached: the exception leaves nothing in the cache.
ReadingFails ==
    /\ view = "reading"
    /\ view' = "empty" /\ items' = <<>> /\ offset' = 0 /\ since' = {}
    /\ UNCHANGED <<quality_vars, readings>>

\* The entries are older than their ttl, or the refresh button clears them.
Refresh ==
    /\ view = "listed"
    /\ view' = "empty" /\ items' = <<>> /\ offset' = 0 /\ since' = {}
    /\ UNCHANGED <<quality_vars, readings>>

DashboardStep == StartReading \/ ReadPage \/ ReadingFails \/ Refresh

Next == (QualityNext /\ UNCHANGED dashboard) \/ DashboardStep

Fairness == \A e \in Evaluators : WF_vars(EvaluatorStep(e) /\ UNCHANGED dashboard)

Spec == Init /\ [][Next]_vars /\ Fairness

-----------------------------------------------------------------------------
(* Properties.                                                              *)

RunsRead == {items[i].run : i \in DOMAIN items}

\* A complete list holds every run that was committed before reading began,
\* however many were inserted among its pages meanwhile (_all_pages).
NoRunIsMissed == view = "listed" => since \subseteq RunsRead

\* A run is read twice only because another one was inserted meanwhile, so the
\* overview's totals exceed the truth by at most the runs that have started.
RepeatsAreBounded == Len(items) - Cardinality(RunsRead) <= Cardinality(Listed \ since)
=============================================================================
