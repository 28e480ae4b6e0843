------------------------------ MODULE Warehouse ------------------------------
(***************************************************************************)
(* One dbt build (orchestration.run_dbt_build, dbt/taxi_analytics) over    *)
(* the source versions that ingestion registers and loads meanwhile, and   *)
(* what the analytics routes of the API read from its tables.              *)
(*                                                                         *)
(* status is the projection of SourceLedger on the status of a version;    *)
(* the rows of a version come and stay with its being loaded.  Staging and *)
(* intermediate models are views: a model or test that reads them sees the *)
(* versions loaded when its statement runs.  dbt runs the tests of a model *)
(* before the models built on it, and skips those when a test fails.       *)
(* dim_zone and dim_date depend on different views and are built in any    *)
(* order (two threads).                                                    *)
(*                                                                         *)
(* The trips of a partition have the dates of its month, none of them null,*)
(* and the versions of one partition have the same dates.                  *)
(***************************************************************************)
EXTENDS Integers, FiniteSets, FiniteSetsExt

CONSTANTS
    Versions,       \* source_file_ids
    PartitionOf,    \* the partition of a version: <<"yellow", month>>, <<"green", month>>
    ZonePartition   \* or this one, for the versions of the taxi zones

ASSUME VersionsAssumption == Versions \subseteq Nat \ {0} /\ IsFiniteSet(Versions)

VARIABLES
    status,         \* status of every version in ops.source_files
    dim_zone,       \* zone versions whose rows are in marts.dim_zone
    dim_date,       \* partitions whose dates are in marts.dim_date
    fct_trips,      \* copies of each version's rows in marts.fct_trips
    known_dates,    \* versions whose facts have date keys other than 0
    build           \* the dbt process

marts == <<dim_zone, dim_date, fct_trips, known_dates>>
warehouse_vars == <<status, dim_zone, dim_date, fct_trips, known_dates, build>>

-----------------------------------------------------------------------------
Partitions == {PartitionOf[v] : v \in Versions}
ZoneVersions == {v \in Versions : PartitionOf[v] = ZonePartition}
TripVersions == Versions \ ZoneVersions

Loaded == {v \in Versions : status[v] = "loaded"}

\* int_trips_normalized: the trips of the loaded sources, once each.
CanonicalTrips == Loaded \cap TripVersions

\* zones and dates: progress of the two dimensions; facts: of fct_trips, whose
\* staged rows are those of the versions in staged, with dates if in dated.
Build == [zones : {"todo", "tested", "built", "passed", "failed"},
          dates : {"todo", "built"},
          facts : {"todo", "staged", "built"},
          staged : SUBSET Versions, dated : SUBSET Versions, copies : Nat,
          outcome : {"none", "running", "succeeded", "failed"}]

NoBuild == [zones |-> "todo", dates |-> "todo", facts |-> "todo",
            staged |-> {}, dated |-> {}, copies |-> 0, outcome |-> "none"]

WarehouseTypeOK ==
    /\ status \in [Versions -> {"absent", "ready", "revision_detected", "loaded"}]
    /\ dim_zone \subseteq ZoneVersions
    /\ dim_date \subseteq Partitions
    /\ fct_trips \in [Versions -> Nat]
    /\ known_dates \subseteq Versions
    /\ build \in Build

WarehouseInit ==
    /\ status = [v \in Versions |-> "absent"]
    /\ dim_zone = {} /\ dim_date = {}
    /\ fct_trips = [v \in Versions |-> 0]
    /\ known_dates = {}
    /\ build = NoBuild

-----------------------------------------------------------------------------
(* Ingestion, as SourceLedger describes it.                                 *)

Register(v) ==
    /\ status[v] = "absent"
    /\ \/ status' = [status EXCEPT ![v] = "ready"]
       \/ /\ \E u \in Versions : PartitionOf[u] = PartitionOf[v] /\ status[u] # "absent"
          /\ status' = [status EXCEPT ![v] = "revision_detected"]

Load(v) == status[v] = "ready" /\ status' = [status EXCEPT ![v] = "loaded"]

-----------------------------------------------------------------------------
(* dbt build.                                                               *)

Running == build.outcome = "running"

StartBuild ==
    /\ build.outcome # "running"
    /\ build' = [NoBuild EXCEPT !.outcome = "running"]
    /\ UNCHANGED <<status, marts>>

\* stg_tlc__taxi_zones_one_loaded_source.  The other tests of the staging view look
\* at one version's rows, which the source contract has fixed: they pass with it.
TestZones ==
    /\ Running /\ build.zones = "todo"
    /\ build' = [build EXCEPT !.zones =
                   IF Cardinality(Loaded \cap ZoneVersions) = 1 THEN "tested" ELSE "failed"]
    /\ UNCHANGED <<status, marts>>

BuildDimZone ==
    /\ Running /\ build.zones = "tested"
    /\ dim_zone' = Loaded \cap ZoneVersions
    /\ build' = [build EXCEPT !.zones = "built"]
    /\ UNCHANGED <<status, dim_date, fct_trips, known_dates>>

\* zone_key is unique: every version holds the same locations.
TestDimZone ==
    /\ Running /\ build.zones = "built"
    /\ build' = [build EXCEPT !.zones = IF Cardinality(dim_zone) <= 1 THEN "passed" ELSE "failed"]
    /\ UNCHANGED <<status, marts>>

\* Only the dates of the trips that are about to become facts.
ObservedDates_Bug == {PartitionOf[v] : v \in {u \in CanonicalTrips : fct_trips[u] = 0}}

ObservedDates == {PartitionOf[v] : v \in CanonicalTrips}

BuildDimDate ==
    /\ Running /\ build.dates = "todo"
    /\ dim_date' = ObservedDates
    /\ build' = [build EXCEPT !.dates = "built"]
    /\ UNCHANGED <<status, dim_zone, fct_trips, known_dates>>

\* A high-water mark: the versions with a higher identity than any fact's.
NewVersions_Bug == {v \in CanonicalTrips : \A u \in Versions : fct_trips[u] > 0 => v > u}

\* where source_file_id not in (select distinct source_file_id from this).
NewVersions == {v \in CanonicalTrips : fct_trips[v] = 0}

\* Models are built whatever the tests of their parents found.
DimensionsReady_Bug == build.zones \in {"passed", "failed"} /\ build.dates = "built"

DimensionsReady == build.zones = "passed" /\ build.dates = "built"

\* The select into the temporary table, which joins the dimensions: a zone row
\* of every version in dim_zone, and key 0 without one.
StageFacts ==
    /\ Running /\ DimensionsReady
    /\ build.facts = "todo"
    /\ build' = [build EXCEPT
                   !.facts = "staged",
                   !.staged = NewVersions,
                   !.dated = {v \in NewVersions : PartitionOf[v] \in dim_date},
                   !.copies = IF dim_zone = {} THEN 1 ELSE Cardinality(dim_zone)]
    /\ UNCHANGED <<status, marts>>

\* delete+insert of the staged rows, and the commit.
CommitFacts ==
    /\ Running /\ build.facts = "staged"
    /\ fct_trips' = [v \in Versions |-> IF v \in build.staged THEN build.copies ELSE fct_trips[v]]
    /\ known_dates' = (known_dates \ build.staged) \cup build.dated
    /\ build' = [build EXCEPT !.facts = "built"]
    /\ UNCHANGED <<status, dim_zone, dim_date>>

\* fct_trips_source_grain, which counts the rows of every source, and
\* fct_trips_lineage_unique: the two tests of the facts that depend on what is
\* loaded meanwhile, together true or not.
FactsPass ==
    \A v \in TripVersions : fct_trips[v] = IF v \in Loaded THEN 1 ELSE 0

\* dbt exits with an error when a test failed or a model was skipped.
EndBuild ==
    /\ Running
    /\ \/ /\ build.facts = "built"
          /\ build' = [build EXCEPT !.outcome = IF FactsPass THEN "succeeded" ELSE "failed"]
       \/ /\ build.zones = "failed" /\ build.dates = "built" /\ build.facts = "todo"
          /\ build' = [build EXCEPT !.outcome = "failed"]
    /\ UNCHANGED <<status, marts>>

\* A statement fails, or the process is killed: open transactions roll back.
BreakBuild ==
    /\ Running
    /\ build' = [build EXCEPT !.outcome = "failed"]
    /\ UNCHANGED <<status, marts>>

BuildStep ==
    TestZones \/ BuildDimZone \/ TestDimZone \/ BuildDimDate \/ StageFacts \/ CommitFacts \/ EndBuild

-----------------------------------------------------------------------------
(* api/routes/analytics.py.                                                 *)

Facts == {v \in Versions : fct_trips[v] > 0}

\* The versions whose facts the join with dim_date keeps; key 0 is in it.
\* It is empty before the first build, when the route has no tables to read.
Summarized == {v \in Facts : v \in known_dates => PartitionOf[v] \in dim_date}

-----------------------------------------------------------------------------
(* Properties.                                                              *)

\* Every fact is counted by analytics_summary at every moment, also between the
\* steps of a later build: a date key in use never leaves dim_date.
SummaryIsComplete == Summarized = Facts

\* A version's rows are facts once or not at all, and only when it is loaded:
\* a second zone version never doubles them through the join (fct_trips.sql).
FactsAreUnique == \A v \in Versions : fct_trips[v] <= 1 /\ (fct_trips[v] = 1 => status[v] = "loaded")

\* _marts__models.yml: a date key is zero when the datetime is null.
DatesAreKnown == Facts \subseteq known_dates
=============================================================================
