# TLA+ models of the NYC taxi data platform

This directory holds TLA+ specifications of the platform in `src/`, the TLC
configurations that check them and proofs that TLAPS checks. Paths of source
files below are relative to `src/src/taxi_pipeline/` unless they start with a
directory of the repository (`dags/`, `dbt/`, `docs/`).

## The system

The platform loads monthly files of the NYC TLC into PostgreSQL, checks their
quality, builds a small warehouse with dbt, and shows it through an API and a
dashboard. It has no server that writes: every write is made by a process of
the command line or of an Airflow task, and several of these may run at once,
on one host or on many. They meet in four places: the landing directory of a
host, the S3 bucket, the PostgreSQL database at its default isolation level
(READ COMMITTED), and the dbt target schema.

| Component | State | Operations | Meets the others through |
|---|---|---|---|
| Source resolution, `sources/` | none | month to names, schema contracts | called by all |
| Landing, `landing/` | `data/landing/...` of a host | `ensure_local`, `inspect_source` | files |
| Storage, `storage/` | S3 objects, storage columns of `ops.source_files` | `prepare_source`, `store`, `materialize`, `persist_storage_metadata`, sync, verify | files, S3, database |
| Registry and runs, `metadata/` | `ops.source_files`, `ops.pipeline_runs` | register, start, skip, succeed, fail | inside transactions of ingestion |
| Ingestion, `ingestion/` | `raw.*` | `ingest_source` | database, reads the landing file |
| Quality, `quality/` | `ops.data_quality_results`, two counters of a run | `run_quality_checks` | reads runs, sources and raw rows |
| Orchestration, `orchestration.py`, `dags/` | Airflow's task states | `_ensure_loaded`, quality, dbt, in order | calls |
| Warehouse, `dbt/taxi_analytics/` | `marts.*` | `dbt build` | reads loaded sources |
| API, `api/`, dashboard, `dashboard/` | a 45 s cache | queries, pages | reads |
| Profiling, benchmarks, migrations | reports, schema | offline | files, database |

What is hard, per component, is the `hazards` list of `PROJECT.json`. The core
of it:

* **Registration.** The partition check and the INSERT are two statements; the
  unique constraint covers the version, not the partition.
* **Ingestion.** Four transactions per call. What the first decides is used by
  the second; the run is committed before the load; a second loader of the same
  source runs into the first one's uncommitted keys; a commit may be in doubt.
* **Landing.** Check, long download, unconditional replacement; the file is
  opened five times in one call.
* **Storage.** HEAD, PUT, HEAD without a condition; a row read and written by
  two processes; a sync over versions that share one landing path.
* **Quality, warehouse, pages.** Readers that take several statements while
  writers go on.

What makes the components correct:

* ingestion: a source is loaded once, completely, by one run, or not at all;
  what was recorded stays true; every call ends; at most one version of a
  partition is loadable;
* acquisition: what is loaded and what is in S3 is what was registered; a
  landing file is whole and never replaced; a record of durable storage stays;
* quality: the results of a run belong to one evaluation, and an evaluation that
  overlaps no other leaves counters that agree with them;
* warehouse: a loaded version has its rows in the fact table once, and every date
  key in use is in the date dimension;
* workflow: a complete run means loaded, evaluated and built; a failed run has a
  cause outside; every run ends;
* measurements, contracts, months: each function returns what its reference
  definition says, and the two parts of the platform that count the same thing
  count the same;
* pages: every run that exists throughout the reading is read.

## Modules

| Module | What it is | Extends |
|---|---|---|
| `SourceLedger` | abstract: what ingestion promises to its readers | |
| `Ingestion` | `ingest_source` with `metadata/` and the loaders | refines `SourceLedger` |
| `IngestionProofs` | theorems about `Ingestion` | `Ingestion`, `TLAPS` |
| `Acquisition` | publisher, landing, S3 and the storage record of one partition | refines `SourceLedger` |
| `AcquisitionProofs` | theorems about `Acquisition`, and its mapping to the ledger | `Acquisition`, `TLAPS` |
| `Quality` | concurrent evaluations of runs, their results and counters | sees the ledger's runs |
| `QualityProofs` | theorems about `Quality` | `Quality`, `TLAPS` |
| `Dashboard` | the API's list of runs, the client's pages, the cached view | `Quality` |
| `DashboardProofs` | theorems about `Dashboard` | `Dashboard`, `QualityProofs` |
| `Warehouse` | one dbt build beside ingestion, and the summary the API reads | sees the ledger's statuses |
| `MonthlyDag` | the Airflow workflow and operators beside it | `Warehouse` |
| `MonthlyDagProofs` | theorems about `MonthlyDag` and `Warehouse` | `MonthlyDag`, `TLAPS` |
| `TargetMonth` | month arithmetic, windows, date bounds | |
| `TargetMonthProofs` | theorems about `TargetMonth` | `TargetMonth`, `TLAPS` |
| `SourceContracts` | contracts of source files, rows to numbered batches | |
| `Measurements` | quality checks, profiles, duplicates, percentile | `SourceContracts` |
| `MCIngestion`, `MCAcquisition`, `MCDashboard`, `MCMonthlyDag` | values of the constants for TLC | |
| `MCFunctions` | inputs and reference definitions for the pure modules | `TargetMonth`, `Measurements` |
| `FoldLemmas` | what the proofs about data rest on: induction over numbers, folds, counts, joined sequences | the libraries, `TLAPS` |
| `FunctionProofs` | theorems about `SourceContracts`, `Measurements` and the properties of `MCFunctions` | `MCFunctions`, `TargetMonthProofs`, `FoldLemmas` |

The modules meet in what `SourceLedger` promises. `Ingestion` refines it for all
partitions, and `Acquisition` for the one whose file it follows. `Quality` and
`Warehouse` take registration and loading as the steps it allows: a version is
registered once and loaded once, in one step.

Operators whose name ends in `_Bug` are mistakes one could make in the code of
the definition that follows them. They are no part of the behaviour. Each was
put in place of that definition once and broke the property it is listed with
in `PROJECT.json`.

### Ingestion

The state is the committed database (`source_files`, `pipeline_runs`,
`raw_rows`) and, per process, a phase and the locals of its call. A version is a
partition key with a checksum. One action is a group of statements between two
points where another transaction can interfere:

| Code | Actions |
|---|---|
| transaction 1, `register_source_file` | `BeginIngest`, `FindExactVersion`, `CheckPartition`, `InsertSource` (waits for an uncommitted twin, adopts a committed one), `CommitRegistration` |
| transaction 2 | `CreateSkippedRun`, or `ReadReadySource` and `StartRun` |
| transaction 3, the load | `OpenFile`, `CopyBatch` (waits for keys in flight), `UniqueViolation`, `MarkRunSucceeded` (all the checks), `CommitLoad` |
| transaction 4, `except` | `MarkRunFailed` |
| faults | `LoadFails` (an exception inside the `try`), `CommitInDoubt` (durable, reported as failed), `Abandon` (the process dies or a statement outside the `try` raises) |

Rows are their row numbers: a batch is an interval of numbers, and the primary
key is the pair of source and number. Values and their conversion are left out.
The file a load opens has any row count of `FileRows`, because nothing ties it
to the file that was inspected.

`SourceLedger` says what the readers rely on: a version is registered once, as
ready or, if its partition is known, as a blocked revision; a ready one is
loaded in one step with all its rows. `ImplementsSourceLedger` maps the committed
tables to it.

### Acquisition

One partition. A file is its bytes, so the checksum of a file is the file. The
state is what the publisher serves, the landing file of each host, the versions
of each S3 object, the rows of `ops.source_files`, and each process's phase and
locals. The calls are `fetch`, `register`, `ingest` (of the command line, and
`_ensure_loaded`), `storage sync`, `sync-all` and `materialize`.

| Code | Actions |
|---|---|
| `prepare_source` | `BeginSource`, `Recover`, `FetchObject`, `RestoreLanding` |
| `ensure_local` | `EnsureLocal` with the check of the size (`Complete`), `ReplaceLanding`, whatever is there by then |
| `inspect_source` | `MeasureSource` (size), `CountSource` (contract and row count), `HashSource`: three looks at the path |
| `store` | `VerifyLocal`, `HeadObject`, `PutObject`, `ConfirmObject` |
| `ingest_source`, `prepare_ingestion` | `RegisterSource`, `LoadSource`, one step each, as `SourceLedger` promises |
| `persist_storage_metadata` | `ReadStorage`, `FlushStorage` |
| `sync_all_sources`, `sync_source` | `BeginSync`, `NextSource` |
| `materialize_source` | `BeginMaterialize`, `FetchObject`, `RestoreLanding` |
| `verify_source_storage` | the operator `VerifyAccepts` |
| the world | `Republish`, `LoseLanding`, `Abandon`, `PutInDoubt`, a transfer cut off in `EnsureLocal` |

`Flush` writes what SQLAlchemy writes: the columns whose new value differs from
the one the session read. That is why a local call that read the row too early
does not erase an S3 record, although `_merge_storage_metadata` looked at a stale
row. It still overwrites `stored_at`.

Registration is atomic here, so two versions never become ready together; that
race belongs to `Ingestion`. A file that a reader has open stays as it was, so
an open, a read and its result are one step. `LoadSource` compares the rows it reads with
those that its own call counted, as `_validate_counts` does. A `fetch` may run without
`DATABASE_URL`, and then looks for nothing to recover.

### Quality

The committed runs, zone versions, results and counters, and per evaluator a
phase and an open READ COMMITTED transaction. The rows of a loaded source never
change, so what a check measures is a constant by run and zone version; and a loaded
zone version has its rows (`LoadIsAtomic`), so the test that it has some is left out.

| Code | Actions |
|---|---|
| `find_latest_successful_run`, `_validated_target` | `FindLatestRun`, `ReadTarget` (the session keeps the counters read) |
| the measurements and `_loaded_zone_source_id` | `Measure` |
| `_upsert_result`, rule by rule | `UpsertResult`, which waits while another transaction has that row |
| `_violated_count` twice | `CountViolated`, over the transaction's own upserts and what is committed |
| the commit of `run_partition_quality` or of the `quality` command | `CommitEvaluation`, with an UPDATE of the changed columns only |
| a failed statement, a killed process | `AbandonEvaluation` |
| ingestion | `StartRun`, `FinishRun`, `LoadZones` |

### Dashboard

`list_runs` with its order by start time, `_all_pages` of the client, one request
per page, and the cached list that the views use until it is refreshed. All
steps interleave with those of `Quality`. `started_at` is a constant in any order, because the hosts' clocks and the
order of commits differ from the order of `run_id`.

### Warehouse and MonthlyDag

`status` is the ledger's status of a version. The marts are sets of versions:
which zone versions are in `dim_zone`, which partitions' dates are in `dim_date`,
how often the rows of a version are in `fct_trips` and whether they got date
keys. A dbt model is one statement that sees what is loaded when it runs:

| Code | Actions |
|---|---|
| `stg_tlc__taxi_zones_one_loaded_source`, `dim_zone`, its tests | `TestZones`, `BuildDimZone`, `TestDimZone` |
| `dim_date` | `BuildDimDate` |
| `fct_trips`, incremental | `StageFacts` (select and joins), `CommitFacts` (delete+insert) |
| `fct_trips_source_grain`, the exit code | `EndBuild` |
| an error or a kill | `BreakBuild` |
| `analytics_summary` | the operator `Summarized` |

| DAG and orchestration | Actions |
|---|---|
| the scheduler, `max_active_runs=1`, `resolve_partition` | `TriggerRun`, `Succeed`, `RetryOrFail` |
| `_ensure_loaded` | `PrepareSource`, `DecideIngestion`, `RegisterVersion` (which adopts the row of an operator who was faster), `LoadVersion`, `LoseRace` (an operator has loaded the version first: the attempt raises), `FinishEnsure`, `RaiseForRevision` |
| `run_partition_quality` | `EvaluateQuality`, one step, as `Quality` describes it |
| `run_dbt_build` | `StartTaskBuild`, `BuildTaskStep`, `FinishBuild` |
| errors and lost workers | `TaskFails` |
| the command line beside the DAG | `OperatorIngests` |

What a task has decided is kept in `decision`, and operators may act between the
decision and the step. `disturbed` is history: it notes the faults and revisions of a
run, and the rivals of the task that is running, the operators who loaded a version
during its build or the version it was about to load. `TestZones` and `EndBuild` stand
for several dbt tests each: those of one version's rows follow from the source
contract, and are left out.

A broken attempt leaves no build behind: a dbt process that outlives its killed
task would be a second build at once, which is not modelled.

### TargetMonth, SourceContracts, Measurements

Pure functions, each written as the code computes it: `resolve_month` with its
parameters, the window of a month in SQL and in pandas, `loaded_date_bounds` over the
sources with their status and service; the three contract validations (a repeated
header of a zone file is renamed by `read_csv`, and so unknown) and the two batch
iterators; every rule with its measurement, the profile counts with Arrow's nulls, the
duplicate counts by SQL, by hash and by data frame, and the nearest-rank percentile. A
row is a record of small values with null; a time is a number.

A raw row is made in three steps: values are looked up by name (`ValuesByName`), put in
the order of one list with the lineage behind them (`ParquetRow`, `ZoneRow`), and COPY
gives them by position to the columns of another list (`CopyRow`, `CopyColumns`).

The length of a month is `DaysOf`, with the rule for leap years that `calendar.monthrange`
has; the reference counts the days of the calendar instead (`FirstDay`).

The rank is `math.ceil(percentile * len(ordered))`, with two roundings: `p / 100` is
rounded to a double, and so is its product with the number of observations. Doubles are
whole numbers of a small unit (`Unit` to one), `Percentile` and `Rounded` are the
roundings. A product just above an integer moves the rank by one: with real doubles
0.55 of 100 observations is 55.00000000000001 and has rank 56. The model has the same
case with shorter doubles, and `PercentileIsLeast` says what is left of the definition
then.

## Runs

| Run | Shows | Bounds |
|---|---|---|
| `ingestion` | type, `LoadIsAtomic`, `AttemptsAgreeWithSource`, `SomeVersionLoadable`, `OrphansAreFaults`, `HistoryIsFinal`, refinement of the ledger | 3 processes, 2 versions of a partition, 3 rows in batches of 2, files of 2 to 4 rows, 4 calls, 1 fault |
| `ingestion_liveness` | `EveryCallReturns`, `ReadyCallLoads`, `SerialRevisionsAreBlocked` | 2 processes, 3 calls, 1 fault |
| `racing_revisions` | two racing registrations break `RevisionsAreBlocked` | 2 processes, no fault |
| `acquisition` | type, `LoadedIsRegistered`, `BackedSourcesRecover`, `LandingIsImmutable` with one process per landing path | 2 hosts, 2 publications of equal size and row count, both backends, 3 calls, 1 fault |
| `shared_landing` | `LandingIsWhole`, `DurableStorageKept` with two processes on one path | the revision is longer, 3 calls, 1 fault |
| `wrong_body` | a shared path breaks `ObjectsMatchKeys` | 2 calls, no fault |
| `sync_all` | a sync of all does not reach a file that is there | 3 calls, no fault |
| `quality` | type, `ResultsOfOneEvaluation`, `LoneEvaluationsCount`, `EvaluationsEnd`; for the reader `NoRunIsMissed`, `RepeatsAreBounded` | 2 evaluators, 2 runs of a partition, 2 zone versions, 2 checks, 2 evaluations, 1 fault, pages of 1, the list read once |
| `overlapping_counters` | two evaluations that overlap break `CountersCountViolated` | as `quality` |
| `monthly` | type, `SummaryIsComplete`, `FactsAreUnique`, `CompleteMeansCurrent`, `FailuresHaveACause`, `RunsEnd` | 6 versions of 4 partitions, 1 month, 2 runs of the workflow, 1 fault |
| `unknown_dates` | a load between two models breaks `DatesAreKnown` | as `monthly` |
| `functions` | the eleven properties of the pure functions | 4 years by 12 months twice, 3 rows, schemas of 3 fields, files of 9 rows, 4 observations with their values and ranks of up to 30 |

Why the bounds are enough to be of use: three rows in batches of two make a full
and a partial batch; files of two to four rows are short, right and long; two
processes make every race of two, and the third can come in between or wait
behind; two versions of a partition are the original and its revision; four
calls allow a load, its repetition and a revision, with a call more. Two
publications of the same size and row count are the worst case for checks that
compare size and rows only. In `MCAcquisition` the cut-off file passes the
contract, as a CSV cut at a line end does. `SendsLength` is true: without a
Content-Length `ensure_local` cannot tell.

In `quality` the zone versions disagree on one warning, so a repeated evaluation
changes a result and a counter; two checks are enough to be between two upserts
or to lock in two orders; a page of one run makes every insertion fall between
two pages or into one, and the run with the higher identity is listed last. In
`monthly` there are two zone versions (one too many for the tests), two versions
of the yellow partition (a revision) and one of a partition that only operators
load, whose identity is the lowest, so that loads come out of order; the second
run of the workflow builds incrementally over the facts of the first. In
`functions` the years are the limits of what `resolve_month` accepts, the turn of
a century and a leap year; the rows include every kind of null, times at and
around the ends of the window, and trips early by less and more than a second;
the units of a second are 2, the least number that can round.

Deadlock checking is off: when the calls are used up and all processes are idle,
the model stops, as the system does between calls.

**Fairness.** Only what a live process does by itself is fair
(`WF_vars(Proceed(w))`): the operating system schedules it, PostgreSQL grants a
lock when its holder ends, and each of these waits has a holder that proceeds.
Faults, new calls and revisions by the publisher are never owed. A process that
dies goes through `Abandon`, which ends its call.

In `quality` the same is assumed per evaluator (`WF(EvaluatorStep(e))`): a statement is
executed unless it waits for a row lock, and PostgreSQL grants the lock when its
holder ends. The action is disabled while the lock is held, so this fairness
does not presume what `EvaluationsEnd` shows: that the holder is never waiting
itself. In `monthly` it is `WF(TaskStep)`: the scheduler takes a running task on
until it has ended. New runs, faults and operators are never owed.

## What the violations show

The five violation runs are listed with the sentence they contradict under
`findings` in `PROJECT.json`. `racing_revisions` and `unknown_dates` are about statements
that each see what is committed by then, `wrong_body` about a landing path that two
processes share, `sync_all` about a loop that a known state of the data ends, `overlapping_counters`
about an object that a session read before it waited. The DAG has `max_active_runs=1`, which leaves the command line beside the DAG, a second
host, and a lost task attempt beside its retry.

Observations without a run of their own:

* A registered version whose load failed, or was never tried, makes the next
  checksum of its partition a revision, although nothing was loaded
  (`metadata/source_registry.py:33`). The documents ask for that review; what must
  not happen is that every version of a partition is blocked (`SomeVersionLoadable`).
* Two first uploads of one version may leave the row with the S3 version of the
  older one, and `storage verify` then rejects the object, which is intact
  (`storage/service.py:142`).
* A run that is read on two pages is counted twice in the overview's totals;
  `RepeatsAreBounded` says by how much.
* `resolve_month` accepts December 9999, whose window no `date` can end
  (`quality/queries.py:22`).

The trace of `overlapping_counters`: one evaluation measures a violation, a second
one reads the counter 0 and waits for the first one's rows, the first commits 1, the
second has measured with another zone version, finds 0, equal to the value it read,
and SQLAlchemy emits no UPDATE (`quality/evaluator.py:119`). Hence the word lone in
`LoneEvaluationsCount`.

## Proofs

Every theorem holds for all values of the constants that satisfy the named
assumptions of its module; a further hypothesis stands in the theorem itself.
TLC checked each property, and the invariant it rests on, on a small instance first.

### Ingestion

`IngestionProofs`, for all processes, versions, row counts, file lengths, batch
sizes and bounds:

| Theorem | Result |
|---|---|
| `TypeCorrect` | `Spec => []TypeOK` |
| `LoadsAreAtomic` | `Spec => []LoadIsAtomic` |
| `AttemptsAgree` | `Spec => []AttemptsAgreeWithSource` |
| `PartitionsStayLoadable` | `Spec => []SomeVersionLoadable` |
| `HistoryNeverChanges` | `Spec => HistoryIsFinal` |
| `LedgerRefinement` | `Spec => ImplementsSourceLedger` |
| `OrphansCostFaults` | `Spec => []OrphansAreFaults` |
| `SerialRegistrationsBlock` | `Spec => SerialRevisionsAreBlocked`, that is `[]RegistrationsAreSerial => []RevisionsAreBlocked` |
| `OneProcessBlocksRevisions` | one process: `Spec => []RevisionsAreBlocked` |
| `IngestionNeverDeadlocks` | every version has a file: `Spec => []WaitsAreShort` |

All rest on `InductiveInvariant == Spec => []IInv`. None of the properties is
inductive alone: that a commit makes rows 1 to `row_count` visible needs to know
what the process has in flight, that no other process has rows of the source in
flight, and that the run it finishes is its own. `IInv` adds four parts:

* `CallsAreConsistent`: what a call has read about its source is still true, or
  has moved from ready to loaded only;
* `RegistrationsAreExclusive`: one open INSERT per version, and a version about
  to be blocked has a committed sibling;
* `RunsAreHeld`: a process in the load holds a run of its source that no other
  process holds, still running unless its commit was in doubt;
* `KeysAreExclusive`: the keys in flight are rows 1 to `rowsRead`, of one process
  per source, and the source is ready meanwhile.

The heart is `FirstBatchAlone`: the first batch of a load contains row 1, and so
does the first batch of every other load of that source. So it can only be
copied when no other transaction has rows in flight and none are committed, and
from then on the source is the copier's alone until it ends. The lemmas
`StatusStep`, `RunStep`, `AttemptStep`, `KeysStep` and `LoadStep` say what a step
does to one part of the state; the lemmas `Step...` take one conjunct of `IInv`
each.

`RevisionsAreBlocked` is false of the code in general, as `racing_revisions`
shows. `SerialRegistrationsBlock` says what it takes: `RegistrationsAreSerial`, that
no two processes are between the partition check and the commit of the
registration for one partition at once. All else may overlap. It is what a lock
on the partition would give; the behaviours of one process have it by themselves,
which is the second theorem. The invariant is `FirstIsAlone`: a version about to
become ready still has no committed sibling.

An INSERT or a COPY that meets an uncommitted key waits for its transaction.
`IngestionNeverDeadlocks` says that such waits never form a circle: a call that
cannot go on waits for one on the same version that has keys in flight and can.
`RegistrationsAreExclusive` and `KeysAreExclusive` name that one, and
`ReadsStayInFile` lets it read on or commit. ENABLED being out of the prover's
reach, `CanProceed` writes the guards of `Proceed` out; TLC has compared it with
`ENABLED Proceed(w)` in every state of the instance of `MCIngestion.cfg`. It is the
safety half of `EveryCallReturns`.

### Acquisition

`AcquisitionProofs`, for all processes, hosts, files, publications, backends and
bounds:

| Theorem | Under | Result |
|---|---|---|
| `AcquisitionTypeCorrect` | | `Spec => []TypeOK` |
| `StorageRecordsAreDurable` | | `Spec => DurableStorageKept` |
| `LandedFilesAreWhole` | `SendsLength` | `Spec => []LandingIsWhole` |
| `LandingFilesAreImmutable` | `OwnHosts` | `Spec => LandingIsImmutable` |
| `LoadsMatchRegistrations` | `OwnHosts` | `Spec => []LoadedIsRegistered` |
| `ObjectsHoldTheirKeys` | `OwnHosts` | `Spec => []ObjectsMatchKeys` |
| `RecordedObjectsRecover` | `OwnHosts` | `Spec => []BackedSourcesRecover` |
| `AcquisitionKeepsLedger` | `OwnHosts` | `Spec => ImplementsSourceLedger` |

The hypotheses say where the code keeps its promise. `SendsLength`: the publisher
sends a Content-Length, without which `ensure_local` cannot tell a cut-off file.
`OwnHosts`: no two processes share a landing directory; what fails otherwise
`wrong_body` shows for the objects. The processes still share
the bucket and the database.

The first part rests on `AcquisitionInv`: the locals fit the phase (`CallFits`), the
storage columns of a row are of one backend (`RowsAreOfOneBackend`), and
`ReadRecordsLast`. That one was found in the proof. An UPDATE of the changed columns
keeps a durable record only if the session that writes does not write over a record
it has read; so a call that has read an S3 record needs the row to have one still.

The second part adds, in `OwnHostsInv`: a process puts a file only where there is
none (`ReplacesNothing`), what is at its path is what it inspected or nothing
(`LandedIsInspected`), the three looks of the inspection saw one file
(`InspectionsAgree`), and every version of an object holds the bytes of its key
(`ObjectsAreTrue`). They need each other: an object is true because the path did not
change between inspection and upload, and the file restored from S3 is the one
inspected because objects are true.

`AcquisitionKeepsLedger` maps the rows of `source_files` to the ledger: the status of a
version is that of its row, and its contents are as many rows as the file that was
loaded has. A call stands for the attempt it may record, and lineage, which this
module does not keep, names the first one. A load is a step of the ledger only
because the loaded file is the registered one, hence one process per directory; a
registration is one because a version has one row (`VersionsAreUnique`). This is no
property of a run, but TLC has checked the mapping on the instance of `MCAcquisition.cfg`.

### Quality and Dashboard

`QualityProofs`, for all evaluators, runs, zone versions, catalogs and bounds, of
the specification `QualitySpec`: `Spec => []ResultsOfOneEvaluation`
(`ResultsComeFromOneEvaluation`) and `LoneEvaluationsCount`
(`LoneEvaluationsCountRight`). `QualityInv` adds to them that a transaction that
counts has upserted every check and counts just those (`CountsAreOfUpserts`), that
while an evaluation is alone the counters it read are still the committed ones
(`LoneEvaluationsAreCurrent`), and that it has a run and a zone version.

`EvaluationsNeverDeadlock` is `QualitySpec => []WaitsAreShort`: an evaluation that
waits for a row lock waits for one of its run that can go on. Every evaluation upserts
the checks in one order, so the lock on the first check admits one writer per run
(`WritersAreAlone`), and that one finds no row locked; `LatestZoneExists` lets a
measurement begin. `CanStep` writes the guards out as `CanProceed` does, and TLC has
compared it with `ENABLED EvaluatorStep(e)` on the instance of `MCDashboard.cfg`.

`DashboardProofs`, for all runs, orders of `started_at`, page sizes and bounds:

| Theorem | Result |
|---|---|
| `DashboardTypeCorrect` | `Spec => []TypeOK` |
| `CompleteListsMissNothing` | `Spec => []NoRunIsMissed` |
| `RepeatsNeedInsertions` | `Spec => []RepeatsAreBounded` |

The argument is about positions. `list_runs` orders by `started_at` and then by
identity, a strict total order (`OrderIsStrict`), so the positions of the listed
runs are the numbers below their count, each taken once (`PositionsAreRanks`), and
a window of the list has exactly as many runs as it has positions
(`WindowsAreFull`, `PageHoldsItsWindow`). An insertion moves a run to a higher
position or leaves it (`PositionsGrow`). Hence `ReadingIsAPrefix`: a run that was
there at first has been read or is at `offset` or behind; a short page ends the list
and leaves no position behind. The bound on repeats counts: the items are as many
as the positions read, all read runs are listed, and the listed runs are those of
`since` and the inserted ones (`RepeatsHaveInsertions`).

### Warehouse and MonthlyDag

`MonthlyDagProofs`, for all versions, partitions, months and bounds:

| Theorem | Result |
|---|---|
| `DagTypeCorrect` | `Spec => []TypeOK` |
| `FactsStayUnique` | `Spec => []FactsAreUnique` |
| `SummariesStayComplete` | `Spec => []SummaryIsComplete` |
| `CompleteRunsAreCurrent` | `Spec => []CompleteMeansCurrent` |
| `FailuresAreCaused` | `Spec => []FailuresHaveACause` |

All rest on `DagInvariant == Spec => []DagInv`. `FactsAreUnique` is not inductive: that the
join adds one row per trip needs `JoinsAreSingle`, that a build past the tests of
`dim_zone` found at most one zone version. `SummaryIsComplete` needs `DatesInUseExist`
and `StagedDatesExist`: keys in use are of loaded trips only, loaded trips stay, so
the rebuilt `dim_date` has their dates again. `CompleteMeansCurrent` needs what each
task has left for the next (`TasksLeaveResults`, `BuildsLeaveFacts`), that an ingestion
task works on its own partition (`VersionFitsTask`) and that a build belongs to its
task (`BuildsBelongToTask`).

`FailuresHaveACause` needs `AttemptsCostLoads`: with no other cause, each attempt that
fails, or is bound to, has cost a load of its own. That is one during the build, because
a loaded trip is `Missing` from what it staged, or one of the version that the
ingestion was about to load. The attempt after it begins with what the operator has left
and with the rows the one before missed, so two failed attempts take two loads.

### Months, contracts and columns

`TargetMonthProofs`, for every year and month: the scheduled month lags by two,
partition keys are distinct, the windows tile the calendar, a month has as many days as
lie between the first of it and the first of the next (`DaysOfTheCalendar`, over leap
years and centuries), and the date bounds enclose the months of any loaded trip sources
that have an earliest and a latest one.

`FunctionProofs` proves all eleven properties of the run `functions`, for files, tables
and windows of any size and any frozen names and types.

* Contracts accept the frozen schemas and no other (`SchemasAreExact`), every value
  of a file ends in the column of its name, whatever the order of the file, through the
  positions of the row and of the COPY (`CopyKeepsColumns`), and zone files are
  accepted exactly when they can be joined (`ZonesAreExact`). The comparisons of lengths,
  counts and sets of names that the code makes amount to equality of sequences, where
  a sequence without repetition has as many entries as names.
* `BatchesAreNumbered`: however pyarrow cuts the rows into batches, the numbers that
  enumerate gives them are 1 to the row count, in order and without a gap.
* `CatalogsAreMatched`: `run_quality_checks` finds exactly the checks that the catalog of the
  service announces. A measurement is a function, and its names are those of the
  functions merged into it (`MeasuredNames`).
* `MeasurementsAreAgreed`: the profiler, which counts the rows that satisfy a mask, and
  the quality SQL, which counts by filter, find the same number for every check they share
  (`LocationsAgree`, `DomainsAgree`, `MasksCountTheSame`).
* `DuplicatesAreAgreed`: the groups of SQL, the masks of pandas and the two passes of the
  profile count the same duplicates, whatever the hash function of a row. The rows whose hash
  occurs twice hold all copies of every repeated row (`CandidatesSuffice`), so a
  collision changes nothing (`HashesDoNotMatter`); sums over groups are counts of rows
  (`GroupsAddUp`).
* `DurationsDifferByRounding`: the profile, which rounds durations towards zero, and the
  check differ for trips that end before they begin by less than a second, and for no
  others.
* `PercentilesAreLeast`: at least the share `p` of the observations lies at or below the
  entry of the sorted values at the rank, and no more than the share below it; less
  than that, when the double of `p / 100` is not higher than `p / 100`, as that of 0.95 is
  not. What is needed of rounding is that its two errors are less than a hundredth
  (`RoundingAssumption`, up to `MaxObservations`); what is needed of sorting is that the
  counts of values below and up to one are those of positions (`SortedCounts`).

`FoldLemmas` holds the inductions. The library's induction theorems take an operator and
cannot be instantiated, but their sets can be quantified over: `LeastNumber` follows
from well-foundedness of `<` stated for a set, and `NumbersByInduction` from it. A fold
of the community modules chooses a function that satisfies an equation, so that one
exists has to be proved before anything is known of it (`FoldsExist`,
`LeftFoldsExist`).

The assumptions are on constants: the frozen names are a sequence of strings without
the additive name (`FieldsAssumption`), a second has at least one unit
(`UnitAssumption`), the roundings err by less than a hundredth (`RoundingAssumption`), null is no number, string or truth value (`NullAssumption`), and the bounds on the
inputs are numbers (`InputsAssumption`). The general theorems are stated for any table
(`IsTable`: its columns, but for the flag, hold numbers or null), any sequence of numbers
and any cut into batches; the last eleven bring them to the inputs of the run, at any bound.

### Only model-checked

* Liveness: `EveryCallReturns`, `ReadyCallLoads`, `EvaluationsEnd`, `RunsEnd`. The
  prover has no rules for fairness and ENABLED. What is proved of the first and the
  third is that nobody waits in a circle.
* The five properties that are violated.

## Plan

What is left, in the order of use:

1. The `status` of `Warehouse` and `MonthlyDag` as an implementation of the ledger's,
   so that a month's build rests on what `Ingestion` proves.
2. `Acquisition` with the batches of `Ingestion` inside its load. Both implement
   `SourceLedger` now, which says what one may assume of the other; the product is
   out of TLC's reach.
3. Two hazards without a property: which revision a restore takes when the newest
   S3 record is of a blocked one, and two dbt processes at once. Each needs a
   statement of what the code owes first.

## Not modelled

* The migrations, which are applied once before the platform runs; a dbt full
  refresh, and two dbt processes at once: the DAG has one run at a time, and
  nothing says what a second build is owed.
* Report layout, drawing, argument parsing and printing, and the API's other
  routes, which are single read-only statements.
* `compare_schemas`, schema fingerprints and bucket safeguards, which only report.
* Quantiles, joint nulls and floating point but for the rank of a percentile:
  percentages and not-a-number in a profile. The hash of a row is any function of the
  row, the same in every batch, which is what `_stable_duplicate_frame` is for.
* The conversion of single values on their way into a raw row; seeds and
  dimensions that depend on no source.
