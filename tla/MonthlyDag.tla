----------------------------- MODULE MonthlyDag -----------------------------
(***************************************************************************)
(* The monthly Airflow workflow (dags/tlc_monthly_pipeline.py and          *)
(* orchestration.py): zones, yellow, its quality, green, its quality, the  *)
(* dbt build, each task after the one before it, tried at most twice, one  *)
(* run of the workflow at a time.  Operators register and load versions    *)
(* with the command line meanwhile.                                        *)
(*                                                                         *)
(* A task of ingestion works on the version that acquisition gave it; the  *)
(* file may have been revised since another version was loaded, so that is *)
(* any version of the partition.                                           *)
(***************************************************************************)
EXTENDS Warehouse, Sequences

CONSTANTS
    Months,         \* months the workflow runs for
    MaxDagRuns,     \* bound on the runs of the workflow
    MaxFaults       \* bound on tasks that fail for a reason of their own

ASSUME DagBoundsAssumption == MaxDagRuns \in Nat /\ MaxFaults \in Nat

ASSUME ServicesAssumption ==
    \A service \in {"yellow", "green"}, m \in Months : <<service, m>> # ZonePartition

VARIABLES
    task,           \* the task that is running, "none", "complete" or "failed"
    month,          \* the partition the run resolved
    version,        \* the version an ingestion task works on, 0 before it has one
    decision,       \* what that task has decided to do with it
    tries,          \* attempts at the running task
    evaluated,      \* trip versions with committed quality results
    dag_runs,       \* runs of the workflow
    faults,
    disturbed       \* history: why this run may fail

dag == <<task, month, version, decision, tries, evaluated, dag_runs, faults, disturbed>>
vars == <<status, dim_zone, dim_date, fct_trips, known_dates, build,
          task, month, version, decision, tries, evaluated, dag_runs, faults, disturbed>>

\* The order of the task dependencies.
Tasks == <<"ensure_taxi_zones", "ensure_yellow_loaded", "quality_yellow",
           "ensure_green_loaded", "quality_green", "dbt_build">>

TaskNames == {Tasks[i] : i \in DOMAIN Tasks}
MaxTries == 2

\* The partition a task of the run works on.
PartitionOfTask(t) ==
    CASE t \in {"ensure_yellow_loaded", "quality_yellow"} -> <<"yellow", month>>
      [] t \in {"ensure_green_loaded", "quality_green"} -> <<"green", month>>
      [] OTHER -> ZonePartition

\* A rival is an operator who gets ahead of the running task.
Disturbed == [faults : Nat, rivals : Nat, revision : BOOLEAN]
Undisturbed == [faults |-> 0, rivals |-> 0, revision |-> FALSE]

TypeOK ==
    /\ WarehouseTypeOK
    /\ task \in TaskNames \cup {"none", "complete", "failed"}
    /\ month \in Months
    /\ version \in Versions \cup {0}
    /\ decision \in {"none", "register", "load"}
    /\ tries \in 0..MaxTries
    /\ evaluated \subseteq TripVersions
    /\ dag_runs \in 0..MaxDagRuns
    /\ faults \in 0..MaxFaults
    /\ disturbed \in Disturbed

Init ==
    /\ WarehouseInit
    /\ task = "none" /\ version = 0 /\ decision = "none" /\ tries = 0
    /\ month \in Months
    /\ evaluated = {} /\ dag_runs = 0 /\ faults = 0 /\ disturbed = Undisturbed

-----------------------------------------------------------------------------
(* The scheduler.                                                           *)

\* resolve_partition; TargetMonth says which month it is.
TriggerRun ==
    /\ task \in {"none", "complete", "failed"}
    /\ dag_runs < MaxDagRuns
    /\ dag_runs' = dag_runs + 1
    /\ month' \in Months
    /\ task' = Tasks[1] /\ tries' = 1 /\ version' = 0 /\ decision' = "none"
    /\ disturbed' = Undisturbed
    /\ UNCHANGED <<status, marts, build, evaluated, faults>>

\* The next task, or the end of the run.
Succeed ==
    LET i == CHOOSE j \in DOMAIN Tasks : Tasks[j] = task IN
    /\ task' = IF i < Len(Tasks) THEN Tasks[i + 1] ELSE "complete"
    /\ tries' = 1 /\ version' = 0 /\ decision' = "none"
    /\ disturbed' = [disturbed EXCEPT !.rivals = 0]

\* The retry is not counted.
RetryOrFail_Bug ==
    task' = task /\ tries' = tries /\ version' = 0 /\ decision' = "none"

\* One try too many.
RetryOrFail_TypeBug ==
    /\ version' = 0 /\ decision' = "none"
    /\ \/ tries <= MaxTries /\ tries' = tries + 1 /\ UNCHANGED task
       \/ tries > MaxTries /\ task' = "failed" /\ UNCHANGED tries

\* Airflow tries the task again after retry_delay, or fails it and with it the run.
RetryOrFail ==
    /\ version' = 0 /\ decision' = "none"
    /\ \/ tries < MaxTries /\ tries' = tries + 1 /\ UNCHANGED task
       \/ tries = MaxTries /\ task' = "failed" /\ UNCHANGED tries

-----------------------------------------------------------------------------
(* _ensure_loaded.                                                          *)

EnsureTasks == {"ensure_taxi_zones", "ensure_yellow_loaded", "ensure_green_loaded"}

\* prepare_source: the file that is landed or downloaded now.
PrepareSource ==
    /\ task \in EnsureTasks /\ version = 0
    /\ \E v \in Versions : PartitionOf[v] = PartitionOfTask(task) /\ version' = v
    /\ UNCHANGED <<warehouse_vars, task, month, decision, tries, evaluated, dag_runs, faults,
                   disturbed>>

\* The look-up of the version, which settles what is left to do.
DecideIngestion ==
    /\ task \in EnsureTasks /\ version # 0 /\ decision = "none"
    /\ \/ status[version] = "absent" /\ decision' = "register"
       \/ status[version] = "ready" /\ decision' = "load"
    /\ UNCHANGED <<warehouse_vars, task, month, version, tries, evaluated, dag_runs, faults,
                   disturbed>>

\* Where an operator was faster, the insert fails in its savepoint and the row of
\* the operator is taken for this one.
RegisterVersion ==
    /\ task \in EnsureTasks /\ version # 0 /\ decision = "register"
    /\ \/ Register(version)
       \/ status[version] # "absent" /\ UNCHANGED status
    /\ decision' = IF status'[version] = "ready" THEN "load" ELSE "none"
    /\ UNCHANGED <<marts, build, task, month, version, tries, evaluated, dag_runs, faults,
                   disturbed>>

LoadVersion ==
    /\ task \in EnsureTasks /\ version # 0 /\ decision = "load"
    /\ Load(version)
    /\ decision' = "none"
    /\ UNCHANGED <<marts, build, task, month, version, tries, evaluated, dag_runs, faults,
                   disturbed>>

\* An operator has loaded the version since: start_run raises, or the COPY of its
\* rows meets those that are there.
LoseRace ==
    /\ task \in EnsureTasks /\ decision = "load" /\ status[version] # "ready"
    /\ RetryOrFail
    /\ UNCHANGED <<warehouse_vars, month, evaluated, dag_runs, faults, disturbed>>

\* Loaded by this call, or already: the task is done.
FinishEnsure ==
    /\ task \in EnsureTasks /\ version # 0 /\ decision = "none"
    /\ status[version] = "loaded"
    /\ Succeed
    /\ UNCHANGED <<warehouse_vars, month, evaluated, dag_runs, faults>>

RaiseForRevision ==
    /\ task \in EnsureTasks /\ version # 0 /\ decision = "none"
    /\ status[version] = "revision_detected"
    /\ disturbed' = [disturbed EXCEPT !.revision = TRUE]
    /\ RetryOrFail
    /\ UNCHANGED <<warehouse_vars, month, evaluated, dag_runs, faults>>

-----------------------------------------------------------------------------
(* run_partition_quality and run_dbt_build.                                 *)

\* Quality describes the evaluation.  It takes the version with the highest run
\* identity, which may be any of those loaded.  It would raise without a loaded
\* version or without zones: the tasks before this one exclude that.
EvaluateQuality ==
    /\ task \in {"quality_yellow", "quality_green"}
    /\ Loaded \cap ZoneVersions # {}
    /\ \E v \in Loaded : PartitionOf[v] = PartitionOfTask(task) /\ evaluated' = evaluated \cup {v}
    /\ Succeed
    /\ UNCHANGED <<warehouse_vars, month, dag_runs, faults>>

StartTaskBuild ==
    /\ task = "dbt_build" /\ build.outcome = "none"
    /\ StartBuild
    /\ UNCHANGED dag

BuildTaskStep == task = "dbt_build" /\ BuildStep /\ UNCHANGED dag

\* subprocess.run without check=True: the exit code is not looked at.
BuildSucceeded_Bug == build.outcome \in {"succeeded", "failed"}

BuildSucceeded == build.outcome = "succeeded"

\* subprocess.run(check=True) raises when the process failed.
FinishBuild ==
    /\ task = "dbt_build"
    /\ build.outcome \in {"succeeded", "failed"}
    /\ \/ BuildSucceeded /\ Succeed
       \/ ~BuildSucceeded /\ RetryOrFail /\ UNCHANGED disturbed
    /\ build' = NoBuild
    /\ UNCHANGED <<status, marts, month, evaluated, dag_runs, faults>>

\* Any other exception, a lost connection or a killed worker.
TaskFails ==
    /\ task \in TaskNames
    /\ faults < MaxFaults
    /\ faults' = faults + 1
    /\ disturbed' = [disturbed EXCEPT !.faults = disturbed.faults + 1]
    /\ \/ Running /\ BreakBuild /\ UNCHANGED <<task, version, decision, tries>>
       \/ ~Running /\ RetryOrFail /\ build' = NoBuild /\ UNCHANGED <<status, marts>>
    /\ UNCHANGED <<month, evaluated, dag_runs>>

-----------------------------------------------------------------------------
(* Operators with the command line.                                         *)

\* A load that the running build may miss, or that the running ingestion was about
\* to do itself.
GetsAhead(v) ==
    /\ Load(v)
    /\ task = "dbt_build" \/ (decision = "load" /\ v = version)

OperatorIngests ==
    /\ \E v \in Versions :
          /\ Register(v) \/ Load(v)
          /\ disturbed' = IF GetsAhead(v)
                          THEN [disturbed EXCEPT !.rivals = disturbed.rivals + 1] ELSE disturbed
    /\ UNCHANGED <<marts, build, task, month, version, decision, tries, evaluated, dag_runs, faults>>

-----------------------------------------------------------------------------
TaskStep ==
    \/ PrepareSource \/ DecideIngestion \/ RegisterVersion \/ LoadVersion \/ LoseRace
    \/ FinishEnsure \/ RaiseForRevision
    \/ EvaluateQuality \/ StartTaskBuild \/ BuildTaskStep \/ FinishBuild

Next == TriggerRun \/ TaskStep \/ TaskFails \/ OperatorIngests

\* Airflow's scheduler takes a running task on until it has ended.
Spec == Init /\ [][Next]_vars /\ WF_vars(TaskStep)

-----------------------------------------------------------------------------
(* Properties.                                                              *)

VersionsOf(p) == {v \in Versions : PartitionOf[v] = p}

\* When a run is complete, the zones and both partitions of its month are
\* loaded, evaluated and facts, whatever was retried on the way.
CompleteMeansCurrent ==
    task = "complete" =>
        /\ \E v \in VersionsOf(ZonePartition) : status[v] = "loaded"
        /\ \A service \in {"yellow", "green"} :
              \E v \in VersionsOf(<<service, month>>) :
                  status[v] = "loaded" /\ v \in evaluated /\ fct_trips[v] = 1

\* A run fails only for a cause outside the workflow: a fault, a revision, more
\* than one zone version, or two operators who got ahead of the task that failed,
\* one for each try.  A single load during the build makes the test of the facts
\* fail, and the retry adds its rows; a task that was about to load a version when
\* an operator did finds it loaded when it is tried again.
FailuresHaveACause ==
    task = "failed" =>
        \/ disturbed.faults > 0
        \/ disturbed.revision
        \/ Cardinality(Loaded \cap ZoneVersions) > 1
        \/ disturbed.rivals > 1

\* Every run of the workflow ends.
RunsEnd == task \in TaskNames ~> task \in {"complete", "failed"}
=============================================================================
