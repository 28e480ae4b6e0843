--------------------------- MODULE MonthlyDagProofs ---------------------------
(***************************************************************************)
(* Proofs about MonthlyDag, and the Warehouse it builds, for all versions, *)
(* months, bounds and faults.                                              *)
(***************************************************************************)
EXTENDS MonthlyDag, FiniteSetTheorems, TLAPS

-----------------------------------------------------------------------------
(* The inductive invariant: the tables and the build.                       *)

\* A date key is used for loaded trips only, and their dates are in dim_date.
DatesInUseExist ==
    /\ known_dates \subseteq CanonicalTrips
    /\ \A v \in known_dates : PartitionOf[v] \in dim_date

\* The staged rows are those of loaded trips; their date keys were taken from
\* the dim_date that this build has built.
StagedDatesExist ==
    /\ build.staged \subseteq CanonicalTrips
    /\ build.dated \subseteq build.staged
    /\ build.dates = "todo" => build.dated = {}
    /\ \A v \in build.dated : PartitionOf[v] \in dim_date

\* Behind the tests of dim_zone, the join finds at most one zone row.
JoinsAreSingle ==
    /\ build.zones = "passed" => Cardinality(dim_zone) <= 1
    /\ build.facts = "staged" => build.copies = 1

WarehouseInv ==
    /\ WarehouseTypeOK
    /\ DatesInUseExist
    /\ StagedDatesExist
    /\ JoinsAreSingle
    /\ FactsAreUnique

-----------------------------------------------------------------------------
(* The inductive invariant: the workflow.                                   *)

BuildsBelongToTask == task # "dbt_build" => build.outcome = "none"

\* An ingestion task works on a version of its own partition; no other task has
\* one to decide about.
VersionFitsTask ==
    /\ task \in EnsureTasks /\ version # 0 => PartitionOf[version] = PartitionOfTask(task)
    /\ decision # "none" => task \in EnsureTasks /\ version # 0

HasZones == \E v \in VersionsOf(ZonePartition) : status[v] = "loaded"

HasEvaluated(service) ==
    \E v \in VersionsOf(<<service, month>>) : status[v] = "loaded" /\ v \in evaluated

HasFacts(service) ==
    \E v \in VersionsOf(<<service, month>>) :
        status[v] = "loaded" /\ v \in evaluated /\ fct_trips[v] = 1

\* What the tasks behind the running one have left.
TasksLeaveResults ==
    /\ task \in {"ensure_yellow_loaded", "quality_yellow", "ensure_green_loaded",
                 "quality_green", "dbt_build", "complete"} => HasZones
    /\ task \in {"ensure_green_loaded", "quality_green", "dbt_build", "complete"}
         => HasEvaluated("yellow")
    /\ task \in {"dbt_build", "complete"} => HasEvaluated("green")

BuildsLeaveFacts ==
    build.outcome = "succeeded" \/ task = "complete" => HasFacts("yellow") /\ HasFacts("green")

DagInv ==
    /\ TypeOK
    /\ WarehouseInv
    /\ BuildsBelongToTask
    /\ VersionFitsTask
    /\ TasksLeaveResults
    /\ BuildsLeaveFacts

-----------------------------------------------------------------------------
(* What a step does to the tables.                                          *)

Ingests ==
    /\ \E v \in Versions : Register(v) \/ Load(v)
    /\ UNCHANGED <<marts, build>>

\* The steps of an ingestion task that neither end nor begin an attempt.
Ingesting == DecideIngestion \/ RegisterVersion \/ LoadVersion

Discards == build' = NoBuild /\ UNCHANGED <<status, marts>>

LEMMA StepKinds ==
    ASSUME [Next]_vars, TypeOK
    PROVE  \/ UNCHANGED warehouse_vars \/ Ingests \/ StartBuild \/ Discards
           \/ (Running /\ task = "dbt_build" /\ BuildStep)
           \/ BreakBuild
BY DEF Next, vars, warehouse_vars, marts, dag, TypeOK, TriggerRun, TaskStep, PrepareSource,
   Ingesting, DecideIngestion, RegisterVersion, LoadVersion, FinishEnsure, LoseRace,
   RaiseForRevision, EvaluateQuality, StartTaskBuild, BuildTaskStep,
   FinishBuild, TaskFails, OperatorIngests, Ingests, Discards, Running, BuildStep, TestZones,
   BuildDimZone, TestDimZone, BuildDimDate, StageFacts, CommitFacts, EndBuild

\* A loaded version stays loaded.
LEMMA LoadedStays ==
    ASSUME [Next]_vars, TypeOK, NEW v \in Versions, status[v] = "loaded"
    PROVE  status'[v] = "loaded"
<1>1. CASE Ingests
  BY <1>1 DEF Ingests, Register, Load, TypeOK, WarehouseTypeOK
<1>2. UNCHANGED status \/ Ingests
  BY StepKinds DEF warehouse_vars, marts, StartBuild, Discards, BreakBuild, BuildStep, TestZones,
     BuildDimZone, TestDimZone, BuildDimDate, StageFacts, CommitFacts, EndBuild
<1>. QED  BY <1>1, <1>2

\* A set of zone versions has a size.
LEMMA ZoneCount ==
    ASSUME NEW S, S \subseteq ZoneVersions
    PROVE  IsFiniteSet(S) /\ Cardinality(S) \in Nat /\ (Cardinality(S) = 0 <=> S = {})
<1>1. S \in SUBSET Versions
  BY DEF ZoneVersions
<1>2. IsFiniteSet(S)
  BY <1>1, VersionsAssumption, FS_Subset
<1>. QED  BY <1>2, FS_CardinalityType, FS_EmptySet

LEMMA NoBuildType == NoBuild \in Build
BY DEF NoBuild, Build

LEMMA IngestsKeepsWarehouse ==
    ASSUME WarehouseInv, Ingests
    PROVE  WarehouseInv'
<1> USE DEF WarehouseInv, WarehouseTypeOK
<1>1. PICK v \in Versions : Register(v) \/ Load(v)
  BY DEF Ingests
<1>2. status' \in [Versions -> {"absent", "ready", "revision_detected", "loaded"}]
  BY <1>1 DEF Register, Load
<1>3. \A u \in Versions : status[u] = "loaded" => status'[u] = "loaded"
  BY <1>1 DEF Register, Load
<1>4. CanonicalTrips \subseteq CanonicalTrips'
  BY <1>3 DEF CanonicalTrips, Loaded, TripVersions
<1>5. UNCHANGED <<dim_zone, dim_date, fct_trips, known_dates, build>>
  BY DEF Ingests, marts
<1>. QED
  BY <1>2, <1>3, <1>4, <1>5 DEF DatesInUseExist, StagedDatesExist, JoinsAreSingle, FactsAreUnique

LEMMA NewBuildKeepsWarehouse ==
    ASSUME WarehouseInv, UNCHANGED <<status, marts>>,
           build' = NoBuild \/ build' = [NoBuild EXCEPT !.outcome = "running"]
    PROVE  WarehouseInv'
<1> USE DEF WarehouseInv, WarehouseTypeOK
<1>1. build' \in Build
  BY DEF NoBuild, Build
<1>2. build'.staged = {} /\ build'.dated = {} /\ build'.zones = "todo" /\ build'.facts = "todo"
  BY DEF NoBuild
<1>. QED
  BY <1>1, <1>2 DEF marts, DatesInUseExist, StagedDatesExist, JoinsAreSingle, FactsAreUnique,
     CanonicalTrips, Loaded, TripVersions

LEMMA BuildKeepsWarehouse ==
    ASSUME WarehouseInv, BuildStep \/ BreakBuild
    PROVE  WarehouseInv'
<1> USE DEF WarehouseInv, WarehouseTypeOK
<1>1. UNCHANGED status /\ CanonicalTrips' = CanonicalTrips
  BY DEF BuildStep, TestZones, BuildDimZone, TestDimZone, BuildDimDate, StageFacts, CommitFacts,
     EndBuild, BreakBuild, CanonicalTrips, Loaded, TripVersions
<1>2. CASE TestZones
  <2>1. UNCHANGED marts /\ \E z \in {"tested", "failed"} : build' = [build EXCEPT !.zones = z]
    BY <1>2 DEF TestZones
  <2>. QED
    BY <1>1, <2>1 DEF marts, Build, DatesInUseExist, StagedDatesExist, JoinsAreSingle,
       FactsAreUnique
<1>3. CASE BuildDimZone
  BY <1>1, <1>3 DEF BuildDimZone, Build, DatesInUseExist, StagedDatesExist, JoinsAreSingle,
     FactsAreUnique
<1>4. CASE TestDimZone
  <2>1. UNCHANGED marts
        /\ \/ build' = [build EXCEPT !.zones = "passed"] /\ Cardinality(dim_zone) <= 1
           \/ build' = [build EXCEPT !.zones = "failed"]
    BY <1>4 DEF TestDimZone
  <2>. QED
    BY <1>1, <2>1 DEF marts, Build, DatesInUseExist, StagedDatesExist, JoinsAreSingle,
       FactsAreUnique
<1>5. CASE BuildDimDate
  <2>1. build.dated = {} /\ dim_date' = ObservedDates
    BY <1>5 DEF BuildDimDate, StagedDatesExist
  <2>2. \A v \in CanonicalTrips : PartitionOf[v] \in dim_date'
    BY <2>1 DEF ObservedDates
  <2>3. dim_date' \subseteq Partitions
    BY <2>1 DEF ObservedDates, Partitions, CanonicalTrips, Loaded
  <2>. QED
    BY <1>1, <1>5, <2>1, <2>2, <2>3 DEF BuildDimDate, Build, DatesInUseExist, StagedDatesExist,
       JoinsAreSingle, FactsAreUnique
<1>6. CASE StageFacts
  <2> DEFINE dated == {v \in NewVersions : PartitionOf[v] \in dim_date}
             copies == IF dim_zone = {} THEN 1 ELSE Cardinality(dim_zone)
  <2>1. /\ UNCHANGED marts
        /\ build' = [build EXCEPT !.facts = "staged", !.staged = NewVersions,
                                  !.dated = dated, !.copies = copies]
        /\ build.zones = "passed" /\ build.dates = "built"
    BY <1>6 DEF StageFacts, DimensionsReady
  <2>2. copies = 1
    BY <2>1, ZoneCount DEF JoinsAreSingle
  <2>3. NewVersions \subseteq CanonicalTrips /\ NewVersions \subseteq Versions
    BY DEF NewVersions, CanonicalTrips, Loaded
  <2> HIDE DEF copies
  <2>4. build' \in Build
    BY <2>1, <2>2, <2>3 DEF Build
  <2>5. /\ build'.staged = NewVersions /\ build'.dated = dated /\ build'.copies = copies
        /\ build'.dates = "built" /\ build'.zones = "passed"
    BY <2>1 DEF Build
  <2>. QED
    BY <1>1, <2>1, <2>2, <2>3, <2>4, <2>5 DEF marts, DatesInUseExist, StagedDatesExist,
       JoinsAreSingle, FactsAreUnique
<1>7. CASE CommitFacts
  <2>1. /\ fct_trips' = [v \in Versions |-> IF v \in build.staged THEN 1 ELSE fct_trips[v]]
        /\ known_dates' = (known_dates \ build.staged) \cup build.dated
        /\ build' = [build EXCEPT !.facts = "built"]
        /\ UNCHANGED <<dim_zone, dim_date>>
    BY <1>7 DEF CommitFacts, JoinsAreSingle
  <2>2. \A v \in CanonicalTrips : v \in Versions /\ status[v] = "loaded"
    BY DEF CanonicalTrips, Loaded
  <2>3. FactsAreUnique'
    BY <1>1, <2>1, <2>2 DEF FactsAreUnique, StagedDatesExist
  <2>4. DatesInUseExist'
    BY <1>1, <2>1 DEF DatesInUseExist, StagedDatesExist
  <2>5. WarehouseTypeOK'
    BY <1>1, <2>1, <2>2 DEF Build, StagedDatesExist
  <2>. QED
    BY <1>1, <2>1, <2>3, <2>4, <2>5 DEF Build, StagedDatesExist, JoinsAreSingle
<1>8. CASE EndBuild \/ BreakBuild
  <2>1. UNCHANGED marts /\ \E o \in {"succeeded", "failed"} : build' = [build EXCEPT !.outcome = o]
    BY <1>8 DEF EndBuild, BreakBuild
  <2>. QED
    BY <1>1, <2>1 DEF marts, Build, DatesInUseExist, StagedDatesExist, JoinsAreSingle,
       FactsAreUnique
<1>. QED  BY <1>2, <1>3, <1>4, <1>5, <1>6, <1>7, <1>8 DEF BuildStep

LEMMA StepWarehouse ==
    ASSUME DagInv, [Next]_vars
    PROVE  WarehouseInv'
<1>1. WarehouseInv /\ TypeOK
  BY DEF DagInv
<1>2. CASE UNCHANGED warehouse_vars
  BY <1>1, <1>2 DEF warehouse_vars, WarehouseInv, WarehouseTypeOK, DatesInUseExist,
     StagedDatesExist,
     JoinsAreSingle, FactsAreUnique, CanonicalTrips, Loaded, TripVersions
<1>3. CASE StartBuild \/ Discards
  BY <1>1, <1>3, NewBuildKeepsWarehouse DEF StartBuild, Discards
<1>. QED
  BY <1>1, <1>2, <1>3, StepKinds, IngestsKeepsWarehouse, BuildKeepsWarehouse

-----------------------------------------------------------------------------
(* What a step does to the workflow.                                        *)

\* The next task, spelled out.
LEMMA NextTask ==
    ASSUME task \in TaskNames, Succeed
    PROVE  /\ tries' = 1 /\ version' = 0 /\ decision' = "none"
           /\ disturbed' = [disturbed EXCEPT !.rivals = 0]
           /\ task = "ensure_taxi_zones" => task' = "ensure_yellow_loaded"
           /\ task = "ensure_yellow_loaded" => task' = "quality_yellow"
           /\ task = "quality_yellow" => task' = "ensure_green_loaded"
           /\ task = "ensure_green_loaded" => task' = "quality_green"
           /\ task = "quality_green" => task' = "dbt_build"
           /\ task = "dbt_build" => task' = "complete"
<1> DEFINE i == CHOOSE j \in DOMAIN Tasks : Tasks[j] = task
<1>1. Len(Tasks) = 6 /\ DOMAIN Tasks = 1..6
  BY DEF Tasks
<1>2. /\ Tasks[1] = "ensure_taxi_zones" /\ Tasks[2] = "ensure_yellow_loaded"
      /\ Tasks[3] = "quality_yellow" /\ Tasks[4] = "ensure_green_loaded"
      /\ Tasks[5] = "quality_green" /\ Tasks[6] = "dbt_build"
  BY DEF Tasks
<1>3. i \in 1..6 /\ Tasks[i] = task
  BY <1>1 DEF TaskNames
<1>4. /\ tries' = 1 /\ version' = 0 /\ decision' = "none"
      /\ disturbed' = [disturbed EXCEPT !.rivals = 0]
      /\ task' = IF i < 6 THEN Tasks[i + 1] ELSE "complete"
  BY <1>1 DEF Succeed
<1> HIDE DEF i
<1>5. i = 1 \/ i = 2 \/ i = 3 \/ i = 4 \/ i = 5 \/ i = 6
  BY <1>3
<1>. QED  BY <1>2, <1>3, <1>4, <1>5

LEMMA NamesOfTasks ==
    TaskNames = {"ensure_taxi_zones", "ensure_yellow_loaded", "quality_yellow",
                 "ensure_green_loaded", "quality_green", "dbt_build"}
<1>1. DOMAIN Tasks = 1..6
  BY DEF Tasks
<1>2. 1..6 = {1, 2, 3, 4, 5, 6}
  OBVIOUS
<1>. QED  BY <1>1, <1>2 DEF TaskNames, Tasks

LEMMA AfterRetryOrFail ==
    ASSUME TypeOK, task \in TaskNames, RetryOrFail
    PROVE  /\ tries' \in 0..MaxTries /\ version' = 0 /\ decision' = "none"
           /\ task' = task \/ task' = "failed"
BY DEF TypeOK, RetryOrFail, MaxTries

\* Every action keeps the types of the workflow.
LEMMA StepDagTypes ==
    ASSUME DagInv, [Next]_vars
    PROVE  TypeOK'
<1> USE DEF DagInv, TypeOK, MaxTries
<1>1. WarehouseTypeOK'
  BY StepWarehouse DEF WarehouseInv
<1>2. CASE UNCHANGED vars
  BY <1>1, <1>2 DEF vars
<1>3. CASE TriggerRun
  <2>1. task' = "ensure_taxi_zones" /\ tries' = 1 /\ version' = 0 /\ month' \in Months
        /\ decision' = "none"
    BY <1>3 DEF TriggerRun, Tasks
  <2>2. dag_runs' \in 0..MaxDagRuns
    <3>1. dag_runs < MaxDagRuns /\ dag_runs' = dag_runs + 1
      BY <1>3 DEF TriggerRun
    <3>. QED  BY <3>1, DagBoundsAssumption
  <2>3. disturbed' \in Disturbed
    BY <1>3 DEF TriggerRun, Undisturbed, Disturbed
  <2>. QED  BY <1>1, <1>3, <2>1, <2>2, <2>3, NamesOfTasks DEF TriggerRun
<1>4. CASE PrepareSource \/ Ingesting
  BY <1>1, <1>4 DEF PrepareSource, Ingesting, DecideIngestion, RegisterVersion, LoadVersion, dag
<1>5. CASE FinishEnsure
  <2>1. task' \in TaskNames \cup {"none", "complete", "failed"} /\ tries' = 1 /\ version' = 0
        /\ decision' = "none" /\ disturbed' = [disturbed EXCEPT !.rivals = 0]
    BY <1>5, NextTask, NamesOfTasks DEF FinishEnsure, EnsureTasks
  <2>2. disturbed' \in Disturbed
    BY <2>1 DEF Disturbed
  <2>. QED  BY <1>1, <1>5, <2>1, <2>2 DEF FinishEnsure
<1>12. CASE LoseRace
  <2>1. /\ tries' \in 0..MaxTries /\ version' = 0 /\ decision' = "none"
        /\ task' = task \/ task' = "failed"
    BY <1>12, AfterRetryOrFail, NamesOfTasks DEF LoseRace, EnsureTasks
  <2>. QED  BY <1>1, <1>12, <2>1 DEF LoseRace
<1>6. CASE RaiseForRevision
  <2>1. /\ tries' \in 0..MaxTries /\ version' = 0 /\ decision' = "none"
        /\ task' = task \/ task' = "failed"
    BY <1>6, AfterRetryOrFail, NamesOfTasks DEF RaiseForRevision, EnsureTasks
  <2>2. disturbed' \in Disturbed
    BY <1>6 DEF RaiseForRevision, Disturbed
  <2>. QED  BY <1>1, <1>6, <2>1, <2>2 DEF RaiseForRevision
<1>7. CASE EvaluateQuality
  <2>1. task' \in TaskNames \cup {"none", "complete", "failed"} /\ tries' = 1 /\ version' = 0
        /\ decision' = "none" /\ disturbed' = [disturbed EXCEPT !.rivals = 0]
    BY <1>7, NextTask, NamesOfTasks DEF EvaluateQuality
  <2>2. evaluated' \subseteq TripVersions
    <3>1. PICK v \in Loaded : PartitionOf[v] = PartitionOfTask(task) /\ evaluated' = evaluated \cup {v}
      BY <1>7 DEF EvaluateQuality
    <3>2. PartitionOfTask(task) # ZonePartition
      BY <1>7, ServicesAssumption DEF EvaluateQuality, PartitionOfTask
    <3>. QED  BY <3>1, <3>2 DEF TripVersions, ZoneVersions, Loaded
  <2>3. disturbed' \in Disturbed
    BY <2>1 DEF Disturbed
  <2>. QED  BY <1>1, <1>7, <2>1, <2>2, <2>3 DEF EvaluateQuality
<1>8. CASE StartTaskBuild \/ BuildTaskStep
  BY <1>1, <1>8 DEF StartTaskBuild, BuildTaskStep, dag
<1>9. CASE FinishBuild
  <2>1. /\ tries' \in 0..MaxTries /\ version' = 0 /\ decision' = "none"
        /\ task' \in TaskNames \cup {"none", "complete", "failed"}
        /\ UNCHANGED disturbed \/ disturbed' = [disturbed EXCEPT !.rivals = 0]
    BY <1>9, NextTask, AfterRetryOrFail, NamesOfTasks DEF FinishBuild
  <2>2. disturbed' \in Disturbed
    BY <2>1 DEF Disturbed
  <2>. QED  BY <1>1, <1>9, <2>1, <2>2 DEF FinishBuild
<1>10. CASE TaskFails
  <2>1. /\ tries' \in 0..MaxTries /\ version' \in Versions \cup {0}
        /\ decision' \in {"none", "register", "load"}
        /\ task' = task \/ task' = "failed"
    BY <1>10, AfterRetryOrFail DEF TaskFails
  <2>2. disturbed' \in Disturbed
    BY <1>10 DEF TaskFails, Disturbed
  <2>3. faults' \in 0..MaxFaults
    <3>1. faults < MaxFaults /\ faults' = faults + 1
      BY <1>10 DEF TaskFails
    <3>. QED  BY <3>1, DagBoundsAssumption
  <2>. QED  BY <1>1, <1>10, <2>1, <2>2, <2>3 DEF TaskFails
<1>11. CASE OperatorIngests
  <2>1. disturbed' \in Disturbed
    BY <1>11 DEF OperatorIngests, Disturbed
  <2>. QED  BY <1>1, <1>11, <2>1 DEF OperatorIngests
<1>. QED
  BY <1>2, <1>3, <1>4, <1>5, <1>6, <1>7, <1>8, <1>9, <1>10, <1>11, <1>12 DEF Next, TaskStep,
     Ingesting

\* A build runs inside its task only.
LEMMA StepBuildsBelong ==
    ASSUME DagInv, [Next]_vars
    PROVE  BuildsBelongToTask'
<1> USE DEF DagInv, BuildsBelongToTask
<1>1. CASE UNCHANGED vars \/ TriggerRun \/ PrepareSource \/ Ingesting \/ FinishEnsure
           \/ LoseRace \/ RaiseForRevision \/ EvaluateQuality \/ OperatorIngests
  <2>1. UNCHANGED build /\ (task # "dbt_build" \/ task' = task)
    BY <1>1 DEF vars, TriggerRun, PrepareSource, Ingesting, DecideIngestion, RegisterVersion,
       LoadVersion, FinishEnsure, LoseRace, RaiseForRevision,
       EvaluateQuality, OperatorIngests, EnsureTasks, warehouse_vars, dag
  <2>. QED  BY <2>1
<1>2. CASE StartTaskBuild \/ BuildTaskStep
  BY <1>2 DEF StartTaskBuild, BuildTaskStep, dag
<1>3. CASE FinishBuild \/ TaskFails
  BY <1>3 DEF FinishBuild, TaskFails, NoBuild, Running
<1>. QED  BY <1>1, <1>2, <1>3 DEF Next, TaskStep, Ingesting

\* A version is given up with its task, and when the task is tried again.
LEMMA StepVersionFits ==
    ASSUME DagInv, [Next]_vars
    PROVE  VersionFitsTask'
<1> USE DEF DagInv, VersionFitsTask
<1>1. CASE PrepareSource
  BY <1>1 DEF PrepareSource, PartitionOfTask
<1>2. CASE TriggerRun \/ FinishEnsure \/ LoseRace \/ RaiseForRevision \/ EvaluateQuality \/ FinishBuild
  BY <1>2 DEF TriggerRun, FinishEnsure, LoseRace, RaiseForRevision, EvaluateQuality, FinishBuild,
     Succeed,
     RetryOrFail
<1>3. CASE TaskFails
  <2>1. (version' = 0 /\ decision' = "none") \/ UNCHANGED <<task, version, decision>>
    BY <1>3 DEF TaskFails, RetryOrFail
  <2>2. UNCHANGED month
    BY <1>3 DEF TaskFails
  <2>. QED  BY <2>1, <2>2 DEF PartitionOfTask
<1>5. CASE Ingesting
  BY <1>5 DEF Ingesting, DecideIngestion, RegisterVersion, LoadVersion, PartitionOfTask
<1>4. CASE UNCHANGED vars \/ StartTaskBuild \/ BuildTaskStep \/ OperatorIngests
  <2>1. UNCHANGED <<task, version, decision, month>>
    BY <1>4 DEF vars, StartTaskBuild, BuildTaskStep, OperatorIngests, dag
  <2>. QED  BY <2>1 DEF PartitionOfTask
<1>. QED  BY <1>1, <1>2, <1>3, <1>4, <1>5 DEF Next, TaskStep, Ingesting

\* Within a run, what tasks have left is never taken away.
LEMMA ResultsStay ==
    ASSUME DagInv, [Next]_vars, ~TriggerRun
    PROVE  /\ HasZones => HasZones'
           /\ \A s : HasEvaluated(s) => HasEvaluated(s)'
           /\ \A s : HasFacts(s) => HasFacts(s)'
<1>1. TypeOK /\ WarehouseInv
  BY DEF DagInv
<1>2. \A v \in Versions : status[v] = "loaded" => status'[v] = "loaded"
  BY <1>1, LoadedStays
<1>3. month' = month /\ evaluated \subseteq evaluated'
  BY DEF Next, vars, TaskStep, PrepareSource, Ingesting, DecideIngestion, RegisterVersion,
     LoadVersion, FinishEnsure, LoseRace, RaiseForRevision,
     EvaluateQuality, StartTaskBuild, BuildTaskStep, FinishBuild, TaskFails, OperatorIngests, dag
<1>4. \A v \in Versions : fct_trips[v] = 1 => fct_trips'[v] = 1
  <2>1. UNCHANGED fct_trips \/ CommitFacts
    BY <1>1, StepKinds DEF warehouse_vars, marts, Ingests, StartBuild, Discards, BreakBuild,
       BuildStep,
       TestZones, BuildDimZone, TestDimZone, BuildDimDate, StageFacts, EndBuild
  <2>. QED  BY <1>1, <2>1 DEF CommitFacts, WarehouseInv, JoinsAreSingle
<1>. QED  BY <1>2, <1>3, <1>4 DEF HasZones, HasEvaluated, HasFacts, VersionsOf

\* A task that starts finds what the tasks before it had to leave.
LEMMA StepResultsLeft ==
    ASSUME DagInv, [Next]_vars
    PROVE  TasksLeaveResults'
<1> USE DEF DagInv
<1>1. CASE TriggerRun
  BY <1>1 DEF TriggerRun, Tasks, TasksLeaveResults
<1>2. ASSUME ~TriggerRun, task' = task \/ task' = "failed" PROVE TasksLeaveResults'
  BY <1>2, ResultsStay DEF TasksLeaveResults
<1>3. CASE FinishEnsure
  <2>1. task \in TaskNames /\ Succeed /\ ~TriggerRun
    BY <1>3, NamesOfTasks DEF FinishEnsure, EnsureTasks, TriggerRun
  <2>2. task = "ensure_taxi_zones" => HasZones'
    <3> SUFFICES ASSUME task = "ensure_taxi_zones" PROVE HasZones
      BY <2>1, ResultsStay
    <3>1. version \in Versions /\ status[version] = "loaded"
      BY <1>3 DEF FinishEnsure, TypeOK
    <3>2. PartitionOf[version] = ZonePartition
      BY <1>3 DEF FinishEnsure, VersionFitsTask, PartitionOfTask
    <3>. QED  BY <3>1, <3>2 DEF HasZones, VersionsOf
  <2>. QED  BY <1>3, <2>1, <2>2, NextTask, ResultsStay DEF FinishEnsure, EnsureTasks,
       TasksLeaveResults
<1>4. CASE EvaluateQuality
  <2>1. task \in TaskNames /\ Succeed /\ ~TriggerRun
    BY <1>4, NamesOfTasks DEF EvaluateQuality, TriggerRun
  <2>2. PICK v \in Loaded : PartitionOf[v] = PartitionOfTask(task) /\ evaluated' = evaluated \cup {v}
    BY <1>4 DEF EvaluateQuality
  <2>3. v \in Versions /\ status'[v] = "loaded" /\ v \in evaluated' /\ month' = month
    BY <1>4, <2>2 DEF EvaluateQuality, Loaded, warehouse_vars
  <2>4. /\ task = "quality_yellow" => HasEvaluated("yellow")'
        /\ task = "quality_green" => HasEvaluated("green")'
    BY <2>2, <2>3 DEF PartitionOfTask, HasEvaluated, VersionsOf
  <2>. QED  BY <1>4, <2>1, <2>4, NextTask, ResultsStay DEF EvaluateQuality, TasksLeaveResults
<1>5. CASE FinishBuild
  <2>1. task \in TaskNames /\ ~TriggerRun /\ task = "dbt_build"
    BY <1>5, NamesOfTasks DEF FinishBuild, TriggerRun
  <2>2. CASE Succeed
    BY <2>1, <2>2, NextTask, ResultsStay DEF TasksLeaveResults
  <2>3. CASE RetryOrFail
    BY <1>2, <2>1, <2>3, AfterRetryOrFail
  <2>. QED  BY <1>5, <2>2, <2>3 DEF FinishBuild
<1>6. CASE LoseRace \/ RaiseForRevision \/ TaskFails
  <2>1. task' = task \/ task' = "failed"
    BY <1>6 DEF LoseRace, RaiseForRevision, TaskFails, RetryOrFail
  <2>. QED  BY <1>1, <1>2, <2>1
<1>7. CASE UNCHANGED vars \/ PrepareSource \/ Ingesting \/ StartTaskBuild \/ BuildTaskStep
           \/ OperatorIngests
  <2>1. task' = task
    BY <1>7 DEF vars, PrepareSource, Ingesting, DecideIngestion, RegisterVersion, LoadVersion,
       StartTaskBuild, BuildTaskStep, OperatorIngests, dag
  <2>. QED  BY <1>1, <1>2, <2>1
<1>. QED  BY <1>1, <1>3, <1>4, <1>5, <1>6, <1>7 DEF Next, TaskStep, Ingesting

\* A build that passes its tests has made facts of the versions evaluated.
LEMMA StepFactsLeft ==
    ASSUME DagInv, [Next]_vars
    PROVE  BuildsLeaveFacts'
<1> USE DEF DagInv
<1>1. CASE TriggerRun
  BY <1>1 DEF TriggerRun, Tasks, BuildsLeaveFacts, BuildsBelongToTask
<1>2. ASSUME ~TriggerRun, build'.outcome = "succeeded" => build.outcome = "succeeded",
             task' = "complete" => task = "complete" \/ build.outcome = "succeeded"
      PROVE  BuildsLeaveFacts'
  BY <1>2, ResultsStay DEF BuildsLeaveFacts
<1>3. ASSUME BuildTaskStep, EndBuild, FactsPass PROVE BuildsLeaveFacts'
  <2>1. task = "dbt_build" /\ UNCHANGED <<status, fct_trips, evaluated, month>>
    BY <1>3 DEF BuildTaskStep, EndBuild, marts, dag
  <2>2. \A s \in {"yellow", "green"} : HasEvaluated(s) => HasFacts(s)
    <3> SUFFICES ASSUME NEW s \in {"yellow", "green"}, HasEvaluated(s) PROVE HasFacts(s)
      OBVIOUS
    <3>1. PICK v \in VersionsOf(<<s, month>>) : status[v] = "loaded" /\ v \in evaluated
      BY DEF HasEvaluated
    <3>2. v \in TripVersions /\ v \in Loaded
      BY <3>1 DEF TypeOK, VersionsOf, Loaded
    <3>3. fct_trips[v] = 1
      BY <1>3, <3>2 DEF FactsPass
    <3>. QED  BY <3>1, <3>3 DEF HasFacts
  <2>3. HasFacts("yellow") /\ HasFacts("green")
    BY <2>1, <2>2 DEF TasksLeaveResults
  <2>4. \A s : HasFacts(s)' <=> HasFacts(s)
    BY <2>1 DEF HasFacts, VersionsOf
  <2>. QED  BY <2>3, <2>4 DEF BuildsLeaveFacts
<1>4. ASSUME BuildTaskStep, ~(EndBuild /\ FactsPass) PROVE BuildsLeaveFacts'
  <2>1. task' = task /\ task = "dbt_build" /\ ~TriggerRun
    BY <1>4 DEF BuildTaskStep, dag, TriggerRun
  <2>2. build'.outcome = "succeeded" => build.outcome = "succeeded"
    BY <1>4 DEF BuildTaskStep, BuildStep, TestZones, BuildDimZone, TestDimZone, BuildDimDate,
       StageFacts, CommitFacts, EndBuild, TypeOK, WarehouseTypeOK, Build
  <2>. QED  BY <1>2, <2>1, <2>2
<1>5. CASE StartTaskBuild
  <2>1. task' = task /\ build'.outcome = "running" /\ ~TriggerRun
    BY <1>5 DEF StartTaskBuild, StartBuild, NoBuild, dag, TriggerRun
  <2>. QED  BY <1>2, <2>1
<1>6. CASE FinishBuild
  <2>1. task = "dbt_build" /\ build'.outcome = "none" /\ ~TriggerRun
    BY <1>6 DEF FinishBuild, NoBuild, TriggerRun
  <2>2. task' = "complete" => build.outcome = "succeeded"
    BY <1>6, <2>1 DEF FinishBuild, BuildSucceeded, RetryOrFail
  <2>. QED  BY <1>2, <2>1, <2>2
<1>7. CASE TaskFails
  <2>1. task' # "complete" /\ ~TriggerRun
    BY <1>7, NamesOfTasks DEF TaskFails, RetryOrFail, TriggerRun
  <2>2. build'.outcome # "succeeded"
    BY <1>7 DEF TaskFails, BreakBuild, NoBuild, TypeOK, WarehouseTypeOK, Build
  <2>. QED  BY <1>2, <2>1, <2>2
<1>8. CASE FinishEnsure \/ EvaluateQuality
  <2>1. task \in TaskNames /\ task # "dbt_build" /\ Succeed /\ UNCHANGED build /\ ~TriggerRun
    BY <1>8, NamesOfTasks DEF FinishEnsure, EvaluateQuality, EnsureTasks, warehouse_vars, TriggerRun
  <2>2. task' # "complete"
    BY <2>1, NextTask, NamesOfTasks
  <2>. QED  BY <1>2, <2>1, <2>2
<1>9. CASE UNCHANGED vars \/ PrepareSource \/ Ingesting \/ LoseRace \/ RaiseForRevision
           \/ OperatorIngests
  <2>1. UNCHANGED build /\ (task' = task \/ task' = "failed")
    BY <1>9 DEF vars, PrepareSource, Ingesting, DecideIngestion, RegisterVersion, LoadVersion,
       LoseRace, RaiseForRevision, OperatorIngests, RetryOrFail,
       warehouse_vars, dag
  <2>. QED  BY <1>1, <1>2, <2>1
<1>. QED
  BY <1>1, <1>3, <1>4, <1>5, <1>6, <1>7, <1>8, <1>9 DEF Next, TaskStep, Ingesting

LEMMA InitDag == Init => DagInv
<1> SUFFICES ASSUME Init PROVE DagInv
  OBVIOUS
<1>1. WarehouseTypeOK
  BY NoBuildType DEF Init, WarehouseInit, WarehouseTypeOK
<1>2. TypeOK
  BY <1>1, DagBoundsAssumption DEF Init, TypeOK, MaxTries, Undisturbed, Disturbed
<1>3. WarehouseInv
  BY <1>1 DEF Init, WarehouseInit, WarehouseInv, NoBuild, DatesInUseExist, StagedDatesExist,
     JoinsAreSingle, FactsAreUnique
<1>4. BuildsBelongToTask /\ VersionFitsTask /\ TasksLeaveResults /\ BuildsLeaveFacts
  BY DEF Init, WarehouseInit, NoBuild, BuildsBelongToTask, VersionFitsTask, EnsureTasks,
     TasksLeaveResults, BuildsLeaveFacts
<1>. QED  BY <1>2, <1>3, <1>4 DEF DagInv

-----------------------------------------------------------------------------
(* The theorems.                                                            *)

\* The invariant holds in every reachable state, for all values of the constants.
THEOREM DagInvariant == Spec => []DagInv
<1>1. DagInv /\ [Next]_vars => DagInv'
  <2> SUFFICES ASSUME DagInv, [Next]_vars PROVE DagInv'
    OBVIOUS
  <2>. QED
    BY StepWarehouse, StepDagTypes, StepBuildsBelong, StepVersionFits, StepResultsLeft, StepFactsLeft DEF DagInv
<1>. QED  BY <1>1, InitDag, PTL DEF Spec

\* Every variable keeps its type.
THEOREM DagTypeCorrect == Spec => []TypeOK
<1>1. DagInv => TypeOK
  BY DEF DagInv
<1>. QED  BY <1>1, DagInvariant, PTL

\* No row of a source is a fact twice, or a fact without being loaded.
THEOREM FactsStayUnique == Spec => []FactsAreUnique
<1>1. DagInv => FactsAreUnique
  BY DEF DagInv, WarehouseInv
<1>. QED  BY <1>1, DagInvariant, PTL

\* The summary of the API counts every fact, also while dbt builds.
THEOREM SummariesStayComplete == Spec => []SummaryIsComplete
<1>1. DagInv => SummaryIsComplete
  BY DEF DagInv, WarehouseInv, DatesInUseExist, SummaryIsComplete, Summarized
<1>. QED  BY <1>1, DagInvariant, PTL

\* A complete run has its month loaded, evaluated and in the fact table.
THEOREM CompleteRunsAreCurrent == Spec => []CompleteMeansCurrent
<1>1. DagInv => CompleteMeansCurrent
  BY DEF DagInv, TasksLeaveResults, BuildsLeaveFacts, HasZones, HasFacts, CompleteMeansCurrent
<1>. QED  BY <1>1, DagInvariant, PTL

-----------------------------------------------------------------------------
(* Why a run fails.                                                         *)

\* A cause outside of the workflow other than operators who get ahead of a task.
HasCause ==
    disturbed.faults > 0 \/ disturbed.revision \/ Cardinality(Loaded \cap ZoneVersions) > 1

\* Loaded trips that the running build will not make facts of.
Missing ==
    {v \in CanonicalTrips : fct_trips[v] = 0 /\ ~(build.facts = "staged" /\ v \in build.staged)}

\* Without another cause, every attempt that has failed, or is bound to, has cost
\* a step of an operator of its own: the attempt after it starts with what the
\* operator has left, and a build with the rows that the one before it missed.
AttemptsCostLoads ==
    task \in TaskNames /\ ~HasCause =>
        /\ tries >= 1 /\ disturbed.rivals >= tries - 1
        /\ decision = "load" /\ status[version] # "ready" => disturbed.rivals >= tries
        /\ build.zones # "failed"
        /\ build.facts \in {"staged", "built"} /\ Missing # {} => disturbed.rivals >= tries
        /\ build.outcome = "failed" => disturbed.rivals >= tries

CausesInv ==
    /\ dim_zone \subseteq Loaded
    /\ build.outcome = "none" => build = NoBuild
    /\ AttemptsCostLoads
    /\ FailuresHaveACause

\* Within a run, causes do not go away.
LEMMA CausesStay ==
    ASSUME DagInv, [Next]_vars, ~TriggerRun, HasCause
    PROVE  HasCause'
<1>1. TypeOK
  BY DEF DagInv
<1>2. disturbed.faults > 0 => disturbed'.faults > 0
  BY <1>1 DEF Next, vars, TaskStep, PrepareSource, Ingesting, DecideIngestion, RegisterVersion,
     LoadVersion, FinishEnsure, LoseRace, RaiseForRevision,
     EvaluateQuality, StartTaskBuild, BuildTaskStep, FinishBuild, TaskFails, OperatorIngests, dag,
     Succeed, TypeOK, Disturbed
<1>3. disturbed.revision => disturbed'.revision
  BY <1>1 DEF Next, vars, TaskStep, PrepareSource, Ingesting, DecideIngestion, RegisterVersion,
     LoadVersion, FinishEnsure, LoseRace, RaiseForRevision,
     EvaluateQuality, StartTaskBuild, BuildTaskStep, FinishBuild, TaskFails, OperatorIngests, dag,
     Succeed, TypeOK, Disturbed
<1>4. Cardinality(Loaded \cap ZoneVersions) > 1 => Cardinality(Loaded' \cap ZoneVersions) > 1
  <2> DEFINE S == Loaded \cap ZoneVersions
             T == Loaded' \cap ZoneVersions
  <2>1. S \subseteq T
    BY <1>1, LoadedStays DEF Loaded
  <2>2. T \subseteq ZoneVersions /\ S \subseteq ZoneVersions
    OBVIOUS
  <2> HIDE DEF S, T
  <2>3. IsFiniteSet(T) /\ Cardinality(T) \in Nat /\ Cardinality(S) \in Nat
    BY <2>2, ZoneCount
  <2>4. Cardinality(S) <= Cardinality(T)
    BY <2>1, <2>3, FS_Subset
  <2>5. Cardinality(S) > 1 => Cardinality(T) > 1
    BY <2>3, <2>4
  <2>. QED  BY <2>5 DEF S, T
<1>. QED  BY <1>2, <1>3, <1>4 DEF HasCause

\* The zones in dim_zone are loaded, and a build that does not run is empty.
LEMMA StepDimZone ==
    ASSUME DagInv, dim_zone \subseteq Loaded, build.outcome = "none" => build = NoBuild, [Next]_vars
    PROVE  dim_zone' \subseteq Loaded' /\ (build'.outcome = "none" => build' = NoBuild)
<1>1. TypeOK
  BY DEF DagInv
<1>2. Loaded \subseteq Loaded'
  BY <1>1, LoadedStays DEF Loaded
<1>3. UNCHANGED dim_zone \/ dim_zone' = Loaded \cap ZoneVersions
  BY <1>1, StepKinds DEF warehouse_vars, marts, Ingests, StartBuild, Discards, BreakBuild,
     BuildStep,
     TestZones, BuildDimZone, TestDimZone, BuildDimDate, StageFacts, CommitFacts, EndBuild
<1>4. build'.outcome = "none" => build' = NoBuild
  <2>1. CASE UNCHANGED build
    BY <2>1
  <2>2. CASE StartBuild \/ Discards \/ BreakBuild
    BY <1>1, <2>2 DEF StartBuild, Discards, BreakBuild, NoBuild, TypeOK, WarehouseTypeOK, Build
  <2>3. CASE Running /\ BuildStep
    BY <1>1, <2>3 DEF Running, BuildStep, TestZones, BuildDimZone, TestDimZone, BuildDimDate,
       StageFacts, CommitFacts, EndBuild, TypeOK, WarehouseTypeOK, Build
  <2>. QED
    BY <1>1, <2>1, <2>2, <2>3, StepKinds DEF warehouse_vars, Ingests
<1>. QED  BY <1>2, <1>3, <1>4

\* A failed test of the facts finds a loaded version without facts.
LEMMA FailedTestMisses ==
    ASSUME DagInv, build.facts = "built", ~FactsPass
    PROVE  Missing # {}
<1>1. PICK v \in TripVersions : fct_trips[v] # IF v \in Loaded THEN 1 ELSE 0
  BY DEF FactsPass
<1>2. v \in Versions /\ fct_trips[v] \in Nat /\ fct_trips[v] <= 1
      /\ (fct_trips[v] = 1 => v \in Loaded)
  BY <1>1 DEF DagInv, TypeOK, WarehouseTypeOK, WarehouseInv, FactsAreUnique, TripVersions, Loaded
<1>3. v \in Loaded /\ fct_trips[v] = 0
  BY <1>1, <1>2
<1>. QED  BY <1>1, <1>3 DEF Missing, CanonicalTrips

\* A step of the build, without another cause, misses nothing that it did not
\* miss before.
LEMMA BuildCostsNothing ==
    ASSUME DagInv, CausesInv, BuildTaskStep, ~HasCause
    PROVE  AttemptsCostLoads'
<1>1. TypeOK /\ build \in Build /\ WarehouseInv
  BY DEF DagInv, TypeOK, WarehouseTypeOK
<1>2. /\ task = "dbt_build" /\ build.outcome = "running" /\ BuildStep
      /\ UNCHANGED <<task, tries, decision, disturbed, status>> /\ decision = "none"
  BY DEF BuildTaskStep, dag, BuildStep, Running, TestZones, BuildDimZone, TestDimZone, BuildDimDate,
     StageFacts, CommitFacts, EndBuild,
     DagInv, VersionFitsTask, EnsureTasks
<1>3. /\ tries >= 1 /\ disturbed.rivals >= tries - 1 /\ build.zones # "failed"
      /\ build.facts \in {"staged", "built"} /\ Missing # {} => disturbed.rivals >= tries
  BY <1>2, NamesOfTasks DEF CausesInv, AttemptsCostLoads
<1>4. Cardinality(Loaded \cap ZoneVersions) = 1
  <2> DEFINE S == Loaded \cap ZoneVersions
  <2>1. S \subseteq ZoneVersions
    OBVIOUS
  <2>2. S # {}
    BY <1>2 DEF DagInv, TasksLeaveResults, HasZones, VersionsOf, Loaded, ZoneVersions
  <2> HIDE DEF S
  <2>3. Cardinality(S) \in Nat /\ Cardinality(S) # 0
    BY <2>1, <2>2, ZoneCount
  <2>4. ~(Cardinality(S) > 1)
    BY DEF HasCause, S
  <2>5. Cardinality(S) = 1
    BY <2>3, <2>4
  <2>. QED  BY <2>5 DEF S
<1>5. Cardinality(dim_zone) <= 1
  <2> DEFINE S == Loaded \cap ZoneVersions
  <2>1. dim_zone \subseteq S /\ S \subseteq ZoneVersions
    BY <1>1 DEF CausesInv, WarehouseInv, WarehouseTypeOK
  <2>2. Cardinality(S) = 1
    BY <1>4
  <2> HIDE DEF S
  <2>3. IsFiniteSet(S) /\ Cardinality(dim_zone) \in Nat
    BY <2>1, ZoneCount
  <2>4. Cardinality(dim_zone) <= Cardinality(S)
    BY <2>1, <2>3, FS_Subset
  <2>. QED  BY <2>2, <2>3, <2>4
<1>6. SUFFICES /\ build'.zones # "failed"
               /\ build'.facts \in {"staged", "built"} /\ Missing' # {} => disturbed.rivals >= tries
               /\ build'.outcome = "failed" => disturbed.rivals >= tries
  BY <1>2, <1>3, NamesOfTasks DEF AttemptsCostLoads
<1>7. CASE TestZones \/ BuildDimZone \/ TestDimZone \/ BuildDimDate
  <2>1. /\ build'.zones # "failed" /\ UNCHANGED <<fct_trips, status>>
        /\ build'.facts = build.facts /\ build'.staged = build.staged
        /\ build'.outcome = "running"
    BY <1>1, <1>2, <1>3, <1>4, <1>5, <1>7 DEF TestZones, BuildDimZone, TestDimZone, BuildDimDate,
       Build, marts
  <2>2. Missing' = Missing
    BY <2>1 DEF Missing, CanonicalTrips, Loaded, TripVersions
  <2>. QED  BY <1>3, <2>1, <2>2
<1>8. CASE StageFacts
  <2>1. /\ build'.zones = build.zones /\ UNCHANGED <<fct_trips, status>>
        /\ build'.facts = "staged" /\ build'.staged = NewVersions /\ build'.outcome = "running"
    BY <1>1, <1>2, <1>8 DEF StageFacts, Build, marts
  <2>2. Missing' = {}
    BY <2>1 DEF Missing, NewVersions, CanonicalTrips, Loaded, TripVersions
  <2>. QED  BY <1>3, <2>1, <2>2
<1>9. CASE CommitFacts
  <2>1. /\ build'.zones = build.zones /\ UNCHANGED status
        /\ build.facts = "staged" /\ build.copies = 1
        /\ fct_trips' = [v \in Versions |-> IF v \in build.staged THEN build.copies ELSE fct_trips[v]]
        /\ build'.facts = "built" /\ build'.outcome = "running"
    BY <1>1, <1>2, <1>9 DEF CommitFacts, Build, marts, WarehouseInv, JoinsAreSingle
  <2>2. Missing' \subseteq Missing
    BY <1>1, <2>1 DEF Missing, CanonicalTrips, Loaded, TripVersions
  <2>. QED  BY <1>3, <2>1, <2>2
<1>10. CASE EndBuild
  <2>1. /\ build'.zones = build.zones /\ UNCHANGED <<fct_trips, status>>
        /\ build.facts = "built" /\ build'.facts = build.facts /\ build'.staged = build.staged
        /\ build'.outcome = "failed" => ~FactsPass
    BY <1>1, <1>3, <1>10 DEF EndBuild, Build, marts
  <2>2. Missing' = Missing
    BY <2>1 DEF Missing, CanonicalTrips, Loaded, TripVersions
  <2>. QED  BY <1>3, <2>1, <2>2, FailedTestMisses
<1>. QED  BY <1>2, <1>7, <1>8, <1>9, <1>10 DEF BuildStep

\* Every attempt that fails costs a load.
LEMMA StepAttempts ==
    ASSUME DagInv, CausesInv, [Next]_vars
    PROVE  AttemptsCostLoads'
<1> USE DEF MaxTries
<1>0. TypeOK /\ DagInv /\ tries \in Nat /\ disturbed \in Disturbed /\ disturbed.rivals \in Nat
  BY DEF DagInv, TypeOK, Disturbed
<1>1. SUFFICES ASSUME task' \in TaskNames, ~HasCause' PROVE AttemptsCostLoads'
  BY DEF AttemptsCostLoads
<1>2. CASE TriggerRun
  <2>1. /\ task' = "ensure_taxi_zones" /\ tries' = 1 /\ disturbed'.rivals = 0 /\ UNCHANGED build
        /\ decision' = "none"
    BY <1>2 DEF TriggerRun, Tasks, Undisturbed
  <2>2. build = NoBuild
    BY <1>0, <1>2, NamesOfTasks DEF TriggerRun, DagInv, BuildsBelongToTask, CausesInv
  <2>. QED  BY <2>1, <2>2 DEF AttemptsCostLoads, NoBuild
<1>3. CASE ~TriggerRun
  <2>1. ~HasCause
    BY <1>0, <1>1, <1>3, CausesStay
  <2>2. task \in TaskNames
    <3>1. TaskStep \/ TaskFails => task \in TaskNames
      BY NamesOfTasks DEF TaskStep, PrepareSource, Ingesting, DecideIngestion, RegisterVersion,
         LoadVersion, FinishEnsure, LoseRace, RaiseForRevision,
         EvaluateQuality, StartTaskBuild, BuildTaskStep, FinishBuild, TaskFails, EnsureTasks
    <3>2. OperatorIngests \/ UNCHANGED vars => UNCHANGED task
      BY DEF OperatorIngests, vars
    <3>. QED  BY <1>1, <1>3, <3>1, <3>2 DEF Next
  <2>3. /\ tries >= 1 /\ disturbed.rivals >= tries - 1
        /\ decision = "load" /\ status[version] # "ready" => disturbed.rivals >= tries
        /\ build.zones # "failed"
        /\ build.facts \in {"staged", "built"} /\ Missing # {} => disturbed.rivals >= tries
        /\ build.outcome = "failed" => disturbed.rivals >= tries
    BY <2>1, <2>2 DEF CausesInv, AttemptsCostLoads
  <2>12. decision # "none" => task \in EnsureTasks /\ version \in Versions
    BY <1>0 DEF DagInv, VersionFitsTask, TypeOK
  <2>13. task # "dbt_build" => build = NoBuild
    BY <1>0 DEF DagInv, BuildsBelongToTask, CausesInv
  <2>14. NoBuild.zones = "todo" /\ NoBuild.facts = "todo" /\ NoBuild.outcome = "none"
    BY DEF NoBuild
  <2>4. CASE RaiseForRevision \/ TaskFails
    <3>1. disturbed'.faults > 0 \/ disturbed'.revision
      BY <1>0, <2>4 DEF RaiseForRevision, TaskFails, Disturbed
    <3>. QED  BY <1>1, <3>1 DEF HasCause
  <2>5. CASE BuildTaskStep
    BY <1>0, <2>1, <2>5, BuildCostsNothing
  <2>6. CASE StartTaskBuild
    <3>1. /\ UNCHANGED <<task, tries, decision, disturbed>> /\ task = "dbt_build"
          /\ build'.zones = "todo" /\ build'.facts = "todo" /\ build'.outcome = "running"
      BY <2>6 DEF StartTaskBuild, StartBuild, NoBuild, dag
    <3>2. decision = "none"
      BY <2>12, <3>1 DEF EnsureTasks
    <3>. QED  BY <2>3, <3>1, <3>2 DEF AttemptsCostLoads
  <2>7. CASE FinishBuild
    <3>1. /\ build'.zones = "todo" /\ build'.facts = "todo" /\ build'.outcome = "none"
          /\ task = "dbt_build"
      BY <2>7 DEF FinishBuild, NoBuild
    <3>2. task' # "complete" /\ task' # "failed"
      BY <1>1, NamesOfTasks
    <3>3. /\ build.outcome = "failed" /\ tries < MaxTries /\ tries' = tries + 1 /\ task' = task
          /\ decision' = "none" /\ UNCHANGED disturbed
      BY <2>2, <2>7, <3>1, <3>2, NextTask DEF FinishBuild, BuildSucceeded, RetryOrFail
    <3>. QED  BY <1>0, <2>3, <3>1, <3>3 DEF AttemptsCostLoads
  <2>8. CASE FinishEnsure \/ EvaluateQuality
    <3>1. /\ tries' = 1 /\ decision' = "none" /\ UNCHANGED build /\ task # "dbt_build"
          /\ disturbed' = [disturbed EXCEPT !.rivals = 0]
      BY <2>2, <2>8, NextTask DEF FinishEnsure, EvaluateQuality, EnsureTasks, warehouse_vars
    <3>2. disturbed'.rivals = 0
      BY <1>0, <3>1 DEF Disturbed
    <3>. QED  BY <2>13, <2>14, <3>1, <3>2 DEF AttemptsCostLoads
  <2>15. CASE LoseRace
    <3>1. /\ disturbed.rivals >= tries /\ UNCHANGED <<build, disturbed>> /\ task # "dbt_build"
          /\ RetryOrFail
      BY <2>3, <2>15 DEF LoseRace, EnsureTasks, warehouse_vars
    <3>2. tries' = tries + 1 /\ decision' = "none"
      BY <1>1, <3>1, NamesOfTasks DEF RetryOrFail
    <3>. QED  BY <1>0, <2>13, <2>14, <3>1, <3>2 DEF AttemptsCostLoads
  <2>9. CASE PrepareSource \/ Ingesting
    <3>1. UNCHANGED <<task, tries, build, disturbed>> /\ task # "dbt_build"
      BY <2>9 DEF PrepareSource, Ingesting, DecideIngestion, RegisterVersion, LoadVersion,
         EnsureTasks, warehouse_vars, marts
    <3>2. decision' = "load" => status'[version'] = "ready"
      <4>1. CASE PrepareSource
        <5>1. decision = "none" /\ decision' = "none"
          BY <2>12, <4>1 DEF PrepareSource, TypeOK, DagInv, VersionFitsTask
        <5>. QED  BY <5>1
      <4>2. CASE Ingesting
        BY <4>2 DEF Ingesting, DecideIngestion, RegisterVersion, LoadVersion, warehouse_vars
      <4>. QED  BY <2>9, <4>1, <4>2
    <3>. QED  BY <2>3, <2>13, <2>14, <3>1, <3>2 DEF AttemptsCostLoads
  <2>10. CASE OperatorIngests
    <3>1. UNCHANGED <<task, tries, version, decision, build, fct_trips>>
      BY <2>10 DEF OperatorIngests, marts
    <3>2. PICK v \in Versions : /\ Register(v) \/ Load(v)
                               /\ disturbed' = IF GetsAhead(v)
                                     THEN [disturbed EXCEPT !.rivals = disturbed.rivals + 1]
                                     ELSE disturbed
      BY <2>10 DEF OperatorIngests
    <3>3. CASE GetsAhead(v)
      <4>1. task # "dbt_build" => task \in EnsureTasks
        BY <2>12, <3>3 DEF GetsAhead
      <4>2. disturbed'.rivals = disturbed.rivals + 1
        BY <1>0, <3>2, <3>3 DEF Disturbed
      <4>. QED  BY <1>0, <2>3, <2>13, <2>14, <3>1, <4>2 DEF AttemptsCostLoads
    <3>4. CASE ~GetsAhead(v)
      <4>1. UNCHANGED disturbed
        BY <3>2, <3>4
      <4>2. decision = "load" /\ status'[version] # "ready" => status[version] # "ready"
        BY <1>0, <2>12, <3>2, <3>4 DEF GetsAhead, Register, Load, TypeOK, WarehouseTypeOK
      <4>3. CASE task # "dbt_build"
        BY <2>3, <2>13, <2>14, <3>1, <4>1, <4>2, <4>3 DEF AttemptsCostLoads
      <4>4. CASE task = "dbt_build"
        <5>1. Register(v)
          BY <3>2, <3>4, <4>4 DEF GetsAhead
        <5>2. Loaded' = Loaded
          BY <1>0, <5>1 DEF Register, Loaded, TypeOK, WarehouseTypeOK
        <5>3. Missing' = Missing
          BY <3>1, <5>2 DEF Missing, CanonicalTrips, TripVersions
        <5>. QED  BY <2>3, <3>1, <4>1, <4>2, <5>3 DEF AttemptsCostLoads
      <4>. QED  BY <4>3, <4>4
    <3>. QED  BY <3>3, <3>4
  <2>11. CASE UNCHANGED vars
    <3>1. Missing' = Missing
      BY <2>11 DEF vars, Missing, CanonicalTrips, Loaded, TripVersions
    <3>. QED  BY <2>3, <2>11, <3>1 DEF vars, AttemptsCostLoads
  <2>. QED
    BY <1>3, <2>4, <2>5, <2>6, <2>7, <2>8, <2>9, <2>10, <2>11, <2>15 DEF Next, TaskStep, Ingesting
<1>. QED  BY <1>2, <1>3

\* A run that fails has a cause.
LEMMA StepFailures ==
    ASSUME DagInv, CausesInv, [Next]_vars
    PROVE  FailuresHaveACause'
<1>0. TypeOK /\ disturbed \in Disturbed /\ disturbed.rivals \in Nat
  BY DEF DagInv, TypeOK, Disturbed
<1>1. SUFFICES ASSUME task' = "failed", ~HasCause' PROVE disturbed'.rivals > 1
  BY DEF FailuresHaveACause, HasCause
<1>2. ~TriggerRun
  BY <1>1 DEF TriggerRun, Tasks
<1>3. ~HasCause
  BY <1>0, <1>1, <1>2, CausesStay
<1>4. CASE task = "failed"
  <2>2. decision = "none"
    BY <1>4, NamesOfTasks DEF DagInv, VersionFitsTask, EnsureTasks
  <2>1. UNCHANGED disturbed
    BY <1>2, <1>4, <2>2, NamesOfTasks DEF Next, vars, TaskStep, PrepareSource, Ingesting,
       DecideIngestion, RegisterVersion, LoadVersion, FinishEnsure,
       LoseRace, RaiseForRevision, EvaluateQuality, StartTaskBuild, BuildTaskStep, FinishBuild,
       TaskFails,
       OperatorIngests, GetsAhead, EnsureTasks
  <2>. QED  BY <1>3, <1>4, <2>1 DEF CausesInv, FailuresHaveACause, HasCause
<1>5. CASE task # "failed"
  <2>1. ~RaiseForRevision /\ ~TaskFails
    <3>1. RaiseForRevision \/ TaskFails => disturbed'.faults > 0 \/ disturbed'.revision
      BY <1>0 DEF RaiseForRevision, TaskFails, Disturbed
    <3>. QED  BY <1>1, <3>1 DEF HasCause
  <2>2. FinishBuild \/ LoseRace
    <3>1. ~FinishEnsure /\ ~EvaluateQuality
      BY <1>1, NextTask, NamesOfTasks DEF FinishEnsure, EvaluateQuality, EnsureTasks
    <3>. QED
      BY <1>1, <1>2, <1>5, <2>1, <3>1 DEF Next, vars, TaskStep, PrepareSource, Ingesting,
         DecideIngestion, RegisterVersion, LoadVersion,
         StartTaskBuild, BuildTaskStep, OperatorIngests, dag
  <2>3. /\ task \in TaskNames /\ UNCHANGED disturbed /\ tries = MaxTries
        /\ \/ build.outcome = "failed"
           \/ decision = "load" /\ status[version] # "ready"
    <3>1. CASE FinishBuild
      BY <1>1, <3>1, NextTask, NamesOfTasks DEF FinishBuild, BuildSucceeded, RetryOrFail
    <3>2. CASE LoseRace
      BY <1>1, <3>2, NamesOfTasks DEF LoseRace, EnsureTasks, RetryOrFail
    <3>. QED  BY <2>2, <3>1, <3>2
  <2>4. disturbed.rivals >= 2
    BY <1>3, <2>3 DEF CausesInv, AttemptsCostLoads, MaxTries
  <2>. QED  BY <1>0, <2>3, <2>4
<1>. QED  BY <1>4, <1>5

\* The invariant behind the failures of the workflow.
LEMMA CausesInvariant == Spec => []CausesInv
<1>1. Init => CausesInv
  BY NamesOfTasks DEF Init, WarehouseInit, CausesInv, AttemptsCostLoads, FailuresHaveACause
<1>2. DagInv /\ CausesInv /\ [Next]_vars => CausesInv'
  BY StepDimZone, StepAttempts, StepFailures DEF CausesInv
<1>. QED  BY <1>1, <1>2, DagInvariant, PTL DEF Spec

\* The workflow fails only for a cause outside of it; one load during the dbt
\* build is not enough, for the retry adds the rows that the first try missed.
THEOREM FailuresAreCaused == Spec => []FailuresHaveACause
<1>1. CausesInv => FailuresHaveACause
  BY DEF CausesInv
<1>. QED  BY <1>1, CausesInvariant, PTL
=============================================================================
