------------------------------- MODULE Quality -------------------------------
(***************************************************************************)
(* Quality evaluation (quality/evaluator.py, orchestration.py, cli.py):    *)
(* processes that evaluate the trip runs of a partition, each in one       *)
(* READ COMMITTED transaction, while runs and taxi zone versions are still *)
(* being loaded.  One action is one statement group of the transaction;    *)
(* what it reads is what is committed then, and its own writes.            *)
(*                                                                         *)
(* The raw rows of a loaded source never change (SourceLedger), so what a  *)
(* measurement finds depends on the run and on the zone version only: it   *)
(* is the constant RowsFailed.  Runs are numbered by run_id and zone       *)
(* versions by loaded_at, in which order they need not commit.             *)
(*                                                                         *)
(* A definition whose name ends in _Bug is a mistake one could make in the *)
(* code of the definition that follows it; no behaviour uses it.           *)
(***************************************************************************)
EXTENDS Integers, FiniteSets, FiniteSetsExt

CONSTANTS
    Evaluators,     \* processes that run quality checks
    Runs,           \* run_ids of trip ingestion runs
    PartitionOf,    \* the partition of a run
    Zones,          \* taxi zone versions, by loaded_at
    Checks,         \* number of rules in the catalog; a check is its position
    Severity,       \* the severity of a check
    RowsFailed,     \* rows that fail a check, by run and zone version
    MaxEvaluations, \* bound on the evaluations begun
    MaxFaults       \* bound on failed evaluations

ASSUME IdsAssumption == Runs \subseteq Nat /\ Zones \subseteq Nat \ {0}

ASSUME CatalogAssumption ==
    /\ Checks \in Nat \ {0}
    /\ Severity \in [1..Checks -> {"INFO", "WARNING", "ERROR"}]
    /\ RowsFailed \in [Runs -> [Zones -> [1..Checks -> Nat]]]

ASSUME QualityBoundsAssumption == MaxEvaluations \in Nat /\ MaxFaults \in Nat

VARIABLES
    run_status,     \* status of every run, "absent" before it is committed
    zones,          \* loaded taxi zone versions
    results,        \* committed ops.data_quality_results of every run
    counters,       \* committed warning_count and error_count of every run
    phase,          \* where each evaluator is in run_quality_checks
    job,            \* the local variables and the open transaction of each evaluator
    evaluations,    \* evaluations begun
    faults          \* failed evaluations

quality_db == <<run_status, zones, results, counters>>
quality_vars == <<run_status, zones, results, counters, phase, job, evaluations, faults>>

-----------------------------------------------------------------------------
(* Vocabulary.                                                              *)

Counted == {"WARNING", "ERROR"}
Counters == [Counted -> 0..Checks]

\* A stored result: the rows that failed, and the evaluation that wrote it.
Result == [failed : Nat, evaluation : 0..MaxEvaluations]
Unmeasured == [failed |-> 0, evaluation |-> 0]
Results == [1..Checks -> Result]

\* counted is the pair of counters read with the run; written the number of
\* checks upserted; alone is history: no other evaluation was under way so far.
Job == [run : Runs \cup {0}, zone : Zones \cup {0}, evaluation : 0..MaxEvaluations,
        written : 0..Checks, loaded : Counters, counted : Counters, alone : BOOLEAN]

NoCounters == [s \in Counted |-> 0]
NoJob == [run |-> 0, zone |-> 0, evaluation |-> 0, written |-> 0,
          loaded |-> NoCounters, counted |-> NoCounters, alone |-> FALSE]

Phases == {"idle", "target", "measure", "upsert", "counted"}

QualityTypeOK ==
    /\ run_status \in [Runs -> {"absent", "running", "succeeded", "failed"}]
    /\ zones \subseteq Zones
    /\ results \in [Runs -> Results]
    /\ counters \in [Runs -> Counters]
    /\ phase \in [Evaluators -> Phases]
    /\ job \in [Evaluators -> Job]
    /\ evaluations \in 0..MaxEvaluations
    /\ faults \in 0..MaxFaults

QualityInit ==
    /\ run_status = [r \in Runs |-> "absent"]
    /\ zones = {}
    /\ results = [r \in Runs |-> [k \in 1..Checks |-> Unmeasured]]
    /\ counters = [r \in Runs |-> NoCounters]
    /\ phase = [e \in Evaluators |-> "idle"]
    /\ job = [e \in Evaluators |-> NoJob]
    /\ evaluations = 0
    /\ faults = 0

-----------------------------------------------------------------------------
(* Ingestion, as far as quality sees it.                                    *)

StartRun(r) ==
    /\ run_status[r] = "absent"
    /\ run_status' = [run_status EXCEPT ![r] = "running"]
    /\ UNCHANGED <<zones, results, counters, phase, job, evaluations, faults>>

\* A run succeeds in the transaction that makes its source loaded.
FinishRun(r) ==
    /\ run_status[r] = "running"
    /\ \E s \in {"succeeded", "failed"} : run_status' = [run_status EXCEPT ![r] = s]
    /\ UNCHANGED <<zones, results, counters, phase, job, evaluations, faults>>

LoadZones(z) ==
    /\ z \notin zones
    /\ zones' = zones \cup {z}
    /\ UNCHANGED <<run_status, results, counters, phase, job, evaluations, faults>>

-----------------------------------------------------------------------------
(* run_partition_quality: one transaction.                                  *)

Goto(e, p) == phase' = [phase EXCEPT ![e] = p]

\* The transaction ends, by commit or rollback, and the locals are gone.
EndEvaluation(e) == Goto(e, "idle") /\ job' = [job EXCEPT ![e] = NoJob]

LoadedRuns(p) == {r \in Runs : PartitionOf[r] = p /\ run_status[r] = "succeeded"}

Latest(S) == {x \in S : \A y \in S : y <= x}

\* find_latest_successful_run; without a run it raises and nothing has begun.
FindLatestRun(e, p) ==
    /\ phase[e] = "idle"
    /\ evaluations < MaxEvaluations
    /\ evaluations' = evaluations + 1
    /\ Goto(e, "target")
    /\ \E r \in Latest(LoadedRuns(p)) :
          job' = [o \in Evaluators |->
                    IF o = e
                    THEN [NoJob EXCEPT !.run = r, !.evaluation = evaluations + 1,
                                       !.alone = \A x \in Evaluators \ {e} : phase[x] = "idle"]
                    ELSE [job[o] EXCEPT !.alone = FALSE]]
    /\ UNCHANGED <<quality_db, faults>>

\* _validated_target: session.get keeps the run's counters in the session.
ReadTarget(e) ==
    /\ phase[e] = "target"
    /\ Goto(e, "measure")
    /\ job' = [job EXCEPT ![e] = [@ EXCEPT !.loaded = counters[job[e].run]]]
    /\ UNCHANGED <<quality_db, evaluations, faults>>

\* The version with the latest loaded_at; without one the evaluation raises.  A
\* loaded version has its rows (LoadIsAtomic), so the count of them passes.
Measure(e) ==
    /\ phase[e] = "measure"
    /\ \/ \E z \in Latest(zones) : Goto(e, "upsert") /\ job' = [job EXCEPT ![e] = [@ EXCEPT !.zone = z]]
       \/ zones = {} /\ EndEvaluation(e)
    /\ UNCHANGED <<quality_db, evaluations, faults>>

\* The run is locked in share mode when it is read, and for writing here.
Locked_Bug(r, k, e) ==
    \E o \in Evaluators \ {e} : job[o].run = r /\ phase[o] \in {"measure", "upsert", "counted"}

\* The row of a check is locked from its upsert to the end of the transaction.
Locked(r, k, e) == \E o \in Evaluators \ {e} : job[o].run = r /\ job[o].written >= k

\* Stored without the transaction around it.
UpsertResult_Bug(e) ==
    LET r == job[e].run  k == job[e].written + 1 IN
    /\ phase[e] = "upsert"
    /\ k <= Checks
    /\ job' = [job EXCEPT ![e] = [@ EXCEPT !.written = k]]
    /\ results' = [results EXCEPT ![r] = [@ EXCEPT ![k] =
                     [failed |-> RowsFailed[r][job[e].zone][k], evaluation |-> job[e].evaluation]]]
    /\ UNCHANGED <<run_status, zones, counters, phase, evaluations, faults>>

\* _upsert_result for the next rule: it waits for the row's lock.
UpsertResult(e) ==
    /\ phase[e] = "upsert"
    /\ job[e].written < Checks
    /\ ~Locked(job[e].run, job[e].written + 1, e)
    /\ job' = [job EXCEPT ![e] = [@ EXCEPT !.written = job[e].written + 1]]
    /\ UNCHANGED <<quality_db, phase, evaluations, faults>>

\* The result of the job's measurement of check k.
Measured(j, k) == [failed |-> RowsFailed[j.run][j.zone][k], evaluation |-> j.evaluation]

\* What the transaction sees: its own upserts over the committed results.
VisibleResults(e) ==
    [k \in 1..Checks |-> IF k <= job[e].written THEN Measured(job[e], k)
                         ELSE results[job[e].run][k]]

\* _violated_count over a run's results.
Violated(stored, s) ==
    Cardinality({k \in 1..Checks : Severity[k] = s /\ stored[k].failed > 0})

\* The rows that fail are summed up.
ViolatedCounts_RowsBug(e) ==
    [s \in Counted |-> MapThenSumSet(LAMBDA k : VisibleResults(e)[k].failed,
                                     {k \in 1..Checks : Severity[k] = s})]

\* Counted before the upserts reach the database.
ViolatedCounts_Bug(e) == [s \in Counted |-> Violated(results[job[e].run], s)]

ViolatedCounts(e) == [s \in Counted |-> Violated(VisibleResults(e), s)]

\* The counts are assigned to the run after every check is upserted.
CountViolated(e) ==
    /\ phase[e] = "upsert"
    /\ job[e].written = Checks
    /\ Goto(e, "counted")
    /\ job' = [job EXCEPT ![e] = [@ EXCEPT !.counted = ViolatedCounts(e)]]
    /\ UNCHANGED <<quality_db, evaluations, faults>>

\* The UPDATE of the run names only the columns whose value is not the one read.
CommitEvaluation(e) ==
    LET j == job[e] IN
    /\ phase[e] = "counted"
    /\ results' = [results EXCEPT ![j.run] = VisibleResults(e)]
    /\ counters' = [counters EXCEPT ![j.run] =
                      [s \in Counted |-> IF j.counted[s] # j.loaded[s] THEN j.counted[s]
                                         ELSE counters[j.run][s]]]
    /\ EndEvaluation(e)
    /\ UNCHANGED <<run_status, zones, evaluations, faults>>

\* A statement fails or the process dies: the transaction is rolled back.
AbandonEvaluation(e) ==
    /\ phase[e] # "idle"
    /\ faults < MaxFaults
    /\ faults' = faults + 1
    /\ EndEvaluation(e)
    /\ UNCHANGED <<quality_db, evaluations>>

-----------------------------------------------------------------------------
EvaluatorStep(e) ==
    \/ ReadTarget(e)
    \/ Measure(e)
    \/ UpsertResult(e)
    \/ CountViolated(e)
    \/ CommitEvaluation(e)

QualityNext ==
    \/ \E r \in Runs : StartRun(r) \/ FinishRun(r)
    \/ \E z \in Zones : LoadZones(z)
    \/ \E e \in Evaluators :
          \/ \E r \in Runs : FindLatestRun(e, PartitionOf[r])
          \/ EvaluatorStep(e)
          \/ AbandonEvaluation(e)

\* A statement is executed at some time unless it waits for a lock.
QualityFairness == \A e \in Evaluators : WF_quality_vars(EvaluatorStep(e))

QualitySpec == QualityInit /\ [][QualityNext]_quality_vars /\ QualityFairness

-----------------------------------------------------------------------------
(* Properties.                                                              *)

\* The stored results of a run all come from one evaluation: an interrupted or
\* a concurrent evaluation never leaves some checks of its own among the
\* others (one transaction, run_quality_checks; the lock on the first check).
ResultsOfOneEvaluation ==
    \A r \in Runs : \A k, l \in 1..Checks :
        results[r][k].evaluation = results[r][l].evaluation

CountersAgree(r) == counters[r] = [s \in Counted |-> Violated(results[r], s)]

\* An evaluation that overlaps no other leaves the run's counters equal to the
\* violated checks it stored, whatever earlier evaluations or other zone
\* versions had left (lines 112 to 121 of evaluator.py).
LoneEvaluationsCount ==
    [][\A e \in Evaluators, r \in Runs :
          /\ phase[e] = "counted" /\ phase'[e] = "idle" /\ faults' = faults
          /\ job[e].run = r /\ job[e].alone
          => CountersAgree(r)']_quality_vars

\* The counters of a run count the violated checks among its results
\* (README.md:95-96, overview.py:40).  False of evaluations that overlap: one
\* that finds the value it read writes no UPDATE over what was committed since.
CountersCountViolated == \A r \in Runs : CountersAgree(r)

\* Every evaluation ends, although evaluators of one run wait for each other's
\* row locks: they take them in the order of the rule catalog.
EvaluationsEnd == \A e \in Evaluators : phase[e] # "idle" ~> phase[e] = "idle"
=============================================================================
