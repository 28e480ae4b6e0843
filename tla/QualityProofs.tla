---------------------------- MODULE QualityProofs ----------------------------
(***************************************************************************)
(* Proofs about Quality for every number of evaluators, runs, zone         *)
(* versions, checks, evaluations and faults.                               *)
(***************************************************************************)
EXTENDS Quality, FiniteSetTheorems, TLAPS

-----------------------------------------------------------------------------
(* The inductive invariant.                                                 *)

\* What a transaction will have stored when it has upserted every check.
FullyMeasured(j) == [k \in 1..Checks |-> Measured(j, k)]

\* An evaluation counts when every check is upserted, and counts just those.
CountsAreOfUpserts ==
    \A e \in Evaluators :
        phase[e] = "counted" =>
            /\ job[e].written = Checks
            /\ job[e].counted = [s \in Counted |-> Violated(FullyMeasured(job[e]), s)]

\* While an evaluation is alone there is no other, and the counters it has read
\* are still those of the run.
LoneEvaluationsAreCurrent ==
    \A e \in Evaluators :
        phase[e] # "idle" /\ job[e].alone =>
            /\ \A o \in Evaluators \ {e} : phase[o] = "idle"
            /\ phase[e] # "target" => job[e].loaded = counters[job[e].run]

\* A transaction that upserts has found a zone version.
UpsertsAreMeasured ==
    \A e \in Evaluators : phase[e] \in {"upsert", "counted"} => job[e].zone \in Zones

BusyHaveRuns == \A e \in Evaluators : phase[e] # "idle" => job[e].run \in Runs

QualityInv ==
    /\ QualityTypeOK
    /\ BusyHaveRuns
    /\ UpsertsAreMeasured
    /\ CountsAreOfUpserts
    /\ LoneEvaluationsAreCurrent
    /\ ResultsOfOneEvaluation

-----------------------------------------------------------------------------
(* The operators.                                                           *)

\* A count of violated checks is between zero and the size of the catalog.
LEMMA ViolatedType ==
    ASSUME NEW stored, NEW s
    PROVE  Violated(stored, s) \in 0..Checks
<1> DEFINE found == {k \in 1..Checks : Severity[k] = s /\ stored[k].failed > 0}
<1>1. IsFiniteSet(1..Checks) /\ Cardinality(1..Checks) = Checks
  BY CatalogAssumption, FS_Interval
<1>2. IsFiniteSet(found) /\ Cardinality(found) <= Checks /\ Cardinality(found) \in Nat
  BY <1>1, FS_Subset, FS_CardinalityType
<1>. QED  BY <1>2, CatalogAssumption DEF Violated

LEMMA CountsType ==
    ASSUME NEW stored
    PROVE  [s \in Counted |-> Violated(stored, s)] \in Counters
BY ViolatedType DEF Counters

\* A measurement is a result.
LEMMA MeasuredType ==
    ASSUME NEW j \in Job, j.run \in Runs, j.zone \in Zones, NEW k \in 1..Checks
    PROVE  Measured(j, k) \in Result
BY CatalogAssumption DEF Job, Measured, Result

\* At the end a transaction sees its own upserts and nothing else.
LEMMA VisibleAtEnd ==
    ASSUME NEW e \in Evaluators, job[e].written = Checks
    PROVE  VisibleResults(e) = FullyMeasured(job[e])
BY CatalogAssumption DEF VisibleResults, FullyMeasured

LEMMA CountsAtEnd ==
    ASSUME NEW e \in Evaluators, job[e].written = Checks
    PROVE  ViolatedCounts(e) = [s \in Counted |-> Violated(FullyMeasured(job[e]), s)]
BY VisibleAtEnd DEF ViolatedCounts

LEMMA NoJobType == NoJob \in Job
BY CatalogAssumption, QualityBoundsAssumption DEF NoJob, NoCounters, Job, Counters, Counted

-----------------------------------------------------------------------------
(* One lemma for every conjunct of the invariant.                           *)

LEMMA QualityInitInv == QualityInit => QualityInv
<1> SUFFICES ASSUME QualityInit PROVE QualityInv
  OBVIOUS
<1>1. NoJob \in Job
  BY NoJobType
<1>2. NoCounters \in Counters
  BY CatalogAssumption DEF NoCounters, Counters
<1>3. [k \in 1..Checks |-> Unmeasured] \in Results
  BY QualityBoundsAssumption DEF Unmeasured, Result, Results
<1>4. QualityTypeOK
  BY <1>1, <1>2, <1>3, QualityBoundsAssumption DEF QualityInit, QualityTypeOK, Phases
<1>5. BusyHaveRuns /\ UpsertsAreMeasured /\ CountsAreOfUpserts /\ LoneEvaluationsAreCurrent
  BY DEF QualityInit, BusyHaveRuns, UpsertsAreMeasured, CountsAreOfUpserts, LoneEvaluationsAreCurrent
<1>6. ResultsOfOneEvaluation
  BY DEF QualityInit, ResultsOfOneEvaluation, Unmeasured
<1>. QED  BY <1>4, <1>5, <1>6 DEF QualityInv

EvaluatorAction(e) ==
    \/ \E r \in Runs : FindLatestRun(e, PartitionOf[r])
    \/ EvaluatorStep(e)
    \/ AbandonEvaluation(e)

LoadAction ==
    \/ \E r \in Runs : StartRun(r) \/ FinishRun(r)
    \/ \E z \in Zones : LoadZones(z)

LEMMA NextIsOneAction ==
    QualityNext <=> LoadAction \/ \E e \in Evaluators : EvaluatorAction(e)
BY DEF QualityNext, LoadAction, EvaluatorAction

\* Every action keeps the types, and a transaction its run and zone version.
LEMMA StepTypes ==
    ASSUME QualityInv, [QualityNext]_quality_vars
    PROVE  QualityTypeOK' /\ BusyHaveRuns' /\ UpsertsAreMeasured'
<1> USE DEF QualityInv, QualityTypeOK, BusyHaveRuns, UpsertsAreMeasured, quality_db
<1>1. CASE UNCHANGED quality_vars
  BY <1>1 DEF quality_vars
<1>2. CASE LoadAction
  BY <1>2 DEF LoadAction, StartRun, FinishRun, LoadZones
<1>3. ASSUME NEW e \in Evaluators, EvaluatorAction(e)
      PROVE  QualityTypeOK' /\ BusyHaveRuns' /\ UpsertsAreMeasured'
  <2>1. NoJob \in Job
    BY NoJobType
  <2>2. ASSUME NEW p, FindLatestRun(e, p)
        PROVE  QualityTypeOK' /\ BusyHaveRuns' /\ UpsertsAreMeasured'
    <3>1. PICK r \in Latest(LoadedRuns(p)) :
            job' = [o \in Evaluators |->
                      IF o = e
                      THEN [NoJob EXCEPT !.run = r, !.evaluation = evaluations + 1,
                                         !.alone = \A x \in Evaluators \ {e} : phase[x] = "idle"]
                      ELSE [job[o] EXCEPT !.alone = FALSE]]
      BY <2>2 DEF FindLatestRun
    <3>2. r \in Runs
      BY DEF Latest, LoadedRuns
    <3>3. evaluations' = evaluations + 1 /\ evaluations + 1 \in 0..MaxEvaluations
      <4>1. evaluations < MaxEvaluations /\ evaluations' = evaluations + 1
        BY <2>2 DEF FindLatestRun
      <4>2. evaluations \in 0..MaxEvaluations /\ MaxEvaluations \in Nat
        BY QualityBoundsAssumption
      <4>. QED  BY <4>1, <4>2
    <3>4. job' \in [Evaluators -> Job] /\ job'[e].run = r
      <4>1. ASSUME NEW o \in Evaluators \ {e} PROVE [job[o] EXCEPT !.alone = FALSE] \in Job
        BY DEF Job
      <4>2. ASSUME NEW lone \in BOOLEAN
            PROVE [NoJob EXCEPT !.run = r, !.evaluation = evaluations + 1, !.alone = lone] \in Job
        BY <2>1, <3>2, <3>3 DEF Job
      <4>3. (\A x \in Evaluators \ {e} : phase[x] = "idle") \in BOOLEAN
        OBVIOUS
      <4>4. [NoJob EXCEPT !.run = r, !.evaluation = evaluations + 1,
                          !.alone = \A x \in Evaluators \ {e} : phase[x] = "idle"] \in Job
        BY <4>2, <4>3
      <4>5. job'[e].run = r
        BY <3>1 DEF NoJob
      <4>. QED  BY <3>1, <4>1, <4>4, <4>5
    <3>5. \A o \in Evaluators \ {e} : job'[o].run = job[o].run /\ job'[o].zone = job[o].zone
      BY <3>1 DEF Job
    <3>6. phase' = [phase EXCEPT ![e] = "target"]
      BY <2>2 DEF FindLatestRun, Goto
    <3>7. UNCHANGED <<run_status, zones, results, counters, faults>>
      BY <2>2 DEF FindLatestRun
    <3>. QED  BY <3>2, <3>3, <3>4, <3>5, <3>6, <3>7 DEF Phases
  <2>3. CASE ReadTarget(e)
    BY <2>3 DEF ReadTarget, Goto, Job, Phases
  <2>4. CASE Measure(e)
    <3>1. CASE EndEvaluation(e)
      BY <2>1, <2>4, <3>1 DEF Measure, Goto, EndEvaluation, Phases
    <3>2. ASSUME NEW z \in Latest(zones), Goto(e, "upsert"), job' = [job EXCEPT ![e] = [@ EXCEPT !.zone = z]]
          PROVE  QualityTypeOK' /\ BusyHaveRuns' /\ UpsertsAreMeasured'
      <4>1. z \in Zones
        BY DEF Latest
      <4>2. [job[e] EXCEPT !.zone = z] \in Job /\ [job[e] EXCEPT !.zone = z].run = job[e].run
            /\ [job[e] EXCEPT !.zone = z].zone = z
        BY <4>1 DEF Job
      <4>. QED  BY <2>4, <3>2, <4>1, <4>2 DEF Measure, Goto, Phases
    <3>. QED  BY <2>4, <3>1, <3>2 DEF Measure
  <2>5. CASE UpsertResult(e)
    <3>1. job[e].written + 1 \in 0..Checks
      BY <2>5, CatalogAssumption DEF UpsertResult, Job
    <3>2. [job[e] EXCEPT !.written = job[e].written + 1] \in Job
          /\ [job[e] EXCEPT !.written = job[e].written + 1].run = job[e].run
          /\ [job[e] EXCEPT !.written = job[e].written + 1].zone = job[e].zone
      BY <3>1 DEF Job
    <3>. QED  BY <2>5, <3>2 DEF UpsertResult
  <2>6. CASE CountViolated(e)
    <3>1. ViolatedCounts(e) \in Counters
      BY CountsType DEF ViolatedCounts
    <3>. QED  BY <2>6, <3>1 DEF CountViolated, Goto, Job, Phases
  <2>7. CASE CommitEvaluation(e)
    <3> DEFINE j == job[e]
    <3>1. j \in Job /\ j.run \in Runs /\ j.zone \in Zones
      BY <2>7 DEF CommitEvaluation
    <3>2. VisibleResults(e) \in Results
      BY <3>1, MeasuredType DEF VisibleResults, Results
    <3>3. [s \in Counted |-> IF j.counted[s] # j.loaded[s] THEN j.counted[s] ELSE counters[j.run][s]]
            \in Counters
      BY <3>1 DEF Job, Counters
    <3>4. results' \in [Runs -> Results] /\ counters' \in [Runs -> Counters]
      BY <2>7, <3>2, <3>3 DEF CommitEvaluation
    <3>. QED  BY <2>1, <2>7, <3>4 DEF CommitEvaluation, EndEvaluation, Goto, Phases
  <2>8. CASE AbandonEvaluation(e)
    BY <2>1, <2>8, QualityBoundsAssumption DEF AbandonEvaluation, EndEvaluation, Goto, Phases
  <2>. QED  BY <1>3, <2>2, <2>3, <2>4, <2>5, <2>6, <2>7, <2>8 DEF EvaluatorAction, EvaluatorStep
<1>. QED  BY <1>1, <1>2, <1>3, NextIsOneAction

LEMMA StepCounts ==
    ASSUME QualityInv, [QualityNext]_quality_vars
    PROVE  CountsAreOfUpserts'
<1> USE DEF QualityInv, QualityTypeOK, CountsAreOfUpserts, quality_db
<1>1. CASE UNCHANGED quality_vars
  BY <1>1 DEF quality_vars
<1>2. CASE LoadAction
  BY <1>2 DEF LoadAction, StartRun, FinishRun, LoadZones
<1>3. ASSUME NEW e \in Evaluators, EvaluatorAction(e), NEW o \in Evaluators, phase'[o] = "counted"
      PROVE  /\ job'[o].written = Checks
             /\ job'[o].counted = [s \in Counted |-> Violated(FullyMeasured(job'[o]), s)]
  <2>1. CASE phase[o] = "counted" /\ job'[o] = job[o]
    BY <2>1
  <2>2. ASSUME NEW p, FindLatestRun(e, p), o # e
        PROVE  /\ phase[o] = "counted" /\ job'[o].written = job[o].written
               /\ job'[o].counted = job[o].counted /\ FullyMeasured(job'[o]) = FullyMeasured(job[o])
    <3>1. job'[o] = [job[o] EXCEPT !.alone = FALSE] /\ phase'[o] = phase[o]
      BY <2>2 DEF FindLatestRun, Goto
    <3>. QED  BY <1>3, <3>1 DEF Job, FullyMeasured, Measured
  <2>3. CASE CountViolated(e) /\ o = e
    <3>1. job[e].written = Checks /\ job' = [job EXCEPT ![e] = [@ EXCEPT !.counted = ViolatedCounts(e)]]
      BY <2>3 DEF CountViolated
    <3>2. job'[e].counted = ViolatedCounts(e) /\ job'[e].written = Checks
          /\ FullyMeasured(job'[e]) = FullyMeasured(job[e])
      BY <3>1 DEF Job, FullyMeasured, Measured
    <3>. QED  BY <2>3, <3>1, <3>2, CountsAtEnd
  <2>4. CASE EvaluatorStep(e) \/ AbandonEvaluation(e)
    BY <1>3, <2>1, <2>3, <2>4 DEF EvaluatorStep, ReadTarget, Measure, UpsertResult, CountViolated,
       CommitEvaluation, AbandonEvaluation, EndEvaluation, Goto
  <2>5. ASSUME NEW p, FindLatestRun(e, p) PROVE o # e
    BY <1>3, <2>5 DEF FindLatestRun, Goto
  <2>. QED  BY <1>3, <2>2, <2>4, <2>5 DEF EvaluatorAction
<1>. QED  BY <1>1, <1>2, <1>3, NextIsOneAction

\* Counters change only when an evaluation commits, and then no other is alone.
LEMMA StepLone ==
    ASSUME QualityInv, [QualityNext]_quality_vars
    PROVE  LoneEvaluationsAreCurrent'
<1> USE DEF QualityInv, QualityTypeOK, LoneEvaluationsAreCurrent, quality_db
<1>1. CASE UNCHANGED quality_vars
  BY <1>1 DEF quality_vars
<1>2. CASE LoadAction
  BY <1>2 DEF LoadAction, StartRun, FinishRun, LoadZones
<1>3. ASSUME NEW e \in Evaluators, EvaluatorAction(e),
             NEW o \in Evaluators, phase'[o] # "idle", job'[o].alone
      PROVE  /\ \A x \in Evaluators \ {o} : phase'[x] = "idle"
             /\ phase'[o] # "target" => job'[o].loaded = counters'[job'[o].run]
  <2>1. ASSUME NEW p, FindLatestRun(e, p)
        PROVE  /\ \A x \in Evaluators \ {o} : phase'[x] = "idle"
               /\ phase'[o] = "target"
    <3>1. phase' = [phase EXCEPT ![e] = "target"]
      BY <2>1 DEF FindLatestRun, Goto
    <3>2. o = e
      <4>1. o # e => job'[o] = [job[o] EXCEPT !.alone = FALSE]
        BY <2>1 DEF FindLatestRun
      <4>. QED  BY <1>3, <4>1 DEF Job
    <3>3. job'[e].alone = (\A x \in Evaluators \ {e} : phase[x] = "idle")
      BY <2>1 DEF FindLatestRun, NoJob
    <3>. QED  BY <1>3, <3>1, <3>2, <3>3
  <2>2. ASSUME EvaluatorStep(e) \/ AbandonEvaluation(e), o = e
        PROVE  /\ \A x \in Evaluators \ {o} : phase'[x] = "idle"
               /\ phase'[o] # "target" => job'[o].loaded = counters'[job'[o].run]
    <3>1. phase[e] # "idle" /\ \A x \in Evaluators \ {e} : phase'[x] = phase[x]
      BY <2>2 DEF EvaluatorStep, ReadTarget, Measure, UpsertResult, CountViolated,
         CommitEvaluation, AbandonEvaluation, EndEvaluation, Goto
    <3>2. CASE ReadTarget(e)
      BY <1>3, <2>2, <3>1, <3>2 DEF ReadTarget, Goto, Job
    <3>3. CASE Measure(e) \/ UpsertResult(e) \/ CountViolated(e)
      BY <1>3, <2>2, <3>1, <3>3 DEF Measure, UpsertResult, CountViolated, EndEvaluation, Goto, Job
    <3>4. CASE CommitEvaluation(e) \/ AbandonEvaluation(e)
      BY <1>3, <2>2, <3>4 DEF CommitEvaluation, AbandonEvaluation, EndEvaluation, Goto
    <3>. QED  BY <2>2, <3>2, <3>3, <3>4 DEF EvaluatorStep
  <2>3. ASSUME EvaluatorStep(e) \/ AbandonEvaluation(e), o # e
        PROVE  FALSE
    <3>1. phase[e] # "idle" /\ phase'[o] = phase[o] /\ job'[o] = job[o]
      BY <2>3 DEF EvaluatorStep, ReadTarget, Measure, UpsertResult, CountViolated,
         CommitEvaluation, AbandonEvaluation, EndEvaluation, Goto
    <3>. QED  BY <1>3, <2>3, <3>1
  <2>. QED  BY <1>3, <2>1, <2>2, <2>3 DEF EvaluatorAction
<1>. QED  BY <1>1, <1>2, <1>3, NextIsOneAction

LEMMA StepResults ==
    ASSUME QualityInv, [QualityNext]_quality_vars
    PROVE  ResultsOfOneEvaluation'
<1> USE DEF QualityInv, QualityTypeOK, ResultsOfOneEvaluation, quality_db
<1>1. CASE UNCHANGED results
  BY <1>1
<1>2. ASSUME NEW e \in Evaluators, CommitEvaluation(e) PROVE ResultsOfOneEvaluation'
  <2>1. VisibleResults(e) = FullyMeasured(job[e]) /\ results' = [results EXCEPT ![job[e].run] = VisibleResults(e)]
    BY <1>2, VisibleAtEnd DEF CommitEvaluation, CountsAreOfUpserts
  <2>2. \A k \in 1..Checks : FullyMeasured(job[e])[k].evaluation = job[e].evaluation
    BY DEF FullyMeasured, Measured
  <2>. QED  BY <2>1, <2>2
<1>3. (\E e \in Evaluators : CommitEvaluation(e)) \/ UNCHANGED results
  BY DEF QualityNext, EvaluatorStep, StartRun, FinishRun, LoadZones, FindLatestRun, ReadTarget,
     Measure, UpsertResult, CountViolated, AbandonEvaluation, quality_vars
<1>. QED  BY <1>1, <1>2, <1>3

-----------------------------------------------------------------------------
(* The theorems.                                                            *)

\* The invariant holds in every reachable state, for all values of the constants.
THEOREM QualityInvariant == QualitySpec => []QualityInv
<1>1. QualityInv /\ [QualityNext]_quality_vars => QualityInv'
  <2> SUFFICES ASSUME QualityInv, [QualityNext]_quality_vars PROVE QualityInv'
    OBVIOUS
  <2>. QED  BY StepTypes, StepCounts, StepLone, StepResults DEF QualityInv
<1>. QED  BY <1>1, QualityInitInv, PTL DEF QualitySpec

\* Every variable keeps its type.
THEOREM QualityTypeCorrect == QualitySpec => []QualityTypeOK
<1>1. QualityInv => QualityTypeOK
  BY DEF QualityInv
<1>. QED  BY <1>1, QualityInvariant, PTL

\* The stored results of a run are those of one evaluation (evaluator.py).
THEOREM ResultsComeFromOneEvaluation == QualitySpec => []ResultsOfOneEvaluation
<1>1. QualityInv => ResultsOfOneEvaluation
  BY DEF QualityInv
<1>. QED  BY <1>1, QualityInvariant, PTL

\* An evaluation that overlaps no other leaves counters that count its results.
THEOREM LoneEvaluationsCountRight == QualitySpec => LoneEvaluationsCount
<1> DEFINE Right == \A e \in Evaluators, r \in Runs :
          /\ phase[e] = "counted" /\ phase'[e] = "idle" /\ faults' = faults
          /\ job[e].run = r /\ job[e].alone
          => CountersAgree(r)'
<1>1. QualityInv /\ [QualityNext]_quality_vars => [Right]_quality_vars
  <2> SUFFICES ASSUME QualityInv, QualityNext, NEW e \in Evaluators, NEW r \in Runs,
                      phase[e] = "counted", phase'[e] = "idle", faults' = faults,
                      job[e].run = r, job[e].alone
               PROVE  CountersAgree(r)'
    OBVIOUS
  <2> USE DEF QualityInv, QualityTypeOK, quality_db
  <2> DEFINE j == job[e]
  <2>1. CommitEvaluation(e)
    <3>1. CASE LoadAction
      BY <3>1 DEF LoadAction, StartRun, FinishRun, LoadZones
    <3>2. ASSUME NEW o \in Evaluators, EvaluatorAction(o) PROVE CommitEvaluation(e)
      <4>1. CASE \E p \in Runs : FindLatestRun(o, PartitionOf[p])
        BY <4>1 DEF FindLatestRun, Goto
      <4>2. CASE AbandonEvaluation(o)
        BY <4>2 DEF AbandonEvaluation
      <4>3. CASE ReadTarget(o) \/ Measure(o) \/ UpsertResult(o) \/ CountViolated(o)
        BY <4>3 DEF ReadTarget, Measure, UpsertResult, CountViolated, EndEvaluation, Goto
      <4>4. CASE CommitEvaluation(o)
        BY <4>4 DEF CommitEvaluation, EndEvaluation, Goto
      <4>. QED  BY <3>2, <4>1, <4>2, <4>3, <4>4 DEF EvaluatorAction, EvaluatorStep
    <3>. QED  BY <3>1, <3>2, NextIsOneAction
  <2>2. j.counted = [s \in Counted |-> Violated(FullyMeasured(j), s)] /\ VisibleResults(e) = FullyMeasured(j)
    BY VisibleAtEnd DEF CountsAreOfUpserts
  <2>3. j.loaded = counters[r]
    BY DEF LoneEvaluationsAreCurrent
  <2>4. results'[r] = FullyMeasured(j)
    BY <2>1, <2>2 DEF CommitEvaluation
  <2>5. counters'[r] = [s \in Counted |-> IF j.counted[s] # j.loaded[s] THEN j.counted[s] ELSE counters[r][s]]
    BY <2>1 DEF CommitEvaluation
  <2>6. counters'[r] = [s \in Counted |-> Violated(FullyMeasured(j), s)]
    BY <2>2, <2>3, <2>5
  <2>. QED  BY <2>4, <2>6 DEF CountersAgree
<1>. QED  BY <1>1, QualityInvariant, PTL DEF QualitySpec, LoneEvaluationsCount

-----------------------------------------------------------------------------
(* Row locks.                                                               *)

\* The guards of EvaluatorStep: what an evaluation that is under way needs in
\* order to go on by itself.
CanStep(e) ==
    \/ phase[e] \in {"target", "counted"}
    \/ phase[e] = "measure" /\ (zones = {} \/ Latest(zones) # {})
    \/ phase[e] = "upsert" /\ job[e].written = Checks
    \/ /\ phase[e] = "upsert" /\ job[e].written < Checks
       /\ ~Locked(job[e].run, job[e].written + 1, e)

\* An evaluation that cannot go on waits for one of the same run that has
\* upserted rows and can go on, so nobody waits for a process that waits.
WaitsAreShort ==
    \A e \in Evaluators :
        phase[e] # "idle" =>
            \/ CanStep(e)
            \/ \E o \in Evaluators \ {e} :
                  job[o].run = job[e].run /\ job[o].written # 0 /\ CanStep(o)

\* The lock on the first check lets one evaluation of a run upsert at a time.
WritersAreAlone ==
    /\ \A e \in Evaluators : job[e].written # 0 => phase[e] \in {"upsert", "counted"}
    /\ \A e, o \in Evaluators :
          job[e].run = job[o].run /\ job[e].written # 0 /\ job[o].written # 0 => e = o

LatestZoneExists == zones = {} \/ Latest(zones) # {}

LocksInv == QualityInv /\ WritersAreAlone /\ LatestZoneExists

\* A new zone version is the latest one, or the latest one stays.
LEMMA StepZones ==
    ASSUME QualityInv, LatestZoneExists, [QualityNext]_quality_vars
    PROVE  LatestZoneExists'
<1>1. CASE UNCHANGED zones
  BY <1>1 DEF LatestZoneExists, Latest
<1>2. ASSUME NEW z \in Zones, LoadZones(z) PROVE LatestZoneExists'
  <2>1. zones' = zones \cup {z} /\ z \in Nat /\ zones \subseteq Nat
    BY <1>2, IdsAssumption DEF LoadZones, QualityInv, QualityTypeOK
  <2>2. CASE zones = {}
    <3>1. z \in Latest(zones')
      BY <2>1, <2>2 DEF Latest
    <3>. QED  BY <3>1 DEF LatestZoneExists
  <2>3. ASSUME NEW y \in Latest(zones) PROVE Latest(zones') # {}
    <3>1. y \in zones /\ \A x \in zones : x <= y
      BY DEF Latest
    <3>2. CASE z <= y
      <4>1. y \in Latest(zones')
        BY <2>1, <3>1, <3>2 DEF Latest
      <4>. QED  BY <4>1
    <3>3. CASE ~(z <= y)
      <4>1. z \in Latest(zones')
        BY <2>1, <3>1, <3>3 DEF Latest
      <4>. QED  BY <4>1
    <3>. QED  BY <3>2, <3>3
  <2>. QED  BY <2>2, <2>3 DEF LatestZoneExists
<1>3. UNCHANGED zones \/ \E z \in Zones : LoadZones(z)
  BY DEF QualityNext, quality_vars, quality_db, StartRun, FinishRun, FindLatestRun, EvaluatorStep,
         ReadTarget, Measure, UpsertResult, CountViolated, CommitEvaluation, AbandonEvaluation
<1>. QED  BY <1>1, <1>2, <1>3

\* A first upsert finds no other evaluation of the run that has upserted.
LEMMA StepWriters ==
    ASSUME QualityInv, WritersAreAlone, [QualityNext]_quality_vars
    PROVE  WritersAreAlone'
<1> USE DEF Goto
<1>0. /\ phase \in [Evaluators -> Phases] /\ job \in [Evaluators -> Job]
      /\ \A e \in Evaluators : job[e] \in Job /\ job[e].written \in Nat
  BY CatalogAssumption DEF QualityInv, QualityTypeOK, Job
<1>1. CASE UNCHANGED <<phase, job>>
  BY <1>1 DEF WritersAreAlone
<1>2. ASSUME NEW e \in Evaluators, \E p : FindLatestRun(e, p) PROVE WritersAreAlone'
  <2>1. /\ phase' = [phase EXCEPT ![e] = "target"] /\ phase[e] = "idle"
        /\ job'[e].written = 0
        /\ \A o \in Evaluators \ {e} : job'[o] = [job[o] EXCEPT !.alone = FALSE]
    BY <1>2 DEF FindLatestRun, NoJob
  <2>2. \A o \in Evaluators \ {e} : job'[o].written = job[o].written /\ job'[o].run = job[o].run
    BY <1>0, <2>1 DEF Job
  <2>. QED  BY <1>0, <2>1, <2>2 DEF WritersAreAlone
<1>3. ASSUME NEW e \in Evaluators, EndEvaluation(e) PROVE WritersAreAlone'
  BY <1>0, <1>3 DEF EndEvaluation, NoJob, WritersAreAlone
<1>4. ASSUME NEW e \in Evaluators, UpsertResult(e) PROVE WritersAreAlone'
  <2>1. /\ phase[e] = "upsert" /\ UNCHANGED phase
        /\ ~Locked(job[e].run, job[e].written + 1, e)
        /\ job' = [job EXCEPT ![e] = [job[e] EXCEPT !.written = job[e].written + 1]]
    BY <1>4 DEF UpsertResult
  <2>2. job'[e].run = job[e].run /\ \A o \in Evaluators \ {e} : job'[o] = job[o]
    BY <1>0, <2>1 DEF Job
  <2>3. ASSUME NEW o \in Evaluators, o # e, job[o].run = job[e].run PROVE job[o].written = 0
    <3>1. CASE job[e].written # 0
      BY <2>3, <3>1 DEF WritersAreAlone
    <3>2. CASE job[e].written = 0
      <4>1. ~(job[o].written >= 1)
        BY <2>1, <2>3, <3>2 DEF Locked
      <4>. QED  BY <1>0, <4>1
    <3>. QED  BY <3>1, <3>2
  <2>. QED  BY <2>1, <2>2, <2>3 DEF WritersAreAlone
<1>5. ASSUME NEW e \in Evaluators, NEW p \in Phases \ {"idle", "target"},
             phase' = [phase EXCEPT ![e] = p],
             job'[e].written = job[e].written, job'[e].run = job[e].run,
             \A o \in Evaluators \ {e} : job'[o] = job[o],
             p \in {"upsert", "counted"} \/ job[e].written = 0
      PROVE  WritersAreAlone'
  BY <1>0, <1>5 DEF WritersAreAlone
<1>6. ASSUME NEW e \in Evaluators, ReadTarget(e) \/ Measure(e) \/ CountViolated(e), ~EndEvaluation(e)
      PROVE  WritersAreAlone'
  <2>1. PICK p \in {"measure", "upsert", "counted"} :
          /\ phase' = [phase EXCEPT ![e] = p]
          /\ p = "measure" => phase[e] = "target"
    BY <1>6 DEF ReadTarget, Measure, CountViolated
  <2>2. /\ job'[e].written = job[e].written /\ job'[e].run = job[e].run
        /\ \A o \in Evaluators \ {e} : job'[o] = job[o]
    BY <1>0, <1>6 DEF ReadTarget, Measure, CountViolated, Job
  <2>3. p \in {"upsert", "counted"} \/ job[e].written = 0
    BY <2>1 DEF WritersAreAlone
  <2>. QED  BY <1>5, <2>1, <2>2, <2>3 DEF Phases
<1>7. \/ UNCHANGED <<phase, job>>
      \/ \E e \in Evaluators :
            \/ \E p : FindLatestRun(e, p)
            \/ EndEvaluation(e) \/ UpsertResult(e)
            \/ (ReadTarget(e) \/ Measure(e) \/ CountViolated(e)) /\ ~EndEvaluation(e)
  BY DEF QualityNext, quality_vars, StartRun, FinishRun, LoadZones, EvaluatorStep,
         CommitEvaluation, AbandonEvaluation
<1>. QED  BY <1>1, <1>2, <1>3, <1>4, <1>6, <1>7

\* Evaluations that wait for row locks never wait in a circle, for any number of
\* them: the one that has upserted can go on, whatever the others hold.
THEOREM EvaluationsNeverDeadlock == QualitySpec => []WaitsAreShort
<1>1. QualityInit => WritersAreAlone /\ LatestZoneExists
  BY DEF QualityInit, NoJob, WritersAreAlone, LatestZoneExists
<1>2. QualityInv /\ QualityInv' /\ LocksInv /\ [QualityNext]_quality_vars => LocksInv'
  BY StepZones, StepWriters DEF LocksInv
<1>3. QualityInit /\ QualityInv => LocksInv
  BY <1>1 DEF LocksInv
<1>4. LocksInv => WaitsAreShort
  <2> SUFFICES ASSUME LocksInv, NEW e \in Evaluators, phase[e] # "idle", ~CanStep(e)
               PROVE  \E o \in Evaluators \ {e} :
                         job[o].run = job[e].run /\ job[o].written # 0 /\ CanStep(o)
    BY DEF WaitsAreShort
  <2>1. /\ \A x \in Evaluators : phase[x] \in Phases /\ job[x].written \in 0..Checks
        /\ LatestZoneExists /\ WritersAreAlone /\ Checks \in Nat
    BY CatalogAssumption DEF LocksInv, QualityInv, QualityTypeOK, Job
  <2>2. phase[e] = "upsert" /\ Locked(job[e].run, job[e].written + 1, e)
    BY <2>1 DEF CanStep, Phases, LatestZoneExists
  <2>3. PICK o \in Evaluators \ {e} : job[o].run = job[e].run /\ job[o].written >= job[e].written + 1
    BY <2>2 DEF Locked
  <2>4. job[o].written # 0 /\ phase[o] \in {"upsert", "counted"}
    BY <2>1, <2>3 DEF WritersAreAlone
  <2>5. ~Locked(job[o].run, job[o].written + 1, o)
    <3> SUFFICES ASSUME NEW x \in Evaluators \ {o}, job[x].run = job[o].run,
                        job[x].written >= job[o].written + 1
                 PROVE  FALSE
      BY DEF Locked
    <3>1. job[x].written # 0
      BY <2>1
    <3>. QED  BY <2>1, <2>4, <3>1 DEF WritersAreAlone
  <2>6. CanStep(o)
    BY <2>1, <2>4, <2>5 DEF CanStep
  <2>. QED  BY <2>3, <2>4, <2>6
<1>. QED  BY <1>2, <1>3, <1>4, QualityInvariant, PTL DEF QualitySpec
=============================================================================
