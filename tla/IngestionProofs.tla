-------------------------- MODULE IngestionProofs --------------------------
(***************************************************************************)
(* Proofs about Ingestion for every number of processes, versions, rows,   *)
(* calls and faults.                                                       *)
(***************************************************************************)
EXTENDS Ingestion, FiniteSetTheorems, TLAPS

-----------------------------------------------------------------------------
(* The inductive invariant.                                                 *)

Loading(w) == phase[w] \in {"opening", "copying", "marked"}

\* w has created a run in transaction 2 and has not finished it.
Attempting(w) == Loading(w) \/ phase[w] = "failing"

\* The locals of a call fit the point it has reached, and what it read about
\* its source is still true or can only have moved from ready to loaded.
CallsAreConsistent ==
    \A w \in Workers :
        LET v == job[w].version IN
        /\ phase[w] # "idle" => v \in Versions
        /\ phase[w] = "insert" => job[w].seen \in {"ready", "revision_detected"}
        /\ phase[w] = "registering" =>
             job[w].seen \in {"ready", "revision_detected"} /\ source_files[v] = "absent"
        /\ phase[w] = "skip" =>
             job[w].seen \in {"loaded", "revision_detected"} /\ source_files[v] = job[w].seen
        /\ phase[w] \in {"start", "starting"} \/ Attempting(w) =>
             source_files[v] \in {"ready", "loaded"}

\* At most one transaction has a version inserted and uncommitted, and a
\* version about to be blocked has a committed sibling.
RegistrationsAreExclusive ==
    /\ \A w, o \in Workers :
         /\ phase[w] = "registering" /\ phase[o] = "registering"
         /\ job[w].version = job[o].version
         => w = o
    /\ \A w \in Workers :
         phase[w] \in {"insert", "registering"} /\ job[w].seen = "revision_detected"
         => PartitionExists(job[w].version)

\* A process that is attempting a load holds a run of its source that no other
\* process holds; the run is still running unless a commit was in doubt.
RunsAreHeld ==
    /\ \A w \in Workers : Attempting(w) =>
         /\ job[w].run \in DOMAIN pipeline_runs
         /\ pipeline_runs[job[w].run].source = job[w].version
         /\ pipeline_runs[job[w].run].status \in {"running", "succeeded"}
         /\ Loading(w) => pipeline_runs[job[w].run].status = "running"
    /\ \A w, o \in Workers :
         Attempting(w) /\ Attempting(o) /\ job[w].run = job[o].run => w = o

\* In-flight keys are rows 1 to rowsRead, only one transaction has keys of a
\* source in flight, and the source is not loaded meanwhile.
KeysAreExclusive ==
    /\ \A w \in Workers :
         /\ job[w].staged = 1..job[w].rowsRead
         /\ phase[w] \notin {"copying", "marked"} => job[w].rowsRead = 0
         /\ phase[w] = "marked" => job[w].rowsRead = RowCount[job[w].version]
         /\ job[w].rowsRead # 0 => source_files[job[w].version] = "ready"
    /\ \A w, o \in Workers :
         /\ job[w].version = job[o].version
         /\ job[w].rowsRead # 0 /\ job[o].rowsRead # 0
         => w = o

IInv ==
    /\ TypeOK
    /\ CallsAreConsistent
    /\ RegistrationsAreExclusive
    /\ RunsAreHeld
    /\ KeysAreExclusive
    /\ LoadIsAtomic
    /\ AttemptsAgreeWithSource
    /\ SomeVersionLoadable

-----------------------------------------------------------------------------
(* Every step keeps the types.                                              *)

\* The rows of a batch are row numbers, and the batch has between one and
\* BatchSize of them while rows are left.
LEMMA BatchType ==
    ASSUME NEW j \in Job, j.rowsRead < j.fileRows
    PROVE  /\ BatchLength(j) \in Nat \ {0}
           /\ BatchRows(j) \in SUBSET (Nat \ {0})
           /\ (1..j.rowsRead) \cup BatchRows(j) = 1..(j.rowsRead + BatchLength(j))
           /\ j.rowsRead + 1 \in BatchRows(j)
<1>1. j.rowsRead \in Nat /\ j.fileRows \in Nat
  BY DEF Job
<1>2. BatchLength(j) \in Nat \ {0}
  BY <1>1, BatchSizeAssumption DEF BatchLength
<1> QED
  BY <1>1, <1>2 DEF BatchRows

\* Every step keeps the types: a call uses its version and its run only where
\* CallsAreConsistent and RunsAreHeld give them.
LEMMA StepType == TypeOK /\ CallsAreConsistent /\ RunsAreHeld /\ [Next]_vars => TypeOK'
<1> SUFFICES ASSUME TypeOK, CallsAreConsistent, RunsAreHeld, [Next]_vars PROVE TypeOK'
  OBVIOUS
<1> USE DEF TypeOK, db, Goto
<1>1. ASSUME NEW w \in Workers, Return(w)
      PROVE  phase' \in [Workers -> Phases] /\ job' \in [Workers -> Job]
  <2>1. NoJob \in Job
    BY DEF NoJob, Job
  <2> QED
    BY <1>1, <2>1 DEF Return, Phases
<1>2. ASSUME NEW w \in Workers, RollBack(w)
      PROVE  phase' \in [Workers -> Phases] /\ job' \in [Workers -> Job]
  BY <1>2, ZenonT(40) DEF RollBack, Phases, Job
<1>3. ASSUME NEW w \in Workers, NEW status \in SourceStatus, Registered(w, status)
      PROVE  phase' \in [Workers -> Phases] /\ job' \in [Workers -> Job]
  BY <1>3, ZenonT(40) DEF Registered, DecisionPhase, Phases, Job
<1>4. ASSUME Fault PROVE faults' \in 0..MaxFaults
  BY <1>4, BoundsAssumption DEF Fault
<1>5. ASSUME NEW w \in Workers, phase[w] # "idle" PROVE job[w] \in Job /\ job[w].version \in Versions
  BY <1>5 DEF CallsAreConsistent
<1>6. ASSUME NEW w \in Workers, Attempting(w)
      PROVE  job[w].run \in DOMAIN pipeline_runs /\ pipeline_runs[job[w].run] \in PipelineRun
  <2>1. job[w].run \in DOMAIN pipeline_runs
    BY <1>6 DEF RunsAreHeld
  <2> QED
    BY <2>1
<1>7. ASSUME NEW w \in Workers, phase[w] = "marked", LoadCommitted(w)
      PROVE  /\ raw_rows' \in [Versions -> SUBSET RawRow]
             /\ source_files' \in [Versions -> SourceStatus \cup {"absent"}]
             /\ pipeline_runs' \in Seq(PipelineRun)
  <2>1. /\ job[w] \in Job /\ job[w].version \in Versions
        /\ job[w].run \in DOMAIN pipeline_runs /\ pipeline_runs[job[w].run] \in PipelineRun
    BY <1>5, <1>6, <1>7 DEF Attempting, Loading
  <2>2. {[row |-> n, run |-> job[w].run] : n \in job[w].staged} \in SUBSET RawRow
    BY <2>1 DEF Job, RawRow
  <2>3. [pipeline_runs[job[w].run] EXCEPT !.status = "succeeded", !.rows_loaded = job[w].rowsRead]
          \in PipelineRun
    BY <2>1 DEF Job, PipelineRun, RunStatus
  <2> QED
    BY <1>7, <2>1, <2>2, <2>3 DEF LoadCommitted, SourceStatus
<1>8. CASE UNCHANGED vars
  BY <1>8 DEF vars
<1>9. ASSUME NEW w \in Workers, NEW v \in Versions, BeginIngest(w, v) PROVE TypeOK'
  <2>1. [NoJob EXCEPT !.version = v] \in Job
    BY DEF NoJob, Job
  <2>2. calls' \in 0..MaxCalls
    BY <1>9, BoundsAssumption DEF BeginIngest
  <2> QED
    BY <1>9, <2>1, <2>2 DEF BeginIngest, Phases
<1>10. ASSUME NEW w \in Workers, FindExactVersion(w) PROVE TypeOK'
  BY <1>3, <1>5, <1>10 DEF FindExactVersion, Phases
<1>11. ASSUME NEW w \in Workers, CheckPartition(w) PROVE TypeOK'
  <2> DEFINE status == IF PartitionExists(job[w].version) THEN "revision_detected" ELSE "ready"
  <2>1. [job[w] EXCEPT !.seen = status] \in Job
    BY DEF Job, SourceStatus
  <2>2. job' = [job EXCEPT ![w] = [job[w] EXCEPT !.seen = status]]
    BY <1>11 DEF CheckPartition
  <2> HIDE DEF status
  <2> QED
    BY <1>11, <2>1, <2>2 DEF CheckPartition, Phases
<1>12. ASSUME NEW w \in Workers, InsertSource(w) PROVE TypeOK'
  BY <1>3, <1>5, <1>12 DEF InsertSource, Phases
<1>13. ASSUME NEW w \in Workers, CommitRegistration(w) PROVE TypeOK'
  <2>1. job[w].seen \in SourceStatus
    BY <1>13 DEF CommitRegistration, CallsAreConsistent, SourceStatus
  <2> QED
    BY <1>3, <1>13, <2>1 DEF CommitRegistration
<1>14. ASSUME NEW w \in Workers, CreateSkippedRun(w) PROVE TypeOK'
  <2>1. [source |-> job[w].version, status |-> "skipped",
         reason |-> SkipReasonFor(job[w].seen), rows_loaded |-> 0] \in PipelineRun
    BY <1>5, <1>14 DEF CreateSkippedRun, PipelineRun, RunStatus, SkipReason, SkipReasonFor
  <2> QED
    BY <1>1, <1>14, <2>1 DEF CreateSkippedRun
<1>15. ASSUME NEW w \in Workers, ReadReadySource(w) PROVE TypeOK'
  BY <1>1, <1>15 DEF ReadReadySource, Phases
<1>16. ASSUME NEW w \in Workers, StartRun(w) PROVE TypeOK'
  <2>1. [source |-> job[w].version, status |-> "running",
         reason |-> "none", rows_loaded |-> 0] \in PipelineRun
    BY <1>5, <1>16 DEF StartRun, PipelineRun, RunStatus
  <2>2. job' \in [Workers -> Job] /\ phase' \in [Workers -> Phases]
    <3>1. [job[w] EXCEPT !.run = Len(pipeline_runs) + 1] \in Job
      <4>1. Len(pipeline_runs) + 1 \in Nat /\ job[w] \in Job
        OBVIOUS
      <4> QED
        BY <4>1 DEF Job
    <3>2. job' = [job EXCEPT ![w] = [job[w] EXCEPT !.run = Len(pipeline_runs) + 1]]
      BY <1>16 DEF StartRun
    <3> QED
      BY <1>16, <3>1, <3>2 DEF StartRun, Phases
  <2> QED
    BY <1>16, <2>1, <2>2 DEF StartRun
<1>17. ASSUME NEW w \in Workers, OpenFile(w) PROVE TypeOK'
  <2>1. PICK n \in Nat : job' = [job EXCEPT ![w] = [job[w] EXCEPT !.fileRows = n]]
    BY <1>5, <1>17, FileRowsAssumption DEF OpenFile
  <2>2. [job[w] EXCEPT !.fileRows = n] \in Job
    BY DEF Job
  <2> QED
    BY <1>17, <2>1, <2>2 DEF OpenFile, Phases
<1>18. ASSUME NEW w \in Workers, CopyBatch(w) PROVE TypeOK'
  <2>1. BatchLength(job[w]) \in Nat \ {0} /\ BatchRows(job[w]) \in SUBSET (Nat \ {0})
    BY <1>18, BatchType DEF CopyBatch
  <2>2. [job[w] EXCEPT !.rowsRead = job[w].rowsRead + BatchLength(job[w]),
                       !.staged = job[w].staged \cup BatchRows(job[w])] \in Job
    <3>1. job[w] \in Job
      OBVIOUS
    <3>2. /\ job[w].rowsRead + BatchLength(job[w]) \in Nat
          /\ job[w].staged \cup BatchRows(job[w]) \in SUBSET (Nat \ {0})
      BY <2>1, <3>1 DEF Job
    <3> HIDE DEF TypeOK
    <3> QED
      BY <3>1, <3>2 DEF Job
  <2> QED
    BY <1>18, <2>2 DEF CopyBatch
<1>19. ASSUME NEW w \in Workers, UniqueViolation(w) PROVE TypeOK'
  BY <1>2, <1>19 DEF UniqueViolation
<1>20. ASSUME NEW w \in Workers, MarkRunSucceeded(w) PROVE TypeOK'
  BY <1>2, <1>20 DEF MarkRunSucceeded, Phases
<1>21. ASSUME NEW w \in Workers, CommitLoad(w) PROVE TypeOK'
  BY <1>1, <1>7, <1>21 DEF CommitLoad
<1>22. ASSUME NEW w \in Workers, CommitInDoubt(w) PROVE TypeOK'
  BY <1>2, <1>4, <1>7, <1>22 DEF CommitInDoubt
<1>23. ASSUME NEW w \in Workers, LoadFails(w) PROVE TypeOK'
  BY <1>2, <1>4, <1>23 DEF LoadFails
<1>24. ASSUME NEW w \in Workers, MarkRunFailed(w) PROVE TypeOK'
  <2>1. job[w].run \in DOMAIN pipeline_runs /\ pipeline_runs[job[w].run] \in PipelineRun
    BY <1>6, <1>24 DEF MarkRunFailed, Attempting
  <2>2. [pipeline_runs[job[w].run] EXCEPT !.status = "failed"] \in PipelineRun
    BY <2>1 DEF PipelineRun, RunStatus
  <2> QED
    BY <1>1, <1>24, <2>1, <2>2 DEF MarkRunFailed
<1>25. ASSUME NEW w \in Workers, Abandon(w) PROVE TypeOK'
  BY <1>1, <1>4, <1>25 DEF Abandon
<1> QED
  BY <1>8, <1>9, <1>10, <1>11, <1>12, <1>13, <1>14, <1>15, <1>16, <1>17, <1>18, <1>19,
     <1>20, <1>21, <1>22, <1>23, <1>24, <1>25 DEF Next, Step, Proceed

-----------------------------------------------------------------------------
(* Every step keeps the other conjuncts.                                    *)

\* While w loads rows its source is ready: only w could mark it loaded.
LEMMA MarkedSourceReady ==
    ASSUME IInv, NEW w \in Workers, phase[w] = "marked"
    PROVE  /\ job[w].version \in Versions
           /\ job[w].rowsRead = RowCount[job[w].version]
           /\ job[w].rowsRead \in Nat \ {0}
           /\ source_files[job[w].version] = "ready"
<1>1. job[w].version \in Versions
  BY DEF IInv, CallsAreConsistent
<1>2. job[w].rowsRead = RowCount[job[w].version]
  BY DEF IInv, KeysAreExclusive
<1>3. job[w].rowsRead \in Nat \ {0}
  BY <1>1, <1>2, RowCountAssumption
<1> QED
  BY <1>1, <1>2, <1>3 DEF IInv, KeysAreExclusive

\* The committed status of a source moves from absent to ready or blocked, when
\* the transaction that registers it commits, and from ready to loaded, when the
\* one that has its rows in flight commits.
LEMMA StatusStep ==
    ASSUME IInv, [Next]_vars, NEW v \in Versions
    PROVE  \/ source_files'[v] = source_files[v]
           \/ /\ source_files[v] = "absent"
              /\ source_files'[v] \in {"ready", "revision_detected"}
              /\ \E w \in Workers : /\ phase[w] = "registering" /\ job[w].version = v
                                    /\ phase' = [phase EXCEPT ![w] = DecisionPhase(job[w].seen)]
           \/ /\ source_files[v] = "ready" /\ source_files'[v] = "loaded"
              /\ \E w \in Workers : /\ phase[w] = "marked" /\ job[w].version = v
                                    /\ job'[w].rowsRead = 0
<1>1. source_files \in [Versions -> SourceStatus \cup {"absent"}]
  BY DEF IInv, TypeOK
<1>2. ASSUME NEW w \in Workers, CommitRegistration(w)
      PROVE  \/ source_files'[v] = source_files[v]
             \/ /\ source_files[v] = "absent"
                /\ source_files'[v] \in {"ready", "revision_detected"}
                /\ phase[w] = "registering" /\ job[w].version = v
                /\ phase' = [phase EXCEPT ![w] = DecisionPhase(job[w].seen)]
  <2>1. job[w].seen \in {"ready", "revision_detected"} /\ source_files[job[w].version] = "absent"
    BY <1>2 DEF CommitRegistration, IInv, CallsAreConsistent
  <2> QED
    BY <1>1, <1>2, <2>1 DEF CommitRegistration, Registered, Goto
<1>3. ASSUME NEW w \in Workers, phase[w] = "marked", LoadCommitted(w)
      PROVE  \/ source_files'[v] = source_files[v]
             \/ /\ source_files[v] = "ready" /\ source_files'[v] = "loaded"
                /\ job[w].version = v
  BY <1>1, <1>3, MarkedSourceReady DEF LoadCommitted
<1>4. CASE \E w \in Workers : CommitRegistration(w)
  BY <1>2, <1>4
<1>5. CASE \E w \in Workers : CommitLoad(w) \/ CommitInDoubt(w)
  <2>1. PICK w \in Workers : CommitLoad(w) \/ CommitInDoubt(w)
    BY <1>5
  <2>2. job'[w].rowsRead = 0
    <3>1. job \in [Workers -> Job]
      BY DEF IInv, TypeOK
    <3>2. CASE job' = [job EXCEPT ![w] = NoJob]
      BY <3>1, <3>2 DEF NoJob
    <3>3. CASE RollBack(w)
      BY <3>1, <3>3 DEF RollBack, Job
    <3> QED
      BY <2>1, <3>2, <3>3 DEF CommitLoad, CommitInDoubt, Return
  <2> QED
    BY <1>3, <2>1, <2>2 DEF CommitLoad, CommitInDoubt
<1>6. CASE UNCHANGED source_files
  BY <1>6
<1> QED
  BY <1>4, <1>5, <1>6 DEF Next, Step, Proceed, vars, db, BeginIngest, FindExactVersion,
     CheckPartition, InsertSource, CreateSkippedRun, ReadReadySource, StartRun, OpenFile,
     CopyBatch, UniqueViolation, MarkRunSucceeded, LoadFails, MarkRunFailed, Abandon

\* A step changes the phase and the locals of its process only.
LEMMA OthersUnchanged ==
    ASSUME TypeOK, NEW w \in Workers, Step(w), NEW o \in Workers, o # w
    PROVE  phase'[o] = phase[o] /\ job'[o] = job[o]
<1>1. phase \in [Workers -> Phases] /\ job \in [Workers -> Job]
  BY DEF TypeOK
<1> USE <1>1 DEF Goto
<1>2. CASE Return(w)
  BY <1>2 DEF Return
<1>3. CASE RollBack(w)
  BY <1>3 DEF RollBack
<1>4. CASE \E status : Registered(w, status)
  BY <1>4 DEF Registered
<1>5. CASE \E v \in Versions : BeginIngest(w, v)
  BY <1>5 DEF BeginIngest
<1>6. CASE FindExactVersion(w) \/ CheckPartition(w) \/ InsertSource(w) \/ CommitRegistration(w)
  BY <1>4, <1>6 DEF FindExactVersion, CheckPartition, InsertSource, CommitRegistration
<1>7. CASE CreateSkippedRun(w) \/ ReadReadySource(w) \/ StartRun(w) \/ OpenFile(w)
  BY <1>2, <1>7 DEF CreateSkippedRun, ReadReadySource, StartRun, OpenFile
<1>8. CASE CopyBatch(w) \/ UniqueViolation(w) \/ MarkRunSucceeded(w)
  BY <1>3, <1>8 DEF CopyBatch, UniqueViolation, MarkRunSucceeded
<1>9. CASE CommitLoad(w) \/ CommitInDoubt(w) \/ LoadFails(w) \/ MarkRunFailed(w) \/ Abandon(w)
  BY <1>2, <1>3, <1>9 DEF CommitLoad, CommitInDoubt, LoadFails, MarkRunFailed, Abandon
<1> QED
  BY <1>5, <1>6, <1>7, <1>8, <1>9 DEF Step, Proceed

\* What a call has read about its source stays usable until its next read:
\* registration re-reads a raced row, and no status moves back.
LEMMA StepCalls ==
    ASSUME IInv, [Next]_vars
    PROVE  CallsAreConsistent'
<1>1. /\ source_files \in [Versions -> SourceStatus \cup {"absent"}]
      /\ phase \in [Workers -> Phases] /\ job \in [Workers -> Job]
  BY DEF IInv, TypeOK
<1>2. CASE UNCHANGED vars
  BY <1>2 DEF vars, IInv, CallsAreConsistent, Attempting, Loading
<1> DEFINE Consistent(o) ==
        LET v == job[o].version IN
        /\ phase[o] # "idle" => v \in Versions
        /\ phase[o] = "insert" => job[o].seen \in {"ready", "revision_detected"}
        /\ phase[o] = "registering" =>
             job[o].seen \in {"ready", "revision_detected"} /\ source_files[v] = "absent"
        /\ phase[o] = "skip" =>
             job[o].seen \in {"loaded", "revision_detected"} /\ source_files[v] = job[o].seen
        /\ phase[o] \in {"start", "starting", "opening", "copying", "marked", "failing"} =>
             source_files[v] \in {"ready", "loaded"}
<1>3. ASSUME NEW o \in Workers PROVE Consistent(o)
  BY DEF IInv, CallsAreConsistent, Attempting, Loading
<1>4. SUFFICES ASSUME NEW w \in Workers, Step(w), NEW o \in Workers PROVE Consistent(o)'
  BY <1>2 DEF Next, CallsAreConsistent, Attempting, Loading
<1>5. CASE o # w
  <2>1. phase'[o] = phase[o] /\ job'[o] = job[o]
    BY <1>4, <1>5, OthersUnchanged DEF IInv
  <2>2. CASE phase[o] = "idle"
    BY <2>1, <2>2
  <2>3. CASE phase[o] # "idle"
    <3>1. job[o].version \in Versions
      BY <1>3, <2>3
    <3>2. phase[o] = "registering" => source_files'[job[o].version] = "absent"
      <4> SUFFICES ASSUME phase[o] = "registering" PROVE source_files'[job[o].version] = "absent"
        OBVIOUS
      <4>1. ASSUME NEW x \in Workers, phase[x] = "registering", job[x].version = job[o].version,
                   phase' = [phase EXCEPT ![x] = DecisionPhase(job[x].seen)]
            PROVE  FALSE
        <5>1. x = o
          BY <4>1 DEF IInv, RegistrationsAreExclusive
        <5> QED
          BY <1>1, <2>1, <4>1, <5>1 DEF DecisionPhase
      <4> QED
        BY <1>3, <3>1, <4>1, StatusStep
    <3> QED
      BY <1>3, <2>1, <3>1, <3>2, StatusStep
  <2> QED
    BY <2>2, <2>3
<1>6. CASE o = w
  <2>1. CASE Return(w)
    BY <1>1, <1>6, <2>1 DEF Return, Goto
  <2>2. CASE \E v \in Versions : BeginIngest(w, v)
    BY <1>1, <1>6, <2>2 DEF BeginIngest, Goto, NoJob
  <2>3. ASSUME NEW status \in SourceStatus, Registered(w, status),
               source_files'[job[w].version] = status, phase[w] # "idle"
        PROVE  Consistent(w)'
    BY <1>1, <1>3, <2>3 DEF Registered, DecisionPhase, Goto, SourceStatus
  <2>4. CASE FindExactVersion(w)
    BY <1>1, <1>3, <1>6, <2>3, <2>4 DEF FindExactVersion, Goto, db
  <2>5. CASE CheckPartition(w)
    BY <1>1, <1>3, <1>6, <2>5 DEF CheckPartition, Goto
  <2>6. CASE InsertSource(w)
    BY <1>1, <1>3, <1>6, <2>3, <2>6 DEF InsertSource, Goto, db
  <2>7. CASE CommitRegistration(w)
    BY <1>1, <1>3, <1>6, <2>3, <2>7 DEF CommitRegistration, SourceStatus
  <2>8. CASE ReadReadySource(w)
    BY <1>1, <1>3, <1>6, <2>1, <2>8 DEF ReadReadySource, Goto, db
  <2>9. CASE StartRun(w) \/ OpenFile(w)
    <3>1. job[w] \in Job
      BY <1>1
    <3>2. job'[w].version = job[w].version
      BY <1>1, <2>9, <3>1 DEF StartRun, OpenFile, Job
    <3>3. /\ phase[w] \in {"starting", "opening"} /\ phase'[w] \in {"opening", "copying"}
          /\ UNCHANGED source_files
      BY <1>1, <2>9 DEF StartRun, OpenFile, Goto, db
    <3> QED
      BY <1>3, <1>6, <3>2, <3>3
  <2>10. CASE RollBack(w) /\ phase[w] \in {"opening", "copying"} /\ UNCHANGED source_files
    BY <1>1, <1>3, <1>6, <2>10 DEF RollBack, Goto
  <2>11. CASE RollBack(w) /\ phase[w] = "marked"
    <3>1. source_files[job[w].version] = "ready"
      BY <2>11, MarkedSourceReady
    <3>2. source_files'[job[w].version] \in {"ready", "loaded"}
      BY <1>3, <2>11, <3>1, StatusStep
    <3> QED
      BY <1>1, <1>3, <1>6, <2>11, <3>2 DEF RollBack, Goto
  <2>12. CASE CopyBatch(w)
    BY <1>1, <1>3, <1>6, <2>12 DEF CopyBatch, db
  <2>13. CASE MarkRunSucceeded(w)
    BY <1>1, <1>3, <1>6, <2>10, <2>13 DEF MarkRunSucceeded, Goto, db
  <2>14. CASE UniqueViolation(w) \/ CommitInDoubt(w) \/ LoadFails(w)
    BY <2>10, <2>11, <2>14 DEF UniqueViolation, CommitInDoubt, LoadFails, db
  <2>15. CASE CreateSkippedRun(w) \/ CommitLoad(w) \/ MarkRunFailed(w) \/ Abandon(w)
    BY <2>1, <2>15 DEF CreateSkippedRun, CommitLoad, MarkRunFailed, Abandon
  <2> QED
    BY <1>4, <2>2, <2>4, <2>5, <2>6, <2>7, <2>8, <2>9, <2>12, <2>13, <2>14, <2>15
    DEF Step, Proceed
<1> QED
  BY <1>5, <1>6

\* The unique constraint lets one transaction insert a version, and the sibling
\* that a blocked registration has seen is never removed.
LEMMA StepRegistrations ==
    ASSUME IInv, [Next]_vars
    PROVE  RegistrationsAreExclusive'
<1>1. phase \in [Workers -> Phases] /\ job \in [Workers -> Job]
  BY DEF IInv, TypeOK
<1> DEFINE StillExists(v) ==
        \E u \in Versions : PartitionOf[u] = PartitionOf[v] /\ source_files'[u] # "absent"
<1>2. ASSUME NEW v \in Versions, PartitionExists(v) PROVE StillExists(v)
  BY <1>2, StatusStep DEF PartitionExists
<1>3. CASE UNCHANGED vars
  BY <1>3 DEF vars, IInv, RegistrationsAreExclusive, PartitionExists
<1> SUFFICES ASSUME NEW w \in Workers, Step(w) PROVE RegistrationsAreExclusive'
  BY <1>3 DEF Next
<1>4. ASSUME NEW o \in Workers, o # w PROVE phase'[o] = phase[o] /\ job'[o] = job[o]
  BY <1>4, OthersUnchanged DEF IInv
<1>5. \/ phase'[w] \notin {"insert", "registering"}
      \/ CheckPartition(w)
      \/ InsertSource(w) /\ phase' = [phase EXCEPT ![w] = "registering"] /\ UNCHANGED job
  <2>1. CASE Return(w)
    BY <1>1, <2>1 DEF Return, Goto
  <2>2. CASE RollBack(w)
    BY <1>1, <2>2 DEF RollBack, Goto
  <2>3. CASE \E status : Registered(w, status)
    BY <1>1, <2>3 DEF Registered, DecisionPhase, Goto
  <2> QED
    BY <1>1, <2>1, <2>2, <2>3 DEF Step, Proceed, BeginIngest, FindExactVersion, InsertSource,
       CommitRegistration, CreateSkippedRun, ReadReadySource, StartRun, OpenFile, CopyBatch,
       UniqueViolation, MarkRunSucceeded, CommitLoad, CommitInDoubt, LoadFails, MarkRunFailed,
       Abandon, Goto
<1>6. ASSUME NEW x \in Workers, NEW o \in Workers, phase'[x] = "registering",
             phase'[o] = "registering", job'[x].version = job'[o].version
      PROVE  x = o
  BY <1>1, <1>4, <1>5, <1>6 DEF CheckPartition, InsertSource, Goto, IInv, RegistrationsAreExclusive
<1>7. ASSUME NEW o \in Workers, phase'[o] \in {"insert", "registering"},
             job'[o].seen = "revision_detected"
      PROVE  StillExists(job'[o].version)
  <2>1. ASSUME phase[o] \in {"insert", "registering"}, job[o].seen = "revision_detected"
        PROVE  job[o].version \in Versions /\ StillExists(job[o].version)
    BY <1>2, <2>1 DEF IInv, RegistrationsAreExclusive, CallsAreConsistent
  <2>2. CASE o # w
    BY <1>4, <1>7, <2>1, <2>2
  <2>3. CASE o = w /\ CheckPartition(w)
    <3>1. job[w].version \in Versions /\ job'[w].version = job[w].version
      BY <1>1, <2>3 DEF CheckPartition, IInv, CallsAreConsistent
    <3>2. PartitionExists(job[w].version)
      BY <1>1, <1>7, <2>3 DEF CheckPartition, Job
    <3> QED
      BY <1>2, <2>3, <3>1, <3>2
  <2>4. CASE o = w /\ InsertSource(w) /\ UNCHANGED job
    BY <1>7, <2>1, <2>4 DEF InsertSource
  <2> QED
    BY <1>5, <1>7, <2>2, <2>3, <2>4
<1> QED
  BY <1>6, <1>7 DEF RegistrationsAreExclusive, PartitionExists

\* The check of create_skipped_run passes whenever ingest_source calls it: what
\* the registration saw is final, and the reason is the one it bears out.
LEMMA SkipsAreRecorded ==
    ASSUME IInv, NEW w \in Workers, CreateSkippedRun(w)
    PROVE  pipeline_runs' = Append(pipeline_runs,
             [source |-> job[w].version, status |-> "skipped",
              reason |-> SkipReasonFor(job[w].seen), rows_loaded |-> 0])
<1>1. job[w].seen \in {"loaded", "revision_detected"} /\ source_files[job[w].version] = job[w].seen
  BY DEF CreateSkippedRun, IInv, CallsAreConsistent
<1>2. /\ SkipReasonFor(job[w].seen) \in SkipReason
      /\ source_files[job[w].version] = RequiredStatus(SkipReasonFor(job[w].seen))
  BY <1>1 DEF SkipReasonFor, SkipReason, RequiredStatus
<1>. QED  BY <1>2 DEF CreateSkippedRun

\* A step adds at most one run and changes at most one: the running run that
\* the process of the step holds.
LEMMA RunStep ==
    ASSUME IInv, NEW w \in Workers, Step(w)
    PROVE  /\ \A i \in DOMAIN pipeline_runs :
                /\ i \in DOMAIN pipeline_runs'
                /\ pipeline_runs'[i].source = pipeline_runs[i].source
                /\ \/ pipeline_runs'[i] = pipeline_runs[i]
                   \/ /\ Attempting(w) /\ job[w].run = i
                      /\ pipeline_runs[i].status = "running"
                      /\ \/ LoadCommitted(w) /\ phase[w] = "marked"
                         \/ pipeline_runs'[i].status = "failed" /\ UNCHANGED <<source_files, raw_rows>>
           /\ \A i \in DOMAIN pipeline_runs' \ DOMAIN pipeline_runs :
                /\ i = Len(pipeline_runs) + 1
                /\ Len(pipeline_runs') = Len(pipeline_runs) + 1
                /\ UNCHANGED <<source_files, raw_rows>>
                /\ \/ CreateSkippedRun(w)
                   \/ StartRun(w)
<1>1. /\ pipeline_runs \in Seq(PipelineRun)
      /\ \A i \in DOMAIN pipeline_runs : pipeline_runs[i] \in PipelineRun
  BY DEF IInv, TypeOK
<1>2. CASE UNCHANGED pipeline_runs
  BY <1>2
<1>3. CASE CreateSkippedRun(w) \/ StartRun(w)
  <2>1. PICK run : pipeline_runs' = Append(pipeline_runs, run)
    BY <1>3, SkipsAreRecorded DEF StartRun
  <2>2. UNCHANGED <<source_files, raw_rows>>
    BY <1>3 DEF CreateSkippedRun, StartRun
  <2>3. /\ DOMAIN pipeline_runs = 1..Len(pipeline_runs)
        /\ DOMAIN pipeline_runs' = 1..(Len(pipeline_runs) + 1)
        /\ Len(pipeline_runs) \in Nat
        /\ Len(pipeline_runs') = Len(pipeline_runs) + 1
        /\ \A i \in 1..Len(pipeline_runs) : pipeline_runs'[i] = pipeline_runs[i]
    BY <1>1, <2>1
  <2> QED
    BY <1>3, <2>2, <2>3
<1>4. CASE phase[w] = "marked" /\ LoadCommitted(w)
  <2>1. /\ Attempting(w) /\ job[w].run \in DOMAIN pipeline_runs
        /\ pipeline_runs[job[w].run].status = "running"
    BY <1>4 DEF IInv, RunsAreHeld, Attempting, Loading
  <2>2. pipeline_runs' = [pipeline_runs EXCEPT ![job[w].run] =
          [pipeline_runs[job[w].run] EXCEPT !.status = "succeeded", !.rows_loaded = job[w].rowsRead]]
    BY <1>4 DEF LoadCommitted
  <2> QED
    BY <1>1, <1>4, <2>1, <2>2 DEF PipelineRun
<1>5. CASE MarkRunFailed(w)
  <2>1. Attempting(w) /\ job[w].run \in DOMAIN pipeline_runs
    BY <1>5 DEF MarkRunFailed, IInv, RunsAreHeld, Attempting
  <2>2. CASE pipeline_runs[job[w].run].status = "running"
    <3>1. pipeline_runs' = [pipeline_runs EXCEPT ![job[w].run] =
            [pipeline_runs[job[w].run] EXCEPT !.status = "failed"]]
      BY <1>5, <2>2 DEF MarkRunFailed
    <3> QED
      BY <1>1, <1>5, <2>1, <2>2, <3>1 DEF PipelineRun, MarkRunFailed
  <2>3. CASE pipeline_runs[job[w].run].status # "running"
    BY <1>2, <1>5, <2>3 DEF MarkRunFailed
  <2> QED
    BY <2>2, <2>3
<1> QED
  BY <1>2, <1>3, <1>4, <1>5 DEF Step, Proceed, db, BeginIngest, FindExactVersion,
     CheckPartition, InsertSource, CommitRegistration, ReadReadySource, OpenFile, CopyBatch,
     UniqueViolation, MarkRunSucceeded, CommitLoad, CommitInDoubt, LoadFails, Abandon

\* A process is attempting a load after a step only if it was before, with the
\* same run of the same source, or has just created its run.
LEMMA AttemptStep ==
    ASSUME IInv, NEW w \in Workers, Step(w), Attempting(w)'
    PROVE  \/ StartRun(w)
           \/ /\ Attempting(w)
              /\ job'[w].run = job[w].run /\ job'[w].version = job[w].version
              /\ \/ UNCHANGED pipeline_runs /\ (Loading(w)' => Loading(w))
                 \/ phase[w] = "marked" /\ LoadCommitted(w) /\ phase'[w] = "failing"
<1> USE DEF Attempting, Loading, Goto
<1>1. phase \in [Workers -> Phases] /\ job \in [Workers -> Job]
  BY DEF IInv, TypeOK
<1>2. CASE Return(w)
  BY <1>1, <1>2 DEF Return
<1>3. ASSUME RollBack(w)
      PROVE  /\ phase'[w] = "failing"
             /\ job'[w].run = job[w].run /\ job'[w].version = job[w].version
  BY <1>1, <1>3 DEF RollBack, Job
<1>4. CASE \E status : Registered(w, status)
  BY <1>1, <1>4 DEF Registered, DecisionPhase
<1>5. CASE OpenFile(w)
  <2>1. PICK n : job' = [job EXCEPT ![w] = [job[w] EXCEPT !.fileRows = n]]
    BY <1>5 DEF OpenFile
  <2> QED
    BY <1>1, <1>5, <2>1 DEF OpenFile, Job, db
<1>6. CASE CopyBatch(w)
  BY <1>1, <1>6 DEF CopyBatch, Job, db
<1>7. CASE MarkRunSucceeded(w)
  BY <1>1, <1>3, <1>7 DEF MarkRunSucceeded, db
<1>8. CASE UniqueViolation(w) \/ CommitInDoubt(w) \/ LoadFails(w)
  BY <1>3, <1>8 DEF UniqueViolation, CommitInDoubt, LoadFails, db
<1>9. CASE \/ \E v \in Versions : BeginIngest(w, v)
           \/ FindExactVersion(w) \/ CheckPartition(w) \/ InsertSource(w) \/ CommitRegistration(w)
  BY <1>1, <1>4, <1>9 DEF BeginIngest, FindExactVersion, CheckPartition, InsertSource,
     CommitRegistration
<1>10. CASE ReadReadySource(w) \/ CreateSkippedRun(w) \/ CommitLoad(w) \/ MarkRunFailed(w) \/ Abandon(w)
  BY <1>1, <1>2, <1>10 DEF ReadReadySource, CreateSkippedRun, CommitLoad, MarkRunFailed, Abandon
<1> QED
  BY <1>5, <1>6, <1>7, <1>8, <1>9, <1>10 DEF Step, Proceed

\* A run belongs to the call that created it until the call ends.
LEMMA StepRuns ==
    ASSUME IInv, [Next]_vars
    PROVE  RunsAreHeld'
<1>1. /\ phase \in [Workers -> Phases] /\ job \in [Workers -> Job]
      /\ pipeline_runs \in Seq(PipelineRun)
  BY DEF IInv, TypeOK
<1>2. CASE UNCHANGED vars
  BY <1>2 DEF vars, IInv, RunsAreHeld, Attempting, Loading
<1> SUFFICES ASSUME NEW w \in Workers, Step(w) PROVE RunsAreHeld'
  BY <1>2 DEF Next
<1> DEFINE Held(o) ==
        /\ job[o].run \in DOMAIN pipeline_runs
        /\ pipeline_runs[job[o].run].source = job[o].version
        /\ pipeline_runs[job[o].run].status \in {"running", "succeeded"}
        /\ Loading(o) => pipeline_runs[job[o].run].status = "running"
<1>3. ASSUME NEW o \in Workers, Attempting(o) PROVE Held(o)
  BY <1>3 DEF IInv, RunsAreHeld
<1>4. ASSUME NEW o \in Workers, NEW x \in Workers, Attempting(o), Attempting(x),
             job[o].run = job[x].run
      PROVE  o = x
  BY <1>4 DEF IInv, RunsAreHeld
<1>5. ASSUME NEW o \in Workers, o # w
      PROVE  /\ phase'[o] = phase[o] /\ job'[o] = job[o]
             /\ Attempting(o)' <=> Attempting(o)
             /\ Loading(o)' <=> Loading(o)
  BY <1>5, OthersUnchanged DEF IInv, Attempting, Loading
<1>6. ASSUME StartRun(w)
      PROVE  /\ Held(w)' /\ job'[w].run = Len(pipeline_runs) + 1
             /\ Len(pipeline_runs) + 1 \notin DOMAIN pipeline_runs
  <2>1. job'[w].run = Len(pipeline_runs) + 1 /\ job'[w].version = job[w].version
    BY <1>1, <1>6 DEF StartRun, Job
  <2>2. pipeline_runs' = Append(pipeline_runs,
          [source |-> job[w].version, status |-> "running",
           reason |-> "none", rows_loaded |-> 0])
    BY <1>6 DEF StartRun
  <2>3. /\ Len(pipeline_runs) + 1 \in DOMAIN pipeline_runs'
        /\ pipeline_runs'[Len(pipeline_runs) + 1].source = job[w].version
        /\ pipeline_runs'[Len(pipeline_runs) + 1].status = "running"
        /\ Len(pipeline_runs) + 1 \notin DOMAIN pipeline_runs
    BY <1>1, <2>2
  <2> QED
    BY <2>1, <2>3
<1>7. ASSUME NEW o \in Workers, Attempting(o)' PROVE Held(o)'
  <2>1. CASE o # w
    BY <1>3, <1>4, <1>5, <1>7, <2>1, RunStep
  <2>2. CASE o = w
    <3>1. CASE StartRun(w)
      BY <1>6, <2>2, <3>1
    <3>2. CASE UNCHANGED pipeline_runs /\ ~StartRun(w)
      <4>1. /\ Attempting(w)
            /\ job'[w].run = job[w].run /\ job'[w].version = job[w].version
            /\ Loading(w)' => Loading(w)
        BY <1>7, <2>2, <3>2, AttemptStep DEF Loading
      <4>2. Held(w)
        BY <1>3, <4>1
      <4> QED
        BY <2>2, <3>2, <4>1, <4>2
    <3>3. CASE phase[w] = "marked" /\ LoadCommitted(w) /\ ~StartRun(w) /\ phase'[w] = "failing"
      <4>1. /\ Attempting(w)
            /\ job'[w].run = job[w].run /\ job'[w].version = job[w].version
        BY <1>7, <2>2, <3>3, AttemptStep
      <4>2. /\ job[w].run \in DOMAIN pipeline_runs
            /\ pipeline_runs[job[w].run] \in PipelineRun
            /\ pipeline_runs[job[w].run].source = job[w].version
        BY <1>1, <1>3, <4>1
      <4>3. pipeline_runs' = [pipeline_runs EXCEPT ![job[w].run] =
              [pipeline_runs[job[w].run] EXCEPT !.status = "succeeded", !.rows_loaded = job[w].rowsRead]]
        BY <3>3 DEF LoadCommitted
      <4> QED
        BY <1>1, <2>2, <3>3, <4>1, <4>2, <4>3 DEF PipelineRun, Loading
    <3> QED
      BY <1>7, <2>2, <3>1, <3>2, <3>3, AttemptStep
  <2> QED
    BY <2>1, <2>2
<1>8. ASSUME NEW o \in Workers, NEW x \in Workers, Attempting(o)', Attempting(x)',
             job'[o].run = job'[x].run
      PROVE  o = x
  BY <1>3, <1>4, <1>5, <1>6, <1>8, AttemptStep
<1> QED
  BY <1>7, <1>8 DEF RunsAreHeld

\* The COPY of a first batch finds the source ready and no other transaction
\* with rows of it: both would hold row 1.
LEMMA FirstBatchAlone ==
    ASSUME IInv, NEW w \in Workers, CopyBatch(w)
    PROVE  /\ source_files[job[w].version] = "ready"
           /\ \A o \in Workers :
                job[o].version = job[w].version /\ job[o].rowsRead # 0 => o = w
<1>1. /\ job \in [Workers -> Job] /\ job[w] \in Job
      /\ job[w].version \in Versions
      /\ source_files[job[w].version] \in {"ready", "loaded"}
  BY DEF IInv, TypeOK, CallsAreConsistent, CopyBatch, Attempting, Loading
<1>2. CASE job[w].rowsRead # 0
  BY <1>2 DEF IInv, KeysAreExclusive
<1>3. CASE job[w].rowsRead = 0
  <2>1. 1 \in BatchRows(job[w])
    <3>1. job[w].rowsRead < job[w].fileRows
      BY DEF CopyBatch
    <3> QED
      BY <1>1, <1>3, <3>1, BatchType
  <2>2. 1 \notin PersistedRows(job[w].version) /\ 1 \notin InFlightRows(w)
    BY <2>1 DEF CopyBatch, VisibleRows
  <2>3. source_files[job[w].version] # "loaded"
    <3> SUFFICES ASSUME source_files[job[w].version] = "loaded" PROVE FALSE
      OBVIOUS
    <3>1. PICK r : raw_rows[job[w].version] =
                     {[row |-> n, run |-> r] : n \in 1..RowCount[job[w].version]}
      <4> DEFINE v == job[w].version
      <4>1. v \in Versions /\ source_files[v] = "loaded"
        BY <1>1
      <4>2. LoadIsAtomic
        BY DEF IInv
      <4> HIDE DEF v
      <4>3. \E r \in SucceededRuns(v) : raw_rows[v] = {[row |-> n, run |-> r] : n \in 1..RowCount[v]}
        BY ONLY <4>1, <4>2 DEF LoadIsAtomic
      <4> QED
        BY <4>3 DEF v
    <3>2. 1 \in 1..RowCount[job[w].version]
      BY <1>1, RowCountAssumption
    <3>3. [row |-> 1, run |-> r] \in raw_rows[job[w].version]
      BY <3>1, <3>2
    <3> QED
      BY <2>2, <3>3 DEF PersistedRows
  <2>4. ASSUME NEW o \in Workers, job[o].version = job[w].version, job[o].rowsRead # 0
        PROVE  o = w
    <3>1. 1 \in job[o].staged
      <4>1. job[o].rowsRead \in Nat /\ job[o].staged = 1..job[o].rowsRead
        BY <1>1 DEF IInv, KeysAreExclusive, Job
      <4> QED
        BY <2>4, <4>1
    <3> QED
      BY <2>2, <2>4, <3>1 DEF InFlightRows
  <2> QED
    BY <1>1, <2>3, <2>4
<1> QED
  BY <1>2, <1>3

\* What a step does to the rows its process has in flight.
LEMMA KeysStep ==
    ASSUME IInv, NEW w \in Workers, Step(w)
    PROVE  \/ CopyBatch(w)
           \/ job'[w].rowsRead = 0 /\ job'[w].staged = {} /\ phase'[w] # "marked"
           \/ /\ MarkRunSucceeded(w) /\ phase'[w] = "marked" /\ UNCHANGED job
              /\ job[w].rowsRead = RowCount[job[w].version]
<1> USE DEF Goto
<1>1. /\ phase \in [Workers -> Phases] /\ job \in [Workers -> Job] /\ job[w] \in Job
  BY DEF IInv, TypeOK
<1>2. phase[w] \notin {"copying", "marked"} => job[w].rowsRead = 0 /\ job[w].staged = {}
  <2>1. job[w].staged = 1..job[w].rowsRead
    BY DEF IInv, KeysAreExclusive
  <2>2. phase[w] \notin {"copying", "marked"} => job[w].rowsRead = 0
    BY DEF IInv, KeysAreExclusive
  <2> QED
    BY <2>1, <2>2
<1>3. CASE Return(w)
  BY <1>1, <1>3 DEF Return, NoJob
<1>4. CASE RollBack(w)
  BY <1>1, <1>4 DEF RollBack, Job
<1>5. CASE phase[w] \notin {"copying", "marked"} /\ \E status : Registered(w, status)
  BY <1>1, <1>2, <1>5 DEF Registered, Job, DecisionPhase
<1>6. CASE \E v \in Versions : BeginIngest(w, v)
  BY <1>1, <1>6 DEF BeginIngest, NoJob
<1>7. CASE FindExactVersion(w) \/ InsertSource(w) \/ CommitRegistration(w)
  BY <1>1, <1>2, <1>5, <1>7 DEF FindExactVersion, InsertSource, CommitRegistration
<1>8. CASE CheckPartition(w)
  <2>1. PICK status : job' = [job EXCEPT ![w] = [job[w] EXCEPT !.seen = status]]
    BY <1>8 DEF CheckPartition
  <2> QED
    BY <1>1, <1>2, <1>8, <2>1 DEF CheckPartition, Job
<1>9. CASE StartRun(w) \/ OpenFile(w)
  <2>1. job'[w].rowsRead = job[w].rowsRead /\ job'[w].staged = job[w].staged
    BY <1>1, <1>9 DEF StartRun, OpenFile, Job
  <2> QED
    BY <1>1, <1>2, <1>9, <2>1 DEF StartRun, OpenFile
<1>10. CASE ReadReadySource(w)
  BY <1>1, <1>2, <1>3, <1>10 DEF ReadReadySource
<1>11. CASE MarkRunSucceeded(w)
  BY <1>1, <1>4, <1>11 DEF MarkRunSucceeded, LoadIsValid, CountsAgree
<1>12. CASE UniqueViolation(w) \/ CommitInDoubt(w) \/ LoadFails(w)
  BY <1>4, <1>12 DEF UniqueViolation, CommitInDoubt, LoadFails
<1>13. CASE CreateSkippedRun(w) \/ CommitLoad(w) \/ MarkRunFailed(w) \/ Abandon(w)
  BY <1>3, <1>13 DEF CreateSkippedRun, CommitLoad, MarkRunFailed, Abandon
<1> QED
  BY <1>6, <1>7, <1>8, <1>9, <1>10, <1>11, <1>12, <1>13 DEF Step, Proceed

\* COPY waits for the keys of another transaction, so only one transaction at a
\* time has rows of a source in flight, and none once it is loaded.
LEMMA StepKeys ==
    ASSUME IInv, [Next]_vars
    PROVE  KeysAreExclusive'
<1>1. phase \in [Workers -> Phases] /\ job \in [Workers -> Job]
  BY DEF IInv, TypeOK
<1>2. CASE UNCHANGED vars
  BY <1>2 DEF vars, IInv, KeysAreExclusive
<1> SUFFICES ASSUME NEW w \in Workers, Step(w) PROVE KeysAreExclusive'
  BY <1>2 DEF Next
<1> DEFINE Keys(o) ==
        /\ job[o].staged = 1..job[o].rowsRead
        /\ phase[o] \notin {"copying", "marked"} => job[o].rowsRead = 0
        /\ phase[o] = "marked" => job[o].rowsRead = RowCount[job[o].version]
        /\ job[o].rowsRead # 0 => source_files[job[o].version] = "ready"
<1>3. /\ \A o \in Workers : Keys(o)
      /\ \A o, x \in Workers :
           /\ job[o].version = job[x].version
           /\ job[o].rowsRead # 0 /\ job[x].rowsRead # 0
           => o = x
  BY DEF IInv, KeysAreExclusive
<1>4. ASSUME NEW o \in Workers, o # w
      PROVE  phase'[o] = phase[o] /\ job'[o] = job[o]
  BY <1>4, OthersUnchanged DEF IInv
<1>5. ASSUME CopyBatch(w)
      PROVE  /\ job'[w].version = job[w].version
             /\ job'[w].staged = 1..job'[w].rowsRead
             /\ phase'[w] = "copying"
             /\ UNCHANGED source_files
  <2>1. job[w] \in Job /\ job[w].rowsRead < job[w].fileRows
    BY <1>1, <1>5 DEF CopyBatch
  <2>2. /\ job'[w].version = job[w].version
        /\ job'[w].rowsRead = job[w].rowsRead + BatchLength(job[w])
        /\ job'[w].staged = job[w].staged \cup BatchRows(job[w])
    BY <1>1, <1>5, <2>1 DEF CopyBatch, Job
  <2>3. (1..job[w].rowsRead) \cup BatchRows(job[w]) = 1..(job[w].rowsRead + BatchLength(job[w]))
    BY <2>1, BatchType
  <2> QED
    BY <1>3, <1>5, <2>2, <2>3 DEF CopyBatch, db
<1>6. ASSUME NEW o \in Workers, job'[o] = job[o], job[o].rowsRead # 0
      PROVE  source_files'[job[o].version] = "ready"
  <2>1. job[o].version \in Versions /\ source_files[job[o].version] = "ready"
    BY <1>3, <1>6 DEF IInv, CallsAreConsistent
  <2>2. ASSUME NEW x \in Workers, phase[x] = "marked", job[x].version = job[o].version,
               job'[x].rowsRead = 0
        PROVE  FALSE
    <3>1. job[x].rowsRead # 0
      BY <2>2, MarkedSourceReady
    <3> QED
      BY <1>3, <1>6, <2>2, <3>1
  <2> QED
    BY <2>1, <2>2, StatusStep
<1>7. ASSUME NEW o \in Workers PROVE Keys(o)'
  <2>1. CASE o # w
    BY <1>3, <1>4, <1>6, <2>1
  <2>2. CASE o = w /\ CopyBatch(w)
    BY <1>5, <2>2, FirstBatchAlone
  <2>3. CASE o = w /\ job'[w].rowsRead = 0 /\ job'[w].staged = {} /\ phase'[w] # "marked"
    BY <2>3
  <2>4. CASE /\ o = w /\ phase'[w] = "marked" /\ UNCHANGED job
             /\ job[w].rowsRead = RowCount[job[w].version]
    BY <1>3, <1>6, <2>4
  <2> QED
    BY <2>1, <2>2, <2>3, <2>4, KeysStep
<1>8. ASSUME NEW o \in Workers, NEW x \in Workers, job'[o].version = job'[x].version,
             job'[o].rowsRead # 0, job'[x].rowsRead # 0
      PROVE  o = x
  <2>1. CASE CopyBatch(w)
    <3>1. ASSUME NEW y \in Workers, y # w, job'[y].version = job'[w].version, job'[y].rowsRead # 0
          PROVE  FALSE
      BY <1>4, <1>5, <2>1, <3>1, FirstBatchAlone
    <3> QED
      BY <1>3, <1>4, <1>8, <3>1
  <2>2. CASE job'[w].rowsRead = 0
    BY <1>3, <1>4, <1>8, <2>2
  <2>3. CASE UNCHANGED job
    BY <1>3, <1>8, <2>3
  <2> QED
    BY <2>1, <2>2, <2>3, KeysStep
<1> QED
  BY <1>7, <1>8 DEF KeysAreExclusive

\* Only the commit of a load makes a row visible, a source loaded or a run
\* succeeded.
LEMMA OnlyLoadsLoad ==
    ASSUME IInv, NEW w \in Workers, Step(w), ~(phase[w] = "marked" /\ LoadCommitted(w))
    PROVE  /\ UNCHANGED raw_rows
           /\ \A v \in Versions : (source_files'[v] = "loaded") <=> (source_files[v] = "loaded")
           /\ \A v \in Versions : SucceededRuns(v)' = SucceededRuns(v)
           /\ \A i \in DOMAIN pipeline_runs :
                pipeline_runs[i].status = "succeeded" => pipeline_runs'[i] = pipeline_runs[i]
<1>1. UNCHANGED raw_rows
  BY DEF Step, Proceed, db, BeginIngest, FindExactVersion, CheckPartition, InsertSource,
     CommitRegistration, CreateSkippedRun, ReadReadySource, StartRun, OpenFile, CopyBatch,
     UniqueViolation, MarkRunSucceeded, CommitLoad, CommitInDoubt, LoadFails, MarkRunFailed, Abandon
<1>2. CASE UNCHANGED source_files
  <2>1. \A i \in DOMAIN pipeline_runs :
          /\ i \in DOMAIN pipeline_runs' /\ pipeline_runs'[i].source = pipeline_runs[i].source
          /\ pipeline_runs'[i].status = "succeeded" <=> pipeline_runs[i].status = "succeeded"
          /\ pipeline_runs[i].status = "succeeded" => pipeline_runs'[i] = pipeline_runs[i]
    BY RunStep
  <2>2. \A i \in DOMAIN pipeline_runs' \ DOMAIN pipeline_runs :
          pipeline_runs'[i].status # "succeeded"
    <3> SUFFICES ASSUME NEW i \in DOMAIN pipeline_runs' \ DOMAIN pipeline_runs
                 PROVE  pipeline_runs'[i].status # "succeeded"
      OBVIOUS
    <3>1. /\ i = Len(pipeline_runs) + 1 /\ pipeline_runs \in Seq(PipelineRun)
          /\ CreateSkippedRun(w) \/ StartRun(w)
      BY RunStep DEF IInv, TypeOK
    <3>2. CASE CreateSkippedRun(w)
      BY <3>1, <3>2 DEF CreateSkippedRun
    <3>3. CASE StartRun(w)
      BY <3>1, <3>3 DEF StartRun
    <3> QED
      BY <3>1, <3>2, <3>3
  <2>3. \A v \in Versions : SucceededRuns(v)' = SucceededRuns(v)
    BY <2>1, <2>2 DEF SucceededRuns
  <2> QED
    BY <1>1, <1>2, <2>1, <2>3
<1>3. CASE CommitRegistration(w)
  <2>1. /\ job[w].version \in Versions /\ source_files[job[w].version] = "absent"
        /\ job[w].seen \in {"ready", "revision_detected"}
        /\ source_files \in [Versions -> SourceStatus \cup {"absent"}]
    BY <1>3 DEF CommitRegistration, IInv, CallsAreConsistent, TypeOK
  <2>2. \A v \in Versions : (source_files'[v] = "loaded") <=> (source_files[v] = "loaded")
    BY <1>3, <2>1 DEF CommitRegistration
  <2>3. UNCHANGED pipeline_runs
    BY <1>3 DEF CommitRegistration
  <2> QED
    BY <1>1, <2>2, <2>3 DEF SucceededRuns
<1> QED
  BY <1>2, <1>3 DEF Step, Proceed, db, BeginIngest, FindExactVersion, CheckPartition,
     InsertSource, CreateSkippedRun, ReadReadySource, StartRun, OpenFile, CopyBatch,
     UniqueViolation, MarkRunSucceeded, CommitLoad, CommitInDoubt, LoadFails, MarkRunFailed, Abandon

\* The commit of a load, in full: the rows are exactly rows 1 to row_count.
LEMMA LoadStep ==
    ASSUME IInv, NEW w \in Workers, phase[w] = "marked", LoadCommitted(w)
    PROVE  LET v == job[w].version
               r == job[w].run
           IN  /\ v \in Versions /\ source_files[v] = "ready"
               /\ source_files' = [source_files EXCEPT ![v] = "loaded"]
               /\ raw_rows' = [raw_rows EXCEPT ![v] =
                                 {[row |-> n, run |-> r] : n \in 1..RowCount[v]}]
               /\ r \in DOMAIN pipeline_runs /\ pipeline_runs[r].source = v
               /\ pipeline_runs[r].status = "running"
               /\ Len(pipeline_runs') = Len(pipeline_runs)
               /\ DOMAIN pipeline_runs' = DOMAIN pipeline_runs
               /\ \A i \in DOMAIN pipeline_runs \ {r} : pipeline_runs'[i] = pipeline_runs[i]
               /\ pipeline_runs'[r].source = v
               /\ pipeline_runs'[r].status = "succeeded"
               /\ pipeline_runs'[r].rows_loaded = RowCount[v]
<1> DEFINE v == job[w].version
           r == job[w].run
<1>1. /\ v \in Versions /\ source_files[v] = "ready" /\ job[w].rowsRead = RowCount[v]
      /\ job[w].staged = 1..RowCount[v]
  BY MarkedSourceReady DEF IInv, KeysAreExclusive
<1>2. raw_rows[v] = {} /\ raw_rows \in [Versions -> SUBSET RawRow]
  BY <1>1 DEF IInv, LoadIsAtomic, TypeOK
<1>3. /\ r \in DOMAIN pipeline_runs /\ pipeline_runs[r].source = v
      /\ pipeline_runs[r].status = "running"
  BY DEF IInv, RunsAreHeld, Attempting, Loading
<1>4. pipeline_runs \in Seq(PipelineRun) /\ pipeline_runs[r] \in PipelineRun
  BY <1>3 DEF IInv, TypeOK
<1>5. pipeline_runs' = [pipeline_runs EXCEPT ![r] =
        [pipeline_runs[r] EXCEPT !.status = "succeeded", !.rows_loaded = job[w].rowsRead]]
  BY DEF LoadCommitted
<1>6. source_files' = [source_files EXCEPT ![v] = "loaded"]
  BY DEF LoadCommitted
<1>7. raw_rows' = [raw_rows EXCEPT ![v] = {[row |-> n, run |-> r] : n \in 1..RowCount[v]}]
  BY <1>1, <1>2 DEF LoadCommitted
<1>8. /\ Len(pipeline_runs') = Len(pipeline_runs)
      /\ DOMAIN pipeline_runs' = DOMAIN pipeline_runs
      /\ \A i \in DOMAIN pipeline_runs \ {r} : pipeline_runs'[i] = pipeline_runs[i]
  BY <1>3, <1>4, <1>5
<1>9. /\ pipeline_runs'[r].source = v
      /\ pipeline_runs'[r].status = "succeeded"
      /\ pipeline_runs'[r].rows_loaded = RowCount[v]
  BY <1>1, <1>3, <1>4, <1>5 DEF PipelineRun
<1> QED
  BY <1>1, <1>3, <1>6, <1>7, <1>8, <1>9

\* A commit makes all of a load visible and no other step makes a part of it so.
LEMMA StepLoads ==
    ASSUME IInv, [Next]_vars
    PROVE  LoadIsAtomic'
<1>1. CASE UNCHANGED vars
  BY <1>1 DEF vars, IInv, LoadIsAtomic, SucceededRuns
<1> SUFFICES ASSUME NEW w \in Workers, Step(w) PROVE LoadIsAtomic'
  BY <1>1 DEF Next
<1> SUFFICES ASSUME NEW u \in Versions
             PROVE  IF source_files'[u] = "loaded"
                    THEN \E r \in SucceededRuns(u)' :
                            /\ SucceededRuns(u)' = {r}
                            /\ raw_rows'[u] = {[row |-> n, run |-> r] : n \in 1..RowCount[u]}
                            /\ pipeline_runs'[r].rows_loaded = RowCount[u]
                    ELSE SucceededRuns(u)' = {} /\ raw_rows'[u] = {}
  BY DEF LoadIsAtomic
<1>2. IF source_files[u] = "loaded"
      THEN \E r \in SucceededRuns(u) :
              /\ SucceededRuns(u) = {r}
              /\ raw_rows[u] = {[row |-> n, run |-> r] : n \in 1..RowCount[u]}
              /\ pipeline_runs[r].rows_loaded = RowCount[u]
      ELSE SucceededRuns(u) = {} /\ raw_rows[u] = {}
  BY DEF IInv, LoadIsAtomic
<1>3. CASE ~(phase[w] = "marked" /\ LoadCommitted(w))
  <2>1. /\ raw_rows'[u] = raw_rows[u] /\ SucceededRuns(u)' = SucceededRuns(u)
        /\ (source_files'[u] = "loaded") <=> (source_files[u] = "loaded")
    BY <1>3, OnlyLoadsLoad
  <2>2. \A r \in SucceededRuns(u) : pipeline_runs'[r] = pipeline_runs[r]
    BY <1>3, OnlyLoadsLoad DEF SucceededRuns
  <2> QED
    BY <1>2, <2>1, <2>2
<1>4. CASE phase[w] = "marked" /\ LoadCommitted(w)
  <2>1. CASE u # job[w].version
    <3>1. SucceededRuns(u)' = SucceededRuns(u)
      BY <1>4, <2>1, LoadStep DEF SucceededRuns
    <3>2. \A r \in SucceededRuns(u) : pipeline_runs'[r] = pipeline_runs[r]
      BY <1>4, <2>1, LoadStep DEF SucceededRuns
    <3>3. source_files'[u] = source_files[u] /\ raw_rows'[u] = raw_rows[u]
      BY <1>4, <2>1, LoadStep DEF IInv, TypeOK
    <3> QED
      BY <1>2, <3>1, <3>2, <3>3
  <2>2. CASE u = job[w].version
    <3>1. SucceededRuns(u) = {}
      BY <1>2, <1>4, <2>2, LoadStep
    <3>2. SucceededRuns(u)' = {job[w].run}
      BY <1>4, <2>2, <3>1, LoadStep DEF SucceededRuns
    <3>3. /\ source_files'[u] = "loaded"
          /\ raw_rows'[u] = {[row |-> n, run |-> job[w].run] : n \in 1..RowCount[u]}
          /\ pipeline_runs'[job[w].run].rows_loaded = RowCount[u]
      BY <1>4, <2>2, LoadStep DEF IInv, TypeOK
    <3> QED
      BY <3>2, <3>3
  <2> QED
    BY <2>1, <2>2
<1> QED
  BY <1>3, <1>4

\* No step contradicts what an earlier attempt recorded about its source.
LEMMA StepAttempts ==
    ASSUME IInv, [Next]_vars
    PROVE  AttemptsAgreeWithSource'
<1>1. CASE UNCHANGED vars
  BY <1>1 DEF vars, IInv, AttemptsAgreeWithSource
<1> SUFFICES ASSUME NEW w \in Workers, Step(w) PROVE AttemptsAgreeWithSource'
  BY <1>1 DEF Next
<1> DEFINE Agree(i) ==
        LET status == source_files[pipeline_runs[i].source] IN
        IF pipeline_runs[i].status = "skipped"
        THEN \/ pipeline_runs[i].reason = "already_loaded" /\ status = "loaded"
             \/ /\ pipeline_runs[i].reason = "source_revision_detected"
                /\ status = "revision_detected"
        ELSE status \in {"ready", "loaded"}
<1>2. pipeline_runs \in Seq(PipelineRun)
  BY DEF IInv, TypeOK
<1>3. ASSUME NEW i \in DOMAIN pipeline_runs PROVE Agree(i)'
  <2>1. Agree(i) /\ pipeline_runs[i].source \in Versions
    <3>1. pipeline_runs[i] \in PipelineRun
      BY <1>2
    <3>2. Agree(i)
      BY DEF IInv, AttemptsAgreeWithSource
    <3> QED
      BY <3>1, <3>2 DEF PipelineRun
  <2>2. CASE pipeline_runs'[i] = pipeline_runs[i]
    BY <2>1, <2>2, StatusStep
  <2>3. CASE pipeline_runs[i].status = "running" /\ pipeline_runs'[i].status = "failed"
    BY <2>1, <2>3, RunStep, StatusStep
  <2>4. CASE phase[w] = "marked" /\ LoadCommitted(w) /\ job[w].run = i
    BY <2>4, LoadStep DEF IInv, TypeOK
  <2> QED
    BY <2>2, <2>3, <2>4, RunStep
<1>4. ASSUME NEW i \in DOMAIN pipeline_runs' \ DOMAIN pipeline_runs PROVE Agree(i)'
  <2>1. /\ i = Len(pipeline_runs) + 1 /\ UNCHANGED source_files
        /\ CreateSkippedRun(w) \/ StartRun(w)
    BY RunStep
  <2>2. CASE CreateSkippedRun(w)
    <3>1. job[w].seen \in {"loaded", "revision_detected"} /\ source_files[job[w].version] = job[w].seen
      BY <2>2 DEF CreateSkippedRun, IInv, CallsAreConsistent
    <3>2. pipeline_runs'[i] = [source |-> job[w].version, status |-> "skipped",
                               reason |-> SkipReasonFor(job[w].seen), rows_loaded |-> 0]
      BY <1>2, <2>1, <2>2 DEF CreateSkippedRun
    <3> QED
      BY <2>1, <3>1, <3>2 DEF SkipReasonFor
  <2>3. CASE StartRun(w)
    <3>1. source_files[job[w].version] \in {"ready", "loaded"}
      BY <2>3 DEF StartRun, IInv, CallsAreConsistent
    <3>2. pipeline_runs'[i] = [source |-> job[w].version, status |-> "running",
                               reason |-> "none", rows_loaded |-> 0]
      BY <1>2, <2>1, <2>3 DEF StartRun
    <3> QED
      BY <2>1, <3>1, <3>2
  <2> QED
    BY <2>1, <2>2, <2>3
<1> QED
  BY <1>3, <1>4 DEF AttemptsAgreeWithSource

\* The commit that blocks a version leaves a loadable sibling, by induction over
\* the registrations already committed.
LEMMA StepLoadable ==
    ASSUME IInv, [Next]_vars
    PROVE  SomeVersionLoadable'
<1>1. CASE UNCHANGED vars
  BY <1>1 DEF vars, IInv, SomeVersionLoadable
<1> DEFINE LoadableIn(v) ==
        \E u \in Versions :
            PartitionOf[u] = PartitionOf[v] /\ source_files'[u] \in {"ready", "loaded"}
<1>2. ASSUME NEW v \in Versions, source_files[v] # "absent" PROVE LoadableIn(v)
  <2>1. PICK u \in Versions : PartitionOf[u] = PartitionOf[v] /\ source_files[u] \in {"ready", "loaded"}
    BY <1>2 DEF IInv, SomeVersionLoadable
  <2>2. source_files'[u] \in {"ready", "loaded"}
    BY <2>1, StatusStep
  <2> QED
    BY <2>1, <2>2
<1>3. ASSUME NEW w \in Workers, CommitRegistration(w) PROVE LoadableIn(job[w].version)
  <2>1. /\ job[w].version \in Versions /\ source_files \in [Versions -> SourceStatus \cup {"absent"}]
        /\ phase[w] = "registering" /\ job[w].seen \in {"ready", "revision_detected"}
        /\ source_files' = [source_files EXCEPT ![job[w].version] = job[w].seen]
    BY <1>3 DEF CommitRegistration, IInv, CallsAreConsistent, TypeOK
  <2>2. CASE job[w].seen = "ready"
    BY <2>1, <2>2
  <2>3. CASE job[w].seen = "revision_detected"
    <3>1. PICK u \in Versions :
            PartitionOf[u] = PartitionOf[job[w].version] /\ source_files[u] # "absent"
      BY <2>1, <2>3 DEF IInv, RegistrationsAreExclusive, PartitionExists
    <3>2. LoadableIn(u)
      BY <1>2, <3>1
    <3> QED
      BY <3>1, <3>2
  <2> QED
    BY <2>1, <2>2, <2>3
<1> SUFFICES ASSUME NEW w \in Workers, Step(w),
                    NEW v \in Versions, source_files'[v] # "absent"
             PROVE  LoadableIn(v)
  BY <1>1 DEF Next, SomeVersionLoadable
<1>4. CASE CommitRegistration(w)
  <2>1. source_files[v] # "absent" \/ v = job[w].version
    BY <1>4 DEF CommitRegistration, IInv, TypeOK
  <2> QED
    BY <1>2, <1>3, <1>4, <2>1
<1>5. CASE ~CommitRegistration(w)
  <2>1. CASE phase[w] = "marked" /\ LoadCommitted(w)
    BY <1>2, <2>1, LoadStep DEF IInv, TypeOK
  <2>2. CASE UNCHANGED source_files
    BY <1>2, <2>2
  <2> QED
    BY <1>5, <2>1, <2>2 DEF Step, Proceed, db, BeginIngest, FindExactVersion, CheckPartition,
       InsertSource, CreateSkippedRun, ReadReadySource, StartRun, OpenFile, CopyBatch,
       UniqueViolation, MarkRunSucceeded, CommitLoad, CommitInDoubt, LoadFails, MarkRunFailed, Abandon
<1> QED
  BY <1>4, <1>5

-----------------------------------------------------------------------------
(* The theorems.                                                            *)

\* The inductive invariant holds at the start, every step keeps it, so it holds
\* always: the basis of every result below.
THEOREM InductiveInvariant == Spec => []IInv
<1>1. Init => IInv
  <2> SUFFICES ASSUME Init PROVE IInv
    OBVIOUS
  <2> USE DEF Init, NoJob
  <2>1. TypeOK
    BY BoundsAssumption DEF TypeOK, Phases, Job, SourceStatus
  <2>2. CallsAreConsistent /\ RegistrationsAreExclusive /\ RunsAreHeld
    <3>1. \A w \in Workers : phase[w] = "idle"
      OBVIOUS
    <3> QED
      BY <3>1 DEF CallsAreConsistent, RegistrationsAreExclusive, RunsAreHeld, Attempting, Loading
  <2>3. KeysAreExclusive
    <3>1. \A w \in Workers : phase[w] = "idle" /\ job[w].rowsRead = 0 /\ job[w].staged = {}
      OBVIOUS
    <3>2. 1..0 = {}
      OBVIOUS
    <3> QED
      BY <3>1, <3>2 DEF KeysAreExclusive
  <2>4. LoadIsAtomic /\ AttemptsAgreeWithSource /\ SomeVersionLoadable
    BY DEF LoadIsAtomic, SucceededRuns, AttemptsAgreeWithSource, SomeVersionLoadable
  <2> QED
    BY <2>1, <2>2, <2>3, <2>4 DEF IInv
<1>2. IInv /\ [Next]_vars => IInv'
  BY StepType, StepCalls, StepRegistrations, StepRuns, StepKeys, StepLoads, StepAttempts,
     StepLoadable DEF IInv
<1> QED
  BY <1>1, <1>2, PTL DEF Spec

\* Every variable keeps its type.
THEOREM TypeCorrect == Spec => []TypeOK
<1>1. IInv => TypeOK
  BY DEF IInv
<1> QED
  BY <1>1, InductiveInvariant, PTL

\* However many processes, calls and faults: rows, source status and run
\* outcome become visible together, once, and complete (service.py:84-103).
THEOREM LoadsAreAtomic == Spec => []LoadIsAtomic
<1>1. IInv => LoadIsAtomic
  BY DEF IInv
<1> QED
  BY <1>1, InductiveInvariant, PTL

\* A recorded attempt never disagrees with its source (runs.py:86-94).
THEOREM AttemptsAgree == Spec => []AttemptsAgreeWithSource
<1>1. IInv => AttemptsAgreeWithSource
  BY DEF IInv
<1> QED
  BY <1>1, InductiveInvariant, PTL

\* Racing registrations never block every version of a partition
\* (source_registry.py:28-33).
THEOREM PartitionsStayLoadable == Spec => []SomeVersionLoadable
<1>1. IInv => SomeVersionLoadable
  BY DEF IInv
<1> QED
  BY <1>1, InductiveInvariant, PTL

\* Terminal runs, loaded and blocked sources and loaded rows never change
\* (runs.py:118-122, source_registry.py:86-91).
THEOREM HistoryNeverChanges == Spec => HistoryIsFinal
<1> DEFINE Final ==
        /\ \A i \in DOMAIN pipeline_runs :
             /\ i \in DOMAIN pipeline_runs'
             /\ pipeline_runs'[i].source = pipeline_runs[i].source
             /\ pipeline_runs[i].status # "running" => pipeline_runs'[i] = pipeline_runs[i]
        /\ \A v \in Versions :
             source_files[v] \in {"loaded", "revision_detected"} =>
                 source_files'[v] = source_files[v] /\ raw_rows'[v] = raw_rows[v]
<1>1. IInv /\ [Next]_vars => [Final]_vars
  <2> SUFFICES ASSUME IInv, NEW w \in Workers, Step(w) PROVE Final
    BY DEF Next
  <2>1. ASSUME NEW i \in DOMAIN pipeline_runs
        PROVE  /\ i \in DOMAIN pipeline_runs'
               /\ pipeline_runs'[i].source = pipeline_runs[i].source
               /\ pipeline_runs[i].status # "running" => pipeline_runs'[i] = pipeline_runs[i]
    BY RunStep
  <2>2. ASSUME NEW v \in Versions, source_files[v] \in {"loaded", "revision_detected"}
        PROVE  source_files'[v] = source_files[v] /\ raw_rows'[v] = raw_rows[v]
    <3>1. source_files'[v] = source_files[v]
      BY <2>2, StatusStep DEF Next
    <3>2. raw_rows'[v] = raw_rows[v]
      <4>1. CASE phase[w] = "marked" /\ LoadCommitted(w)
        BY <2>2, <4>1, LoadStep DEF IInv, TypeOK
      <4>2. CASE ~(phase[w] = "marked" /\ LoadCommitted(w))
        BY <4>2, OnlyLoadsLoad
      <4> QED
        BY <4>1, <4>2
    <3> QED
      BY <3>1, <3>2
  <2> QED
    BY <2>1, <2>2
<1> QED
  BY <1>1, InductiveInvariant, PTL DEF Spec, HistoryIsFinal

\* To a reader of the committed tables, every step of ingestion is a step of the
\* ledger or no step: a load is one atomic, complete and final event.
THEOREM LedgerRefinement == Spec => ImplementsSourceLedger
<1>1. Init => Ledger!Init
  BY DEF Init, Ledger!Init
<1>2. IInv /\ [Next]_vars => [Ledger!Next]_(Ledger!ledger)
  <2>1. CASE UNCHANGED vars
    BY <2>1 DEF vars, Ledger!ledger
  <2> SUFFICES ASSUME IInv, NEW w \in Workers, Step(w) PROVE [Ledger!Next]_(Ledger!ledger)
    BY <2>1 DEF Next
  <2>2. CASE phase[w] = "marked" /\ LoadCommitted(w)
    <3>1. job[w].version \in Versions
      BY <2>2, LoadStep
    <3>2. job[w].run \in 1..Len(pipeline_runs)
      <4>1. job[w].run \in DOMAIN pipeline_runs
        BY <2>2, LoadStep
      <4> QED
        BY <4>1 DEF IInv, TypeOK
    <3>3. Ledger!Load(job[w].version, job[w].run)
      BY <2>2, LoadStep DEF Ledger!Load
    <3> QED
      BY <3>1, <3>2, <3>3 DEF Ledger!Next
  <2>3. CASE CommitRegistration(w)
    <3>1. /\ job[w].version \in Versions /\ source_files[job[w].version] = "absent"
          /\ job[w].seen \in {"ready", "revision_detected"}
          /\ job[w].seen = "revision_detected" => PartitionExists(job[w].version)
      BY <2>3 DEF CommitRegistration, IInv, CallsAreConsistent, RegistrationsAreExclusive
    <3>2. Ledger!Register(job[w].version)
      BY <2>3, <3>1 DEF CommitRegistration, PartitionExists, Ledger!Register
    <3> QED
      BY <3>1, <3>2 DEF Ledger!Next
  <2>4. CASE CreateSkippedRun(w) \/ StartRun(w)
    <3>1. pipeline_runs \in Seq(PipelineRun)
      BY DEF IInv, TypeOK
    <3>2. Len(pipeline_runs') = Len(pipeline_runs) + 1
      <4>1. PICK run : pipeline_runs' = Append(pipeline_runs, run)
        BY <2>4, SkipsAreRecorded DEF StartRun
      <4>. QED  BY <3>1, <4>1
    <3>3. Ledger!Attempt
      BY <2>4, <3>2 DEF CreateSkippedRun, StartRun, Ledger!Attempt
    <3> QED
      BY <3>3 DEF Ledger!Next
  <2>5. CASE MarkRunFailed(w)
    <3>1. pipeline_runs \in Seq(PipelineRun)
      BY DEF IInv, TypeOK
    <3>2. Len(pipeline_runs') = Len(pipeline_runs)
      BY <2>5, <3>1 DEF MarkRunFailed
    <3> QED
      BY <2>5, <3>2 DEF MarkRunFailed, Ledger!ledger
  <2>6. CASE UNCHANGED db
    BY <2>6 DEF db, Ledger!ledger
  <2> QED
    BY <2>2, <2>3, <2>4, <2>5, <2>6 DEF Step, Proceed, BeginIngest, FindExactVersion,
       CheckPartition, InsertSource, ReadReadySource, OpenFile, CopyBatch, UniqueViolation,
       MarkRunSucceeded, CommitLoad, CommitInDoubt, LoadFails, Abandon
<1> QED
  BY <1>1, <1>2, InductiveInvariant, PTL DEF Spec, ImplementsSourceLedger, Ledger!Spec

-----------------------------------------------------------------------------
(* Runs left running.                                                       *)

\* A process that is not attempting a load holds no run.
IdleHoldsNoRun == \A w \in Workers : ~Attempting(w) => job[w].run = 0

\* A call that ends or that has not started a run holds none.
LEMMA StepIdle ==
    ASSUME IInv, IdleHoldsNoRun, [Next]_vars
    PROVE  IdleHoldsNoRun'
<1>1. phase \in [Workers -> Phases] /\ job \in [Workers -> Job]
  BY DEF IInv, TypeOK
<1>2. CASE UNCHANGED vars
  BY <1>2 DEF vars, IdleHoldsNoRun, Attempting, Loading
<1> SUFFICES ASSUME NEW w \in Workers, Step(w) PROVE IdleHoldsNoRun'
  BY <1>2 DEF Next
<1> USE DEF IdleHoldsNoRun, Attempting, Loading, Goto
<1>3. ASSUME NEW o \in Workers, o # w, ~Attempting(o)' PROVE job'[o].run = 0
  BY <1>3, OthersUnchanged DEF IInv
<1>4. CASE Return(w)
  BY <1>1, <1>3, <1>4 DEF Return, NoJob
<1>5. CASE RollBack(w)
  BY <1>1, <1>3, <1>5 DEF RollBack
<1>6. ASSUME ~Attempting(w), NEW status, Registered(w, status) PROVE job'[w].run = 0
  BY <1>1, <1>6 DEF Registered, Job
<1>7. CASE \E v \in Versions : BeginIngest(w, v)
  BY <1>1, <1>3, <1>7 DEF BeginIngest, NoJob
<1>8. CASE FindExactVersion(w) \/ InsertSource(w) \/ CommitRegistration(w)
  BY <1>3, <1>6, <1>8 DEF FindExactVersion, InsertSource, CommitRegistration
<1>9. CASE CheckPartition(w)
  <2>1. PICK status : job' = [job EXCEPT ![w] = [job[w] EXCEPT !.seen = status]]
    BY <1>9 DEF CheckPartition
  <2> QED
    BY <1>1, <1>3, <1>9, <2>1 DEF CheckPartition, Job
<1>10. CASE ReadReadySource(w)
  BY <1>1, <1>3, <1>4, <1>10 DEF ReadReadySource
<1>11. CASE StartRun(w) \/ OpenFile(w) \/ CopyBatch(w)
  BY <1>1, <1>3, <1>11 DEF StartRun, OpenFile, CopyBatch
<1>12. CASE MarkRunSucceeded(w)
  BY <1>1, <1>3, <1>5, <1>12 DEF MarkRunSucceeded
<1>13. CASE UniqueViolation(w) \/ CommitInDoubt(w) \/ LoadFails(w)
  BY <1>5, <1>13 DEF UniqueViolation, CommitInDoubt, LoadFails
<1>14. CASE CreateSkippedRun(w) \/ CommitLoad(w) \/ MarkRunFailed(w) \/ Abandon(w)
  BY <1>4, <1>14 DEF CreateSkippedRun, CommitLoad, MarkRunFailed, Abandon
<1> QED
  BY <1>7, <1>8, <1>9, <1>10, <1>11, <1>12, <1>13, <1>14 DEF Step, Proceed

\* A step orphans no run, unless its process is lost to a fault: then at most
\* the run that process holds.
LEMMA OrphanStep ==
    ASSUME IInv, IdleHoldsNoRun, NEW w \in Workers, Step(w)
    PROVE  \/ OrphanedRuns' \subseteq OrphanedRuns
           \/ Fault /\ OrphanedRuns' \subseteq OrphanedRuns \cup {job[w].run}
<1>1. /\ phase \in [Workers -> Phases] /\ job \in [Workers -> Job]
      /\ pipeline_runs \in Seq(PipelineRun)
  BY DEF IInv, TypeOK
<1>2. ASSUME NEW o \in Workers, o # w PROVE job'[o] = job[o]
  BY <1>2, OthersUnchanged DEF IInv
<1>3. ASSUME NEW i \in OrphanedRuns', i \in DOMAIN pipeline_runs, i \notin OrphanedRuns
      PROVE  /\ i = job[w].run /\ i # job'[w].run
             /\ pipeline_runs[i].status = "running" /\ pipeline_runs'[i].status = "running"
  <2>1. pipeline_runs[i].status = "running" /\ pipeline_runs'[i].status = "running"
    BY <1>3, RunStep, LoadStep DEF OrphanedRuns
  <2>2. PICK o \in Workers : job[o].run = i
    BY <1>3, <2>1 DEF OrphanedRuns
  <2>3. job'[o].run # i /\ job'[w].run # i
    BY <1>3 DEF OrphanedRuns
  <2> QED
    BY <1>2, <2>1, <2>2, <2>3
<1>4. ASSUME NEW i \in OrphanedRuns', i \notin DOMAIN pipeline_runs PROVE FALSE
  <2>1. i = Len(pipeline_runs) + 1 /\ (CreateSkippedRun(w) \/ StartRun(w))
    BY <1>4, RunStep DEF OrphanedRuns
  <2>2. CASE CreateSkippedRun(w)
    BY <1>1, <1>4, <2>1, <2>2 DEF CreateSkippedRun, OrphanedRuns
  <2>3. CASE StartRun(w)
    BY <1>1, <1>4, <2>1, <2>3 DEF StartRun, OrphanedRuns, Job
  <2> QED
    BY <2>1, <2>2, <2>3
<1>5. CASE Fault
  BY <1>3, <1>4, <1>5 DEF OrphanedRuns
<1>6. ASSUME NEW i \in DOMAIN pipeline_runs, i = job[w].run, i # job'[w].run,
             pipeline_runs[i].status = "running", pipeline_runs'[i].status = "running"
      PROVE  Fault
  <2>1. Attempting(w)
    <3>1. i # 0
      BY <1>1
    <3> QED
      BY <1>6, <3>1 DEF IdleHoldsNoRun
  <2>2. CASE Attempting(w)'
    BY <1>6, <2>1, <2>2, AttemptStep DEF StartRun, Attempting, Loading
  <2>3. CASE ~Attempting(w)'
    <3>1. ~(phase[w] = "marked" /\ LoadCommitted(w))
      BY <1>6, LoadStep
    <3>2. ~MarkRunFailed(w)
      <4> SUFFICES ASSUME MarkRunFailed(w) PROVE FALSE
        OBVIOUS
      <4>1. pipeline_runs' = [pipeline_runs EXCEPT ![i] = [pipeline_runs[i] EXCEPT !.status = "failed"]]
        BY <1>6 DEF MarkRunFailed
      <4>2. pipeline_runs[i] \in PipelineRun
        BY <1>1, <1>6
      <4> QED
        BY <1>1, <1>6, <4>1, <4>2 DEF PipelineRun
    <3>3. phase'[w] \notin {"opening", "copying", "marked", "failing"}
      BY <2>3 DEF Attempting, Loading
    <3>4. ~RollBack(w)
      BY <1>1, <3>3 DEF RollBack, Goto
    <3> QED
      BY <1>1, <2>1, <3>1, <3>2, <3>3, <3>4 DEF Step, Proceed, Attempting, Loading, BeginIngest,
         FindExactVersion, CheckPartition, InsertSource, CommitRegistration, CreateSkippedRun,
         ReadReadySource, StartRun, OpenFile, CopyBatch, UniqueViolation, MarkRunSucceeded,
         CommitLoad, CommitInDoubt, LoadFails, Abandon, Goto
  <2> QED
    BY <2>2, <2>3
<1> QED
  BY <1>3, <1>4, <1>5, <1>6 DEF OrphanedRuns

\* A run nobody will finish costs a fault, however the calls interleave
\* (service.py:104-108).
THEOREM OrphansCostFaults == Spec => []OrphansAreFaults
<1> DEFINE Inv == IdleHoldsNoRun /\ IsFiniteSet(OrphanedRuns) /\ OrphansAreFaults
<1>1. Init => Inv
  <2> SUFFICES ASSUME Init PROVE Inv
    OBVIOUS
  <2>1. OrphanedRuns = {}
    BY DEF Init, OrphanedRuns
  <2>2. IdleHoldsNoRun
    BY DEF Init, NoJob, IdleHoldsNoRun
  <2> QED
    BY <2>1, <2>2, FS_EmptySet DEF Init, OrphansAreFaults
<1>2. IInv /\ Inv /\ [Next]_vars => Inv'
  <2> SUFFICES ASSUME IInv, Inv, [Next]_vars PROVE Inv'
    OBVIOUS
  <2>1. IdleHoldsNoRun'
    BY StepIdle
  <2>2. CASE UNCHANGED vars
    BY <2>1, <2>2 DEF vars, OrphanedRuns, OrphansAreFaults
  <2>3. ASSUME NEW w \in Workers, Step(w) PROVE Inv'
    <3>1. faults \in Nat /\ faults' \in Nat /\ faults <= faults'
      <4>1. faults \in Nat
        BY BoundsAssumption DEF IInv, TypeOK
      <4> QED
        BY <2>3, <4>1 DEF Step, Proceed, Fault, BeginIngest, FindExactVersion, CheckPartition,
           InsertSource, CommitRegistration, CreateSkippedRun, ReadReadySource, StartRun,
           OpenFile, CopyBatch, UniqueViolation, MarkRunSucceeded, CommitLoad, CommitInDoubt,
           LoadFails, MarkRunFailed, Abandon
    <3>2. CASE OrphanedRuns' \subseteq OrphanedRuns
      <4>1. /\ IsFiniteSet(OrphanedRuns')
            /\ Cardinality(OrphanedRuns') \in Nat /\ Cardinality(OrphanedRuns) \in Nat
            /\ Cardinality(OrphanedRuns') <= Cardinality(OrphanedRuns)
        BY <3>2, FS_Subset, FS_CardinalityType
      <4> QED
        BY <2>1, <3>1, <4>1 DEF OrphansAreFaults
    <3>3. CASE Fault /\ OrphanedRuns' \subseteq OrphanedRuns \cup {job[w].run}
      <4> DEFINE more == OrphanedRuns \cup {job[w].run}
      <4>1. /\ IsFiniteSet(more)
            /\ Cardinality(OrphanedRuns) \in Nat /\ Cardinality(more) \in Nat
            /\ Cardinality(more) <= Cardinality(OrphanedRuns) + 1
        <5>1. IsFiniteSet(OrphanedRuns) /\ Cardinality(OrphanedRuns) \in Nat
          BY FS_CardinalityType
        <5>2. IsFiniteSet(more) /\ Cardinality(more) =
                IF job[w].run \in OrphanedRuns THEN Cardinality(OrphanedRuns)
                                               ELSE Cardinality(OrphanedRuns) + 1
          BY <5>1, FS_AddElement
        <5> QED
          BY <5>1, <5>2
      <4>2. /\ IsFiniteSet(OrphanedRuns') /\ Cardinality(OrphanedRuns') \in Nat
            /\ Cardinality(OrphanedRuns') <= Cardinality(more)
        BY <3>3, <4>1, FS_Subset, FS_CardinalityType
      <4>3. faults' = faults + 1
        BY <3>3 DEF Fault
      <4> HIDE DEF more
      <4> QED
        BY <2>1, <3>1, <4>1, <4>2, <4>3 DEF OrphansAreFaults
    <3> QED
      BY <2>3, <3>2, <3>3, OrphanStep
  <2> QED
    BY <2>2, <2>3 DEF Next
<1>3. Inv => OrphansAreFaults
  OBVIOUS
<1> QED
  BY <1>1, <1>2, <1>3, InductiveInvariant, PTL DEF Spec

-----------------------------------------------------------------------------
(* Registrations one at a time.                                             *)

\* A version about to become ready is the first of its partition.
FirstIsAlone ==
    \A w \in Workers :
        Deciding(w) /\ job[w].seen = "ready" => ~PartitionExists(job[w].version)

\* A committed status changes when a registration or a load commits.
LEMMA StatusActions ==
    ASSUME NEW w \in Workers, Step(w)
    PROVE  \/ UNCHANGED source_files
           \/ CommitRegistration(w)
           \/ CommitLoad(w) \/ CommitInDoubt(w)
BY DEF Step, Proceed, db, BeginIngest, FindExactVersion, CheckPartition, InsertSource,
   CreateSkippedRun, ReadReadySource, StartRun, OpenFile, CopyBatch, UniqueViolation,
   MarkRunSucceeded, LoadFails, MarkRunFailed, Abandon

\* A load makes a ready version loaded: the versions that may be loaded, and
\* those that are registered, stay the same.
LEMMA LoadsRegisterNothing ==
    ASSUME IInv, NEW w \in Workers, CommitLoad(w) \/ CommitInDoubt(w), NEW v \in Versions
    PROVE  /\ source_files'[v] \in {"ready", "loaded"} <=> source_files[v] \in {"ready", "loaded"}
           /\ source_files'[v] = "absent" <=> source_files[v] = "absent"
<1>1. source_files \in [Versions -> SourceStatus \cup {"absent"}]
  BY DEF IInv, TypeOK
<1>2. phase[w] = "marked" /\ LoadCommitted(w)
  BY DEF CommitLoad, CommitInDoubt
<1>3. source_files' = [source_files EXCEPT ![job[w].version] = "loaded"]
      /\ source_files[job[w].version] = "ready"
  BY <1>2, MarkedSourceReady DEF LoadCommitted
<1>. QED  BY <1>1, <1>3

\* After its check or its insert a process decides by what is committed now.
LEMMA DecidingStep ==
    ASSUME IInv, NEW w \in Workers, Step(w), Deciding(w)', job'[w].seen = "ready",
           Deciding(w) /\ job[w].seen = "ready" => ~PartitionExists(job[w].version)
    PROVE  ~PartitionExists(job'[w].version) /\ UNCHANGED source_files
<1>1. /\ phase \in [Workers -> Phases] /\ job \in [Workers -> Job]
  BY DEF IInv, TypeOK
<1>2. phase'[w] \in {"insert", "registering"}
  BY DEF Deciding
<1>3. ~Return(w) /\ ~RollBack(w) /\ \A status : ~Registered(w, status)
  BY <1>1, <1>2 DEF Return, RollBack, Registered, DecisionPhase, Goto
<1>4. CheckPartition(w) \/ InsertSource(w)
  BY <1>1, <1>2, <1>3 DEF Step, Proceed, BeginIngest, FindExactVersion, CommitRegistration,
     CreateSkippedRun, ReadReadySource, StartRun, OpenFile, CopyBatch, UniqueViolation,
     MarkRunSucceeded, CommitLoad, CommitInDoubt, LoadFails, MarkRunFailed, Abandon, Goto
<1>5. CASE CheckPartition(w)
  <2>1. /\ job'[w].seen = (IF PartitionExists(job[w].version) THEN "revision_detected" ELSE "ready")
        /\ job'[w].version = job[w].version
    BY <1>1, <1>5 DEF CheckPartition, Job
  <2>. QED  BY <1>5, <2>1 DEF CheckPartition, db
<1>6. CASE InsertSource(w)
  <2>1. phase[w] = "insert" /\ UNCHANGED <<job, source_files>>
    BY <1>3, <1>6 DEF InsertSource, db
  <2>. QED  BY <2>1 DEF Deciding
<1>. QED  BY <1>4, <1>5, <1>6

LEMMA FirstStep ==
    ASSUME IInv, RegistrationsAreSerial, FirstIsAlone, [Next]_vars
    PROVE  FirstIsAlone'
<1>1. CASE UNCHANGED vars
  BY <1>1 DEF vars, FirstIsAlone, Deciding, PartitionExists
<1>2. ASSUME NEW w \in Workers, Step(w), NEW o \in Workers, Deciding(o)', job'[o].seen = "ready"
      PROVE  ~PartitionExists(job[o].version)'
  <2>1. CASE o = w
    BY <1>2, <2>1, DecidingStep DEF FirstIsAlone, PartitionExists
  <2>2. CASE o # w
    <3>1. phase'[o] = phase[o] /\ job'[o] = job[o]
      BY <1>2, <2>2, OthersUnchanged DEF IInv
    <3>2. Deciding(o) /\ ~PartitionExists(job[o].version)
      BY <1>2, <3>1 DEF Deciding, FirstIsAlone
    <3>3. CASE UNCHANGED source_files
      BY <3>1, <3>2, <3>3 DEF PartitionExists
    <3>4. CASE CommitRegistration(w)
      <4>1. Deciding(w) /\ PartitionOf[job[w].version] # PartitionOf[job[o].version]
        BY <2>2, <3>2, <3>4 DEF CommitRegistration, Deciding, RegistrationsAreSerial
      <4>2. \A u \in Versions : u # job[w].version => source_files'[u] = source_files[u]
        BY <3>4 DEF CommitRegistration, IInv, TypeOK
      <4>. QED  BY <3>1, <3>2, <4>1, <4>2 DEF PartitionExists
    <3>5. CASE CommitLoad(w) \/ CommitInDoubt(w)
      BY <3>1, <3>2, <3>5, LoadsRegisterNothing DEF PartitionExists
    <3>. QED  BY <1>2, <3>3, <3>4, <3>5, StatusActions
  <2>. QED  BY <2>1, <2>2
<1>. QED  BY <1>1, <1>2 DEF Next, FirstIsAlone

LEMMA BlockedStep ==
    ASSUME IInv, FirstIsAlone, RevisionsAreBlocked, [Next]_vars
    PROVE  RevisionsAreBlocked'
<1>1. CASE UNCHANGED source_files
  BY <1>1 DEF RevisionsAreBlocked
<1>2. ASSUME NEW w \in Workers, CommitRegistration(w) PROVE RevisionsAreBlocked'
  <2> DEFINE v == job[w].version
  <2>1. /\ source_files \in [Versions -> SourceStatus \cup {"absent"}]
        /\ source_files' = [source_files EXCEPT ![v] = job[w].seen]
        /\ job[w].seen \in {"ready", "revision_detected"} /\ source_files[v] = "absent"
        /\ v \in Versions
    BY <1>2 DEF CommitRegistration, IInv, TypeOK, CallsAreConsistent
  <2>2. CASE job[w].seen = "ready"
    <3>1. \A u \in Versions : PartitionOf[u] = PartitionOf[v] => source_files[u] = "absent"
      BY <1>2, <2>2 DEF FirstIsAlone, Deciding, CommitRegistration, PartitionExists
    <3>. QED  BY <2>1, <3>1 DEF RevisionsAreBlocked
  <2>3. CASE job[w].seen = "revision_detected"
    BY <2>1, <2>3 DEF RevisionsAreBlocked
  <2>. QED  BY <2>1, <2>2, <2>3
<1>3. ASSUME NEW w \in Workers, CommitLoad(w) \/ CommitInDoubt(w) PROVE RevisionsAreBlocked'
  BY <1>3, LoadsRegisterNothing DEF RevisionsAreBlocked
<1>4. UNCHANGED vars => UNCHANGED source_files
  BY DEF vars
<1>. QED  BY <1>1, <1>2, <1>3, <1>4, StatusActions DEF Next

\* As long as no two registrations of one partition overlap between their check
\* and their commit, a partition never has two versions that may be loaded,
\* whatever else the processes do at once (source_registry.py:28-33).
THEOREM SerialRegistrationsBlock == Spec => SerialRevisionsAreBlocked
<1>1. Init => FirstIsAlone /\ RevisionsAreBlocked
  BY DEF Init, FirstIsAlone, Deciding, RevisionsAreBlocked
<1>2. /\ IInv /\ RegistrationsAreSerial /\ FirstIsAlone /\ RevisionsAreBlocked /\ [Next]_vars
      => FirstIsAlone' /\ RevisionsAreBlocked'
  BY FirstStep, BlockedStep
<1>. QED  BY <1>1, <1>2, InductiveInvariant, PTL DEF Spec, SerialRevisionsAreBlocked

\* One process at a time blocks every revision.
THEOREM OneProcessBlocksRevisions ==
    ASSUME \A w, o \in Workers : w = o
    PROVE  Spec => []RevisionsAreBlocked
<1>1. RegistrationsAreSerial
  BY DEF RegistrationsAreSerial
<1>2. Spec => []RegistrationsAreSerial
  BY <1>1, PTL
<1>. QED  BY <1>2, SerialRegistrationsBlock, PTL DEF SerialRevisionsAreBlocked

-----------------------------------------------------------------------------
(* Waiting for uncommitted keys.                                            *)

\* The guards of Proceed: what a call needs in order to go on by itself.  An
\* INSERT and a COPY wait for keys that another transaction has in flight.
CanInsert(w) ==
    \A o \in Workers : ~(phase[o] = "registering" /\ job[o].version = job[w].version)

CanCopy(w) ==
    \/ BatchRows(job[w]) \cap VisibleRows(w) # {}
    \/ BatchRows(job[w]) \cap InFlightRows(w) = {}

CanProceed(w) ==
    \/ phase[w] \in {"find", "partition", "registering", "skip", "start", "starting",
                     "marked", "failing"}
    \/ phase[w] = "opening" /\ FileRows[job[w].version] # {}
    \/ phase[w] = "insert" /\ CanInsert(w)
    \/ phase[w] = "copying" /\ job[w].rowsRead = job[w].fileRows
    \/ phase[w] = "copying" /\ job[w].rowsRead < job[w].fileRows /\ CanCopy(w)

HasKeysInFlight(w) == phase[w] = "registering" \/ job[w].rowsRead # 0

\* A call that cannot go on waits for a call on the same version that has keys
\* in flight and can go on, so nobody waits for a process that waits.
WaitsAreShort ==
    \A w \in Workers :
        phase[w] # "idle" =>
            \/ CanProceed(w)
            \/ \E o \in Workers \ {w} :
                  job[o].version = job[w].version /\ HasKeysInFlight(o) /\ CanProceed(o)

\* A COPY never reads more rows than the file has.
ReadsStayInFile == \A w \in Workers : phase[w] = "copying" => job[w].rowsRead <= job[w].fileRows

\* Every step keeps that.
LEMMA StepReads == IInv /\ ReadsStayInFile /\ [Next]_vars => ReadsStayInFile'
<1> SUFFICES ASSUME IInv, ReadsStayInFile, [Next]_vars PROVE ReadsStayInFile'
  OBVIOUS
<1> USE DEF Goto
<1>0. /\ phase \in [Workers -> Phases] /\ job \in [Workers -> Job]
      /\ \A w \in Workers : job[w] \in Job
  BY DEF IInv, TypeOK
<1>1. CASE UNCHANGED vars
  BY <1>1 DEF vars, ReadsStayInFile
<1>2. ASSUME NEW w \in Workers, Step(w) PROVE ReadsStayInFile'
  <2>1. \A o \in Workers \ {w} : phase'[o] = phase[o] /\ job'[o] = job[o]
    BY <1>2, OthersUnchanged DEF IInv
  <2>2. CASE OpenFile(w)
    <3>1. phase[w] = "opening" /\ job'[w].rowsRead = job[w].rowsRead /\ job'[w].fileRows \in Nat
      <4>1. PICK n \in FileRows[job[w].version] : job' = [job EXCEPT ![w] = [job[w] EXCEPT !.fileRows = n]]
        BY <2>2 DEF OpenFile
      <4>2. phase[w] = "opening" /\ job[w].version \in Versions
        BY <2>2 DEF OpenFile, IInv, CallsAreConsistent
      <4>3. n \in Nat
        BY <4>2, FileRowsAssumption
      <4> QED
        BY <1>0, <4>1, <4>2, <4>3 DEF Job
    <3>2. job[w].rowsRead = 0
      BY <3>1 DEF IInv, KeysAreExclusive
    <3> QED
      BY <2>1, <3>1, <3>2 DEF ReadsStayInFile
  <2>3. CASE CopyBatch(w)
    <3>1. /\ job[w].rowsRead < job[w].fileRows
          /\ job'[w].rowsRead = job[w].rowsRead + BatchLength(job[w])
          /\ job'[w].fileRows = job[w].fileRows
      BY <1>0, <2>3 DEF CopyBatch, Job
    <3>2. job[w].rowsRead \in Nat /\ job[w].fileRows \in Nat
      BY <1>0 DEF Job
    <3>3. job[w].rowsRead + BatchLength(job[w]) <= job[w].fileRows
      BY <3>1, <3>2, BatchSizeAssumption DEF BatchLength
    <3> QED
      BY <2>1, <3>1, <3>3 DEF ReadsStayInFile
  <2>4. CASE ~OpenFile(w) /\ ~CopyBatch(w)
    <3>1. phase'[w] # "copying"
      BY <1>0, <1>2, <2>4 DEF Step, Proceed, BeginIngest, FindExactVersion, CheckPartition,
         InsertSource, CommitRegistration, CreateSkippedRun, ReadReadySource, StartRun,
         UniqueViolation, MarkRunSucceeded, CommitLoad, MarkRunFailed, CommitInDoubt,
         LoadFails, Abandon, Return, RollBack, Registered, DecisionPhase
    <3> QED
      BY <2>1, <3>1 DEF ReadsStayInFile
  <2> QED
    BY <2>2, <2>3, <2>4
<1> QED
  BY <1>1, <1>2 DEF Next

\* Calls that wait for each other's uncommitted keys never wait in a circle, for
\* any number of them: the one whose keys are in flight can go on, whatever the
\* others do.  A landing path without a file is a fault.
THEOREM IngestionNeverDeadlocks ==
    ASSUME \A v \in Versions : FileRows[v] # {} PROVE Spec => []WaitsAreShort
<1>1. Init => ReadsStayInFile
  BY DEF Init, ReadsStayInFile
<1>2. IInv /\ ReadsStayInFile => WaitsAreShort
  <2> SUFFICES ASSUME IInv, ReadsStayInFile, NEW w \in Workers, phase[w] # "idle", ~CanProceed(w)
               PROVE  \E o \in Workers \ {w} :
                         job[o].version = job[w].version /\ HasKeysInFlight(o) /\ CanProceed(o)
    BY DEF WaitsAreShort
  <2>1. \A x \in Workers : /\ phase[x] \in Phases /\ job[x] \in Job
                           /\ job[x].rowsRead \in Nat /\ job[x].fileRows \in Nat
    BY DEF IInv, TypeOK, Job
  <2>2. \/ phase[w] = "insert" /\ ~CanInsert(w)
        \/ phase[w] = "copying" /\ job[w].rowsRead < job[w].fileRows /\ ~CanCopy(w)
    BY <2>1 DEF CanProceed, Phases, IInv, CallsAreConsistent, ReadsStayInFile, Attempting, Loading
  <2>3. CASE phase[w] = "insert" /\ ~CanInsert(w)
    <3>1. PICK o \in Workers : phase[o] = "registering" /\ job[o].version = job[w].version
      BY <2>3 DEF CanInsert
    <3> QED
      BY <2>3, <3>1 DEF CanProceed, HasKeysInFlight
  <2>4. CASE phase[w] = "copying" /\ job[w].rowsRead < job[w].fileRows /\ ~CanCopy(w)
    <3>1. PICK o \in Workers \ {w} : job[o].version = job[w].version /\ job[o].staged # {}
      BY <2>4 DEF CanCopy, InFlightRows
    <3>2. /\ job[o].rowsRead # 0
          /\ phase[o] \in {"copying", "marked"}
          /\ \A x \in Workers \ {o} : job[x].version = job[o].version => job[x].rowsRead = 0
      BY <2>1, <3>1 DEF IInv, KeysAreExclusive
    <3>3. InFlightRows(o) = {}
      <4>1. ASSUME NEW x \in Workers \ {o}, job[x].version = job[o].version PROVE job[x].staged = {}
        <5>1. job[x].staged = 1..0
          BY <3>2, <4>1 DEF IInv, KeysAreExclusive
        <5> QED
          BY <5>1
      <4> QED
        BY <4>1 DEF InFlightRows
    <3>4. CanProceed(o)
      BY <2>1, <3>2, <3>3 DEF CanProceed, CanCopy, ReadsStayInFile
    <3> QED
      BY <3>1, <3>2, <3>4 DEF HasKeysInFlight
  <2> QED
    BY <2>2, <2>3, <2>4
<1> QED
  BY <1>1, <1>2, StepReads, InductiveInvariant, PTL DEF Spec
=============================================================================
