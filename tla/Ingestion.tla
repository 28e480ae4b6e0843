----------------------------- MODULE Ingestion -----------------------------
(***************************************************************************)
(* Raw ingestion (ingestion/service.py, metadata/*.py, ingestion/*.py):    *)
(* processes that call ingest_source concurrently against one PostgreSQL   *)
(* database at its default READ COMMITTED level.  A process runs up to     *)
(* four transactions: register the source version, start a run (or record  *)
(* a skipped one), COPY the rows and mark the run succeeded, or mark it    *)
(* failed.  One action is one statement group that other transactions can  *)
(* interleave with; what a statement reads is what is committed then.      *)
(*                                                                         *)
(* A version stands for one (partition_key, checksum_sha256) pair, so a    *)
(* row of ops.source_files is the function source_files at that version,   *)
(* and two uncommitted INSERTs of one version wait for each other as the   *)
(* unique constraint makes them.  The in-flight rows of an open COPY are   *)
(* job[w].staged; they block a second COPY of the same keys.               *)
(*                                                                         *)
(* A definition whose name ends in _Bug is a mistake one could make in the *)
(* code of the definition that follows it.  No behaviour of the            *)
(* specification uses it: it shows that a property can be broken.          *)
(***************************************************************************)
EXTENDS Integers, Sequences, FiniteSets

CONSTANTS
    Workers,        \* processes that call ingest_source
    Versions,       \* source versions: partition key and checksum
    NoVersion,      \* the version of a process that is in no call
    PartitionOf,    \* the partition key of a version
    RowCount,       \* row_count of a version: that of the file with its checksum
    FileRows,       \* row counts the file at the landing path may have when opened
    BatchSize,      \* batch_size of a COPY
    MaxCalls,       \* bound on the calls of ingest_source
    MaxFaults       \* bound on crashes and database errors

ASSUME NoVersionAssumption == NoVersion \notin Versions

\* inspect_source refuses a file without rows.
ASSUME RowCountAssumption == RowCount \in [Versions -> Nat \ {0}]

ASSUME FileRowsAssumption == FileRows \in [Versions -> SUBSET Nat]

\* ingest_source refuses a batch size that is not positive.
ASSUME BatchSizeAssumption == BatchSize \in Nat \ {0}

ASSUME BoundsAssumption == MaxCalls \in Nat /\ MaxFaults \in Nat

VARIABLES
    source_files,   \* committed status of every version, "absent" before it is registered
    pipeline_runs,  \* committed runs in the order of their run_id
    raw_rows,       \* committed raw rows of every version, with their lineage
    phase,          \* where each process is in ingest_source
    job,            \* the local variables of each process's call
    calls,          \* calls made so far
    faults          \* faults so far

db == <<source_files, pipeline_runs, raw_rows>>
vars == <<source_files, pipeline_runs, raw_rows, phase, job, calls, faults>>

-----------------------------------------------------------------------------
(* Vocabulary of metadata/statuses.py and the tables.                       *)

SourceStatus == {"ready", "loaded", "revision_detected"}
RunStatus == {"running", "succeeded", "failed", "skipped"}
SkipReason == {"already_loaded", "source_revision_detected"}

PipelineRun == [source : Versions, status : RunStatus,
                reason : SkipReason \cup {"none"}, rows_loaded : Nat]

RawRow == [row : Nat \ {0}, run : Nat \ {0}]

Phases == {"idle", "find", "partition", "insert", "registering", "skip",
           "start", "starting", "opening", "copying", "marked", "failing"}

\* version and run identify the call's work; seen is the status its
\* registration saw or will insert; the other fields belong to the load.
Job == [version : Versions \cup {NoVersion}, seen : SourceStatus \cup {"none"},
        run : Nat, fileRows : Nat, rowsRead : Nat, staged : SUBSET (Nat \ {0})]

NoJob == [version |-> NoVersion, seen |-> "none",
          run |-> 0, fileRows |-> 0, rowsRead |-> 0, staged |-> {}]

TypeOK ==
    /\ source_files \in [Versions -> SourceStatus \cup {"absent"}]
    /\ pipeline_runs \in Seq(PipelineRun)
    /\ raw_rows \in [Versions -> SUBSET RawRow]
    /\ phase \in [Workers -> Phases]
    /\ job \in [Workers -> Job]
    /\ calls \in 0..MaxCalls
    /\ faults \in 0..MaxFaults

Init ==
    /\ source_files = [v \in Versions |-> "absent"]
    /\ pipeline_runs = <<>>
    /\ raw_rows = [v \in Versions |-> {}]
    /\ phase = [w \in Workers |-> "idle"]
    /\ job = [w \in Workers |-> NoJob]
    /\ calls = 0
    /\ faults = 0

-----------------------------------------------------------------------------
(* Helpers.                                                                 *)

Goto(w, p) == phase' = [phase EXCEPT ![w] = p]

\* A session left open: the rows of a dead call stay in flight.
Return_Bug(w) == Goto(w, "idle") /\ UNCHANGED job

\* The call is over, by return or by exception: its locals are gone.
Return(w) == Goto(w, "idle") /\ job' = [job EXCEPT ![w] = NoJob]

Fault == faults < MaxFaults /\ faults' = faults + 1

\* decision_for_source_status and the branch ingest_source takes on it.
DecisionPhase(status) == IF status = "ready" THEN "start" ELSE "skip"

SkipReasonFor(status) ==
    IF status = "loaded" THEN "already_loaded" ELSE "source_revision_detected"

\* The source status that bears a skip reason out.
RequiredStatus(reason) == IF reason = "already_loaded" THEN "loaded" ELSE "revision_detected"

\* The transaction is committed with this status of the source as its result.
Registered(w, status) ==
    /\ Goto(w, DecisionPhase(status))
    /\ job' = [job EXCEPT ![w].seen = status]

\* Only a loaded version makes the next one a revision.
PartitionExists_LoadedBug(v) ==
    \E u \in Versions : PartitionOf[u] = PartitionOf[v] /\ source_files[u] = "loaded"

\* The new row is added to the session before the query, which flushes it:
\* the partition exists because of the version itself.
PartitionExists_FlushedBug(v) ==
    \E u \in Versions :
        PartitionOf[u] = PartitionOf[v] /\ (u = v \/ source_files[u] # "absent")

PartitionExists(v) ==
    \E u \in Versions : PartitionOf[u] = PartitionOf[v] /\ source_files[u] # "absent"

PersistedRows(v) == {r.row : r \in raw_rows[v]}

\* Keys of its source that w's transaction sees: the committed and its own.
VisibleRows(w) == PersistedRows(job[w].version) \cup job[w].staged

\* Keys other open transactions have inserted for the same source.
InFlightRows(w) ==
    UNION {job[o].staged : o \in {x \in Workers \ {w} : job[x].version = job[w].version}}

-----------------------------------------------------------------------------
(* Transaction 1: register_source_file.                                     *)

BeginIngest(w, v) ==
    /\ phase[w] = "idle"
    /\ calls < MaxCalls
    /\ calls' = calls + 1
    /\ Goto(w, "find")
    /\ job' = [job EXCEPT ![w] = [NoJob EXCEPT !.version = v]]
    /\ UNCHANGED <<db, faults>>

FindExactVersion(w) ==
    LET status == source_files[job[w].version] IN
    /\ phase[w] = "find"
    /\ \/ status # "absent" /\ Registered(w, status)
       \/ status = "absent" /\ Goto(w, "partition") /\ UNCHANGED job
    /\ UNCHANGED <<db, calls, faults>>

CheckPartition(w) ==
    /\ phase[w] = "partition"
    /\ Goto(w, "insert")
    /\ job' = [job EXCEPT ![w].seen =
                 IF PartitionExists(job[w].version) THEN "revision_detected" ELSE "ready"]
    /\ UNCHANGED <<db, calls, faults>>

\* INSERT ... ON CONFLICT DO UPDATE: who comes second overwrites the status.
InsertSource_UpsertBug(w) ==
    /\ phase[w] = "insert"
    /\ \A o \in Workers : ~(phase[o] = "registering" /\ job[o].version = job[w].version)
    /\ Goto(w, "registering")
    /\ UNCHANGED <<db, job, calls, faults>>

\* The INSERT waits while another transaction has the same version inserted and
\* uncommitted; a committed one makes it fail, and the raced version is reused.
InsertSource(w) ==
    LET v == job[w].version IN
    /\ phase[w] = "insert"
    /\ \A o \in Workers : ~(phase[o] = "registering" /\ job[o].version = v)
    /\ \/ source_files[v] = "absent" /\ Goto(w, "registering") /\ UNCHANGED job
       \/ source_files[v] # "absent" /\ Registered(w, source_files[v])
    /\ UNCHANGED <<db, calls, faults>>

CommitRegistration(w) ==
    /\ phase[w] = "registering"
    /\ source_files' = [source_files EXCEPT ![job[w].version] = job[w].seen]
    /\ Registered(w, job[w].seen)
    /\ UNCHANGED <<pipeline_runs, raw_rows, calls, faults>>

-----------------------------------------------------------------------------
(* Transaction 2: create_skipped_run, or start_run.                         *)

\* Records the status of the source in place of the reason.
CreateSkippedRun_TypeBug(w) ==
    LET v == job[w].version IN
    /\ phase[w] = "skip"
    /\ pipeline_runs' = Append(pipeline_runs,
         [source |-> v, status |-> "skipped",
          reason |-> source_files[v], rows_loaded |-> 0])
    /\ Return(w)
    /\ UNCHANGED <<source_files, raw_rows, calls, faults>>

\* create_skipped_run raises, and records nothing, on a reason it does not know
\* or one that the status of the source does not bear out.
CreateSkippedRun(w) ==
    LET v == job[w].version
        reason == SkipReasonFor(job[w].seen)
    IN
    /\ phase[w] = "skip"
    /\ pipeline_runs' =
         IF reason \in SkipReason /\ source_files[v] = RequiredStatus(reason)
         THEN Append(pipeline_runs,
                [source |-> v, status |-> "skipped", reason |-> reason, rows_loaded |-> 0])
         ELSE pipeline_runs
    /\ Return(w)
    /\ UNCHANGED <<source_files, raw_rows, calls, faults>>

\* start_run reads the source again and raises outside ingest_source's try.
ReadReadySource(w) ==
    /\ phase[w] = "start"
    /\ \/ source_files[job[w].version] = "ready" /\ Goto(w, "starting") /\ UNCHANGED job
       \/ source_files[job[w].version] # "ready" /\ Return(w)
    /\ UNCHANGED <<db, calls, faults>>

StartRun(w) ==
    /\ phase[w] = "starting"
    /\ pipeline_runs' = Append(pipeline_runs,
         [source |-> job[w].version, status |-> "running",
          reason |-> "none", rows_loaded |-> 0])
    /\ job' = [job EXCEPT ![w].run = Len(pipeline_runs) + 1]
    /\ Goto(w, "opening")
    /\ UNCHANGED <<source_files, raw_rows, calls, faults>>

-----------------------------------------------------------------------------
(* Transaction 3: COPY every batch, validate the counts, mark the run and    *)
(* the source, commit.                                                       *)

\* The file is opened long after it was inspected: its row count is whatever
\* the landing path holds now.
OpenFile(w) ==
    /\ phase[w] = "opening"
    /\ \E n \in FileRows[job[w].version] : job' = [job EXCEPT ![w].fileRows = n]
    /\ Goto(w, "copying")
    /\ UNCHANGED <<db, calls, faults>>

\* Rows of the next batch, numbered from 1 over the whole file.
BatchLength(j) ==
    IF j.fileRows - j.rowsRead < BatchSize THEN j.fileRows - j.rowsRead ELSE BatchSize
\* Row numbers restart with every batch.
BatchRows_Bug(j) == 1..BatchLength(j)

BatchRows(j) == (j.rowsRead + 1)..(j.rowsRead + BatchLength(j))

\* Every batch is committed on its own.
CopyBatch_Bug(w) ==
    LET j == job[w] IN
    /\ phase[w] = "copying"
    /\ j.rowsRead < j.fileRows
    /\ BatchRows(j) \cap (VisibleRows(w) \cup InFlightRows(w)) = {}
    /\ raw_rows' = [raw_rows EXCEPT ![j.version] =
                      @ \cup {[row |-> n, run |-> j.run] : n \in BatchRows(j)}]
    /\ job' = [job EXCEPT ![w].rowsRead = @ + BatchLength(j)]
    /\ UNCHANGED <<source_files, pipeline_runs, phase, calls, faults>>

\* A batch waits while a key of it is in flight in another transaction.
CopyBatch(w) ==
    /\ phase[w] = "copying"
    /\ job[w].rowsRead < job[w].fileRows
    /\ BatchRows(job[w]) \cap (VisibleRows(w) \cup InFlightRows(w)) = {}
    /\ job' = [job EXCEPT ![w] =
                 [@ EXCEPT !.rowsRead = job[w].rowsRead + BatchLength(job[w]),
                           !.staged = job[w].staged \cup BatchRows(job[w])]]
    /\ UNCHANGED <<db, phase, calls, faults>>

\* The transaction is rolled back and control is in the except branch.
RollBack(w) ==
    /\ Goto(w, "failing")
    /\ job' = [job EXCEPT ![w] = [@ EXCEPT !.fileRows = 0, !.rowsRead = 0, !.staged = {}]]

\* The database error escapes the except branch.
UniqueViolation_Bug(w) ==
    /\ phase[w] = "copying"
    /\ job[w].rowsRead < job[w].fileRows
    /\ BatchRows(job[w]) \cap VisibleRows(w) # {}
    /\ Return(w)
    /\ UNCHANGED <<db, calls, faults>>

\* A key of the batch exists already: the COPY raises.
UniqueViolation(w) ==
    /\ phase[w] = "copying"
    /\ job[w].rowsRead < job[w].fileRows
    /\ BatchRows(job[w]) \cap VisibleRows(w) # {}
    /\ RollBack(w)
    /\ UNCHANGED <<db, calls, faults>>

\* The counts are compared with each other only, not with the registered one.
CountsAgree_Bug(w) == Cardinality(VisibleRows(w)) = job[w].rowsRead

\* _validate_counts compares with the row_count of the call's own metadata.  It
\* is the same in every call with the checksum of the version, as long as the
\* inspection reads one file: Acquisition has the calls where it does not.
CountsAgree(w) ==
    /\ job[w].rowsRead = RowCount[job[w].version]
    /\ Cardinality(VisibleRows(w)) = job[w].rowsRead

\* Then the checks of mark_run_succeeded and mark_source_loaded.
LoadIsValid(w) ==
    /\ CountsAgree(w)
    /\ pipeline_runs[job[w].run].status = "running"
    /\ source_files[job[w].version] = "ready"

MarkRunSucceeded(w) ==
    /\ phase[w] = "copying"
    /\ job[w].rowsRead = job[w].fileRows
    /\ \/ LoadIsValid(w) /\ Goto(w, "marked") /\ UNCHANGED job
       \/ ~LoadIsValid(w) /\ RollBack(w)
    /\ UNCHANGED <<db, calls, faults>>

\* What the commit of the load transaction makes visible.
LoadCommitted(w) ==
    LET j == job[w] IN
    /\ raw_rows' = [raw_rows EXCEPT ![j.version] =
                      @ \cup {[row |-> n, run |-> j.run] : n \in j.staged}]
    /\ source_files' = [source_files EXCEPT ![j.version] = "loaded"]
    /\ pipeline_runs' = [pipeline_runs EXCEPT ![j.run] =
                           [@ EXCEPT !.status = "succeeded", !.rows_loaded = j.rowsRead]]

CommitLoad(w) ==
    /\ phase[w] = "marked"
    /\ LoadCommitted(w)
    /\ Return(w)
    /\ UNCHANGED <<calls, faults>>

\* The server committed but the client saw an error: the except branch runs
\* although the load is durable.
CommitInDoubt(w) ==
    /\ phase[w] = "marked"
    /\ Fault
    /\ LoadCommitted(w)
    /\ RollBack(w)
    /\ UNCHANGED calls

\* Any exception inside the try: unreadable file, bad value, database error.
LoadFails(w) ==
    /\ phase[w] \in {"opening", "copying", "marked"}
    /\ Fault
    /\ RollBack(w)
    /\ UNCHANGED <<db, calls>>

-----------------------------------------------------------------------------
(* Transaction 4, and the end of a process.                                 *)

\* Does not look whether the run is terminal already.
MarkRunFailed_Bug(w) ==
    /\ phase[w] = "failing"
    /\ pipeline_runs' =
         [pipeline_runs EXCEPT ![job[w].run] = [@ EXCEPT !.status = "failed"]]
    /\ Return(w)
    /\ UNCHANGED <<source_files, raw_rows, calls, faults>>

\* mark_run_failed raises on a terminal run and leaves it alone.
MarkRunFailed(w) ==
    LET r == job[w].run IN
    /\ phase[w] = "failing"
    /\ pipeline_runs' = IF pipeline_runs[r].status = "running"
                        THEN [pipeline_runs EXCEPT ![r] = [@ EXCEPT !.status = "failed"]]
                        ELSE pipeline_runs
    /\ Return(w)
    /\ UNCHANGED <<source_files, raw_rows, calls, faults>>

\* The process dies, or a statement outside the try raises: the open
\* transaction is rolled back and nothing records the end of the call.
Abandon(w) ==
    /\ phase[w] # "idle"
    /\ Fault
    /\ Return(w)
    /\ UNCHANGED <<db, calls>>

-----------------------------------------------------------------------------
(* What a live process does by itself.                                      *)
Proceed(w) ==
    \/ FindExactVersion(w) \/ CheckPartition(w) \/ InsertSource(w)
    \/ CommitRegistration(w) \/ CreateSkippedRun(w) \/ ReadReadySource(w)
    \/ StartRun(w) \/ OpenFile(w) \/ CopyBatch(w) \/ UniqueViolation(w)
    \/ MarkRunSucceeded(w) \/ CommitLoad(w) \/ MarkRunFailed(w)

Step(w) ==
    \/ \E v \in Versions : BeginIngest(w, v)
    \/ Proceed(w)
    \/ CommitInDoubt(w) \/ LoadFails(w) \/ Abandon(w)

Next == \E w \in Workers : Step(w)

Spec == Init /\ [][Next]_vars

\* A running process is scheduled; faults and new calls are never owed.
FairSpec == Spec /\ \A w \in Workers : WF_vars(Proceed(w))

-----------------------------------------------------------------------------
(* Safety.                                                                  *)

SucceededRuns(v) ==
    {i \in DOMAIN pipeline_runs :
        pipeline_runs[i].source = v /\ pipeline_runs[i].status = "succeeded"}

\* One transaction makes the rows, the source status and the run outcome
\* visible: a source is loaded exactly when one run of it succeeded, and then
\* its raw rows are rows 1 to row_count, each once, all with the lineage of
\* that run; otherwise it has no raw row (service.py:84-103 "file-level
\* idempotency and rollback safety").
LoadIsAtomic ==
    \A v \in Versions :
        IF source_files[v] = "loaded"
        THEN \E r \in SucceededRuns(v) :
                /\ SucceededRuns(v) = {r}
                /\ raw_rows[v] = {[row |-> n, run |-> r] : n \in 1..RowCount[v]}
                /\ pipeline_runs[r].rows_loaded = RowCount[v]
        ELSE SucceededRuns(v) = {} /\ raw_rows[v] = {}

\* What an attempt recorded about its source stays true of it: a skipped run's
\* reason is the source's final status, and no blocked revision was ever
\* attempted (runs.py:17-23 and 86-94), however the registrations interleaved.
AttemptsAgreeWithSource ==
    \A i \in DOMAIN pipeline_runs :
        LET status == source_files[pipeline_runs[i].source] IN
        IF pipeline_runs[i].status = "skipped"
        THEN \/ pipeline_runs[i].reason = "already_loaded" /\ status = "loaded"
             \/ /\ pipeline_runs[i].reason = "source_revision_detected"
                /\ status = "revision_detected"
        ELSE status \in {"ready", "loaded"}

\* Registrations that race never block each other out: a partition with a
\* registered version has one that may be loaded (source_registry.py:28-33).
SomeVersionLoadable ==
    \A v \in Versions :
        source_files[v] # "absent" =>
            \E u \in Versions :
                PartitionOf[u] = PartitionOf[v] /\ source_files[u] \in {"ready", "loaded"}

\* Running runs that no process will finish.
OrphanedRuns ==
    {i \in DOMAIN pipeline_runs :
        pipeline_runs[i].status = "running" /\ \A w \in Workers : job[w].run # i}

\* Each of them cost a fault: a call that returns or raises by itself always
\* leaves its run terminal (service.py:104-108).
OrphansAreFaults == Cardinality(OrphanedRuns) <= faults

\* One version of a partition is loadable and the others are blocked for
\* review (source_registry.py:28-33; docs/PROJECT_WALKTHROUGH.md:25-27).  False
\* of concurrent registrations.
RevisionsAreBlocked ==
    \A u, v \in Versions :
        /\ PartitionOf[u] = PartitionOf[v]
        /\ source_files[u] \in {"ready", "loaded"}
        /\ source_files[v] \in {"ready", "loaded"}
        => u = v

\* w has looked for other versions of its partition and has not yet committed
\* the row that depends on the answer.
Deciding(w) == phase[w] \in {"insert", "registering"}

\* No two registrations of one partition overlap there: what one process at a
\* time gives, or a lock on the partition would.
RegistrationsAreSerial ==
    \A w, o \in Workers :
        /\ Deciding(w) /\ Deciding(o)
        /\ PartitionOf[job[w].version] = PartitionOf[job[o].version]
        => w = o

-----------------------------------------------------------------------------
(* Action properties and liveness.                                          *)

\* The history is append-only: a terminal run never changes, also when a
\* commit was in doubt and the except branch runs after a durable success; no
\* run changes its source; a loaded or blocked source keeps its status and its
\* rows (runs.py:118-122, source_registry.py:86-91).
HistoryIsFinal ==
    [][ /\ \A i \in DOMAIN pipeline_runs :
             /\ i \in DOMAIN pipeline_runs'
             /\ pipeline_runs'[i].source = pipeline_runs[i].source
             /\ pipeline_runs[i].status # "running" => pipeline_runs'[i] = pipeline_runs[i]
        /\ \A v \in Versions :
             source_files[v] \in {"loaded", "revision_detected"} =>
                 source_files'[v] = source_files[v] /\ raw_rows'[v] = raw_rows[v] ]_vars

\* The overlap of two registrations is all that RevisionsAreBlocked needs to
\* fail: whatever else runs at once, also loads, retries and faults, a revision
\* is blocked while the checks and commits of a partition come one by one
\* (source_registry.py:28-52).
SerialRevisionsAreBlocked == []RegistrationsAreSerial => []RevisionsAreBlocked

\* Every call ends: processes that wait for each other's uncommitted keys never
\* wait in a circle, and no branch of ingest_source is left without an exit.
EveryCallReturns ==
    \A w \in Workers : phase[w] # "idle" ~> phase[w] = "idle"

\* While the registered file is in place and no fault happens, a call on a ready
\* source ends with the source loaded, by that call or by the one it lost to.
ReadyCallLoads ==
    \A v \in Versions :
        FileRows[v] = {RowCount[v]} =>
            ((source_files[v] = "ready" /\ \E w \in Workers : job[w].version = v)
                ~> (source_files[v] = "loaded" \/ faults > 0))

-----------------------------------------------------------------------------
(* Refinement.                                                              *)

Ledger == INSTANCE SourceLedger WITH
    status <- source_files, contents <- raw_rows, attempts <- Len(pipeline_runs)

\* The four transactions of every call, with their races, retries and faults,
\* look to a reader of the committed tables like single Register, Attempt and
\* Load steps of the ledger, or like no step.
ImplementsSourceLedger == Ledger!Spec
=============================================================================
