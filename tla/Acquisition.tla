---------------------------- MODULE Acquisition ----------------------------
(***************************************************************************)
(* How the file of one partition gets from the publisher to the landing    *)
(* directory of a host, to S3 and into the ledger, and what the row of its *)
(* version records about it (orchestration.py _ensure_loaded, cli.py main, *)
(* storage/*.py, landing/*.py).  Processes on one host share its landing   *)
(* path; all share the bucket and the database.                            *)
(*                                                                         *)
(* A file is identified with its bytes, so a version (checksum_sha256) is  *)
(* the file it is the checksum of.  The registration and the load are one  *)
(* step each, as module SourceLedger promises; Ingestion models inside     *)
(* them.  Names that end in _Bug are explained there.                      *)
(***************************************************************************)
EXTENDS Integers, Sequences, SequencesExt

CONSTANTS
    Workers,        \* processes
    Hosts,          \* landing directories
    HostOf,         \* the host of a process
    Backends,       \* values of LANDING_BACKEND in use
    Files,          \* contents a file may have
    NoFile,         \* no file, no URI
    Publications,   \* the contents the publisher serves, one after the other
    Truncated,      \* what an interrupted transfer of any of them leaves
    Readable,       \* files that pass the source contract
    Size,           \* byte count of a file
    Rows,           \* row count of a file
    SendsLength,    \* whether the publisher sends Content-Length
    MaxCalls,       \* bound on calls
    MaxFaults       \* bound on lost processes, lost files and broken transfers

ASSUME HostAssumption == HostOf \in [Workers -> Hosts]

ASSUME BackendAssumption == Backends \subseteq {"local", "s3"}

ASSUME FileAssumption ==
    /\ NoFile \notin Files
    /\ Truncated \in Files
    /\ Readable \subseteq Files
    /\ Publications \in Seq(Files \ {Truncated})
    /\ Publications # <<>>
    /\ Size \in [Files -> Nat] /\ Rows \in [Files -> Nat]
    /\ \A n \in DOMAIN Publications : Size[Truncated] < Size[Publications[n]]

ASSUME BoundAssumption == MaxCalls \in Nat /\ MaxFaults \in Nat

VARIABLES
    published,      \* index of what the publisher serves now
    landing,        \* the file at the landing path of each host
    objects,        \* versions of the S3 object of each key, oldest first
    source_files,   \* committed rows of the partition, in the order of their ID
    phase,          \* where each process is
    call,           \* the locals of each process's call
    calls,          \* calls so far
    faults          \* faults so far

vars == <<published, landing, objects, source_files, phase, call, calls, faults>>
store == <<published, landing, objects, source_files>>

-----------------------------------------------------------------------------
(* Vocabulary.                                                              *)

Commands == {"fetch", "register", "ingest", "sync", "materialize"}

\* storage_backend, storage_uri, storage_version_id, and whose stored_at.
Storage == [backend : {"local", "s3"}, uri : Files \cup {NoFile},
            version : Nat, stored_at : {"none", "local", "s3"}]

\* storage_uri holds the key, which a version determines.
LocalStorage == [backend |-> "local", uri |-> NoFile, version |-> 0, stored_at |-> "none"]

\* measured is the file that file_size_bytes was taken from; loaded is the file
\* whose rows are in raw.
SourceFile == [checksum : Files, measured : Files,
               status : {"ready", "loaded", "revision_detected"},
               loaded : Files \cup {NoFile}, storage : Storage]

S3Object == [body : Files, sha256 : Files]

Phases == {"idle", "recover", "materialize", "materialized", "ensure", "downloaded",
           "measure", "count", "hash", "store", "head", "put", "confirm", "register", "load",
           "persist", "flush", "next"}

\* checksum, measured and counted are the files that the checksum, the size and
\* the row count of the SourceFileMetadata are of, id is the source row, partial
\* the temporary file, todo the versions a sync has left, storage what the call
\* has read of the row's storage columns.
Call == [command : Commands \cup {"none"}, backend : {"local", "s3"},
         checksum : Files \cup {NoFile}, measured : Files \cup {NoFile},
         counted : Files \cup {NoFile}, id : Nat,
         partial : Files \cup {NoFile}, version : Nat, todo : Seq(Nat), storage : Storage]

NoCall == [command |-> "none", backend |-> "local", checksum |-> NoFile,
           measured |-> NoFile, counted |-> NoFile, id |-> 0, partial |-> NoFile, version |-> 0,
           todo |-> <<>>, storage |-> LocalStorage]

TypeOK ==
    /\ published \in DOMAIN Publications
    /\ landing \in [Hosts -> Files \cup {NoFile}]
    /\ objects \in [Files -> Seq(S3Object)]
    /\ source_files \in Seq(SourceFile)
    /\ phase \in [Workers -> Phases]
    /\ call \in [Workers -> Call]
    /\ calls \in 0..MaxCalls
    /\ faults \in 0..MaxFaults

Init ==
    /\ published = 1
    /\ landing = [h \in Hosts |-> NoFile]
    /\ objects = [f \in Files |-> <<>>]
    /\ source_files = <<>>
    /\ phase = [w \in Workers |-> "idle"]
    /\ call = [w \in Workers |-> NoCall]
    /\ calls = 0
    /\ faults = 0

-----------------------------------------------------------------------------
(* Helpers.                                                                 *)

Goto(w, p) == phase' = [phase EXCEPT ![w] = p]

\* The call is over, by return or by exception; finally has unlinked .part.
Return(w) == Goto(w, "idle") /\ call' = [call EXCEPT ![w] = NoCall]

Fault == faults < MaxFaults /\ faults' = faults + 1

\* What w finds at the landing path.
Landed(w) == landing[HostOf[w]]

\* The row ID of a version, 0 when it is not registered.
IdOf(f) ==
    LET ids == {i \in DOMAIN source_files : source_files[i].checksum = f}
    IN  IF ids = {} THEN 0 ELSE CHOOSE i \in ids : TRUE

\* One key for all versions of a partition.
s3_key_Bug(f) == Publications[1]

s3_key(f) == f

Stored == {key \in Files : objects[key] # <<>>}

\* _verify_head of the current object version against what was inspected.
HeadMatches(c) ==
    LET head == Last(objects[s3_key(c.checksum)])
    IN  Size[head.body] = Size[c.measured] /\ head.sha256 = c.checksum

\* What is left of main or sync_source once the file is stored.
AfterStore(command) ==
    CASE command \in {"ingest", "register"} -> "register"
      [] command = "sync" -> "persist"
      [] OTHER -> "next"

-----------------------------------------------------------------------------
(* The calls.                                                               *)

Begin(w, c, p) ==
    /\ phase[w] = "idle"
    /\ calls < MaxCalls
    /\ calls' = calls + 1
    /\ call' = [call EXCEPT ![w] = c]
    /\ Goto(w, p)
    /\ UNCHANGED <<store, faults>>

\* prepare_source, up to its look for a known version in S3 mode.
BeginSource(w, command, backend) ==
    Begin(w, [NoCall EXCEPT !.command = command, !.backend = backend],
          IF backend = "s3" /\ Landed(w) = NoFile THEN "recover" ELSE "ensure")

\* sync_source for one registered version, sync_all_sources for all of them.
BeginSync(w) ==
    \E todo \in {[i \in DOMAIN source_files |-> i]} \cup {<<i>> : i \in DOMAIN source_files} :
        Begin(w, [NoCall EXCEPT !.command = "sync", !.backend = "s3", !.todo = todo], "next")

\* The values that materialize_source and _recover_partition_if_known read.
Restoring(c, i) ==
    [c EXCEPT !.checksum = source_files[i].checksum,
              !.measured = source_files[i].measured,
              !.storage = source_files[i].storage]

BeginMaterialize(w) ==
    \E i \in DOMAIN source_files :
        Begin(w, Restoring([NoCall EXCEPT !.command = "materialize", !.backend = "s3"], i),
              "materialize")

-----------------------------------------------------------------------------
(* Recovery from S3.                                                        *)

\* _recover_partition_if_known: the S3-backed row with the highest ID.  A fetch may
\* run without DATABASE_URL, and looks for none.
Recover(w) ==
    LET backed == {i \in DOMAIN source_files :
                      source_files[i].storage.backend = "s3" /\ source_files[i].storage.uri # NoFile}
    IN
    /\ phase[w] = "recover"
    /\ \/ call[w].command = "fetch" /\ Goto(w, "ensure") /\ UNCHANGED call
       \/ backed = {} /\ Goto(w, "ensure") /\ UNCHANGED call
       \/ \E i \in backed :
            /\ \A j \in backed : j <= i
            /\ call' = [call EXCEPT ![w] = Restoring(call[w], i)]
            /\ Goto(w, "materialize")
    /\ UNCHANGED <<store, calls, faults>>

\* What happens once the wanted file is at the landing path.
Materialized(w) ==
    IF call[w].command = "materialize"
    THEN Return(w)
    ELSE /\ Goto(w, "ensure")
         /\ call' = [call EXCEPT ![w] = [NoCall EXCEPT !.command = call[w].command,
                                                        !.backend = call[w].backend]]

\* A file that is there already is verified and kept; a missing one is fetched
\* to a partial file from the key that the row records.
FetchObject(w) ==
    LET c == call[w] IN
    /\ phase[w] = "materialize"
    /\ \/ Landed(w) = c.checksum /\ Materialized(w)
       \/ Landed(w) \notin {c.checksum, NoFile} /\ Return(w)
       \/ /\ Landed(w) = NoFile
          /\ \/ c.storage.uri \notin Stored /\ Return(w)
             \/ /\ c.storage.uri \in Stored
                /\ call' = [call EXCEPT ![w].partial = Last(objects[c.storage.uri]).body]
                /\ Goto(w, "materialized")
    /\ UNCHANGED <<store, calls, faults>>

\* partial.replace(destination), after the size and the checksum agree.
RestoreLanding(w) ==
    LET c == call[w] IN
    /\ phase[w] = "materialized"
    /\ \/ /\ Size[c.partial] = Size[c.measured] /\ c.partial = c.checksum
          /\ landing' = [landing EXCEPT ![HostOf[w]] = c.partial]
          /\ Materialized(w)
       \/ /\ ~(Size[c.partial] = Size[c.measured] /\ c.partial = c.checksum)
          /\ Return(w)
          /\ UNCHANGED landing
    /\ UNCHANGED <<published, objects, source_files, calls, faults>>

-----------------------------------------------------------------------------
(* Download and inspection.                                                 *)

\* Downloads whether or not the file is there.
EnsureLocal_Bug(w) ==
    /\ phase[w] = "ensure"
    /\ call' = [call EXCEPT ![w].partial = Publications[published]]
    /\ Goto(w, "downloaded")
    /\ UNCHANGED <<store, calls, faults>>

\* Trusts the response to be whole.
Complete_Bug(partial, response) == TRUE

\* A transfer that was cut off is shorter than Content-Length, where there is one.
Complete(partial, response) ==
    Size[partial] # 0 /\ (SendsLength => Size[partial] = Size[response])

\* ensure_local reuses a final file; otherwise the response, whole or cut off,
\* is copied to a partial file and its size is checked.
EnsureLocal(w) ==
    LET response == Publications[published]
        Copy(partial) ==
            \/ /\ Complete(partial, response)
               /\ call' = [call EXCEPT ![w].partial = partial]
               /\ Goto(w, "downloaded")
            \/ ~Complete(partial, response) /\ Return(w)
    IN
    /\ phase[w] = "ensure"
    /\ \/ Landed(w) # NoFile /\ Goto(w, "measure") /\ UNCHANGED <<call, faults>>
       \/ Landed(w) = NoFile /\ Copy(response) /\ UNCHANGED faults
       \/ Landed(w) = NoFile /\ Copy(Truncated) /\ Fault
    /\ UNCHANGED <<store, calls>>

\* partial.replace(destination), whatever is there by now.
ReplaceLanding(w) ==
    /\ phase[w] = "downloaded"
    /\ landing' = [landing EXCEPT ![HostOf[w]] = call[w].partial]
    /\ call' = [call EXCEPT ![w].partial = NoFile]
    /\ Goto(w, "measure")
    /\ UNCHANGED <<published, objects, source_files, calls, faults>>

\* inspect_source looks at the path three times: for the size, for the schema and
\* the row count, and for the checksum.
MeasureSource(w) ==
    /\ phase[w] = "measure"
    /\ \/ /\ Landed(w) # NoFile /\ Size[Landed(w)] # 0
          /\ call' = [call EXCEPT ![w].measured = Landed(w)]
          /\ Goto(w, "count")
       \/ (Landed(w) # NoFile => Size[Landed(w)] = 0) /\ Return(w)
    /\ UNCHANGED <<store, calls, faults>>

CountSource(w) ==
    /\ phase[w] = "count"
    /\ \/ /\ Landed(w) \in Readable
          /\ call' = [call EXCEPT ![w].counted = Landed(w)]
          /\ Goto(w, "hash")
       \/ Landed(w) \notin Readable /\ Return(w)
    /\ UNCHANGED <<store, calls, faults>>

HashSource(w) ==
    /\ phase[w] = "hash"
    /\ \/ /\ Landed(w) # NoFile
          /\ call' = [call EXCEPT ![w].checksum = Landed(w)]
          /\ Goto(w, "store")
       \/ Landed(w) = NoFile /\ Return(w)
    /\ UNCHANGED <<store, calls, faults>>

-----------------------------------------------------------------------------
(* Storage.                                                                 *)

\* _verify_local, which is all that the local backend does.
VerifyLocal(w) ==
    /\ phase[w] = "store"
    /\ \/ /\ Landed(w) = call[w].checksum
          /\ Goto(w, IF call[w].backend = "s3" THEN "head" ELSE AfterStore(call[w].command))
          /\ UNCHANGED call
       \/ Landed(w) # call[w].checksum /\ Return(w)
    /\ UNCHANGED <<store, calls, faults>>

\* An object that exists is reused if it matches.
HeadObject(w) ==
    LET existing == objects[s3_key(call[w].checksum)] IN
    /\ phase[w] = "head"
    /\ \/ existing = <<>> /\ Goto(w, "put") /\ UNCHANGED call
       \/ /\ existing # <<>> /\ HeadMatches(call[w])
          /\ call' = [call EXCEPT ![w].version = Len(existing)]
          /\ Goto(w, AfterStore(call[w].command))
       \/ existing # <<>> /\ ~HeadMatches(call[w]) /\ Return(w)
    /\ UNCHANGED <<store, calls, faults>>

\* The body is what is at the path by now; the bucket keeps every version.
Upload(w) ==
    /\ phase[w] = "put"
    /\ Landed(w) # NoFile
    /\ objects' = [objects EXCEPT ![s3_key(call[w].checksum)] =
                     Append(@, [body |-> Landed(w), sha256 |-> call[w].checksum])]

PutObject(w) ==
    \/ /\ Upload(w)
       /\ call' = [call EXCEPT ![w].version = Len(objects'[s3_key(call[w].checksum)])]
       /\ Goto(w, "confirm")
       /\ UNCHANGED <<published, landing, source_files, calls, faults>>
    \/ /\ phase[w] = "put"
       /\ Landed(w) = NoFile
       /\ Return(w)
       /\ UNCHANGED <<store, calls, faults>>

\* S3 has the object but the process does not learn of it.
PutInDoubt(w) ==
    /\ Upload(w)
    /\ Fault
    /\ Return(w)
    /\ UNCHANGED <<published, landing, source_files, calls>>

ConfirmObject(w) ==
    /\ phase[w] = "confirm"
    /\ \/ HeadMatches(call[w]) /\ Goto(w, AfterStore(call[w].command)) /\ UNCHANGED call
       \/ ~HeadMatches(call[w]) /\ Return(w)
    /\ UNCHANGED <<store, calls, faults>>

-----------------------------------------------------------------------------
(* Registration and load, at the grain of the ledger.                       *)

AfterRegister(command, status) ==
    IF command = "ingest" /\ status = "ready" THEN "load" ELSE "persist"

\* Looks the partition up and forgets the checksum.
KnownId_Bug(f) == IF source_files = <<>> THEN 0 ELSE 1

KnownId(f) == IdOf(f)

RegisterSource(w) ==
    LET c == call[w]
        known == KnownId(c.checksum)
        row == [checksum |-> c.checksum, measured |-> c.measured,
                status |-> IF source_files = <<>> THEN "ready" ELSE "revision_detected",
                loaded |-> NoFile, storage |-> LocalStorage]
    IN
    /\ phase[w] = "register"
    /\ \/ /\ known # 0
          /\ call' = [call EXCEPT ![w].id = known]
          /\ Goto(w, AfterRegister(c.command, source_files[known].status))
          /\ UNCHANGED source_files
       \/ /\ known = 0
          /\ source_files' = Append(source_files, row)
          /\ call' = [call EXCEPT ![w].id = Len(source_files')]
          /\ Goto(w, AfterRegister(c.command, row.status))
    /\ UNCHANGED <<published, landing, objects, calls, faults>>

\* The load reads the landing path again and checks only that there are as many
\* rows as this call counted; it fails when the source has been loaded meanwhile.
LoadSource(w) ==
    LET row == source_files[call[w].id]
        valid == /\ Landed(w) \in Readable
                 /\ Rows[Landed(w)] = Rows[call[w].counted]
                 /\ row.status = "ready"
    IN
    /\ phase[w] = "load"
    /\ \/ /\ valid
          /\ source_files' = [source_files EXCEPT ![call[w].id] =
                                [@ EXCEPT !.status = "loaded", !.loaded = Landed(w)]]
          /\ Goto(w, "persist")
          /\ UNCHANGED call
       \/ ~valid /\ Return(w) /\ UNCHANGED source_files
    /\ UNCHANGED <<published, landing, objects, calls, faults>>

-----------------------------------------------------------------------------
(* persist_storage_metadata.                                                *)

\* A local result names the landing path.
StorageResult_Bug(c) ==
    [backend |-> c.backend, uri |-> IF c.backend = "s3" THEN s3_key(c.checksum) ELSE "path",
     version |-> c.version, stored_at |-> c.backend]

StorageResult(c) ==
    [backend |-> c.backend, uri |-> IF c.backend = "s3" THEN s3_key(c.checksum) ELSE NoFile,
     version |-> c.version, stored_at |-> c.backend]

\* session.get, and the early return of _merge_storage_metadata.
ReadStorage(w) ==
    LET row == source_files[call[w].id].storage IN
    /\ phase[w] = "persist"
    /\ \/ /\ call[w].backend = "local" /\ row.backend = "s3" /\ row.uri # NoFile
          /\ Goto(w, "next")
          /\ UNCHANGED call
       \/ /\ ~(call[w].backend = "local" /\ row.backend = "s3" /\ row.uri # NoFile)
          /\ call' = [call EXCEPT ![w].storage = row]
          /\ Goto(w, "flush")
    /\ UNCHANGED <<store, calls, faults>>

\* The UPDATE writes every column.
Flush_Bug(current, read, result) == result

\* The UPDATE that SQLAlchemy emits names the columns whose value differs from
\* what the session read; stored_at, a new timestamp, always does.
Flush(current, read, result) ==
    [column \in DOMAIN current |->
        IF column # "stored_at" /\ result[column] = read[column]
        THEN current[column] ELSE result[column]]

FlushStorage(w) ==
    LET c == call[w] IN
    /\ phase[w] = "flush"
    /\ source_files' = [source_files EXCEPT ![c.id].storage =
                          Flush(@, c.storage, StorageResult(c))]
    /\ call' = [call EXCEPT ![w].storage = LocalStorage]
    /\ Goto(w, "next")
    /\ UNCHANGED <<published, landing, objects, calls, faults>>

\* The call returns, unless it is a sync that has versions left; a version
\* whose landing path is empty is passed over.
NextSource(w) ==
    LET todo == call[w].todo IN
    /\ phase[w] = "next"
    /\ \/ todo = <<>> /\ Return(w)
       \/ /\ todo # <<>> /\ Landed(w) = NoFile
          /\ call' = [call EXCEPT ![w].todo = Tail(todo)]
          /\ UNCHANGED phase
       \/ /\ todo # <<>> /\ Landed(w) # NoFile
          /\ call' = [call EXCEPT ![w] =
                        [@ EXCEPT !.checksum = source_files[Head(todo)].checksum,
                                  !.measured = source_files[Head(todo)].measured,
                                  !.id = Head(todo), !.version = 0, !.todo = Tail(todo)]]
          /\ Goto(w, "store")
    /\ UNCHANGED <<store, calls, faults>>

-----------------------------------------------------------------------------
(* The world around the processes.                                          *)

\* The publisher revises the partition.
Republish ==
    /\ published < Len(Publications)
    /\ published' = published + 1
    /\ UNCHANGED <<landing, objects, source_files, phase, call, calls, faults>>

\* The landing file is removed, by accident or to exercise recovery.
LoseLanding(h) ==
    /\ landing[h] # NoFile
    /\ Fault
    /\ landing' = [landing EXCEPT ![h] = NoFile]
    /\ UNCHANGED <<published, objects, source_files, phase, call, calls>>

\* The process dies, or the publisher, S3 or the database answers with an error.
Abandon(w) ==
    /\ phase[w] # "idle"
    /\ Fault
    /\ Return(w)
    /\ UNCHANGED <<store, calls>>

-----------------------------------------------------------------------------
Proceed(w) ==
    \/ Recover(w) \/ FetchObject(w) \/ RestoreLanding(w)
    \/ EnsureLocal(w) \/ ReplaceLanding(w) \/ MeasureSource(w) \/ CountSource(w) \/ HashSource(w)
    \/ VerifyLocal(w) \/ HeadObject(w) \/ PutObject(w) \/ ConfirmObject(w)
    \/ RegisterSource(w) \/ LoadSource(w)
    \/ ReadStorage(w) \/ FlushStorage(w) \/ NextSource(w)

BeginCall(w) ==
    \/ \E command \in {"fetch", "register", "ingest"}, backend \in Backends :
          BeginSource(w, command, backend)
    \/ "s3" \in Backends /\ (BeginSync(w) \/ BeginMaterialize(w))

Next ==
    \/ \E w \in Workers : BeginCall(w) \/ Proceed(w) \/ PutInDoubt(w) \/ Abandon(w)
    \/ \E h \in Hosts : LoseLanding(h)
    \/ Republish

Spec == Init /\ [][Next]_vars

\* A running process is scheduled; faults, new calls and revisions are not owed.
FairSpec == Spec /\ \A w \in Workers : WF_vars(Proceed(w))

-----------------------------------------------------------------------------
(* Properties.                                                              *)

\* The rows in raw are those of the file the version is the checksum of, though
\* the landing path is opened again, and only rows are counted, long after it
\* was inspected (storage/service.py:30-31, ingestion/service.py:82).
LoadedIsRegistered ==
    \A i \in DOMAIN source_files :
        source_files[i].status = "loaded" => source_files[i].loaded = source_files[i].checksum

\* verify_source_storage of an S3-backed row.
VerifyAccepts(i) ==
    LET row == source_files[i]
        head == objects[s3_key(row.checksum)]
    IN  /\ head # <<>>
        /\ HeadMatches(row)
        /\ row.storage.uri = s3_key(row.checksum)
        /\ row.storage.version # 0 => row.storage.version = Len(head)

\* A row that records an S3 object can be recovered from it: the object, its
\* current version and the version recorded hold the registered bytes
\* (README.md:116-120 "durable", "Recovery ... verifies full SHA-256"), and
\* storage verify accepts it unless several uploads left several versions.
BackedSourcesRecover ==
    \A i \in DOMAIN source_files :
        LET row == source_files[i]
            versions == objects[row.storage.uri]
        IN  row.storage.backend = "s3" =>
                /\ row.storage.uri # NoFile /\ row.storage.version \in DOMAIN versions
                /\ Last(versions).body = row.checksum
                /\ versions[row.storage.version].body = row.checksum
                /\ Len(versions) = 1 => VerifyAccepts(i)

\* No transfer, however it breaks, leaves anything but a whole publication at a
\* landing path, where ensure_local would reuse it for ever (downloader.py:1
\* "Safe immutable landing-file downloads").
LandingIsWhole == \A h \in Hosts : landing[h] # Truncated

\* A file at a landing path is never replaced, only removed ("immutable",
\* downloader.py:1).  This is what a load that opens the path again relies on,
\* and it needs one process per landing path: the replacements are unconditional
\* (downloader.py:45, backends.py:146).
LandingIsImmutable ==
    [][ \A h \in Hosts : landing[h] # NoFile => landing'[h] \in {landing[h], NoFile} ]_vars

\* A row that records an S3 object records it for ever, also when a local call
\* has read the row before it did ("without allowing local reuse to erase it",
\* storage/service.py:48-55).
DurableStorageKept ==
    [][ \A i \in DOMAIN source_files :
          LET was == source_files[i].storage
              is == source_files'[i].storage
          IN  was.backend = "s3" =>
                  is.backend = "s3" /\ is.uri = was.uri /\ is.version # 0 ]_vars

\* Objects are addressed by the SHA-256 of their bytes (docs/aws_s3.md:52).
\* False when two processes share a landing path.
ObjectsMatchKeys ==
    \A f \in Files : \A n \in DOMAIN objects[f] : objects[f][n].body = f

\* "Sync all registered versions whose deterministic local file exists"
\* (storage/service.py:105): a version whose file is at the landing path of a
\* sync that has it left is backed in the end.  False where the path holds one
\* of two registered versions.
SyncCoversLanding ==
    \A f \in Files :
        (\E w \in Workers : /\ call[w].command = "sync" /\ Landed(w) = f
                            /\ \E n \in DOMAIN call[w].todo :
                                 source_files[call[w].todo[n]].checksum = f)
            ~> (faults > 0 \/ \E i \in DOMAIN source_files :
                    source_files[i].checksum = f /\ source_files[i].storage.backend = "s3")
=============================================================================
