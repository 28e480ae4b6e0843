-------------------------- MODULE AcquisitionProofs --------------------------
(***************************************************************************)
(* Proofs about Acquisition for all processes, hosts, files, publications, *)
(* backends and bounds.  The first part holds however processes share      *)
(* landing directories; the second one needs one process per directory.    *)
(***************************************************************************)
EXTENDS Acquisition, SequenceTheorems, TLAPS

-----------------------------------------------------------------------------
(* The inductive invariant: the locals of a call.                           *)

\* From here on a call knows the checksum and the measured file it works with.
Inspected == {"store", "head", "put", "confirm", "register", "load", "persist", "flush",
              "materialize", "materialized"}

\* From here on the file is stored, in S3 mode in a version of its object.
StoredPhases == {"confirm", "register", "load", "persist", "flush"}

\* Here a call has not stored anything yet.
FreshPhases == {"recover", "ensure", "downloaded", "measure", "count", "hash"}

\* From here on the call works on a row.
RowPhases == {"load", "persist", "flush"}

\* A sync begins with a version of the ledger, not with a file.
SyncPhases == {"next", "store", "head", "put", "confirm", "persist", "flush"}

KnowsItsFile(w) ==
    /\ phase[w] \in Inspected => call[w].checksum \in Files /\ call[w].measured \in Files
    /\ phase[w] \in {"count", "hash"} => call[w].measured \in Files
    /\ phase[w] \in {"downloaded", "materialized"} => call[w].partial \in Files

\* A row that a call works on, or that a sync has left, exists; rows are never
\* removed.  The call has the row's checksum.
KnowsItsRow(w) ==
    /\ \A n \in DOMAIN call[w].todo : call[w].todo[n] \in DOMAIN source_files
    /\ \/ phase[w] \in RowPhases
       \/ call[w].command = "sync" /\ phase[w] \in {"store", "head", "put", "confirm"}
       => /\ call[w].id \in DOMAIN source_files
          /\ source_files[call[w].id].checksum = call[w].checksum
    /\ call[w].command = "sync" => phase[w] \in SyncPhases

\* The storage columns are those of the local backend or of an object of the
\* checksum f.
RecordsObject(storage, f) ==
    \/ storage.backend = "local" /\ storage.uri = NoFile /\ storage.version = 0
    \/ storage.backend = "s3" /\ storage.uri = s3_key(f) /\ storage.version # 0

\* So are those of every row, and those a call has read; a call that stored its
\* file in S3 mode has a version of the object, and a local one has not read an
\* S3 record that it is about to write over.
RowsAreOfOneBackend ==
    \A i \in DOMAIN source_files :
        RecordsObject(source_files[i].storage, source_files[i].checksum)

IsOfOneBackend(w) ==
    /\ phase[w] \in StoredPhases => (call[w].version = 0 <=> call[w].backend = "local")
    /\ phase[w] \in FreshPhases \cup {"store", "head", "put"} =>
          (call[w].backend = "local" => call[w].version = 0)
    /\ phase[w] \in {"head", "put", "confirm"} => call[w].backend = "s3"
    /\ phase[w] = "flush" =>
          /\ RecordsObject(call[w].storage, call[w].checksum)
          /\ call[w].backend = "local" => call[w].storage.backend = "local"

CallFits(w) == KnowsItsFile(w) /\ KnowsItsRow(w) /\ IsOfOneBackend(w)

\* What a call has read of an S3 record can only have become truer.
ReadRecordsLast ==
    \A w \in Workers :
        phase[w] = "flush" /\ call[w].storage.backend = "s3" =>
            source_files[call[w].id].storage.backend = "s3"

AcquisitionInv ==
    /\ TypeOK
    /\ RowsAreOfOneBackend
    /\ ReadRecordsLast
    /\ \A w \in Workers : CallFits(w)

-----------------------------------------------------------------------------
(* Operators.                                                               *)

\* The current version of an object is one of its versions.
LEMMA LastType ==
    ASSUME NEW S, NEW s \in Seq(S), s # <<>>
    PROVE  Last(s) \in S /\ Last(s) = s[Len(s)] /\ Len(s) \in DOMAIN s /\ Len(s) # 0
BY DEF Last

\* The lookup of a version answers its row, or 0 when there is none.
LEMMA IdOfFindsVersion ==
    ASSUME NEW f, source_files \in Seq(SourceFile)
    PROVE  \/ IdOf(f) = 0 /\ \A i \in DOMAIN source_files : source_files[i].checksum # f
           \/ /\ IdOf(f) \in DOMAIN source_files
              /\ IdOf(f) # 0
              /\ source_files[IdOf(f)].checksum = f
<1> DEFINE ids == {i \in DOMAIN source_files : source_files[i].checksum = f}
<1>1. IdOf(f) = IF ids = {} THEN 0 ELSE CHOOSE i \in ids : TRUE
  BY DEF IdOf
<1>2. 0 \notin DOMAIN source_files
  OBVIOUS
<1>3. CASE ids = {}
  BY <1>1, <1>3
<1>4. CASE ids # {}
  <2>1. IdOf(f) \in ids
    BY <1>1, <1>4
  <2> QED
    BY <1>2, <2>1
<1> QED
  BY <1>3, <1>4

\* An UPDATE of one row leaves the others as they are.
LEMMA RowChanges ==
    ASSUME source_files \in Seq(SourceFile), NEW i \in DOMAIN source_files,
           NEW row \in SourceFile, source_files' = [source_files EXCEPT ![i] = row]
    PROVE  /\ source_files' \in Seq(SourceFile)
           /\ DOMAIN source_files' = DOMAIN source_files
           /\ \A j \in DOMAIN source_files :
                 source_files'[j] = IF j = i THEN row ELSE source_files[j]
<1>1. i \in 1..Len(source_files) /\ DOMAIN source_files = 1..Len(source_files)
  OBVIOUS
<1> QED
  BY <1>1, ExceptSeq

\* A new row of the ledger and its storage columns.
LEMMA NewRowType ==
    ASSUME FileAssumption, NEW c \in Files, NEW m \in Files,
           NEW s \in {"ready", "revision_detected"}
    PROVE  [checksum |-> c, measured |-> m, status |-> s, loaded |-> NoFile,
            storage |-> LocalStorage] \in SourceFile
<1>1. LocalStorage \in Storage
  BY DEF LocalStorage, Storage
<1> QED
  BY <1>1 DEF SourceFile

\* The UPDATE writes storage columns, each the current or the new one.
LEMMA FlushType ==
    ASSUME NEW current \in Storage, NEW read \in Storage, NEW result \in Storage
    PROVE  /\ Flush(current, read, result) =
                [backend |-> IF result.backend = read.backend THEN current.backend ELSE result.backend,
                 uri |-> IF result.uri = read.uri THEN current.uri ELSE result.uri,
                 version |-> IF result.version = read.version THEN current.version ELSE result.version,
                 stored_at |-> result.stored_at]
           /\ Flush(current, read, result) \in Storage
<1>1. DOMAIN current = {"backend", "uri", "version", "stored_at"}
  BY DEF Storage
<1>2. Flush(current, read, result) =
        [backend |-> IF result.backend = read.backend THEN current.backend ELSE result.backend,
         uri |-> IF result.uri = read.uri THEN current.uri ELSE result.uri,
         version |-> IF result.version = read.version THEN current.version ELSE result.version,
         stored_at |-> result.stored_at]
  BY <1>1 DEF Flush
<1> QED
  BY <1>2 DEF Storage

\* A call begins with its command and its backend.
LEMMA NoCallType == NoCall \in Call
BY DEF NoCall, Call, LocalStorage, Storage

\* What a call records is storage columns.
LEMMA ResultType ==
    ASSUME NEW c \in Call, c.checksum \in Files
    PROVE  StorageResult(c) \in Storage
BY DEF StorageResult, Storage, Call, s3_key

-----------------------------------------------------------------------------
(* Every step keeps the types.                                              *)

\* The initial values have their types.
LEMMA InitType == Init => TypeOK
<1> SUFFICES ASSUME Init PROVE TypeOK
  OBVIOUS
<1>1. NoCall \in Call
  BY DEF NoCall, Call, LocalStorage, Storage
<1>2. published \in DOMAIN Publications
  BY FileAssumption DEF Init
<1> QED
  BY <1>1, <1>2, BoundAssumption DEF Init, TypeOK, Phases

\* A step of a call moves it on and leaves the rest of the processes alone.
LEMMA CallMoves ==
    ASSUME TypeOK, NEW w \in Workers, NEW c \in Call, NEW p \in Phases,
           call' = [call EXCEPT ![w] = c], phase' = [phase EXCEPT ![w] = p]
    PROVE  /\ phase' \in [Workers -> Phases]
           /\ call' \in [Workers -> Call]
BY DEF TypeOK

\* Every step keeps the types: a call uses what it has inspected, and its row,
\* only where it knows them.
LEMMA StepType == AcquisitionInv /\ [Next]_vars => TypeOK'
<1> SUFFICES ASSUME AcquisitionInv, [Next]_vars PROVE TypeOK'
  OBVIOUS
<1> USE FileAssumption, HostAssumption, BackendAssumption DEF TypeOK, Goto, store
<1>0. TypeOK
  BY DEF AcquisitionInv
<1>1. ASSUME NEW w \in Workers
      PROVE  call[w] \in Call /\ Landed(w) \in Files \cup {NoFile} /\ CallFits(w)
  BY <1>0, <1>1 DEF AcquisitionInv, Landed
<1>2. ASSUME NEW w \in Workers, Return(w)
      PROVE  phase' \in [Workers -> Phases] /\ call' \in [Workers -> Call]
  <2>1. NoCall \in Call /\ "idle" \in Phases
    BY NoCallType DEF Phases
  <2> QED
    BY <1>0, <1>2, <2>1 DEF Return
<1>3. ASSUME Fault PROVE faults' \in 0..MaxFaults
  BY <1>0, <1>3, BoundAssumption DEF Fault
<1>4. ASSUME NEW i \in DOMAIN source_files
      PROVE  /\ source_files[i] \in SourceFile
             /\ source_files[i].checksum \in Files /\ source_files[i].measured \in Files
             /\ source_files[i].storage \in Storage
             /\ i \in Nat
  <2>1. source_files[i] \in SourceFile /\ i \in Nat
    BY <1>0, <1>4, SMTT(20)
  <2> QED
    BY <2>1 DEF SourceFile
<1>5. ASSUME NEW w \in Workers, NEW c \in Call, NEW p \in Phases, calls < MaxCalls, Begin(w, c, p)
      PROVE  TypeOK'
  <2>1. calls' \in 0..MaxCalls
    BY <1>0, <1>5, BoundAssumption DEF Begin
  <2> QED
    BY <1>0, <1>5, <2>1 DEF Begin
<1>6. ASSUME NEW c \in Call, NEW i \in DOMAIN source_files PROVE Restoring(c, i) \in Call
  BY <1>4, <1>6 DEF Restoring, Call
<1>7. ASSUME NEW w \in Workers, Materialized(w)
      PROVE  phase' \in [Workers -> Phases] /\ call' \in [Workers -> Call]
  <2>1. [NoCall EXCEPT !.command = call[w].command, !.backend = call[w].backend] \in Call
    BY <1>1, NoCallType DEF Call
  <2> QED
    BY <1>0, <1>2, <1>7, <2>1, ZenonT(40) DEF Materialized, Phases
<1>8. ASSUME NEW command \in Commands, NEW status
      PROVE  AfterStore(command) \in Phases /\ AfterRegister(command, status) \in Phases
  BY DEF AfterStore, AfterRegister, Phases
<1>9. ASSUME NEW w \in Workers PROVE AfterStore(call[w].command) \in Phases
  BY DEF AfterStore, Phases
<1>10. CASE UNCHANGED vars
  BY <1>0, <1>10 DEF vars
<1>11. ASSUME NEW w \in Workers, NEW command \in {"fetch", "register", "ingest"},
              NEW backend \in Backends, BeginSource(w, command, backend)
       PROVE  TypeOK'
  <2>1. [NoCall EXCEPT !.command = command, !.backend = backend] \in Call
    BY <1>11, NoCallType DEF Call, Commands
  <2>2. calls < MaxCalls
    BY <1>11 DEF BeginSource, Begin
  <2> QED
    BY <1>5, <1>11, <2>1, <2>2 DEF BeginSource, Phases
<1>12. ASSUME NEW w \in Workers, BeginSync(w) PROVE TypeOK'
  <2>1. PICK todo \in {[i \in DOMAIN source_files |-> i]} \cup {<<i>> : i \in DOMAIN source_files} :
          Begin(w, [NoCall EXCEPT !.command = "sync", !.backend = "s3", !.todo = todo], "next")
    BY <1>12 DEF BeginSync
  <2>2. todo \in Seq(Nat)
    <3>1. [i \in DOMAIN source_files |-> i] \in Seq(Nat)
      BY <1>0
    <3>2. ASSUME NEW i \in DOMAIN source_files PROVE <<i>> \in Seq(Nat)
      BY <1>4, <3>2
    <3> QED
      BY <3>1, <3>2
  <2>3. [NoCall EXCEPT !.command = "sync", !.backend = "s3", !.todo = todo] \in Call
    BY <2>2, NoCallType DEF Call, Commands
  <2>4. calls < MaxCalls
    BY <2>1 DEF Begin
  <2> QED
    BY <1>5, <2>1, <2>3, <2>4 DEF Phases
<1>13. ASSUME NEW w \in Workers, BeginMaterialize(w) PROVE TypeOK'
  <2>1. PICK i \in DOMAIN source_files :
          Begin(w, Restoring([NoCall EXCEPT !.command = "materialize", !.backend = "s3"], i),
                "materialize")
    BY <1>13 DEF BeginMaterialize
  <2>2. [NoCall EXCEPT !.command = "materialize", !.backend = "s3"] \in Call
    BY NoCallType DEF Call, Commands
  <2>3. calls < MaxCalls
    BY <2>1 DEF Begin
  <2> QED
    BY <1>5, <1>6, <2>1, <2>2, <2>3 DEF Phases
<1>14. ASSUME NEW w \in Workers, Recover(w) PROVE TypeOK'
  <2>1. CASE UNCHANGED call
    BY <1>0, <1>14, <2>1 DEF Recover, Phases
  <2>2. CASE ~UNCHANGED call
    <3>1. PICK i \in DOMAIN source_files : /\ call' = [call EXCEPT ![w] = Restoring(call[w], i)]
                                          /\ Goto(w, "materialize")
                                          /\ UNCHANGED <<store, calls, faults>>
      BY <1>14, <2>2 DEF Recover
    <3>2. Restoring(call[w], i) \in Call
      BY <1>1, <1>6
    <3> QED
      BY <1>0, <3>1, <3>2 DEF Phases
  <2> QED
    BY <2>1, <2>2
<1>15. ASSUME NEW w \in Workers, FetchObject(w) PROVE TypeOK'
  <2>1. CASE Materialized(w) \/ Return(w)
    BY <1>0, <1>2, <1>7, <1>15, <2>1 DEF FetchObject
  <2>2. CASE ~(Materialized(w) \/ Return(w))
    <3> DEFINE uri == call[w].storage.uri
               partial == Last(objects[uri]).body
    <3>1. uri \in Files /\ objects[uri] # <<>>
      BY <1>15, <2>2 DEF FetchObject, Stored
    <3>2. partial \in Files
      <4>1. objects[uri] \in Seq(S3Object)
        BY <1>0, <3>1
      <4>2. Last(objects[uri]) \in S3Object
        BY <3>1, <4>1, LastType
      <4> QED
        BY <4>2 DEF S3Object
    <3>3. [call[w] EXCEPT !.partial = partial] \in Call
      BY <1>1, <3>2 DEF Call
    <3>4. /\ call' = [call EXCEPT ![w] = [call[w] EXCEPT !.partial = partial]]
          /\ Goto(w, "materialized")
          /\ UNCHANGED <<store, calls, faults>>
      BY <1>15, <2>2 DEF FetchObject
    <3> HIDE DEF partial
    <3> QED
      BY <1>0, <3>3, <3>4 DEF Phases
  <2> QED
    BY <2>1, <2>2
<1>16. ASSUME NEW w \in Workers, RestoreLanding(w) PROVE TypeOK'
  BY <1>0, <1>1, <1>2, <1>7, <1>16 DEF RestoreLanding, Call
<1>17. ASSUME NEW w \in Workers, EnsureLocal(w) PROVE TypeOK'
  <2>1. ASSUME NEW f \in Files PROVE [call[w] EXCEPT !.partial = f] \in Call
    BY <1>1, <2>1 DEF Call
  <2>2. Publications[published] \in Files
    BY <1>0
  <2>6. faults' \in 0..MaxFaults /\ UNCHANGED <<store, calls>>
    BY <1>0, <1>3, <1>17 DEF EnsureLocal
  <2>3. CASE Goto(w, "measure") /\ UNCHANGED call
    BY <1>0, <2>3, <2>6 DEF Phases
  <2>4. ASSUME NEW f \in Files, call' = [call EXCEPT ![w] = [call[w] EXCEPT !.partial = f]],
               Goto(w, "downloaded")
        PROVE  TypeOK'
    BY <1>0, <2>1, <2>4, <2>6 DEF Phases
  <2>5. CASE Return(w)
    BY <1>0, <1>2, <2>5, <2>6
  <2> QED
    BY <1>17, <2>2, <2>3, <2>4, <2>5 DEF EnsureLocal
<1>18. ASSUME NEW w \in Workers, ReplaceLanding(w) PROVE TypeOK'
  <2>1. [call[w] EXCEPT !.partial = NoFile] \in Call
    BY <1>1 DEF Call
  <2>2. call[w].partial \in Files
    BY <1>1, <1>18 DEF ReplaceLanding, CallFits, KnowsItsFile
  <2>3. /\ call' = [call EXCEPT ![w] = [call[w] EXCEPT !.partial = NoFile]]
        /\ landing' = [landing EXCEPT ![HostOf[w]] = call[w].partial]
        /\ Goto(w, "measure")
        /\ UNCHANGED <<published, objects, source_files, calls, faults>>
    BY <1>18 DEF ReplaceLanding
  <2> QED
    BY <1>0, <2>1, <2>2, <2>3 DEF Phases
<1>19. ASSUME NEW w \in Workers, MeasureSource(w) PROVE TypeOK'
  <2>1. Landed(w) # NoFile => [call[w] EXCEPT !.measured = Landed(w)] \in Call
    BY <1>1 DEF Call
  <2>2. CASE Return(w)
    BY <1>0, <1>2, <1>19, <2>2 DEF MeasureSource
  <2>3. CASE ~Return(w)
    <3>1. /\ Landed(w) # NoFile
          /\ call' = [call EXCEPT ![w] = [call[w] EXCEPT !.measured = Landed(w)]]
          /\ Goto(w, "count")
          /\ UNCHANGED <<store, calls, faults>>
      BY <1>19, <2>3 DEF MeasureSource
    <3> QED
      BY <1>0, <2>1, <3>1 DEF Phases
  <2> QED
    BY <2>2, <2>3
<1>36. ASSUME NEW w \in Workers, CountSource(w) PROVE TypeOK'
  <2>1. Landed(w) \in Readable => [call[w] EXCEPT !.counted = Landed(w)] \in Call
    BY <1>1 DEF Call
  <2>2. CASE Return(w)
    BY <1>0, <1>2, <1>36, <2>2 DEF CountSource
  <2>3. CASE ~Return(w)
    <3>1. /\ Landed(w) \in Readable
          /\ call' = [call EXCEPT ![w] = [call[w] EXCEPT !.counted = Landed(w)]]
          /\ Goto(w, "hash")
          /\ UNCHANGED <<store, calls, faults>>
      BY <1>36, <2>3 DEF CountSource
    <3> QED
      BY <1>0, <2>1, <3>1 DEF Phases
  <2> QED
    BY <2>2, <2>3
<1>20. ASSUME NEW w \in Workers, HashSource(w) PROVE TypeOK'
  <2>1. Landed(w) # NoFile => [call[w] EXCEPT !.checksum = Landed(w)] \in Call
    BY <1>1 DEF Call
  <2>2. CASE Return(w)
    BY <1>0, <1>2, <1>20, <2>2 DEF HashSource
  <2>3. CASE ~Return(w)
    BY <1>0, <1>20, <2>1, <2>3, ZenonT(40) DEF HashSource, Phases
  <2> QED
    BY <2>2, <2>3
<1>21. ASSUME NEW w \in Workers, VerifyLocal(w) PROVE TypeOK'
  <2>1. CASE Return(w)
    BY <1>0, <1>2, <1>21, <2>1 DEF VerifyLocal
  <2>2. CASE ~Return(w)
    BY <1>0, <1>9, <1>21, <2>2, ZenonT(40) DEF VerifyLocal, Phases
  <2> QED
    BY <2>1, <2>2
<1>22. ASSUME NEW w \in Workers, HeadObject(w) PROVE TypeOK'
  <2>1. CASE Goto(w, "put") /\ UNCHANGED call
    BY <1>0, <1>22, <2>1 DEF HeadObject, Phases
  <2>2. CASE Return(w)
    BY <1>0, <1>2, <1>22, <2>2 DEF HeadObject
  <2>3. CASE ~(Goto(w, "put") /\ UNCHANGED call) /\ ~Return(w)
    <3> DEFINE n == Len(objects[s3_key(call[w].checksum)])
    <3>1. /\ call' = [call EXCEPT ![w] = [call[w] EXCEPT !.version = n]]
          /\ Goto(w, AfterStore(call[w].command))
          /\ UNCHANGED <<store, calls, faults>>
      BY <1>22, <2>3 DEF HeadObject
    <3>2. call[w].checksum \in Files
      BY <1>1, <1>22 DEF HeadObject, CallFits, KnowsItsFile, Inspected
    <3>3. n \in Nat
      BY <1>0, <3>2, SMTT(20) DEF s3_key
    <3> HIDE DEF n
    <3>4. [call[w] EXCEPT !.version = n] \in Call
      BY <1>1, <3>3 DEF Call
    <3> QED
      BY <1>0, <1>9, <3>1, <3>4
  <2> QED
    BY <2>1, <2>2, <2>3
<1>23. ASSUME NEW w \in Workers, Upload(w)
       PROVE  /\ objects' \in [Files -> Seq(S3Object)]
              /\ Len(objects'[s3_key(call[w].checksum)]) \in Nat
  <2>1. call[w].checksum \in Files /\ Landed(w) \in Files
    BY <1>1, <1>23 DEF Upload, CallFits, KnowsItsFile, Inspected
  <2>2. [body |-> Landed(w), sha256 |-> call[w].checksum] \in S3Object
    BY <2>1 DEF S3Object
  <2>3. objects[call[w].checksum] \in Seq(S3Object)
    BY <1>0, <2>1
  <2> DEFINE versions == Append(objects[call[w].checksum],
                                [body |-> Landed(w), sha256 |-> call[w].checksum])
  <2>4. versions \in Seq(S3Object) /\ Len(versions) \in Nat
    BY <2>2, <2>3
  <2>5. objects' = [objects EXCEPT ![call[w].checksum] = versions]
    BY <1>23 DEF Upload, s3_key
  <2> HIDE DEF versions
  <2>6. objects'[call[w].checksum] = versions
    BY <1>0, <2>1, <2>5
  <2> QED
    BY <1>0, <2>4, <2>5, <2>6 DEF s3_key
<1>24. ASSUME NEW w \in Workers, PutObject(w) PROVE TypeOK'
  <2>1. CASE Return(w) /\ UNCHANGED store
    BY <1>0, <1>2, <1>24, <2>1 DEF PutObject
  <2>2. CASE Upload(w)
    <3> DEFINE n == Len(objects'[s3_key(call[w].checksum)])
    <3>1. /\ call' = [call EXCEPT ![w] = [call[w] EXCEPT !.version = n]]
          /\ Goto(w, "confirm")
          /\ UNCHANGED <<published, landing, source_files, calls, faults>>
      BY <1>24, <2>2 DEF PutObject, Upload
    <3>2. n \in Nat
      BY <1>23, <2>2
    <3> HIDE DEF n
    <3>3. [call[w] EXCEPT !.version = n] \in Call
      BY <1>1, <3>2 DEF Call
    <3> QED
      BY <1>0, <1>23, <2>2, <3>1, <3>3 DEF Phases
  <2> QED
    BY <1>24, <2>1, <2>2 DEF PutObject
<1>25. ASSUME NEW w \in Workers, PutInDoubt(w) PROVE TypeOK'
  BY <1>0, <1>2, <1>3, <1>23, <1>25 DEF PutInDoubt
<1>26. ASSUME NEW w \in Workers, ConfirmObject(w) PROVE TypeOK'
  <2>1. CASE Return(w)
    BY <1>0, <1>2, <1>26, <2>1 DEF ConfirmObject
  <2>2. CASE ~Return(w)
    BY <1>0, <1>9, <1>26, <2>2, ZenonT(40) DEF ConfirmObject
  <2> QED
    BY <2>1, <2>2
<1>27. ASSUME NEW w \in Workers, NEW status PROVE AfterRegister(call[w].command, status) \in Phases
  BY DEF AfterRegister, Phases
<1>28. ASSUME NEW w \in Workers, RegisterSource(w) PROVE TypeOK'
  <2> DEFINE c == call[w]
             known == KnownId(c.checksum)
             status == IF source_files = <<>> THEN "ready" ELSE "revision_detected"
             row == [checksum |-> c.checksum, measured |-> c.measured, status |-> status,
                     loaded |-> NoFile, storage |-> LocalStorage]
  <2>1. c.checksum \in Files /\ c.measured \in Files
    BY <1>1, <1>28 DEF RegisterSource, CallFits, KnowsItsFile, Inspected
  <2>2. row \in SourceFile
    BY <2>1, NewRowType
  <2>3. ASSUME NEW n \in Nat PROVE [c EXCEPT !.id = n] \in Call
    BY <1>1, <2>3 DEF Call
  <2>4. CASE known # 0
    <3>1. known \in Nat
      BY <1>0, <1>4, <2>4, IdOfFindsVersion DEF KnownId
    <3>2. /\ call' = [call EXCEPT ![w] = [c EXCEPT !.id = known]]
          /\ Goto(w, AfterRegister(c.command, source_files[known].status))
          /\ UNCHANGED <<source_files, published, landing, objects, calls, faults>>
      BY <1>28, <2>4 DEF RegisterSource
    <3> HIDE DEF known
    <3> QED
      BY <1>0, <1>27, <2>3, <3>1, <3>2
  <2>5. CASE known = 0
    <3>1. /\ source_files' = Append(source_files, row)
          /\ call' = [call EXCEPT ![w] = [c EXCEPT !.id = Len(source_files')]]
          /\ Goto(w, AfterRegister(c.command, row.status))
          /\ UNCHANGED <<published, landing, objects, calls, faults>>
      BY <1>28, <2>5 DEF RegisterSource
    <3>2. source_files' \in Seq(SourceFile) /\ Len(source_files') \in Nat
      BY <1>0, <2>2, <3>1
    <3> HIDE DEF row
    <3> QED
      BY <1>0, <1>27, <2>3, <3>1, <3>2
  <2> QED
    BY <2>4, <2>5
<1>29. ASSUME NEW w \in Workers, LoadSource(w) PROVE TypeOK'
  <2>1. CASE UNCHANGED source_files
    BY <1>0, <1>2, <1>29, <2>1 DEF LoadSource, Phases
  <2>2. CASE ~UNCHANGED source_files
    <3> DEFINE row == [source_files[call[w].id] EXCEPT !.status = "loaded", !.loaded = Landed(w)]
    <3>1. /\ Landed(w) \in Readable
          /\ source_files' = [source_files EXCEPT ![call[w].id] = row]
          /\ Goto(w, "persist")
          /\ UNCHANGED <<call, published, landing, objects, calls, faults>>
      BY <1>29, <2>2 DEF LoadSource
    <3>2. call[w].id \in DOMAIN source_files
      BY <1>1, <1>29 DEF LoadSource, CallFits, KnowsItsRow, RowPhases
    <3>3. row \in SourceFile
      BY <1>4, <3>1, <3>2 DEF SourceFile
    <3> HIDE DEF row
    <3>4. source_files' \in Seq(SourceFile)
      BY <1>0, <3>1, <3>2, <3>3, RowChanges
    <3> QED
      BY <1>0, <3>1, <3>4 DEF Phases
  <2> QED
    BY <2>1, <2>2
<1>30. ASSUME NEW w \in Workers, ReadStorage(w) PROVE TypeOK'
  <2> DEFINE s == source_files[call[w].id].storage
  <2>1. s \in Storage
    BY <1>1, <1>4, <1>30 DEF ReadStorage, CallFits, KnowsItsRow, RowPhases
  <2> HIDE DEF s
  <2>2. [call[w] EXCEPT !.storage = s] \in Call
    BY <1>1, <2>1 DEF Call
  <2>3. /\ \/ call' = [call EXCEPT ![w] = [call[w] EXCEPT !.storage = s]] /\ Goto(w, "flush")
           \/ UNCHANGED call /\ Goto(w, "next")
        /\ UNCHANGED <<store, calls, faults>>
    BY <1>30 DEF ReadStorage, s
  <2> QED
    BY <1>0, <2>2, <2>3, ZenonT(40) DEF Phases
<1>31. ASSUME NEW w \in Workers, FlushStorage(w) PROVE TypeOK'
  <2> DEFINE c == call[w]
             s == Flush(source_files[c.id].storage, c.storage, StorageResult(c))
  <2>1. c.id \in DOMAIN source_files /\ c.checksum \in Files
    BY <1>1, <1>31 DEF FlushStorage, CallFits, KnowsItsRow, KnowsItsFile, RowPhases, Inspected
  <2>2. s \in Storage
    <3>1. c.storage \in Storage
      BY <1>1 DEF Call
    <3>2. StorageResult(c) \in Storage
      BY <1>1, <2>1, ResultType
    <3>3. source_files[c.id].storage \in Storage
      BY <1>4, <2>1
    <3> QED
      BY <3>1, <3>2, <3>3, FlushType
  <2>3. /\ source_files' = [source_files EXCEPT ![c.id] = [source_files[c.id] EXCEPT !.storage = s]]
        /\ call' = [call EXCEPT ![w] = [c EXCEPT !.storage = LocalStorage]]
        /\ Goto(w, "next")
        /\ UNCHANGED <<published, landing, objects, calls, faults>>
    BY <1>31 DEF FlushStorage
  <2> HIDE DEF s
  <2>4. [source_files[c.id] EXCEPT !.storage = s] \in SourceFile
    BY <1>4, <2>1, <2>2 DEF SourceFile
  <2>5. [c EXCEPT !.storage = LocalStorage] \in Call
    <3>1. LocalStorage \in Storage
      BY DEF LocalStorage, Storage
    <3> QED
      BY <1>1, <3>1 DEF Call
  <2>6. source_files' \in Seq(SourceFile)
    BY <1>0, <2>1, <2>3, <2>4, RowChanges
  <2> QED
    BY <1>0, <2>3, <2>5, <2>6 DEF Phases
<1>32. ASSUME NEW w \in Workers, NextSource(w) PROVE TypeOK'
  <2> DEFINE todo == call[w].todo
             f == source_files[Head(todo)].checksum
             m == source_files[Head(todo)].measured
  <2>1. todo \in Seq(Nat)
    BY <1>1 DEF Call
  <2>5. todo # <<>> => Tail(todo) \in Seq(Nat)
    BY <2>1
  <2>2. CASE Return(w)
    BY <1>0, <1>2, <1>32, <2>2 DEF NextSource
  <2>3. CASE ~Return(w) /\ Landed(w) = NoFile
    <3>1. /\ todo # <<>>
          /\ call' = [call EXCEPT ![w] = [call[w] EXCEPT !.todo = Tail(todo)]]
          /\ UNCHANGED <<phase, store, calls, faults>>
      BY <1>32, <2>3 DEF NextSource
    <3>2. [call[w] EXCEPT !.todo = Tail(todo)] \in Call
      BY <1>1, <2>5, <3>1 DEF Call
    <3> QED
      BY <1>0, <3>1, <3>2
  <2>4. CASE ~Return(w) /\ Landed(w) # NoFile
    <3>1. /\ todo # <<>>
          /\ call' = [call EXCEPT ![w] =
                        [call[w] EXCEPT !.checksum = f, !.measured = m, !.id = Head(todo),
                                        !.version = 0, !.todo = Tail(todo)]]
          /\ Goto(w, "store")
          /\ UNCHANGED <<store, calls, faults>>
      BY <1>32, <2>4 DEF NextSource
    <3>2. Head(todo) \in DOMAIN source_files
      <4>1. 1 \in DOMAIN todo /\ Head(todo) = todo[1]
        BY <2>1, <3>1
      <4> QED
        BY <1>1, <4>1 DEF CallFits, KnowsItsRow
    <3>3. f \in Files /\ m \in Files /\ Head(todo) \in Nat
      BY <1>4, <3>2
    <3> HIDE DEF f, m
    <3>4. [call[w] EXCEPT !.checksum = f, !.measured = m, !.id = Head(todo),
                          !.version = 0, !.todo = Tail(todo)] \in Call
      BY <1>1, <2>5, <3>1, <3>3, ZenonT(40) DEF Call
    <3> QED
      BY <1>0, <3>1, <3>4 DEF Phases
  <2> QED
    BY <2>2, <2>3, <2>4
<1>33. ASSUME NEW w \in Workers, Abandon(w) PROVE TypeOK'
  BY <1>0, <1>2, <1>3, <1>33 DEF Abandon
<1>34. ASSUME NEW h \in Hosts, LoseLanding(h) PROVE TypeOK'
  BY <1>0, <1>3, <1>34 DEF LoseLanding
<1>35. CASE Republish
  <2>1. Publications \in Seq(Files \ {Truncated}) /\ published \in DOMAIN Publications
    BY <1>0
  <2>2. DOMAIN Publications = 1..Len(Publications) /\ Len(Publications) \in Nat
    BY <2>1
  <2>3. published' \in DOMAIN Publications
    BY <1>35, <2>1, <2>2 DEF Republish
  <2> QED
    BY <1>0, <1>35, <2>3 DEF Republish
<1> QED
  BY <1>10, <1>11, <1>12, <1>13, <1>14, <1>15, <1>16, <1>17, <1>18, <1>19, <1>20, <1>21,
     <1>22, <1>24, <1>25, <1>26, <1>28, <1>29, <1>30, <1>31, <1>32, <1>33, <1>34, <1>35,
     <1>36
  DEF Next, BeginCall, Proceed

-----------------------------------------------------------------------------
(* Every step keeps the rest of the invariant.                              *)

\* Rows are never removed, and a row keeps the file that it was registered for.
RowsAreKept ==
    /\ DOMAIN source_files \subseteq DOMAIN source_files'
    /\ \A i \in DOMAIN source_files :
          /\ source_files'[i].checksum = source_files[i].checksum
          /\ source_files'[i].measured = source_files[i].measured

OthersWait(w) ==
    \A v \in Workers \ {w} : phase'[v] = phase[v] /\ call'[v] = call[v]

\* What a registration does to the ledger: nothing, or a new local row at its
\* end; the call has the row.
LEMMA RegisterAddsRow ==
    ASSUME AcquisitionInv, NEW w \in Workers, RegisterSource(w)
    PROVE  /\ call[w].checksum \in Files /\ call[w].measured \in Files
           /\ phase'[w] \in {"load", "persist"}
           /\ call'[w] = [call[w] EXCEPT !.id = call'[w].id]
           /\ OthersWait(w)
           /\ call'[w].id \in DOMAIN source_files'
           /\ source_files'[call'[w].id].checksum = call[w].checksum
           /\ DOMAIN source_files \subseteq DOMAIN source_files'
           /\ \A i \in DOMAIN source_files : source_files'[i] = source_files[i]
           /\ \A i \in DOMAIN source_files' \ DOMAIN source_files :
                 /\ source_files'[i].checksum = call[w].checksum
                 /\ source_files'[i].measured = call[w].measured
                 /\ source_files'[i].storage = LocalStorage
                 /\ source_files'[i].status # "loaded"
<1> DEFINE c == call[w]
           known == KnownId(c.checksum)
           status == IF source_files = <<>> THEN "ready" ELSE "revision_detected"
           row == [checksum |-> c.checksum, measured |-> c.measured, status |-> status,
                   loaded |-> NoFile, storage |-> LocalStorage]
<1>1. /\ source_files \in Seq(SourceFile) /\ call \in [Workers -> Call]
      /\ phase \in [Workers -> Phases]
  BY DEF AcquisitionInv, TypeOK
<1>2. c \in Call /\ c.checksum \in Files /\ c.measured \in Files
  BY <1>1 DEF AcquisitionInv, RegisterSource, CallFits, KnowsItsFile, Inspected
<1>3. ASSUME NEW s PROVE AfterRegister(c.command, s) \in {"load", "persist"}
  BY DEF AfterRegister
<1>4. ASSUME NEW n \in Nat, call' = [call EXCEPT ![w] = [c EXCEPT !.id = n]]
      PROVE  /\ call'[w] = [c EXCEPT !.id = call'[w].id] /\ call'[w].id = n
             /\ \A v \in Workers \ {w} : call'[v] = call[v]
  <2>1. [c EXCEPT !.id = n].id = n
    BY <1>2 DEF Call
  <2> QED
    BY <1>1, <1>4, <2>1
<1>5. CASE known # 0
  <2>1. known \in DOMAIN source_files /\ source_files[known].checksum = c.checksum
    BY <1>1, <1>5, IdOfFindsVersion DEF KnownId
  <2>2. /\ call' = [call EXCEPT ![w] = [c EXCEPT !.id = known]]
        /\ phase' = [phase EXCEPT ![w] = AfterRegister(c.command, source_files[known].status)]
        /\ UNCHANGED source_files
    BY <1>5 DEF RegisterSource, Goto
  <2>3. known \in Nat
    BY <1>1, <2>1
  <2> HIDE DEF known
  <2> QED
    BY <1>1, <1>2, <1>3, <1>4, <2>1, <2>2, <2>3 DEF OthersWait
<1>6. CASE known = 0
  <2>1. /\ source_files' = Append(source_files, row)
        /\ call' = [call EXCEPT ![w] = [c EXCEPT !.id = Len(source_files')]]
        /\ phase' = [phase EXCEPT ![w] = AfterRegister(c.command, row.status)]
    BY <1>6 DEF RegisterSource, Goto
  <2>2. row \in SourceFile
    BY <1>2, NewRowType, FileAssumption
  <2>3. row.checksum = c.checksum /\ row.measured = c.measured /\ row.storage = LocalStorage
        /\ row.status # "loaded"
    OBVIOUS
  <2> HIDE DEF row
  <2>4. /\ Len(source_files') = Len(source_files) + 1
        /\ DOMAIN source_files' = DOMAIN source_files \cup {Len(source_files')}
        /\ Len(source_files') \in Nat
        /\ source_files'[Len(source_files')] = row
        /\ \A i \in DOMAIN source_files : source_files'[i] = source_files[i]
    BY <1>1, <2>1, <2>2
  <2> QED
    BY <1>1, <1>2, <1>3, <1>4, <2>1, <2>3, <2>4 DEF OthersWait
<1> QED
  BY <1>5, <1>6

\* What a load does to the ledger: nothing, or its row is loaded with what is
\* at the landing path.
LEMMA LoadFillsRow ==
    ASSUME AcquisitionInv, NEW w \in Workers, LoadSource(w)
    PROVE  /\ call[w].id \in DOMAIN source_files
           /\ \/ Return(w) /\ UNCHANGED source_files
              \/ /\ phase' = [phase EXCEPT ![w] = "persist"] /\ UNCHANGED call
                 /\ Landed(w) \in Readable
                 /\ DOMAIN source_files' = DOMAIN source_files
                 /\ \A i \in DOMAIN source_files :
                       source_files'[i] = IF i = call[w].id
                                          THEN [source_files[i] EXCEPT !.status = "loaded",
                                                                       !.loaded = Landed(w)]
                                          ELSE source_files[i]
           /\ RowsAreKept
<1>1. source_files \in Seq(SourceFile)
  BY DEF AcquisitionInv, TypeOK
<1>2. call[w].id \in DOMAIN source_files
  BY DEF AcquisitionInv, LoadSource, CallFits, KnowsItsRow, RowPhases
<1>3. CASE UNCHANGED source_files /\ Return(w)
  BY <1>2, <1>3 DEF RowsAreKept
<1>4. CASE ~(UNCHANGED source_files /\ Return(w))
  <2> DEFINE row == [source_files[call[w].id] EXCEPT !.status = "loaded", !.loaded = Landed(w)]
  <2>1. /\ Landed(w) \in Readable
        /\ source_files' = [source_files EXCEPT ![call[w].id] = row]
        /\ phase' = [phase EXCEPT ![w] = "persist"] /\ UNCHANGED call
    BY <1>4 DEF LoadSource, Goto
  <2>2. source_files[call[w].id] \in SourceFile
    BY <1>1, <1>2
  <2>3. row \in SourceFile /\ row.checksum = source_files[call[w].id].checksum
        /\ row.measured = source_files[call[w].id].measured
    BY <2>1, <2>2, FileAssumption DEF SourceFile
  <2>4. /\ DOMAIN source_files' = DOMAIN source_files
        /\ \A i \in DOMAIN source_files :
              source_files'[i] = IF i = call[w].id THEN row ELSE source_files[i]
    <3> HIDE DEF row
    <3> QED
      BY <1>1, <1>2, <2>1, <2>3, RowChanges
  <2>5. RowsAreKept
    <3> HIDE DEF row
    <3> QED
      BY <1>2, <2>3, <2>4 DEF RowsAreKept
  <2> QED
    BY <1>2, <2>1, <2>4, <2>5
<1> QED
  BY <1>3, <1>4

\* What the UPDATE of the storage columns does to the ledger.
LEMMA FlushWritesStorage ==
    ASSUME AcquisitionInv, NEW w \in Workers, FlushStorage(w)
    PROVE  LET c == call[w]
               s == Flush(source_files[c.id].storage, c.storage, StorageResult(c))
           IN  /\ c.id \in DOMAIN source_files /\ c.checksum \in Files
               /\ source_files[c.id].checksum = c.checksum
               /\ s = [backend |-> IF c.backend = c.storage.backend
                                   THEN source_files[c.id].storage.backend ELSE c.backend,
                       uri |-> IF StorageResult(c).uri = c.storage.uri
                               THEN source_files[c.id].storage.uri ELSE StorageResult(c).uri,
                       version |-> IF c.version = c.storage.version
                                   THEN source_files[c.id].storage.version ELSE c.version,
                       stored_at |-> c.backend]
               /\ DOMAIN source_files' = DOMAIN source_files
               /\ \A i \in DOMAIN source_files :
                     source_files'[i] = IF i = c.id THEN [source_files[i] EXCEPT !.storage = s]
                                        ELSE source_files[i]
               /\ source_files'[c.id].storage = s
               /\ RowsAreKept
<1> DEFINE c == call[w]
           s == Flush(source_files[c.id].storage, c.storage, StorageResult(c))
           row == [source_files[c.id] EXCEPT !.storage = s]
<1>1. source_files \in Seq(SourceFile) /\ c \in Call
  BY DEF AcquisitionInv, TypeOK
<1>2. /\ c.id \in DOMAIN source_files /\ c.checksum \in Files
      /\ source_files[c.id].checksum = c.checksum
  BY DEF AcquisitionInv, FlushStorage, CallFits, KnowsItsRow, KnowsItsFile, RowPhases, Inspected
<1>3. c.storage \in Storage /\ source_files[c.id] \in SourceFile
  BY <1>1, <1>2 DEF Call
<1>4. source_files[c.id].storage \in Storage /\ StorageResult(c) \in Storage
  BY <1>1, <1>2, <1>3, ResultType DEF SourceFile
<1>5. /\ s \in Storage
      /\ s = [backend |-> IF StorageResult(c).backend = c.storage.backend
                          THEN source_files[c.id].storage.backend ELSE StorageResult(c).backend,
              uri |-> IF StorageResult(c).uri = c.storage.uri
                      THEN source_files[c.id].storage.uri ELSE StorageResult(c).uri,
              version |-> IF StorageResult(c).version = c.storage.version
                          THEN source_files[c.id].storage.version ELSE StorageResult(c).version,
              stored_at |-> StorageResult(c).stored_at]
  <2> DEFINE current == source_files[c.id].storage
             read == c.storage
             result == StorageResult(c)
  <2>1. current \in Storage /\ read \in Storage /\ result \in Storage
    BY <1>3, <1>4
  <2> HIDE DEF current, read, result
  <2>2. /\ Flush(current, read, result) \in Storage
        /\ Flush(current, read, result) =
             [backend |-> IF result.backend = read.backend THEN current.backend ELSE result.backend,
              uri |-> IF result.uri = read.uri THEN current.uri ELSE result.uri,
              version |-> IF result.version = read.version THEN current.version ELSE result.version,
              stored_at |-> result.stored_at]
    BY <2>1, FlushType
  <2> QED
    BY <2>2 DEF current, read, result
<1>6. /\ StorageResult(c).backend = c.backend /\ StorageResult(c).version = c.version
      /\ StorageResult(c).stored_at = c.backend
  BY DEF StorageResult
<1>7. source_files' = [source_files EXCEPT ![c.id] = row]
  BY DEF FlushStorage
<1> HIDE DEF s
<1>8. row \in SourceFile /\ row.checksum = source_files[c.id].checksum
      /\ row.measured = source_files[c.id].measured /\ row.storage = s
  BY <1>3, <1>5 DEF SourceFile
<1>9. /\ DOMAIN source_files' = DOMAIN source_files
      /\ \A i \in DOMAIN source_files :
            source_files'[i] = IF i = c.id THEN row ELSE source_files[i]
  <2> HIDE DEF row
  <2> QED
    BY <1>1, <1>2, <1>7, <1>8, RowChanges
<1>10. RowsAreKept
  <2> HIDE DEF row
  <2> QED
    BY <1>2, <1>8, <1>9 DEF RowsAreKept
<1>11. source_files'[c.id].storage = s
  BY <1>2, <1>8, <1>9
<1> QED
  BY <1>2, <1>5, <1>6, <1>9, <1>10, <1>11 DEF s

\* What steps change the ledger.
LEMMA LedgerChanges ==
    [Next]_vars => \/ UNCHANGED source_files
                   \/ \E w \in Workers : RegisterSource(w) \/ LoadSource(w) \/ FlushStorage(w)
BY ZenonT(40) DEF Next, vars, store, Proceed, BeginCall, BeginSource, BeginSync,
   BeginMaterialize, Begin,
       Recover, FetchObject, RestoreLanding, EnsureLocal, ReplaceLanding, MeasureSource,
       CountSource,
       HashSource, VerifyLocal, HeadObject, PutObject, PutInDoubt, ConfirmObject, ReadStorage,
       NextSource, Abandon, LoseLanding, Republish

\* Every step keeps the rows.
LEMMA LedgerGrows == AcquisitionInv /\ [Next]_vars => RowsAreKept
<1> SUFFICES ASSUME AcquisitionInv, [Next]_vars PROVE RowsAreKept
  OBVIOUS
<1>1. CASE UNCHANGED source_files
  BY <1>1 DEF RowsAreKept
<1>2. ASSUME NEW w \in Workers, RegisterSource(w) PROVE RowsAreKept
  BY <1>2, RegisterAddsRow DEF RowsAreKept
<1>3. ASSUME NEW w \in Workers, LoadSource(w) PROVE RowsAreKept
  BY <1>3, LoadFillsRow
<1>4. ASSUME NEW w \in Workers, FlushStorage(w) PROVE RowsAreKept
  BY <1>4, FlushWritesStorage
<1>5. \/ UNCHANGED source_files
      \/ \E w \in Workers : RegisterSource(w) \/ LoadSource(w) \/ FlushStorage(w)
  BY LedgerChanges
<1> QED
  BY <1>1, <1>2, <1>3, <1>4, <1>5

\* A call that waits still fits.
LEMMA WaitingCallFits ==
    ASSUME AcquisitionInv, RowsAreKept, NEW v \in Workers,
           phase'[v] = phase[v], call'[v] = call[v]
    PROVE  CallFits(v)'
<1>1. CallFits(v)
  BY DEF AcquisitionInv
<1>2. KnowsItsFile(v)' /\ IsOfOneBackend(v)'
  BY <1>1 DEF CallFits, KnowsItsFile, IsOfOneBackend
<1>3. KnowsItsRow(v)'
  BY <1>1 DEF CallFits, KnowsItsRow, RowsAreKept
<1> QED
  BY <1>2, <1>3 DEF CallFits

\* Every call fits the point it has reached.
LEMMA StepFits ==
    AcquisitionInv /\ [Next]_vars => \A w \in Workers : CallFits(w)'
<1> SUFFICES ASSUME AcquisitionInv, [Next]_vars PROVE \A w \in Workers : CallFits(w)'
  OBVIOUS
<1> USE DEF Goto, store
<1>0. /\ TypeOK /\ phase \in [Workers -> Phases] /\ call \in [Workers -> Call]
      /\ source_files \in Seq(SourceFile)
  BY DEF AcquisitionInv, TypeOK
<1>1. RowsAreKept
  BY LedgerGrows
<1>2. ASSUME NEW w \in Workers, OthersWait(w), CallFits(w)' PROVE \A v \in Workers : CallFits(v)'
  <2>1. ASSUME NEW v \in Workers, v # w PROVE CallFits(v)'
    BY <1>1, <1>2, <2>1, WaitingCallFits DEF OthersWait
  <2> QED
    BY <1>2, <2>1
<1>3. ASSUME NEW w \in Workers
      PROVE  call[w] \in Call /\ KnowsItsFile(w) /\ KnowsItsRow(w) /\ IsOfOneBackend(w)
  BY <1>0 DEF AcquisitionInv, CallFits
<1>4. ASSUME NEW w \in Workers, NEW c \in Call, NEW p,
             c.todo = <<>>, c.version = 0, c.command # "sync",
             p \notin Inspected \cup {"count", "hash", "downloaded"},
             call' = [call EXCEPT ![w] = c], phase' = [phase EXCEPT ![w] = p]
      PROVE  \A v \in Workers : CallFits(v)'
  <2>1. /\ OthersWait(w) /\ call'[w] = c /\ phase'[w] = p
    BY <1>0, <1>4 DEF OthersWait
  <2>2. CallFits(w)'
    BY <1>4, <2>1 DEF CallFits, KnowsItsFile, KnowsItsRow, IsOfOneBackend, Inspected, RowPhases,
                      StoredPhases, FreshPhases
  <2> QED
    BY <1>2, <2>1, <2>2
<1>5. ASSUME NEW w \in Workers, Return(w) PROVE \A v \in Workers : CallFits(v)'
  <2>1. NoCall.todo = <<>> /\ NoCall.version = 0 /\ NoCall.command # "sync"
    BY DEF NoCall
  <2> QED
    BY <1>4, <1>5, <2>1, NoCallType DEF Return, Inspected
<1>6. ASSUME NEW w \in Workers, Materialized(w), phase[w] \in {"materialize", "materialized"}
      PROVE  \A v \in Workers : CallFits(v)'
  <2> DEFINE c == [NoCall EXCEPT !.command = call[w].command, !.backend = call[w].backend]
  <2>1. c \in Call
    BY <1>3, NoCallType DEF Call
  <2>2. c.todo = <<>> /\ c.version = 0 /\ c.command = call[w].command
    BY DEF NoCall
  <2>3. CASE Return(w)
    BY <1>5, <2>3
  <2>4. CASE ~Return(w)
    <3>1. call' = [call EXCEPT ![w] = c] /\ phase' = [phase EXCEPT ![w] = "ensure"]
      BY <1>6, <2>4 DEF Materialized
    <3> HIDE DEF c
    <3> QED
      BY <1>3, <1>4, <1>6, <2>1, <2>2, <3>1 DEF Inspected, KnowsItsRow, SyncPhases
  <2> QED
    BY <2>3, <2>4
<1>7. ASSUME NEW i \in DOMAIN source_files
      PROVE  /\ source_files[i] \in SourceFile
             /\ source_files[i].checksum \in Files /\ source_files[i].measured \in Files
             /\ source_files[i].storage \in Storage
             /\ RecordsObject(source_files[i].storage, source_files[i].checksum)
  <2>1. source_files[i] \in SourceFile
    BY <1>0, <1>7
  <2> QED
    BY <1>7, <2>1 DEF SourceFile, AcquisitionInv, RowsAreOfOneBackend
\* A call that restores the file of row i.
<1>8. ASSUME NEW w \in Workers, NEW c \in Call, NEW i \in DOMAIN source_files,
             \A n \in DOMAIN c.todo : c.todo[n] \in DOMAIN source_files, c.command # "sync",
             call' = [call EXCEPT ![w] = Restoring(c, i)],
             phase' = [phase EXCEPT ![w] = "materialize"]
      PROVE  \A v \in Workers : CallFits(v)'
  <2>1. /\ OthersWait(w) /\ call'[w] = Restoring(c, i) /\ phase'[w] = "materialize"
    BY <1>0, <1>8 DEF OthersWait
  <2>2. /\ Restoring(c, i).checksum \in Files /\ Restoring(c, i).measured \in Files
        /\ Restoring(c, i).todo = c.todo /\ Restoring(c, i).command = c.command
    BY <1>7, <1>8 DEF Restoring, Call
  <2>3. CallFits(w)'
    BY <1>1, <1>8, <2>1, <2>2 DEF CallFits, KnowsItsFile, KnowsItsRow, IsOfOneBackend,
                                     Inspected, RowPhases, StoredPhases, FreshPhases, RowsAreKept
  <2> QED
    BY <1>2, <2>1, <2>3
\* A call that only moves to another point.
<1>9. ASSUME NEW w \in Workers, NEW p, phase' = [phase EXCEPT ![w] = p], call' = call,
             KnowsItsFile(w)', KnowsItsRow(w)', IsOfOneBackend(w)'
      PROVE  \A v \in Workers : CallFits(v)'
  <2>1. OthersWait(w)
    BY <1>0, <1>9 DEF OthersWait
  <2> QED
    BY <1>2, <1>9, <2>1 DEF CallFits
<1>10. CASE UNCHANGED vars
  BY <1>1, <1>10, WaitingCallFits DEF vars
<1>11. ASSUME NEW w \in Workers, NEW command \in {"fetch", "register", "ingest"},
              NEW backend \in Backends, BeginSource(w, command, backend)
       PROVE  \A v \in Workers : CallFits(v)'
  <2> DEFINE c == [NoCall EXCEPT !.command = command, !.backend = backend]
             p == IF backend = "s3" /\ Landed(w) = NoFile THEN "recover" ELSE "ensure"
  <2>1. c \in Call
    BY <1>11, NoCallType, BackendAssumption DEF Call, Commands
  <2>2. c.todo = <<>> /\ c.version = 0 /\ c.command # "sync"
    BY DEF NoCall
  <2>3. p \notin Inspected \cup {"count", "hash", "downloaded"}
    BY DEF Inspected
  <2>4. call' = [call EXCEPT ![w] = c] /\ phase' = [phase EXCEPT ![w] = p]
    BY <1>11 DEF BeginSource, Begin
  <2> HIDE DEF c, p
  <2> QED
    BY <1>4, <2>1, <2>2, <2>3, <2>4
<1>12. ASSUME NEW w \in Workers, BeginSync(w) PROVE \A v \in Workers : CallFits(v)'
  <2>1. PICK todo \in {[i \in DOMAIN source_files |-> i]} \cup {<<i>> : i \in DOMAIN source_files} :
          Begin(w, [NoCall EXCEPT !.command = "sync", !.backend = "s3", !.todo = todo], "next")
    BY <1>12 DEF BeginSync
  <2> DEFINE c == [NoCall EXCEPT !.command = "sync", !.backend = "s3", !.todo = todo]
  <2>2. \A n \in DOMAIN todo : todo[n] \in DOMAIN source_files
    OBVIOUS
  <2>3. c.todo = todo
    BY DEF NoCall
  <2>4. OthersWait(w) /\ call'[w] = c /\ phase'[w] = "next"
    BY <1>0, <2>1 DEF Begin, OthersWait
  <2> HIDE DEF c
  <2>5. KnowsItsRow(w)'
    BY <1>1, <2>2, <2>3, <2>4 DEF KnowsItsRow, RowPhases, SyncPhases, RowsAreKept
  <2>6. KnowsItsFile(w)' /\ IsOfOneBackend(w)'
    BY <2>4 DEF KnowsItsFile, IsOfOneBackend, Inspected, StoredPhases, FreshPhases
  <2> QED
    BY <1>2, <2>4, <2>5, <2>6 DEF CallFits
<1>13. ASSUME NEW w \in Workers, BeginMaterialize(w) PROVE \A v \in Workers : CallFits(v)'
  <2> DEFINE c == [NoCall EXCEPT !.command = "materialize", !.backend = "s3"]
  <2>1. PICK i \in DOMAIN source_files :
          /\ call' = [call EXCEPT ![w] = Restoring(c, i)]
          /\ phase' = [phase EXCEPT ![w] = "materialize"]
    BY <1>13 DEF BeginMaterialize, Begin
  <2>2. c \in Call
    BY NoCallType DEF Call, Commands
  <2>3. c.command # "sync" /\ \A n \in DOMAIN c.todo : c.todo[n] \in DOMAIN source_files
    BY DEF NoCall
  <2> HIDE DEF c
  <2> QED
    BY <1>8, <2>1, <2>2, <2>3
<1>14. ASSUME NEW w \in Workers, Recover(w) PROVE \A v \in Workers : CallFits(v)'
  <2>1. CASE UNCHANGED call
    <3>1. phase[w] = "recover" /\ phase' = [phase EXCEPT ![w] = phase'[w]]
          /\ phase'[w] \in {"ensure", "materialize"}
      BY <1>0, <1>14 DEF Recover
    <3>2. CASE phase'[w] = "ensure"
      BY <1>1, <1>3, <1>9, <2>1, <3>1, <3>2
      DEF KnowsItsFile, KnowsItsRow, IsOfOneBackend, Inspected, RowPhases, StoredPhases,
          FreshPhases, SyncPhases, RowsAreKept
    <3>3. CASE phase'[w] = "materialize"
      <4>1. PICK i \in DOMAIN source_files : /\ call' = [call EXCEPT ![w] = Restoring(call[w], i)]
                                            /\ phase' = [phase EXCEPT ![w] = "materialize"]
        BY <1>0, <1>14, <3>3 DEF Recover
      <4> QED
        BY <1>3, <1>8, <3>1, <4>1 DEF KnowsItsRow, SyncPhases
    <3> QED
      BY <3>1, <3>2, <3>3
  <2>2. CASE ~UNCHANGED call
    <3>1. PICK i \in DOMAIN source_files : /\ call' = [call EXCEPT ![w] = Restoring(call[w], i)]
                                          /\ phase' = [phase EXCEPT ![w] = "materialize"]
      BY <1>14, <2>2 DEF Recover
    <3> QED
      BY <1>3, <1>8, <1>14, <3>1 DEF KnowsItsRow, SyncPhases, Recover
  <2> QED
    BY <2>1, <2>2
<1>15. ASSUME NEW w \in Workers, FetchObject(w) PROVE \A v \in Workers : CallFits(v)'
  <2>1. CASE Materialized(w) \/ Return(w)
    BY <1>5, <1>6, <1>15, <2>1 DEF FetchObject
  <2>2. CASE ~(Materialized(w) \/ Return(w))
    <3> DEFINE uri == call[w].storage.uri
               partial == Last(objects[uri]).body
    <3>1. uri \in Files /\ objects[uri] # <<>>
      BY <1>15, <2>2 DEF FetchObject, Stored
    <3>2. partial \in Files
      <4>1. objects[uri] \in Seq(S3Object)
        BY <1>0, <3>1 DEF TypeOK
      <4>2. Last(objects[uri]) \in S3Object
        BY <3>1, <4>1, LastType
      <4> QED
        BY <4>2 DEF S3Object
    <3>3. /\ phase[w] = "materialize"
          /\ call' = [call EXCEPT ![w] = [call[w] EXCEPT !.partial = partial]]
          /\ phase' = [phase EXCEPT ![w] = "materialized"]
      BY <1>15, <2>2 DEF FetchObject
    <3> HIDE DEF partial
    <3>4. OthersWait(w) /\ call'[w] = [call[w] EXCEPT !.partial = partial]
          /\ phase'[w] = "materialized"
      BY <1>0, <3>3 DEF OthersWait
    <3>5. /\ call'[w].partial = partial /\ call'[w].checksum = call[w].checksum
          /\ call'[w].command = call[w].command /\ call'[w].measured = call[w].measured /\ call'[w].todo = call[w].todo
      BY <1>3, <3>4 DEF Call
    <3>6. CallFits(w)'
      BY <1>1, <1>3, <3>2, <3>3, <3>4, <3>5
      DEF CallFits, KnowsItsFile, KnowsItsRow, IsOfOneBackend, Inspected, RowPhases, StoredPhases,
          FreshPhases, SyncPhases, RowsAreKept
    <3> QED
      BY <1>2, <3>4, <3>6
  <2> QED
    BY <2>1, <2>2
<1>16. ASSUME NEW w \in Workers, RestoreLanding(w) PROVE \A v \in Workers : CallFits(v)'
  BY <1>5, <1>6, <1>16 DEF RestoreLanding
<1>17. ASSUME NEW w \in Workers, EnsureLocal(w) PROVE \A v \in Workers : CallFits(v)'
  <2>1. Publications[published] \in Files
    BY <1>0, FileAssumption DEF TypeOK
  <2>2. CASE phase'[w] = "measure"
    <3>1. phase[w] = "ensure" /\ call' = call /\ phase' = [phase EXCEPT ![w] = "measure"]
      <4>1. ~Goto(w, "downloaded") /\ ~Return(w)
        BY <1>0, <2>2 DEF Return
      <4> QED
        BY <1>17, <4>1, Zenon DEF EnsureLocal
    <3>2. phase'[w] = "measure"
      BY <2>2
    <3> QED
      BY <1>1, <1>3, <1>9, <3>1, <3>2
      DEF KnowsItsFile, KnowsItsRow, IsOfOneBackend, Inspected, RowPhases, StoredPhases,
          FreshPhases, SyncPhases, RowsAreKept
  <2>4. CASE Return(w)
    BY <1>5, <2>4
  <2>3. CASE phase'[w] # "measure" /\ ~Return(w)
    <3>1. PICK f \in Files : /\ call' = [call EXCEPT ![w] = [call[w] EXCEPT !.partial = f]]
                            /\ phase' = [phase EXCEPT ![w] = "downloaded"]
      BY <1>0, <1>17, <2>1, <2>3, FileAssumption DEF EnsureLocal
    <3>2. phase[w] = "ensure"
      BY <1>17 DEF EnsureLocal
    <3>3. /\ [call[w] EXCEPT !.partial = f].partial = f
          /\ [call[w] EXCEPT !.partial = f].command = call[w].command
      BY <1>3 DEF Call
    <3>4. OthersWait(w) /\ call'[w] = [call[w] EXCEPT !.partial = f] /\ phase'[w] = "downloaded"
      BY <1>0, <3>1 DEF OthersWait
    <3>5. CallFits(w)'
      BY <1>1, <1>3, <3>2, <3>3, <3>4
      DEF CallFits, KnowsItsFile, KnowsItsRow, IsOfOneBackend, Inspected, RowPhases, StoredPhases,
          FreshPhases, SyncPhases, RowsAreKept
    <3> QED
      BY <1>2, <3>4, <3>5
  <2> QED
    BY <2>2, <2>3, <2>4
<1>18. ASSUME NEW w \in Workers, ReplaceLanding(w) PROVE \A v \in Workers : CallFits(v)'
  <2>1. /\ phase[w] = "downloaded"
        /\ call' = [call EXCEPT ![w] = [call[w] EXCEPT !.partial = NoFile]]
        /\ phase' = [phase EXCEPT ![w] = "measure"]
    BY <1>18 DEF ReplaceLanding
  <2>2. /\ OthersWait(w) /\ call'[w] = [call[w] EXCEPT !.partial = NoFile]
        /\ phase'[w] = "measure"
    BY <1>0, <2>1 DEF OthersWait
  <2>3. CallFits(w)'
    BY <1>1, <1>3, <2>1, <2>2
    DEF CallFits, KnowsItsFile, KnowsItsRow, IsOfOneBackend, Inspected, RowPhases, StoredPhases,
        FreshPhases, SyncPhases, RowsAreKept
  <2> QED
    BY <1>2, <2>2, <2>3
<1>19. ASSUME NEW w \in Workers, MeasureSource(w) PROVE \A v \in Workers : CallFits(v)'
  <2>1. CASE Return(w)
    BY <1>5, <2>1
  <2>2. CASE ~Return(w)
    <3> DEFINE f == Landed(w)
    <3>1. /\ phase[w] = "measure" /\ f \in Files
          /\ call' = [call EXCEPT ![w] = [call[w] EXCEPT !.measured = f]]
          /\ phase' = [phase EXCEPT ![w] = "count"]
      BY <1>0, <1>19, <2>2, HostAssumption DEF MeasureSource, TypeOK, Landed
    <3> HIDE DEF f
    <3>2. OthersWait(w) /\ call'[w] = [call[w] EXCEPT !.measured = f] /\ phase'[w] = "count"
      BY <1>0, <3>1 DEF OthersWait
    <3>3. /\ call'[w].measured = f /\ call'[w].todo = call[w].todo
          /\ call'[w].command = call[w].command
          /\ call'[w].version = call[w].version /\ call'[w].backend = call[w].backend
      BY <1>3, <3>2 DEF Call
    <3>4. CallFits(w)'
      BY <1>1, <1>3, <3>1, <3>2, <3>3
      DEF CallFits, KnowsItsFile, KnowsItsRow, IsOfOneBackend, Inspected, RowPhases, StoredPhases,
          FreshPhases, SyncPhases, RowsAreKept
    <3> QED
      BY <1>2, <3>2, <3>4
  <2> QED
    BY <2>1, <2>2
<1>36. ASSUME NEW w \in Workers, CountSource(w) PROVE \A v \in Workers : CallFits(v)'
  <2>1. CASE Return(w)
    BY <1>5, <2>1
  <2>2. CASE ~Return(w)
    <3> DEFINE f == Landed(w)
    <3>1. /\ phase[w] = "count" /\ f \in Files
          /\ call' = [call EXCEPT ![w] = [call[w] EXCEPT !.counted = f]]
          /\ phase' = [phase EXCEPT ![w] = "hash"]
      BY <1>36, <2>2, FileAssumption DEF CountSource
    <3> HIDE DEF f
    <3>2. OthersWait(w) /\ call'[w] = [call[w] EXCEPT !.counted = f] /\ phase'[w] = "hash"
      BY <1>0, <3>1 DEF OthersWait
    <3>3. /\ call'[w].measured = call[w].measured /\ call'[w].todo = call[w].todo
          /\ call'[w].command = call[w].command
          /\ call'[w].version = call[w].version /\ call'[w].backend = call[w].backend
      BY <1>3, <3>2 DEF Call
    <3>4. CallFits(w)'
      BY <1>1, <1>3, <3>1, <3>2, <3>3
      DEF CallFits, KnowsItsFile, KnowsItsRow, IsOfOneBackend, Inspected, RowPhases, StoredPhases,
          FreshPhases, SyncPhases, RowsAreKept
    <3> QED
      BY <1>2, <3>2, <3>4
  <2> QED
    BY <2>1, <2>2

<1>20. ASSUME NEW w \in Workers, HashSource(w) PROVE \A v \in Workers : CallFits(v)'
  <2>1. CASE Return(w)
    BY <1>5, <2>1
  <2>2. CASE ~Return(w)
    <3> DEFINE f == Landed(w)
    <3>1. /\ phase[w] = "hash" /\ f # NoFile
          /\ call' = [call EXCEPT ![w] = [call[w] EXCEPT !.checksum = f]]
          /\ phase' = [phase EXCEPT ![w] = "store"]
          /\ UNCHANGED source_files
      BY <1>20, <2>2 DEF HashSource
    <3>2. f \in Files
      BY <1>0, <3>1, HostAssumption DEF TypeOK, Landed
    <3> HIDE DEF f
    <3>3. OthersWait(w) /\ call'[w] = [call[w] EXCEPT !.checksum = f] /\ phase'[w] = "store"
      BY <1>0, <3>1 DEF OthersWait
    <3>4. /\ call'[w].checksum = f /\ call'[w].todo = call[w].todo
          /\ call'[w].measured = call[w].measured /\ call'[w].command = call[w].command
          /\ call'[w].version = call[w].version /\ call'[w].backend = call[w].backend
      BY <1>3, <3>3 DEF Call
    <3>5. KnowsItsFile(w)' /\ IsOfOneBackend(w)'
      BY <1>3, <3>1, <3>2, <3>3, <3>4
      DEF KnowsItsFile, IsOfOneBackend, Inspected, StoredPhases, FreshPhases
    <3>6. KnowsItsRow(w)'
      BY <1>3, <3>1, <3>3, <3>4 DEF KnowsItsRow, RowPhases, SyncPhases
    <3> QED
      BY <1>2, <3>3, <3>5, <3>6 DEF CallFits
  <2> QED
    BY <2>1, <2>2
<1>21. ASSUME NEW w \in Workers
       PROVE  /\ AfterStore(call[w].command) \in {"register", "persist", "next"}
              /\ call[w].command = "sync" => AfterStore(call[w].command) = "persist"
              /\ AfterStore(call[w].command) = "persist" => call[w].command = "sync"
  BY DEF AfterStore
<1>22. ASSUME NEW w \in Workers, VerifyLocal(w) PROVE \A v \in Workers : CallFits(v)'
  <2>1. CASE Return(w)
    BY <1>5, <2>1
  <2>2. CASE ~Return(w)
    <3> DEFINE p == IF call[w].backend = "s3" THEN "head" ELSE AfterStore(call[w].command)
    <3>1. /\ phase[w] = "store" /\ phase' = [phase EXCEPT ![w] = p] /\ call' = call
          /\ UNCHANGED source_files
      BY <1>22, <2>2 DEF VerifyLocal
    <3>2. phase'[w] = p
      BY <1>0, <3>1
    <3>3. call[w].backend \in {"local", "s3"} /\ (call[w].backend # "s3" => call[w].version = 0)
      BY <1>3, <3>1 DEF IsOfOneBackend, FreshPhases, Call
    <3>4. KnowsItsFile(w)' /\ IsOfOneBackend(w)'
      BY <1>3, <1>21, <3>1, <3>2, <3>3
      DEF KnowsItsFile, IsOfOneBackend, Inspected, StoredPhases, FreshPhases
    <3>5. KnowsItsRow(w)'
      BY <1>3, <1>21, <3>1, <3>2 DEF KnowsItsRow, RowPhases, SyncPhases
    <3> QED
      BY <1>9, <3>1, <3>4, <3>5
  <2> QED
    BY <2>1, <2>2
<1>23. ASSUME NEW w \in Workers, HeadObject(w) PROVE \A v \in Workers : CallFits(v)'
  <2>1. CASE Return(w)
    BY <1>5, <2>1
  <2>2. CASE Goto(w, "put") /\ UNCHANGED call
    <3>1. phase[w] = "head" /\ UNCHANGED source_files /\ phase'[w] = "put"
      BY <1>0, <1>23, <2>2 DEF HeadObject
    <3> QED
      BY <1>3, <1>9, <2>2, <3>1
      DEF KnowsItsFile, IsOfOneBackend, KnowsItsRow, Inspected, RowPhases, StoredPhases,
          FreshPhases, SyncPhases
  <2>3. CASE ~Return(w) /\ ~(Goto(w, "put") /\ UNCHANGED call)
    <3> DEFINE existing == objects[s3_key(call[w].checksum)]
               n == Len(existing)
               p == AfterStore(call[w].command)
    <3>1. /\ phase[w] = "head" /\ existing # <<>>
          /\ call' = [call EXCEPT ![w] = [call[w] EXCEPT !.version = n]]
          /\ phase' = [phase EXCEPT ![w] = p]
          /\ UNCHANGED source_files
      BY <1>23, <2>3 DEF HeadObject
    <3>2. n # 0
      <4>1. call[w].checksum \in Files
        BY <1>3, <3>1 DEF KnowsItsFile, Inspected
      <4>2. existing \in Seq(S3Object)
        BY <1>0, <4>1 DEF s3_key, TypeOK
      <4> HIDE DEF existing
      <4> QED
        BY <3>1, <4>2
    <3> HIDE DEF n
    <3>3. OthersWait(w) /\ call'[w] = [call[w] EXCEPT !.version = n] /\ phase'[w] = p
      BY <1>0, <3>1 DEF OthersWait
    <3>4. /\ call'[w].version = n /\ call'[w].todo = call[w].todo /\ call'[w].id = call[w].id
          /\ call'[w].checksum = call[w].checksum /\ call'[w].measured = call[w].measured
          /\ call'[w].command = call[w].command /\ call'[w].backend = call[w].backend
      BY <1>3, <3>3 DEF Call
    <3>5. KnowsItsFile(w)' /\ IsOfOneBackend(w)'
      BY <1>3, <1>21, <3>1, <3>2, <3>3, <3>4
      DEF KnowsItsFile, IsOfOneBackend, Inspected, StoredPhases, FreshPhases
    <3>6. KnowsItsRow(w)'
      BY <1>3, <1>21, <3>1, <3>3, <3>4 DEF KnowsItsRow, RowPhases, SyncPhases
    <3> QED
      BY <1>2, <3>3, <3>5, <3>6 DEF CallFits
  <2> QED
    BY <2>1, <2>2, <2>3
<1>24. ASSUME NEW w \in Workers, PutObject(w) PROVE \A v \in Workers : CallFits(v)'
  <2>1. CASE Return(w)
    BY <1>5, <2>1
  <2>2. CASE ~Return(w)
    <3> DEFINE n == Len(objects'[s3_key(call[w].checksum)])
    <3>1. /\ phase[w] = "put" /\ Upload(w)
          /\ call' = [call EXCEPT ![w] = [call[w] EXCEPT !.version = n]]
          /\ phase' = [phase EXCEPT ![w] = "confirm"]
          /\ UNCHANGED source_files
      BY <1>24, <2>2 DEF PutObject, Upload
    <3>2. n # 0
      <4>1. call[w].checksum \in Files
        BY <1>3, <3>1 DEF KnowsItsFile, Inspected
      <4>2. objects[call[w].checksum] \in Seq(S3Object) /\ objects \in [Files -> Seq(S3Object)]
        BY <1>0, <4>1 DEF TypeOK
      <4>3. objects'[s3_key(call[w].checksum)] =
              Append(objects[call[w].checksum], [body |-> Landed(w), sha256 |-> call[w].checksum])
        BY <3>1, <4>1, <4>2 DEF Upload, s3_key
      <4> QED
        BY <4>2, <4>3, AppendProperties
    <3> HIDE DEF n
    <3>3. OthersWait(w) /\ call'[w] = [call[w] EXCEPT !.version = n] /\ phase'[w] = "confirm"
      BY <1>0, <3>1 DEF OthersWait
    <3>4. /\ call'[w].version = n /\ call'[w].todo = call[w].todo /\ call'[w].id = call[w].id
          /\ call'[w].checksum = call[w].checksum /\ call'[w].measured = call[w].measured
          /\ call'[w].command = call[w].command /\ call'[w].backend = call[w].backend
      BY <1>3, <3>3 DEF Call
    <3>5. KnowsItsFile(w)' /\ IsOfOneBackend(w)'
      BY <1>3, <3>1, <3>2, <3>3, <3>4
      DEF KnowsItsFile, IsOfOneBackend, Inspected, StoredPhases, FreshPhases
    <3>6. KnowsItsRow(w)'
      BY <1>3, <3>1, <3>3, <3>4 DEF KnowsItsRow, RowPhases, SyncPhases
    <3> QED
      BY <1>2, <3>3, <3>5, <3>6 DEF CallFits
  <2> QED
    BY <2>1, <2>2
<1>25. ASSUME NEW w \in Workers, PutInDoubt(w) PROVE \A v \in Workers : CallFits(v)'
  BY <1>5, <1>25 DEF PutInDoubt
<1>26. ASSUME NEW w \in Workers, ConfirmObject(w) PROVE \A v \in Workers : CallFits(v)'
  <2>1. CASE Return(w)
    BY <1>5, <2>1
  <2>2. CASE ~Return(w)
    <3> DEFINE p == AfterStore(call[w].command)
    <3>1. /\ phase[w] = "confirm" /\ phase' = [phase EXCEPT ![w] = p] /\ call' = call
          /\ UNCHANGED source_files
      BY <1>26, <2>2 DEF ConfirmObject
    <3>2. phase'[w] = p
      BY <1>0, <3>1
    <3>3. KnowsItsFile(w)' /\ IsOfOneBackend(w)'
      BY <1>3, <1>21, <3>1, <3>2
      DEF KnowsItsFile, IsOfOneBackend, Inspected, StoredPhases, FreshPhases
    <3>4. KnowsItsRow(w)'
      BY <1>3, <1>21, <3>1, <3>2 DEF KnowsItsRow, RowPhases, SyncPhases
    <3> QED
      BY <1>9, <3>1, <3>3, <3>4
  <2> QED
    BY <2>1, <2>2
<1>27. ASSUME NEW w \in Workers, RegisterSource(w) PROVE \A v \in Workers : CallFits(v)'
  <2>1. /\ call[w].checksum \in Files /\ call[w].measured \in Files
        /\ phase'[w] \in {"load", "persist"} /\ OthersWait(w)
        /\ call'[w] = [call[w] EXCEPT !.id = call'[w].id]
        /\ call'[w].id \in DOMAIN source_files'
        /\ source_files'[call'[w].id].checksum = call[w].checksum
    BY <1>27, RegisterAddsRow
  <2>2. /\ call'[w].version = call[w].version /\ call'[w].todo = call[w].todo
        /\ call'[w].checksum = call[w].checksum /\ call'[w].measured = call[w].measured
        /\ call'[w].command = call[w].command /\ call'[w].backend = call[w].backend
    BY <1>3, <2>1 DEF Call
  <2>3. phase[w] = "register"
    BY <1>27 DEF RegisterSource
  <2>4. call[w].command # "sync"
    BY <1>3, <2>3 DEF KnowsItsRow, SyncPhases
  <2>5. KnowsItsFile(w)' /\ IsOfOneBackend(w)'
    BY <1>3, <2>1, <2>2, <2>3
    DEF KnowsItsFile, IsOfOneBackend, Inspected, StoredPhases, FreshPhases
  <2>6. KnowsItsRow(w)'
    BY <1>1, <1>3, <2>1, <2>2, <2>4 DEF KnowsItsRow, RowPhases, SyncPhases, RowsAreKept
  <2> QED
    BY <1>2, <2>1, <2>5, <2>6 DEF CallFits
<1>28. ASSUME NEW w \in Workers, LoadSource(w) PROVE \A v \in Workers : CallFits(v)'
  <2>1. CASE Return(w)
    BY <1>5, <2>1
  <2>2. CASE ~Return(w)
    <3>1. /\ phase[w] = "load" /\ phase' = [phase EXCEPT ![w] = "persist"] /\ call' = call
      BY <1>28, <2>2, LoadFillsRow DEF LoadSource
    <3>2. phase'[w] = "persist"
      BY <1>0, <3>1
    <3>3. KnowsItsFile(w)' /\ IsOfOneBackend(w)'
      BY <1>3, <3>1, <3>2 DEF KnowsItsFile, IsOfOneBackend, Inspected, StoredPhases, FreshPhases
    <3>4. KnowsItsRow(w)'
      BY <1>1, <1>3, <3>1, <3>2 DEF KnowsItsRow, RowPhases, SyncPhases, RowsAreKept
    <3> QED
      BY <1>9, <3>1, <3>3, <3>4
  <2> QED
    BY <2>1, <2>2
<1>29. ASSUME NEW w \in Workers, ReadStorage(w) PROVE \A v \in Workers : CallFits(v)'
  <2> DEFINE s == source_files[call[w].id].storage
  <2>1. /\ phase[w] = "persist" /\ call[w].id \in DOMAIN source_files
        /\ source_files[call[w].id].checksum = call[w].checksum
        /\ UNCHANGED source_files
    BY <1>3, <1>29 DEF ReadStorage, KnowsItsRow, RowPhases
  <2>2. s \in Storage /\ RecordsObject(s, call[w].checksum)
    BY <1>7, <2>1
  <2>3. CASE phase' = [phase EXCEPT ![w] = "next"] /\ call' = call
    <3>1. phase'[w] = "next"
      BY <1>0, <2>3
    <3>2. KnowsItsFile(w)' /\ IsOfOneBackend(w)'
      BY <3>1 DEF KnowsItsFile, IsOfOneBackend, Inspected, StoredPhases, FreshPhases
    <3>3. KnowsItsRow(w)'
      BY <1>3, <2>1, <2>3, <3>1 DEF KnowsItsRow, RowPhases, SyncPhases
    <3> QED
      BY <1>9, <2>3, <3>2, <3>3
  <2>4. CASE ~(phase' = [phase EXCEPT ![w] = "next"] /\ call' = call)
    <3>1. /\ ~(call[w].backend = "local" /\ s.backend = "s3" /\ s.uri # NoFile)
          /\ call' = [call EXCEPT ![w] = [call[w] EXCEPT !.storage = s]]
          /\ phase' = [phase EXCEPT ![w] = "flush"]
      BY <1>29, <2>4 DEF ReadStorage
    <3>2. call[w].checksum \in Files /\ call[w].checksum # NoFile
      BY <1>3, <2>1, FileAssumption DEF KnowsItsFile, Inspected
    <3>3. call[w].backend = "local" => s.backend = "local"
      BY <2>2, <3>1, <3>2 DEF RecordsObject, s3_key
    <3> HIDE DEF s
    <3>4. OthersWait(w) /\ call'[w] = [call[w] EXCEPT !.storage = s] /\ phase'[w] = "flush"
      BY <1>0, <3>1 DEF OthersWait
    <3>5. /\ call'[w].version = call[w].version /\ call'[w].todo = call[w].todo
          /\ call'[w].checksum = call[w].checksum /\ call'[w].measured = call[w].measured
          /\ call'[w].command = call[w].command /\ call'[w].backend = call[w].backend
          /\ call'[w].id = call[w].id /\ call'[w].storage = s
      BY <1>3, <3>4 DEF Call
    <3>6. RecordsObject(call'[w].storage, call'[w].checksum)
      BY <2>2, <3>5
    <3>7. KnowsItsFile(w)' /\ IsOfOneBackend(w)'
      BY <1>3, <2>1, <3>3, <3>4, <3>5, <3>6
      DEF KnowsItsFile, IsOfOneBackend, Inspected, StoredPhases, FreshPhases, RecordsObject, s3_key
    <3>8. KnowsItsRow(w)'
      BY <1>3, <2>1, <3>4, <3>5 DEF KnowsItsRow, RowPhases, SyncPhases
    <3> QED
      BY <1>2, <3>4, <3>7, <3>8 DEF CallFits
  <2> QED
    BY <2>3, <2>4
<1>30. ASSUME NEW w \in Workers, FlushStorage(w) PROVE \A v \in Workers : CallFits(v)'
  <2>1. OthersWait(w) /\ call'[w] = [call[w] EXCEPT !.storage = LocalStorage] /\ phase'[w] = "next"
    BY <1>0, <1>30 DEF FlushStorage, OthersWait
  <2>2. call'[w].todo = call[w].todo /\ call'[w].command = call[w].command
    BY <1>3, <2>1 DEF Call
  <2>3. KnowsItsFile(w)' /\ IsOfOneBackend(w)'
    BY <2>1 DEF KnowsItsFile, IsOfOneBackend, Inspected, StoredPhases, FreshPhases
  <2>4. KnowsItsRow(w)'
    BY <1>1, <1>3, <2>1, <2>2 DEF KnowsItsRow, RowPhases, SyncPhases, RowsAreKept
  <2> QED
    BY <1>2, <2>1, <2>3, <2>4 DEF CallFits
<1>31. ASSUME NEW w \in Workers, NextSource(w) PROVE \A v \in Workers : CallFits(v)'
  <2> DEFINE todo == call[w].todo
             f == source_files[Head(todo)].checksum
             m == source_files[Head(todo)].measured
  <2>1. CASE Return(w)
    BY <1>5, <2>1
  <2>2. CASE ~Return(w)
    <3>1. phase[w] = "next" /\ todo \in Seq(Nat) /\ todo # <<>> /\ UNCHANGED source_files
      BY <1>3, <1>31, <2>2 DEF NextSource, Call
    <3>2. /\ Head(todo) \in DOMAIN source_files
          /\ \A n \in DOMAIN Tail(todo) : Tail(todo)[n] \in DOMAIN source_files
      <4>1. \A n \in DOMAIN todo : todo[n] \in DOMAIN source_files
        BY <1>3 DEF KnowsItsRow
      <4> HIDE DEF todo
      <4>2. 1 \in DOMAIN todo /\ Head(todo) = todo[1]
        BY <3>1
      <4>3. \A n \in DOMAIN Tail(todo) : n + 1 \in DOMAIN todo /\ Tail(todo)[n] = todo[n + 1]
        BY <3>1
      <4> QED
        BY <4>1, <4>2, <4>3
    <3>3. CASE Landed(w) = NoFile
      <4>1. call' = [call EXCEPT ![w] = [call[w] EXCEPT !.todo = Tail(todo)]] /\ phase' = phase
        BY <1>31, <2>2, <3>3 DEF NextSource
      <4>2. OthersWait(w) /\ call'[w] = [call[w] EXCEPT !.todo = Tail(todo)] /\ phase'[w] = "next"
        BY <1>0, <3>1, <4>1 DEF OthersWait
      <4>3. call'[w].todo = Tail(todo) /\ call'[w].command = call[w].command
        BY <1>3, <4>2 DEF Call
      <4>4. KnowsItsFile(w)' /\ IsOfOneBackend(w)' /\ KnowsItsRow(w)'
        BY <1>3, <3>1, <3>2, <4>2, <4>3
        DEF KnowsItsFile, IsOfOneBackend, KnowsItsRow, Inspected, StoredPhases, FreshPhases,
            RowPhases, SyncPhases
      <4> QED
        BY <1>2, <4>2, <4>4 DEF CallFits
    <3>4. CASE Landed(w) # NoFile
      <4>1. /\ call' = [call EXCEPT ![w] =
                          [call[w] EXCEPT !.checksum = f, !.measured = m, !.id = Head(todo),
                                          !.version = 0, !.todo = Tail(todo)]]
            /\ phase' = [phase EXCEPT ![w] = "store"]
        BY <1>31, <2>2, <3>4 DEF NextSource
      <4>2. f \in Files /\ m \in Files
        BY <1>7, <3>2
      <4>3. /\ OthersWait(w) /\ phase'[w] = "store"
            /\ call'[w] = [call[w] EXCEPT !.checksum = f, !.measured = m, !.id = Head(todo),
                                          !.version = 0, !.todo = Tail(todo)]
        BY <1>0, <4>1 DEF OthersWait
      <4>4. /\ call'[w].todo = Tail(todo) /\ call'[w].checksum = f /\ call'[w].measured = m
            /\ call'[w].id = Head(todo) /\ call'[w].version = 0
        <5> HIDE DEF f, m
        <5> QED
          BY <1>3, <4>3 DEF Call
      <4>5. KnowsItsFile(w)' /\ IsOfOneBackend(w)'
        BY <4>2, <4>3, <4>4
        DEF KnowsItsFile, IsOfOneBackend, Inspected, StoredPhases, FreshPhases
      <4>6. KnowsItsRow(w)'
        BY <3>1, <3>2, <4>3, <4>4 DEF KnowsItsRow, RowPhases, SyncPhases
      <4> QED
        BY <1>2, <4>3, <4>5, <4>6 DEF CallFits
    <3> QED
      BY <3>3, <3>4
  <2> QED
    BY <2>1, <2>2
<1>32. ASSUME NEW w \in Workers, Abandon(w) PROVE \A v \in Workers : CallFits(v)'
  BY <1>5, <1>32 DEF Abandon
<1>33. CASE UNCHANGED <<phase, call>>
  BY <1>1, <1>33, WaitingCallFits
<1>34. ASSUME NEW h \in Hosts, LoseLanding(h) PROVE UNCHANGED <<phase, call>>
  BY <1>34 DEF LoseLanding
<1>35. Republish => UNCHANGED <<phase, call>>
  BY DEF Republish
<1> QED
  BY <1>10, <1>11, <1>12, <1>13, <1>14, <1>15, <1>16, <1>17, <1>18, <1>19, <1>20, <1>22, <1>23,
     <1>24, <1>25, <1>26, <1>27, <1>28, <1>29, <1>30, <1>31, <1>32, <1>33, <1>34, <1>35,
     <1>36
  DEF Next, BeginCall, Proceed

\* Every row keeps the storage columns of one backend, though the UPDATE of a
\* call that read the row earlier writes only some of them; and an S3 record of
\* a row is not erased.
LEMMA StepRows ==
    AcquisitionInv /\ [Next]_vars =>
        /\ RowsAreOfOneBackend'
        /\ \A i \in DOMAIN source_files :
              LET was == source_files[i].storage
                  is == source_files'[i].storage
              IN  was.backend = "s3" => is.backend = "s3" /\ is.uri = was.uri /\ is.version # 0
<1> DEFINE Kept ==
      \A i \in DOMAIN source_files :
          LET was == source_files[i].storage
              is == source_files'[i].storage
          IN  was.backend = "s3" => is.backend = "s3" /\ is.uri = was.uri /\ is.version # 0
<1> SUFFICES ASSUME AcquisitionInv, [Next]_vars PROVE RowsAreOfOneBackend' /\ Kept
  OBVIOUS
<1>0. RowsAreOfOneBackend /\ source_files \in Seq(SourceFile)
  BY DEF AcquisitionInv, TypeOK
<1>1. CASE UNCHANGED source_files
  BY <1>0, <1>1 DEF RowsAreOfOneBackend, RecordsObject
<1>2. ASSUME NEW w \in Workers, RegisterSource(w) PROVE RowsAreOfOneBackend' /\ Kept
  <2> QED
    <3>1. /\ DOMAIN source_files \subseteq DOMAIN source_files'
          /\ \A i \in DOMAIN source_files : source_files'[i] = source_files[i]
          /\ \A i \in DOMAIN source_files' \ DOMAIN source_files :
                source_files'[i].storage = LocalStorage
      BY <1>2, RegisterAddsRow
    <3>2. RowsAreOfOneBackend'
      BY <1>0, <3>1 DEF RowsAreOfOneBackend, RecordsObject, LocalStorage
    <3>3. Kept
      BY <1>0, <3>1 DEF RowsAreOfOneBackend, RecordsObject
    <3> QED
      BY <3>2, <3>3
<1>3. ASSUME NEW w \in Workers, LoadSource(w) PROVE RowsAreOfOneBackend' /\ Kept
  <2>1. CASE UNCHANGED source_files
    BY <1>1, <2>1
  <2>2. CASE ~UNCHANGED source_files
    <3>1. /\ DOMAIN source_files' = DOMAIN source_files
          /\ \A i \in DOMAIN source_files :
                source_files'[i] = IF i = call[w].id
                                   THEN [source_files[i] EXCEPT !.status = "loaded",
                                                                !.loaded = Landed(w)]
                                   ELSE source_files[i]
      BY <1>3, <2>2, LoadFillsRow
    <3>2. \A i \in DOMAIN source_files :
            /\ source_files'[i].storage = source_files[i].storage
            /\ source_files'[i].checksum = source_files[i].checksum
      <4>1. \A i \in DOMAIN source_files : source_files[i] \in SourceFile
        BY <1>0
      <4> QED
        BY <3>1, <4>1 DEF SourceFile
    <3> QED
      BY <1>0, <3>1, <3>2 DEF RowsAreOfOneBackend, RecordsObject
  <2> QED
    BY <2>1, <2>2
<1>4. ASSUME NEW w \in Workers, FlushStorage(w) PROVE RowsAreOfOneBackend' /\ Kept
  <2> DEFINE c == call[w]
             was == source_files[c.id].storage
             is == source_files'[c.id].storage
  <2>1. c.id \in DOMAIN source_files /\ c.checksum \in Files /\ c.checksum # NoFile
    BY <1>4, FlushWritesStorage, FileAssumption
  <2>2. source_files[c.id].checksum = c.checksum /\ RowsAreKept
    BY <1>4, FlushWritesStorage
  <2>3. is = [backend |-> IF c.backend = c.storage.backend THEN was.backend ELSE c.backend,
              uri |-> IF StorageResult(c).uri = c.storage.uri THEN was.uri ELSE StorageResult(c).uri,
              version |-> IF c.version = c.storage.version THEN was.version ELSE c.version,
              stored_at |-> c.backend]
    BY <1>4, FlushWritesStorage
  <2>4. /\ DOMAIN source_files' = DOMAIN source_files
        /\ \A i \in DOMAIN source_files : i # c.id => source_files'[i] = source_files[i]
    BY <1>4, FlushWritesStorage
  <2>5. /\ c.backend \in {"local", "s3"} /\ (c.version = 0 <=> c.backend = "local")
        /\ RecordsObject(c.storage, c.checksum)
        /\ c.backend = "local" => c.storage.backend = "local"
    BY <1>4 DEF AcquisitionInv, TypeOK, Call, FlushStorage, CallFits, IsOfOneBackend, StoredPhases
  <2>11. c.storage.backend = "s3" => was.backend = "s3"
    BY <1>4 DEF AcquisitionInv, ReadRecordsLast, FlushStorage
  <2>6. RecordsObject(was, c.checksum)
    BY <1>0, <2>1, <2>2 DEF RowsAreOfOneBackend
  <2>7. StorageResult(c).uri = IF c.backend = "s3" THEN c.checksum ELSE NoFile
    BY DEF StorageResult, s3_key
  <2>8. /\ is.backend = IF c.backend = c.storage.backend THEN was.backend ELSE c.backend
        /\ is.uri = IF StorageResult(c).uri = c.storage.uri THEN was.uri ELSE StorageResult(c).uri
        /\ is.version = IF c.version = c.storage.version THEN was.version ELSE c.version
    BY <2>3
  <2> HIDE DEF is, was, c
  <2>9. /\ RecordsObject(is, c.checksum)
        /\ was.backend = "s3" => is.backend = "s3" /\ is.uri = was.uri /\ is.version # 0
    BY <2>1, <2>5, <2>6, <2>7, <2>8, <2>11 DEF RecordsObject, s3_key
  <2>10. source_files'[c.id].checksum = c.checksum
    BY <2>1, <2>2 DEF RowsAreKept
  <2> QED
    BY <1>0, <2>1, <2>4, <2>9, <2>10 DEF RowsAreOfOneBackend, RecordsObject, is, was
<1>5. \/ UNCHANGED source_files
      \/ \E w \in Workers : RegisterSource(w) \/ LoadSource(w) \/ FlushStorage(w)
  BY LedgerChanges
<1> QED
  BY <1>1, <1>2, <1>3, <1>4, <1>5

\* A call comes to its UPDATE by reading the row.
LEMMA FlushFollowsRead ==
    ASSUME AcquisitionInv, [Next]_vars, NEW w \in Workers, phase'[w] = "flush"
    PROVE  (phase[w] = "flush" /\ call'[w] = call[w]) \/ ReadStorage(w)
<1>0. phase \in [Workers -> Phases] /\ call \in [Workers -> Call]
  BY DEF AcquisitionInv, TypeOK
<1>1. CASE UNCHANGED <<phase, call>>
  BY <1>1
<1>2. ASSUME NEW v \in Workers, v # w, BeginCall(v) \/ Proceed(v) \/ PutInDoubt(v) \/ Abandon(v)
      PROVE  phase'[w] = phase[w] /\ call'[w] = call[w]
  BY <1>0, <1>2 DEF Goto, Return, Materialized,
         Proceed, BeginCall, BeginSource, BeginSync, BeginMaterialize, Begin,
         Recover, FetchObject, RestoreLanding, EnsureLocal, ReplaceLanding, MeasureSource,
         CountSource,
         HashSource, VerifyLocal, HeadObject, PutObject, PutInDoubt, ConfirmObject, RegisterSource,
         LoadSource, ReadStorage, FlushStorage, NextSource, Abandon
<1>3. CASE BeginCall(w) \/ Proceed(w) \/ PutInDoubt(w) \/ Abandon(w)
  BY <1>0, <1>3 DEF Goto, Return, Materialized, AfterStore, AfterRegister,
         Proceed, BeginCall, BeginSource, BeginSync, BeginMaterialize, Begin,
         Recover, FetchObject, RestoreLanding, EnsureLocal, ReplaceLanding, MeasureSource,
         CountSource,
         HashSource, VerifyLocal, HeadObject, PutObject, PutInDoubt, ConfirmObject, RegisterSource,
         LoadSource, FlushStorage, NextSource, Abandon
<1> QED
  BY <1>1, <1>2, <1>3 DEF Next, vars, LoseLanding, Republish

\* What a call has read stays true.
LEMMA StepReads == AcquisitionInv /\ [Next]_vars => ReadRecordsLast'
<1> SUFFICES ASSUME AcquisitionInv, [Next]_vars, NEW w \in Workers,
                    phase'[w] = "flush", call'[w].storage.backend = "s3"
             PROVE  source_files'[call'[w].id].storage.backend = "s3"
  BY DEF ReadRecordsLast
<1>0. call \in [Workers -> Call] /\ KnowsItsRow(w)
  BY DEF AcquisitionInv, TypeOK, CallFits
<1>1. CASE phase[w] = "flush" /\ call'[w] = call[w]
  <2>1. /\ call[w].id \in DOMAIN source_files
        /\ source_files[call[w].id].storage.backend = "s3"
    BY <1>0, <1>1 DEF AcquisitionInv, ReadRecordsLast, KnowsItsRow, RowPhases
  <2> QED
    BY <1>1, <2>1, StepRows
<1>2. CASE ReadStorage(w)
  <2> DEFINE s == source_files[call[w].id].storage
  <2>1. call[w].id \in DOMAIN source_files
    BY <1>0, <1>2 DEF ReadStorage, KnowsItsRow, RowPhases
  <2>2. call' = [call EXCEPT ![w] = [call[w] EXCEPT !.storage = s]] /\ UNCHANGED source_files
    BY <1>2 DEF AcquisitionInv, TypeOK, ReadStorage, Goto, store
  <2> HIDE DEF s
  <2>3. call'[w].id = call[w].id /\ call'[w].storage = s
    BY <1>0, <2>2 DEF Call
  <2> QED
    BY <2>2, <2>3 DEF s
<1> QED
  BY <1>1, <1>2, FlushFollowsRead

\* The invariant of the calls and of the ledger, however processes share
\* landing directories.
THEOREM AcquisitionInvariant == Spec => []AcquisitionInv
<1>1. Init => AcquisitionInv
  <2> SUFFICES ASSUME Init PROVE AcquisitionInv
    OBVIOUS
  <2>1. TypeOK
    BY InitType
  <2>2. RowsAreOfOneBackend
    BY DEF Init, RowsAreOfOneBackend
  <2>3. ASSUME NEW w \in Workers PROVE CallFits(w)
    <3>1. phase[w] = "idle" /\ call[w] = NoCall
      BY DEF Init
    <3> QED
      BY <3>1 DEF NoCall, CallFits, KnowsItsFile, KnowsItsRow, IsOfOneBackend, Inspected,
                  RowPhases, StoredPhases, FreshPhases
  <2>4. ReadRecordsLast
    BY DEF Init, ReadRecordsLast
  <2> QED
    BY <2>1, <2>2, <2>3, <2>4 DEF AcquisitionInv
<1>2. AcquisitionInv /\ [Next]_vars => AcquisitionInv'
  BY StepType, StepFits, StepRows, StepReads DEF AcquisitionInv
<1> QED
  BY <1>1, <1>2, PTL DEF Spec

\* Every variable keeps its type.
THEOREM AcquisitionTypeCorrect == Spec => []TypeOK
<1>1. AcquisitionInv => TypeOK
  BY DEF AcquisitionInv
<1> QED
  BY <1>1, AcquisitionInvariant, PTL

\* A row that records an S3 object records it for ever: merging the storage
\* columns (storage/service.py) is not atomic, and the UPDATE names only the
\* columns that differ from what the session read, but no interleaving of local
\* and S3 calls erases or mixes the record.
THEOREM StorageRecordsAreDurable == Spec => DurableStorageKept
<1>1. AcquisitionInv /\ [Next]_vars =>
        [ \A i \in DOMAIN source_files :
            LET was == source_files[i].storage
                is == source_files'[i].storage
            IN  was.backend = "s3" =>
                    is.backend = "s3" /\ is.uri = was.uri /\ is.version # 0 ]_vars
  BY StepRows
<1> QED
  BY <1>1, AcquisitionInvariant, PTL DEF Spec, DurableStorageKept

-----------------------------------------------------------------------------
(* What is registered was at a landing path, and is whole when that was.    *)

WholeFiles ==
    /\ LandingIsWhole
    /\ \A i \in DOMAIN source_files : source_files[i].checksum # Truncated
    /\ \A w \in Workers :
          /\ phase[w] \in Inspected => call[w].checksum # Truncated
          /\ phase[w] = "downloaded" => call[w].partial # Truncated

\* A landing path gets a file only from a whole download or from a partial file
\* with the bytes that were asked for.
LEMMA LandingGetsFile ==
    ASSUME AcquisitionInv, [Next]_vars, NEW h \in Hosts
    PROVE  \/ landing'[h] \in {landing[h], NoFile}
           \/ \E w \in Workers :
                 /\ HostOf[w] = h /\ landing'[h] = call[w].partial
                 /\ \/ ReplaceLanding(w) /\ phase[w] = "downloaded"
                    \/ /\ RestoreLanding(w) /\ phase[w] = "materialized"
                       /\ call[w].partial = call[w].checksum
<1>0. landing \in [Hosts -> Files \cup {NoFile}] /\ HostOf \in [Workers -> Hosts]
  BY HostAssumption DEF AcquisitionInv, TypeOK
<1>1. CASE UNCHANGED landing
  BY <1>1
<1>2. ASSUME NEW w \in Workers, ReplaceLanding(w)
      PROVE  /\ phase[w] = "downloaded"
             /\ landing' = [landing EXCEPT ![HostOf[w]] = call[w].partial]
  BY <1>2 DEF ReplaceLanding
<1>3. ASSUME NEW w \in Workers, RestoreLanding(w), ~UNCHANGED landing
      PROVE  /\ phase[w] = "materialized" /\ call[w].partial = call[w].checksum
             /\ landing' = [landing EXCEPT ![HostOf[w]] = call[w].partial]
  BY <1>3 DEF RestoreLanding
<1>4. ASSUME NEW g \in Hosts, LoseLanding(g)
      PROVE  landing'[h] \in {landing[h], NoFile}
  BY <1>0, <1>4 DEF LoseLanding
<1>5. \/ UNCHANGED landing
      \/ \E w \in Workers : ReplaceLanding(w) \/ RestoreLanding(w)
      \/ \E g \in Hosts : LoseLanding(g)
  BY ZenonT(40) DEF Next, vars, store, Proceed, BeginCall, BeginSource, BeginSync,
     BeginMaterialize, Begin,
         Recover, FetchObject, EnsureLocal, MeasureSource, CountSource, HashSource, VerifyLocal,
         HeadObject,
         PutObject, PutInDoubt, ConfirmObject, RegisterSource, LoadSource, ReadStorage,
         FlushStorage, NextSource, Abandon, Republish
<1> QED
  BY <1>0, <1>1, <1>2, <1>3, <1>4, <1>5

\* What a call works with, it had before, or takes from a row, or has just read
\* at its landing path.
LEMMA InspectedComesFrom ==
    ASSUME AcquisitionInv, [Next]_vars, NEW w \in Workers, phase'[w] \in Inspected
    PROVE  \/ /\ phase[w] \in Inspected
              /\ call'[w].checksum = call[w].checksum /\ call'[w].measured = call[w].measured
           \/ \E i \in DOMAIN source_files :
                 /\ call'[w].checksum = source_files[i].checksum
                 /\ call'[w].measured = source_files[i].measured
           \/ /\ phase[w] = "hash" /\ Landed(w) \in Files
              /\ call'[w].checksum = Landed(w) /\ call'[w].measured = call[w].measured
<1> USE DEF Goto
<1>0. /\ phase \in [Workers -> Phases] /\ call \in [Workers -> Call]
      /\ phase' \in [Workers -> Phases] /\ Landed(w) \in Files \cup {NoFile}
  BY StepType, HostAssumption DEF AcquisitionInv, TypeOK, Landed
<1>1. call[w] \in Call /\ NoCall \in Call
  BY <1>0, NoCallType
<1>2. ASSUME NEW c \in Call, NEW i \in DOMAIN source_files, call'[w] = Restoring(c, i)
      PROVE  /\ call'[w].checksum = source_files[i].checksum
             /\ call'[w].measured = source_files[i].measured
  BY <1>2 DEF Restoring, Call
<1>3. CASE phase'[w] = phase[w] /\ call'[w] = call[w]
  BY <1>3
<1>4. ASSUME NEW v \in Workers, v # w, BeginCall(v) \/ Proceed(v) \/ PutInDoubt(v) \/ Abandon(v)
      PROVE  phase'[w] = phase[w] /\ call'[w] = call[w]
  BY <1>0, <1>4 DEF Goto, Return, Materialized,
         Proceed, BeginCall, BeginSource, BeginSync, BeginMaterialize, Begin,
         Recover, FetchObject, RestoreLanding, EnsureLocal, ReplaceLanding, MeasureSource,
         CountSource,
         HashSource, VerifyLocal, HeadObject, PutObject, PutInDoubt, ConfirmObject, RegisterSource,
         LoadSource, ReadStorage, FlushStorage, NextSource, Abandon
<1>5. ~Return(w)
  BY <1>0 DEF Return, Inspected
<1>6. CASE BeginMaterialize(w)
  <2>1. [NoCall EXCEPT !.command = "materialize", !.backend = "s3"] \in Call
    BY <1>1 DEF Call, Commands
  <2> QED
    BY <1>0, <1>2, <1>6, <2>1 DEF BeginMaterialize, Begin
<1>7. CASE Recover(w)
  <2>1. phase'[w] = "materialize"
    BY <1>0, <1>7 DEF Recover, Inspected
  <2>2. PICK i \in DOMAIN source_files : call' = [call EXCEPT ![w] = Restoring(call[w], i)]
    BY <1>0, <1>7, <2>1 DEF Recover
  <2>3. call'[w] = Restoring(call[w], i)
    BY <1>0, <2>2
  <2> QED
    BY <1>1, <1>2, <2>3
\* Steps that change other locals only.
<1>8. ASSUME phase[w] \in Inspected,
             \/ call'[w] = call[w]
             \/ \E f : call'[w] = [call[w] EXCEPT !.partial = f]
             \/ \E n : call'[w] = [call[w] EXCEPT !.version = n]
             \/ \E n : call'[w] = [call[w] EXCEPT !.id = n]
             \/ \E s : call'[w] = [call[w] EXCEPT !.storage = s]
      PROVE  /\ phase[w] \in Inspected
             /\ call'[w].checksum = call[w].checksum /\ call'[w].measured = call[w].measured
  BY <1>1, <1>8 DEF Call
<1>9. CASE FetchObject(w)
  <2>1. ~Materialized(w)
    BY <1>0, <1>5 DEF Materialized, Inspected
  <2>2. phase[w] = "materialize" /\ \E f : call'[w] = [call[w] EXCEPT !.partial = f]
    BY <1>0, <1>5, <1>9, <2>1 DEF FetchObject
  <2> QED
    BY <1>8, <2>2 DEF Inspected
<1>10. CASE HashSource(w)
  <2>1. /\ phase[w] = "hash" /\ Landed(w) # NoFile
        /\ call'[w] = [call[w] EXCEPT !.checksum = Landed(w)]
    BY <1>0, <1>5, <1>10 DEF HashSource
  <2> QED
    BY <1>0, <1>1, <2>1 DEF Call
<1>11. CASE VerifyLocal(w) \/ HeadObject(w) \/ PutObject(w) \/ ConfirmObject(w)
            \/ RegisterSource(w) \/ LoadSource(w) \/ ReadStorage(w) \/ FlushStorage(w)
  <2>1. phase[w] \in Inspected
    BY <1>11 DEF VerifyLocal, HeadObject, PutObject, Upload, ConfirmObject, RegisterSource,
                 LoadSource, ReadStorage, FlushStorage, Inspected
  <2>2. CASE VerifyLocal(w) \/ ConfirmObject(w) \/ LoadSource(w)
    BY <1>5, <1>8, <2>1, <2>2 DEF VerifyLocal, ConfirmObject, LoadSource
  <2>3. CASE HeadObject(w)
    BY <1>0, <1>5, <1>8, <2>1, <2>3 DEF HeadObject
  <2>4. CASE PutObject(w)
    BY <1>0, <1>5, <1>8, <2>1, <2>4 DEF PutObject
  <2>5. CASE RegisterSource(w)
    BY <1>8, <2>1, <2>5, RegisterAddsRow
  <2>6. CASE ReadStorage(w)
    BY <1>0, <1>8, <2>1, <2>6 DEF ReadStorage
  <2>7. CASE FlushStorage(w)
    BY <1>0, <1>8, <2>1, <2>7 DEF FlushStorage
  <2> QED
    BY <1>11, <2>2, <2>3, <2>4, <2>5, <2>6, <2>7
<1>12. CASE NextSource(w)
  <2> DEFINE todo == call[w].todo
             f == source_files[Head(todo)].checksum
             m == source_files[Head(todo)].measured
  <2>1. phase'[w] # "next" /\ phase[w] = "next"
    BY <1>12 DEF Inspected, NextSource
  <2>2. /\ todo # <<>>
        /\ call' = [call EXCEPT ![w] =
                      [call[w] EXCEPT !.checksum = f, !.measured = m, !.id = Head(todo),
                                      !.version = 0, !.todo = Tail(todo)]]
    BY <1>5, <1>12, <2>1 DEF NextSource
  <2>3. Head(todo) \in DOMAIN source_files
    <3>1. todo \in Seq(Nat) /\ \A n \in DOMAIN todo : todo[n] \in DOMAIN source_files
      BY <1>1 DEF Call, AcquisitionInv, CallFits, KnowsItsRow
    <3> HIDE DEF todo
    <3>2. 1 \in DOMAIN todo /\ Head(todo) = todo[1]
      BY <2>2, <3>1
    <3> QED
      BY <3>1, <3>2
  <2>4. call'[w].checksum = f /\ call'[w].measured = m
    <3> HIDE DEF f, m
    <3> QED
      BY <1>0, <1>1, <2>2 DEF Call
  <2> QED
    BY <2>3, <2>4
<1>13. CASE \/ BeginSync(w) \/ RestoreLanding(w) \/ EnsureLocal(w) \/ ReplaceLanding(w)
            \/ MeasureSource(w) \/ CountSource(w) \/ Abandon(w) \/ PutInDoubt(w)
            \/ \E command \in {"fetch", "register", "ingest"}, backend \in Backends :
                  BeginSource(w, command, backend)
  BY <1>0, <1>5, <1>13
  DEF BeginSync, BeginSource, Begin, RestoreLanding, Materialized, EnsureLocal, ReplaceLanding,
      MeasureSource, CountSource, Abandon, PutInDoubt, Inspected
<1> QED
  BY <1>3, <1>4, <1>6, <1>7, <1>9, <1>10, <1>11, <1>12, <1>13
  DEF Next, BeginCall, Proceed, vars, LoseLanding, Republish

\* A partial file is the result of a copy, and where the publisher sends
\* Content-Length a truncated copy does not pass for one.
LEMMA DownloadIsComplete ==
    ASSUME SendsLength, AcquisitionInv, [Next]_vars, NEW w \in Workers, phase'[w] = "downloaded"
    PROVE  (phase[w] = "downloaded" /\ call'[w] = call[w]) \/ call'[w].partial # Truncated
<1>0. /\ phase \in [Workers -> Phases] /\ call \in [Workers -> Call] /\ call[w] \in Call
      /\ published \in DOMAIN Publications
  BY DEF AcquisitionInv, TypeOK
<1>1. CASE UNCHANGED <<phase, call>>
  BY <1>1
<1>2. ASSUME NEW v \in Workers, v # w, BeginCall(v) \/ Proceed(v) \/ PutInDoubt(v) \/ Abandon(v)
      PROVE  phase'[w] = phase[w] /\ call'[w] = call[w]
  BY <1>0, <1>2 DEF Goto, Return, Materialized,
         Proceed, BeginCall, BeginSource, BeginSync, BeginMaterialize, Begin,
         Recover, FetchObject, RestoreLanding, EnsureLocal, ReplaceLanding, MeasureSource,
         CountSource, HashSource, VerifyLocal, HeadObject, PutObject, PutInDoubt, ConfirmObject,
         RegisterSource, LoadSource, ReadStorage, FlushStorage, NextSource, Abandon
<1>3. CASE EnsureLocal(w)
  <2> DEFINE response == Publications[published]
  <2>1. response \in Files /\ Truncated \in Files
        /\ Size[Truncated] < Size[response] /\ Size \in [Files -> Nat]
    BY <1>0, FileAssumption
  <2>2. PICK partial \in {response, Truncated} :
          /\ Complete(partial, response)
          /\ call' = [call EXCEPT ![w] = [call[w] EXCEPT !.partial = partial]]
    <3>1. "downloaded" # "idle" /\ "downloaded" # "measure"
      OBVIOUS
    <3>2. /\ Goto(w, "measure") => phase'[w] = "measure"
          /\ Return(w) => phase'[w] = "idle"
      BY <1>0 DEF Goto, Return
    <3> QED
      BY <1>3, <3>1, <3>2, Zenon DEF EnsureLocal
  <2>3. partial # Truncated
    <3> HIDE DEF response
    <3>1. Size[partial] = Size[response]
      BY <2>2 DEF Complete
    <3>2. Size[Truncated] # Size[response]
      BY <2>1
    <3> QED
      BY <3>1, <3>2
  <2>4. call'[w].partial = partial
    <3> HIDE DEF response
    <3> QED
      BY <1>0, <2>2 DEF Call
  <2> QED
    BY <2>3, <2>4
<1>4. CASE BeginCall(w) \/ (Proceed(w) /\ ~EnsureLocal(w)) \/ PutInDoubt(w) \/ Abandon(w)
  BY <1>0, <1>4 DEF Goto, Return, Materialized, AfterStore, AfterRegister,
         Proceed, BeginCall, BeginSource, BeginSync, BeginMaterialize, Begin,
         Recover, FetchObject, RestoreLanding, ReplaceLanding, MeasureSource, CountSource,
         HashSource, VerifyLocal, HeadObject, PutObject, PutInDoubt, ConfirmObject, RegisterSource,
         LoadSource, ReadStorage, FlushStorage, NextSource, Abandon
<1> QED
  BY <1>1, <1>2, <1>3, <1>4 DEF Next, vars, LoseLanding, Republish

\* Where the publisher sends Content-Length, no step puts a broken transfer
\* anywhere.
LEMMA StepWhole ==
    ASSUME SendsLength, AcquisitionInv, WholeFiles, [Next]_vars
    PROVE  WholeFiles'
<1>1. LandingIsWhole'
  <2> SUFFICES ASSUME NEW h \in Hosts PROVE landing'[h] # Truncated
    BY DEF LandingIsWhole
  <2>1. CASE landing'[h] \in {landing[h], NoFile}
    BY <2>1, FileAssumption DEF WholeFiles, LandingIsWhole
  <2>2. ASSUME NEW w \in Workers, phase[w] = "downloaded" PROVE call[w].partial # Truncated
    BY <2>2 DEF WholeFiles
  <2>3. ASSUME NEW w \in Workers, phase[w] = "materialized", call[w].partial = call[w].checksum
        PROVE  call[w].partial # Truncated
    BY <2>3 DEF WholeFiles, Inspected
  <2> QED
    BY <2>1, <2>2, <2>3, LandingGetsFile
<1>2. ASSUME NEW i \in DOMAIN source_files' PROVE source_files'[i].checksum # Truncated
  <2>1. CASE i \in DOMAIN source_files
    BY <2>1, LedgerGrows DEF RowsAreKept, WholeFiles
  <2>2. CASE i \notin DOMAIN source_files
    <3>1. PICK w \in Workers : RegisterSource(w)
      <4>1. ASSUME NEW w \in Workers, LoadSource(w) \/ FlushStorage(w)
            PROVE  DOMAIN source_files' = DOMAIN source_files
        BY <4>1, LoadFillsRow, FlushWritesStorage
      <4> QED
        BY <1>2, <2>2, <4>1, LedgerChanges
    <3>2. phase[w] \in Inspected
      BY <3>1 DEF RegisterSource, Inspected
    <3>3. source_files'[i].checksum = call[w].checksum
      BY <1>2, <2>2, <3>1, RegisterAddsRow
    <3> QED
      BY <3>2, <3>3 DEF WholeFiles
  <2> QED
    BY <2>1, <2>2
<1>3. ASSUME NEW w \in Workers, phase'[w] \in Inspected PROVE call'[w].checksum # Truncated
  <2>1. Landed(w) # Truncated
    BY HostAssumption DEF WholeFiles, LandingIsWhole, Landed
  <2> QED
    BY <1>3, <2>1, InspectedComesFrom DEF WholeFiles
<1>4. ASSUME NEW w \in Workers, phase'[w] = "downloaded" PROVE call'[w].partial # Truncated
  BY <1>4, DownloadIsComplete DEF WholeFiles
<1> QED
  BY <1>1, <1>2, <1>3, <1>4 DEF WholeFiles

\* Where the publisher sends Content-Length, no transfer, however it breaks and
\* however many processes share the directory, leaves anything but a whole
\* publication at a landing path (landing/downloader.py).
THEOREM LandedFilesAreWhole == ASSUME SendsLength PROVE Spec => []LandingIsWhole
<1>1. Init => WholeFiles
  BY FileAssumption DEF Init, WholeFiles, LandingIsWhole, Inspected
<1>2. AcquisitionInv /\ WholeFiles /\ [Next]_vars => WholeFiles'
  BY StepWhole
<1>3. WholeFiles => LandingIsWhole
  BY DEF WholeFiles
<1> QED
  BY <1>1, <1>2, <1>3, AcquisitionInvariant, PTL DEF Spec

-----------------------------------------------------------------------------
(* One process per landing directory.                                       *)

OwnHosts == \A v, w \in Workers : HostOf[v] = HostOf[w] => v = w

\* A process puts a file only where there is none.
ReplacesNothing ==
    \A w \in Workers : phase[w] \in {"downloaded", "materialized"} => Landed(w) = NoFile

\* While a call needs the file it has inspected, it is there or lost.
LandedIsInspected ==
    \A w \in Workers :
        /\ phase[w] \in {"count", "hash"} => Landed(w) \in {call[w].measured, NoFile}
        /\ phase[w] \in {"head", "put", "confirm", "register", "load"} =>
              Landed(w) \in {call[w].checksum, NoFile}

\* Both reads of the inspection saw one file.
InspectionsAgree ==
    /\ \A w \in Workers : phase[w] \in Inspected => call[w].measured = call[w].checksum
    /\ \A i \in DOMAIN source_files : source_files[i].measured = source_files[i].checksum

\* Every version of an object holds the bytes of its key, and says so.
ObjectsAreTrue ==
    /\ \A f \in Files : \A n \in DOMAIN objects[f] : objects[f][n] = [body |-> f, sha256 |-> f]
    /\ \A i \in DOMAIN source_files :
          source_files[i].storage.backend = "s3" =>
              source_files[i].storage.version \in DOMAIN objects[source_files[i].checksum]
    /\ \A w \in Workers :
          phase[w] \in StoredPhases /\ call[w].backend = "s3" =>
              call[w].version \in DOMAIN objects[call[w].checksum]

OwnHostsInv ==
    /\ AcquisitionInv
    /\ ReplacesNothing
    /\ LandedIsInspected
    /\ InspectionsAgree
    /\ ObjectsAreTrue
    /\ LoadedIsRegistered

\* With one process per directory, a file at a landing path is not replaced, and
\* the process it belongs to is the one that put it there.
LEMMA LandingIsPrivate ==
    ASSUME OwnHosts, OwnHostsInv, [Next]_vars, NEW w \in Workers
    PROVE  /\ Landed(w) # NoFile => landing'[HostOf[w]] \in {Landed(w), NoFile}
           /\ \/ landing'[HostOf[w]] \in {Landed(w), NoFile}
              \/ ReplaceLanding(w) \/ RestoreLanding(w)
<1>1. AcquisitionInv /\ ReplacesNothing
  BY DEF OwnHostsInv
<1>2. HostOf[w] \in Hosts
  BY HostAssumption
<1>3. CASE landing'[HostOf[w]] \in {Landed(w), NoFile}
  BY <1>3
<1>4. CASE landing'[HostOf[w]] \notin {Landed(w), NoFile}
  <2>1. PICK v \in Workers :
          /\ HostOf[v] = HostOf[w]
          /\ \/ ReplaceLanding(v) /\ phase[v] = "downloaded"
             \/ RestoreLanding(v) /\ phase[v] = "materialized"
    BY <1>1, <1>2, <1>4, LandingGetsFile DEF Landed
  <2>2. v = w
    BY <2>1 DEF OwnHosts
  <2>3. Landed(w) = NoFile
    BY <1>1, <2>1, <2>2 DEF ReplacesNothing
  <2> QED
    BY <2>1, <2>2, <2>3
<1> QED
  BY <1>3, <1>4

\* How a call comes to hold a partial file, to hash, and to rely on its file.
LEMMA PhaseComesFrom ==
    ASSUME AcquisitionInv, [Next]_vars, NEW w \in Workers
    PROVE  /\ phase'[w] \in {"downloaded", "materialized"} =>
                 \/ phase[w] = phase'[w] /\ call'[w] = call[w]
                    /\ ~ReplaceLanding(w) /\ ~RestoreLanding(w)
                 \/ Landed(w) = NoFile /\ UNCHANGED landing
           /\ phase'[w] \in {"count", "hash"} =>
                 \/ phase[w] \in {"count", "hash"} /\ call'[w].measured = call[w].measured
                 \/ call'[w].measured = Landed(w) /\ UNCHANGED landing
           /\ phase'[w] \in {"head", "put", "confirm", "register", "load"} =>
                 \/ phase[w] \in {"head", "put", "confirm", "register", "load"}
                    /\ call'[w].checksum = call[w].checksum
                 \/ call'[w].checksum = Landed(w) /\ UNCHANGED landing
<1> USE DEF Goto, store
<1>0. /\ phase \in [Workers -> Phases] /\ call \in [Workers -> Call] /\ call[w] \in Call
  BY DEF AcquisitionInv, TypeOK
<1>1. CASE UNCHANGED <<phase, call>>
  BY <1>0, <1>1 DEF ReplaceLanding, RestoreLanding, Return, Materialized
<1>2. ASSUME NEW v \in Workers, v # w, BeginCall(v) \/ Proceed(v) \/ PutInDoubt(v) \/ Abandon(v)
      PROVE  phase'[w] = phase[w] /\ call'[w] = call[w]
  BY <1>0, <1>2 DEF Return, Materialized,
         Proceed, BeginCall, BeginSource, BeginSync, BeginMaterialize, Begin,
         Recover, FetchObject, RestoreLanding, EnsureLocal, ReplaceLanding, MeasureSource,
         CountSource,
         HashSource, VerifyLocal, HeadObject, PutObject, PutInDoubt, ConfirmObject, RegisterSource,
         LoadSource, ReadStorage, FlushStorage, NextSource, Abandon
<1>3. phase'[w] = phase[w] /\ call'[w] = call[w] /\ phase[w] \in {"downloaded", "materialized"}
        => ~ReplaceLanding(w) /\ ~RestoreLanding(w)
  BY <1>0 DEF ReplaceLanding, RestoreLanding, Return, Materialized
<1>4. CASE \/ BeginCall(w) \/ Recover(w) \/ ReplaceLanding(w) \/ RestoreLanding(w)
           \/ ReadStorage(w) \/ FlushStorage(w) \/ NextSource(w) \/ Abandon(w) \/ PutInDoubt(w)
           \/ LoadSource(w)
  <2>1. phase'[w] \notin {"downloaded", "materialized", "count", "hash", "head", "put", "confirm",
                          "register", "load"}
    BY <1>0, <1>4 DEF Return, Materialized, BeginCall, BeginSource, BeginSync,
           BeginMaterialize, Begin, Recover, RestoreLanding, ReplaceLanding, ReadStorage,
           FlushStorage, NextSource, Abandon, PutInDoubt, LoadSource
  <2> QED
    BY <2>1
<1>5. CASE FetchObject(w) \/ EnsureLocal(w)
  <2>1. /\ phase'[w] \notin {"count", "hash", "head", "put", "confirm", "register", "load"}
        /\ phase'[w] \in {"downloaded", "materialized"} => Landed(w) = NoFile
        /\ UNCHANGED landing
    BY <1>0, <1>5 DEF Return, Materialized, FetchObject, EnsureLocal
  <2> QED
    BY <2>1
<1>6. CASE MeasureSource(w)
  <2>1. /\ phase'[w] \in {"count", "idle"}
        /\ phase'[w] = "count" => call'[w] = [call[w] EXCEPT !.measured = Landed(w)]
        /\ UNCHANGED landing
    BY <1>0, <1>6 DEF Return, MeasureSource
  <2> QED
    BY <1>0, <2>1 DEF Call
<1>10. CASE CountSource(w)
  <2>1. /\ phase[w] = "count" /\ phase'[w] \in {"hash", "idle"}
        /\ phase'[w] = "hash" => call'[w] = [call[w] EXCEPT !.counted = Landed(w)]
    BY <1>0, <1>10 DEF Return, CountSource
  <2> QED
    BY <1>0, <2>1 DEF Call
<1>7. CASE HashSource(w)
  BY <1>0, <1>7 DEF HashSource, Return
<1>8. CASE VerifyLocal(w)
  BY <1>0, <1>8 DEF VerifyLocal, Return, AfterStore
<1>9. CASE HeadObject(w) \/ PutObject(w) \/ ConfirmObject(w) \/ RegisterSource(w)
  <2>1. /\ phase[w] \in {"head", "put", "confirm", "register"}
        /\ phase'[w] \notin {"downloaded", "materialized", "count", "hash"}
    BY <1>0, <1>9 DEF HeadObject, PutObject, Upload, ConfirmObject, RegisterSource, Return,
                      AfterStore, AfterRegister
  <2>2. phase'[w] = "idle" \/ call'[w].checksum = call[w].checksum
    <3>1. CASE HeadObject(w)
      <4>1. \/ phase'[w] = "idle" \/ call'[w] = call[w]
            \/ \E n : call'[w] = [call[w] EXCEPT !.version = n]
        BY <1>0, <3>1 DEF HeadObject, Return
      <4> QED
        BY <1>0, <4>1 DEF Call
    <3>2. CASE PutObject(w)
      <4>1. \/ phase'[w] = "idle"
            \/ \E n : call'[w] = [call[w] EXCEPT !.version = n]
        BY <1>0, <3>2 DEF PutObject, Return
      <4> QED
        BY <1>0, <4>1 DEF Call
    <3>3. CASE ConfirmObject(w)
      BY <1>0, <3>3 DEF ConfirmObject, Return
    <3>4. CASE RegisterSource(w)
      BY <1>0, <3>4, RegisterAddsRow DEF Call
    <3> QED
      BY <1>9, <3>1, <3>2, <3>3, <3>4
  <2> QED
    BY <2>1, <2>2
<1> QED
  BY <1>1, <1>2, <1>3, <1>4, <1>5, <1>6, <1>7, <1>8, <1>9, <1>10
  DEF Next, Proceed, vars, LoseLanding, Republish

\* With one process per directory, what a call relies on at its landing path
\* stays there or is lost.
LEMMA StepLanded ==
    ASSUME OwnHosts, OwnHostsInv, [Next]_vars
    PROVE  ReplacesNothing' /\ LandedIsInspected'
<1>1. AcquisitionInv /\ ReplacesNothing /\ LandedIsInspected
  BY DEF OwnHostsInv
<1>2. ASSUME NEW w \in Workers, phase'[w] \in {"downloaded", "materialized"}
      PROVE  landing'[HostOf[w]] = NoFile
  <2>1. Landed(w) = NoFile
    BY <1>1, <1>2, PhaseComesFrom DEF ReplacesNothing
  <2>2. CASE UNCHANGED landing
    BY <2>1, <2>2 DEF Landed
  <2>3. CASE ~ReplaceLanding(w) /\ ~RestoreLanding(w)
    BY <2>1, <2>3, LandingIsPrivate
  <2> QED
    BY <1>1, <1>2, <2>2, <2>3, PhaseComesFrom
<1>3. ASSUME NEW w \in Workers, phase'[w] \in {"count", "hash"}
      PROVE  landing'[HostOf[w]] \in {call'[w].measured, NoFile}
  <2>1. CASE phase[w] \in {"count", "hash"} /\ call'[w].measured = call[w].measured
    <3>1. ~ReplaceLanding(w) /\ ~RestoreLanding(w)
      BY <2>1 DEF ReplaceLanding, RestoreLanding
    <3> QED
      BY <1>1, <2>1, <3>1, LandingIsPrivate DEF LandedIsInspected
  <2> QED
    BY <1>1, <1>3, <2>1, PhaseComesFrom DEF Landed
<1>4. ASSUME NEW w \in Workers, phase'[w] \in {"head", "put", "confirm", "register", "load"}
      PROVE  landing'[HostOf[w]] \in {call'[w].checksum, NoFile}
  <2>1. CASE phase[w] \in {"head", "put", "confirm", "register", "load"}
             /\ call'[w].checksum = call[w].checksum
    <3>1. ~ReplaceLanding(w) /\ ~RestoreLanding(w)
      BY <2>1 DEF ReplaceLanding, RestoreLanding
    <3> QED
      BY <1>1, <2>1, <3>1, LandingIsPrivate DEF LandedIsInspected
  <2> QED
    BY <1>1, <1>4, <2>1, PhaseComesFrom DEF Landed
<1> QED
  BY <1>2, <1>3, <1>4 DEF ReplacesNothing, LandedIsInspected, Landed

\* Both reads of the inspection saw one file, and so did a registration.
LEMMA StepInspections ==
    ASSUME OwnHostsInv, [Next]_vars
    PROVE  InspectionsAgree'
<1>0. AcquisitionInv /\ LandedIsInspected /\ InspectionsAgree
  BY DEF OwnHostsInv
<1>1. ASSUME NEW w \in Workers, phase'[w] \in Inspected
      PROVE  call'[w].measured = call'[w].checksum
  BY <1>0, <1>1, InspectedComesFrom, FileAssumption DEF InspectionsAgree, LandedIsInspected
<1>2. ASSUME NEW i \in DOMAIN source_files'
      PROVE  source_files'[i].measured = source_files'[i].checksum
  <2>1. CASE i \in DOMAIN source_files
    BY <1>0, <2>1, LedgerGrows DEF RowsAreKept, InspectionsAgree
  <2>2. CASE i \notin DOMAIN source_files
    <3>1. PICK w \in Workers : RegisterSource(w)
      BY <1>0, <1>2, <2>2, LedgerChanges, LoadFillsRow, FlushWritesStorage
    <3>2. phase[w] \in Inspected
      BY <3>1 DEF RegisterSource, Inspected
    <3>3. /\ source_files'[i].checksum = call[w].checksum
          /\ source_files'[i].measured = call[w].measured
      BY <1>0, <1>2, <2>2, <3>1, RegisterAddsRow
    <3> QED
      BY <1>0, <3>2, <3>3 DEF InspectionsAgree
  <2> QED
    BY <2>1, <2>2
<1> QED
  BY <1>1, <1>2 DEF InspectionsAgree

\* What is loaded is what the row is the checksum of.
LEMMA StepLoaded ==
    ASSUME OwnHostsInv, [Next]_vars
    PROVE  LoadedIsRegistered'
<1>0. AcquisitionInv /\ LandedIsInspected /\ LoadedIsRegistered /\ source_files \in Seq(SourceFile)
  BY DEF OwnHostsInv, AcquisitionInv, TypeOK
<1>1. CASE UNCHANGED source_files
  BY <1>0, <1>1 DEF LoadedIsRegistered
<1>2. ASSUME NEW w \in Workers, RegisterSource(w) PROVE LoadedIsRegistered'
  BY <1>0, <1>2, RegisterAddsRow, ZenonT(40) DEF LoadedIsRegistered
<1>3. ASSUME NEW w \in Workers, LoadSource(w), ~UNCHANGED source_files PROVE LoadedIsRegistered'
  <2> DEFINE id == call[w].id
             f == Landed(w)
  <2>1. /\ id \in DOMAIN source_files /\ f \in Readable
        /\ DOMAIN source_files' = DOMAIN source_files
        /\ \A i \in DOMAIN source_files :
              source_files'[i] = IF i = id
                                 THEN [source_files[i] EXCEPT !.status = "loaded", !.loaded = f]
                                 ELSE source_files[i]
    BY <1>0, <1>3, LoadFillsRow
  <2>2. phase[w] = "load" /\ source_files[id].checksum = call[w].checksum
    BY <1>0, <1>3 DEF LoadSource, AcquisitionInv, CallFits, KnowsItsRow, RowPhases
  <2>3. f = call[w].checksum
    BY <1>0, <2>1, <2>2, FileAssumption DEF LandedIsInspected
  <2> HIDE DEF f, id
  <2>4. source_files[id] \in SourceFile
    <3>1. id \in DOMAIN source_files
      BY <2>1
    <3> QED
      BY <1>0, <3>1
  <2>5. source_files'[id].loaded = source_files'[id].checksum
    BY <2>1, <2>2, <2>3, <2>4 DEF SourceFile, id
  <2> QED
    BY <1>0, <2>1, <2>5 DEF LoadedIsRegistered
<1>4. ASSUME NEW w \in Workers, FlushStorage(w) PROVE LoadedIsRegistered'
  <2> DEFINE id == call[w].id
             s == Flush(source_files[id].storage, call[w].storage, StorageResult(call[w]))
  <2>1. /\ id \in DOMAIN source_files
        /\ DOMAIN source_files' = DOMAIN source_files
        /\ \A i \in DOMAIN source_files :
              source_files'[i] = IF i = id THEN [source_files[i] EXCEPT !.storage = s]
                                 ELSE source_files[i]
    BY <1>0, <1>4, FlushWritesStorage
  <2> HIDE DEF s, id
  <2>2. source_files[id] \in SourceFile
    BY <1>0, <2>1
  <2>3. /\ source_files'[id].status = source_files[id].status
        /\ source_files'[id].loaded = source_files[id].loaded
        /\ source_files'[id].checksum = source_files[id].checksum
    BY <2>1, <2>2 DEF SourceFile
  <2> QED
    BY <1>0, <2>1, <2>3 DEF LoadedIsRegistered
<1> QED
  BY <1>1, <1>2, <1>3, <1>4, LedgerChanges

\* Uploads add versions that hold the bytes of the key.
LEMMA ObjectsGrow ==
    ASSUME OwnHostsInv, [Next]_vars
    PROVE  \A f \in Files :
             /\ DOMAIN objects[f] \subseteq DOMAIN objects'[f]
             /\ \A n \in DOMAIN objects'[f] : objects'[f][n] = [body |-> f, sha256 |-> f]
<1>0. AcquisitionInv /\ LandedIsInspected /\ objects \in [Files -> Seq(S3Object)]
  BY DEF OwnHostsInv, AcquisitionInv, TypeOK
<1>1. \A f \in Files : \A n \in DOMAIN objects[f] : objects[f][n] = [body |-> f, sha256 |-> f]
  BY DEF OwnHostsInv, ObjectsAreTrue
<1>2. CASE UNCHANGED objects
  BY <1>1, <1>2
<1>3. ASSUME NEW w \in Workers, Upload(w)
      PROVE  \A f \in Files :
               /\ DOMAIN objects[f] \subseteq DOMAIN objects'[f]
               /\ \A n \in DOMAIN objects'[f] : objects'[f][n] = [body |-> f, sha256 |-> f]
  <2> DEFINE k == call[w].checksum
             o == [body |-> k, sha256 |-> k]
  <2>1. k \in Files /\ phase[w] = "put"
    BY <1>0, <1>3 DEF Upload, AcquisitionInv, CallFits, KnowsItsFile, Inspected
  <2>2. Landed(w) = k
    BY <1>0, <1>3, <2>1 DEF Upload, LandedIsInspected
  <2>3. objects' = [objects EXCEPT ![k] = Append(objects[k], o)]
    BY <1>3, <2>2 DEF Upload, s3_key
  <2>4. o \in S3Object /\ objects[k] \in Seq(S3Object)
    BY <1>0, <2>1 DEF S3Object
  <2>5. /\ DOMAIN Append(objects[k], o) = DOMAIN objects[k] \cup {Len(objects[k]) + 1}
        /\ \A n \in DOMAIN objects[k] : Append(objects[k], o)[n] = objects[k][n]
        /\ Append(objects[k], o)[Len(objects[k]) + 1] = o
    <3> HIDE DEF o, k
    <3> QED
      BY <2>4
  <2>6. \A n \in DOMAIN Append(objects[k], o) : Append(objects[k], o)[n] = o
    BY <1>1, <2>1, <2>5
  <2> HIDE DEF k
  <2> QED
    BY <1>0, <1>1, <2>1, <2>3, <2>5, <2>6
<1>4. UNCHANGED objects \/ \E w \in Workers : Upload(w)
  BY ZenonT(40) DEF Next, vars, store, Proceed, BeginCall, BeginSource, BeginSync,
     BeginMaterialize, Begin,
         Recover, FetchObject, RestoreLanding, EnsureLocal, ReplaceLanding, MeasureSource,
         CountSource,
         HashSource, VerifyLocal, HeadObject, PutObject, PutInDoubt, ConfirmObject, RegisterSource,
         LoadSource, ReadStorage, FlushStorage, NextSource, Abandon, LoseLanding, Republish
<1> QED
  BY <1>2, <1>3, <1>4

\* A call that stored its file in S3 mode has a version of the object.
LEMMA StepVersions ==
    ASSUME OwnHostsInv, [Next]_vars, NEW w \in Workers,
           phase'[w] \in StoredPhases, call'[w].backend = "s3"
    PROVE  call'[w].version \in DOMAIN objects'[call'[w].checksum]
<1> USE DEF Goto, store
<1>0. /\ AcquisitionInv /\ objects \in [Files -> Seq(S3Object)]
      /\ phase \in [Workers -> Phases] /\ call \in [Workers -> Call] /\ call[w] \in Call
  BY DEF OwnHostsInv, AcquisitionInv, TypeOK
<1>1. phase[w] \in StoredPhases /\ call[w].backend = "s3" =>
        /\ call[w].checksum \in Files
        /\ call[w].version \in DOMAIN objects[call[w].checksum]
  BY <1>0 DEF OwnHostsInv, ObjectsAreTrue, AcquisitionInv, CallFits, KnowsItsFile, Inspected,
              StoredPhases
<1>2. CASE /\ phase[w] \in StoredPhases /\ call'[w].backend = call[w].backend
           /\ call'[w].checksum = call[w].checksum /\ call'[w].version = call[w].version
  BY <1>1, <1>2, ObjectsGrow
<1>3. CASE phase'[w] = phase[w] /\ call'[w] = call[w]
  BY <1>2, <1>3
<1>4. ASSUME NEW v \in Workers, v # w, BeginCall(v) \/ Proceed(v) \/ PutInDoubt(v) \/ Abandon(v)
      PROVE  phase'[w] = phase[w] /\ call'[w] = call[w]
  BY <1>0, <1>4 DEF Return, Materialized,
         Proceed, BeginCall, BeginSource, BeginSync, BeginMaterialize, Begin,
         Recover, FetchObject, RestoreLanding, EnsureLocal, ReplaceLanding, MeasureSource,
         CountSource,
         HashSource, VerifyLocal, HeadObject, PutObject, PutInDoubt, ConfirmObject, RegisterSource,
         LoadSource, ReadStorage, FlushStorage, NextSource, Abandon
<1>5. ~Return(w)
  BY <1>0 DEF Return, StoredPhases
<1>6. CASE \/ BeginCall(w) \/ Recover(w) \/ FetchObject(w) \/ RestoreLanding(w)
           \/ EnsureLocal(w) \/ ReplaceLanding(w) \/ MeasureSource(w) \/ CountSource(w) \/ HashSource(w)
           \/ FlushStorage(w) \/ NextSource(w) \/ Abandon(w) \/ PutInDoubt(w)
  <2>1. phase'[w] \notin StoredPhases
    BY <1>0, <1>6 DEF Return, Materialized, BeginCall, BeginSource, BeginSync, StoredPhases,
           BeginMaterialize, Begin, Recover, FetchObject, RestoreLanding, EnsureLocal,
           ReplaceLanding, MeasureSource, CountSource, HashSource, FlushStorage, NextSource,
           Abandon, PutInDoubt
  <2> QED
    BY <2>1
<1>7. CASE VerifyLocal(w)
  <2>1. call'[w].backend = "s3" => phase'[w] \in {"head", "idle"}
    BY <1>0, <1>7 DEF VerifyLocal, Return
  <2> QED
    BY <2>1 DEF StoredPhases
<1>8. CASE HeadObject(w)
  <2> DEFINE k == call[w].checksum
             existing == objects[k]
  <2>1. k \in Files /\ existing \in Seq(S3Object)
    BY <1>0, <1>8 DEF HeadObject, AcquisitionInv, CallFits, KnowsItsFile, Inspected
  <2>2. existing # <<>> /\ call'[w] = [call[w] EXCEPT !.version = Len(existing)]
    BY <1>0, <1>5, <1>8 DEF HeadObject, s3_key, StoredPhases
  <2>3. call'[w].version = Len(existing) /\ call'[w].checksum = k
    BY <1>0, <2>2 DEF Call
  <2>4. Len(existing) \in DOMAIN existing
    <3> HIDE DEF existing
    <3> QED
      BY <2>1, <2>2
  <2> QED
    BY <2>1, <2>3, <2>4, ObjectsGrow
<1>9. CASE PutObject(w)
  <2> DEFINE k == call[w].checksum
  <2>1. k \in Files /\ objects[k] \in Seq(S3Object)
    BY <1>0, <1>9 DEF PutObject, Upload, AcquisitionInv, CallFits, KnowsItsFile, Inspected
  <2>2. /\ call'[w] = [call[w] EXCEPT !.version = Len(objects'[k])]
        /\ objects' = [objects EXCEPT ![k] = Append(@, [body |-> Landed(w), sha256 |-> k])]
    BY <1>0, <1>5, <1>9 DEF PutObject, Upload, s3_key
  <2>3. call'[w].version = Len(objects'[k]) /\ call'[w].checksum = k
    <3> DEFINE n == Len(objects'[k])
    <3> HIDE DEF n
    <3>1. call'[w] = [call[w] EXCEPT !.version = n]
      BY <2>2 DEF n
    <3>2. call'[w].version = n /\ call'[w].checksum = k
      BY <1>0, <3>1 DEF Call
    <3> QED
      BY <3>2 DEF n
  <2>4. Len(objects'[k]) \in DOMAIN objects'[k]
    <3> DEFINE o == [body |-> Landed(w), sha256 |-> k]
    <3>1. objects'[k] = Append(objects[k], o)
      BY <1>0, <2>1, <2>2
    <3> HIDE DEF o, k
    <3> QED
      BY <2>1, <3>1, AppendProperties
  <2> QED
    BY <2>3, <2>4
<1>10. CASE ConfirmObject(w) \/ LoadSource(w)
  <2>1. phase[w] \in StoredPhases /\ call'[w] = call[w]
    BY <1>0, <1>5, <1>10 DEF ConfirmObject, LoadSource, StoredPhases
  <2> QED
    BY <1>2, <2>1
<1>11. CASE RegisterSource(w)
  <2>1. call'[w] = [call[w] EXCEPT !.id = call'[w].id] /\ phase[w] = "register"
    BY <1>0, <1>11, RegisterAddsRow DEF RegisterSource
  <2> QED
    BY <1>0, <1>2, <2>1 DEF Call, StoredPhases
<1>12. CASE ReadStorage(w)
  <2>1. phase[w] = "persist" /\ (call'[w] = call[w] \/ \E s : call'[w] = [call[w] EXCEPT !.storage = s])
    BY <1>0, <1>12 DEF ReadStorage
  <2> QED
    BY <1>0, <1>2, <2>1 DEF Call, StoredPhases
<1> QED
  BY <1>3, <1>4, <1>6, <1>7, <1>8, <1>9, <1>10, <1>11, <1>12
  DEF Next, Proceed, vars, LoseLanding, Republish

\* A row that records an object records one of its versions.
LEMMA StepObjects ==
    ASSUME OwnHostsInv, [Next]_vars
    PROVE  ObjectsAreTrue'
<1>0. AcquisitionInv /\ ObjectsAreTrue /\ source_files \in Seq(SourceFile)
  BY DEF OwnHostsInv, AcquisitionInv, TypeOK
<1>1. ASSUME NEW i \in DOMAIN source_files PROVE source_files[i] \in SourceFile /\ source_files[i].checksum \in Files
  <2>1. source_files[i] \in SourceFile
    BY <1>0, <1>1
  <2> QED
    BY <2>1 DEF SourceFile
<1> DEFINE RowIsTrue(i) ==
      source_files[i].storage.backend = "s3" =>
          source_files[i].storage.version \in DOMAIN objects[source_files[i].checksum]
           StaysTrue(i) ==
      source_files'[i].storage.backend = "s3" =>
          source_files'[i].storage.version \in DOMAIN objects'[source_files'[i].checksum]
<1>2. \A i \in DOMAIN source_files : RowIsTrue(i)
  BY <1>0 DEF ObjectsAreTrue
<1>3. ASSUME NEW i \in DOMAIN source_files, source_files'[i].storage = source_files[i].storage
      PROVE  StaysTrue(i)
  <2>1. source_files'[i].checksum = source_files[i].checksum
    BY <1>0, <1>3, LedgerGrows DEF RowsAreKept
  <2> QED
    BY <1>1, <1>2, <1>3, <2>1, ObjectsGrow
<1>4. ASSUME UNCHANGED source_files PROVE \A i \in DOMAIN source_files' : StaysTrue(i)
  BY <1>3, <1>4
<1>5. ASSUME NEW w \in Workers, RegisterSource(w)
      PROVE  \A i \in DOMAIN source_files' : StaysTrue(i)
  <2>1. ASSUME NEW i \in DOMAIN source_files' PROVE StaysTrue(i)
    <3>1. CASE i \in DOMAIN source_files
      BY <1>0, <1>3, <1>5, <3>1, RegisterAddsRow
    <3>2. CASE i \notin DOMAIN source_files
      <4>1. source_files'[i].storage = LocalStorage
        BY <1>0, <1>5, <2>1, <3>2, RegisterAddsRow
      <4> QED
        BY <4>1 DEF LocalStorage
    <3> QED
      BY <3>1, <3>2
  <2> QED
    BY <2>1
<1>6. ASSUME NEW w \in Workers, LoadSource(w), ~UNCHANGED source_files
      PROVE  \A i \in DOMAIN source_files' : StaysTrue(i)
  <2>1. /\ DOMAIN source_files' = DOMAIN source_files
        /\ \A i \in DOMAIN source_files :
              source_files'[i] = IF i = call[w].id
                                 THEN [source_files[i] EXCEPT !.status = "loaded",
                                                              !.loaded = Landed(w)]
                                 ELSE source_files[i]
    BY <1>0, <1>6, LoadFillsRow
  <2>2. \A i \in DOMAIN source_files : source_files'[i].storage = source_files[i].storage
    BY <1>1, <2>1 DEF SourceFile
  <2> QED
    BY <1>3, <2>1, <2>2
<1>7. ASSUME NEW w \in Workers, FlushStorage(w)
      PROVE  \A i \in DOMAIN source_files' : StaysTrue(i)
  <2> DEFINE c == call[w]
             was == source_files[c.id].storage
             is == source_files'[c.id].storage
  <2>1. /\ c.id \in DOMAIN source_files /\ c.checksum \in Files
        /\ source_files[c.id].checksum = c.checksum
    BY <1>0, <1>7, FlushWritesStorage
  <2>2. is = [backend |-> IF c.backend = c.storage.backend THEN was.backend ELSE c.backend,
              uri |-> IF StorageResult(c).uri = c.storage.uri THEN was.uri ELSE StorageResult(c).uri,
              version |-> IF c.version = c.storage.version THEN was.version ELSE c.version,
              stored_at |-> c.backend]
    BY <1>0, <1>7, FlushWritesStorage
  <2>3. /\ DOMAIN source_files' = DOMAIN source_files
        /\ \A i \in DOMAIN source_files : i # c.id => source_files'[i] = source_files[i]
    BY <1>0, <1>7, FlushWritesStorage
  <2>4. /\ c.backend \in {"local", "s3"} /\ (c.version = 0 <=> c.backend = "local")
        /\ RecordsObject(c.storage, c.checksum)
        /\ c.backend = "local" => c.storage.backend = "local"
        /\ c.storage.backend = "s3" => was.backend = "s3"
    BY <1>0, <1>7 DEF AcquisitionInv, TypeOK, Call, FlushStorage, CallFits, IsOfOneBackend,
                      StoredPhases, ReadRecordsLast
  <2>5. /\ was.backend = "s3" => was.version \in DOMAIN objects[c.checksum]
        /\ c.backend = "s3" => c.version \in DOMAIN objects[c.checksum]
    BY <1>0, <1>7, <2>1 DEF ObjectsAreTrue, FlushStorage, StoredPhases
  <2>6. /\ is.backend = IF c.backend = c.storage.backend THEN was.backend ELSE c.backend
        /\ is.version = IF c.version = c.storage.version THEN was.version ELSE c.version
    BY <2>2
  <2>7. source_files'[c.id].checksum = c.checksum
    BY <1>0, <2>1, LedgerGrows DEF RowsAreKept
  <2> HIDE DEF is, was, c
  <2>8. is.backend = "s3" => is.version \in DOMAIN objects[c.checksum]
    BY <2>4, <2>5, <2>6 DEF RecordsObject
  <2>9. StaysTrue(c.id)
    BY <2>1, <2>7, <2>8, ObjectsGrow DEF is
  <2> QED
    BY <1>3, <2>3, <2>9
<1>8. \A i \in DOMAIN source_files' : StaysTrue(i)
  BY <1>4, <1>5, <1>6, <1>7, LedgerChanges
<1> QED
  BY <1>8, ObjectsGrow, StepVersions DEF ObjectsAreTrue

\* The invariant of one process per directory.
LEMMA OwnHostsInvariant == ASSUME OwnHosts PROVE Spec => []OwnHostsInv
<1>1. Init => ReplacesNothing /\ LandedIsInspected /\ InspectionsAgree /\ ObjectsAreTrue
              /\ LoadedIsRegistered
  BY DEF Init, ReplacesNothing, LandedIsInspected, InspectionsAgree, ObjectsAreTrue,
         LoadedIsRegistered, Inspected, StoredPhases
<1>2. AcquisitionInv /\ AcquisitionInv' /\ OwnHostsInv /\ [Next]_vars => OwnHostsInv'
  <2> SUFFICES ASSUME AcquisitionInv', OwnHostsInv, [Next]_vars PROVE OwnHostsInv'
    OBVIOUS
  <2>1. ReplacesNothing' /\ LandedIsInspected'
    BY StepLanded
  <2>2. InspectionsAgree'
    BY StepInspections
  <2>3. ObjectsAreTrue'
    BY StepObjects
  <2>4. LoadedIsRegistered'
    BY StepLoaded
  <2> QED
    BY <2>1, <2>2, <2>3, <2>4 DEF OwnHostsInv
<1>3. AcquisitionInv /\ Init => OwnHostsInv
  BY <1>1 DEF OwnHostsInv
<1> QED
  BY <1>2, <1>3, AcquisitionInvariant, PTL DEF Spec

\* With one process per landing directory, a file at a landing path is never
\* replaced, only removed: ensure_local and the recovery from S3 check before
\* their unconditional replace, and nobody else acts in between.
THEOREM LandingFilesAreImmutable == ASSUME OwnHosts PROVE Spec => LandingIsImmutable
<1>1. OwnHostsInv /\ [Next]_vars =>
        [ \A h \in Hosts : landing[h] # NoFile => landing'[h] \in {landing[h], NoFile} ]_vars
  <2> SUFFICES ASSUME OwnHostsInv, [Next]_vars, NEW h \in Hosts, landing[h] # NoFile
               PROVE  landing'[h] \in {landing[h], NoFile}
    OBVIOUS
  <2>1. AcquisitionInv /\ ReplacesNothing
    BY DEF OwnHostsInv
  <2> QED
    BY <2>1, LandingGetsFile DEF ReplacesNothing, Landed
<1> QED
  BY <1>1, OwnHostsInvariant, PTL DEF Spec, LandingIsImmutable

\* With one process per landing directory, the rows in raw are those of the file
\* the version is the checksum of, though the load opens the path again.
THEOREM LoadsMatchRegistrations == ASSUME OwnHosts PROVE Spec => []LoadedIsRegistered
<1>1. OwnHostsInv => LoadedIsRegistered
  BY DEF OwnHostsInv
<1> QED
  BY <1>1, OwnHostsInvariant, PTL

\* With one process per landing directory, every version of an S3 object holds
\* the bytes that its key is the checksum of.
THEOREM ObjectsHoldTheirKeys == ASSUME OwnHosts PROVE Spec => []ObjectsMatchKeys
<1>1. OwnHostsInv => ObjectsMatchKeys
  <2> SUFFICES ASSUME OwnHostsInv, NEW f \in Files, NEW n \in DOMAIN objects[f]
               PROVE  objects[f][n].body = f
    BY DEF ObjectsMatchKeys
  <2>1. objects[f][n] = [body |-> f, sha256 |-> f]
    BY DEF OwnHostsInv, ObjectsAreTrue
  <2> QED
    BY <2>1
<1> QED
  BY <1>1, OwnHostsInvariant, PTL

\* With one process per landing directory, a row that records an S3 object can
\* be recovered from it.
THEOREM RecordedObjectsRecover == ASSUME OwnHosts PROVE Spec => []BackedSourcesRecover
<1>1. OwnHostsInv => BackedSourcesRecover
  <2> SUFFICES ASSUME OwnHostsInv, NEW i \in DOMAIN source_files,
                      source_files[i].storage.backend = "s3"
               PROVE  LET row == source_files[i]
                          versions == objects[row.storage.uri]
                      IN  /\ row.storage.uri # NoFile /\ row.storage.version \in DOMAIN versions
                          /\ Last(versions).body = row.checksum
                          /\ versions[row.storage.version].body = row.checksum
                          /\ Len(versions) = 1 => VerifyAccepts(i)
    BY DEF BackedSourcesRecover
  <2> DEFINE row == source_files[i]
             versions == objects[row.storage.uri]
  <2>1. row.checksum \in Files /\ objects \in [Files -> Seq(S3Object)]
    <3>1. source_files \in Seq(SourceFile) /\ objects \in [Files -> Seq(S3Object)]
      BY DEF OwnHostsInv, AcquisitionInv, TypeOK
    <3>2. row \in SourceFile
      BY <3>1
    <3> QED
      BY <3>1, <3>2 DEF SourceFile
  <2>2. row.storage.uri = row.checksum /\ row.storage.uri # NoFile
    BY <2>1, FileAssumption DEF OwnHostsInv, AcquisitionInv, RowsAreOfOneBackend, RecordsObject,
       s3_key
  <2>3. /\ versions \in Seq(S3Object) /\ row.storage.version \in DOMAIN versions
        /\ \A n \in DOMAIN versions :
              versions[n].body = row.checksum /\ versions[n].sha256 = row.checksum
    BY <2>1, <2>2 DEF OwnHostsInv, ObjectsAreTrue
  <2>4. row.measured = row.checksum
    BY DEF OwnHostsInv, InspectionsAgree
  <2>5. versions # <<>> /\ Last(versions).body = row.checksum /\ Last(versions).sha256 = row.checksum
    <3> HIDE DEF versions, row
    <3>1. versions # <<>>
      BY <2>3
    <3> QED
      BY <2>3, <3>1, LastType
  <2>6. HeadMatches(row)
    BY <2>2, <2>4, <2>5 DEF HeadMatches, s3_key
  <2>7. Len(versions) = 1 => row.storage.version = Len(versions)
    <3> HIDE DEF versions
    <3> QED
      BY <2>3
  <2>8. Len(versions) = 1 => VerifyAccepts(i)
    BY <2>2, <2>5, <2>6, <2>7 DEF VerifyAccepts, s3_key
  <2> QED
    BY <2>2, <2>3, <2>5, <2>8
<1> QED
  BY <1>1, OwnHostsInvariant, PTL

-----------------------------------------------------------------------------
(* The ledger.                                                              *)

\* A version of the partition is a file.  A call stands for the attempt it may
\* record; which one loaded a version is not kept here, so it is the first.
StatusOf(f) == IF IdOf(f) = 0 THEN "absent" ELSE source_files[IdOf(f)].status

RowsOf(f) ==
    IF StatusOf(f) = "loaded"
    THEN {[row |-> n, run |-> 1] : n \in 1..Rows[source_files[IdOf(f)].loaded]}
    ELSE {}

Ledger == INSTANCE SourceLedger WITH
    Versions <- Files,
    PartitionOf <- [f \in Files |-> "partition"],
    RowCount <- Rows,
    status <- [f \in Files |-> StatusOf(f)],
    contents <- [f \in Files |-> RowsOf(f)],
    attempts <- calls

\* What the readers of the ledger rely on, for the versions of one partition.
ImplementsSourceLedger == Ledger!Spec

\* A version has one row, and a process that works is in a call.
VersionsAreUnique ==
    \A i, j \in DOMAIN source_files :
        source_files[i].checksum = source_files[j].checksum => i = j

CallsAreCounted == \A w \in Workers : phase[w] # "idle" => calls # 0

LedgerInv == OwnHostsInv /\ VersionsAreUnique /\ CallsAreCounted

\* What readers see of a version is what its row says, with the rows of the file
\* that the version is the checksum of.
LedgerIsOfRows ==
    \A f \in Files :
        /\ (\A i \in DOMAIN source_files : source_files[i].checksum # f) =>
              StatusOf(f) = "absent" /\ RowsOf(f) = {}
        /\ \A i \in DOMAIN source_files :
              source_files[i].checksum = f =>
                  /\ StatusOf(f) = source_files[i].status
                  /\ StatusOf(f) # "absent"
                  /\ RowsOf(f) = IF source_files[i].status = "loaded"
                                 THEN {[row |-> n, run |-> 1] : n \in 1..Rows[f]} ELSE {}

\* The row that the lookup finds says what readers see.
LEMMA LedgerFollowsRows == LedgerInv => LedgerIsOfRows
<1> SUFFICES ASSUME LedgerInv, NEW f \in Files
             PROVE  /\ (\A i \in DOMAIN source_files : source_files[i].checksum # f) =>
                          StatusOf(f) = "absent" /\ RowsOf(f) = {}
                    /\ \A i \in DOMAIN source_files :
                          source_files[i].checksum = f =>
                             /\ StatusOf(f) = source_files[i].status
                             /\ StatusOf(f) # "absent"
                             /\ RowsOf(f) = IF source_files[i].status = "loaded"
                                   THEN {[row |-> n, run |-> 1] : n \in 1..Rows[f]} ELSE {}
  BY DEF LedgerIsOfRows
<1>1. source_files \in Seq(SourceFile) /\ VersionsAreUnique /\ LoadedIsRegistered
  BY DEF LedgerInv, OwnHostsInv, AcquisitionInv, TypeOK
<1>2. ASSUME \A i \in DOMAIN source_files : source_files[i].checksum # f
      PROVE  StatusOf(f) = "absent" /\ RowsOf(f) = {}
  BY <1>1, <1>2, IdOfFindsVersion DEF StatusOf, RowsOf
<1>3. ASSUME NEW i \in DOMAIN source_files, source_files[i].checksum = f
      PROVE  /\ StatusOf(f) = source_files[i].status
             /\ StatusOf(f) # "absent"
             /\ RowsOf(f) = IF source_files[i].status = "loaded"
                            THEN {[row |-> n, run |-> 1] : n \in 1..Rows[f]} ELSE {}
  <2>1. IdOf(f) = i /\ IdOf(f) # 0
    BY <1>1, <1>3, IdOfFindsVersion DEF VersionsAreUnique
  <2>2. source_files[i] \in SourceFile
    BY <1>1
  <2>3. StatusOf(f) = source_files[i].status /\ StatusOf(f) # "absent"
    BY <2>1, <2>2 DEF StatusOf, SourceFile
  <2>4. source_files[i].status = "loaded" => source_files[i].loaded = f
    BY <1>1, <1>3 DEF LoadedIsRegistered
  <2> QED
    BY <2>1, <2>3, <2>4 DEF RowsOf
<1> QED
  BY <1>2, <1>3

\* A call begins with one more call, and no other step counts one.
LEMMA CallsChange ==
    ASSUME [Next]_vars
    PROVE  \/ UNCHANGED calls
           \/ calls' = calls + 1 /\ UNCHANGED source_files
BY ZenonT(60) DEF Next, vars, store, Proceed, BeginCall, BeginSource, BeginSync, BeginMaterialize,
       Begin, Recover, FetchObject, RestoreLanding, EnsureLocal, ReplaceLanding, MeasureSource,
       CountSource,
       HashSource, VerifyLocal, HeadObject, PutObject, PutInDoubt, ConfirmObject,
       RegisterSource, LoadSource, ReadStorage, FlushStorage, NextSource, Abandon,
       LoseLanding, Republish

\* Every step keeps a version in one row: a registration adds the row of a
\* version that has none.
LEMMA StepUnique ==
    ASSUME OwnHostsInv, VersionsAreUnique, [Next]_vars
    PROVE  VersionsAreUnique'
<1>0. AcquisitionInv /\ source_files \in Seq(SourceFile)
  BY DEF OwnHostsInv, AcquisitionInv, TypeOK
<1>1. RowsAreKept
  BY <1>0, LedgerGrows
<1>2. CASE DOMAIN source_files' = DOMAIN source_files
  BY <1>1, <1>2 DEF RowsAreKept, VersionsAreUnique
<1>3. CASE DOMAIN source_files' # DOMAIN source_files
  <2>1. PICK w \in Workers : RegisterSource(w)
    BY <1>0, <1>3, LedgerChanges, LoadFillsRow, FlushWritesStorage
  <2> DEFINE f == call[w].checksum
             n == Len(source_files) + 1
  <2>2. /\ IdOf(f) = 0
        /\ \E row : source_files' = Append(source_files, row)
    BY <1>3, <2>1 DEF RegisterSource, KnownId
  <2>3. \A i \in DOMAIN source_files : source_files[i].checksum # f
    BY <1>0, <2>2, IdOfFindsVersion
  <2>4. DOMAIN source_files' = DOMAIN source_files \cup {n} /\ n \notin DOMAIN source_files
    BY <1>0, <2>2
  <2>5. source_files'[n].checksum = f
    BY <1>0, <2>1, <2>4, RegisterAddsRow
  <2> HIDE DEF f, n
  <2> QED
    BY <1>1, <2>3, <2>4, <2>5 DEF RowsAreKept, VersionsAreUnique
<1> QED
  BY <1>2, <1>3

\* Every step keeps the count of calls.
LEMMA StepCounted ==
    ASSUME AcquisitionInv, CallsAreCounted, [Next]_vars
    PROVE  CallsAreCounted'
<1>1. calls \in Nat
  BY BoundAssumption DEF AcquisitionInv, TypeOK
<1>2. CASE calls' = calls + 1
  BY <1>1, <1>2 DEF CallsAreCounted
<1>3. CASE UNCHANGED calls
  <2>1. ASSUME NEW w \in Workers, phase'[w] # "idle" PROVE \E v \in Workers : phase[v] # "idle"
    <3>1. CASE UNCHANGED phase
      BY <2>1, <3>1
    <3>2. ASSUME NEW v \in Workers, BeginCall(v) PROVE calls' = calls + 1
      BY <3>2 DEF BeginCall, BeginSource, BeginSync, BeginMaterialize, Begin
    <3>3. ASSUME NEW v \in Workers, Proceed(v) \/ PutInDoubt(v) \/ Abandon(v)
          PROVE  phase[v] # "idle"
      BY <3>3, ZenonT(60)
      DEF Proceed, Recover, FetchObject, RestoreLanding, EnsureLocal, ReplaceLanding,
          MeasureSource, CountSource, HashSource, VerifyLocal, HeadObject, PutObject, PutInDoubt,
          ConfirmObject, RegisterSource, LoadSource, ReadStorage, FlushStorage, NextSource,
          Abandon, Upload
    <3>4. CASE ~UNCHANGED phase
      BY <1>1, <1>3, <3>2, <3>3, <3>4 DEF Next, vars, LoseLanding, Republish
    <3> QED
      BY <3>1, <3>4
  <2> QED
    BY <1>3, <2>1 DEF CallsAreCounted
<1> QED
  BY <1>2, <1>3, CallsChange

\* The invariant that the mapping needs.
LEMMA LedgerInvariant == ASSUME OwnHosts PROVE Spec => []LedgerInv
<1>1. Init => VersionsAreUnique /\ CallsAreCounted
  BY DEF Init, VersionsAreUnique, CallsAreCounted
<1>2. OwnHostsInv /\ OwnHostsInv' /\ LedgerInv /\ [Next]_vars => LedgerInv'
  BY StepUnique, StepCounted DEF LedgerInv, OwnHostsInv
<1>3. OwnHostsInv /\ Init => LedgerInv
  BY <1>1 DEF LedgerInv
<1> QED
  BY <1>2, <1>3, OwnHostsInvariant, PTL DEF Spec

\* With one process per landing directory, the steps of Acquisition are those
\* that readers of the ledger expect: a version is registered once, blocked only
\* if the partition is known, and loaded once, from ready, with as many rows as
\* the file it is the checksum of, though the load opens the landing path again.
THEOREM AcquisitionKeepsLedger == ASSUME OwnHosts PROVE Spec => ImplementsSourceLedger
<1>1. Init => Ledger!Init
  <2> SUFFICES ASSUME Init PROVE Ledger!Init
    OBVIOUS
  <2>1. source_files = <<>> /\ calls = 0
    BY DEF Init
  <2>2. ASSUME NEW f PROVE IdOf(f) = 0
    BY <2>1, IdOfFindsVersion
  <2> QED
    BY <2>1, <2>2 DEF Ledger!Init, StatusOf, RowsOf
<1>2. LedgerInv /\ LedgerIsOfRows /\ LedgerIsOfRows' /\ [Next]_vars
        => [Ledger!Next]_(Ledger!ledger)
  <2> SUFFICES ASSUME LedgerInv, LedgerIsOfRows, LedgerIsOfRows', [Next]_vars
               PROVE  [Ledger!Next]_(Ledger!ledger)
    OBVIOUS
  <2> DEFINE status == [f \in Files |-> StatusOf(f)]
             contents == [f \in Files |-> RowsOf(f)]
  <2>0. /\ AcquisitionInv /\ OwnHostsInv /\ RowsAreKept /\ source_files \in Seq(SourceFile)
    BY LedgerGrows DEF LedgerInv, OwnHostsInv, AcquisitionInv, TypeOK
  <2>1. CASE UNCHANGED source_files
    <3>1. status' = status /\ contents' = contents
      BY <2>1 DEF StatusOf, RowsOf, IdOf
    <3>2. CASE UNCHANGED calls
      BY <3>1, <3>2 DEF Ledger!ledger
    <3>3. CASE calls' = calls + 1
      BY <3>1, <3>3 DEF Ledger!Next, Ledger!Attempt
    <3> QED
      BY <3>2, <3>3, CallsChange
  <2>2. ASSUME ~UNCHANGED source_files PROVE UNCHANGED calls
    BY <2>2, CallsChange
  \* A version whose row has its status has what readers see.
  <2>3. ASSUME NEW f \in Files, NEW i \in DOMAIN source_files, source_files[i].checksum = f,
               source_files'[i].status = source_files[i].status
        PROVE  StatusOf(f)' = StatusOf(f) /\ RowsOf(f)' = RowsOf(f)
    <3>1. i \in DOMAIN source_files' /\ source_files'[i].checksum = f
      BY <2>0, <2>3 DEF RowsAreKept
    <3> QED
      BY <2>3, <3>1 DEF LedgerIsOfRows
  <2>4. ASSUME NEW w \in Workers, RegisterSource(w), ~UNCHANGED source_files
        PROVE  Ledger!Next
    <3>0. PICK f \in Files : f = call[w].checksum
      BY <2>0, <2>4, RegisterAddsRow
    <3> DEFINE n == Len(source_files) + 1
               new == IF source_files = <<>> THEN "ready" ELSE "revision_detected"
               row == [checksum |-> f, measured |-> call[w].measured, status |-> new,
                       loaded |-> NoFile, storage |-> LocalStorage]
    <3>1. IdOf(f) = 0 /\ source_files' = Append(source_files, row) /\ row.status = new
      BY <2>4, <3>0 DEF RegisterSource, KnownId
    <3> HIDE DEF row
    <3>2. \A i \in DOMAIN source_files : source_files[i].checksum # f
      BY <2>0, <3>1, IdOfFindsVersion
    <3>3. /\ DOMAIN source_files' = DOMAIN source_files \cup {n} /\ n \notin DOMAIN source_files
          /\ source_files'[n].status = new
          /\ \A i \in DOMAIN source_files : source_files'[i] = source_files[i]
      BY <2>0, <3>1
    <3>4. f \in Files /\ source_files'[n].checksum = f
      BY <2>0, <2>4, <3>0, <3>3, RegisterAddsRow
    <3>5. StatusOf(f) = "absent" /\ RowsOf(f) = {}
      BY <3>2, <3>4 DEF LedgerIsOfRows
    <3>6. StatusOf(f)' = new /\ RowsOf(f)' = {}
      BY <3>3, <3>4 DEF LedgerIsOfRows
    <3>7. ASSUME NEW g \in Files, g # f
          PROVE  StatusOf(g)' = StatusOf(g) /\ RowsOf(g)' = RowsOf(g)
      <4>1. CASE \E i \in DOMAIN source_files : source_files[i].checksum = g
        BY <2>3, <3>3, <4>1
      <4>2. CASE \A i \in DOMAIN source_files : source_files[i].checksum # g
        <5>1. \A i \in DOMAIN source_files' : source_files'[i].checksum # g
          BY <3>3, <3>4, <3>7, <4>2
        <5> QED
          BY <4>2, <5>1 DEF LedgerIsOfRows
      <4> QED
        BY <4>1, <4>2
    <3> HIDE DEF n
    <3>8. status' = [status EXCEPT ![f] = new]
      BY <3>4, <3>6, <3>7
    <3>9. contents' = contents
      BY <3>5, <3>6, <3>7
    <3>10. new = "revision_detected" =>
             \E u \in Files : status[u] # "absent"
      <4> SUFFICES ASSUME source_files # <<>> PROVE \E u \in Files : status[u] # "absent"
        OBVIOUS
      <4>1. 1 \in DOMAIN source_files /\ source_files[1] \in SourceFile
        BY <2>0
      <4>2. source_files[1].checksum \in Files
        BY <4>1 DEF SourceFile
      <4> QED
        BY <4>1, <4>2 DEF LedgerIsOfRows
    <3>11. status[f] = "absent"
      BY <3>4, <3>5
    <3>12. Ledger!Register(f)
      <4> HIDE DEF status, contents
      <4>1. new \in {"ready", "revision_detected"}
        OBVIOUS
      <4> HIDE DEF new
      <4> QED
        BY <2>2, <2>4, <3>4, <3>8, <3>9, <3>10, <3>11, <4>1 DEF Ledger!Register, status, contents
    <3> QED
      BY <3>4, <3>12 DEF Ledger!Next
  <2>5. ASSUME NEW w \in Workers, LoadSource(w), ~UNCHANGED source_files
        PROVE  Ledger!Next
    <3>0. PICK id, f : id = call[w].id /\ f = source_files[id].checksum
      OBVIOUS
    <3>1. /\ id \in DOMAIN source_files
          /\ DOMAIN source_files' = DOMAIN source_files
          /\ \A i \in DOMAIN source_files :
                source_files'[i] = IF i = id
                                   THEN [source_files[i] EXCEPT !.status = "loaded",
                                                                !.loaded = Landed(w)]
                                   ELSE source_files[i]
      BY <2>0, <2>5, <3>0, LoadFillsRow
    <3>2. source_files[id].status = "ready" /\ phase[w] # "idle"
      BY <2>5, <3>0 DEF LoadSource
    <3>3. source_files[id] \in SourceFile
      <4>1. id \in DOMAIN source_files
        BY <3>1
      <4> QED
        BY <2>0, <4>1
    <3>4. /\ id \in DOMAIN source_files /\ id \in DOMAIN source_files'
          /\ f \in Files /\ source_files[id].checksum = f
          /\ source_files'[id].status = "loaded" /\ source_files'[id].checksum = f
      BY <3>0, <3>1, <3>3 DEF SourceFile
    <3>5. StatusOf(f) = "ready"
      BY <3>2, <3>4 DEF LedgerIsOfRows
    <3>6. /\ StatusOf(f)' = "loaded"
          /\ RowsOf(f)' = {[row |-> n, run |-> 1] : n \in 1..Rows[f]}
      BY <3>4 DEF LedgerIsOfRows
    <3>7. ASSUME NEW g \in Files, g # f
          PROVE  StatusOf(g)' = StatusOf(g) /\ RowsOf(g)' = RowsOf(g)
      <4>1. CASE \E i \in DOMAIN source_files : source_files[i].checksum = g
        BY <2>3, <3>0, <3>1, <3>7, <4>1
      <4>2. CASE \A i \in DOMAIN source_files : source_files[i].checksum # g
        <5>1. \A i \in DOMAIN source_files' : source_files'[i].checksum # g
          BY <2>0, <3>1, <4>2 DEF RowsAreKept
        <5> QED
          BY <4>2, <5>1 DEF LedgerIsOfRows
      <4> QED
        BY <4>1, <4>2
    <3>8. /\ status' = [status EXCEPT ![f] = "loaded"]
          /\ contents' = [contents EXCEPT ![f] = {[row |-> n, run |-> 1] : n \in 1..Rows[f]}]
          /\ status[f] = "ready"
      BY <3>4, <3>5, <3>6, <3>7
    <3>9. 1 \in 1..calls
      <4>1. calls \in Nat
        BY <2>0, BoundAssumption DEF AcquisitionInv, TypeOK
      <4>2. calls # 0
        BY <3>2 DEF LedgerInv, CallsAreCounted
      <4> QED
        BY <4>1, <4>2
    <3>10. Ledger!Load(f, 1)
      BY <2>2, <2>5, <3>8 DEF Ledger!Load
    <3> QED
      BY <3>4, <3>9, <3>10 DEF Ledger!Next
  <2>6. ASSUME NEW w \in Workers, FlushStorage(w), ~UNCHANGED source_files
        PROVE  UNCHANGED Ledger!ledger
    <3>1. /\ DOMAIN source_files' = DOMAIN source_files
          /\ \A i \in DOMAIN source_files : source_files'[i].status = source_files[i].status
      <4> DEFINE s == Flush(source_files[call[w].id].storage, call[w].storage,
      StorageResult(call[w]))
      <4>1. /\ DOMAIN source_files' = DOMAIN source_files
            /\ \A i \in DOMAIN source_files :
                  source_files'[i] = IF i = call[w].id
                                     THEN [source_files[i] EXCEPT !.storage = s]
                                     ELSE source_files[i]
        BY <2>0, <2>6, FlushWritesStorage
      <4> HIDE DEF s
      <4>2. \A i \in DOMAIN source_files : source_files[i] \in SourceFile
        BY <2>0
      <4> QED
        BY <4>1, <4>2 DEF SourceFile
    <3>2. ASSUME NEW g \in Files PROVE StatusOf(g)' = StatusOf(g) /\ RowsOf(g)' = RowsOf(g)
      <4>1. CASE \E i \in DOMAIN source_files : source_files[i].checksum = g
        BY <2>3, <3>1, <4>1
      <4>2. CASE \A i \in DOMAIN source_files : source_files[i].checksum # g
        <5>1. \A i \in DOMAIN source_files' : source_files'[i].checksum # g
          BY <2>0, <3>1, <4>2 DEF RowsAreKept
        <5> QED
          BY <4>2, <5>1 DEF LedgerIsOfRows
      <4> QED
        BY <4>1, <4>2
    <3>3. status' = status /\ contents' = contents
      BY <3>2
    <3> QED
      BY <2>2, <2>6, <3>3 DEF Ledger!ledger
  <2> QED
    BY <2>1, <2>4, <2>5, <2>6, LedgerChanges
<1> QED
  BY <1>1, <1>2, LedgerFollowsRows, LedgerInvariant, PTL
  DEF Spec, ImplementsSourceLedger, Ledger!Spec
=============================================================================
