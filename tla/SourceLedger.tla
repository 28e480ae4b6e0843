---------------------------- MODULE SourceLedger ----------------------------
(***************************************************************************)
(* What ingestion promises its readers (quality, dbt, API): a ledger of    *)
(* source versions.  A version is registered once, as ready or as a        *)
(* blocked revision; a ready version is loaded in one step, with all its   *)
(* rows and the lineage of one recorded attempt; nothing else ever         *)
(* happens to it.                                                          *)
(* Every reader that joins raw rows on loaded sources relies on this.      *)
(***************************************************************************)
EXTENDS Integers

CONSTANTS
    Versions,       \* source versions
    PartitionOf,    \* the partition key of a version
    RowCount        \* the registered row count of a version

VARIABLES
    status,         \* "absent", "ready", "revision_detected" or "loaded"
    contents,       \* the raw rows readers see of a version
    attempts        \* number of recorded attempts

ledger == <<status, contents, attempts>>

Init ==
    /\ status = [v \in Versions |-> "absent"]
    /\ contents = [v \in Versions |-> {}]
    /\ attempts = 0

\* Only a version whose partition is already known can be blocked.
Register(v) ==
    /\ status[v] = "absent"
    /\ \/ status' = [status EXCEPT ![v] = "ready"]
       \/ /\ \E u \in Versions : PartitionOf[u] = PartitionOf[v] /\ status[u] # "absent"
          /\ status' = [status EXCEPT ![v] = "revision_detected"]
    /\ UNCHANGED <<contents, attempts>>

Attempt ==
    /\ attempts' = attempts + 1
    /\ UNCHANGED <<status, contents>>

Load(v, run) ==
    /\ status[v] = "ready"
    /\ status' = [status EXCEPT ![v] = "loaded"]
    /\ contents' = [contents EXCEPT ![v] =
                      {[row |-> n, run |-> run] : n \in 1..RowCount[v]}]
    /\ UNCHANGED attempts

Next ==
    \/ Attempt
    \/ \E v \in Versions : Register(v) \/ \E run \in 1..attempts : Load(v, run)

Spec == Init /\ [][Next]_ledger
=============================================================================
