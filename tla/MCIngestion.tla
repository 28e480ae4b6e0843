---------------------------- MODULE MCIngestion ----------------------------
(***************************************************************************)
(* Small instances of Ingestion.  Two versions of one partition and, where *)
(* a run uses it, a third version alone in its partition; three rows each, *)
(* so that a load is a full batch of two rows and a partial one.           *)
(***************************************************************************)
EXTENDS Ingestion, TLC

CONSTANTS v1, v2, v3

\* v1 and v2 are versions of one partition, v3 is of another.
MCPartitionOf == [v \in Versions |-> IF v = v3 THEN "yellow/2025/02" ELSE "yellow/2025/01"]

MCRowCount == [v \in Versions |-> 3]

\* The file at the path is short, as registered, or long.
MCChangingFiles == [v \in Versions |-> 2..4]

\* The file of v1 is the registered one, that of v2 may change.
MCOneStableFile == [v \in Versions |-> IF v = v2 THEN 2..4 ELSE {3}]

\* The file at the path is the registered one.
MCStableFiles == [v \in Versions |-> {3}]

WorkerSymmetry == Permutations(Workers)
=============================================================================
