---------------------------- MODULE MCMonthlyDag ----------------------------
(***************************************************************************)
(* Two zone versions, a month whose yellow partition was revised, and the  *)
(* yellow partition of another month that only operators load.             *)
(***************************************************************************)
EXTENDS MonthlyDag

MCZonePartition == <<"zones", 0>>

\* Another month's version has the lowest identity and may be loaded last.
MCPartitionOf ==
    << <<"yellow", 2>>, <<"zones", 0>>, <<"zones", 0>>,
       <<"yellow", 1>>, <<"yellow", 1>>, <<"green", 1>> >>
=============================================================================
