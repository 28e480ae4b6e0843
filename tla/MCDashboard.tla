----------------------------- MODULE MCDashboard -----------------------------
(***************************************************************************)
(* Two evaluators, two runs of one partition, two zone versions that       *)
(* disagree on one warning, and pages of one run.                          *)
(***************************************************************************)
EXTENDS Dashboard

MCPartitionOf == [r \in Runs |-> "yellow"]

MCSeverity == <<"WARNING", "INFO">>

\* The first zone version lacks a zone the trips of a partition refer to.
MCRowsFailed == [r \in Runs |-> [z \in Zones |-> <<3 * (2 - z), 1>>]]

\* The clocks of the hosts differ: the run with the higher identity has the
\* earlier start and is listed behind the other one.
MCStartedAt == [r \in Runs |-> 3 - r]
=============================================================================
