--------------------------- MODULE MCAcquisition ---------------------------
(***************************************************************************)
(* Small instances of Acquisition: a publication a, its revision b of the  *)
(* same size and row count, and the shorter file that a broken transfer    *)
(* leaves.                                                                 *)
(***************************************************************************)
EXTENDS Acquisition, TLC

CONSTANTS w1, w2, h1, h2, a, b, cut

MCPublications == <<a, b>>

\* Each process has a landing directory of its own.
MCOwnHosts == [w \in Workers |-> IF w = w1 THEN h1 ELSE h2]

\* The processes share one landing directory.
MCOneHost == [w \in Workers |-> h1]

MCSize == [f \in Files |-> IF f = cut THEN 1 ELSE 2]

\* The revision is longer.
MCGrowing == [f \in Files |-> CASE f = cut -> 1 [] f = a -> 2 [] OTHER -> 3]

MCRows == [f \in Files |-> IF f = cut THEN 1 ELSE 2]
=============================================================================
