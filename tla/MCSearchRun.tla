----------------------------- MODULE MCSearchRun -----------------------------
(***************************************************************************)
(* A small instance of SearchRun for TLC: two groups, the first with two *)
(* occurrences.                                                            *)
(***************************************************************************)
EXTENDS SearchRun

MCEvents == [e \in 1..3 |-> IF e <= 2 THEN "a" ELSE "b"]
=============================================================================
