--------------------------- MODULE MCProviderBudget ---------------------------
(***************************************************************************)
(* Small instances of ProviderBudget for TLC.                              *)
(***************************************************************************)
EXTENDS ProviderBudget, TLC

\* A larger request reserves more.
MCReservation == [n \in 1..BatchSize |-> n + 1]
=============================================================================
