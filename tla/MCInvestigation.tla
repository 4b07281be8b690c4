--------------------------- MODULE MCInvestigation ---------------------------
(***************************************************************************)
(* A small instance of Investigation for TLC: the stored report keeps two  *)
(* important events of different texts and counts a routine one; the first *)
(* job reads one of the important events and the second the routine one.   *)
(***************************************************************************)
EXTENDS Investigation

MCText == <<"x", "y", "y">>
MCJudgment == <<"important", "important", "routine">>
MCLog == <<{1}, {3}>>
=============================================================================
