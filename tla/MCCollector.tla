---------------------------- MODULE MCCollector ----------------------------
(***************************************************************************)
(* A small instance of Collector for TLC: three streams for two slots.     *)
(***************************************************************************)
EXTENDS Collector, TLC

CONSTANTS s1, s2, s3, w1, w2
MCSources == {s1, s2, s3}
MCWorkers == {w1, w2}
=============================================================================
