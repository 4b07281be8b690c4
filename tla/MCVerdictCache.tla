---------------------------- MODULE MCVerdictCache ----------------------------
(***************************************************************************)
(* Small instances of VerdictCache for TLC.                                *)
(***************************************************************************)
EXTENDS VerdictCache

CONSTANTS a, b

VetoOne == {{}, {a}}
=============================================================================
