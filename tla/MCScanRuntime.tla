----------------------------- MODULE MCScanRuntime -----------------------------
(***************************************************************************)
(* Small instances of ScanRuntime for TLC.                                 *)
(***************************************************************************)
EXTENDS ScanRuntime
=============================================================================
