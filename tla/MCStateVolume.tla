--------------------------- MODULE MCStateVolume ---------------------------
(***************************************************************************)
(* StateVolume needs no constants: TLC checks it with every file of        *)
(* volume.go and every layout a volume can start from.                     *)
(***************************************************************************)
EXTENDS StateVolume
=============================================================================
