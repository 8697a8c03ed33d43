-------------------------- MODULE MCScanScheduler ---------------------------
(***************************************************************************)
(* Small instances of ScanScheduler for TLC.                               *)
(***************************************************************************)
EXTENDS ScanScheduler
=============================================================================
