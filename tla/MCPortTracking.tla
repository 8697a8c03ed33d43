--------------------------- MODULE MCPortTracking ---------------------------
(***************************************************************************)
(* Small instances of PortTracking for TLC.                                *)
(***************************************************************************)
EXTENDS PortTracking, TLC

\* The goroutines of the deep scans are interchangeable.
DeepScanSymmetry == Permutations(DeepScans)
=============================================================================
