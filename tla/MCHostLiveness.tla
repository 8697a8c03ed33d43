--------------------------- MODULE MCHostLiveness ---------------------------
(***************************************************************************)
(* Small instances of HostLiveness for TLC.                                *)
(***************************************************************************)
EXTENDS HostLiveness
=============================================================================
