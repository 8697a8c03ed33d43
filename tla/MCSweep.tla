------------------------------ MODULE MCSweep ------------------------------
(* An instance of Sweep for TLC. *)
EXTENDS Sweep

\* A /29, two addresses of which are within the cap.
MCRanges == {<<3, 3>>}
MCAddresses == {1, 2}
=============================================================================
