----------------------------- MODULE HostStatus -----------------------------
(***************************************************************************)
(* What the inventory promises about the status of an address: it is       *)
(* hinted at, confirmed, missed and forgotten, and nothing else happens to *)
(* it.  HostLiveness shows that the scanner and the handlers, with all     *)
(* their interleavings, do no more than this.                              *)
(***************************************************************************)
EXTENDS Naturals

CONSTANTS IPs, MissThreshold

VARIABLES
  status,  \* "none" (no row), "unknown", "up" or "down"
  miss     \* consecutive misses, counted up to MissThreshold

vars == <<status, miss>>

Init ==
  /\ status = [ip \in IPs |-> "none"]
  /\ miss = [ip \in IPs |-> 0]

\* A passive sign of the address: worth a row, never a status.
Hint(ip) ==
  /\ status[ip] = "none"
  /\ status' = [status EXCEPT ![ip] = "unknown"]
  /\ miss' = [miss EXCEPT ![ip] = 0]

\* A live answer, or the operator's word.
Confirm(ip) ==
  /\ status' = [status EXCEPT ![ip] = "up"]
  /\ miss' = [miss EXCEPT ![ip] = 0]

\* One scan found nothing at the addresses in gone: all are counted at once, and
\* those that were up and have been missed often enough go down.
Miss(gone) ==
  /\ \A ip \in gone : status[ip] # "none"
  /\ miss' = [ip \in IPs |->
       IF ip \in gone /\ miss[ip] < MissThreshold THEN miss[ip] + 1 ELSE miss[ip]]
  /\ status' = [ip \in IPs |->
       IF ip \in gone /\ status[ip] = "up" /\ miss[ip] + 1 >= MissThreshold
       THEN "down" ELSE status[ip]]

Forget(gone) ==
  /\ status' = [ip \in IPs |-> IF ip \in gone THEN "none" ELSE status[ip]]
  /\ miss' = [ip \in IPs |-> IF ip \in gone THEN 0 ELSE miss[ip]]

Next ==
  \/ \E ip \in IPs : Hint(ip) \/ Confirm(ip)
  \/ \E gone \in SUBSET IPs : Miss(gone) \/ Forget(gone)

Spec == Init /\ [][Next]_vars
=============================================================================
