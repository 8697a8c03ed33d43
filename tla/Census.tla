------------------------------- MODULE Census -------------------------------
(***************************************************************************)
(* What the scanner may expect of a sweep: every address of the range is   *)
(* judged once, alive only if it has answered something, and the sweep     *)
(* comes to an end however many of them are silent.                        *)
(***************************************************************************)
CONSTANT Addresses

VARIABLES
  open,      \* addresses not yet judged
  alive,     \* those found alive
  heard      \* addresses that have answered

census == <<open, alive, heard>>

Init ==
  /\ open \subseteq Addresses
  /\ alive = {} /\ heard = {}

Hear(a) ==
  /\ heard' = heard \cup {a}
  /\ UNCHANGED <<open, alive>>

Judge(a) ==
  /\ a \in open
  /\ open' = open \ {a}
  /\ alive' = alive \/ (a \in heard /\ alive' = alive \cup {a})
  /\ UNCHANGED heard

Next == \E a \in Addresses : Hear(a) \/ Judge(a)

Spec == Init /\ [][Next]_census /\ WF_census(\E a \in Addresses : Judge(a))
=============================================================================
