----------------------------- MODULE LossyTopic -----------------------------
(***************************************************************************)
(* What the event stream promises a browser: the events published since it *)
(* joined, in the order they were published, each at most once, some of    *)
(* them perhaps not at all.  EventHub shows that the hub keeps to it.      *)
(***************************************************************************)
EXTENDS Naturals

CONSTANT Clients

VARIABLES
  published,  \* how many events were published: they are numbered from 1
  members,    \* the clients that are listening
  taken       \* taken[c]: the last event c was given, or had missed by joining late

vars == <<published, members, taken>>

Init ==
  /\ published = 0
  /\ members = {}
  /\ taken = [c \in Clients |-> 0]

Publish ==
  /\ published' = published + 1
  /\ UNCHANGED <<members, taken>>

Join(c) ==
  /\ c \notin members
  /\ members' = members \cup {c}
  /\ taken' = [taken EXCEPT ![c] = published]
  /\ UNCHANGED published

\* c is given an event later than all it was given before.
Deliver(c) ==
  /\ c \in members
  /\ \E e \in taken[c] + 1 .. published : taken' = [taken EXCEPT ![c] = e]
  /\ UNCHANGED <<published, members>>

Leave(c) ==
  /\ members' = members \ {c}
  /\ UNCHANGED <<published, taken>>

Next == Publish \/ \E c \in Clients : Join(c) \/ Deliver(c) \/ Leave(c)

Spec == Init /\ [][Next]_vars
=============================================================================
