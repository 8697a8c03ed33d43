------------------------------ MODULE EventHub ------------------------------
(***************************************************************************)
(* The fan-out of events to the connected browsers: Hub.Broadcast, which   *)
(* the scanner and the handlers call, against subscribe, the stream loop   *)
(* and unsubscribe of one ServeHTTP goroutine per browser.                 *)
(*                                                                         *)
(* Hub.mu covers the map of clients only: a browser's goroutine takes from *)
(* its channel while Broadcast goes over the map, and closes the channel   *)
(* after it gave the lock back.  A client is one connection with its       *)
(* channel; a browser that connects again is another client.  Events are   *)
(* numbered in the order of their broadcasts.                              *)
(***************************************************************************)
EXTENDS Naturals, Sequences

CONSTANTS
  Clients,   \* connections
  Capacity,  \* of a client's channel
  MaxEvents  \* bound: broadcasts

ASSUME HubAssumption == Capacity \in Nat \ {0} /\ MaxEvents \in Nat

VARIABLES
  published,  \* broadcasts begun
  locked,     \* a Broadcast holds mu
  left,       \* clients its range over the map has not come to
  clients,    \* the map
  chan,       \* chan[c]: what the channel of c holds
  closed,     \* channels that are closed
  pc,         \* pc[c]: where ServeHTTP is
  taken       \* taken[c]: the last event written to c's stream

vars == <<published, locked, left, clients, chan, closed, pc, taken>>

TypeOK ==
  /\ published \in 0 .. MaxEvents
  /\ locked \in BOOLEAN
  /\ left \in SUBSET Clients
  /\ clients \in SUBSET Clients
  /\ chan \in [Clients -> Seq(1 .. MaxEvents)]
  /\ \A c \in Clients : Len(chan[c]) <= Capacity
  /\ closed \in SUBSET Clients
  /\ pc \in [Clients -> {"away", "streaming", "leaving", "removed", "gone"}]
  /\ taken \in [Clients -> 0 .. MaxEvents]

Init ==
  /\ published = 0
  /\ locked = FALSE
  /\ left = {} /\ clients = {}
  /\ chan = [c \in Clients |-> <<>>]
  /\ closed = {}
  /\ pc = [c \in Clients |-> "away"]
  /\ taken = [c \in Clients |-> 0]

-----------------------------------------------------------------------------
(* Broadcast.                                                              *)

Lock ==
  /\ ~locked
  /\ published < MaxEvents
  /\ published' = published + 1
  /\ locked' = TRUE
  /\ left' = clients
  /\ UNCHANGED <<clients, chan, closed, pc, taken>>

\* Faults: the send waits for room; the newest event overtakes the others.
Offer_Blocks(c) ==
  /\ c \in left
  /\ Len(chan[c]) < Capacity
  /\ chan' = [chan EXCEPT ![c] = Append(@, published)]
  /\ left' = left \ {c}
  /\ UNCHANGED <<published, locked, clients, closed, pc, taken>>
Offer_Overtakes(c) ==
  /\ c \in left
  /\ chan' = [chan EXCEPT ![c] = IF Len(@) < Capacity THEN <<published>> \o @ ELSE @]
  /\ left' = left \ {c}
  /\ UNCHANGED <<published, locked, clients, closed, pc, taken>>

\* The select with a default: a full channel drops the event.
Offer(c) ==
  /\ c \in left
  /\ chan' = [chan EXCEPT ![c] = IF Len(@) < Capacity THEN Append(@, published) ELSE @]
  /\ left' = left \ {c}
  /\ UNCHANGED <<published, locked, clients, closed, pc, taken>>

Unlock ==
  /\ locked
  /\ left = {}
  /\ locked' = FALSE
  /\ UNCHANGED <<published, left, clients, chan, closed, pc, taken>>

-----------------------------------------------------------------------------
(* ServeHTTP of one client.                                                *)

Subscribe(c) ==
  /\ pc[c] = "away"
  /\ ~locked
  /\ clients' = clients \cup {c}
  /\ pc' = [pc EXCEPT ![c] = "streaming"]
  /\ taken' = [taken EXCEPT ![c] = published]
  /\ UNCHANGED <<published, locked, left, chan, closed>>

\* The loop takes an event and writes it to the stream, which may take for ever.
Receive(c) ==
  /\ pc[c] = "streaming"
  /\ chan[c] # <<>>
  /\ taken' = [taken EXCEPT ![c] = Head(chan[c])]
  /\ chan' = [chan EXCEPT ![c] = Tail(@)]
  /\ UNCHANGED <<published, locked, left, clients, closed, pc>>

\* The request's context is done, whatever the channel still holds.
Disconnect(c) ==
  /\ pc[c] = "streaming"
  /\ pc' = [pc EXCEPT ![c] = "leaving"]
  /\ UNCHANGED <<published, locked, left, clients, chan, closed, taken>>

\* Fault: the map is changed without the lock.
Unsubscribe_NoLock(c) ==
  /\ pc[c] = "leaving"
  /\ clients' = clients \ {c}
  /\ pc' = [pc EXCEPT ![c] = "removed"]
  /\ UNCHANGED <<published, locked, left, chan, closed, taken>>

\* unsubscribe, up to the Unlock ...
Unsubscribe(c) ==
  /\ pc[c] = "leaving"
  /\ ~locked
  /\ clients' = clients \ {c}
  /\ pc' = [pc EXCEPT ![c] = "removed"]
  /\ UNCHANGED <<published, locked, left, chan, closed, taken>>

\* ... and the close after it.
Close(c) ==
  /\ pc[c] = "removed"
  /\ closed' = closed \cup {c}
  /\ pc' = [pc EXCEPT ![c] = "gone"]
  /\ UNCHANGED <<published, locked, left, clients, chan, taken>>

-----------------------------------------------------------------------------
BroadcastStep == (\E c \in Clients : Offer(c)) \/ Unlock
ClientStep(c) ==
  Subscribe(c) \/ Receive(c) \/ Disconnect(c) \/ Unsubscribe(c) \/ Close(c)

Next == Lock \/ BroadcastStep \/ \E c \in Clients : ClientStep(c)

Spec == Init /\ [][Next]_vars

\* A Broadcast runs on, and sync.Mutex starves nobody.  Nothing is assumed of a
\* client that streams: it may never take another event.
Fairness ==
  /\ WF_vars(BroadcastStep)
  /\ \A c \in Clients : SF_vars(Unsubscribe(c)) /\ WF_vars(Close(c))

FairSpec == Spec /\ Fairness

-----------------------------------------------------------------------------
(* Properties.                                                             *)

Topic == INSTANCE LossyTopic WITH members <- {c \in Clients : pc[c] = "streaming"}

\* A browser is given events in the order of their broadcasts and none twice,
\* whatever is dropped, however Broadcast and its goroutine interleave.
ImplementsLossyTopic == Topic!Spec

\* No broadcast sends on a closed channel, which would panic and take the whole
\* process down, although unsubscribe closes it outside the lock.
NoSendOnClosed == left \cap closed = {}

\* A browser that went away is forgotten, even with its channel full and a
\* Broadcast holding the lock: no Broadcast waits for a client that reads nothing.
LeaverForgotten == \A c \in Clients : pc[c] = "leaving" ~> c \notin clients
=============================================================================
