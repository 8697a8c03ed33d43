--------------------------- MODULE EventHubProofs ---------------------------
(***************************************************************************)
(* Proofs about EventHub, for any set of connections, any capacity of the  *)
(* channels and any number of events.                                      *)
(***************************************************************************)
EXTENDS EventHub, SequenceTheorems, TLAPS

\* The map holds the clients between subscribe and unsubscribe, a Broadcast
\* ranges over them, and a channel is closed after its client left the map.
Registered ==
  /\ left # {} => locked /\ published >= 1
  /\ left \subseteq clients
  /\ \A c \in Clients :
       /\ c \in clients <=> pc[c] \in {"streaming", "leaving"}
       /\ c \in closed <=> pc[c] = "gone"
       /\ pc[c] = "away" => chan[c] = <<>>

\* A channel holds events in the order of their broadcasts, all of them later
\* than what its client took, and none of the broadcast still to be offered.
Queued(c) ==
  /\ taken[c] <= published
  /\ c \in left => taken[c] < published
  /\ \A i \in 1 .. Len(chan[c]) :
       /\ taken[c] < chan[c][i] /\ chan[c][i] <= published
       /\ c \in left => chan[c][i] < published
       /\ \A j \in 1 .. i - 1 : chan[c][j] < chan[c][i]
InOrder == \A c \in Clients : pc[c] = "streaming" => Queued(c)

\* The inductive invariant.
IInv == TypeOK /\ Registered /\ InOrder

-----------------------------------------------------------------------------
\* Types.
LEMMA NextTypeOK == TypeOK /\ Registered /\ [Next]_vars => TypeOK'
<1> SUFFICES ASSUME TypeOK, Registered, [Next]_vars PROVE TypeOK'
  OBVIOUS
<1> USE HubAssumption
    DEF TypeOK
<1>1. ASSUME Lock PROVE TypeOK'
  BY <1>1 DEF Lock
<1>2. ASSUME NEW c \in Clients, Offer(c) PROVE TypeOK'
  <2>1. CASE Len(chan[c]) < Capacity
    <3>1. published \in 1 .. MaxEvents
      BY <1>2 DEF Offer, Registered
    <3>2. Append(chan[c], published) \in Seq(1 .. MaxEvents)
      BY <3>1
    <3>3. Len(Append(chan[c], published)) = Len(chan[c]) + 1
      BY <3>1
    <3>4. chan' = [chan EXCEPT ![c] = Append(chan[c], published)]
      BY <1>2, <2>1 DEF Offer
    <3>5. QED
      BY <1>2, <2>1, <3>2, <3>3, <3>4 DEF Offer
  <2>2. CASE ~(Len(chan[c]) < Capacity)
    BY <1>2, <2>2 DEF Offer
  <2>3. QED
    BY <2>1, <2>2
<1>3. ASSUME Unlock PROVE TypeOK'
  BY <1>3 DEF Unlock
<1>4. ASSUME NEW c \in Clients, Subscribe(c) PROVE TypeOK'
  BY <1>4 DEF Subscribe
<1>5. ASSUME NEW c \in Clients, Receive(c) PROVE TypeOK'
  BY <1>5 DEF Receive
<1>6. ASSUME NEW c \in Clients, Disconnect(c) PROVE TypeOK'
  BY <1>6 DEF Disconnect
<1>7. ASSUME NEW c \in Clients, Unsubscribe(c) PROVE TypeOK'
  BY <1>7 DEF Unsubscribe
<1>8. ASSUME NEW c \in Clients, Close(c) PROVE TypeOK'
  BY <1>8 DEF Close
<1>9. CASE UNCHANGED vars
  BY <1>9 DEF vars
<1>10. QED
  BY <1>1, <1>2, <1>3, <1>4, <1>5, <1>6, <1>7, <1>8, <1>9
  DEF Next, BroadcastStep, ClientStep

\* unsubscribe needs the lock, so it removes no client a Broadcast has yet to
\* come to.
LEMMA NextRegistered == TypeOK /\ Registered /\ [Next]_vars => Registered'
<1> SUFFICES ASSUME TypeOK, Registered, [Next]_vars PROVE Registered'
  OBVIOUS
<1> USE HubAssumption
    DEF TypeOK, Registered
<1>1. ASSUME Lock PROVE Registered'
  BY <1>1 DEF Lock
<1>2. ASSUME NEW c \in Clients, Offer(c) PROVE Registered'
  BY <1>2 DEF Offer
<1>3. ASSUME Unlock PROVE Registered'
  BY <1>3 DEF Unlock
<1>4. ASSUME NEW c \in Clients, Subscribe(c) PROVE Registered'
  BY <1>4 DEF Subscribe
<1>5. ASSUME NEW c \in Clients, Receive(c) PROVE Registered'
  BY <1>5 DEF Receive
<1>6. ASSUME NEW c \in Clients, Disconnect(c) PROVE Registered'
  BY <1>6 DEF Disconnect
<1>7. ASSUME NEW c \in Clients, Unsubscribe(c) PROVE Registered'
  BY <1>7 DEF Unsubscribe
<1>8. ASSUME NEW c \in Clients, Close(c) PROVE Registered'
  BY <1>8 DEF Close
<1>9. CASE UNCHANGED vars
  BY <1>9 DEF vars
<1>10. QED
  BY <1>1, <1>2, <1>3, <1>4, <1>5, <1>6, <1>7, <1>8, <1>9
  DEF Next, BroadcastStep, ClientStep

\* What is appended is younger than what is queued.
LEMMA NextInOrder == TypeOK /\ Registered /\ InOrder /\ [Next]_vars => InOrder'
<1> SUFFICES ASSUME TypeOK, Registered, InOrder, [Next]_vars PROVE InOrder'
  OBVIOUS
<1> USE HubAssumption
    DEF TypeOK, Registered, InOrder, Queued
<1>1. ASSUME Lock PROVE InOrder'
  BY <1>1 DEF Lock
<1>2. ASSUME NEW c \in Clients, Offer(c) PROVE InOrder'
  BY <1>2 DEF Offer
<1>3. ASSUME NEW c \in Clients, Subscribe(c) PROVE InOrder'
  BY <1>3 DEF Subscribe
<1>4. ASSUME NEW c \in Clients, Receive(c) PROVE InOrder'
  <2>1. /\ Len(chan[c]) > 0
        /\ taken' = [taken EXCEPT ![c] = chan[c][1]]
        /\ chan' = [chan EXCEPT ![c] = Tail(chan[c])]
        /\ pc' = pc /\ left' = left /\ published' = published /\ pc[c] = "streaming"
    BY <1>4 DEF Receive
  <2>2. /\ Len(Tail(chan[c])) = Len(chan[c]) - 1
        /\ \A i \in 1 .. Len(chan[c]) - 1 : Tail(chan[c])[i] = chan[c][i + 1]
    BY <2>1
  <2>3. Queued(c)
    BY <2>1 DEF InOrder
  <2>4. taken'[c] = chan[c][1] /\ chan'[c] = Tail(chan[c])
    BY <2>1
  <2>5. Queued(c)'
    <3>1. taken'[c] <= published' /\ (c \in left' => taken'[c] < published')
      BY <2>1, <2>3, <2>4 DEF Queued
    <3>2. ASSUME NEW i \in 1 .. Len(chan'[c])
          PROVE  /\ taken'[c] < chan'[c][i] /\ chan'[c][i] <= published'
                 /\ c \in left' => chan'[c][i] < published'
                 /\ \A j \in 1 .. i - 1 : chan'[c][j] < chan'[c][i]
      <4>1. i + 1 \in 1 .. Len(chan[c]) /\ chan'[c][i] = chan[c][i + 1]
        BY <2>1, <2>2, <2>4, <3>2
      <4>2. \A j \in 1 .. i - 1 : j + 1 \in 1 .. i /\ chan'[c][j] = chan[c][j + 1]
        BY <2>1, <2>2, <2>4, <3>2
      <4>3. \A j \in 1 .. i : chan[c][j] < chan[c][i + 1]
        BY <2>3, <4>1 DEF Queued
      <4>4. QED
        BY <2>1, <2>3, <2>4, <4>1, <4>2, <4>3 DEF Queued
    <3>3. QED
      BY <3>1, <3>2 DEF Queued
  <2>6. ASSUME NEW d \in Clients \ {c}, pc'[d] = "streaming" PROVE Queued(d)'
    <3>1. Queued(d)
      BY <2>1, <2>6 DEF InOrder
    <3>2. taken'[d] = taken[d] /\ chan'[d] = chan[d]
      BY <2>1, <2>6
    <3>3. QED
      BY <2>1, <3>1, <3>2 DEF Queued
  <2>7. QED
    BY <2>5, <2>6 DEF InOrder
<1>5. ASSUME NEW c \in Clients, Disconnect(c) PROVE InOrder'
  BY <1>5 DEF Disconnect
<1>6. ASSUME NEW c \in Clients, Unsubscribe(c) PROVE InOrder'
  BY <1>6 DEF Unsubscribe
<1>7. ASSUME NEW c \in Clients, Close(c) PROVE InOrder'
  BY <1>7 DEF Close
<1>8. ASSUME Unlock PROVE InOrder'
  BY <1>8 DEF Unlock
<1>9. CASE UNCHANGED vars
  BY <1>9 DEF vars
<1>10. QED
  BY <1>1, <1>2, <1>3, <1>4, <1>5, <1>6, <1>7, <1>8, <1>9
  DEF Next, BroadcastStep, ClientStep

\* Before anyone connected.
LEMMA InitIInv == Init => IInv
<1> SUFFICES ASSUME Init PROVE IInv
  OBVIOUS
<1>1. locked \in BOOLEAN
  BY Zenon DEF Init
<1>2. TypeOK
  BY <1>1, HubAssumption DEF Init, TypeOK
<1>3. Registered /\ InOrder
  BY DEF Init, Registered, InOrder
<1>4. QED
  BY <1>2, <1>3 DEF IInv

\* The invariant is inductive.
LEMMA NextIInv == IInv /\ [Next]_vars => IInv'
  BY NextTypeOK, NextRegistered, NextInOrder DEF IInv

\* All parts of the inductive invariant hold for ever.
THEOREM IInvHolds == Spec => []IInv
<1>1. Init => IInv
  BY InitIInv
<1>2. IInv /\ [Next]_vars => IInv'
  BY NextIInv
<1>3. QED
  BY <1>1, <1>2, PTL DEF Spec

\* Every variable has its type, and no channel is overfilled.
THEOREM TypeCorrect == Spec => []TypeOK
  BY IInvHolds, PTL DEF IInv

\* No Broadcast sends on a closed channel (Broadcast, unsubscribe).
THEOREM NoSendOnClosedHolds == Spec => []NoSendOnClosed
<1>1. IInv => NoSendOnClosed
  BY DEF IInv, TypeOK, Registered, NoSendOnClosed
<1>2. QED
  BY <1>1, IInvHolds, PTL

-----------------------------------------------------------------------------
(* The hub implements the lossy topic.                                     *)

\* Every step of the hub is a step of the topic, or none.
LEMMA TopicStep == IInv /\ [Next]_vars => [Topic!Next]_(Topic!vars)
<1> SUFFICES ASSUME IInv, [Next]_vars PROVE [Topic!Next]_(Topic!vars)
  OBVIOUS
<1> USE DEF IInv, TypeOK, Topic!Next, Topic!vars
<1>1. ASSUME Lock PROVE Topic!Publish
  BY <1>1 DEF Lock, Topic!Publish
<1>2. ASSUME NEW c \in Clients, Offer(c) PROVE UNCHANGED Topic!vars
  BY <1>2 DEF Offer
<1>3. ASSUME Unlock PROVE UNCHANGED Topic!vars
  BY <1>3 DEF Unlock
<1>4. ASSUME NEW c \in Clients, Subscribe(c) PROVE Topic!Join(c)
  BY <1>4 DEF Subscribe, Topic!Join
<1>5. ASSUME NEW c \in Clients, Receive(c) PROVE Topic!Deliver(c)
  <2>1. chan[c][1] \in taken[c] + 1 .. published
    <3>1. Queued(c) /\ 1 \in 1 .. Len(chan[c])
      BY <1>5 DEF Receive, InOrder
    <3>2. chan[c][1] \in 1 .. MaxEvents
      <4>1. chan[c] \in Seq(1 .. MaxEvents)
        OBVIOUS
      <4>2. QED
        BY <3>1, <4>1, ElementOfSeq
    <3>3. QED
      BY <3>1, <3>2 DEF Queued
  <2>2. taken' = [taken EXCEPT ![c] = chan[c][1]]
    BY <1>5 DEF Receive
  <2>3. QED
    BY <1>5, <2>1, <2>2 DEF Receive, Topic!Deliver
<1>6. ASSUME NEW c \in Clients, Disconnect(c) PROVE Topic!Leave(c)
  BY <1>6 DEF Disconnect, Topic!Leave
<1>7. ASSUME NEW c \in Clients, Unsubscribe(c) PROVE UNCHANGED Topic!vars
  BY <1>7 DEF Unsubscribe
<1>8. ASSUME NEW c \in Clients, Close(c) PROVE UNCHANGED Topic!vars
  BY <1>8 DEF Close
<1>9. CASE UNCHANGED vars
  BY <1>9 DEF vars
<1>10. QED
  BY <1>1, <1>2, <1>3, <1>4, <1>5, <1>6, <1>7, <1>8, <1>9
  DEF Next, BroadcastStep, ClientStep

\* A browser is given events in the order of their broadcasts and none twice.
THEOREM Refinement == Spec => ImplementsLossyTopic
<1>1. Init => Topic!Init
  BY DEF Init, Topic!Init
<1>2. IInv /\ [Next]_vars => [Topic!Next]_(Topic!vars)
  BY TopicStep
<1>3. QED
  BY <1>1, <1>2, IInvHolds, PTL DEF Spec, ImplementsLossyTopic, Topic!Spec
=============================================================================
