--------------------------- MODULE LiveViewProofs ---------------------------
(***************************************************************************)
(* Why a page that shows less than the database holds is about to refetch  *)
(* or has missed something nameable, for any number of requests, changes   *)
(* and gaps and any capacity of the channel.                               *)
(***************************************************************************)
EXTENDS LiveView, TLAPS

\* Nothing is newer than the database, and no event precedes its change.
NothingFromTheFuture ==
  /\ unsent <= db
  /\ view <= db /\ loaded <= db
  /\ \A r \in Requests : answer[r] <= db

\* What loadAppData is about to render is in the same position as what is on
\* display; if a refetch has rendered a newer version meanwhile, rendering it
\* will be noticed.
LoadFreshOrExcused ==
  page = "answered" => loaded = db \/ loaded < view \/ OnItsWay \/ causes # {}

\* The inductive invariant.
IInv == TypeOK /\ NothingFromTheFuture /\ FreshOrExcused /\ LoadFreshOrExcused

USE LiveAssumption

-----------------------------------------------------------------------------
\* At first everything is at version 0, and nobody is logged in.
LEMMA InitIInv == Init => IInv
<1> SUFFICES ASSUME Init PROVE IInv
  OBVIOUS
<1>1. TypeOK
  <2>1. timer \in BOOLEAN /\ editing \in BOOLEAN
    BY Zenon DEF Init
  <2>2. buffered \in [Kinds -> 0 .. Capacity]
    BY DEF Init, Empty
  <2>3. /\ db \in 0 .. MaxChanges /\ unsent \in 0 .. MaxChanges
        /\ loaded \in 0 .. MaxChanges /\ view \in 0 .. MaxChanges
        /\ fetch \in [Requests -> {"free", "asked", "answered"}]
        /\ answer \in [Requests -> 0 .. MaxChanges]
        /\ quiets \in 0 .. MaxQuiet /\ gaps \in 0 .. MaxGaps
    BY DEF Init
  <2> QED  BY <2>1, <2>2, <2>3 DEF Init, TypeOK, Causes
<1>2. NothingFromTheFuture
  BY DEF Init, NothingFromTheFuture
<1>3. FreshOrExcused /\ LoadFreshOrExcused
  BY DEF Init, FreshOrExcused, LoadFreshOrExcused
<1> QED  BY <1>1, <1>2, <1>3 DEF IInv

\* A buffered event leaves the other kind alone and keeps within the capacity; an
\* event finds room, or the buffer is not empty.
LEMMA BufferFacts ==
  ASSUME TypeOK, NEW k \in Kinds
  PROVE  /\ Buffer(k) \in [Kinds -> 0 .. Capacity]
         /\ \A j \in Kinds : Buffer(k)[j] >= buffered[j]
         /\ k = "quiet" => Buffer(k)["refresh"] = buffered["refresh"]
<1>1. CASE Full
  BY <1>1 DEF Buffer, TypeOK, Kinds
<1>2. CASE ~Full
  <2>1. \A j \in Kinds : buffered[j] + 1 \in 0 .. Capacity
    BY <1>2 DEF Full, TypeOK, Kinds
  <2> QED  BY <1>2, <2>1 DEF Buffer, TypeOK, Kinds
<1> QED  BY <1>1, <1>2

\* Types.
LEMMA NextTypeOK ==
  ASSUME TypeOK, NothingFromTheFuture, [Next]_vars
  PROVE  TypeOK'
<1> USE DEF TypeOK
<1>1. ASSUME Change PROVE TypeOK'
  BY <1>1 DEF Change, NothingFromTheFuture, wire, requests, bounds
<1>2. ASSUME Broadcast PROVE TypeOK'
  <2>1. buffered' \in [Kinds -> 0 .. Capacity]
    BY <1>2, BufferFacts DEF Broadcast, Kinds
  <2>2. causes' \in SUBSET Causes
    BY <1>2 DEF Broadcast, Missed, Causes
  <2> QED  BY <1>2, <2>1, <2>2 DEF Broadcast, requests, bounds
<1>3. ASSUME QuietChange PROVE TypeOK'
  BY <1>3 DEF QuietChange, Causes, wire, requests
<1>4. ASSUME QuietEvent PROVE TypeOK'
  BY <1>4, BufferFacts DEF QuietEvent, Kinds, server, requests
<1>5. ASSUME OwnEdit PROVE TypeOK'
  BY <1>5 DEF OwnEdit, wire, bounds
<1>6. ASSUME StartLoad PROVE TypeOK'
  BY <1>6 DEF StartLoad, server, wire, requests, bounds
<1>7. ASSUME LoadStep PROVE TypeOK'
  BY <1>7 DEF LoadStep, AnswerLoad, FinishLoad, Subscribe, Rendered, Causes,
              server, wire, requests, bounds
<1>8. ASSUME StreamBreaks PROVE TypeOK'
  BY <1>8 DEF StreamBreaks, Missed, Empty, Causes, server, requests
<1>9. ASSUME SessionLost PROVE TypeOK'
  BY <1>9 DEF SessionLost, Empty, server, requests
<1>10. ASSUME NEW k \in Kinds, Receive(k) PROVE TypeOK'
  <2>1. buffered' \in [Kinds -> 0 .. Capacity]
    BY <1>10 DEF Receive
  <2>2. timer' \in BOOLEAN
    BY <1>10, Zenon DEF Receive
  <2> QED  BY <1>10, <2>1, <2>2 DEF Receive, server, requests, bounds
<1>11. ASSUME NEW r \in Requests, FetchStep(r) PROVE TypeOK'
  <2>1. CASE TimerFires(r)
    BY <2>1 DEF TimerFires, server, wire, bounds
  <2>2. CASE AnswerFetch(r)
    BY <2>2 DEF AnswerFetch, server, wire, bounds
  <2>3. CASE Render(r)
    BY <2>3 DEF Render, Rendered, Causes, server, wire, bounds
  <2>4. CASE EditAnswered(r)
    BY <2>4 DEF EditAnswered, server, wire, bounds
  <2> QED  BY <1>11, <2>1, <2>2, <2>3, <2>4 DEF FetchStep
<1>12. ASSUME NEW r \in Requests, FetchFails(r) PROVE TypeOK'
  BY <1>12 DEF FetchFails, Missed, Causes, server, wire
<1>13. ASSUME UNCHANGED vars PROVE TypeOK'
  BY <1>13 DEF vars
<1> QED
  BY <1>1, <1>2, <1>3, <1>4, <1>5, <1>6, <1>7, <1>8, <1>9, <1>10, <1>11, <1>12, <1>13 DEF Next

\* Every version read is the present one, which only grows.
LEMMA NextNothingFromTheFuture ==
  ASSUME TypeOK, NothingFromTheFuture, [Next]_vars
  PROVE  NothingFromTheFuture'
<1> USE DEF TypeOK, NothingFromTheFuture
<1>1. ASSUME Change PROVE NothingFromTheFuture'
  BY <1>1 DEF Change, wire, requests
<1>2. ASSUME Broadcast PROVE NothingFromTheFuture'
  BY <1>2 DEF Broadcast, requests
<1>3. ASSUME QuietChange PROVE NothingFromTheFuture'
  BY <1>3 DEF QuietChange, wire, requests
<1>4. ASSUME QuietEvent PROVE NothingFromTheFuture'
  BY <1>4 DEF QuietEvent, server, requests
<1>5. ASSUME OwnEdit PROVE NothingFromTheFuture'
  BY <1>5 DEF OwnEdit, wire
<1>6. ASSUME StartLoad PROVE NothingFromTheFuture'
  BY <1>6 DEF StartLoad, server, wire, requests
<1>7. ASSUME AnswerLoad PROVE NothingFromTheFuture'
  BY <1>7 DEF AnswerLoad, server, wire, requests
<1>8. ASSUME FinishLoad PROVE NothingFromTheFuture'
  BY <1>8 DEF FinishLoad, Rendered, server, requests
<1>9. ASSUME Subscribe PROVE NothingFromTheFuture'
  BY <1>9 DEF Subscribe, server, requests
<1>10. ASSUME StreamBreaks PROVE NothingFromTheFuture'
  BY <1>10 DEF StreamBreaks, Missed, Behind, server, requests
<1>11. ASSUME SessionLost PROVE NothingFromTheFuture'
  BY <1>11 DEF SessionLost, server, requests
<1>12. ASSUME NEW k \in Kinds, Receive(k) PROVE NothingFromTheFuture'
  BY <1>12 DEF Receive, server, requests
<1>13. ASSUME NEW r \in Requests, TimerFires(r) PROVE NothingFromTheFuture'
  BY <1>13 DEF TimerFires, server, wire
<1>14. ASSUME NEW r \in Requests, AnswerFetch(r) PROVE NothingFromTheFuture'
  BY <1>14 DEF AnswerFetch, server, wire
<1>15. ASSUME NEW r \in Requests, Render(r) PROVE NothingFromTheFuture'
  BY <1>15 DEF Render, Rendered, server, wire
<1>16. ASSUME NEW r \in Requests, EditAnswered(r) PROVE NothingFromTheFuture'
  BY <1>16 DEF EditAnswered, server, wire
<1>17. ASSUME NEW r \in Requests, FetchFails(r) PROVE NothingFromTheFuture'
  BY <1>17 DEF FetchFails, server, wire
<1>18. ASSUME UNCHANGED vars PROVE NothingFromTheFuture'
  BY <1>18 DEF vars
<1> QED
  BY <1>1, <1>2, <1>3, <1>4, <1>5, <1>6, <1>7, <1>8, <1>9, <1>10, <1>11, <1>12, <1>13,
     <1>14, <1>15, <1>16, <1>17, <1>18 DEF Next, LoadStep, FetchStep

\* Each step that ends a reason to refetch makes another, or records a cause.
LEMMA NextFreshOrExcused ==
  ASSUME IInv, [Next]_vars
  PROVE  FreshOrExcused' /\ LoadFreshOrExcused'
<1> DEFINE Both == FreshOrExcused /\ LoadFreshOrExcused
<1> USE DEF IInv, TypeOK, NothingFromTheFuture, FreshOrExcused, LoadFreshOrExcused, OnItsWay
<1>1. ASSUME Change PROVE Both'
  BY <1>1 DEF Change, wire, requests
<1>2. ASSUME Broadcast PROVE Both'
  <2>1. CASE stream # "open" \/ buffered'["refresh"] = 0
    BY <1>2, <2>1 DEF Broadcast, Missed, Behind, requests
  <2>2. CASE stream = "open" /\ buffered'["refresh"] # 0
    <3>1. buffered'["refresh"] > 0
      BY <1>2, <2>2, BufferFacts DEF Broadcast, Kinds
    <3> QED  BY <1>2, <3>1 DEF Broadcast, requests
  <2> QED  BY <2>1, <2>2
<1>3. ASSUME QuietChange PROVE Both'
  BY <1>3 DEF QuietChange, wire, requests
<1>4. ASSUME QuietEvent PROVE Both'
  <2>1. buffered'["refresh"] = buffered["refresh"]
    BY <1>4, BufferFacts DEF QuietEvent, Kinds
  <2> QED  BY <1>4, <2>1 DEF QuietEvent, server, requests
<1>5. ASSUME OwnEdit PROVE Both'
  BY <1>5 DEF OwnEdit, wire
<1>6. ASSUME StartLoad PROVE Both'
  BY <1>6 DEF StartLoad, server, wire, requests
<1>7. ASSUME AnswerLoad PROVE Both'
  BY <1>7 DEF AnswerLoad, server, wire, requests
<1>8. ASSUME FinishLoad PROVE Both'
  BY <1>8 DEF FinishLoad, Rendered, server, requests
<1>9. ASSUME Subscribe PROVE Both'
  BY <1>9 DEF Subscribe, server, requests
<1>10. ASSUME StreamBreaks PROVE Both'
  BY <1>10 DEF StreamBreaks, Missed, Behind, server, requests
<1>11. ASSUME SessionLost PROVE Both'
  BY <1>11 DEF SessionLost, server, requests
<1>12. ASSUME NEW k \in Kinds, Receive(k) PROVE Both'
  <2>1. CASE k = "refresh"
    BY <1>12, <2>1 DEF Receive, server, requests
  <2>2. CASE k = "quiet"
    <3>1. buffered'["refresh"] = buffered["refresh"]
      BY <1>12, <2>2 DEF Receive, Kinds
    <3>2. timer => timer'
      BY <1>12 DEF Receive
    <3> QED  BY <1>12, <3>1, <3>2 DEF Receive, server, requests
  <2> QED  BY <1>12, <2>1, <2>2 DEF Kinds
<1>13. ASSUME NEW r \in Requests, TimerFires(r) PROVE Both'
  BY <1>13 DEF TimerFires, server, wire
<1>14. ASSUME NEW r \in Requests, AnswerFetch(r) PROVE Both'
  BY <1>14 DEF AnswerFetch, server, wire
<1>15. ASSUME NEW r \in Requests, Render(r) PROVE Both'
  BY <1>15 DEF Render, Rendered, server, wire
<1>16. ASSUME NEW r \in Requests, EditAnswered(r) PROVE Both'
  BY <1>16 DEF EditAnswered, server, wire
<1>17. ASSUME NEW r \in Requests, FetchFails(r) PROVE Both'
  BY <1>17 DEF FetchFails, Missed, Behind, server, wire
<1>18. ASSUME UNCHANGED vars PROVE Both'
  BY <1>18 DEF vars
<1> QED
  BY <1>1, <1>2, <1>3, <1>4, <1>5, <1>6, <1>7, <1>8, <1>9, <1>10, <1>11, <1>12, <1>13,
     <1>14, <1>15, <1>16, <1>17, <1>18 DEF Next, LoadStep, FetchStep

-----------------------------------------------------------------------------
\* The invariant is inductive, and holds in every behaviour.
LEMMA NextIInv == IInv /\ [Next]_vars => IInv'
BY NextTypeOK, NextNothingFromTheFuture, NextFreshOrExcused DEF IInv

\* The induction over behaviours.
THEOREM IInvHolds == Spec => []IInv
<1>1. Init => IInv
  BY InitIInv
<1>2. IInv /\ [Next]_vars => IInv'
  BY NextIInv
<1> QED  BY <1>1, <1>2, PTL DEF Spec

\* No buffer exceeds the channel, and no version the database, whatever the
\* hub, the network and the page do.
THEOREM TypeCorrect == Spec => []TypeOK
<1>1. IInv => TypeOK
  BY DEF IInv
<1> QED  BY <1>1, IInvHolds, PTL

\* A page that shows less than the database holds is about to refetch or has
\* missed something nameable, for every capacity and any number of requests in
\* flight (Hub.Broadcast, connectSSE, refreshDebounced).
THEOREM FreshOrExcusedHolds == Spec => []FreshOrExcused
<1>1. IInv => FreshOrExcused
  BY DEF IInv
<1> QED  BY <1>1, IInvHolds, PTL
=============================================================================
