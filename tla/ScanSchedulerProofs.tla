------------------------ MODULE ScanSchedulerProofs -------------------------
(***************************************************************************)
(* Proofs about ScanScheduler, for any subnets, modes and bounds.          *)
(***************************************************************************)
EXTENDS ScanScheduler, TLAPS

\* What the position of Run says about the cycle: goroutines are left behind by
\* cancelled cycles only.
Phases ==
  /\ loop \in {"select", "returned", "locals", "list"} => todo = {} /\ workers = {}
  /\ loop = "wait" => todo = {}
  /\ orphans # {} => stopping
  /\ loop = "returned" => stopping

\* The inductive invariant.
IInv == TypeOK /\ Phases /\ NewSubnetNotMissed /\ NoDoubleScan /\ StatusHonest

-----------------------------------------------------------------------------
\* Types.
LEMMA NextTypeOK == TypeOK /\ [Next]_vars => TypeOK'
<1> SUFFICES ASSUME TypeOK, [Next]_vars PROVE TypeOK'
  OBVIOUS
<1> USE ModesAssumption, LocalAssumption, BoundsAssumption
    DEF requests, run, history, bounds, BeginCycle, BackInRun, Edit, TypeOK
<1>1. ASSUME ReceiveTick PROVE TypeOK'
  BY <1>1 DEF ReceiveTick
<1>2. ASSUME NEW m \in Modes, ReceiveTrigger(m) PROVE TypeOK'
  BY <1>2 DEF ReceiveTrigger
<1>3. ASSUME Return PROVE TypeOK'
  BY <1>3 DEF Return
<1>4. ASSUME Tick PROVE TypeOK'
  BY <1>4 DEF Tick
<1>5. ASSUME NEW s \in Subnets, RegisterLocal(s) PROVE TypeOK'
  BY <1>5 DEF RegisterLocal
<1>6. ASSUME LocalsDone PROVE TypeOK'
  BY <1>6 DEF LocalsDone
<1>7. ASSUME ListSubnets PROVE TypeOK'
  BY <1>7 DEF ListSubnets
<1>8. ASSUME ListSubnetsFails PROVE TypeOK'
  BY <1>8 DEF ListSubnetsFails
<1>9. ASSUME NEW s \in Subnets, SpawnScan(s) PROVE TypeOK'
  BY <1>9 DEF SpawnScan
<1>10. ASSUME AbandonCycle PROVE TypeOK'
  BY <1>10 DEF AbandonCycle
<1>11. ASSUME SpawnDone PROVE TypeOK'
  BY <1>11 DEF SpawnDone
<1>12. ASSUME NEW s \in Subnets, ScanDone(s) PROVE TypeOK'
  BY <1>12 DEF ScanDone
<1>13. ASSUME CycleDone PROVE TypeOK'
  BY <1>13 DEF CycleDone
<1>14. ASSUME NEW m \in Modes, TriggerScan(m) PROVE TypeOK'
  BY <1>14 DEF TriggerScan
<1>15. ASSUME NEW s \in Subnets, AddSubnet(s) PROVE TypeOK'
  BY <1>15 DEF AddSubnet
<1>16. ASSUME NEW s \in Subnets, TriggerNow(s) PROVE TypeOK'
  BY <1>16 DEF TriggerNow
<1>17. ASSUME NEW s \in Subnets, ImportFails(s) PROVE TypeOK'
  BY <1>17 DEF ImportFails
<1>18. ASSUME NEW s \in Subnets, SetSubnetEnabled(s) PROVE TypeOK'
  BY <1>18 DEF SetSubnetEnabled
<1>19. ASSUME NEW s \in Subnets, DeleteSubnet(s) PROVE TypeOK'
  BY <1>19 DEF DeleteSubnet
<1>20. ASSUME Shutdown PROVE TypeOK'
  BY <1>20 DEF Shutdown
<1>21. ASSUME Restart PROVE TypeOK'
  <2>1. stopping' \in BOOLEAN
    BY <1>21, Zenon DEF Restart
  <2>2. loop' = "locals" /\ mode' \in Modes /\ status' \in Modes /\ locals' \in SUBSET Local
    BY <1>21 DEF Restart
  <2>3. QED
    BY <1>21, <2>1, <2>2 DEF Restart
<1>22. CASE UNCHANGED vars
  BY <1>22 DEF vars
<1>23. QED
  BY <1>1, <1>2, <1>3, <1>4, <1>5, <1>6, <1>7, <1>8, <1>9, <1>10, <1>11, <1>12, <1>13,
     <1>14, <1>15, <1>16, <1>17, <1>18, <1>19, <1>20, <1>21, <1>22
  DEF Next, CycleStep, HandlerStep

\* Nothing is spawned before the list is taken, nor after the shutdown.
LEMMA NextPhases == TypeOK /\ Phases /\ [Next]_vars => Phases'
<1> SUFFICES ASSUME TypeOK, Phases, [Next]_vars PROVE Phases'
  OBVIOUS
<1> USE ModesAssumption, LocalAssumption, BoundsAssumption
    DEF requests, run, history, bounds, BeginCycle, BackInRun, Edit, TypeOK, Phases
<1>1. ASSUME ReceiveTick PROVE Phases'
  BY <1>1 DEF ReceiveTick
<1>2. ASSUME NEW m \in Modes, ReceiveTrigger(m) PROVE Phases'
  BY <1>2 DEF ReceiveTrigger
<1>3. ASSUME Return PROVE Phases'
  BY <1>3 DEF Return
<1>4. ASSUME LocalsDone PROVE Phases'
  BY <1>4 DEF LocalsDone
<1>5. ASSUME ListSubnets PROVE Phases'
  BY <1>5 DEF ListSubnets
<1>6. ASSUME ListSubnetsFails PROVE Phases'
  BY <1>6 DEF ListSubnetsFails
<1>7. ASSUME NEW s \in Subnets, SpawnScan(s) PROVE Phases'
  BY <1>7 DEF SpawnScan
<1>8. ASSUME AbandonCycle PROVE Phases'
  BY <1>8 DEF AbandonCycle
<1>9. ASSUME SpawnDone PROVE Phases'
  BY <1>9 DEF SpawnDone
<1>10. ASSUME NEW s \in Subnets, ScanDone(s) PROVE Phases'
  BY <1>10 DEF ScanDone
<1>11. ASSUME CycleDone PROVE Phases'
  BY <1>11 DEF CycleDone
<1>12. ASSUME Shutdown PROVE Phases'
  BY <1>12 DEF Shutdown
<1>13. ASSUME Restart PROVE Phases'
  BY <1>13 DEF Restart
<1>14. ASSUME Tick PROVE Phases'
  BY <1>14 DEF Tick
<1>15. ASSUME NEW s \in Subnets,
             \/ RegisterLocal(s) \/ AddSubnet(s) \/ TriggerNow(s) \/ ImportFails(s)
             \/ SetSubnetEnabled(s) \/ DeleteSubnet(s)
      PROVE  Phases'
  BY <1>15 DEF RegisterLocal, AddSubnet, TriggerNow, ImportFails, SetSubnetEnabled,
      DeleteSubnet
<1>16. ASSUME NEW m \in Modes, TriggerScan(m) PROVE Phases'
  BY <1>16 DEF TriggerScan
<1>17. CASE UNCHANGED vars
  BY <1>17 DEF vars
<1>18. QED
  BY <1>1, <1>2, <1>3, <1>4, <1>5, <1>6, <1>7, <1>8, <1>9, <1>10, <1>11, <1>12, <1>13,
     <1>14, <1>15, <1>16, <1>17
  DEF Next, CycleStep, HandlerStep

\* A subnet is forgotten by the history only when it is listed, and a token
\* leaves the channel only for a cycle that will list.
LEMMA NextNewSubnetNotMissed == TypeOK /\ NewSubnetNotMissed /\ [Next]_vars => NewSubnetNotMissed'
<1> SUFFICES ASSUME TypeOK, NewSubnetNotMissed, [Next]_vars PROVE NewSubnetNotMissed'
  OBVIOUS
<1> USE ModesAssumption, LocalAssumption, BoundsAssumption
    DEF requests, run, history, bounds, BeginCycle, BackInRun, Edit, TypeOK,
        NewSubnetNotMissed, WillList
<1>1. ASSUME ReceiveTick PROVE NewSubnetNotMissed'
  BY <1>1 DEF ReceiveTick
<1>2. ASSUME NEW m \in Modes, ReceiveTrigger(m) PROVE NewSubnetNotMissed'
  BY <1>2 DEF ReceiveTrigger
<1>3. ASSUME Return PROVE NewSubnetNotMissed'
  BY <1>3 DEF Return
<1>4. ASSUME LocalsDone PROVE NewSubnetNotMissed'
  BY <1>4 DEF LocalsDone
<1>5. ASSUME ListSubnets PROVE NewSubnetNotMissed'
  BY <1>5 DEF ListSubnets
<1>6. ASSUME ListSubnetsFails PROVE NewSubnetNotMissed'
  BY <1>6 DEF ListSubnetsFails
<1>7. ASSUME AbandonCycle PROVE NewSubnetNotMissed'
  BY <1>7 DEF AbandonCycle
<1>8. ASSUME SpawnDone PROVE NewSubnetNotMissed'
  BY <1>8 DEF SpawnDone
<1>9. ASSUME CycleDone PROVE NewSubnetNotMissed'
  BY <1>9 DEF CycleDone
<1>10. ASSUME NEW m \in Modes, TriggerScan(m) PROVE NewSubnetNotMissed'
  BY <1>10 DEF TriggerScan
<1>11. ASSUME NEW s \in Subnets, AddSubnet(s) PROVE NewSubnetNotMissed'
  BY <1>11 DEF AddSubnet
<1>12. ASSUME NEW s \in Subnets, TriggerNow(s) PROVE NewSubnetNotMissed'
  BY <1>12 DEF TriggerNow
<1>13. ASSUME NEW s \in Subnets, ImportFails(s) PROVE NewSubnetNotMissed'
  BY <1>13 DEF ImportFails
<1>14. ASSUME Restart PROVE NewSubnetNotMissed'
  BY <1>14 DEF Restart
<1>15. ASSUME
             \/ Tick \/ Shutdown
      PROVE  NewSubnetNotMissed'
  BY <1>15 DEF Tick, Shutdown
<1>16. ASSUME NEW s \in Subnets,
             \/ RegisterLocal(s) \/ SpawnScan(s) \/ ScanDone(s) \/ SetSubnetEnabled(s)
             \/ DeleteSubnet(s)
      PROVE  NewSubnetNotMissed'
  BY <1>16 DEF RegisterLocal, SpawnScan, ScanDone, SetSubnetEnabled, DeleteSubnet
<1>17. CASE UNCHANGED vars
  BY <1>17 DEF vars
<1>18. QED
  BY <1>1, <1>2, <1>3, <1>4, <1>5, <1>6, <1>7, <1>8, <1>9, <1>10, <1>11, <1>12, <1>13,
     <1>14, <1>15, <1>16, <1>17
  DEF Next, CycleStep, HandlerStep

\* No goroutine is spawned once there are orphans.
LEMMA NextNoDoubleScan == TypeOK /\ Phases /\ NoDoubleScan /\ [Next]_vars => NoDoubleScan'
<1> SUFFICES ASSUME TypeOK, Phases, NoDoubleScan, [Next]_vars PROVE NoDoubleScan'
  OBVIOUS
<1> USE ModesAssumption, LocalAssumption, BoundsAssumption
    DEF requests, run, history, bounds, BeginCycle, BackInRun, Edit, TypeOK, Phases,
        NoDoubleScan
<1>1. ASSUME NEW s \in Subnets, SpawnScan(s) PROVE NoDoubleScan'
  BY <1>1 DEF SpawnScan
<1>2. ASSUME AbandonCycle PROVE NoDoubleScan'
  BY <1>2 DEF AbandonCycle
<1>3. ASSUME NEW s \in Subnets, ScanDone(s) PROVE NoDoubleScan'
  BY <1>3 DEF ScanDone
<1>4. ASSUME Restart PROVE NoDoubleScan'
  BY <1>4 DEF Restart
<1>5. ASSUME
             \/ ReceiveTick \/ Return \/ Tick \/ LocalsDone \/ ListSubnets
             \/ ListSubnetsFails \/ SpawnDone \/ CycleDone \/ Shutdown
      PROVE  NoDoubleScan'
  BY <1>5 DEF ReceiveTick, Return, Tick, LocalsDone, ListSubnets, ListSubnetsFails,
      SpawnDone, CycleDone, Shutdown
<1>6. ASSUME NEW m \in Modes,
             \/ ReceiveTrigger(m) \/ TriggerScan(m)
      PROVE  NoDoubleScan'
  BY <1>6 DEF ReceiveTrigger, TriggerScan
<1>7. ASSUME NEW s \in Subnets,
             \/ RegisterLocal(s) \/ AddSubnet(s) \/ TriggerNow(s) \/ ImportFails(s)
             \/ SetSubnetEnabled(s) \/ DeleteSubnet(s)
      PROVE  NoDoubleScan'
  BY <1>7 DEF RegisterLocal, AddSubnet, TriggerNow, ImportFails, SetSubnetEnabled,
      DeleteSubnet
<1>8. CASE UNCHANGED vars
  BY <1>8 DEF vars
<1>9. QED
  BY <1>1, <1>2, <1>3, <1>4, <1>5, <1>6, <1>7, <1>8
  DEF Next, CycleStep, HandlerStep

\* The status follows the loop.
LEMMA NextStatusHonest == TypeOK /\ Phases /\ StatusHonest /\ [Next]_vars => StatusHonest'
<1> SUFFICES ASSUME TypeOK, Phases, StatusHonest, [Next]_vars PROVE StatusHonest'
  OBVIOUS
<1> USE ModesAssumption, LocalAssumption, BoundsAssumption
    DEF requests, run, history, bounds, BeginCycle, BackInRun, Edit, TypeOK, Phases,
        StatusHonest
<1>1. ASSUME ReceiveTick PROVE StatusHonest'
  BY <1>1 DEF ReceiveTick
<1>2. ASSUME NEW m \in Modes, ReceiveTrigger(m) PROVE StatusHonest'
  BY <1>2 DEF ReceiveTrigger
<1>3. ASSUME Return PROVE StatusHonest'
  BY <1>3 DEF Return
<1>4. ASSUME LocalsDone PROVE StatusHonest'
  BY <1>4 DEF LocalsDone
<1>5. ASSUME ListSubnets PROVE StatusHonest'
  BY <1>5 DEF ListSubnets
<1>6. ASSUME ListSubnetsFails PROVE StatusHonest'
  BY <1>6 DEF ListSubnetsFails
<1>7. ASSUME NEW s \in Subnets, SpawnScan(s) PROVE StatusHonest'
  BY <1>7 DEF SpawnScan
<1>8. ASSUME AbandonCycle PROVE StatusHonest'
  BY <1>8 DEF AbandonCycle
<1>9. ASSUME SpawnDone PROVE StatusHonest'
  BY <1>9 DEF SpawnDone
<1>10. ASSUME NEW s \in Subnets, ScanDone(s) PROVE StatusHonest'
  BY <1>10 DEF ScanDone
<1>11. ASSUME CycleDone PROVE StatusHonest'
  BY <1>11 DEF CycleDone
<1>12. ASSUME Shutdown PROVE StatusHonest'
  BY <1>12 DEF Shutdown
<1>13. ASSUME Restart PROVE StatusHonest'
  BY <1>13 DEF Restart
<1>14. ASSUME Tick PROVE StatusHonest'
  BY <1>14 DEF Tick
<1>15. ASSUME NEW s \in Subnets,
             \/ RegisterLocal(s) \/ AddSubnet(s) \/ TriggerNow(s) \/ ImportFails(s)
             \/ SetSubnetEnabled(s) \/ DeleteSubnet(s)
      PROVE  StatusHonest'
  BY <1>15 DEF RegisterLocal, AddSubnet, TriggerNow, ImportFails, SetSubnetEnabled,
      DeleteSubnet
<1>16. ASSUME NEW m \in Modes, TriggerScan(m) PROVE StatusHonest'
  BY <1>16 DEF TriggerScan
<1>17. CASE UNCHANGED vars
  BY <1>17 DEF vars
<1>18. QED
  BY <1>1, <1>2, <1>3, <1>4, <1>5, <1>6, <1>7, <1>8, <1>9, <1>10, <1>11, <1>12, <1>13,
     <1>14, <1>15, <1>16, <1>17
  DEF Next, CycleStep, HandlerStep

\* Before anything was scanned.
LEMMA InitIInv == Init => IInv
<1> SUFFICES ASSUME Init PROVE IInv
  OBVIOUS
<1>1. stopping \in BOOLEAN
  BY Zenon DEF Init
<1>2. TypeOK
  BY <1>1, ModesAssumption, LocalAssumption, BoundsAssumption DEF Init, TypeOK
<1>3. Phases /\ NewSubnetNotMissed /\ NoDoubleScan
  BY DEF Init, Phases, NewSubnetNotMissed, NoDoubleScan
<1>4. StatusHonest
  BY DEF Init, StatusHonest
<1>5. QED
  BY <1>2, <1>3, <1>4 DEF IInv

\* The invariant is inductive.
LEMMA NextIInv == IInv /\ [Next]_vars => IInv'
  BY NextTypeOK, NextPhases, NextNewSubnetNotMissed, NextNoDoubleScan, NextStatusHonest
  DEF IInv

\* All parts of the inductive invariant hold for ever.
THEOREM IInvHolds == Spec => []IInv
<1>1. Init => IInv
  BY InitIInv
<1>2. IInv /\ [Next]_vars => IInv'
  BY NextIInv
<1>3. QED
  BY <1>1, <1>2, PTL DEF Spec

\* Every variable has its type.
THEOREM TypeCorrect == Spec => []TypeOK
  BY IInvHolds, PTL DEF IInv

\* A subnet added by a handler waits for no tick: a cycle that lists it is under
\* way or requested (createSubnet, the imports, TriggerNow).
THEOREM NewSubnetNotMissedHolds == Spec => []NewSubnetNotMissed
  BY IInvHolds, PTL DEF IInv

\* No two goroutines of different cycles scan side by side (runOnce).
THEOREM NoDoubleScanHolds == Spec => []NoDoubleScan
  BY IInvHolds, PTL DEF IInv

\* Status names the running cycle until the shutdown (runOnce, Status).
THEOREM StatusHonestHolds == Spec => []StatusHonest
  BY IInvHolds, PTL DEF IInv
=============================================================================
