------------------------- MODULE HostLivenessProofs -------------------------
(***************************************************************************)
(* Proofs about HostLiveness, for any set of addresses, any threshold and  *)
(* any bounds.                                                             *)
(***************************************************************************)
EXTENDS HostLiveness, TLAPS

\* What the phase of a cycle says about its goroutines.
Phases ==
  /\ phase \in {"probe", "record", "sweep", "events", "enrich"} => method # "rdns"
  /\ phase # "events" => wentDown = {}
  /\ \A ip \in IPs :
       /\ stage[ip] \notin {"none", "seen", "unseen"} => phase \in {"probe", "dns", "record"}
       /\ stage[ip] = "none" => phase = "idle"
       /\ stage[ip] = "answered" /\ phase = "dns" => method = "nmap"
       /\ stage[ip] = "confirmed" => method = "nmap"

\* A goroutine's row is as young as its greeting, or younger.
Greetings ==
  \A ip \in IPs :
    /\ stage[ip] \in {"greetUp", "greetHint"} /\ ip \in holds => status[ip] # "down"
    /\ stage[ip] \in {"greetHint", "hinted"} /\ ip \notin holds => miss[ip] = 0

\* This cycle's discovery asked ip in vain, and the sweep is still to count it.
Asked(ip) ==
  /\ method # "rdns" /\ phase \in {"probe", "dns", "record", "sweep"}
  /\ stage[ip] \in {"silent", "greetHint", "hinted", "unseen"}

\* The row never counts more misses than discovery had unanswered probes.
MissesAreProbes ==
  \A ip \in Expanded :
    /\ Asked(ip) => quiet[ip] >= 1
    /\ status[ip] # "none" =>
         \/ quiet[ip] = MissThreshold
         \/ miss[ip] + (IF Asked(ip) THEN 1 ELSE 0) <= quiet[ip]

Counted ==
  \A ip \in IPs :
    /\ status[ip] = "none" => miss[ip] = 0 /\ origin[ip] = "none"
    /\ status[ip] = "down" => miss[ip] = MissThreshold

\* What the cycle has seen, something vouched for.
SeenProven ==
  \A ip \in IPs : stage[ip] \in {"greetUp", "confirmed", "seen"} => ip \in proven

IInv ==
  /\ TypeOK /\ Phases /\ Greetings /\ Counted /\ MissesAreProbes /\ SeenProven
  /\ HintsProveNothing /\ DownAnnounced /\ NewHostAnnounced

-----------------------------------------------------------------------------
(* One lemma per part of the invariant; the steps that leave the variables of   *)
(* that part alone are taken together.                                          *)

\* Types.
LEMMA NextTypeOK == TypeOK /\ [Next]_vars => TypeOK'
<1> SUFFICES ASSUME TypeOK, [Next]_vars PROVE TypeOK'
  OBVIOUS
<1> USE ThresholdAssumption, AddressAssumption, LimitsAssumption
    DEF rows, cycle, history, limits, All, Increment, UpsertHost, UpsertUnconfirmedHost,
        ConfirmHostUp, Born, Missing, GoesDown, Edit, TypeOK, Stages
<1>1. ASSUME NEW m \in {"tcp", "nmap", "rdns"}, StartCycle(m) PROVE TypeOK'
  BY <1>1 DEF StartCycle
<1>2. ASSUME NEW ip \in IPs, ProbeHost(ip) PROVE TypeOK'
  BY <1>2 DEF ProbeHost
<1>3. ASSUME NEW ip \in IPs, RecordHost(ip) PROVE TypeOK'
  BY <1>3 DEF RecordHost
<1>4. ASSUME NEW ip \in IPs, EmitNewHost(ip) PROVE TypeOK'
  BY <1>4 DEF EmitNewHost
<1>5. ASSUME ProbesDone PROVE TypeOK'
  BY <1>5 DEF ProbesDone
<1>6. ASSUME NEW ip \in IPs, ResolvePTR(ip) PROVE TypeOK'
  BY <1>6 DEF ResolvePTR
<1>7. ASSUME NEW ip \in IPs, ConfirmByPort(ip) PROVE TypeOK'
  BY <1>7 DEF ConfirmByPort
<1>8. ASSUME DNSDone PROVE TypeOK'
  BY <1>8 DEF DNSDone
<1>9. ASSUME NEW ip \in IPs, FoldDNSConfirmed(ip) PROVE TypeOK'
  BY <1>9 DEF FoldDNSConfirmed
<1>10. ASSUME RecordsDone PROVE TypeOK'
  BY <1>10 DEF RecordsDone
<1>11. ASSUME SweepMissingHosts PROVE TypeOK'
  BY <1>11 DEF SweepMissingHosts
<1>12. ASSUME NEW ip \in IPs, EmitHostDown(ip) PROVE TypeOK'
  BY <1>12 DEF EmitHostDown
<1>13. ASSUME SweepDone PROVE TypeOK'
  BY <1>13 DEF SweepDone
<1>14. ASSUME NEW ip \in IPs, EnrichHost(ip) PROVE TypeOK'
  BY <1>14 DEF EnrichHost
<1>15. ASSUME EnrichmentDone PROVE TypeOK'
  BY <1>15 DEF EnrichmentDone
<1>16. ASSUME NEW ip \in IPs, AddManualHost(ip) PROVE TypeOK'
  BY <1>16 DEF AddManualHost
<1>17. ASSUME NEW ip \in IPs, ImportHost(ip) PROVE TypeOK'
  BY <1>17 DEF ImportHost
<1>18. ASSUME NEW ip \in IPs, ImportNmapHost(ip) PROVE TypeOK'
  BY <1>18 DEF ImportNmapHost
<1>19. ASSUME NEW gone \in SUBSET IPs, DeleteHosts(gone) PROVE TypeOK'
  BY <1>19 DEF DeleteHosts
<1>20. ASSUME NEW ip \in IPs, Flip(ip) PROVE TypeOK'
  BY <1>20 DEF Flip
<1>21. ASSUME CrashAndRestart PROVE TypeOK'
  BY <1>21 DEF Fault, CrashAndRestart
<1>22. ASSUME NEW ip \in IPs, RecordFails(ip) PROVE TypeOK'
  BY <1>22 DEF Fault, RecordFails
<1>23. ASSUME NEW ip \in IPs, ConfirmFails(ip) \/ EmitFails(ip) PROVE TypeOK'
  BY <1>23 DEF Fault, ConfirmFails, EmitFails
<1>24. ASSUME NEW done \in SUBSET Missing, SweepFails(done) PROVE TypeOK'
  BY <1>24 DEF Fault, SweepFails
<1>25. CASE UNCHANGED vars
  BY <1>25 DEF vars
<1>26. QED
  BY <1>1, <1>2, <1>3, <1>4, <1>5, <1>6, <1>7, <1>8, <1>9, <1>10, <1>11, <1>12,
     <1>13, <1>14, <1>15, <1>16, <1>17, <1>18, <1>19, <1>20, <1>21, <1>22,
     <1>23, <1>24, <1>25
  DEF Next, HostStep, PhaseStep, EditStep, FaultStep, ClearAllHosts

\* A phase begins when no goroutine is left in the one before.
LEMMA NextPhases == TypeOK /\ Phases /\ [Next]_vars => Phases'
<1> SUFFICES ASSUME TypeOK, Phases, [Next]_vars PROVE Phases'
  OBVIOUS
<1> USE ThresholdAssumption, AddressAssumption, LimitsAssumption
    DEF rows, cycle, history, limits, All, Increment, UpsertHost, UpsertUnconfirmedHost,
        ConfirmHostUp, Born, Missing, GoesDown, Edit, TypeOK, Stages, Phases
<1>1. ASSUME NEW m \in {"tcp", "nmap", "rdns"}, StartCycle(m) PROVE Phases'
  BY <1>1 DEF StartCycle
<1>2. ASSUME NEW ip \in IPs, ProbeHost(ip) PROVE Phases'
  BY <1>2 DEF ProbeHost
<1>3. ASSUME NEW ip \in IPs, RecordHost(ip) PROVE Phases'
  BY <1>3 DEF RecordHost
<1>4. ASSUME NEW ip \in IPs, EmitNewHost(ip) PROVE Phases'
  BY <1>4 DEF EmitNewHost
<1>5. ASSUME ProbesDone PROVE Phases'
  BY <1>5 DEF ProbesDone
<1>6. ASSUME NEW ip \in IPs, ResolvePTR(ip) PROVE Phases'
  BY <1>6 DEF ResolvePTR
<1>7. ASSUME NEW ip \in IPs, ConfirmByPort(ip) PROVE Phases'
  BY <1>7 DEF ConfirmByPort
<1>8. ASSUME DNSDone PROVE Phases'
  BY <1>8 DEF DNSDone
<1>9. ASSUME NEW ip \in IPs, FoldDNSConfirmed(ip) PROVE Phases'
  BY <1>9 DEF FoldDNSConfirmed
<1>10. ASSUME RecordsDone PROVE Phases'
  BY <1>10 DEF RecordsDone
<1>11. ASSUME SweepMissingHosts PROVE Phases'
  BY <1>11 DEF SweepMissingHosts
<1>12. ASSUME NEW ip \in IPs, EmitHostDown(ip) PROVE Phases'
  BY <1>12 DEF EmitHostDown
<1>13. ASSUME SweepDone PROVE Phases'
  BY <1>13 DEF SweepDone
<1>14. ASSUME EnrichmentDone PROVE Phases'
  BY <1>14 DEF EnrichmentDone
<1>15. ASSUME NEW gone \in SUBSET IPs, DeleteHosts(gone) PROVE Phases'
  BY <1>15 DEF DeleteHosts
<1>16. ASSUME CrashAndRestart PROVE Phases'
  BY <1>16 DEF Fault, CrashAndRestart
<1>17. ASSUME NEW ip \in IPs,
             \/ EnrichHost(ip) \/ AddManualHost(ip) \/ ImportHost(ip)
             \/ ImportNmapHost(ip) \/ Flip(ip)
      PROVE  Phases'
  BY <1>17 DEF EnrichHost, AddManualHost, ImportHost, ImportNmapHost, Flip
<1>18. ASSUME NEW ip \in IPs, RecordFails(ip) PROVE Phases'
  BY <1>18 DEF Fault, RecordFails
<1>19. ASSUME NEW ip \in IPs, ConfirmFails(ip) \/ EmitFails(ip) PROVE Phases'
  BY <1>19 DEF Fault, ConfirmFails, EmitFails
<1>20. ASSUME NEW done \in SUBSET Missing, SweepFails(done) PROVE Phases'
  BY <1>20 DEF Fault, SweepFails
<1>21. CASE UNCHANGED vars
  BY <1>21 DEF vars
<1>22. QED
  BY <1>1, <1>2, <1>3, <1>4, <1>5, <1>6, <1>7, <1>8, <1>9, <1>10, <1>11, <1>12,
     <1>13, <1>14, <1>15, <1>16, <1>17, <1>18, <1>19, <1>20, <1>21
  DEF Next, HostStep, PhaseStep, EditStep, FaultStep, ClearAllHosts

\* A goroutine whose row was deleted under it finds a row of this cycle, not yet
\* counted by any sweep.
LEMMA NextGreetings == TypeOK /\ Phases /\ Greetings /\ [Next]_vars => Greetings'
<1> SUFFICES ASSUME TypeOK, Phases, Greetings, [Next]_vars PROVE Greetings'
  OBVIOUS
<1> USE ThresholdAssumption, AddressAssumption, LimitsAssumption
    DEF rows, cycle, history, limits, All, Increment, UpsertHost, UpsertUnconfirmedHost,
        ConfirmHostUp, Born, Missing, GoesDown, Edit, TypeOK, Stages, Phases, Greetings
<1>1. ASSUME NEW m \in {"tcp", "nmap", "rdns"}, StartCycle(m) PROVE Greetings'
  BY <1>1 DEF StartCycle
<1>2. ASSUME NEW ip \in IPs, ProbeHost(ip) PROVE Greetings'
  BY <1>2 DEF ProbeHost
<1>3. ASSUME NEW ip \in IPs, RecordHost(ip) PROVE Greetings'
  BY <1>3 DEF RecordHost
<1>4. ASSUME NEW ip \in IPs, EmitNewHost(ip) PROVE Greetings'
  BY <1>4 DEF EmitNewHost
<1>5. ASSUME ProbesDone PROVE Greetings'
  BY <1>5 DEF ProbesDone
<1>6. ASSUME NEW ip \in IPs, ResolvePTR(ip) PROVE Greetings'
  BY <1>6 DEF ResolvePTR
<1>7. ASSUME NEW ip \in IPs, ConfirmByPort(ip) PROVE Greetings'
  BY <1>7 DEF ConfirmByPort
<1>8. ASSUME DNSDone PROVE Greetings'
  BY <1>8 DEF DNSDone
<1>9. ASSUME NEW ip \in IPs, FoldDNSConfirmed(ip) PROVE Greetings'
  BY <1>9 DEF FoldDNSConfirmed
<1>10. ASSUME RecordsDone PROVE Greetings'
  BY <1>10 DEF RecordsDone
<1>11. ASSUME SweepMissingHosts PROVE Greetings'
  BY <1>11 DEF SweepMissingHosts
<1>12. ASSUME SweepDone PROVE Greetings'
  BY <1>12 DEF SweepDone
<1>13. ASSUME NEW ip \in IPs, EnrichHost(ip) PROVE Greetings'
  BY <1>13 DEF EnrichHost
<1>14. ASSUME EnrichmentDone PROVE Greetings'
  BY <1>14 DEF EnrichmentDone
<1>15. ASSUME NEW ip \in IPs, AddManualHost(ip) PROVE Greetings'
  BY <1>15 DEF AddManualHost
<1>16. ASSUME NEW ip \in IPs, ImportHost(ip) PROVE Greetings'
  BY <1>16 DEF ImportHost
<1>17. ASSUME NEW ip \in IPs, ImportNmapHost(ip) PROVE Greetings'
  BY <1>17 DEF ImportNmapHost
<1>18. ASSUME NEW gone \in SUBSET IPs, DeleteHosts(gone) PROVE Greetings'
  BY <1>18 DEF DeleteHosts
<1>19. ASSUME CrashAndRestart PROVE Greetings'
  BY <1>19 DEF Fault, CrashAndRestart
<1>20. ASSUME NEW ip \in IPs,
             \/ EmitHostDown(ip) \/ Flip(ip)
      PROVE  Greetings'
  BY <1>20 DEF EmitHostDown, Flip
<1>21. ASSUME NEW ip \in IPs, RecordFails(ip) PROVE Greetings'
  BY <1>21 DEF Fault, RecordFails
<1>22. ASSUME NEW ip \in IPs, ConfirmFails(ip) \/ EmitFails(ip) PROVE Greetings'
  BY <1>22 DEF Fault, ConfirmFails, EmitFails
<1>23. ASSUME NEW done \in SUBSET Missing, SweepFails(done) PROVE Greetings'
  BY <1>23 DEF Fault, SweepFails
<1>24. CASE UNCHANGED vars
  BY <1>24 DEF vars
<1>25. QED
  BY <1>1, <1>2, <1>3, <1>4, <1>5, <1>6, <1>7, <1>8, <1>9, <1>10, <1>11, <1>12,
     <1>13, <1>14, <1>15, <1>16, <1>17, <1>18, <1>19, <1>20, <1>21, <1>22,
     <1>23, <1>24
  DEF Next, HostStep, PhaseStep, EditStep, FaultStep, ClearAllHosts

\* Only the sweep that brings the count to the threshold takes a row down.
LEMMA NextCounted == TypeOK /\ Counted /\ [Next]_vars => Counted'
<1> SUFFICES ASSUME TypeOK, Counted, [Next]_vars PROVE Counted'
  OBVIOUS
<1> USE ThresholdAssumption, AddressAssumption, LimitsAssumption
    DEF rows, cycle, history, limits, All, Increment, UpsertHost, UpsertUnconfirmedHost,
        ConfirmHostUp, Born, Missing, GoesDown, Edit, TypeOK, Stages, Counted
<1>1. ASSUME NEW ip \in IPs, RecordHost(ip) PROVE Counted'
  BY <1>1 DEF RecordHost
<1>2. ASSUME NEW ip \in IPs, ResolvePTR(ip) PROVE Counted'
  BY <1>2 DEF ResolvePTR
<1>3. ASSUME NEW ip \in IPs, ConfirmByPort(ip) PROVE Counted'
  BY <1>3 DEF ConfirmByPort
<1>4. ASSUME NEW ip \in IPs, FoldDNSConfirmed(ip) PROVE Counted'
  BY <1>4 DEF FoldDNSConfirmed
<1>5. ASSUME SweepMissingHosts PROVE Counted'
  BY <1>5 DEF SweepMissingHosts
<1>6. ASSUME NEW ip \in IPs, EnrichHost(ip) PROVE Counted'
  BY <1>6 DEF EnrichHost
<1>7. ASSUME NEW ip \in IPs, AddManualHost(ip) PROVE Counted'
  BY <1>7 DEF AddManualHost
<1>8. ASSUME NEW ip \in IPs, ImportHost(ip) PROVE Counted'
  BY <1>8 DEF ImportHost
<1>9. ASSUME NEW ip \in IPs, ImportNmapHost(ip) PROVE Counted'
  BY <1>9 DEF ImportNmapHost
<1>10. ASSUME NEW gone \in SUBSET IPs, DeleteHosts(gone) PROVE Counted'
  BY <1>10 DEF DeleteHosts
<1>11. ASSUME NEW m \in {"tcp", "nmap", "rdns"}, StartCycle(m) PROVE Counted'
  BY <1>11 DEF StartCycle
<1>12. ASSUME NEW ip \in IPs,
             \/ ProbeHost(ip) \/ EmitNewHost(ip) \/ EmitHostDown(ip) \/ Flip(ip)
      PROVE  Counted'
  BY <1>12 DEF ProbeHost, EmitNewHost, EmitHostDown, Flip
<1>13. ASSUME
             \/ ProbesDone \/ DNSDone \/ RecordsDone \/ SweepDone \/ EnrichmentDone
             \/ CrashAndRestart
      PROVE  Counted'
  BY <1>13 DEF ProbesDone, DNSDone, RecordsDone, SweepDone, EnrichmentDone,
      Fault, CrashAndRestart
<1>14. ASSUME NEW ip \in IPs, RecordFails(ip) PROVE Counted'
  BY <1>14 DEF Fault, RecordFails
<1>15. ASSUME NEW ip \in IPs, ConfirmFails(ip) \/ EmitFails(ip) PROVE Counted'
  BY <1>15 DEF Fault, ConfirmFails, EmitFails
<1>16. ASSUME NEW done \in SUBSET Missing, SweepFails(done) PROVE Counted'
  BY <1>16 DEF Fault, SweepFails
<1>17. CASE UNCHANGED vars
  BY <1>17 DEF vars
<1>18. QED
  BY <1>1, <1>2, <1>3, <1>4, <1>5, <1>6, <1>7, <1>8, <1>9, <1>10, <1>11, <1>12,
     <1>13, <1>14, <1>15, <1>16, <1>17
  DEF Next, HostStep, PhaseStep, EditStep, FaultStep, ClearAllHosts

\* The sweep counts a miss only after the cycle probed the address in vain or
\* failed to record its answer, and what resets the probes resets the misses.
LEMMA NextMissesAreProbes == TypeOK /\ Phases /\ Greetings /\ Counted /\ MissesAreProbes /\ [Next]_vars => MissesAreProbes'
<1> SUFFICES ASSUME TypeOK, Phases, Greetings, Counted, MissesAreProbes, [Next]_vars PROVE MissesAreProbes'
  OBVIOUS
<1> USE ThresholdAssumption, AddressAssumption, LimitsAssumption
    DEF rows, cycle, history, limits, All, Increment, UpsertHost, UpsertUnconfirmedHost,
        ConfirmHostUp, Born, Missing, GoesDown, Edit, TypeOK, Stages, Phases, Greetings,
        Counted, MissesAreProbes, Asked
<1>1. ASSUME NEW m \in {"tcp", "nmap", "rdns"}, StartCycle(m) PROVE MissesAreProbes'
  BY <1>1 DEF StartCycle
<1>2. ASSUME NEW ip \in IPs, ProbeHost(ip) PROVE MissesAreProbes'
  BY <1>2 DEF ProbeHost
<1>3. ASSUME NEW ip \in IPs, RecordHost(ip) PROVE MissesAreProbes'
  BY <1>3 DEF RecordHost
<1>4. ASSUME NEW ip \in IPs, EmitNewHost(ip) PROVE MissesAreProbes'
  BY <1>4 DEF EmitNewHost
<1>5. ASSUME ProbesDone PROVE MissesAreProbes'
  BY <1>5 DEF ProbesDone
<1>6. ASSUME NEW ip \in IPs, ResolvePTR(ip) PROVE MissesAreProbes'
  BY <1>6 DEF ResolvePTR
<1>7. ASSUME NEW ip \in IPs, ConfirmByPort(ip) PROVE MissesAreProbes'
  BY <1>7 DEF ConfirmByPort
<1>8. ASSUME DNSDone PROVE MissesAreProbes'
  BY <1>8 DEF DNSDone
<1>9. ASSUME NEW ip \in IPs, FoldDNSConfirmed(ip) PROVE MissesAreProbes'
  BY <1>9 DEF FoldDNSConfirmed
<1>10. ASSUME RecordsDone PROVE MissesAreProbes'
  BY <1>10 DEF RecordsDone
<1>11. ASSUME SweepMissingHosts PROVE MissesAreProbes'
  BY <1>11 DEF SweepMissingHosts
<1>12. ASSUME SweepDone PROVE MissesAreProbes'
  BY <1>12 DEF SweepDone
<1>13. ASSUME NEW ip \in IPs, EnrichHost(ip) PROVE MissesAreProbes'
  BY <1>13 DEF EnrichHost
<1>14. ASSUME EnrichmentDone PROVE MissesAreProbes'
  BY <1>14 DEF EnrichmentDone
<1>15. ASSUME NEW ip \in IPs, AddManualHost(ip) PROVE MissesAreProbes'
  BY <1>15 DEF AddManualHost
<1>16. ASSUME NEW ip \in IPs, ImportHost(ip) PROVE MissesAreProbes'
  BY <1>16 DEF ImportHost
<1>17. ASSUME NEW ip \in IPs, ImportNmapHost(ip) PROVE MissesAreProbes'
  BY <1>17 DEF ImportNmapHost
<1>18. ASSUME NEW gone \in SUBSET IPs, DeleteHosts(gone) PROVE MissesAreProbes'
  BY <1>18 DEF DeleteHosts
<1>19. ASSUME CrashAndRestart PROVE MissesAreProbes'
  BY <1>19 DEF Fault, CrashAndRestart
<1>20. ASSUME NEW ip \in IPs,
             \/ EmitHostDown(ip) \/ Flip(ip)
      PROVE  MissesAreProbes'
  BY <1>20 DEF EmitHostDown, Flip
<1>21. ASSUME NEW ip \in IPs, RecordFails(ip) PROVE MissesAreProbes'
  BY <1>21 DEF Fault, RecordFails
<1>22. ASSUME NEW ip \in IPs, ConfirmFails(ip) \/ EmitFails(ip) PROVE MissesAreProbes'
  BY <1>22 DEF Fault, ConfirmFails, EmitFails
<1>23. ASSUME NEW done \in SUBSET Missing, SweepFails(done) PROVE MissesAreProbes'
  BY <1>23 DEF Fault, SweepFails
<1>24. CASE UNCHANGED vars
  BY <1>24 DEF vars
<1>25. QED
  BY <1>1, <1>2, <1>3, <1>4, <1>5, <1>6, <1>7, <1>8, <1>9, <1>10, <1>11, <1>12,
     <1>13, <1>14, <1>15, <1>16, <1>17, <1>18, <1>19, <1>20, <1>21, <1>22,
     <1>23, <1>24
  DEF Next, HostStep, PhaseStep, EditStep, FaultStep, ClearAllHosts

\* An address enters seen by an answer or an open port.
LEMMA NextSeenProven == TypeOK /\ SeenProven /\ [Next]_vars => SeenProven'
<1> SUFFICES ASSUME TypeOK, SeenProven, [Next]_vars PROVE SeenProven'
  OBVIOUS
<1> USE ThresholdAssumption, AddressAssumption, LimitsAssumption
    DEF rows, cycle, history, limits, All, Increment, UpsertHost, UpsertUnconfirmedHost,
        ConfirmHostUp, Born, Missing, GoesDown, Edit, TypeOK, Stages, SeenProven
<1>1. ASSUME NEW m \in {"tcp", "nmap", "rdns"}, StartCycle(m) PROVE SeenProven'
  BY <1>1 DEF StartCycle
<1>2. ASSUME NEW ip \in IPs, ProbeHost(ip) PROVE SeenProven'
  BY <1>2 DEF ProbeHost
<1>3. ASSUME NEW ip \in IPs, RecordHost(ip) PROVE SeenProven'
  BY <1>3 DEF RecordHost
<1>4. ASSUME NEW ip \in IPs, EmitNewHost(ip) PROVE SeenProven'
  BY <1>4 DEF EmitNewHost
<1>5. ASSUME NEW ip \in IPs, ResolvePTR(ip) PROVE SeenProven'
  BY <1>5 DEF ResolvePTR
<1>6. ASSUME NEW ip \in IPs, ConfirmByPort(ip) PROVE SeenProven'
  BY <1>6 DEF ConfirmByPort
<1>7. ASSUME NEW ip \in IPs, FoldDNSConfirmed(ip) PROVE SeenProven'
  BY <1>7 DEF FoldDNSConfirmed
<1>8. ASSUME NEW ip \in IPs, AddManualHost(ip) PROVE SeenProven'
  BY <1>8 DEF AddManualHost
<1>9. ASSUME NEW ip \in IPs, ImportNmapHost(ip) PROVE SeenProven'
  BY <1>9 DEF ImportNmapHost
<1>10. ASSUME CrashAndRestart PROVE SeenProven'
  BY <1>10 DEF Fault, CrashAndRestart
<1>11. ASSUME
             \/ ProbesDone \/ DNSDone \/ RecordsDone \/ SweepMissingHosts \/ SweepDone
             \/ EnrichmentDone
      PROVE  SeenProven'
  BY <1>11 DEF ProbesDone, DNSDone, RecordsDone, SweepMissingHosts, SweepDone,
      EnrichmentDone
<1>12. ASSUME NEW ip \in IPs,
             \/ EmitHostDown(ip) \/ EnrichHost(ip) \/ ImportHost(ip) \/ Flip(ip)
      PROVE  SeenProven'
  BY <1>12 DEF EmitHostDown, EnrichHost, ImportHost, Flip
<1>13. ASSUME NEW gone \in SUBSET IPs, DeleteHosts(gone) PROVE SeenProven'
  BY <1>13 DEF DeleteHosts
<1>14. ASSUME NEW ip \in IPs, RecordFails(ip) PROVE SeenProven'
  BY <1>14 DEF Fault, RecordFails
<1>15. ASSUME NEW ip \in IPs, ConfirmFails(ip) \/ EmitFails(ip) PROVE SeenProven'
  BY <1>15 DEF Fault, ConfirmFails, EmitFails
<1>16. ASSUME NEW done \in SUBSET Missing, SweepFails(done) PROVE SeenProven'
  BY <1>16 DEF Fault, SweepFails
<1>17. CASE UNCHANGED vars
  BY <1>17 DEF vars
<1>18. QED
  BY <1>1, <1>2, <1>3, <1>4, <1>5, <1>6, <1>7, <1>8, <1>9, <1>10, <1>11, <1>12,
     <1>13, <1>14, <1>15, <1>16, <1>17
  DEF Next, HostStep, PhaseStep, EditStep, FaultStep, ClearAllHosts

\* Only an answer, an open port or the operator makes a row up.
LEMMA NextHintsProveNothing == TypeOK /\ SeenProven /\ HintsProveNothing /\ [Next]_vars => HintsProveNothing'
<1> SUFFICES ASSUME TypeOK, SeenProven, HintsProveNothing, [Next]_vars PROVE HintsProveNothing'
  OBVIOUS
<1> USE ThresholdAssumption, AddressAssumption, LimitsAssumption
    DEF rows, cycle, history, limits, All, Increment, UpsertHost, UpsertUnconfirmedHost,
        ConfirmHostUp, Born, Missing, GoesDown, Edit, TypeOK, Stages, SeenProven,
        HintsProveNothing
<1>1. ASSUME NEW ip \in IPs, RecordHost(ip) PROVE HintsProveNothing'
  BY <1>1 DEF RecordHost
<1>2. ASSUME NEW ip \in IPs, ResolvePTR(ip) PROVE HintsProveNothing'
  BY <1>2 DEF ResolvePTR
<1>3. ASSUME NEW ip \in IPs, ConfirmByPort(ip) PROVE HintsProveNothing'
  BY <1>3 DEF ConfirmByPort
<1>4. ASSUME NEW ip \in IPs, FoldDNSConfirmed(ip) PROVE HintsProveNothing'
  BY <1>4 DEF FoldDNSConfirmed
<1>5. ASSUME SweepMissingHosts PROVE HintsProveNothing'
  BY <1>5 DEF SweepMissingHosts
<1>6. ASSUME NEW ip \in IPs, EnrichHost(ip) PROVE HintsProveNothing'
  BY <1>6 DEF EnrichHost
<1>7. ASSUME NEW ip \in IPs, AddManualHost(ip) PROVE HintsProveNothing'
  BY <1>7 DEF AddManualHost
<1>8. ASSUME NEW ip \in IPs, ImportHost(ip) PROVE HintsProveNothing'
  BY <1>8 DEF ImportHost
<1>9. ASSUME NEW ip \in IPs, ImportNmapHost(ip) PROVE HintsProveNothing'
  BY <1>9 DEF ImportNmapHost
<1>10. ASSUME NEW gone \in SUBSET IPs, DeleteHosts(gone) PROVE HintsProveNothing'
  BY <1>10 DEF DeleteHosts
<1>11. ASSUME NEW m \in {"tcp", "nmap", "rdns"}, StartCycle(m) PROVE HintsProveNothing'
  BY <1>11 DEF StartCycle
<1>12. ASSUME NEW ip \in IPs,
             \/ ProbeHost(ip) \/ EmitNewHost(ip) \/ EmitHostDown(ip) \/ Flip(ip)
      PROVE  HintsProveNothing'
  BY <1>12 DEF ProbeHost, EmitNewHost, EmitHostDown, Flip
<1>13. ASSUME
             \/ ProbesDone \/ DNSDone \/ RecordsDone \/ SweepDone \/ EnrichmentDone
             \/ CrashAndRestart
      PROVE  HintsProveNothing'
  BY <1>13 DEF ProbesDone, DNSDone, RecordsDone, SweepDone, EnrichmentDone,
      Fault, CrashAndRestart
<1>14. ASSUME NEW ip \in IPs, RecordFails(ip) PROVE HintsProveNothing'
  BY <1>14 DEF Fault, RecordFails
<1>15. ASSUME NEW ip \in IPs, ConfirmFails(ip) \/ EmitFails(ip) PROVE HintsProveNothing'
  BY <1>15 DEF Fault, ConfirmFails, EmitFails
<1>16. ASSUME NEW done \in SUBSET Missing, SweepFails(done) PROVE HintsProveNothing'
  BY <1>16 DEF Fault, SweepFails
<1>17. CASE UNCHANGED vars
  BY <1>17 DEF vars
<1>18. QED
  BY <1>1, <1>2, <1>3, <1>4, <1>5, <1>6, <1>7, <1>8, <1>9, <1>10, <1>11, <1>12,
     <1>13, <1>14, <1>15, <1>16, <1>17
  DEF Next, HostStep, PhaseStep, EditStep, FaultStep, ClearAllHosts

\* A row goes down with its event in wentDown, and no later event of its row
\* hides host_down.
LEMMA NextDownAnnounced == TypeOK /\ Phases /\ Greetings /\ DownAnnounced /\ [Next]_vars => DownAnnounced'
<1> SUFFICES ASSUME TypeOK, Phases, Greetings, DownAnnounced, [Next]_vars PROVE DownAnnounced'
  OBVIOUS
<1> USE ThresholdAssumption, AddressAssumption, LimitsAssumption
    DEF rows, cycle, history, limits, All, Increment, UpsertHost, UpsertUnconfirmedHost,
        ConfirmHostUp, Born, Missing, GoesDown, Edit, TypeOK, Stages, Phases, Greetings,
        DownAnnounced
<1>1. ASSUME NEW m \in {"tcp", "nmap", "rdns"}, StartCycle(m) PROVE DownAnnounced'
  BY <1>1 DEF StartCycle
<1>2. ASSUME NEW ip \in IPs, RecordHost(ip) PROVE DownAnnounced'
  BY <1>2 DEF RecordHost
<1>3. ASSUME NEW ip \in IPs, EmitNewHost(ip) PROVE DownAnnounced'
  BY <1>3 DEF EmitNewHost
<1>4. ASSUME ProbesDone PROVE DownAnnounced'
  BY <1>4 DEF ProbesDone
<1>5. ASSUME NEW ip \in IPs, ResolvePTR(ip) PROVE DownAnnounced'
  BY <1>5 DEF ResolvePTR
<1>6. ASSUME NEW ip \in IPs, ConfirmByPort(ip) PROVE DownAnnounced'
  BY <1>6 DEF ConfirmByPort
<1>7. ASSUME DNSDone PROVE DownAnnounced'
  BY <1>7 DEF DNSDone
<1>8. ASSUME NEW ip \in IPs, FoldDNSConfirmed(ip) PROVE DownAnnounced'
  BY <1>8 DEF FoldDNSConfirmed
<1>9. ASSUME RecordsDone PROVE DownAnnounced'
  BY <1>9 DEF RecordsDone
<1>10. ASSUME SweepMissingHosts PROVE DownAnnounced'
  BY <1>10 DEF SweepMissingHosts
<1>11. ASSUME NEW ip \in IPs, EmitHostDown(ip) PROVE DownAnnounced'
  BY <1>11 DEF EmitHostDown
<1>12. ASSUME SweepDone PROVE DownAnnounced'
  BY <1>12 DEF SweepDone
<1>13. ASSUME NEW ip \in IPs, EnrichHost(ip) PROVE DownAnnounced'
  BY <1>13 DEF EnrichHost
<1>14. ASSUME EnrichmentDone PROVE DownAnnounced'
  BY <1>14 DEF EnrichmentDone
<1>15. ASSUME NEW ip \in IPs, AddManualHost(ip) PROVE DownAnnounced'
  BY <1>15 DEF AddManualHost
<1>16. ASSUME NEW ip \in IPs, ImportHost(ip) PROVE DownAnnounced'
  BY <1>16 DEF ImportHost
<1>17. ASSUME NEW ip \in IPs, ImportNmapHost(ip) PROVE DownAnnounced'
  BY <1>17 DEF ImportNmapHost
<1>18. ASSUME NEW gone \in SUBSET IPs, DeleteHosts(gone) PROVE DownAnnounced'
  BY <1>18 DEF DeleteHosts
<1>19. ASSUME CrashAndRestart PROVE DownAnnounced'
  BY <1>19 DEF Fault, CrashAndRestart
<1>20. ASSUME NEW ip \in IPs,
             \/ ProbeHost(ip) \/ Flip(ip)
      PROVE  DownAnnounced'
  BY <1>20 DEF ProbeHost, Flip
<1>21. ASSUME NEW ip \in IPs, RecordFails(ip) PROVE DownAnnounced'
  BY <1>21 DEF Fault, RecordFails
<1>22. ASSUME NEW ip \in IPs, ConfirmFails(ip) \/ EmitFails(ip) PROVE DownAnnounced'
  BY <1>22 DEF Fault, ConfirmFails, EmitFails
<1>23. ASSUME NEW done \in SUBSET Missing, SweepFails(done) PROVE DownAnnounced'
  BY <1>23 DEF Fault, SweepFails
<1>24. CASE UNCHANGED vars
  BY <1>24 DEF vars
<1>25. QED
  BY <1>1, <1>2, <1>3, <1>4, <1>5, <1>6, <1>7, <1>8, <1>9, <1>10, <1>11, <1>12,
     <1>13, <1>14, <1>15, <1>16, <1>17, <1>18, <1>19, <1>20, <1>21, <1>22,
     <1>23, <1>24
  DEF Next, HostStep, PhaseStep, EditStep, FaultStep, ClearAllHosts

\* The goroutine that inserts a row greets it.
LEMMA NextNewHostAnnounced == TypeOK /\ Phases /\ Counted /\ NewHostAnnounced /\ [Next]_vars => NewHostAnnounced'
<1> SUFFICES ASSUME TypeOK, Phases, Counted, NewHostAnnounced, [Next]_vars PROVE NewHostAnnounced'
  OBVIOUS
<1> USE ThresholdAssumption, AddressAssumption, LimitsAssumption
    DEF rows, cycle, history, limits, All, Increment, UpsertHost, UpsertUnconfirmedHost,
        ConfirmHostUp, Born, Missing, GoesDown, Edit, TypeOK, Stages, Phases, Counted,
        NewHostAnnounced
<1>1. ASSUME NEW m \in {"tcp", "nmap", "rdns"}, StartCycle(m) PROVE NewHostAnnounced'
  BY <1>1 DEF StartCycle
<1>2. ASSUME NEW ip \in IPs, ProbeHost(ip) PROVE NewHostAnnounced'
  BY <1>2 DEF ProbeHost
<1>3. ASSUME NEW ip \in IPs, RecordHost(ip) PROVE NewHostAnnounced'
  BY <1>3 DEF RecordHost
<1>4. ASSUME NEW ip \in IPs, EmitNewHost(ip) PROVE NewHostAnnounced'
  BY <1>4 DEF EmitNewHost
<1>5. ASSUME NEW ip \in IPs, ResolvePTR(ip) PROVE NewHostAnnounced'
  BY <1>5 DEF ResolvePTR
<1>6. ASSUME NEW ip \in IPs, ConfirmByPort(ip) PROVE NewHostAnnounced'
  BY <1>6 DEF ConfirmByPort
<1>7. ASSUME NEW ip \in IPs, FoldDNSConfirmed(ip) PROVE NewHostAnnounced'
  BY <1>7 DEF FoldDNSConfirmed
<1>8. ASSUME NEW ip \in IPs, EmitHostDown(ip) PROVE NewHostAnnounced'
  BY <1>8 DEF EmitHostDown
<1>9. ASSUME NEW ip \in IPs, EnrichHost(ip) PROVE NewHostAnnounced'
  BY <1>9 DEF EnrichHost
<1>10. ASSUME NEW ip \in IPs, AddManualHost(ip) PROVE NewHostAnnounced'
  BY <1>10 DEF AddManualHost
<1>11. ASSUME NEW ip \in IPs, ImportHost(ip) PROVE NewHostAnnounced'
  BY <1>11 DEF ImportHost
<1>12. ASSUME NEW ip \in IPs, ImportNmapHost(ip) PROVE NewHostAnnounced'
  BY <1>12 DEF ImportNmapHost
<1>13. ASSUME NEW gone \in SUBSET IPs, DeleteHosts(gone) PROVE NewHostAnnounced'
  BY <1>13 DEF DeleteHosts
<1>14. ASSUME CrashAndRestart PROVE NewHostAnnounced'
  BY <1>14 DEF Fault, CrashAndRestart
<1>15. ASSUME
             \/ ProbesDone \/ DNSDone \/ RecordsDone \/ SweepMissingHosts \/ SweepDone
             \/ EnrichmentDone
      PROVE  NewHostAnnounced'
  BY <1>15 DEF ProbesDone, DNSDone, RecordsDone, SweepMissingHosts, SweepDone,
      EnrichmentDone
<1>16. ASSUME NEW ip \in IPs, Flip(ip) PROVE NewHostAnnounced'
  BY <1>16 DEF Flip
<1>17. ASSUME NEW ip \in IPs, RecordFails(ip) PROVE NewHostAnnounced'
  BY <1>17 DEF Fault, RecordFails
<1>18. ASSUME NEW ip \in IPs, ConfirmFails(ip) \/ EmitFails(ip) PROVE NewHostAnnounced'
  BY <1>18 DEF Fault, ConfirmFails, EmitFails
<1>19. ASSUME NEW done \in SUBSET Missing, SweepFails(done) PROVE NewHostAnnounced'
  BY <1>19 DEF Fault, SweepFails
<1>20. CASE UNCHANGED vars
  BY <1>20 DEF vars
<1>21. QED
  BY <1>1, <1>2, <1>3, <1>4, <1>5, <1>6, <1>7, <1>8, <1>9, <1>10, <1>11, <1>12,
     <1>13, <1>14, <1>15, <1>16, <1>17, <1>18, <1>19, <1>20
  DEF Next, HostStep, PhaseStep, EditStep, FaultStep, ClearAllHosts

\* Every step is a hint, a confirmation, a count of misses or a deletion, or
\* leaves the status alone.
LEMMA NextImplements == TypeOK /\ [Next]_vars => [Abstract!Next]_<<status, miss>>
<1> SUFFICES ASSUME TypeOK, [Next]_vars PROVE [Abstract!Next]_<<status, miss>>
  OBVIOUS
<1> USE ThresholdAssumption, AddressAssumption, LimitsAssumption
    DEF rows, cycle, history, limits, All, Increment, UpsertHost, UpsertUnconfirmedHost,
        ConfirmHostUp, Born, Missing, GoesDown, Edit, TypeOK, Stages, Abstract!Next,
        Abstract!vars, Abstract!Hint, Abstract!Confirm, Abstract!Miss, Abstract!Forget
<1>1. ASSUME NEW ip \in IPs, RecordHost(ip) PROVE [Abstract!Next]_<<status, miss>>
  BY <1>1 DEF RecordHost
<1>2. ASSUME NEW ip \in IPs, ResolvePTR(ip) PROVE [Abstract!Next]_<<status, miss>>
  BY <1>2 DEF ResolvePTR
<1>3. ASSUME NEW ip \in IPs, ConfirmByPort(ip) PROVE [Abstract!Next]_<<status, miss>>
  BY <1>3 DEF ConfirmByPort
<1>4. ASSUME NEW ip \in IPs, FoldDNSConfirmed(ip) PROVE [Abstract!Next]_<<status, miss>>
  BY <1>4 DEF FoldDNSConfirmed
<1>5. ASSUME SweepMissingHosts PROVE [Abstract!Next]_<<status, miss>>
  <2>1. Abstract!Miss(Missing)
    BY <1>5 DEF SweepMissingHosts
  <2>2. Missing \in SUBSET IPs
    OBVIOUS
  <2>3. QED
    BY <2>1, <2>2
<1>6. ASSUME NEW ip \in IPs, EnrichHost(ip) PROVE [Abstract!Next]_<<status, miss>>
  BY <1>6 DEF EnrichHost
<1>7. ASSUME NEW ip \in IPs, AddManualHost(ip) PROVE [Abstract!Next]_<<status, miss>>
  BY <1>7 DEF AddManualHost
<1>8. ASSUME NEW ip \in IPs, ImportHost(ip) PROVE [Abstract!Next]_<<status, miss>>
  BY <1>8 DEF ImportHost
<1>9. ASSUME NEW ip \in IPs, ImportNmapHost(ip) PROVE [Abstract!Next]_<<status, miss>>
  BY <1>9 DEF ImportNmapHost
<1>10. ASSUME NEW gone \in SUBSET IPs, DeleteHosts(gone) PROVE [Abstract!Next]_<<status, miss>>
  BY <1>10 DEF DeleteHosts
<1>11. ASSUME NEW m \in {"tcp", "nmap", "rdns"}, StartCycle(m) PROVE [Abstract!Next]_<<status, miss>>
  BY <1>11 DEF StartCycle
<1>12. ASSUME NEW ip \in IPs,
             \/ ProbeHost(ip) \/ EmitNewHost(ip) \/ EmitHostDown(ip) \/ Flip(ip)
      PROVE  [Abstract!Next]_<<status, miss>>
  BY <1>12 DEF ProbeHost, EmitNewHost, EmitHostDown, Flip
<1>13. ASSUME
             \/ ProbesDone \/ DNSDone \/ RecordsDone \/ SweepDone \/ EnrichmentDone
             \/ CrashAndRestart
      PROVE  [Abstract!Next]_<<status, miss>>
  BY <1>13 DEF ProbesDone, DNSDone, RecordsDone, SweepDone, EnrichmentDone,
      Fault, CrashAndRestart
<1>14. ASSUME NEW ip \in IPs, RecordFails(ip) PROVE [Abstract!Next]_<<status, miss>>
  BY <1>14 DEF Fault, RecordFails
<1>15. ASSUME NEW ip \in IPs, ConfirmFails(ip) \/ EmitFails(ip) PROVE [Abstract!Next]_<<status, miss>>
  BY <1>15 DEF Fault, ConfirmFails, EmitFails
<1>16. ASSUME NEW done \in SUBSET Missing, SweepFails(done) PROVE [Abstract!Next]_<<status, miss>>
  <2>1. Abstract!Miss(done)
    BY <1>16 DEF SweepFails
  <2>2. done \in SUBSET IPs
    OBVIOUS
  <2>3. QED
    BY <2>1, <2>2
<1>17. CASE UNCHANGED vars
  BY <1>17 DEF vars
<1>18. QED
  BY <1>1, <1>2, <1>3, <1>4, <1>5, <1>6, <1>7, <1>8, <1>9, <1>10, <1>11, <1>12,
     <1>13, <1>14, <1>15, <1>16, <1>17
  DEF Next, HostStep, PhaseStep, EditStep, FaultStep, ClearAllHosts

-----------------------------------------------------------------------------
(* The theorems.                                                           *)

\* It holds before anything was scanned.
LEMMA InitIInv == Init => IInv
  BY ThresholdAssumption, AddressAssumption, LimitsAssumption
  DEF Init, IInv, TypeOK, Stages, Phases, Greetings, Counted, MissesAreProbes, Asked,
      SeenProven, HintsProveNothing, DownAnnounced, NewHostAnnounced

\* Every step preserves it.
LEMMA NextIInv == IInv /\ [Next]_vars => IInv'
  BY NextTypeOK, NextPhases, NextGreetings, NextCounted, NextMissesAreProbes,
     NextSeenProven, NextHintsProveNothing, NextDownAnnounced, NextNewHostAnnounced
  DEF IInv

\* All parts of the inductive invariant hold for ever.
THEOREM IInvHolds == Spec => []IInv
  BY InitIInv, NextIInv, PTL DEF Spec

\* The variables keep their types.
THEOREM TypeCorrect == Spec => []TypeOK
  BY IInvHolds, PTL DEF IInv

\* An address discovery can reach is down only after MissThreshold probes in a
\* row went unanswered, or were answered into a failing store.
THEOREM DownMeansSilentHolds == Spec => []DownMeansSilent
<1>1. IInv => DownMeansSilent
  BY ThresholdAssumption, AddressAssumption
  DEF IInv, TypeOK, Counted, MissesAreProbes, DownMeansSilent
<1>2. QED
  BY <1>1, IInvHolds, PTL

\* PTR records and imported maps alone never make a host up or down.
THEOREM HintsProveNothingHolds == Spec => []HintsProveNothing
  BY IInvHolds, PTL DEF IInv

\* A host that is down has been announced, or is about to be, crashes and failing calls apart.
THEOREM DownAnnouncedHolds == Spec => []DownAnnounced
  BY IInvHolds, PTL DEF IInv

\* So has every row that discovery inserted.
THEOREM NewHostAnnouncedHolds == Spec => []NewHostAnnounced
  BY IInvHolds, PTL DEF IInv

\* The scanner and the handlers implement the abstract status machine.
THEOREM Refinement == Spec => ImplementsHostStatus
<1>1. Init => Abstract!Init
  BY DEF Init, Abstract!Init
<1>2. TypeOK /\ [Next]_vars => [Abstract!Next]_<<status, miss>>
  BY NextImplements
<1>3. QED
  BY <1>1, <1>2, TypeCorrect, PTL DEF Spec, ImplementsHostStatus, Abstract!Spec, Abstract!vars
=============================================================================
