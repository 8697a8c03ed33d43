------------------------- MODULE PortTrackingProofs -------------------------
(***************************************************************************)
(* Proofs about PortTracking, for any number of hosts, ports, goroutines   *)
(* and bounds.                                                             *)
(***************************************************************************)
EXTENDS PortTracking, TLAPS

\* The state every step keeps well typed.
LEMMA InitTypeOK == Init => TypeOK
  BY BoundsAssumption DEF Init, TypeOK, NoPorts, PortState, ProbeState, Scans

\* One step per action.
LEMMA NextTypeOK == TypeOK /\ [Next]_vars => TypeOK'
<1> SUFFICES ASSUME TypeOK, [Next]_vars PROVE TypeOK'
  OBVIOUS
<1> USE BoundsAssumption DEF TypeOK, PortState, ProbeState, NoPorts, ghosts, bounds, db, mem
<1>1. ASSUME NEW c \in Cycles, NEW h \in Hosts, CycleScansHost(c, h) PROVE TypeOK'
  BY <1>1, PortsAssumption DEF CycleScansHost, Scans
<1>2. ASSUME NEW d \in DeepScans, NEW h \in Hosts, TriggerDeepScan(d, h) PROVE TypeOK'
  BY <1>2 DEF TriggerDeepScan, Scans
<1>3. ASSUME NEW s \in Scans, NEW p \in Ports, ProbeOnePort(s, p) PROVE TypeOK'
  BY <1>3 DEF ProbeOnePort
<1>4. ASSUME NEW s \in Scans, NEW p \in Ports, RecordOpenPort(s, p) PROVE TypeOK'
  BY <1>4 DEF RecordOpenPort, UpsertedPorts
<1>5. ASSUME NEW s \in Scans, NEW p \in Ports, AnnouncePort(s, p) PROVE TypeOK'
  BY <1>5 DEF AnnouncePort
<1>6. ASSUME NEW s \in Scans, NEW p \in Ports, ReflagIfAcknowledged(s, p) PROVE TypeOK'
  BY <1>6 DEF ReflagIfAcknowledged
<1>7. ASSUME NEW s \in Scans, SweepClosedPorts(s) PROVE TypeOK'
  BY <1>7 DEF SweepClosedPorts, SweptPorts
<1>8. ASSUME NEW s \in Scans, RunNmap(s) PROVE TypeOK'
  BY <1>8 DEF RunNmap
<1>9. ASSUME NEW s \in Scans, CycleDone(s) PROVE TypeOK'
  BY <1>9 DEF CycleDone
<1>10. ASSUME NEW s \in Scans, DeepScanDone(s) PROVE TypeOK'
  BY <1>10 DEF DeepScanDone
<1>11. ASSUME NEW h \in Hosts, AcknowledgeHost(h) PROVE TypeOK'
  BY <1>11 DEF AcknowledgeHost
<1>12. ASSUME NEW h \in Hosts, UnacknowledgeHost(h) PROVE TypeOK'
  BY <1>12 DEF UnacknowledgeHost
<1>13. ASSUME NEW h \in Hosts, NEW p \in Ports, ImportPort(h, p) PROVE TypeOK'
  BY <1>13 DEF ImportPort, UpsertedPorts
<1>14. ASSUME NEW h \in Hosts, DeleteHost(h) PROVE TypeOK'
  BY <1>14 DEF DeleteHost
<1>15. ASSUME NEW h \in Hosts, NEW p \in Ports, PortFlaps(h, p) PROVE TypeOK'
  BY <1>15 DEF PortFlaps
<1>16. CASE CrashAndRestart
  BY <1>16 DEF CrashAndRestart
<1>17. CASE UNCHANGED vars
  BY <1>17 DEF vars
<1>18. QED
  BY <1>1, <1>2, <1>3, <1>4, <1>5, <1>6, <1>7, <1>8, <1>9, <1>10, <1>11, <1>12,
     <1>13, <1>14, <1>15, <1>16, <1>17 DEF Next, ScanStep, HandlerStep

\* The variables keep their types.
THEOREM TypeCorrect == Spec => []TypeOK
  BY InitTypeOK, NextTypeOK, PTL DEF Spec

-----------------------------------------------------------------------------
(* The inductive invariant.                                                *)

\* Only a scan that is running has probes under way, and only a cycle is
\* enriched by nmap: a goroutine that starts over drops nobody's reflag.
ScanPhases ==
  \A s \in Scans :
    /\ pc[s] = "enriching" => s \in Cycles
    /\ \A p \in Ports : probe[s][p] \in {"todo", "found", "announce", "reflag"}
                        => pc[s] \in {"probing", "enriching"}

\* What was announced, or is about to be, has its row for as long as the host
\* has one: the next upsert of that port finds the row.
AnnouncedRows ==
  \A h \in Hosts, p \in Ports :
    p \in announced[h] \/ (\E s \in Scans : target[s] = h /\ probe[s][p] = "announce")
      => row[h] = "deleted" \/ ports[h][p] # "none"

IInv ==
  /\ TypeOK
  /\ ScanPhases
  /\ NoOrphanRows
  /\ AnnouncedRows
  /\ AnnouncedOnce
  /\ NoQuietNewPort
  /\ NewPortAnnounced
  /\ DeepScanGuard

\* The phases of the scans are kept.
LEMMA NextScanPhases == TypeOK /\ ScanPhases /\ [Next]_vars => ScanPhases'
<1> SUFFICES ASSUME TypeOK, ScanPhases, [Next]_vars PROVE ScanPhases'
  OBVIOUS
<1> USE ScansAssumption
    DEF TypeOK, PortState, ProbeState, NoPorts, Scans, ghosts, bounds, db, mem, ScanPhases
<1>1. ASSUME NEW c \in Cycles, NEW h \in Hosts, CycleScansHost(c, h) PROVE ScanPhases'
  BY <1>1 DEF CycleScansHost
<1>2. ASSUME NEW d \in DeepScans, NEW h \in Hosts, TriggerDeepScan(d, h) PROVE ScanPhases'
  BY <1>2 DEF TriggerDeepScan
<1>3. ASSUME NEW s \in Scans, NEW p \in Ports, ProbeOnePort(s, p) PROVE ScanPhases'
  BY <1>3 DEF ProbeOnePort
<1>4. ASSUME NEW s \in Scans, NEW p \in Ports, RecordOpenPort(s, p) PROVE ScanPhases'
  BY <1>4 DEF RecordOpenPort, UpsertedPorts, UpsertIsNew
<1>5. ASSUME NEW s \in Scans, NEW p \in Ports, AnnouncePort(s, p) PROVE ScanPhases'
  BY <1>5 DEF AnnouncePort
<1>6. ASSUME NEW s \in Scans, NEW p \in Ports, ReflagIfAcknowledged(s, p) PROVE ScanPhases'
  BY <1>6 DEF ReflagIfAcknowledged
<1>7. ASSUME NEW s \in Scans, SweepClosedPorts(s) PROVE ScanPhases'
  BY <1>7 DEF SweepClosedPorts, SweptPorts, Busy
<1>8. ASSUME NEW s \in Scans, RunNmap(s) PROVE ScanPhases'
  BY <1>8 DEF RunNmap
<1>9. ASSUME NEW s \in Scans, CycleDone(s) PROVE ScanPhases'
  BY <1>9 DEF CycleDone, Busy
<1>10. ASSUME NEW s \in Scans, DeepScanDone(s) PROVE ScanPhases'
  BY <1>10 DEF DeepScanDone
<1>11. ASSUME CrashAndRestart PROVE ScanPhases'
  BY <1>11 DEF CrashAndRestart
<1>12. ASSUME NEW h \in Hosts,
             \/ AcknowledgeHost(h) \/ UnacknowledgeHost(h) \/ DeleteHost(h)
      PROVE  ScanPhases'
  BY <1>12 DEF AcknowledgeHost, UnacknowledgeHost, DeleteHost
<1>13. ASSUME NEW h \in Hosts, NEW p \in Ports,
             \/ ImportPort(h, p) \/ PortFlaps(h, p)
      PROVE  ScanPhases'
  BY <1>13 DEF ImportPort, UpsertedPorts, UpsertIsNew, PortFlaps
<1>14. CASE UNCHANGED vars
  BY <1>14 DEF vars
<1>15. QED
  BY <1>1, <1>2, <1>3, <1>4, <1>5, <1>6, <1>7, <1>8, <1>9, <1>10, <1>11, <1>12, <1>13,
     <1>14
  DEF Next, ScanStep, HandlerStep

\* No step writes a port or an acknowledgement of a host that has no row.
LEMMA NextNoOrphanRows == TypeOK /\ NoOrphanRows /\ [Next]_vars => NoOrphanRows'
<1> SUFFICES ASSUME TypeOK, NoOrphanRows, [Next]_vars PROVE NoOrphanRows'
  OBVIOUS
<1> USE DEF TypeOK, PortState, ProbeState, NoPorts, Scans, ghosts, bounds, db, mem,
        NoOrphanRows
<1>1. ASSUME NEW c \in Cycles, NEW h \in Hosts, CycleScansHost(c, h) PROVE NoOrphanRows'
  BY <1>1 DEF CycleScansHost
<1>2. ASSUME NEW s \in Scans, NEW p \in Ports, RecordOpenPort(s, p) PROVE NoOrphanRows'
  BY <1>2 DEF RecordOpenPort, UpsertedPorts, UpsertIsNew
<1>3. ASSUME NEW s \in Scans, NEW p \in Ports, ReflagIfAcknowledged(s, p) PROVE NoOrphanRows'
  BY <1>3 DEF ReflagIfAcknowledged
<1>4. ASSUME NEW s \in Scans, SweepClosedPorts(s) PROVE NoOrphanRows'
  BY <1>4 DEF SweepClosedPorts, SweptPorts, Busy
<1>5. ASSUME NEW h \in Hosts, AcknowledgeHost(h) PROVE NoOrphanRows'
  BY <1>5 DEF AcknowledgeHost
<1>6. ASSUME NEW h \in Hosts, UnacknowledgeHost(h) PROVE NoOrphanRows'
  BY <1>6 DEF UnacknowledgeHost
<1>7. ASSUME NEW h \in Hosts, NEW p \in Ports, ImportPort(h, p) PROVE NoOrphanRows'
  BY <1>7 DEF ImportPort, UpsertedPorts, UpsertIsNew
<1>8. ASSUME NEW h \in Hosts, DeleteHost(h) PROVE NoOrphanRows'
  BY <1>8 DEF DeleteHost
<1>9. ASSUME NEW d \in DeepScans, NEW h \in Hosts, TriggerDeepScan(d, h) PROVE NoOrphanRows'
  BY <1>9 DEF TriggerDeepScan
<1>10. ASSUME NEW s \in Scans, NEW p \in Ports,
             \/ ProbeOnePort(s, p) \/ AnnouncePort(s, p)
      PROVE  NoOrphanRows'
  BY <1>10 DEF ProbeOnePort, AnnouncePort
<1>11. ASSUME NEW s \in Scans,
             \/ RunNmap(s) \/ CycleDone(s) \/ DeepScanDone(s)
      PROVE  NoOrphanRows'
  BY <1>11 DEF RunNmap, CycleDone, Busy, DeepScanDone
<1>12. ASSUME NEW h \in Hosts, NEW p \in Ports, PortFlaps(h, p) PROVE NoOrphanRows'
  BY <1>12 DEF PortFlaps
<1>13. ASSUME CrashAndRestart PROVE NoOrphanRows'
  BY <1>13 DEF CrashAndRestart
<1>14. CASE UNCHANGED vars
  BY <1>14 DEF vars
<1>15. QED
  BY <1>1, <1>2, <1>3, <1>4, <1>5, <1>6, <1>7, <1>8, <1>9, <1>10, <1>11, <1>12, <1>13,
     <1>14
  DEF Next, ScanStep, HandlerStep

\* The row of an announced port goes only with the host.
LEMMA NextAnnouncedRows == TypeOK /\ ScanPhases /\ NoOrphanRows /\ AnnouncedRows /\ [Next]_vars => AnnouncedRows'
<1> SUFFICES ASSUME TypeOK, ScanPhases, NoOrphanRows, AnnouncedRows, [Next]_vars PROVE AnnouncedRows'
  OBVIOUS
<1> USE DEF TypeOK, PortState, ProbeState, NoPorts, Scans, ghosts, bounds, db, mem,
        ScanPhases, NoOrphanRows, AnnouncedRows
<1>1. ASSUME NEW c \in Cycles, NEW h \in Hosts, CycleScansHost(c, h) PROVE AnnouncedRows'
  BY <1>1 DEF CycleScansHost
<1>2. ASSUME NEW d \in DeepScans, NEW h \in Hosts, TriggerDeepScan(d, h) PROVE AnnouncedRows'
  BY <1>2 DEF TriggerDeepScan
<1>3. ASSUME NEW s \in Scans, NEW p \in Ports, ProbeOnePort(s, p) PROVE AnnouncedRows'
  BY <1>3 DEF ProbeOnePort
<1>4. ASSUME NEW s \in Scans, NEW p \in Ports, RecordOpenPort(s, p) PROVE AnnouncedRows'
  BY <1>4 DEF RecordOpenPort, UpsertedPorts, UpsertIsNew
<1>5. ASSUME NEW s \in Scans, NEW p \in Ports, AnnouncePort(s, p) PROVE AnnouncedRows'
  BY <1>5 DEF AnnouncePort
<1>6. ASSUME NEW s \in Scans, NEW p \in Ports, ReflagIfAcknowledged(s, p) PROVE AnnouncedRows'
  BY <1>6 DEF ReflagIfAcknowledged
<1>7. ASSUME NEW s \in Scans, SweepClosedPorts(s) PROVE AnnouncedRows'
  BY <1>7 DEF SweepClosedPorts, SweptPorts, Busy
<1>8. ASSUME NEW s \in Scans, RunNmap(s) PROVE AnnouncedRows'
  BY <1>8 DEF RunNmap
<1>9. ASSUME NEW s \in Scans, CycleDone(s) PROVE AnnouncedRows'
  BY <1>9 DEF CycleDone, Busy
<1>10. ASSUME NEW s \in Scans, DeepScanDone(s) PROVE AnnouncedRows'
  BY <1>10 DEF DeepScanDone
<1>11. ASSUME NEW h \in Hosts, NEW p \in Ports, ImportPort(h, p) PROVE AnnouncedRows'
  BY <1>11 DEF ImportPort, UpsertedPorts, UpsertIsNew
<1>12. ASSUME NEW h \in Hosts, DeleteHost(h) PROVE AnnouncedRows'
  BY <1>12 DEF DeleteHost
<1>13. ASSUME CrashAndRestart PROVE AnnouncedRows'
  BY <1>13 DEF CrashAndRestart
<1>14. ASSUME NEW h \in Hosts,
             \/ AcknowledgeHost(h) \/ UnacknowledgeHost(h)
      PROVE  AnnouncedRows'
  BY <1>14 DEF AcknowledgeHost, UnacknowledgeHost
<1>15. ASSUME NEW h \in Hosts, NEW p \in Ports, PortFlaps(h, p) PROVE AnnouncedRows'
  BY <1>15 DEF PortFlaps
<1>16. CASE UNCHANGED vars
  BY <1>16 DEF vars
<1>17. QED
  BY <1>1, <1>2, <1>3, <1>4, <1>5, <1>6, <1>7, <1>8, <1>9, <1>10, <1>11, <1>12, <1>13,
     <1>14, <1>15, <1>16
  DEF Next, ScanStep, HandlerStep

\* An upsert reports a new row only while nobody announced it: AnnouncedRows.
LEMMA NextAnnouncedOnce == TypeOK /\ ScanPhases /\ AnnouncedRows /\ AnnouncedOnce /\ [Next]_vars => AnnouncedOnce'
<1> SUFFICES ASSUME TypeOK, ScanPhases, AnnouncedRows, AnnouncedOnce, [Next]_vars PROVE AnnouncedOnce'
  OBVIOUS
<1> USE DEF TypeOK, PortState, ProbeState, NoPorts, Scans, ghosts, bounds, db, mem,
        ScanPhases, AnnouncedRows, AnnouncedOnce
<1>1. ASSUME NEW c \in Cycles, NEW h \in Hosts, CycleScansHost(c, h) PROVE AnnouncedOnce'
  BY <1>1 DEF CycleScansHost
<1>2. ASSUME NEW d \in DeepScans, NEW h \in Hosts, TriggerDeepScan(d, h) PROVE AnnouncedOnce'
  BY <1>2 DEF TriggerDeepScan
<1>3. ASSUME NEW s \in Scans, NEW p \in Ports, ProbeOnePort(s, p) PROVE AnnouncedOnce'
  BY <1>3 DEF ProbeOnePort
<1>4. ASSUME NEW s \in Scans, NEW p \in Ports, RecordOpenPort(s, p) PROVE AnnouncedOnce'
  <2>1. CASE UpsertIsNew(target[s], p)
    <3> DEFINE h == target[s]
    <3>1. ports[h][p] = "none" /\ row[h] = "present"
      BY <2>1 DEF UpsertIsNew
    <3>2. p \notin announced[h] /\ \A t \in Scans : target[t] = h => probe[t][p] # "announce"
      BY <3>1
    <3>3. probe' = [probe EXCEPT ![s][p] = "announce"] /\ UNCHANGED <<target, announced>>
      BY <1>4, <2>1 DEF RecordOpenPort
    <3>4. QED
      BY <3>2, <3>3
  <2>2. CASE ~UpsertIsNew(target[s], p)
    <3>1. probe' = [probe EXCEPT ![s][p] = "open"] /\ UNCHANGED <<target, announced>>
      BY <1>4, <2>2 DEF RecordOpenPort
    <3>2. QED
      BY <3>1
  <2>3. QED
    BY <2>1, <2>2
<1>5. ASSUME NEW s \in Scans, NEW p \in Ports, AnnouncePort(s, p) PROVE AnnouncedOnce'
  BY <1>5 DEF AnnouncePort
<1>6. ASSUME NEW s \in Scans, NEW p \in Ports, ReflagIfAcknowledged(s, p) PROVE AnnouncedOnce'
  BY <1>6 DEF ReflagIfAcknowledged
<1>7. ASSUME NEW s \in Scans, RunNmap(s) PROVE AnnouncedOnce'
  BY <1>7 DEF RunNmap
<1>8. ASSUME NEW s \in Scans, CycleDone(s) PROVE AnnouncedOnce'
  BY <1>8 DEF CycleDone, Busy
<1>9. ASSUME NEW s \in Scans, DeepScanDone(s) PROVE AnnouncedOnce'
  BY <1>9 DEF DeepScanDone
<1>10. ASSUME CrashAndRestart PROVE AnnouncedOnce'
  BY <1>10 DEF CrashAndRestart
<1>11. ASSUME NEW s \in Scans, SweepClosedPorts(s) PROVE AnnouncedOnce'
  BY <1>11 DEF SweepClosedPorts, SweptPorts, Busy
<1>12. ASSUME NEW h \in Hosts,
             \/ AcknowledgeHost(h) \/ UnacknowledgeHost(h) \/ DeleteHost(h)
      PROVE  AnnouncedOnce'
  BY <1>12 DEF AcknowledgeHost, UnacknowledgeHost, DeleteHost
<1>13. ASSUME NEW h \in Hosts, NEW p \in Ports,
             \/ ImportPort(h, p) \/ PortFlaps(h, p)
      PROVE  AnnouncedOnce'
  BY <1>13 DEF ImportPort, UpsertedPorts, UpsertIsNew, PortFlaps
<1>14. CASE UNCHANGED vars
  BY <1>14 DEF vars
<1>15. QED
  BY <1>1, <1>2, <1>3, <1>4, <1>5, <1>6, <1>7, <1>8, <1>9, <1>10, <1>11, <1>12, <1>13,
     <1>14
  DEF Next, ScanStep, HandlerStep

\* A scan that starts, is swept or ends takes no reflag with it: ScanPhases.
LEMMA NextNoQuietNewPort == TypeOK /\ ScanPhases /\ NoOrphanRows /\ NoQuietNewPort /\ [Next]_vars => NoQuietNewPort'
<1> SUFFICES ASSUME TypeOK, ScanPhases, NoOrphanRows, NoQuietNewPort, [Next]_vars PROVE NoQuietNewPort'
  OBVIOUS
<1> USE DEF TypeOK, PortState, ProbeState, NoPorts, Scans, ghosts, bounds, db, mem,
        ScanPhases, NoOrphanRows, NoQuietNewPort, ReflagPending, FoundSinceAck
<1>1. ASSUME NEW c \in Cycles, NEW h \in Hosts, CycleScansHost(c, h) PROVE NoQuietNewPort'
  <2> HIDE DEF TypeOK, PortState, ProbeState, NoPorts, ScanPhases, NoOrphanRows
  <2>1. ASSUME NEW g \in Hosts, NEW q \in Ports, NEW t \in Scans,
               target[t] = g, probe[t][q] \in {"announce", "reflag"}
        PROVE  target'[t] = g /\ probe'[t][q] = probe[t][q]
    <3>1. pc[t] \in {"probing", "enriching"}
      BY <2>1 DEF ScanPhases
    <3>2. t # c
      BY <1>1, <3>1 DEF CycleScansHost
    <3>3. QED
      BY <1>1, <2>1, <3>2 DEF CycleScansHost, TypeOK
  <2>2. UNCHANGED <<ports, announced, acked, reviewed, imported, lost>>
    BY <1>1 DEF CycleScansHost
  <2>3. acked \subseteq Hosts
    BY DEF TypeOK
  <2>4. QED
    BY <2>1, <2>2, <2>3 DEF NoQuietNewPort, FoundSinceAck, ReflagPending
<1>2. ASSUME NEW d \in DeepScans, NEW h \in Hosts, TriggerDeepScan(d, h) PROVE NoQuietNewPort'
  <2> HIDE DEF TypeOK, PortState, ProbeState, NoPorts, ScanPhases, NoOrphanRows
  <2>1. ASSUME NEW g \in Hosts, NEW q \in Ports, NEW t \in Scans,
               target[t] = g, probe[t][q] \in {"announce", "reflag"}
        PROVE  target'[t] = g /\ probe'[t][q] = probe[t][q]
    <3>1. pc[t] \in {"probing", "enriching"}
      BY <2>1 DEF ScanPhases
    <3>2. t # d
      BY <1>2, <3>1 DEF TriggerDeepScan
    <3>3. QED
      BY <1>2, <2>1, <3>2 DEF TriggerDeepScan, TypeOK
  <2>2. UNCHANGED <<ports, announced, acked, reviewed, imported, lost>>
    BY <1>2 DEF TriggerDeepScan
  <2>3. acked \subseteq Hosts
    BY DEF TypeOK
  <2>4. QED
    BY <2>1, <2>2, <2>3 DEF NoQuietNewPort, FoundSinceAck, ReflagPending
<1>3. ASSUME NEW s \in Scans, NEW p \in Ports, ProbeOnePort(s, p) PROVE NoQuietNewPort'
  <2> HIDE DEF TypeOK, PortState, ProbeState, NoPorts, ScanPhases, NoOrphanRows
  <2>1. ASSUME NEW g \in Hosts, NEW q \in Ports, NEW t \in Scans,
               target[t] = g, probe[t][q] \in {"announce", "reflag"}
        PROVE  target'[t] = g /\ probe'[t][q] = probe[t][q]
    BY <1>3, <2>1 DEF ProbeOnePort, TypeOK
  <2>2. UNCHANGED <<ports, acked, reviewed, imported, lost>>
    BY <1>3 DEF ProbeOnePort
  <2>3. acked \subseteq Hosts
    BY DEF TypeOK
  <2>4. QED
    BY <2>1, <2>2, <2>3 DEF NoQuietNewPort, FoundSinceAck, ReflagPending
<1>4. ASSUME NEW s \in Scans, NEW p \in Ports, RecordOpenPort(s, p) PROVE NoQuietNewPort'
  BY <1>4 DEF RecordOpenPort, UpsertedPorts, UpsertIsNew
<1>5. ASSUME NEW s \in Scans, NEW p \in Ports, AnnouncePort(s, p) PROVE NoQuietNewPort'
  BY <1>5 DEF AnnouncePort
<1>6. ASSUME NEW s \in Scans, NEW p \in Ports, ReflagIfAcknowledged(s, p) PROVE NoQuietNewPort'
  BY <1>6 DEF ReflagIfAcknowledged
<1>7. ASSUME NEW s \in Scans, SweepClosedPorts(s) PROVE NoQuietNewPort'
  BY <1>7 DEF SweepClosedPorts, SweptPorts, Busy
<1>8. ASSUME NEW s \in Scans, RunNmap(s) PROVE NoQuietNewPort'
  <2> HIDE DEF TypeOK, PortState, ProbeState, NoPorts, ScanPhases, NoOrphanRows
  <2>1. ASSUME NEW g \in Hosts, NEW q \in Ports, NEW t \in Scans,
               target[t] = g, probe[t][q] \in {"announce", "reflag"}
        PROVE  target'[t] = g /\ probe'[t][q] = probe[t][q]
    <3>1. pc[t] \in {"probing", "enriching"}
      BY <2>1 DEF ScanPhases
    <3>2. t # s
      BY <1>8, <3>1 DEF RunNmap
    <3>3. QED
      BY <1>8, <2>1, <3>2 DEF RunNmap, TypeOK
  <2>2. UNCHANGED <<ports, announced, acked, reviewed, imported, lost>>
    BY <1>8 DEF RunNmap
  <2>3. acked \subseteq Hosts
    BY DEF TypeOK
  <2>4. QED
    BY <2>1, <2>2, <2>3 DEF NoQuietNewPort, FoundSinceAck, ReflagPending
<1>9. ASSUME NEW s \in Scans, CycleDone(s) PROVE NoQuietNewPort'
  BY <1>9 DEF CycleDone, Busy
<1>10. ASSUME NEW s \in Scans, DeepScanDone(s) PROVE NoQuietNewPort'
  <2> HIDE DEF TypeOK, PortState, ProbeState, NoPorts, ScanPhases, NoOrphanRows
  <2>1. ASSUME NEW g \in Hosts, NEW q \in Ports, NEW t \in Scans,
               target[t] = g, probe[t][q] \in {"announce", "reflag"}
        PROVE  target'[t] = g /\ probe'[t][q] = probe[t][q]
    <3>1. pc[t] \in {"probing", "enriching"}
      BY <2>1 DEF ScanPhases
    <3>2. t # s
      BY <1>10, <3>1 DEF DeepScanDone
    <3>3. QED
      BY <1>10, <2>1, <3>2 DEF DeepScanDone, TypeOK
  <2>2. UNCHANGED <<ports, announced, acked, reviewed, imported, lost>>
    BY <1>10 DEF DeepScanDone
  <2>3. acked \subseteq Hosts
    BY DEF TypeOK
  <2>4. QED
    BY <2>1, <2>2, <2>3 DEF NoQuietNewPort, FoundSinceAck, ReflagPending
<1>11. ASSUME NEW h \in Hosts, AcknowledgeHost(h) PROVE NoQuietNewPort'
  BY <1>11 DEF AcknowledgeHost
<1>12. ASSUME NEW h \in Hosts, UnacknowledgeHost(h) PROVE NoQuietNewPort'
  BY <1>12 DEF UnacknowledgeHost
<1>13. ASSUME NEW h \in Hosts, NEW p \in Ports, ImportPort(h, p) PROVE NoQuietNewPort'
  BY <1>13 DEF ImportPort, UpsertedPorts, UpsertIsNew
<1>14. ASSUME NEW h \in Hosts, DeleteHost(h) PROVE NoQuietNewPort'
  BY <1>14 DEF DeleteHost
<1>15. ASSUME CrashAndRestart PROVE NoQuietNewPort'
  BY <1>15 DEF CrashAndRestart
<1>16. ASSUME NEW h \in Hosts, NEW p \in Ports, PortFlaps(h, p) PROVE NoQuietNewPort'
  BY <1>16 DEF PortFlaps
<1>17. CASE UNCHANGED vars
  BY <1>17 DEF vars
<1>18. QED
  BY <1>1, <1>2, <1>3, <1>4, <1>5, <1>6, <1>7, <1>8, <1>9, <1>10, <1>11, <1>12, <1>13,
     <1>14, <1>15, <1>16, <1>17
  DEF Next, ScanStep, HandlerStep

\* Nor the announcement of a row it inserted.
LEMMA NextNewPortAnnounced == TypeOK /\ ScanPhases /\ NewPortAnnounced /\ [Next]_vars => NewPortAnnounced'
<1> SUFFICES ASSUME TypeOK, ScanPhases, NewPortAnnounced, [Next]_vars PROVE NewPortAnnounced'
  OBVIOUS
<1> USE DEF TypeOK, PortState, ProbeState, NoPorts, Scans, ghosts, bounds, db, mem,
        ScanPhases, NewPortAnnounced
<1>1. ASSUME NEW c \in Cycles, NEW h \in Hosts, CycleScansHost(c, h) PROVE NewPortAnnounced'
  BY <1>1 DEF CycleScansHost
<1>2. ASSUME NEW d \in DeepScans, NEW h \in Hosts, TriggerDeepScan(d, h) PROVE NewPortAnnounced'
  <2> HIDE DEF TypeOK, PortState, ProbeState, NoPorts, ScanPhases
  <2>1. ASSUME NEW g \in Hosts, NEW q \in Ports, NEW t \in Scans,
               target[t] = g, probe[t][q] = "announce"
        PROVE  target'[t] = g /\ probe'[t][q] = probe[t][q]
    <3>1. pc[t] \in {"probing", "enriching"}
      BY <2>1 DEF ScanPhases
    <3>2. t # d
      BY <1>2, <3>1 DEF TriggerDeepScan
    <3>3. QED
      BY <1>2, <2>1, <3>2 DEF TriggerDeepScan, TypeOK
  <2>2. UNCHANGED <<ports, announced, acked, reviewed, imported, lost>>
    BY <1>2 DEF TriggerDeepScan
  <2>3. acked \subseteq Hosts
    BY DEF TypeOK
  <2>4. QED
    BY <2>1, <2>2, <2>3 DEF NewPortAnnounced
<1>3. ASSUME NEW s \in Scans, NEW p \in Ports, ProbeOnePort(s, p) PROVE NewPortAnnounced'
  BY <1>3 DEF ProbeOnePort
<1>4. ASSUME NEW s \in Scans, NEW p \in Ports, RecordOpenPort(s, p) PROVE NewPortAnnounced'
  BY <1>4 DEF RecordOpenPort, UpsertedPorts, UpsertIsNew
<1>5. ASSUME NEW s \in Scans, NEW p \in Ports, AnnouncePort(s, p) PROVE NewPortAnnounced'
  BY <1>5 DEF AnnouncePort
<1>6. ASSUME NEW s \in Scans, NEW p \in Ports, ReflagIfAcknowledged(s, p) PROVE NewPortAnnounced'
  BY <1>6 DEF ReflagIfAcknowledged
<1>7. ASSUME NEW s \in Scans, SweepClosedPorts(s) PROVE NewPortAnnounced'
  BY <1>7 DEF SweepClosedPorts, SweptPorts, Busy
<1>8. ASSUME NEW s \in Scans, RunNmap(s) PROVE NewPortAnnounced'
  <2> HIDE DEF TypeOK, PortState, ProbeState, NoPorts, ScanPhases
  <2>1. ASSUME NEW g \in Hosts, NEW q \in Ports, NEW t \in Scans,
               target[t] = g, probe[t][q] = "announce"
        PROVE  target'[t] = g /\ probe'[t][q] = probe[t][q]
    <3>1. pc[t] \in {"probing", "enriching"}
      BY <2>1 DEF ScanPhases
    <3>2. t # s
      BY <1>8, <3>1 DEF RunNmap
    <3>3. QED
      BY <1>8, <2>1, <3>2 DEF RunNmap, TypeOK
  <2>2. UNCHANGED <<ports, announced, acked, reviewed, imported, lost>>
    BY <1>8 DEF RunNmap
  <2>3. acked \subseteq Hosts
    BY DEF TypeOK
  <2>4. QED
    BY <2>1, <2>2, <2>3 DEF NewPortAnnounced
<1>9. ASSUME NEW s \in Scans, CycleDone(s) PROVE NewPortAnnounced'
  BY <1>9 DEF CycleDone, Busy
<1>10. ASSUME NEW s \in Scans, DeepScanDone(s) PROVE NewPortAnnounced'
  <2> HIDE DEF TypeOK, PortState, ProbeState, NoPorts, ScanPhases
  <2>1. ASSUME NEW g \in Hosts, NEW q \in Ports, NEW t \in Scans,
               target[t] = g, probe[t][q] = "announce"
        PROVE  target'[t] = g /\ probe'[t][q] = probe[t][q]
    <3>1. pc[t] \in {"probing", "enriching"}
      BY <2>1 DEF ScanPhases
    <3>2. t # s
      BY <1>10, <3>1 DEF DeepScanDone
    <3>3. QED
      BY <1>10, <2>1, <3>2 DEF DeepScanDone, TypeOK
  <2>2. UNCHANGED <<ports, announced, acked, reviewed, imported, lost>>
    BY <1>10 DEF DeepScanDone
  <2>3. acked \subseteq Hosts
    BY DEF TypeOK
  <2>4. QED
    BY <2>1, <2>2, <2>3 DEF NewPortAnnounced
<1>11. ASSUME NEW h \in Hosts, AcknowledgeHost(h) PROVE NewPortAnnounced'
  BY <1>11 DEF AcknowledgeHost
<1>12. ASSUME NEW h \in Hosts, NEW p \in Ports, ImportPort(h, p) PROVE NewPortAnnounced'
  BY <1>12 DEF ImportPort, UpsertedPorts, UpsertIsNew
<1>13. ASSUME NEW h \in Hosts, DeleteHost(h) PROVE NewPortAnnounced'
  BY <1>13 DEF DeleteHost
<1>14. ASSUME CrashAndRestart PROVE NewPortAnnounced'
  BY <1>14 DEF CrashAndRestart
<1>15. ASSUME NEW h \in Hosts, UnacknowledgeHost(h) PROVE NewPortAnnounced'
  BY <1>15 DEF UnacknowledgeHost
<1>16. ASSUME NEW h \in Hosts, NEW p \in Ports, PortFlaps(h, p) PROVE NewPortAnnounced'
  BY <1>16 DEF PortFlaps
<1>17. CASE UNCHANGED vars
  BY <1>17 DEF vars
<1>18. QED
  BY <1>1, <1>2, <1>3, <1>4, <1>5, <1>6, <1>7, <1>8, <1>9, <1>10, <1>11, <1>12, <1>13,
     <1>14, <1>15, <1>16, <1>17
  DEF Next, ScanStep, HandlerStep

\* A deep scan enters the guard map when it starts and leaves it when it ends.
LEMMA NextDeepScanGuard == TypeOK /\ ScanPhases /\ DeepScanGuard /\ [Next]_vars => DeepScanGuard'
<1> SUFFICES ASSUME TypeOK, ScanPhases, DeepScanGuard, [Next]_vars PROVE DeepScanGuard'
  OBVIOUS
<1> USE ScansAssumption
    DEF TypeOK, PortState, ProbeState, NoPorts, Scans, ghosts, bounds, db, mem,
        ScanPhases, DeepScanGuard
<1>1. ASSUME NEW c \in Cycles, NEW h \in Hosts, CycleScansHost(c, h) PROVE DeepScanGuard'
  BY <1>1 DEF CycleScansHost
<1>2. ASSUME NEW d \in DeepScans, NEW h \in Hosts, TriggerDeepScan(d, h) PROVE DeepScanGuard'
  BY <1>2 DEF TriggerDeepScan
<1>3. ASSUME NEW s \in Scans, SweepClosedPorts(s) PROVE DeepScanGuard'
  BY <1>3 DEF SweepClosedPorts, SweptPorts, Busy
<1>4. ASSUME NEW s \in Scans, RunNmap(s) PROVE DeepScanGuard'
  BY <1>4 DEF RunNmap
<1>5. ASSUME NEW s \in Scans, CycleDone(s) PROVE DeepScanGuard'
  BY <1>5 DEF CycleDone, Busy
<1>6. ASSUME NEW s \in Scans, DeepScanDone(s) PROVE DeepScanGuard'
  BY <1>6 DEF DeepScanDone
<1>7. ASSUME CrashAndRestart PROVE DeepScanGuard'
  BY <1>7 DEF CrashAndRestart
<1>8. ASSUME NEW s \in Scans, NEW p \in Ports,
             \/ ProbeOnePort(s, p) \/ RecordOpenPort(s, p) \/ AnnouncePort(s, p)
             \/ ReflagIfAcknowledged(s, p)
      PROVE  DeepScanGuard'
  BY <1>8 DEF ProbeOnePort, RecordOpenPort, UpsertedPorts, UpsertIsNew, AnnouncePort,
      ReflagIfAcknowledged
<1>9. ASSUME NEW h \in Hosts,
             \/ AcknowledgeHost(h) \/ UnacknowledgeHost(h) \/ DeleteHost(h)
      PROVE  DeepScanGuard'
  BY <1>9 DEF AcknowledgeHost, UnacknowledgeHost, DeleteHost
<1>10. ASSUME NEW h \in Hosts, NEW p \in Ports,
             \/ ImportPort(h, p) \/ PortFlaps(h, p)
      PROVE  DeepScanGuard'
  BY <1>10 DEF ImportPort, UpsertedPorts, UpsertIsNew, PortFlaps
<1>11. CASE UNCHANGED vars
  BY <1>11 DEF vars
<1>12. QED
  BY <1>1, <1>2, <1>3, <1>4, <1>5, <1>6, <1>7, <1>8, <1>9, <1>10, <1>11
  DEF Next, ScanStep, HandlerStep

-----------------------------------------------------------------------------
(* The theorems.                                                           *)

\* It holds before anything was scanned.
LEMMA InitIInv == Init => IInv
  BY InitTypeOK DEF Init, IInv, ScanPhases, NoOrphanRows, AnnouncedRows, AnnouncedOnce,
     NoQuietNewPort, FoundSinceAck, NewPortAnnounced, DeepScanGuard, NoPorts, Scans

\* Every step preserves it.
LEMMA NextIInv == IInv /\ [Next]_vars => IInv'
  BY NextTypeOK, NextScanPhases, NextNoOrphanRows, NextAnnouncedRows, NextAnnouncedOnce,
     NextNoQuietNewPort, NextNewPortAnnounced, NextDeepScanGuard DEF IInv

\* All parts of the inductive invariant hold for ever.
THEOREM IInvHolds == Spec => []IInv
  BY InitIInv, NextIInv, PTL DEF Spec

\* However scans, handlers and restarts interleave, an acknowledged host has
\* no unreviewed port from a scan without a goroutine about to clear the
\* acknowledgement (recordOpenPort, reflagIfAcknowledged), crashes apart.
THEOREM NoQuietNewPortHolds == Spec => []NoQuietNewPort
  BY IInvHolds, PTL DEF IInv

\* Every row a scan inserted is announced, or about to be, crashes apart.
THEOREM NewPortAnnouncedHolds == Spec => []NewPortAnnounced
  BY IInvHolds, PTL DEF IInv

\* No two scans announce one port row.
THEOREM AnnouncedOnceHolds == Spec => []AnnouncedOnce
  BY IInvHolds, PTL DEF IInv

\* The guard map is the set of hosts being deep-scanned, each once.
THEOREM DeepScanGuardHolds == Spec => []DeepScanGuard
  BY IInvHolds, PTL DEF IInv

\* Late goroutines leave no row behind a deleted host.
THEOREM NoOrphanRowsHolds == Spec => []NoOrphanRows
  BY IInvHolds, PTL DEF IInv

\* A step closes a port only as the sweep of a scan that was refused on it.
LEMMA StepClosesRefused ==
  TypeOK /\ [Next]_vars =>
    \A h \in Hosts, p \in Ports :
      ports[h][p] = "open" /\ ports'[h][p] = "closed" =>
        \E s \in Scans : target[s] = h /\ pc[s] = "probing" /\ probe[s][p] = "shut"
<1> SUFFICES ASSUME TypeOK, [Next]_vars, NEW h \in Hosts, NEW p \in Ports,
                    ports[h][p] = "open", ports'[h][p] = "closed"
             PROVE  \E s \in Scans : target[s] = h /\ pc[s] = "probing" /\ probe[s][p] = "shut"
  OBVIOUS
<1> USE DEF TypeOK, PortState, NoPorts, db, mem
<1>1. ports' # ports
  OBVIOUS
<1>2. ASSUME NEW s \in Scans, SweepClosedPorts(s)
      PROVE  target[s] = h /\ pc[s] = "probing" /\ probe[s][p] = "shut"
  BY <1>2 DEF SweepClosedPorts, SweptPorts
<1>3. ASSUME NEW s \in Scans, NEW q \in Ports, RecordOpenPort(s, q) PROVE FALSE
  BY <1>3 DEF RecordOpenPort, UpsertedPorts
<1>4. ASSUME NEW g \in Hosts, NEW q \in Ports, ImportPort(g, q) PROVE FALSE
  BY <1>4 DEF ImportPort, UpsertedPorts
<1>5. ASSUME NEW g \in Hosts, DeleteHost(g) PROVE FALSE
  BY <1>5 DEF DeleteHost
<1>6. QED
  BY <1>1, <1>2, <1>3, <1>4, <1>5
  DEF Next, ScanStep, HandlerStep, vars, CycleScansHost, TriggerDeepScan, ProbeOnePort,
      AnnouncePort, ReflagIfAcknowledged, RunNmap, CycleDone, DeepScanDone,
      AcknowledgeHost, UnacknowledgeHost, PortFlaps, CrashAndRestart

\* A cycle never closes what it did not probe, and nothing but a refusal closes
\* a port.
THEOREM ClosedOnlyWhenRefusedHolds == Spec => ClosedOnlyWhenRefused
<1>1. TypeOK /\ [Next]_vars =>
        [\A h \in Hosts, p \in Ports :
           ports[h][p] = "open" /\ ports'[h][p] = "closed" =>
             \E s \in Scans : target[s] = h /\ pc[s] = "probing" /\ probe[s][p] = "shut"]_vars
  BY StepClosesRefused
<1>2. QED
  BY <1>1, TypeCorrect, PTL DEF Spec, ClosedOnlyWhenRefused
=============================================================================
