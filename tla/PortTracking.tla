---------------------------- MODULE PortTracking ----------------------------
(***************************************************************************)
(* How the open ports of a host are recorded, closed again, announced, and *)
(* how a new one takes back the operator's acknowledgement of the host.    *)
(*                                                                         *)
(* Several goroutines port-scan the same host row at once: the scan cycle  *)
(* (Cycles) and the on-demand deep scans (DeepScans), while the HTTP       *)
(* handlers acknowledge, import into and delete the row.  Every store call *)
(* runs under Store.mu, so it is one atomic action here; what happens      *)
(* between two store calls of one goroutine interleaves with everything.   *)
(*                                                                         *)
(* Of the event log only the new_port events matter here; port_closed,     *)
(* priority_reflag and the deep-scan notices are written in the steps that *)
(* sweep, reflag, start and end, and nothing reads them.                   *)
(*                                                                         *)
(* A host is a row id.  Ids are AUTOINCREMENT, so a deleted id never comes *)
(* back; rediscovering the address makes a fresh row.                      *)
(***************************************************************************)
EXTENDS Naturals, FiniteSets

CONSTANTS
  Hosts,            \* host row ids
  Ports,            \* the ports a deep scan probes: every TCP port
  CommonPorts,      \* the curated list an ordinary cycle probes
  Cycles,           \* goroutines of the scan cycle that scan one host
  DeepScans,        \* goroutines TriggerDeepScan may start
  PortConcurrency,  \* capacity of the probe semaphore of one scan
  MaxFlaps,         \* bound: how often a port opens or closes on the network
  MaxImports,       \* bound: how many ports are merged from imported files
  MaxCrashes        \* bound: how often the process dies and restarts

ASSUME PortsAssumption == CommonPorts \subseteq Ports
ASSUME ScansAssumption == Cycles \cap DeepScans = {}
ASSUME BoundsAssumption ==
  /\ PortConcurrency \in Nat
  /\ MaxFlaps \in Nat
  /\ MaxImports \in Nat
  /\ MaxCrashes \in Nat

Scans == Cycles \cup DeepScans

VARIABLES
  \* the database file
  row,           \* row[h]: "absent", "present" or "deleted"
  ports,         \* ports[h][p]: "none" (no row), "open" or "closed"
  acked,         \* hosts with acknowledged = 1
  announced,     \* announced[h]: ports with a new_port event in the log
  \* the scanner's memory
  deepScanning,  \* the guard map of TriggerDeepScan
  pc,            \* pc[s]: where the scan s is
  target,        \* target[s]: the host row s is scanning
  probe,         \* probe[s][p]: how far s is with port p
  \* the network
  net,           \* net[h]: the ports of h that accept a connection
  \* history, read by no action's guard
  reviewed,      \* reviewed[h]: ports[h] when h was last acknowledged
  imported,      \* imported[h]: ports whose row an import inserted
  lost,          \* lost[h]: ports whose announcement or reflag a crash cut off
  flaps, imports, crashes

db == <<row, ports, acked, announced>>
mem == <<deepScanning, pc, target, probe>>
ghosts == <<reviewed, imported, lost>>
bounds == <<flaps, imports, crashes>>
vars == <<row, ports, acked, announced, deepScanning, pc, target, probe, net,
          reviewed, imported, lost, flaps, imports, crashes>>

PortState == {"none", "open", "closed"}

\* "none": not in this scan's list; "todo": not probed yet; "found": accepted
\* the connection, not recorded yet; "announce": its row was just inserted;
\* "reflag": its new_port event is out, the acknowledgement is still to be
\* cleared; "open" and "shut": done.
ProbeState == {"none", "todo", "found", "announce", "reflag", "open", "shut"}

NoPorts == [p \in Ports |-> "none"]

TypeOK ==
  /\ row \in [Hosts -> {"absent", "present", "deleted"}]
  /\ ports \in [Hosts -> [Ports -> PortState]]
  /\ acked \in SUBSET Hosts
  /\ announced \in [Hosts -> SUBSET Ports]
  /\ deepScanning \in SUBSET Hosts
  /\ pc \in [Scans -> {"idle", "probing", "swept", "enriching"}]
  /\ target \in [Scans -> Hosts]
  /\ probe \in [Scans -> [Ports -> ProbeState]]
  /\ net \in [Hosts -> SUBSET Ports]
  /\ reviewed \in [Hosts -> [Ports -> PortState]]
  /\ imported \in [Hosts -> SUBSET Ports]
  /\ lost \in [Hosts -> SUBSET Ports]
  /\ flaps \in 0 .. MaxFlaps
  /\ imports \in 0 .. MaxImports
  /\ crashes \in 0 .. MaxCrashes

Init ==
  /\ row = [h \in Hosts |-> "absent"]
  /\ ports = [h \in Hosts |-> NoPorts]
  /\ acked = {}
  /\ announced = [h \in Hosts |-> {}]
  /\ deepScanning = {}
  /\ pc = [s \in Scans |-> "idle"]
  /\ target \in [Scans -> Hosts]
  /\ probe = [s \in Scans |-> NoPorts]
  /\ net \in [Hosts -> SUBSET Ports]
  /\ reviewed = [h \in Hosts |-> NoPorts]
  /\ imported = [h \in Hosts |-> {}]
  /\ lost = [h \in Hosts |-> {}]
  /\ flaps = 0 /\ imports = 0 /\ crashes = 0

Busy(s) == {p \in Ports : probe[s][p] \in {"todo", "found", "announce", "reflag"}}

\* The probes of s that hold a slot of its semaphore.
InFlight(s) == {p \in Ports : probe[s][p] \in {"found", "announce", "reflag"}}

-----------------------------------------------------------------------------
(* Starting a scan.                                                        *)

\* The cycle reaches an address that answers: recordHost upserts its row, and
\* scanPorts fans out over the common ports, or over all of them in a deep
\* cycle.  One cycle runs at a time and visits an address once.
CycleScansHost(c, h) ==
  /\ pc[c] = "idle"
  /\ \A d \in Cycles : pc[d] = "idle" \/ target[d] # h
  /\ row[h] # "deleted"
  /\ row' = [row EXCEPT ![h] = "present"]
  /\ pc' = [pc EXCEPT ![c] = "probing"]
  /\ target' = [target EXCEPT ![c] = h]
  /\ \E range \in {CommonPorts, Ports} :
       probe' = [probe EXCEPT ![c] =
                   [p \in Ports |-> IF p \in range THEN "todo" ELSE "none"]]
  /\ UNCHANGED <<ports, acked, announced, deepScanning, net, ghosts, bounds>>

\* POST /api/hosts/{id}/deep-scan: the row must exist, and no deep scan of it
\* may be running (else 409 and nothing changes).
TriggerDeepScan(d, h) ==
  /\ pc[d] = "idle"
  /\ row[h] = "present"
  /\ h \notin deepScanning
  /\ deepScanning' = deepScanning \cup {h}
  /\ pc' = [pc EXCEPT ![d] = "probing"]
  /\ target' = [target EXCEPT ![d] = h]
  /\ probe' = [probe EXCEPT ![d] = [p \in Ports |-> "todo"]]
  /\ UNCHANGED <<db, net, ghosts, bounds>>

-----------------------------------------------------------------------------
(* The probes of one scan, and the rows they write.                        *)

\* ProbeTCP of one port, once the semaphore has room.
ProbeOnePort(s, p) ==
  /\ pc[s] = "probing"
  /\ probe[s][p] = "todo"
  /\ Cardinality(InFlight(s)) < PortConcurrency
  /\ probe' = [probe EXCEPT ![s][p] =
                 IF p \in net[target[s]] THEN "found" ELSE "shut"]
  /\ UNCHANGED <<db, deepScanning, pc, target, net, ghosts, bounds>>

\* Faults: an existing row keeps its state; every upsert reports a new row.
UpsertedPorts_NoReopen(h, p) ==
  IF row[h] = "present" /\ ports[h][p] = "none" THEN [ports EXCEPT ![h][p] = "open"] ELSE ports
UpsertIsNew_Always(h, p) == row[h] = "present"

\* Store.UpsertPort: what becomes of the row, and whether it is a new one.
\* With the host row gone the foreign key refuses the insert.
UpsertedPorts(h, p) ==
  IF row[h] = "present" THEN [ports EXCEPT ![h][p] = "open"] ELSE ports
UpsertIsNew(h, p) == row[h] = "present" /\ ports[h][p] = "none"

\* nmap's results are recorded by one goroutine, one port after the other.
MayRecord(s) ==
  \/ pc[s] = "probing"
  \/ pc[s] = "enriching" /\ \A p \in Ports : probe[s][p] \notin {"announce", "reflag"}

\* recordOpenPort, first store call.  A port whose row already existed, open
\* or closed, is done; so is one whose upsert failed.
RecordOpenPort(s, p) ==
  LET h == target[s] IN
  /\ MayRecord(s)
  /\ probe[s][p] = "found"
  /\ ports' = UpsertedPorts(h, p)
  /\ probe' = [probe EXCEPT ![s][p] = IF UpsertIsNew(h, p) THEN "announce" ELSE "open"]
  /\ UNCHANGED <<row, acked, announced, deepScanning, pc, target, net, ghosts, bounds>>

\* Fault: the event is not written.
AnnouncePort_Silent(s, p) ==
  /\ probe[s][p] = "announce"
  /\ probe' = [probe EXCEPT ![s][p] = "reflag"]
  /\ UNCHANGED <<db, deepScanning, pc, target, net, ghosts, bounds>>

\* Fault: the host is not re-flagged.
AnnouncePort_NoReflag(s, p) ==
  /\ probe[s][p] = "announce"
  /\ announced' = [announced EXCEPT ![target[s]] = @ \cup {p}]
  /\ probe' = [probe EXCEPT ![s][p] = "open"]
  /\ UNCHANGED <<row, ports, acked, deepScanning, pc, target, net, ghosts, bounds>>

\* recordOpenPort, the new_port event is logged.
AnnouncePort(s, p) ==
  /\ probe[s][p] = "announce"
  /\ announced' = [announced EXCEPT ![target[s]] = @ \cup {p}]
  /\ probe' = [probe EXCEPT ![s][p] = "reflag"]
  /\ UNCHANGED <<row, ports, acked, deepScanning, pc, target, net, ghosts, bounds>>

\* reflagIfAcknowledged: ClearAcknowledgementIfSet (no row: an error, logged).
ReflagIfAcknowledged(s, p) ==
  /\ probe[s][p] = "reflag"
  /\ acked' = acked \ {target[s]}
  /\ probe' = [probe EXCEPT ![s][p] = "open"]
  /\ UNCHANGED <<row, ports, announced, deepScanning, pc, target, net, ghosts, bounds>>

\* Fault: ports that were not probed are swept too.
SweptPorts_Unprobed(s) ==
  [ports EXCEPT ![target[s]] =
     [p \in Ports |-> IF probe[s][p] # "open" /\ @[p] = "open" THEN "closed" ELSE @[p]]]
\* Store.SweepClosedPorts for the ports s probed and the ones it found open.
SweptPorts(s) ==
  [ports EXCEPT ![target[s]] =
     [p \in Ports |-> IF probe[s][p] = "shut" /\ @[p] = "open" THEN "closed" ELSE @[p]]]

\* The end of scanPortRange: every probe is done, then the sweep.
SweepClosedPorts(s) ==
  /\ pc[s] = "probing"
  /\ Busy(s) = {}
  /\ ports' = SweptPorts(s)
  /\ pc' = [pc EXCEPT ![s] = "swept"]
  /\ UNCHANGED <<row, acked, announced, deepScanning, target, probe, net, ghosts, bounds>>

\* scanSubnetNmap, after the built-in scan: nmap probes again the ports the
\* cycle found open on any host of the subnet and reports those it reaches;
\* it may time out on this host, fail, or not be installed (nothing found).
RunNmap(c) ==
  /\ c \in Cycles
  /\ pc[c] = "swept"
  /\ \E found \in SUBSET {p \in net[target[c]] : probe[c][p] # "none"} :
       probe' = [probe EXCEPT ![c] =
                   [p \in Ports |-> IF p \in found THEN "found" ELSE "none"]]
  /\ pc' = [pc EXCEPT ![c] = "enriching"]
  /\ UNCHANGED <<db, deepScanning, target, net, ghosts, bounds>>

CycleDone(c) ==
  /\ pc[c] = "enriching"
  /\ Busy(c) = {}
  /\ pc' = [pc EXCEPT ![c] = "idle"]
  /\ probe' = [probe EXCEPT ![c] = NoPorts]
  /\ UNCHANGED <<db, deepScanning, target, net, ghosts, bounds>>

\* Fault: the guard is never given back.
DeepScanDone_KeepGuard(d) ==
  /\ d \in DeepScans
  /\ pc[d] = "swept"
  /\ pc' = [pc EXCEPT ![d] = "idle"]
  /\ probe' = [probe EXCEPT ![d] = NoPorts]
  /\ UNCHANGED <<db, deepScanning, target, net, ghosts, bounds>>

\* The deferred delete of TriggerDeepScan's goroutine.
DeepScanDone(d) ==
  /\ d \in DeepScans
  /\ pc[d] = "swept"
  /\ deepScanning' = deepScanning \ {target[d]}
  /\ pc' = [pc EXCEPT ![d] = "idle"]
  /\ probe' = [probe EXCEPT ![d] = NoPorts]
  /\ UNCHANGED <<db, target, net, ghosts, bounds>>

-----------------------------------------------------------------------------
(* The HTTP handlers.                                                      *)

AcknowledgeHost(h) ==
  /\ row[h] = "present"
  /\ acked' = acked \cup {h}
  /\ reviewed' = [reviewed EXCEPT ![h] = ports[h]]
  /\ UNCHANGED <<row, ports, announced, mem, net, imported, lost, bounds>>

UnacknowledgeHost(h) ==
  /\ h \in acked
  /\ acked' = acked \ {h}
  /\ UNCHANGED <<row, ports, announced, mem, net, ghosts, bounds>>

\* importNmapPorts and importPorts upsert one open port of an imported file:
\* no event, no reflag.
ImportPort(h, p) ==
  /\ imports < MaxImports
  /\ row[h] = "present"
  /\ ports' = UpsertedPorts(h, p)
  /\ imported' = IF UpsertIsNew(h, p)
                 THEN [imported EXCEPT ![h] = @ \cup {p}] ELSE imported
  /\ imports' = imports + 1
  /\ UNCHANGED <<row, acked, announced, mem, net, reviewed, lost, flaps, crashes>>

\* DELETE /api/hosts/{id}; ON DELETE CASCADE takes the port rows along.
DeleteHost(h) ==
  /\ row[h] = "present"
  /\ row' = [row EXCEPT ![h] = "deleted"]
  /\ ports' = [ports EXCEPT ![h] = NoPorts]
  /\ acked' = acked \ {h}
  /\ UNCHANGED <<announced, mem, net, ghosts, bounds>>

-----------------------------------------------------------------------------
(* The environment.                                                        *)

\* A service starts or stops listening.
PortFlaps(h, p) ==
  /\ flaps < MaxFlaps
  /\ net' = [net EXCEPT ![h] = IF p \in @ THEN @ \ {p} ELSE @ \cup {p}]
  /\ flaps' = flaps + 1
  /\ UNCHANGED <<db, mem, ghosts, imports, crashes>>

\* The process dies and starts again on its -db-file: the goroutines and the
\* guard map are gone, the rows stay.
CrashAndRestart ==
  /\ crashes < MaxCrashes
  /\ deepScanning' = {}
  /\ pc' = [s \in Scans |-> "idle"]
  /\ probe' = [s \in Scans |-> NoPorts]
  /\ lost' = [h \in Hosts |-> lost[h] \cup
                {p \in Ports : \E s \in Scans :
                   target[s] = h /\ probe[s][p] \in {"announce", "reflag"}}]
  /\ crashes' = crashes + 1
  /\ UNCHANGED <<db, target, net, reviewed, imported, flaps, imports>>

-----------------------------------------------------------------------------
ScanStep(s) ==
  \/ \E p \in Ports : ProbeOnePort(s, p) \/ RecordOpenPort(s, p)
                      \/ AnnouncePort(s, p) \/ ReflagIfAcknowledged(s, p)
  \/ SweepClosedPorts(s) \/ RunNmap(s) \/ CycleDone(s) \/ DeepScanDone(s)

HandlerStep(h) ==
  \/ AcknowledgeHost(h) \/ UnacknowledgeHost(h) \/ DeleteHost(h)
  \/ \E p \in Ports : ImportPort(h, p)
  \/ \E d \in DeepScans : TriggerDeepScan(d, h)

Next ==
  \/ \E s \in Scans : ScanStep(s)
  \/ \E c \in Cycles, h \in Hosts : CycleScansHost(c, h)
  \/ \E h \in Hosts : HandlerStep(h)
  \/ \E h \in Hosts, p \in Ports : PortFlaps(h, p)
  \/ CrashAndRestart

Spec == Init /\ [][Next]_vars

\* Goroutines run, and the ticker of Scanner.Run keeps starting cycles; the
\* operator, the network and crashes owe nothing.
Fairness ==
  /\ \A s \in Scans : WF_vars(ScanStep(s))
  /\ \A h \in Hosts : WF_vars(\E c \in Cycles : CycleScansHost(c, h))

FairSpec == Spec /\ Fairness

-----------------------------------------------------------------------------
(* Properties.                                                             *)

\* A scan still has to announce, or to clear the acknowledgement for, port p.
ReflagPending(h, p) ==
  \E s \in Scans : target[s] = h /\ probe[s][p] \in {"announce", "reflag"}

\* p got its row from a scan after h was last acknowledged.
FoundSinceAck(h, p) ==
  ports[h][p] # "none" /\ reviewed[h][p] = "none" /\ p \notin imported[h]

\* A host never stays quietly acknowledged with a port a scan discovered after
\* the review: the goroutine that inserted the row (recordOpenPort) is still on
\* its way to clear the acknowledgement, unless a crash cut it off in between.
NoQuietNewPort ==
  \A h \in acked, p \in Ports :
    FoundSinceAck(h, p) => p \in lost[h] \/ ReflagPending(h, p)

\* Every port row a scan inserted has its new_port event in the log, or the
\* goroutine about to log it, or lost it to a crash: racing cycle and deep
\* scans never both take the row for old (UpsertPort's isNew).
NewPortAnnounced ==
  \A h \in Hosts, p \in Ports :
    ports[h][p] # "none" =>
      \/ p \in announced[h] \cup imported[h] \cup lost[h]
      \/ \E s \in Scans : target[s] = h /\ probe[s][p] = "announce"

\* And never both take it for new: one port row is announced once.
AnnouncedOnce ==
  \A s \in Scans, p \in Ports :
    probe[s][p] = "announce" =>
      /\ p \notin announced[target[s]]
      /\ \A t \in Scans \ {s} : probe[t][p] = "announce" => target[t] # target[s]

\* The guard map of TriggerDeepScan is exactly the hosts being deep-scanned,
\* and no host is deep-scanned twice at once.
DeepScanGuard ==
  /\ \A h \in Hosts :
       h \in deepScanning <=> \E d \in DeepScans : pc[d] # "idle" /\ target[d] = h
  /\ \A d, e \in DeepScans :
       pc[d] # "idle" /\ pc[e] # "idle" /\ target[d] = target[e] => d = e

\* Scans that outlive the host row they work on leave nothing behind: no port
\* row and no acknowledgement without its host row (UpsertPort's foreign key).
NoOrphanRows ==
  \A h \in Hosts : row[h] # "present" => ports[h] = NoPorts /\ h \notin acked

\* A port is closed only by a scan that itself was refused on that port: a
\* common-ports cycle never closes what only a deep scan looks at.
ClosedOnlyWhenRefused ==
  [][\A h \in Hosts, p \in Ports :
       ports[h][p] = "open" /\ ports'[h][p] = "closed" =>
         \E s \in Scans : target[s] = h /\ pc[s] = "probing" /\ probe[s][p] = "shut"]_vars

\* The acknowledgement of a host with a port found since does come off (or is
\* given anew): recordOpenPort reaches reflagIfAcknowledged.
AckComesOff ==
  \A h \in Hosts, p \in Ports :
    h \in acked /\ FoundSinceAck(h, p) /\ p \notin lost[h] ~>
      h \notin acked \/ ~FoundSinceAck(h, p) \/ p \in lost[h]

\* A deep scan ends and gives its guard back, so the host can be deep-scanned
\* again.
DeepScanEnds == \A h \in Hosts : h \in deepScanning ~> h \notin deepScanning

\* Once the network is quiet, stale results of slow scans are repaired: the rows
\* of the common ports of an answering host end up as the network is.
PortsConverge ==
  <>[](\A h \in Hosts, p \in CommonPorts :
         row[h] = "present" => (ports[h][p] = "open" <=> p \in net[h]))
=============================================================================
