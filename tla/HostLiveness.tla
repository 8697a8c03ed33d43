---------------------------- MODULE HostLiveness ----------------------------
(***************************************************************************)
(* How the addresses of one subnet come to be "up", "down" or "unknown".   *)
(*                                                                         *)
(* One scan cycle at a time goes over the subnet, with one goroutine per   *)
(* address and one of three techniques: the built-in prober (scanSubnetTCP),*)
(* the prober followed by nmap (scanSubnetNmap), and reverse DNS alone     *)
(* (scanSubnetReverseDNS).  Meanwhile the HTTP handlers add, import and     *)
(* delete rows.  Each store call is atomic under Store.mu.                 *)
(***************************************************************************)
EXTENDS Naturals, FiniteSets

CONSTANTS
  IPs,            \* addresses that may have a row in the subnet
  Expanded,       \* those ExpandIPv4 yields; a manual or imported row may be
                  \* outside the CIDR or beyond MaxHostsPerSubnet
  WithPTR,        \* those with a reverse-DNS record
  MissThreshold,  \* Config.MissThreshold
  MaxFlips,       \* bound: changes of what answers on the network
  MaxEdits,       \* bound: operator calls (add, import, delete, reverse DNS)
  MaxFaults       \* bound: process restarts, and store calls that fail

\* A threshold of 0 acts as 1: the count has been incremented when compared.
ASSUME ThresholdAssumption == MissThreshold \in Nat \ {0}
ASSUME AddressAssumption == Expanded \subseteq IPs /\ WithPTR \subseteq IPs
ASSUME LimitsAssumption == MaxFlips \in Nat /\ MaxEdits \in Nat /\ MaxFaults \in Nat

VARIABLES
  \* the hosts table, by address
  status,       \* "none" (no row), "unknown", "up" or "down"
  miss,         \* miss_count, which matters up to MissThreshold only
  lastEvent,    \* the last new_host or host_down logged with the row's id
  \* the running cycle
  method,       \* "tcp", "nmap" or "rdns"
  phase,        \* "idle", "probe", "dns", "record", "sweep", "events", "enrich"
  stage,        \* stage[ip]: how far the goroutine of ip is
  holds,        \* addresses whose goroutine has the id of the current row
  wentDown,     \* rows the sweep flipped, host_down not logged yet
  \* the network
  live,         \* live[ip]: "silent", "answers" (ping, TCP or ARP), or "port":
                \* deaf to discovery, but some probed port is open
  \* history
  origin,       \* origin[ip]: who inserted the row
  proven,       \* addresses the network or the operator ever vouched for
  quiet,        \* quiet[ip]: cycles in a row whose discovery had no answer, or
                \* had one that could not be recorded
  lost,         \* addresses whose event a crash or a failing call cut off
  flips, edits, faults

rows == <<status, miss, lastEvent>>
cycle == <<method, phase, stage, holds, wentDown>>
history == <<origin, proven, quiet, lost>>
limits == <<flips, edits, faults>>
vars == <<status, miss, lastEvent, method, phase, stage, holds, wentDown, live,
          origin, proven, quiet, lost, flips, edits, faults>>

\* "todo": not probed; "silent": nothing answered; "answered": recordHost is
\* next; "greetUp", "greetHint": the row is new, new_host is next; "hinted":
\* found by PTR, its port scan is next; "confirmed": in dnsConfirmed, not in
\* seen yet; "seen": in the cycle's seen map.
Stages == {"none", "todo", "silent", "answered", "greetUp", "greetHint", "hinted",
           "confirmed", "seen", "unseen"}

TypeOK ==
  /\ status \in [IPs -> {"none", "unknown", "up", "down"}]
  /\ miss \in [IPs -> 0 .. MissThreshold]
  /\ lastEvent \in [IPs -> {"none", "new_host", "host_down"}]
  /\ method \in {"tcp", "nmap", "rdns"}
  /\ phase \in {"idle", "probe", "dns", "record", "sweep", "events", "enrich"}
  /\ stage \in [IPs -> Stages]
  /\ holds \in SUBSET IPs
  /\ wentDown \in SUBSET IPs
  /\ live \in [IPs -> {"silent", "port", "answers"}]
  /\ origin \in [IPs -> {"none", "scan", "operator", "enrichment"}]
  /\ proven \in SUBSET IPs
  /\ quiet \in [IPs -> 0 .. MissThreshold]
  /\ lost \in SUBSET IPs
  /\ flips \in 0 .. MaxFlips /\ edits \in 0 .. MaxEdits /\ faults \in 0 .. MaxFaults

Init ==
  /\ status = [ip \in IPs |-> "none"]
  /\ miss = [ip \in IPs |-> 0]
  /\ lastEvent = [ip \in IPs |-> "none"]
  /\ method = "tcp" /\ phase = "idle"
  /\ stage = [ip \in IPs |-> "none"]
  /\ holds = {} /\ wentDown = {}
  /\ live \in [IPs -> {"silent", "port", "answers"}]
  /\ origin = [ip \in IPs |-> "none"]
  /\ proven = {} /\ lost = {}
  /\ quiet = [ip \in IPs |-> 0]
  /\ flips = 0 /\ edits = 0 /\ faults = 0

All(stages) == \A ip \in IPs : stage[ip] \in stages

-----------------------------------------------------------------------------
(* Store calls: what becomes of the row of ip.                             *)

Increment(n) == IF n < MissThreshold THEN n + 1 ELSE n

\* Fault: an existing row keeps its status.
UpsertHost_KeepsStatus(ip) ==
  /\ status' = IF status[ip] = "none" THEN [status EXCEPT ![ip] = "up"] ELSE status
  /\ miss' = [miss EXCEPT ![ip] = 0]

\* UpsertHost: an existing row is up again, a new one is born up.
UpsertHost(ip) ==
  /\ status' = [status EXCEPT ![ip] = "up"]
  /\ miss' = [miss EXCEPT ![ip] = 0]

\* Fault: a hint starts the count afresh.
UpsertUnconfirmedHost_ResetsMiss(ip) ==
  /\ status' = IF status[ip] = "none" THEN [status EXCEPT ![ip] = "unknown"] ELSE status
  /\ miss' = [miss EXCEPT ![ip] = 0]

\* UpsertUnconfirmedHost and ImportHost: an existing row keeps status and
\* count, a new one is born unknown.
UpsertUnconfirmedHost(ip) ==
  IF status[ip] = "none"
  THEN /\ status' = [status EXCEPT ![ip] = "unknown"]
       /\ miss' = [miss EXCEPT ![ip] = 0]
  ELSE UNCHANGED <<status, miss>>

\* ConfirmHostUp, by row id: no row with that id, no change, no error.
ConfirmHostUp(ip) ==
  IF ip \in holds THEN UpsertHost(ip) ELSE UNCHANGED <<status, miss>>

Born(ip, who) == IF status[ip] = "none" THEN [origin EXCEPT ![ip] = who] ELSE origin

-----------------------------------------------------------------------------
(* A cycle.                                                                *)

StartCycle(m) ==
  /\ phase = "idle"
  /\ method' = m
  /\ phase' = IF m = "rdns" THEN "dns" ELSE "probe"
  /\ stage' = [ip \in IPs |-> IF ip \notin Expanded THEN "unseen"
                              ELSE IF m = "rdns" THEN "silent" ELSE "todo"]
  /\ holds' = {}
  /\ edits' = IF m = "rdns" THEN edits + 1 ELSE edits
  /\ (m = "rdns") => edits < MaxEdits
  /\ UNCHANGED <<rows, wentDown, live, history, flips, faults>>

\* isAlive, or netdiscover's ARP sweep.
ProbeHost(ip) ==
  /\ phase = "probe"
  /\ stage[ip] = "todo"
  /\ IF live[ip] = "answers"
     THEN stage' = [stage EXCEPT ![ip] = "answered"] /\ UNCHANGED quiet
     ELSE /\ stage' = [stage EXCEPT ![ip] = "silent"]
          /\ quiet' = [quiet EXCEPT ![ip] = Increment(@)]
  /\ UNCHANGED <<rows, method, phase, holds, wentDown, live, origin, proven, lost, limits>>

\* recordHost: the prober records an address as soon as it answers, the nmap
\* path after discovery and reverse DNS are through.
RecordHost(ip) ==
  /\ phase = IF method = "tcp" THEN "probe" ELSE "record"
  /\ stage[ip] = "answered"
  /\ UpsertHost(ip)
  /\ stage' = [stage EXCEPT ![ip] = IF status[ip] = "none" THEN "greetUp" ELSE "seen"]
  /\ holds' = holds \cup {ip}
  /\ origin' = Born(ip, "scan")
  /\ proven' = proven \cup {ip}
  /\ quiet' = [quiet EXCEPT ![ip] = 0]
  /\ UNCHANGED <<lastEvent, method, phase, wentDown, live, lost, limits>>

\* The new_host event, logged with the id of the row the goroutine inserted.
EmitNewHost(ip) ==
  /\ stage[ip] \in {"greetUp", "greetHint"}
  /\ stage' = [stage EXCEPT ![ip] = IF @ = "greetUp" THEN "seen" ELSE "hinted"]
  /\ lastEvent' = IF ip \in holds THEN [lastEvent EXCEPT ![ip] = "new_host"] ELSE lastEvent
  /\ UNCHANGED <<status, miss, method, phase, holds, wentDown, live, history, limits>>

\* Discovery is through.
ProbesDone ==
  /\ phase = "probe"
  /\ All({"silent", "seen", "unseen"} \cup IF method = "nmap" THEN {"answered"} ELSE {})
  /\ phase' = "dns"
  /\ UNCHANGED <<rows, method, stage, holds, wentDown, live, history, limits>>

\* Fault: the pass ignores that it inserted the row.
ResolvePTR_Silent(ip) ==
  /\ phase = "dns"
  /\ stage[ip] = "silent"
  /\ \/ /\ ip \in WithPTR
        /\ UpsertUnconfirmedHost(ip)
        /\ stage' = [stage EXCEPT ![ip] = "hinted"]
        /\ holds' = holds \cup {ip}
        /\ origin' = Born(ip, "scan")
     \/ /\ stage' = [stage EXCEPT ![ip] = "unseen"]
        /\ UNCHANGED <<status, miss, holds, origin>>
  /\ UNCHANGED <<lastEvent, method, phase, wentDown, live, proven, quiet, lost, limits>>

\* reverseDNSSweep over the addresses nothing answered at: a PTR record is
\* recorded; without one, or without the tools, the address is left alone.
ResolvePTR(ip) ==
  /\ phase = "dns"
  /\ stage[ip] = "silent"
  /\ \/ /\ ip \in WithPTR
        /\ UpsertUnconfirmedHost(ip)
        /\ stage' = [stage EXCEPT ![ip] = IF status[ip] = "none" THEN "greetHint" ELSE "hinted"]
        /\ holds' = holds \cup {ip}
        /\ origin' = Born(ip, "scan")
     \/ /\ stage' = [stage EXCEPT ![ip] = "unseen"]
        /\ UNCHANGED <<status, miss, holds, origin>>
  /\ UNCHANGED <<lastEvent, method, phase, wentDown, live, proven, quiet, lost, limits>>

\* The port scan of a PTR hit: only an open port confirms the host.  A host
\* that answers discovery may still have none of the probed ports open.
ConfirmByPort(ip) ==
  /\ phase = "dns"
  /\ stage[ip] = "hinted"
  /\ \/ /\ live[ip] # "silent"
        /\ ConfirmHostUp(ip)
        /\ stage' = [stage EXCEPT ![ip] = IF method = "nmap" THEN "confirmed" ELSE "seen"]
        /\ proven' = proven \cup {ip}
        /\ quiet' = [quiet EXCEPT ![ip] = 0]
     \/ /\ live[ip] # "port"
        /\ stage' = [stage EXCEPT ![ip] = "unseen"]
        /\ UNCHANGED <<status, miss, proven, quiet>>
  /\ UNCHANGED <<lastEvent, method, phase, holds, wentDown, live, origin, lost, limits>>

\* Fault: a reverse-DNS cycle sweeps like the others.
DNSDone_Sweeps ==
  /\ phase = "dns"
  /\ All({"answered", "confirmed", "seen", "unseen"})
  /\ phase' = IF method = "nmap" THEN "record" ELSE "sweep"
  /\ UNCHANGED <<rows, method, stage, holds, wentDown, live, history, limits>>

\* The reverse-DNS pass is through.  A reverse-DNS cycle ends here; nmap's path
\* has its answered hosts left to record.
DNSDone ==
  /\ phase = "dns"
  /\ All({"answered", "confirmed", "seen", "unseen"})
  /\ phase' = CASE method = "rdns" -> "idle"
                [] method = "nmap" -> "record"
                [] OTHER -> "sweep"
  /\ UNCHANGED <<rows, method, stage, holds, wentDown, live, history, limits>>

\* foldDNSConfirmed: the hosts the reverse-DNS pass confirmed join seen; one
\* whose MAC the ARP table knows is upserted by address once more, isNew ignored.
FoldDNSConfirmed(ip) ==
  /\ phase = "record"
  /\ stage[ip] = "confirmed"
  /\ stage' = [stage EXCEPT ![ip] = "seen"]
  /\ \/ UpsertHost(ip) /\ origin' = Born(ip, "enrichment")
     \/ UNCHANGED <<status, miss, origin>>
  /\ UNCHANGED <<lastEvent, method, phase, holds, wentDown, live, proven, quiet, lost, limits>>

RecordsDone ==
  /\ phase = "record"
  /\ All({"seen", "unseen"})
  /\ phase' = "sweep"
  /\ UNCHANGED <<rows, method, stage, holds, wentDown, live, history, limits>>

\* Fault: any row that is missed often enough goes down.
GoesDown_AnyStatus(ip) == miss[ip] + 1 >= MissThreshold

\* SweepMissingHosts over every row of the subnet that is not in seen.
Missing == {ip \in IPs : status[ip] # "none" /\ stage[ip] # "seen"}
GoesDown(ip) == status[ip] = "up" /\ miss[ip] + 1 >= MissThreshold

SweepMissingHosts ==
  /\ phase = "sweep"
  /\ miss' = [ip \in IPs |-> IF ip \in Missing THEN Increment(miss[ip]) ELSE miss[ip]]
  /\ status' = [ip \in IPs |-> IF ip \in Missing /\ GoesDown(ip) THEN "down" ELSE status[ip]]
  /\ wentDown' = {ip \in Missing : GoesDown(ip)}
  /\ phase' = "events"
  /\ UNCHANGED <<lastEvent, method, stage, holds, live, history, limits>>

\* emitHostDownEvents, one row after the other; a row deleted since is skipped.
EmitHostDown(ip) ==
  /\ phase = "events"
  /\ ip \in wentDown
  /\ lastEvent' = [lastEvent EXCEPT ![ip] = "host_down"]
  /\ wentDown' = wentDown \ {ip}
  /\ UNCHANGED <<status, miss, method, phase, stage, holds, live, history, limits>>

\* Fault: the cycle ends before the events are out.
SweepDone_Early ==
  /\ phase = "events"
  /\ wentDown' = {}
  /\ phase' = IF method = "nmap" THEN "enrich" ELSE "idle"
  /\ UNCHANGED <<rows, method, stage, holds, live, history, limits>>

SweepDone ==
  /\ phase = "events"
  /\ wentDown = {}
  /\ phase' = IF method = "nmap" THEN "enrich" ELSE "idle"
  /\ UNCHANGED <<rows, method, stage, holds, wentDown, live, history, limits>>

\* nmap's report on a host this cycle recorded gives a MAC or vendor: UpsertHost
\* by address, its isNew ignored.
EnrichHost(ip) ==
  /\ phase = "enrich"
  /\ stage[ip] = "seen"
  /\ UpsertHost(ip)
  /\ origin' = Born(ip, "enrichment")
  /\ UNCHANGED <<lastEvent, cycle, live, proven, quiet, lost, limits>>

EnrichmentDone ==
  /\ phase = "enrich"
  /\ phase' = "idle"
  /\ UNCHANGED <<rows, method, stage, holds, wentDown, live, history, limits>>

-----------------------------------------------------------------------------
(* Store calls of a cycle that fail.  Each is logged and the scan goes on.  *)
(* In ResolvePTR, FoldDNSConfirmed and EnrichHost a failure is as good as   *)
(* no PTR record, MAC or report.                                            *)

Fault == faults < MaxFaults /\ faults' = faults + 1

\* recordHost fails: the prober has seen the host all the same, and leaves its
\* row; the nmap path leaves it out of seen, so that the sweep counts a miss.
RecordFails(ip) ==
  /\ Fault
  /\ phase = IF method = "tcp" THEN "probe" ELSE "record"
  /\ stage[ip] = "answered"
  /\ proven' = proven \cup {ip}
  /\ \/ method = "tcp" /\ stage' = [stage EXCEPT ![ip] = "seen"] /\ UNCHANGED quiet
     \/ /\ method # "tcp" /\ stage' = [stage EXCEPT ![ip] = "unseen"]
        /\ quiet' = [quiet EXCEPT ![ip] = Increment(@)]
  /\ UNCHANGED <<rows, method, phase, holds, wentDown, live, origin, lost, flips, edits>>

\* ConfirmHostUp fails: the open port counts for nothing in this cycle.
ConfirmFails(ip) ==
  /\ Fault
  /\ phase = "dns"
  /\ stage[ip] = "hinted" /\ live[ip] # "silent"
  /\ stage' = [stage EXCEPT ![ip] = "unseen"]
  /\ UNCHANGED <<rows, method, phase, holds, wentDown, live, history, flips, edits>>

\* AddEvent fails, or GetHost before it: nobody makes up for the event.
EmitFails(ip) ==
  /\ Fault
  /\ \/ /\ stage[ip] \in {"greetUp", "greetHint"}
        /\ stage' = [stage EXCEPT ![ip] = IF @ = "greetUp" THEN "seen" ELSE "hinted"]
        /\ UNCHANGED wentDown
     \/ /\ phase = "events" /\ ip \in wentDown
        /\ wentDown' = wentDown \ {ip}
        /\ UNCHANGED stage
  /\ lost' = lost \cup ({ip} \cap (holds \cup wentDown))
  /\ UNCHANGED <<rows, method, phase, holds, live, origin, proven, quiet, flips, edits>>

\* The sweep is an UPDATE per row outside of any transaction.  One that fails
\* leaves the rows before it counted, here done, and what went down among them
\* is not returned.  A process that ends half-way leaves the same.
SweepFails(done) ==
  /\ Fault
  /\ phase = "sweep"
  /\ done \subseteq Missing
  /\ miss' = [ip \in IPs |-> IF ip \in done THEN Increment(miss[ip]) ELSE miss[ip]]
  /\ status' = [ip \in IPs |-> IF ip \in done /\ GoesDown(ip) THEN "down" ELSE status[ip]]
  /\ lost' = lost \cup {ip \in done : GoesDown(ip)}
  /\ phase' = "events"
  /\ UNCHANGED <<lastEvent, method, stage, holds, wentDown, live, origin, proven, quiet,
                 flips, edits>>

-----------------------------------------------------------------------------
(* The HTTP handlers.                                                      *)

Edit == edits < MaxEdits /\ edits' = edits + 1

\* createHost: AddManualHost refuses an address that has a row; its new_host
\* event follows in the same handler.
AddManualHost(ip) ==
  /\ Edit
  /\ status[ip] = "none"
  /\ UpsertHost(ip)
  /\ lastEvent' = [lastEvent EXCEPT ![ip] = "new_host"]
  /\ origin' = Born(ip, "operator")
  /\ proven' = proven \cup {ip}
  /\ UNCHANGED <<cycle, live, quiet, lost, flips, faults>>

\* importHosts and importDNSReconAddresses.
ImportHost(ip) ==
  /\ Edit
  /\ UpsertUnconfirmedHost(ip)
  /\ origin' = Born(ip, "operator")
  /\ UNCHANGED <<lastEvent, cycle, live, proven, quiet, lost, flips, faults>>

\* importNmapHosts: the file's hosts count as live.
ImportNmapHost(ip) ==
  /\ Edit
  /\ UpsertHost(ip)
  /\ origin' = Born(ip, "operator")
  /\ proven' = proven \cup {ip}
  /\ UNCHANGED <<lastEvent, cycle, live, quiet, lost, flips, faults>>

\* DeleteHost of one row, ClearAllHosts of all: ids the cycle still holds are
\* dead, and an outstanding host_down finds no row.
DeleteHosts(gone) ==
  /\ Edit
  /\ \A ip \in gone : status[ip] # "none"
  /\ status' = [ip \in IPs |-> IF ip \in gone THEN "none" ELSE status[ip]]
  /\ miss' = [ip \in IPs |-> IF ip \in gone THEN 0 ELSE miss[ip]]
  /\ lastEvent' = [ip \in IPs |-> IF ip \in gone THEN "none" ELSE lastEvent[ip]]
  /\ origin' = [ip \in IPs |-> IF ip \in gone THEN "none" ELSE origin[ip]]
  /\ holds' = holds \ gone
  /\ wentDown' = wentDown \ gone
  /\ lost' = lost \ gone
  /\ UNCHANGED <<method, phase, stage, live, proven, quiet, flips, faults>>

-----------------------------------------------------------------------------
(* The environment.                                                        *)

Flip(ip) ==
  /\ flips < MaxFlips
  /\ \E l \in {"silent", "port", "answers"} \ {live[ip]} : live' = [live EXCEPT ![ip] = l]
  /\ flips' = flips + 1
  /\ UNCHANGED <<rows, cycle, history, edits, faults>>

CrashAndRestart ==
  /\ Fault
  /\ phase' = "idle"
  /\ stage' = [ip \in IPs |-> "none"]
  /\ holds' = {} /\ wentDown' = {}
  /\ lost' = lost \cup wentDown
                  \cup {ip \in holds : stage[ip] \in {"greetUp", "greetHint"}}
  /\ UNCHANGED <<rows, method, live, origin, proven, quiet, flips, edits>>

-----------------------------------------------------------------------------
HostStep(ip) ==
  \/ ProbeHost(ip) \/ RecordHost(ip) \/ EmitNewHost(ip) \/ ResolvePTR(ip)
  \/ ConfirmByPort(ip) \/ FoldDNSConfirmed(ip) \/ EmitHostDown(ip)
PhaseStep ==
  ProbesDone \/ DNSDone \/ RecordsDone \/ SweepMissingHosts \/ SweepDone \/ EnrichmentDone
FaultStep(ip) == RecordFails(ip) \/ ConfirmFails(ip) \/ EmitFails(ip)
EditStep(ip) == AddManualHost(ip) \/ ImportHost(ip) \/ ImportNmapHost(ip) \/ DeleteHosts({ip})
ClearAllHosts == DeleteHosts({ip \in IPs : status[ip] # "none"})

Next ==
  \/ \E m \in {"tcp", "nmap", "rdns"} : StartCycle(m)
  \/ \E ip \in IPs : HostStep(ip) \/ EnrichHost(ip) \/ EditStep(ip) \/ FaultStep(ip) \/ Flip(ip)
  \/ \E done \in SUBSET Missing : SweepFails(done)
  \/ PhaseStep \/ ClearAllHosts \/ CrashAndRestart

Spec == Init /\ [][Next]_vars

\* The goroutines of a cycle run, and the ticker keeps starting regular cycles.
Fairness ==
  /\ \A ip \in IPs : WF_vars(HostStep(ip))
  /\ WF_vars(PhaseStep)
  /\ WF_vars(StartCycle("tcp") \/ StartCycle("nmap"))

FairSpec == Spec /\ Fairness

-----------------------------------------------------------------------------
(* Properties.                                                             *)

\* All of the scanner and the handlers only ever hint at, confirm, miss or
\* forget a host.
Abstract == INSTANCE HostStatus
ImplementsHostStatus == Abstract!Spec

\* Only discovery that really asked takes a host down: every address that is
\* down left that many probes in a row unanswered, or had answers that could not
\* be recorded, whatever imports, deletes, reverse-DNS cycles, half-done sweeps
\* and restarts came between (SweepMissingHosts).
DownMeansSilent ==
  \A ip \in Expanded : status[ip] = "down" => quiet[ip] >= MissThreshold

\* An address known from PTR records and imported maps only, which nothing
\* ever answered at and nobody vouched for, is neither up nor down.
HintsProveNothing ==
  \A ip \in IPs : status[ip] \in {"up", "down"} => ip \in proven

\* Every host that is down has been announced: its last event is host_down, or
\* that event is on its way, or a crash or a failing call cut it off
\* (emitHostDownEvents).
DownAnnounced ==
  \A ip \in IPs :
    status[ip] = "down" => lastEvent[ip] = "host_down" \/ ip \in wentDown \cup lost

\* Every row a scan inserts through recordHost or the reverse-DNS pass has its
\* new_host event, or is about to.
NewHostAnnounced ==
  \A ip \in IPs :
    origin[ip] = "scan" =>
      \/ lastEvent[ip] # "none" \/ ip \in lost
      \/ ip \in holds /\ stage[ip] \in {"greetUp", "greetHint"}

\* A host that stays silent is not shown as up for ever.
SilentGoesDown ==
  \A ip \in IPs : <>[](live[ip] = "silent") => <>[](status[ip] # "up")

\* A host that keeps answering is found, and comes back from down or unknown.
AnsweringComesUp ==
  \A ip \in Expanded : <>[](live[ip] = "answers") => <>[](status[ip] = "up")

-----------------------------------------------------------------------------
(* What the comments and docs promise and the code does not do.            *)

\* internal/discovery/scanner.go:810-813: merging nmap's MAC and vendor "only ever
\* fills in" what is missing.  Neither merge inserts a host.
MergesOnlyFillIn == \A ip \in IPs : origin[ip] # "enrichment"

=============================================================================
