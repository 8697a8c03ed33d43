-------------------------------- MODULE Sweep --------------------------------
(***************************************************************************)
(* Discovery of the live hosts of a subnet: ExpandIPv4 lists the addresses *)
(* of the range, a bounded number of goroutines call isAlive for one each, *)
(* and isAlive sends a ping and TCP probes all at once and answers with    *)
(* the first that is positive, leaving the others to themselves.           *)
(*                                                                         *)
(* Addresses are numbers of Width bits.  discoverAliveHosts of the nmap    *)
(* path and the loop of scanSubnetTCP run the same pool.                   *)
(***************************************************************************)
EXTENDS Pinger, Integers, Sequences

CONSTANTS
  Width,              \* bits of an address, 32 in the program
  Ranges,             \* subnets that may be swept: <<first address, host bits>>
  MaxHostsPerSubnet,
  DiscoveryPorts,
  HostConcurrency

\* With a concurrency of 0 the semaphore would let nobody in.
ASSUME ConcurrencyAssumption == HostConcurrency \in Nat \ {0}
ASSUME WidthAssumption == Width \in Nat /\ MaxHostsPerSubnet \in Nat

VARIABLES
  range,      \* the subnet
  next,       \* place of the next address to start
  caller,     \* where the isAlive of each address is
  probe,      \* where each of its TCP probes is
  icmp,       \* where the goroutine of its ping is
  found,      \* its channel of capacity 1 holds a value
  alive,      \* the result so far
  returned,
  \* history
  hits        \* addresses a probe of which came back positive

sweep == <<range, next, caller, probe, icmp, found, alive, returned, hits>>
vars == <<socket, seq, waiters, at, number, ok, token, reader, listening, sent, heard,
          shared, others, range, next, caller, probe, icmp, found, alive, returned, hits>>

Stages == {"off", "running", "positive", "ended"}

-----------------------------------------------------------------------------
(* ExpandIPv4.                                                             *)

\* 1 << n
Total[n \in 0 .. Width] == IF n = 0 THEN 1 ELSE 2 * Total[n - 1]

\* Fault: the first and the last address go in a /31 too.
Usable_Every(i, bits) == bits = 0 \/ (i # 0 /\ i # Total[bits] - 1)

\* A /31 and a /32 have neither network nor broadcast address.
Usable(i, bits) == bits < 2 \/ (i # 0 /\ i # Total[bits] - 1)

\* The range starts at the masked address; out[i] is the list after i rounds.
ExpandIPv4(ip, bits) ==
  LET start == ip - (ip % Total[bits])
      out[i \in 0 .. Total[bits]] ==
        IF i = 0 THEN <<>>
        ELSE LET before == out[i - 1] IN
             IF Len(before) < MaxHostsPerSubnet /\ Usable(i - 1, bits)
             THEN Append(before, start + (i - 1)) ELSE before IN
  out[Total[bits]]

ASSUME RangeAssumption ==
  \A r \in Ranges : r[1] \in 0 .. Total[Width] - 1 /\ r[2] \in 0 .. Width

\* A range is expanded once, before the first address is probed.
Lists == [r \in Ranges |-> ExpandIPv4(r[1], r[2])]

ASSUME AddressesAssumption ==
  \A r \in Ranges : \A i \in DOMAIN Lists[r] : Lists[r][i] \in Addresses

ips == Lists[range]

-----------------------------------------------------------------------------
(* isAlive and the pool.                                                   *)

TypeOK ==
  /\ PingerTypeOK
  /\ range \in Ranges
  /\ next \in Nat \ {0}
  /\ caller \in [Addresses -> {"off", "running", "ended"}]
  /\ probe \in [Addresses -> [DiscoveryPorts -> Stages]]
  /\ icmp \in [Addresses -> Stages]
  /\ found \in [Addresses -> BOOLEAN]
  /\ alive \subseteq Addresses /\ hits \subseteq Addresses
  /\ returned \in BOOLEAN

Init ==
  /\ PingerInit
  /\ range \in Ranges
  /\ next = 1
  /\ caller = [a \in Addresses |-> "off"]
  /\ probe = [a \in Addresses |-> [p \in DiscoveryPorts |-> "off"]]
  /\ icmp = [a \in Addresses |-> "off"]
  /\ found = [a \in Addresses |-> FALSE]
  /\ alive = {} /\ returned = FALSE /\ hits = {}

\* Fault: the goroutine of a silent address returns before it frees its slot.
Running_SilentKeepsSlot ==
  {a \in Addresses : caller[a] = "running" \/ (caller[a] = "ended" /\ a \notin alive)}

Running == {a \in Addresses : caller[a] = "running"}

\* A slot of the semaphore is free, and isAlive starts all its probes.
StartHost ==
  /\ next \in DOMAIN ips
  /\ Cardinality(Running) < HostConcurrency
  /\ LET a == ips[next] IN
     /\ caller' = [caller EXCEPT ![a] = "running"]
     /\ probe' = [probe EXCEPT ![a] = [p \in DiscoveryPorts |-> "running"]]
     /\ icmp' = [icmp EXCEPT ![a] = IF socket = "none" THEN "ended" ELSE "running"]
     /\ at' = [at EXCEPT ![a] = IF socket = "none" THEN "done" ELSE "called"]
  /\ next' = next + 1
  /\ UNCHANGED <<socket, seq, waiters, number, ok, token, reader, listening, sent,
                 heard, shared, others, range, found, alive, returned, hits>>

\* The ping returns to its goroutine.
PingReturns(a) ==
  /\ Leave(a)
  /\ icmp' = [icmp EXCEPT ![a] = IF ok[a] THEN "positive" ELSE "ended"]
  /\ hits' = IF ok[a] THEN hits \cup {a} ELSE hits
  /\ UNCHANGED <<range, next, caller, probe, found, alive, returned>>

\* Fault: an error of any kind counts as refused.
ProbeTCP_AnyError(a, p) ==
  /\ probe[a][p] = "running"
  /\ probe' = [probe EXCEPT ![a][p] = "positive"]
  /\ hits' = hits \cup {a}
  /\ heard' = heard \/ heard' = heard \cup {a}
  /\ UNCHANGED <<socket, pings, reader, listening, sent, range, next, caller, icmp,
                 found, alive, returned>>

\* A connection that is made or refused is an answer; else it times out.
ProbeTCP(a, p) ==
  /\ probe[a][p] = "running"
  /\ \/ /\ probe' = [probe EXCEPT ![a][p] = "positive"]
        /\ heard' = heard \cup {a} /\ hits' = hits \cup {a}
     \/ /\ probe' = [probe EXCEPT ![a][p] = "ended"]
        /\ UNCHANGED <<heard, hits>>
  /\ UNCHANGED <<socket, pings, reader, listening, sent, range, next, caller, icmp,
                 found, alive, returned>>

\* A positive probe puts a value in the channel unless there is one, and ends.
Report(a) ==
  /\ \/ icmp[a] = "positive" /\ icmp' = [icmp EXCEPT ![a] = "ended"] /\ probe' = probe
     \/ \E p \in DiscoveryPorts :
          /\ probe[a][p] = "positive" /\ icmp' = icmp
          /\ probe' = [probe EXCEPT ![a][p] = "ended"]
  /\ found' = [found EXCEPT ![a] = caller[a] # "ended"]
  /\ UNCHANGED <<pinger, range, next, caller, alive, returned, hits>>

\* All probes have ended, and done is closed.
Closed(a) == icmp[a] = "ended" /\ \A p \in DiscoveryPorts : probe[a][p] = "ended"

\* Fault: when done is closed the channel is not looked at again.
Verdict_NoSecondLook(a, positive) ==
  \/ positive /\ found[a]
  \/ ~ positive /\ Closed(a)

\* The select of isAlive; once done is closed found decides.
Verdict(a, positive) ==
  \/ positive /\ found[a]
  \/ ~ positive /\ Closed(a) /\ ~ found[a]

\* isAlive returns, and its goroutine records the address and frees the slot.
Judge(a) ==
  /\ caller[a] = "running"
  /\ caller' = [caller EXCEPT ![a] = "ended"]
  /\ \/ Verdict(a, TRUE) /\ alive' = alive \cup {a}
     \/ Verdict(a, FALSE) /\ alive' = alive
  /\ found' = [found EXCEPT ![a] = FALSE]
  /\ UNCHANGED <<pinger, range, next, probe, icmp, returned, hits>>

\* wg.Wait
Return ==
  /\ next \notin DOMAIN ips /\ Running = {} /\ ~ returned
  /\ returned' = TRUE
  /\ UNCHANGED <<pinger, range, next, caller, probe, icmp, found, alive, hits>>

Goroutine(a) ==
  \/ PingStep(a) /\ UNCHANGED sweep
  \/ PingReturns(a)
  \/ \E p \in DiscoveryPorts : ProbeTCP(a, p)
  \/ Report(a)

Next ==
  \/ StartHost \/ Return
  \/ \E a \in Addresses : Goroutine(a) \/ Judge(a)
  \/ (ReaderStep \/ OtherPing) /\ UNCHANGED sweep

\* As long as a goroutine can run some goroutine does, and a wait for the network
\* ends with its timeout; nothing is assumed of the network or the read loop.
Fairness ==
  WF_vars(StartHost \/ Return \/ \E a \in Addresses : Goroutine(a) \/ Judge(a))

Spec == Init /\ [][Next]_vars /\ Fairness

-----------------------------------------------------------------------------
(* Properties.                                                             *)

\* A ping in flight has its entry in waiters, where a reply will find it, unless
\* the numbers came round and two pings had the same; and no entry stays behind
\* for a ping that has returned.
WaitersExact ==
  /\ \A a \in Addresses : InFlight(a) /\ a \notin shared => waiters[number[a]] = a
  /\ \A n \in DOMAIN waiters : waiters[n] # Nobody =>
       InFlight(waiters[n]) /\ number[waiters[n]] = n

\* An address is taken for alive only if it has answered this program: late and
\* repeated replies to others, pings of other processes and numbers that come
\* round never count for it.
AliveWasHeard ==
  /\ alive \subseteq heard
  /\ \A a \in Addresses : ok[a] => a \in heard

\* An address is judged silent only if every one of its probes has come back
\* negative: a positive one is not lost to those that end at the same moment.
SilentIsSilent ==
  \A a \in Addresses : caller[a] = "ended" /\ a \notin alive => a \notin hits

\* A sweep probes no address outside of its range, no network or broadcast
\* address, and all others up to the cap, each once; whatever the range.
Expected(list, ip, bits) ==
  LET size == Total[bits]
      block == {a \in 0 .. Total[Width] - 1 : a \div size = ip \div size}
      hosts == IF size <= 2 THEN block
               ELSE {a \in block : a % size # 0 /\ a % size # (size - 1)}
      listed == {list[i] : i \in DOMAIN list} IN
  /\ listed \subseteq hosts /\ Cardinality(listed) = Len(list)
  /\ hosts = listed \/ (Len(list) = MaxHostsPerSubnet /\ Len(list) < Cardinality(hosts))
EveryRange ==
  \A ip \in 0 .. Total[Width] - 1, bits \in 0 .. Width :
    Expected(ExpandIPv4(ip, bits), ip, bits)
RangeCovered ==
  /\ EveryRange
  /\ \A a \in Addresses :
       caller[a] = "off" <=> \A i \in 1 .. next - 1 : ips[i] # a

\* The sweep returns however many addresses are silent, and what is left of its
\* pings and probes by then ends too, and with it every entry in waiters.
SweepEnds ==
  <>[](/\ returned
       /\ \A n \in DOMAIN waiters : waiters[n] = Nobody
       /\ \A a \in Addresses : caller[a] # "off" => Closed(a))

\* A sweep is a census of its range.
Sought == {ips[i] : i \in DOMAIN ips} \ {a \in Addresses : caller[a] = "ended"}
Result == INSTANCE Census WITH open <- Sought
SweepIsCensus == Result!Spec

=============================================================================
