------------------------------ MODULE MCBackup ------------------------------
(* An instance of Backup for TLC. *)
EXTENDS Backup

CONSTANTS c24, c25, ip1, http, n1, n2, blank, auto, tcp, noFile

\* Two subnets that overlap, as a /24 and a /25 do.
MCCidrs == {c24, c25}
MCIPs == {ip1}
MCPorts == {http}
MCNames == {n1, n2, blank}
MCMethods == {auto, tcp}
MCWithin == [ip \in MCIPs |-> {c24, c25}]
MCSlash24 == [ip \in MCIPs |-> c24]
MCScanned == {[ip |-> ip1, name |-> n2, ports |-> {}],
              [ip |-> ip1, name |-> blank, ports |-> {http}]}

\* One subnet is scanned and one excluded; each has a host.
UsedDb ==
  [subnets |-> {[id |-> 1, cidr |-> c24, enabled |-> TRUE],
                [id |-> 2, cidr |-> c25, enabled |-> FALSE]},
   hosts |-> {[id |-> 3, subnet |-> 1, ip |-> ip1, name |-> n1],
              [id |-> 4, subnet |-> 2, ip |-> ip1, name |-> blank]},
   ports |-> {[host |-> 3, port |-> http, open |-> TRUE],
              [host |-> 4, port |-> http, open |-> FALSE]},
   tags |-> {5}, links |-> {<<3, 5>>}, method |-> tcp]

MCSaved == {UsedDb}
=============================================================================
