------------------------------ MODULE Inventory ------------------------------
(***************************************************************************)
(* The tables of the store that hang together: subnets, their hosts, the   *)
(* hosts' ports and tags, and the scan method among the settings; with the *)
(* edits the handlers and the scanner make to them.                        *)
(*                                                                         *)
(* A database d is a record of sets of rows, and a store call is an        *)
(* operator from databases to databases.  Store.mu makes each one step.    *)
(* SQLite keeps the UNIQUE and REFERENCES clauses of the schema: an insert *)
(* that breaks one fails and changes nothing, which its guard says here,   *)
(* and ON DELETE CASCADE is spelled out in DropHosts and DropSubnet.       *)
(*                                                                         *)
(* Ids are AUTOINCREMENT and never come back; the tables share one         *)
(* counter here, and every reference names the table it points into.       *)
(* A host's name stands for the columns an import fills in (hostname, MAC, *)
(* vendor); a subnet's hidden goes the way of enabled and is left out.     *)
(***************************************************************************)
EXTENDS Naturals

CONSTANTS
  Cidrs,        \* subnets by their CIDR
  IPs,          \* addresses
  PortNumbers,
  Names, Blank, \* host names, Blank for an empty column
  Methods,      \* scan methods
  Saved,        \* databases the process may be started on
  LastId,       \* the last id handed out in them
  MaxEdits      \* bound: how many edits handlers and scanner make

VARIABLES
  db,           \* the database
  serial,       \* the last id handed out
  edits

inventory == <<db, serial, edits>>

Ids(rows) == {r.id : r \in rows}
RowOf(rows, id) == CHOOSE r \in rows : r.id = id
CidrIn(d, id) == RowOf(d.subnets, id).cidr

Subnet == [id : Nat, cidr : Cidrs, enabled : BOOLEAN]
Host == [id : Nat, subnet : Nat, ip : IPs, name : Names]
Port == [host : Nat, port : PortNumbers, open : BOOLEAN]
Database == [subnets : SUBSET Subnet, hosts : SUBSET Host, ports : SUBSET Port,
             tags : SUBSET Nat, links : SUBSET (Nat \X Nat), method : Methods]

\* No row points at a row that is gone, and keys are unique.
References(d) ==
  /\ \A h \in d.hosts : h.subnet \in Ids(d.subnets)
  /\ \A p \in d.ports : p.host \in Ids(d.hosts)
  /\ \A l \in d.links : l[1] \in Ids(d.hosts) /\ l[2] \in d.tags
Keys(d) ==
  /\ \A s, t \in d.subnets : s.id = t.id \/ s.cidr = t.cidr => s = t
  /\ \A g, h \in d.hosts :
       g.id = h.id \/ (g.subnet = h.subnet /\ g.ip = h.ip) => g = h
  /\ \A p, q \in d.ports : p.host = q.host /\ p.port = q.port => p = q
IdsUpTo(d, n) ==
  \A i \in Ids(d.subnets) \cup Ids(d.hosts) \cup d.tags : i \in 1 .. n

ASSUME NamesAssumption == Blank \in Names
ASSUME SavedAssumption ==
  \A d \in Saved :
    d \in Database /\ References(d) /\ Keys(d) /\ IdsUpTo(d, LastId)
ASSUME BoundAssumption == LastId \in Nat /\ MaxEdits \in Nat

Open ==
  /\ db \in Saved
  /\ serial = LastId
  /\ edits = 0

-----------------------------------------------------------------------------
(* Store calls.  new is the id an insert would get.                        *)

InsertSubnet(d, c, new) ==
  [d EXCEPT !.subnets = @ \cup {[id |-> new, cidr |-> c, enabled |-> TRUE]}]

\* Fault: an existing subnet is included again.
UpsertAutoSubnet_Reenables(d, c, new) ==
  IF \E s \in d.subnets : s.cidr = c
  THEN [d EXCEPT !.subnets =
          {IF s.cidr = c THEN [s EXCEPT !.enabled = TRUE] ELSE s : s \in @}]
  ELSE InsertSubnet(d, c, new)

UpsertAutoSubnet(d, c, new) ==
  IF \E s \in d.subnets : s.cidr = c THEN d ELSE InsertSubnet(d, c, new)

SetSubnetEnabled(d, id, on) ==
  [d EXCEPT !.subnets =
     {IF s.id = id THEN [s EXCEPT !.enabled = on] ELSE s : s \in @}]

InsertHost(d, sn, ip, name, new) ==
  [d EXCEPT !.hosts = @ \cup {[id |-> new, subnet |-> sn, ip |-> ip, name |-> name]}]

HostsAt(d, sn, ip) == {h \in d.hosts : h.subnet = sn /\ h.ip = ip}

NameHost(d, id, name) ==
  [d EXCEPT !.hosts = {IF h.id = id THEN [h EXCEPT !.name = name] ELSE h : h \in @}]

\* What a scan or an nmap file says of a host replaces what was there, unless
\* it is empty.
UpsertHost(d, sn, ip, name, new) ==
  IF HostsAt(d, sn, ip) = {} THEN InsertHost(d, sn, ip, name, new)
  ELSE IF name = Blank THEN d
  ELSE NameHost(d, (CHOOSE h \in HostsAt(d, sn, ip) : TRUE).id, name)

\* Fault: a file's name replaces the one in the row, as a scan's does.
ImportHost_Clobbers(d, sn, ip, name, new) == UpsertHost(d, sn, ip, name, new)

\* A file only fills in what is empty.
ImportHost(d, sn, ip, name, new) ==
  IF HostsAt(d, sn, ip) = {} THEN InsertHost(d, sn, ip, name, new)
  ELSE [d EXCEPT !.hosts =
          {IF h \in HostsAt(d, sn, ip) /\ h.name = Blank
           THEN [h EXCEPT !.name = name] ELSE h : h \in @}]

PortsAt(d, h, p) == {q \in d.ports : q.host = h /\ q.port = p}

\* A port that is recorded is open from now on.
UpsertPort(d, h, p) ==
  [d EXCEPT !.ports = (@ \ PortsAt(d, h, p))
                        \cup {[host |-> h, port |-> p, open |-> TRUE]}]

ClosePort(d, h, p) ==
  [d EXCEPT !.ports = {IF q \in PortsAt(d, h, p) THEN [q EXCEPT !.open = FALSE] ELSE q
                         : q \in @}]

\* Rows of hosts go with their ports and tags.
DropHosts(d, gone) ==
  [d EXCEPT !.hosts = {h \in @ : h.id \notin gone},
            !.ports = {p \in @ : p.host \notin gone},
            !.links = {l \in @ : l[1] \notin gone}]

\* Fault: foreign keys are off, so the hosts of a deleted subnet stay.
DropSubnet_NoForeignKeys(d, id) ==
  [d EXCEPT !.subnets = {s \in @ : s.id # id}]

DropSubnet(d, id) ==
  DropHosts([d EXCEPT !.subnets = {s \in @ : s.id # id}],
            {h.id : h \in {g \in d.hosts : g.subnet = id}})

DropTag(d, t) == [d EXCEPT !.tags = @ \ {t}, !.links = {l \in @ : l[2] # t}]

-----------------------------------------------------------------------------
(* Edits: requests of the operator, and what a running scan records.       *)

\* The id the next insert gets.
New == serial + 1

\* The last id handed out once a call has left d.
LastIdIn(d) == IF IdsUpTo(d, serial) THEN serial ELSE New

Edit(d) ==
  /\ edits < MaxEdits
  /\ edits' = edits + 1
  /\ db' = d
  /\ serial' = LastIdIn(d)

AddSubnet(c) ==
  /\ \A s \in db.subnets : s.cidr # c
  /\ Edit(InsertSubnet(db, c, New))

UpdateSubnet(s) == Edit(SetSubnetEnabled(db, s.id, ~ s.enabled))
DeleteSubnet(s) == Edit(DropSubnet(db, s.id))

AddHost(s, ip) ==
  /\ HostsAt(db, s.id, ip) = {}
  /\ \E name \in Names : Edit(InsertHost(db, s.id, ip, name, New))

ScanHost(s, ip) == \E name \in Names : Edit(UpsertHost(db, s.id, ip, name, New))
UpdateHost(h) == \E name \in Names : Edit(NameHost(db, h.id, name))
DeleteHost(h) == Edit(DropHosts(db, {h.id}))
ClearAllHosts == Edit(DropHosts(db, Ids(db.hosts)))

ScanPort(h, p) ==
  \/ Edit(UpsertPort(db, h.id, p))
  \/ PortsAt(db, h.id, p) # {} /\ Edit(ClosePort(db, h.id, p))

CreateTag == Edit([db EXCEPT !.tags = @ \cup {New}])
DeleteTag(t) == Edit(DropTag(db, t))
TagHost(h, t) ==
  \/ Edit([db EXCEPT !.links = @ \cup {<<h.id, t>>}])
  \/ Edit([db EXCEPT !.links = @ \ {<<h.id, t>>}])

PutSettings(m) == Edit([db EXCEPT !.method = m])

EditStep ==
  \/ \E c \in Cidrs : AddSubnet(c)
  \/ \E s \in db.subnets :
       \/ UpdateSubnet(s)
       \/ DeleteSubnet(s)
       \/ \E ip \in IPs : AddHost(s, ip) \/ ScanHost(s, ip)
  \/ \E h \in db.hosts :
       \/ UpdateHost(h)
       \/ DeleteHost(h)
       \/ \E p \in PortNumbers : ScanPort(h, p)
       \/ \E t \in db.tags : TagHost(h, t)
  \/ ClearAllHosts
  \/ CreateTag
  \/ \E t \in db.tags : DeleteTag(t)
  \/ \E m \in Methods : PutSettings(m)

=============================================================================
