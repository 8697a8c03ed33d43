---------------------------- MODULE BackupProofs ----------------------------
(***************************************************************************)
(* Proofs about Inventory and Backup, for every set of subnets, addresses, *)
(* ports, names and starting databases, and any number of edits.           *)
(***************************************************************************)
EXTENDS Backup, TLAPS

-----------------------------------------------------------------------------
(* Store calls.                                                            *)

\* A database as the schema has it, with ids up to n.
Sound(d, n) ==
  /\ n \in Nat
  /\ d \in Database /\ References(d) /\ Keys(d) /\ IdsUpTo(d, n)

\* What a store call makes of d, with at most one row inserted.
Follows(d, n, e) ==
  /\ Sound(e, n + 1)
  /\ \A s \in e.subnets : s.id \in Ids(d.subnets) \/ s.id = n + 1

LEMMA Unchanged == ASSUME NEW d, NEW n, Sound(d, n) PROVE Follows(d, n, d)
  BY DEF Sound, Follows, IdsUpTo, Ids

LEMMA InsertSubnetSound ==
  ASSUME NEW d, NEW n, Sound(d, n), NEW c \in Cidrs, \A s \in d.subnets : s.cidr # c
  PROVE  Follows(d, n, InsertSubnet(d, c, n + 1))
<1> DEFINE new == [id |-> n + 1, cidr |-> c, enabled |-> TRUE]
           e == InsertSubnet(d, c, n + 1)
<1>1. /\ n \in Nat /\ d \in Database /\ References(d) /\ Keys(d) /\ IdsUpTo(d, n)
  BY DEF Sound
<1>2. e = [d EXCEPT !.subnets = @ \cup {new}]
  BY DEF InsertSubnet
<1>3. new \in Subnet
  BY <1>1 DEF Subnet
<1>4. e \in Database /\ e.subnets = d.subnets \cup {new} /\ e.hosts = d.hosts
      /\ e.ports = d.ports /\ e.tags = d.tags /\ e.links = d.links
  BY <1>1, <1>2, <1>3 DEF Database
<1> HIDE DEF e
<1>5. References(e)
  BY <1>1, <1>4 DEF References, Ids
<1>6. \A s \in d.subnets : s.id # n + 1 /\ s.cidr # c
  BY <1>1 DEF IdsUpTo, Ids
<1>7. Keys(e)
  <2>1. ASSUME NEW s \in e.subnets, NEW t \in e.subnets, s.id = t.id \/ s.cidr = t.cidr
        PROVE  s = t
    <3>1. new.id = n + 1 /\ new.cidr = c
      OBVIOUS
    <3> HIDE DEF new
    <3>2. CASE s = new \/ t = new
      BY <1>4, <1>6, <2>1, <3>1, <3>2
    <3>3. CASE s # new /\ t # new
      BY <1>1, <1>4, <2>1, <3>3 DEF Keys
    <3> QED
      BY <3>2, <3>3
  <2> QED
    BY <1>1, <1>4, <2>1 DEF Keys
<1>8. IdsUpTo(e, n + 1)
  BY <1>1, <1>4 DEF IdsUpTo, Ids
<1> QED
  BY <1>1, <1>4, <1>5, <1>7, <1>8 DEF Follows, Sound, e, Ids

LEMMA UpsertAutoSubnetSound ==
  ASSUME NEW d, NEW n, Sound(d, n), NEW c \in Cidrs
  PROVE  Follows(d, n, UpsertAutoSubnet(d, c, n + 1))
  BY Unchanged, InsertSubnetSound DEF UpsertAutoSubnet

LEMMA SetSubnetEnabledSound ==
  ASSUME NEW d, NEW n, Sound(d, n), NEW id, NEW on \in BOOLEAN
  PROVE  Follows(d, n, SetSubnetEnabled(d, id, on))
<1> DEFINE set(s) == IF s.id = id THEN [s EXCEPT !.enabled = on] ELSE s
           e == SetSubnetEnabled(d, id, on)
<1>1. /\ n \in Nat /\ d \in Database /\ References(d) /\ Keys(d) /\ IdsUpTo(d, n)
  BY DEF Sound
<1>2. \A s \in d.subnets : set(s) \in Subnet /\ set(s).id = s.id /\ set(s).cidr = s.cidr
  BY <1>1 DEF Database, Subnet
<1>3. e = [d EXCEPT !.subnets = {set(s) : s \in @}]
  BY DEF SetSubnetEnabled
<1> HIDE DEF set
<1>4. e \in Database /\ e.subnets = {set(s) : s \in d.subnets} /\ e.hosts = d.hosts
      /\ e.ports = d.ports /\ e.tags = d.tags /\ e.links = d.links
  BY <1>1, <1>2, <1>3 DEF Database
<1> HIDE DEF e
<1>5. Ids(e.subnets) = Ids(d.subnets)
  BY <1>2, <1>4 DEF Ids
<1>6. References(e)
  BY <1>1, <1>4, <1>5 DEF References
<1>7. Keys(e)
  BY <1>1, <1>2, <1>4 DEF Keys
<1>8. IdsUpTo(e, n + 1)
  BY <1>1, <1>4, <1>5 DEF IdsUpTo, Ids
<1> QED
  BY <1>1, <1>4, <1>5, <1>6, <1>7, <1>8 DEF Follows, Sound, e, Ids

LEMMA InsertHostSound ==
  ASSUME NEW d, NEW n, Sound(d, n), NEW sn \in Ids(d.subnets), NEW ip \in IPs,
         NEW name \in Names, HostsAt(d, sn, ip) = {}
  PROVE  Follows(d, n, InsertHost(d, sn, ip, name, n + 1))
<1> DEFINE new == [id |-> n + 1, subnet |-> sn, ip |-> ip, name |-> name]
           e == InsertHost(d, sn, ip, name, n + 1)
<1>1. /\ n \in Nat /\ d \in Database /\ References(d) /\ Keys(d) /\ IdsUpTo(d, n)
  BY DEF Sound
<1>2. sn \in Nat
  BY <1>1 DEF IdsUpTo
<1>3. e = [d EXCEPT !.hosts = @ \cup {new}]
  BY DEF InsertHost
<1>4. new \in Host
  BY <1>1, <1>2 DEF Host
<1>5. e \in Database /\ e.hosts = d.hosts \cup {new} /\ e.subnets = d.subnets
      /\ e.ports = d.ports /\ e.tags = d.tags /\ e.links = d.links
  BY <1>1, <1>3, <1>4 DEF Database
<1> HIDE DEF e
<1>6. References(e)
  BY <1>1, <1>5 DEF References, Ids
<1>7. \A h \in d.hosts : h.id # n + 1 /\ ~ (h.subnet = sn /\ h.ip = ip)
  BY <1>1 DEF IdsUpTo, Ids, HostsAt
<1>8. Keys(e)
  BY <1>1, <1>5, <1>7 DEF Keys
<1>9. IdsUpTo(e, n + 1)
  BY <1>1, <1>5 DEF IdsUpTo, Ids
<1> QED
  BY <1>1, <1>5, <1>6, <1>8, <1>9 DEF Follows, Sound, e, Ids

\* A call that only changes the names of hosts.
LEMMA RenamedSound ==
  ASSUME NEW d, NEW n, Sound(d, n), NEW set \in [d.hosts -> Host],
         \A h \in d.hosts :
           set[h].id = h.id /\ set[h].subnet = h.subnet /\ set[h].ip = h.ip,
         NEW e \in Database,
         e.subnets = d.subnets, e.ports = d.ports, e.tags = d.tags, e.links = d.links,
         \A g : g \in e.hosts <=> \E h \in d.hosts : g = set[h]
  PROVE  Follows(d, n, e)
<1>1. /\ n \in Nat /\ d \in Database /\ References(d) /\ Keys(d) /\ IdsUpTo(d, n)
  BY DEF Sound
<1>2. Ids(e.hosts) = Ids(d.hosts)
  BY DEF Ids
<1>3. References(e)
  BY <1>1, <1>2 DEF References
<1>4. Keys(e)
  BY <1>1 DEF Keys
<1>5. IdsUpTo(e, n + 1)
  BY <1>1, <1>2 DEF IdsUpTo
<1> QED
  BY <1>1, <1>3, <1>4, <1>5 DEF Follows, Sound, Ids

LEMMA NameHostSound ==
  ASSUME NEW d, NEW n, Sound(d, n), NEW id, NEW name \in Names
  PROVE  Follows(d, n, NameHost(d, id, name))
<1> DEFINE set == [h \in d.hosts |-> IF h.id = id THEN [h EXCEPT !.name = name] ELSE h]
           e == NameHost(d, id, name)
<1>1. d \in Database /\ d.hosts \subseteq Host
  BY DEF Sound, Database
<1>2. /\ set \in [d.hosts -> Host]
      /\ \A h \in d.hosts :
           set[h].id = h.id /\ set[h].subnet = h.subnet /\ set[h].ip = h.ip
  BY <1>1 DEF Host
<1>3. /\ e.subnets = d.subnets /\ e.ports = d.ports /\ e.tags = d.tags /\ e.links = d.links
      /\ \A g : g \in e.hosts <=> \E h \in d.hosts : g = set[h]
  BY <1>1 DEF NameHost, Database
<1> HIDE DEF set
<1>4. e.hosts \subseteq Host
  BY <1>2, <1>3
<1>5. e \in Database
  BY <1>1, <1>4 DEF NameHost, Database
<1> HIDE DEF e
<1>6. Follows(d, n, e)
  BY <1>2, <1>3, <1>5, RenamedSound
<1> QED
  BY <1>6 DEF e

LEMMA UpsertHostSound ==
  ASSUME NEW d, NEW n, Sound(d, n), NEW sn \in Ids(d.subnets), NEW ip \in IPs,
         NEW name \in Names
  PROVE  Follows(d, n, UpsertHost(d, sn, ip, name, n + 1))
  BY Unchanged, InsertHostSound, NameHostSound DEF UpsertHost

LEMMA ImportHostSound ==
  ASSUME NEW d, NEW n, Sound(d, n), NEW sn \in Ids(d.subnets), NEW ip \in IPs,
         NEW name \in Names
  PROVE  Follows(d, n, ImportHost(d, sn, ip, name, n + 1))
<1>1. CASE HostsAt(d, sn, ip) = {}
  BY <1>1, InsertHostSound DEF ImportHost
<1>2. CASE HostsAt(d, sn, ip) # {}
  <2> DEFINE fills(h) == h \in HostsAt(d, sn, ip) /\ h.name = Blank
             set == [h \in d.hosts |-> IF fills(h) THEN [h EXCEPT !.name = name] ELSE h]
             e == ImportHost(d, sn, ip, name, n + 1)
  <2>1. d \in Database /\ d.hosts \subseteq Host
    BY DEF Sound, Database
  <2>2. e = [d EXCEPT !.hosts =
               {IF fills(h) THEN [h EXCEPT !.name = name] ELSE h : h \in d.hosts}]
    BY <1>2 DEF ImportHost
  <2> HIDE DEF fills, e
  <2>3. /\ set \in [d.hosts -> Host]
        /\ \A h \in d.hosts :
             set[h].id = h.id /\ set[h].subnet = h.subnet /\ set[h].ip = h.ip
    BY <2>1 DEF Host
  <2>4. /\ e.subnets = d.subnets /\ e.ports = d.ports /\ e.tags = d.tags
        /\ e.links = d.links
        /\ \A g : g \in e.hosts <=> \E h \in d.hosts : g = set[h]
    BY <2>1, <2>2 DEF Database
  <2> HIDE DEF set
  <2>5. e.hosts \subseteq Host
    BY <2>3, <2>4
  <2>6. e \in Database
    BY <2>1, <2>2, <2>5 DEF Database
  <2>7. Follows(d, n, e)
    BY <2>3, <2>4, <2>6, RenamedSound
  <2> QED
    BY <2>7 DEF e
<1> QED
  BY <1>1, <1>2

LEMMA UpsertPortSound ==
  ASSUME NEW d, NEW n, Sound(d, n), NEW h \in Ids(d.hosts), NEW p \in PortNumbers
  PROVE  Follows(d, n, UpsertPort(d, h, p))
<1> DEFINE new == [host |-> h, port |-> p, open |-> TRUE]
           e == UpsertPort(d, h, p)
<1>1. /\ n \in Nat /\ d \in Database /\ References(d) /\ Keys(d) /\ IdsUpTo(d, n)
  BY DEF Sound
<1>2. h \in Nat
  BY <1>1 DEF IdsUpTo
<1>3. new \in Port
  BY <1>2 DEF Port
<1>4. e = [d EXCEPT !.ports = (@ \ PortsAt(d, h, p)) \cup {new}]
  BY DEF UpsertPort
<1>5. e \in Database /\ e.ports = (d.ports \ PortsAt(d, h, p)) \cup {new}
      /\ e.hosts = d.hosts /\ e.subnets = d.subnets /\ e.tags = d.tags /\ e.links = d.links
  BY <1>1, <1>3, <1>4 DEF Database
<1> HIDE DEF e
<1>6. References(e)
  BY <1>1, <1>5 DEF References
<1>7. \A q \in d.ports \ PortsAt(d, h, p) : ~ (q.host = h /\ q.port = p)
  BY DEF PortsAt
<1>8. Keys(e)
  <2>1. ASSUME NEW q \in e.ports, NEW r \in e.ports, q.host = r.host, q.port = r.port
        PROVE  q = r
    <3>1. new.host = h /\ new.port = p
      OBVIOUS
    <3> HIDE DEF new
    <3>2. CASE q = new \/ r = new
      BY <1>5, <1>7, <2>1, <3>1, <3>2
    <3>3. CASE q # new /\ r # new
      BY <1>1, <1>5, <2>1, <3>3 DEF Keys
    <3> QED
      BY <3>2, <3>3
  <2> QED
    BY <1>1, <1>5, <2>1 DEF Keys
<1>9. IdsUpTo(e, n + 1)
  BY <1>1, <1>5 DEF IdsUpTo, Ids
<1> QED
  BY <1>1, <1>5, <1>6, <1>8, <1>9 DEF Follows, Sound, e, Ids

LEMMA ClosePortSound ==
  ASSUME NEW d, NEW n, Sound(d, n), NEW h, NEW p
  PROVE  Follows(d, n, ClosePort(d, h, p))
<1> DEFINE set(q) == IF q \in PortsAt(d, h, p) THEN [q EXCEPT !.open = FALSE] ELSE q
           e == ClosePort(d, h, p)
<1>1. /\ n \in Nat /\ d \in Database /\ References(d) /\ Keys(d) /\ IdsUpTo(d, n)
  BY DEF Sound
<1>2. \A q \in d.ports : set(q) \in Port /\ set(q).host = q.host /\ set(q).port = q.port
  BY <1>1 DEF Database, Port
<1>3. e = [d EXCEPT !.ports = {set(q) : q \in @}]
  BY DEF ClosePort
<1> HIDE DEF set
<1>4. e \in Database /\ e.ports = {set(q) : q \in d.ports}
      /\ e.hosts = d.hosts /\ e.subnets = d.subnets /\ e.tags = d.tags /\ e.links = d.links
  BY <1>1, <1>2, <1>3 DEF Database
<1> HIDE DEF e
<1>5. References(e)
  BY <1>1, <1>2, <1>4 DEF References
<1>6. Keys(e)
  BY <1>1, <1>2, <1>4 DEF Keys
<1>7. IdsUpTo(e, n + 1)
  BY <1>1, <1>4 DEF IdsUpTo, Ids
<1> QED
  BY <1>1, <1>4, <1>5, <1>6, <1>7 DEF Follows, Sound, e, Ids

\* Rows leave, and every row that stays still has what it refers to.
LEMMA FewerSound ==
  ASSUME NEW d, NEW n, Sound(d, n), NEW e \in Database, References(e),
         e.subnets \subseteq d.subnets, e.hosts \subseteq d.hosts,
         e.ports \subseteq d.ports, e.tags \subseteq d.tags
  PROVE  Follows(d, n, e)
<1>1. Keys(e) /\ IdsUpTo(e, n + 1)
  BY DEF Sound, Keys, IdsUpTo, Ids
<1> QED
  BY <1>1 DEF Follows, Sound, Ids

LEMMA DropHostsSound ==
  ASSUME NEW d, NEW n, Sound(d, n), NEW these
  PROVE  Follows(d, n, DropHosts(d, these))
<1> DEFINE e == DropHosts(d, these)
<1>1. d \in Database /\ References(d)
  BY DEF Sound
<1>2. e \in Database /\ e.hosts = {h \in d.hosts : h.id \notin these}
      /\ e.ports = {p \in d.ports : p.host \notin these}
      /\ e.links = {l \in d.links : l[1] \notin these}
      /\ e.subnets = d.subnets /\ e.tags = d.tags
  BY <1>1 DEF Database, DropHosts
<1> HIDE DEF e
<1>3. References(e)
  BY <1>1, <1>2 DEF References, Ids
<1>4. Follows(d, n, e)
  BY <1>2, <1>3, FewerSound
<1> QED
  BY <1>4 DEF e

LEMMA DropSubnetSound ==
  ASSUME NEW d, NEW n, Sound(d, n), NEW id
  PROVE  Follows(d, n, DropSubnet(d, id))
<1> DEFINE these == {h.id : h \in {g \in d.hosts : g.subnet = id}}
           rest == [d EXCEPT !.subnets = {s \in @ : s.id # id}]
           e == DropSubnet(d, id)
<1>1. d \in Database /\ References(d) /\ Keys(d)
  BY DEF Sound
<1>2. rest \in Database /\ rest.subnets = {s \in d.subnets : s.id # id}
      /\ rest.hosts = d.hosts /\ rest.ports = d.ports /\ rest.links = d.links
      /\ rest.tags = d.tags
  BY <1>1 DEF Database
<1>3. e = DropHosts(rest, these)
  BY DEF DropSubnet
<1> HIDE DEF rest, these, e
<1>4. e \in Database /\ e.hosts = {h \in d.hosts : h.id \notin these}
      /\ e.ports = {p \in d.ports : p.host \notin these}
      /\ e.links = {l \in d.links : l[1] \notin these}
      /\ e.subnets = {s \in d.subnets : s.id # id} /\ e.tags = d.tags
  BY <1>2, <1>3 DEF Database, DropHosts
<1>5. \A h \in e.hosts : h.subnet # id
  BY <1>4 DEF these
<1>6. References(e)
  BY <1>1, <1>4, <1>5 DEF References, Ids
<1>7. Follows(d, n, e)
  BY <1>4, <1>6, FewerSound
<1> QED
  BY <1>7 DEF e

LEMMA TagsSound ==
  ASSUME NEW d, NEW n, Sound(d, n)
  PROVE  /\ Follows(d, n, [d EXCEPT !.tags = @ \cup {n + 1}])
         /\ \A t : Follows(d, n, DropTag(d, t))
         /\ \A h \in d.hosts, t \in d.tags :
              /\ Follows(d, n, [d EXCEPT !.links = @ \cup {<<h.id, t>>}])
              /\ Follows(d, n, [d EXCEPT !.links = @ \ {<<h.id, t>>}])
         /\ \A m \in Methods : Follows(d, n, [d EXCEPT !.method = m])
<1>1. /\ n \in Nat /\ d \in Database /\ References(d) /\ Keys(d) /\ IdsUpTo(d, n)
  BY DEF Sound
<1>2. Follows(d, n, [d EXCEPT !.tags = @ \cup {n + 1}])
  <2> DEFINE e == [d EXCEPT !.tags = @ \cup {n + 1}]
  <2>1. e \in Database /\ e.tags = d.tags \cup {n + 1} /\ e.hosts = d.hosts
        /\ e.subnets = d.subnets /\ e.ports = d.ports /\ e.links = d.links
    BY <1>1 DEF Database
  <2> HIDE DEF e
  <2>2. References(e) /\ Keys(e) /\ IdsUpTo(e, n + 1)
    BY <1>1, <2>1 DEF References, Keys, IdsUpTo
  <2>3. Follows(d, n, e)
    BY <1>1, <2>1, <2>2 DEF Follows, Sound, Ids
  <2> QED
    BY <2>3 DEF e
<1>3. ASSUME NEW t PROVE Follows(d, n, DropTag(d, t))
  <2> DEFINE e == DropTag(d, t)
  <2>1. e \in Database /\ e.tags = d.tags \ {t} /\ e.hosts = d.hosts
        /\ e.subnets = d.subnets /\ e.ports = d.ports
        /\ e.links = {l \in d.links : l[2] # t}
    BY <1>1 DEF Database, DropTag
  <2> HIDE DEF e
  <2>2. References(e)
    BY <1>1, <2>1 DEF References
  <2>3. Follows(d, n, e)
    BY <2>1, <2>2, FewerSound
  <2> QED
    BY <2>3 DEF e
<1>4. ASSUME NEW h \in d.hosts, NEW t \in d.tags, NEW links,
             links \in {d.links \cup {<<h.id, t>>}, d.links \ {<<h.id, t>>}}
      PROVE  Follows(d, n, [d EXCEPT !.links = links])
  <2> DEFINE e == [d EXCEPT !.links = links]
  <2>1. h.id \in Nat /\ t \in Nat /\ h.id \in Ids(d.hosts)
    BY <1>1 DEF Database, Host, Ids
  <2>2. links \subseteq Nat \X Nat
    BY <1>1, <1>4, <2>1 DEF Database
  <2>3. e \in Database /\ e.tags = d.tags /\ e.hosts = d.hosts
        /\ e.subnets = d.subnets /\ e.ports = d.ports /\ e.links = links
    BY <1>1, <2>2 DEF Database
  <2> HIDE DEF e
  <2>4. References(e)
    BY <1>1, <1>4, <2>1, <2>3 DEF References
  <2>5. Follows(d, n, e)
    BY <2>3, <2>4, FewerSound
  <2> QED
    BY <2>5 DEF e
<1>5. ASSUME NEW m \in Methods PROVE Follows(d, n, [d EXCEPT !.method = m])
  <2> DEFINE e == [d EXCEPT !.method = m]
  <2>1. e \in Database /\ e.tags = d.tags /\ e.hosts = d.hosts
        /\ e.subnets = d.subnets /\ e.ports = d.ports /\ e.links = d.links
    BY <1>1 DEF Database
  <2> HIDE DEF e
  <2>2. References(e)
    BY <1>1, <2>1 DEF References
  <2>3. Follows(d, n, e)
    BY <2>1, <2>2, FewerSound
  <2> QED
    BY <2>3 DEF e
<1>6. \A h \in d.hosts, t \in d.tags :
        /\ [d EXCEPT !.links = @ \cup {<<h.id, t>>}] =
             [d EXCEPT !.links = d.links \cup {<<h.id, t>>}]
        /\ [d EXCEPT !.links = @ \ {<<h.id, t>>}] =
             [d EXCEPT !.links = d.links \ {<<h.id, t>>}]
  OBVIOUS
<1> QED
  BY <1>2, <1>3, <1>4, <1>5, <1>6

-----------------------------------------------------------------------------
(* Edits.                                                                  *)

\* What the steps below do to the inventory.
Stored ==
  /\ Sound(db', serial') /\ serial' >= serial
  /\ \A s \in db'.subnets : s.id \in Ids(db.subnets) \/ s.id > serial

LEMMA CallStored ==
  ASSUME Sound(db, serial), NEW e, Follows(db, serial, e), db' = e, serial' = LastIdIn(e)
  PROVE  Stored
<1>1. serial \in Nat
  BY DEF Sound
<1>2. CASE IdsUpTo(e, serial)
  BY <1>1, <1>2 DEF Follows, Sound, LastIdIn, Stored
<1>3. CASE ~ IdsUpTo(e, serial)
  BY <1>1, <1>3 DEF Follows, Sound, LastIdIn, New, Stored
<1> QED
  BY <1>2, <1>3

LEMMA EditStored ==
  ASSUME Sound(db, serial), EditStep
  PROVE  Stored /\ edits < MaxEdits /\ edits' = edits + 1
<1>1. ASSUME NEW e, Follows(db, serial, e), Edit(e)
      PROVE  Stored /\ edits < MaxEdits /\ edits' = edits + 1
  BY <1>1, CallStored DEF Edit
<1>2. db \in Database /\ New = serial + 1
  BY DEF Sound, New
<1>3. ASSUME NEW c \in Cidrs, AddSubnet(c)
      PROVE  \E e : Follows(db, serial, e) /\ Edit(e)
  BY <1>2, <1>3, InsertSubnetSound DEF AddSubnet
<1>4. ASSUME NEW s \in db.subnets, UpdateSubnet(s) \/ DeleteSubnet(s)
      PROVE  \E e : Follows(db, serial, e) /\ Edit(e)
  <2>1. (~ s.enabled) \in BOOLEAN
    BY Zenon
  <2> QED
    BY <1>4, <2>1, SetSubnetEnabledSound, DropSubnetSound DEF UpdateSubnet, DeleteSubnet
<1>5. ASSUME NEW s \in db.subnets, NEW ip \in IPs, AddHost(s, ip) \/ ScanHost(s, ip)
      PROVE  \E e : Follows(db, serial, e) /\ Edit(e)
  <2>1. s.id \in Ids(db.subnets)
    BY DEF Ids
  <2> QED
    BY <1>2, <1>5, <2>1, InsertHostSound, UpsertHostSound DEF AddHost, ScanHost
<1>6. ASSUME NEW h \in db.hosts, UpdateHost(h) \/ DeleteHost(h)
      PROVE  \E e : Follows(db, serial, e) /\ Edit(e)
  BY <1>6, NameHostSound, DropHostsSound DEF UpdateHost, DeleteHost
<1>7. ASSUME NEW h \in db.hosts, NEW p \in PortNumbers, ScanPort(h, p)
      PROVE  \E e : Follows(db, serial, e) /\ Edit(e)
  <2>1. h.id \in Ids(db.hosts)
    BY DEF Ids
  <2> QED
    BY <1>7, <2>1, UpsertPortSound, ClosePortSound DEF ScanPort
<1>8. ASSUME NEW h \in db.hosts, NEW t \in db.tags, TagHost(h, t)
      PROVE  \E e : Follows(db, serial, e) /\ Edit(e)
  BY <1>8, TagsSound DEF TagHost
<1>9. ASSUME ClearAllHosts PROVE \E e : Follows(db, serial, e) /\ Edit(e)
  BY <1>9, DropHostsSound DEF ClearAllHosts
<1>10. ASSUME CreateTag PROVE \E e : Follows(db, serial, e) /\ Edit(e)
  BY <1>2, <1>10, TagsSound DEF CreateTag
<1>11. ASSUME NEW t \in db.tags, DeleteTag(t) PROVE \E e : Follows(db, serial, e) /\ Edit(e)
  BY <1>11, TagsSound DEF DeleteTag
<1>12. ASSUME NEW m \in Methods, PutSettings(m)
       PROVE  \E e : Follows(db, serial, e) /\ Edit(e)
  BY <1>12, TagsSound DEF PutSettings
<1>13. \E e : Follows(db, serial, e) /\ Edit(e)
  BY <1>3, <1>4, <1>5, <1>6, <1>7, <1>8, <1>9, <1>10, <1>11, <1>12 DEF EditStep
<1> QED
  BY <1>1, <1>13

-----------------------------------------------------------------------------
(* Types, and no orphans.                                                  *)

\* The stages that read a file have one, and kind and stage fit.
DocHeld ==
  /\ stage \in {"segments", "flags", "hosts", "ports", "settings"} => doc # NoFile
  /\ stage = "flags" => kind = "system"
  /\ stage = "addresses" => kind \in {"dnsrecon", "nmap"}

Inv == TypeOK /\ NoOrphans /\ DocHeld

LEMMA InvSound == Inv => Sound(db, serial)
  BY DEF Inv, TypeOK, InventoryType, NoOrphans, Sound

LEMMA SoundInv ==
  ASSUME Sound(db', serial'), edits' \in 0 .. MaxEdits,
         ExportType', ImportType', HistoryType', DocHeld'
  PROVE  Inv'
  BY DEF Inv, TypeOK, InventoryType, NoOrphans, Sound

LEMMA InitInv == Init => Inv
<1> SUFFICES ASSUME Init PROVE Inv
  OBVIOUS
<1> USE DEF Init
<1>1. /\ db \in Database /\ References(db) /\ Keys(db) /\ IdsUpTo(db, serial)
      /\ serial \in Nat /\ edits \in 0 .. MaxEdits
  BY SavedAssumption, BoundAssumption DEF Open
<1>2. ExportType
  BY DEF ExportType, NoExport, Exports
<1>3. ImportType
  BY DEF ImportType
<1>4. HistoryType
  <2>1. Nothing \in [subnets : SUBSET Cidrs, hosts : SUBSET (Cidrs \X IPs)]
    BY DEF Nothing
  <2>2. taken \in 0 .. MaxExports /\ imported \in 0 .. MaxImports
        /\ restarts \in 0 .. MaxRestarts
    BY CountsAssumption
  <2> QED
    BY <2>1, <2>2, Zenon DEF HistoryType
<1>5. DocHeld
  BY DEF DocHeld
<1> QED
  BY <1>1, <1>2, <1>3, <1>4, <1>5 DEF Inv, TypeOK, InventoryType, NoOrphans

\* An import step that makes a store call.
LEMMA StoreKeeps ==
  ASSUME Inv, NEW e, Follows(db, serial, e), Store(e)
  PROVE  /\ Stored /\ edits' \in 0 .. MaxEdits /\ ExportType' /\ HistoryType'
         /\ doc' = doc /\ kind' = kind
<1>1. Stored
  BY InvSound, CallStored DEF Store
<1>2. ExportType'
  <2> DEFINE calm == export.calm /\ e = db
  <2>1. calm \in BOOLEAN
    BY Zenon
  <2>2. export' = [export EXCEPT !.calm = calm] /\ file' = file
    BY DEF Store
  <2> HIDE DEF calm
  <2> QED
    BY <2>1, <2>2 DEF Inv, TypeOK, ExportType, Exports
<1>3. HistoryType'
  BY DEF Inv, TypeOK, HistoryType, Store, bounds
<1> QED
  BY <1>1, <1>2, <1>3 DEF Inv, TypeOK, InventoryType, Store

LEMMA ExportKeeps ==
  ASSUME Inv,
         \/ ExportSubnets \/ ExportHosts \/ ExportDone
         \/ \E h \in export.left : ExportPorts(h)
  PROVE  Inv'
<1> USE DEF Inv, TypeOK
<1>1. db' = db /\ serial' = serial /\ edits' = edits /\ UNCHANGED importing
  BY DEF ExportSubnets, ExportHosts, ExportDone, ExportPorts, inventory
<1>2. ImportType' /\ DocHeld'
  BY <1>1 DEF ImportType, DocHeld, importing
<1>3. db.subnets \subseteq Subnet /\ db.hosts \subseteq Host /\ db.ports \subseteq Port
      /\ db.method \in Methods /\ serial \in Nat
  BY DEF InventoryType, Database
<1>4. ExportType'
  <2>1. CASE ExportSubnets
    BY <2>1, <1>3 DEF ExportSubnets, ExportType, Exports, NoExport
  <2>2. CASE ExportHosts
    BY <2>2, <1>3 DEF ExportHosts, ExportType, Exports
  <2>3. CASE ExportDone
    <3>1. file' \in File
      BY <2>3, <1>3 DEF ExportDone, ExportType, Exports, File
    <3> QED
      BY <2>3, <3>1 DEF ExportDone, ExportType, Exports, NoExport
  <2>4. CASE \E h \in export.left : ExportPorts(h)
    <3>1. PICK h \in export.left : ExportPorts(h)
      BY <2>4
    <3> DEFINE ports == export.ports \cup {p \in db.ports : p.host = h.id}
    <3>2. export' = [export EXCEPT !.left = @ \ {h}, !.ports = ports] /\ file' = file
      BY <3>1 DEF ExportPorts
    <3>3. ports \subseteq Port
      BY <1>3 DEF ExportType, Exports
    <3> HIDE DEF ports
    <3> QED
      BY <3>2, <3>3 DEF ExportType, Exports
  <2> QED
    BY <2>1, <2>2, <2>3, <2>4
<1>5. HistoryType'
  <2>1. gone' = gone /\ quiet' = quiet /\ fresh' = fresh /\ imported' = imported
        /\ restarts' = restarts /\ (current' = current \/ current' \subseteq {"map", "system"})
        /\ (taken' = taken \/ (taken < MaxExports /\ taken' = taken + 1))
    BY DEF ExportSubnets, ExportHosts, ExportDone, ExportPorts, ghosts, bounds
  <2>2. taken \in 0 .. MaxExports /\ imported \in 0 .. MaxImports
        /\ restarts \in 0 .. MaxRestarts /\ current \subseteq {"map", "system"}
    BY DEF HistoryType
  <2>3. taken' \in 0 .. MaxExports
    BY <2>1, <2>2, CountsAssumption
  <2>4. current' \subseteq {"map", "system"}
    BY <2>1, <2>2, Zenon
  <2> QED
    BY <2>1, <2>2, <2>3, <2>4, Zenon DEF HistoryType
<1> QED
  BY <1>1, <1>2, <1>4, <1>5, InvSound, SoundInv DEF InventoryType

LEMMA StartKeeps ==
  ASSUME Inv,
         \/ \E k \in {"map", "system"} : StartImport(k)
         \/ \E k \in {"dnsrecon", "nmap"}, rows \in SUBSET Scanned \ {{}} :
              StartAddressImport(k, rows)
  PROVE  Inv'
<1> USE DEF Inv, TypeOK
<1>1. \E k \in {"map", "system", "dnsrecon", "nmap"}, first \in {"segments", "addresses"},
         rows \in SUBSET (Subnet \cup Address) :
        /\ Start(k, first, rows)
        /\ rows \subseteq IF first = "segments" THEN Subnet ELSE Address
        /\ doc' \in File \cup {NoFile} /\ (first = "segments" => doc' # NoFile)
        /\ first = "addresses" => k \in {"dnsrecon", "nmap"}
        /\ known' \subseteq [id : Nat, cidr : Cidrs]
  <2>1. ASSUME NEW k \in {"map", "system"}, StartImport(k)
        PROVE  /\ Start(k, "segments", file.segs) /\ file.segs \subseteq Subnet
               /\ doc' \in File \cup {NoFile} /\ doc' # NoFile
               /\ known' \subseteq [id : Nat, cidr : Cidrs]
    BY <2>1 DEF StartImport, ExportType, File
  <2>2. ASSUME NEW k \in {"dnsrecon", "nmap"}, NEW rows \in SUBSET Scanned \ {{}},
               StartAddressImport(k, rows)
        PROVE  /\ Start(k, "addresses", rows) /\ rows \subseteq Address
               /\ doc' \in File \cup {NoFile}
               /\ known' \subseteq [id : Nat, cidr : Cidrs]
    <3>1. \A s \in db.subnets : s.id \in Nat /\ s.cidr \in Cidrs
      BY DEF InventoryType, Database, Subnet
    <3> QED
      BY <2>2, <3>1, AddressAssumption DEF StartAddressImport
  <2> QED
    BY <2>1, <2>2
<1>2. PICK k \in {"map", "system", "dnsrecon", "nmap"}, first \in {"segments", "addresses"},
           rows \in SUBSET (Subnet \cup Address) :
        /\ Start(k, first, rows)
        /\ rows \subseteq IF first = "segments" THEN Subnet ELSE Address
        /\ doc' \in File \cup {NoFile} /\ (first = "segments" => doc' # NoFile)
        /\ first = "addresses" => k \in {"dnsrecon", "nmap"}
        /\ known' \subseteq [id : Nat, cidr : Cidrs]
  BY <1>1
<1>3. db' = db /\ serial' = serial /\ edits' = edits /\ UNCHANGED exporting
      /\ kind' = k /\ stage' = first /\ todo' = rows
      /\ segIds' = {} /\ hostIds' = {} /\ pending' = {} /\ gone' = Nothing /\ quiet' = TRUE
      /\ fresh' = (db.subnets = {})
      /\ imported < MaxImports /\ imported' = imported + 1
      /\ current' = current /\ taken' = taken /\ restarts' = restarts
  BY <1>2 DEF Start, inventory
<1>4. ExportType'
  BY <1>3 DEF ExportType, exporting
<1>5. ImportType'
  BY <1>2, <1>3 DEF ImportType
<1>6. HistoryType'
  <2>1. Nothing \in [subnets : SUBSET Cidrs, hosts : SUBSET (Cidrs \X IPs)]
    BY DEF Nothing
  <2>2. fresh' \in BOOLEAN
    BY <1>3, Zenon
  <2> QED
    BY <1>3, <2>1, <2>2, CountsAssumption DEF HistoryType
<1>7. DocHeld'
  BY <1>2, <1>3 DEF DocHeld
<1> QED
  BY <1>3, <1>4, <1>5, <1>6, <1>7, InvSound, SoundInv DEF InventoryType

LEMMA SkipOrFailKeeps ==
  ASSUME Inv, stage \in {"hosts", "ports", "addresses"}, Fail \/ \E row : Skip(row)
  PROVE  Inv' /\ db' = db /\ export' = export /\ serial' = serial
<1> USE DEF Inv, TypeOK
<1>1. db' = db /\ serial' = serial /\ edits' = edits /\ UNCHANGED <<exporting, ghosts, bounds>>
      /\ segIds' = segIds /\ hostIds' = hostIds /\ known' = known /\ pending' = pending
      /\ kind' = kind /\ doc' = doc /\ todo' \subseteq todo
      /\ (stage' = stage \/ stage' = "failed")
  BY DEF Skip, Fail, inventory
<1>2. ExportType' /\ HistoryType' /\ DocHeld'
  BY <1>1 DEF ExportType, HistoryType, DocHeld, exporting, ghosts, bounds
<1>3. ImportType'
  BY <1>1 DEF ImportType
<1> QED
  BY <1>1, <1>2, <1>3, InvSound, SoundInv DEF InventoryType, exporting

LEMMA ImportKeeps ==
  ASSUME Inv, ImportStep
  PROVE  Inv' /\ (Stored \/ (db' = db /\ serial' = serial))
<1> USE DEF Inv, TypeOK
<1>1. Sound(db, serial) /\ New = serial + 1
  BY InvSound DEF New
<1>2. ASSUME NEW e, Follows(db, serial, e), Store(e), ImportType', DocHeld'
      PROVE  Inv' /\ Stored
  BY <1>2, StoreKeeps, SoundInv DEF Stored
<1>3. ASSUME NEW seg \in todo, stage = "segments", ImportSegment(seg)
      PROVE  Inv' /\ Stored
  <2> DEFINE e == UpsertAutoSubnet(db, seg.cidr, New)
  <2>1. seg \in Subnet /\ seg.id \in Nat /\ seg.cidr \in Cidrs
    BY <1>3 DEF ImportType, Subnet
  <2>2. Follows(db, serial, e)
    BY <1>1, <2>1, UpsertAutoSubnetSound
  <2>3. \A s \in e.subnets : s.id \in Nat
    BY <2>2 DEF Follows, Sound, Database, Subnet
  <2>4. /\ Store(e)
        /\ segIds' = segIds \cup {<<seg.id, s.id>> : s \in {t \in e.subnets : t.cidr = seg.cidr}}
        /\ \/ kind = "system" /\ stage' = "flags" /\ todo' = todo
           \/ stage' = stage /\ todo' = todo \ {seg}
        /\ UNCHANGED <<hostIds, known, pending>>
    BY <1>3 DEF ImportSegment
  <2> HIDE DEF e
  <2>5. doc' = doc /\ kind' = kind
    BY <2>4 DEF Store
  <2>6. ImportType'
    BY <1>3, <2>1, <2>3, <2>4, <2>5 DEF ImportType
  <2>7. DocHeld'
    BY <1>3, <2>4, <2>5 DEF DocHeld
  <2> QED
    BY <1>2, <2>2, <2>4, <2>6, <2>7
<1>4. ASSUME NEW seg \in todo, stage = "flags", ImportFlags(seg) PROVE Inv' /\ Stored
  <2>1. PICK m \in segIds : Store(SetSubnetEnabled(db, m[2], seg.enabled))
    BY <1>4 DEF ImportFlags
  <2>2. seg.enabled \in BOOLEAN
    BY <1>4 DEF ImportType, Subnet
  <2>3. Follows(db, serial, SetSubnetEnabled(db, m[2], seg.enabled))
    BY <1>1, <2>2, SetSubnetEnabledSound
  <2>4. stage' = "segments" /\ todo' = todo \ {seg} /\ doc' = doc /\ kind' = kind
        /\ UNCHANGED <<segIds, hostIds, known, pending>>
    BY <1>4, <2>1 DEF ImportFlags, Store
  <2>5. ImportType' /\ DocHeld'
    BY <1>4, <2>4 DEF ImportType, DocHeld
  <2> QED
    BY <1>2, <2>1, <2>3, <2>5
<1>5. ASSUME NEW h \in todo, stage = "hosts", ImportHostRow(h)
      PROVE  Inv' /\ (Stored \/ (db' = db /\ serial' = serial))
  <2>1. CASE Skip(h) \/ Fail
    BY <1>5, <2>1, SkipOrFailKeeps
  <2>2. CASE ~ (Skip(h) \/ Fail)
    <3>1. h \in Host /\ h.id \in Nat /\ h.ip \in IPs /\ h.name \in Names
      BY <1>5 DEF ImportType, Host
    <3>2. PICK m \in segIds :
            LET d == ImportHost(db, m[2], h.ip, h.name, New) IN
            /\ m[2] \in Ids(db.subnets)
            /\ Store(d)
            /\ hostIds' = hostIds \cup ({h.id} \X RowIds(d, m[2], h.ip))
            /\ todo' = todo \ {h}
            /\ UNCHANGED <<stage, segIds, known, pending>>
      BY <1>5, <2>2 DEF ImportHostRow
    <3> DEFINE e == ImportHost(db, m[2], h.ip, h.name, New)
    <3>3. Follows(db, serial, e)
      BY <1>1, <3>1, <3>2, ImportHostSound
    <3>4. \A g \in e.hosts : g.id \in Nat
      BY <3>3 DEF Follows, Sound, Database, Host
    <3>5. /\ Store(e) /\ todo' = todo \ {h}
          /\ hostIds' = hostIds \cup ({h.id} \X RowIds(e, m[2], h.ip))
          /\ UNCHANGED <<stage, segIds, known, pending>>
      BY <3>2
    <3> HIDE DEF e
    <3>6. RowIds(e, m[2], h.ip) \subseteq Nat
      BY <3>4 DEF RowIds, HostsAt
    <3>7. doc' = doc /\ kind' = kind
      BY <3>5 DEF Store
    <3>8. hostIds' \subseteq Nat \X Nat
      BY <3>1, <3>5, <3>6 DEF ImportType
    <3>9. ImportType' /\ DocHeld'
      BY <1>5, <3>5, <3>7, <3>8 DEF ImportType, DocHeld
    <3> QED
      BY <1>2, <3>3, <3>5, <3>9
  <2> QED
    BY <2>1, <2>2
<1>6. ASSUME NEW p \in todo, stage = "ports", ImportPortRow(p)
      PROVE  Inv' /\ (Stored \/ (db' = db /\ serial' = serial))
  <2>1. CASE Skip(p) \/ Fail
    BY <1>6, <2>1, SkipOrFailKeeps
  <2>2. CASE ~ (Skip(p) \/ Fail)
    <3>1. p.port \in PortNumbers
      BY <1>6 DEF ImportType, Port
    <3>2. PICK m \in hostIds :
            /\ m[2] \in Ids(db.hosts) /\ Store(UpsertPort(db, m[2], p.port))
            /\ todo' = todo \ {p} /\ UNCHANGED <<stage, segIds, hostIds, known, pending>>
      BY <1>6, <2>2 DEF ImportPortRow
    <3>3. Follows(db, serial, UpsertPort(db, m[2], p.port))
      BY <1>1, <3>1, <3>2, UpsertPortSound
    <3>4. doc' = doc /\ kind' = kind
      BY <3>2 DEF Store
    <3>5. ImportType' /\ DocHeld'
      BY <1>6, <3>2, <3>4 DEF ImportType, DocHeld
    <3> QED
      BY <1>2, <3>2, <3>3, <3>5
  <2> QED
    BY <2>1, <2>2
<1>7. ASSUME NEW a \in todo, stage = "addresses", ImportAddress(a)
      PROVE  Inv' /\ (Stored \/ (db' = db /\ serial' = serial))
  <2>1. a \in Address /\ a.ip \in IPs /\ a.name \in Names /\ a.ports \subseteq PortNumbers
    BY <1>7 DEF ImportType, Address
  <2>2. CASE Fail
    BY <1>7, <2>2, SkipOrFailKeeps
  <2>3. ASSUME NEW e, e = UpsertAutoSubnet(db, Slash24[a.ip], New), Store(e),
               known' = known \cup {[id |-> s.id, cidr |-> s.cidr] :
                                      s \in {t \in e.subnets : t.cidr = Slash24[a.ip]}},
               UNCHANGED <<stage, todo, segIds, hostIds, pending>>
        PROVE  Inv' /\ Stored
    <3>1. Slash24[a.ip] \in Cidrs
      BY <2>1, AddressAssumption
    <3>2. Follows(db, serial, e)
      BY <1>1, <2>3, <3>1, UpsertAutoSubnetSound
    <3>3. \A s \in e.subnets : s.id \in Nat /\ s.cidr \in Cidrs
      BY <3>2 DEF Follows, Sound, Database, Subnet
    <3>4. known' \subseteq [id : Nat, cidr : Cidrs]
      BY <2>3, <3>3 DEF ImportType
    <3>5. doc' = doc /\ kind' = kind
      BY <2>3 DEF Store
    <3>6. ImportType' /\ DocHeld'
      BY <1>7, <2>3, <3>4, <3>5 DEF ImportType, DocHeld
    <3> QED
      BY <1>2, <2>3, <3>2, <3>6
  <2>4. ASSUME NEW s \in known, NEW e, s.id \in Ids(db.subnets),
               e = IF kind = "nmap" THEN UpsertHost(db, s.id, a.ip, a.name, New)
                   ELSE ImportHost(db, s.id, a.ip, a.name, New),
               Store(e), pending' = RowIds(e, s.id, a.ip) \X a.ports, todo' = todo \ {a},
               UNCHANGED <<stage, segIds, hostIds, known>>
        PROVE  Inv' /\ Stored
    <3>1. Follows(db, serial, e)
      BY <1>1, <2>1, <2>4, UpsertHostSound, ImportHostSound
    <3>2. \A g \in e.hosts : g.id \in Nat
      BY <3>1 DEF Follows, Sound, Database, Host
    <3>3. RowIds(e, s.id, a.ip) \subseteq Nat
      BY <3>2 DEF RowIds, HostsAt
    <3>4. pending' \subseteq Nat \X PortNumbers
      BY <2>1, <2>4, <3>3
    <3>5. doc' = doc /\ kind' = kind
      BY <2>4 DEF Store
    <3>6. ImportType' /\ DocHeld'
      BY <1>7, <2>4, <3>4, <3>5 DEF ImportType, DocHeld
    <3> QED
      BY <1>2, <2>4, <3>1, <3>6
  <2> QED
    BY <1>7, <2>2, <2>3, <2>4 DEF ImportAddress
<1>8. ASSUME NEW x \in pending, ImportAddressPort(x)
      PROVE  Inv' /\ (Stored \/ (db' = db /\ serial' = serial))
  <2>1. stage = "addresses" /\ x[2] \in PortNumbers
    BY <1>8 DEF ImportAddressPort, ImportType
  <2>2. CASE Fail
    BY <2>1, <2>2, SkipOrFailKeeps
  <2>3. CASE ~ Fail
    <3>1. /\ x[1] \in Ids(db.hosts) /\ Store(UpsertPort(db, x[1], x[2]))
          /\ pending' = pending \ {x} /\ UNCHANGED <<stage, todo, segIds, hostIds, known>>
      BY <1>8, <2>3 DEF ImportAddressPort
    <3>2. Follows(db, serial, UpsertPort(db, x[1], x[2]))
      BY <1>1, <2>1, <3>1, UpsertPortSound
    <3>3. doc' = doc /\ kind' = kind
      BY <3>1 DEF Store
    <3>4. ImportType' /\ DocHeld'
      BY <2>1, <3>1, <3>3 DEF ImportType, DocHeld
    <3> QED
      BY <1>2, <3>1, <3>2, <3>4
  <2> QED
    BY <2>2, <2>3
<1>9. ASSUME ImportSettings PROVE Inv' /\ Stored
  <2>1. doc \in File /\ doc.method \in Methods
    BY <1>9 DEF ImportSettings, DocHeld, ImportType, File
  <2>2. Follows(db, serial, db')
    BY <1>1, <1>9, <2>1, Unchanged, TagsSound DEF ImportSettings
  <2>3. Sound(db', serial) /\ Stored
    <3>1. IdsUpTo(db', serial)
      BY <1>1, <1>9 DEF ImportSettings, Sound, IdsUpTo, Database
    <3> QED
      BY <1>1, <1>9, <2>2, <3>1 DEF Follows, Sound, Stored, ImportSettings
  <2>4. ExportType'
    <3> DEFINE calm == export.calm /\ db' = db
    <3>1. calm \in BOOLEAN
      BY Zenon
    <3>2. export' = [export EXCEPT !.calm = calm] /\ file' = file
      BY <1>9 DEF ImportSettings
    <3> HIDE DEF calm
    <3> QED
      BY <3>1, <3>2 DEF ExportType, Exports
  <2>5. /\ current' \subseteq {"map", "system"}
        /\ stage = "settings" /\ stage' = "done" /\ edits' = edits
        /\ UNCHANGED <<doc, kind, todo, segIds, hostIds, known, pending, gone, quiet,
                       fresh, taken, imported, restarts>>
    BY <1>9 DEF ImportSettings, bounds, HistoryType
  <2>6. ImportType' /\ DocHeld' /\ HistoryType'
    BY <2>5 DEF ImportType, DocHeld, HistoryType
  <2> QED
    BY <1>9, <2>3, <2>4, <2>5, <2>6, SoundInv DEF InventoryType, Stored
<1> QED
  BY <1>3, <1>4, <1>5, <1>6, <1>7, <1>8, <1>9 DEF ImportStep, ImportSegment, ImportFlags

LEMMA StageKeeps == ASSUME Inv, NextStage PROVE Inv'
<1> USE DEF Inv, TypeOK
<1>1. UNCHANGED <<db, serial, edits, export, file, kind, doc, segIds, hostIds, known,
                  pending, gone, quiet, fresh, current, taken, imported, restarts>>
  BY DEF NextStage, inventory, exporting, ghosts, bounds
<1>2. ExportType' /\ HistoryType'
  BY <1>1 DEF ExportType, HistoryType
<1>3. DocHeld'
  BY <1>1 DEF NextStage, DocHeld
<1>4. doc \in File => doc.hosts \subseteq Host /\ doc.ports \subseteq Port
  BY DEF File
<1>5. ImportType'
  BY <1>1, <1>4 DEF NextStage, ImportType, DocHeld
<1> QED
  BY <1>1, <1>2, <1>3, <1>5, InvSound, SoundInv DEF InventoryType

LEMMA ForgottenType ==
  ASSUME ImportForgotten
  PROVE  /\ ImportType' /\ DocHeld' /\ quiet' \in BOOLEAN /\ fresh' \in BOOLEAN
         /\ gone' \in [subnets : SUBSET Cidrs, hosts : SUBSET (Cidrs \X IPs)]
<1>1. ImportType' /\ DocHeld'
  BY DEF ImportForgotten, ImportType, DocHeld
<1>2. Nothing \in [subnets : SUBSET Cidrs, hosts : SUBSET (Cidrs \X IPs)]
  BY DEF Nothing
<1> QED
  BY <1>1, <1>2 DEF ImportForgotten

\* What was deleted is named by subnets and addresses.
LEMMA AddressesType ==
  ASSUME NEW d, NEW n, Sound(d, n)
  PROVE  CidrsOf(d) \subseteq Cidrs /\ Addresses(d) \subseteq Cidrs \X IPs
<1>1. d.subnets \subseteq Subnet /\ d.hosts \subseteq Host /\ References(d)
  BY DEF Sound, Database
<1>2. ASSUME NEW h \in d.hosts PROVE CidrIn(d, h.subnet) \in Cidrs /\ h.ip \in IPs
  <2>1. \E s \in d.subnets : s.id = h.subnet
    BY <1>1 DEF References, Ids
  <2>2. RowOf(d.subnets, h.subnet) \in d.subnets
    BY <2>1 DEF RowOf
  <2> QED
    BY <1>1, <2>2 DEF CidrIn, Subnet, Host
<1> QED
  BY <1>1, <1>2 DEF CidrsOf, Addresses, Subnet

LEMMA OtherKeeps == ASSUME Inv, OtherEdit PROVE Inv' /\ Stored
<1> USE DEF Inv, TypeOK
<1>1. Stored /\ Sound(db, serial) /\ edits' \in 0 .. MaxEdits
  BY InvSound, EditStored, BoundAssumption DEF OtherEdit, InventoryType
<1>2. export' = [export EXCEPT !.calm = FALSE] /\ current' = {}
      /\ UNCHANGED <<file, taken, imported, restarts>>
  BY DEF OtherEdit, bounds
<1>3. ExportType'
  BY <1>2 DEF ExportType, Exports
<1>4. CASE Running
  <2> DEFINE subnets == gone.subnets \cup (CidrsOf(db) \ CidrsOf(db'))
             hosts == gone.hosts \cup (Addresses(db) \ Addresses(db'))
  <2>1. gone' = [subnets |-> subnets, hosts |-> hosts] /\ quiet' = FALSE /\ fresh' = FALSE
        /\ UNCHANGED <<kind, stage, doc, todo, segIds, hostIds, known, pending>>
    BY <1>4 DEF OtherEdit, importing
  <2>2. subnets \subseteq Cidrs /\ hosts \subseteq Cidrs \X IPs
    BY <1>1, AddressesType DEF HistoryType
  <2> HIDE DEF subnets, hosts
  <2>3. gone' \in [subnets : SUBSET Cidrs, hosts : SUBSET (Cidrs \X IPs)]
    BY <2>1, <2>2
  <2>4. HistoryType'
    BY <1>2, <2>1, <2>3 DEF HistoryType
  <2>5. ImportType' /\ DocHeld'
    BY <2>1 DEF ImportType, DocHeld
  <2> QED
    BY <1>1, <1>3, <2>4, <2>5, SoundInv DEF Stored
<1>5. CASE ~ Running
  <2>1. ImportForgotten
    BY <1>5 DEF OtherEdit
  <2>2. HistoryType'
    BY <1>2, <2>1, ForgottenType DEF HistoryType
  <2> QED
    BY <1>1, <1>3, <2>1, <2>2, ForgottenType, SoundInv DEF Stored
<1> QED
  BY <1>4, <1>5

LEMMA RestartKeeps == ASSUME Inv, Restart PROVE Inv' /\ export' = NoExport
<1> USE DEF Inv, TypeOK
<1>1. Sound(db', serial')
  <2>1. CASE db' = db /\ serial' = serial
    BY <2>1, InvSound
  <2>2. CASE /\ db' = [subnets |-> {}, hosts |-> {}, ports |-> {}, tags |-> {},
                       links |-> {}, method |-> DefaultMethod]
             /\ serial' = 0
    <3>1. db' \in Database
      BY <2>2, MethodAssumption DEF Database
    <3>2. References(db') /\ Keys(db') /\ IdsUpTo(db', 0)
      BY <2>2 DEF References, Keys, IdsUpTo, Ids
    <3> QED
      BY <2>2, <3>1, <3>2 DEF Sound
  <2> QED
    BY <2>1, <2>2 DEF Restart
<1>2. /\ export' = NoExport /\ ImportForgotten /\ UNCHANGED <<edits, file, taken, imported>>
      /\ restarts' \in 0 .. MaxRestarts
      /\ current' = current \/ current' = {}
  BY CountsAssumption DEF Restart, HistoryType
<1>3. ExportType'
  BY <1>2 DEF ExportType, Exports, NoExport
<1>4. HistoryType'
  BY <1>2, ForgottenType DEF HistoryType
<1> QED
  BY <1>1, <1>2, <1>3, <1>4, ForgottenType, SoundInv DEF InventoryType

LEMMA NextInv == Inv /\ [Next]_vars => Inv'
<1> SUFFICES ASSUME Inv, [Next]_vars PROVE Inv'
  OBVIOUS
<1>1. CASE UNCHANGED vars
  BY <1>1 DEF vars, Inv, TypeOK, InventoryType, ExportType, ImportType, HistoryType,
              NoOrphans, DocHeld
<1> QED
  BY <1>1, ExportKeeps, StartKeeps, ImportKeeps, StageKeeps, OtherKeeps, RestartKeeps
     DEF Next

LEMMA InvHolds == Spec => []Inv
  BY InitInv, NextInv, PTL DEF Spec

\* The tables, files and running imports keep their types, whatever is edited,
\* exported and imported.
THEOREM TypeCorrect == Spec => []TypeOK
<1>1. Inv => TypeOK
  BY DEF Inv
<1> QED
  BY <1>1, InvHolds, PTL

\* No step of anybody leaves a row behind whose parent is gone, or takes a key
\* twice, for any number of rows: neither ids of an import's list that went
\* stale nor ids of a file nor a restart (Open's foreign keys).
THEOREM NoOrphansHolds == Spec => []NoOrphans
<1>1. Inv => NoOrphans
  BY DEF Inv
<1> QED
  BY <1>1, InvHolds, PTL

-----------------------------------------------------------------------------
(* Exports.                                                                *)

\* Every subnet of the database is in the list read first, or is newer.
SegmentsKnown ==
  export.at # "idle" =>
    /\ export.upto <= serial
    /\ \A s \in db.subnets : s.id \in Ids(export.segs) \/ s.id > export.upto

ExportInv ==
  /\ SegmentsKnown
  /\ export.left \subseteq export.hosts
  /\ export.at # "hosts" => export.hosts = {} /\ export.ports = {}
  /\ ExportClosed

\* Steps that at most add subnets, with new ids.
LEMMA EditKeepsExport ==
  ASSUME Inv, ExportInv, Stored \/ (db' = db /\ serial' = serial),
         \A f \in DOMAIN export \ {"calm"} : export'[f] = export[f],
         DOMAIN export' = DOMAIN export
  PROVE  ExportInv'
<1>1. export \in Exports /\ serial \in Nat /\ Sound(db, serial)
  BY InvSound DEF Inv, TypeOK, InventoryType, ExportType
<1>2. /\ export'.at = export.at /\ export'.segs = export.segs /\ export'.hosts = export.hosts
      /\ export'.ports = export.ports /\ export'.left = export.left
      /\ export'.upto = export.upto /\ export.upto \in Nat
  BY <1>1 DEF Exports
<1>3. SegmentsKnown'
  <2>1. CASE db' = db /\ serial' = serial
    BY <1>2, <2>1 DEF ExportInv, SegmentsKnown
  <2>2. CASE Stored
    <3>1. serial' \in Nat /\ \A s \in db'.subnets : s.id \in Nat
      BY <2>2 DEF Stored, Sound, Database, Subnet
    <3>2. \A s \in db'.subnets :
            s.id > serial \/ \E t \in db.subnets : t.id = s.id
      BY <2>2 DEF Stored, Ids
    <3> QED
      BY <1>1, <1>2, <2>2, <3>1, <3>2 DEF ExportInv, SegmentsKnown, Stored
  <2> QED
    BY <2>1, <2>2
<1> QED
  BY <1>2, <1>3 DEF ExportInv, ExportClosed

\* A store call of an import touches nothing of a running export but its calm.
LEMMA ImportCalm ==
  ASSUME Inv, ImportStep
  PROVE  /\ \A f \in DOMAIN export \ {"calm"} : export'[f] = export[f]
         /\ DOMAIN export' = DOMAIN export
<1>1. ASSUME NEW e, Store(e)
      PROVE  \E calm \in BOOLEAN : export' = [export EXCEPT !.calm = calm]
  <2>1. (export.calm /\ e = db) \in BOOLEAN
    BY Zenon
  <2> QED
    BY <1>1, <2>1, Zenon DEF Store
<1>2. ASSUME ImportSettings
      PROVE  \E calm \in BOOLEAN : export' = [export EXCEPT !.calm = calm]
  <2>1. (export.calm /\ db' = db) \in BOOLEAN
    BY Zenon
  <2> QED
    BY <1>2, <2>1, Zenon DEF ImportSettings
<1>3. ASSUME Fail \/ \E row : Skip(row) PROVE export' = export
  BY <1>3 DEF Fail, Skip, exporting
<1>4. \/ export' = export
      \/ \E calm \in BOOLEAN : export' = [export EXCEPT !.calm = calm]
  BY <1>1, <1>2, <1>3 DEF ImportStep, ImportSegment, ImportFlags, ImportHostRow,
     ImportPortRow, ImportAddress, ImportAddressPort
<1> QED
  BY <1>4 DEF Inv, TypeOK, ExportType, Exports

LEMMA NextExport == Inv /\ ExportInv /\ [Next]_vars => ExportInv'
<1> SUFFICES ASSUME Inv, ExportInv, [Next]_vars PROVE ExportInv'
  OBVIOUS
<1>1. /\ export \in Exports /\ serial \in Nat /\ db.subnets \subseteq Subnet
      /\ References(db) /\ IdsUpTo(db, serial)
  BY DEF Inv, TypeOK, InventoryType, ExportType, NoOrphans, Database
<1>2. CASE ExportSubnets
  <2>1. export' = [NoExport EXCEPT !.at = "subnets", !.segs = db.subnets, !.upto = serial]
        /\ db' = db /\ serial' = serial
    BY <1>2 DEF ExportSubnets, inventory
  <2> QED
    BY <1>1, <2>1 DEF NoExport, ExportInv, SegmentsKnown, ExportClosed, Ids
<1>3. CASE ExportHosts
  <2>1. /\ export' = [export EXCEPT !.at = "hosts", !.hosts = db.hosts, !.left = db.hosts]
        /\ export.at = "subnets" /\ db' = db /\ serial' = serial
    BY <1>3 DEF ExportHosts, inventory
  <2>2. /\ export'.at = "hosts" /\ export'.hosts = db.hosts /\ export'.left = db.hosts
        /\ export'.ports = {} /\ export'.segs = export.segs /\ export'.upto = export.upto
    BY <1>1, <2>1 DEF Exports, ExportInv
  <2>3. \A h \in db.hosts : \E s \in db.subnets : s.id = h.subnet
    BY <1>1 DEF References, Ids
  <2> QED
    BY <2>1, <2>2, <2>3 DEF ExportInv, SegmentsKnown, ExportClosed
<1>4. ASSUME NEW h \in export.left, ExportPorts(h) PROVE ExportInv'
  <2>1. /\ export' = [export EXCEPT !.left = @ \ {h},
                        !.ports = @ \cup {p \in db.ports : p.host = h.id}]
        /\ export.at = "hosts" /\ db' = db /\ serial' = serial
    BY <1>4 DEF ExportPorts, inventory
  <2>2. /\ export'.at = "hosts" /\ export'.hosts = export.hosts
        /\ export'.left = export.left \ {h}
        /\ export'.ports = export.ports \cup {p \in db.ports : p.host = h.id}
        /\ export'.segs = export.segs /\ export'.upto = export.upto
    BY <1>1, <2>1 DEF Exports
  <2>3. h.id \in Ids(export.hosts)
    BY DEF ExportInv, Ids
  <2> QED
    BY <2>1, <2>2, <2>3 DEF ExportInv, SegmentsKnown, ExportClosed
<1>5. CASE ExportDone \/ Restart
  <2>1. export' = NoExport
    BY <1>5 DEF ExportDone, Restart
  <2> QED
    BY <2>1 DEF NoExport, ExportInv, SegmentsKnown, ExportClosed
<1>6. CASE \/ \E k \in {"map", "system"} : StartImport(k)
           \/ \E k \in {"dnsrecon", "nmap"}, rows \in SUBSET Scanned \ {{}} :
                StartAddressImport(k, rows)
           \/ NextStage \/ UNCHANGED vars
  <2>1. export' = export /\ db' = db /\ serial' = serial
    BY <1>6 DEF StartImport, StartAddressImport, Start, NextStage, inventory, exporting, vars
  <2> QED
    BY <2>1, EditKeepsExport
<1>7. CASE ImportStep
  <2>1. /\ \A f \in DOMAIN export \ {"calm"} : export'[f] = export[f]
        /\ DOMAIN export' = DOMAIN export
    BY <1>7, ImportCalm
  <2>2. Stored \/ (db' = db /\ serial' = serial)
    BY <1>7, ImportKeeps
  <2> QED
    BY <2>1, <2>2, EditKeepsExport
<1>8. CASE OtherEdit
  <2>1. /\ \A f \in DOMAIN export \ {"calm"} : export'[f] = export[f]
        /\ DOMAIN export' = DOMAIN export
    BY <1>1, <1>8 DEF Exports, OtherEdit
  <2> QED
    BY <1>8, <2>1, OtherKeeps, EditKeepsExport
<1> QED
  BY <1>2, <1>3, <1>4, <1>5, <1>6, <1>7, <1>8 DEF Next

\* However many requests edit the tables between the reads of an export, hosts
\* refer to segments in the file or to newer ones, and ports to hosts in it
\* (exportNetworkMap's order of reads).
THEOREM ExportClosedHolds == Spec => []ExportClosed
<1>1. Init => ExportInv
  BY DEF Init, NoExport, ExportInv, SegmentsKnown, ExportClosed
<1>2. Inv /\ ExportInv /\ [Next]_vars => ExportInv'
  BY NextExport
<1>3. ExportInv => ExportClosed
  BY DEF ExportInv
<1> QED
  BY <1>1, <1>2, <1>3, InvHolds, PTL DEF Spec

-----------------------------------------------------------------------------
(* What store calls keep.                                                  *)

\* Every row of d is in e, under its key; only names, flags and states may differ.
Keeps(d, e) ==
  /\ \A s \in d.subnets : \E t \in e.subnets : t.id = s.id /\ t.cidr = s.cidr
  /\ \A h \in d.hosts : \E g \in e.hosts :
       g.id = h.id /\ g.subnet = h.subnet /\ g.ip = h.ip
  /\ \A p \in d.ports : p \in e.ports \/ [p EXCEPT !.open = TRUE] \in e.ports
  /\ e.tags = d.tags /\ e.links = d.links
\* Every row of e is a row of d, or new.
NewAbove(d, n, e) ==
  /\ \A t \in e.subnets :
       t.id > n \/ \E s \in d.subnets : s.id = t.id /\ s.cidr = t.cidr
  /\ \A g \in e.hosts :
       g.id > n \/ \E h \in d.hosts : h.id = g.id /\ h.subnet = g.subnet /\ h.ip = g.ip
\* Names are filled in, never replaced.
NamesKept(d, e) == \A h \in d.hosts : h \in e.hosts \/ h.name = Blank

\* A store call of an import.
Adds(d, n, e) == Keeps(d, e) /\ NewAbove(d, n, e)

LEMMA NothingAdds ==
  ASSUME NEW d, NEW n, Sound(d, n) PROVE Adds(d, n, d) /\ NamesKept(d, d)
  BY DEF Adds, Keeps, NewAbove, NamesKept

LEMMA UpsertAutoSubnetAdds ==
  ASSUME NEW d, NEW n, Sound(d, n), NEW c \in Cidrs
  PROVE  LET e == UpsertAutoSubnet(d, c, n + 1) IN
         /\ Adds(d, n, e) /\ NamesKept(d, e) /\ d.subnets \subseteq e.subnets
         /\ e.hosts = d.hosts /\ e.ports = d.ports
         /\ \E s \in e.subnets : s.cidr = c
<1> DEFINE e == UpsertAutoSubnet(d, c, n + 1)
           new == [id |-> n + 1, cidr |-> c, enabled |-> TRUE]
<1>1. d \in Database /\ n \in Nat
  BY DEF Sound
<1>2. CASE \E s \in d.subnets : s.cidr = c
  <2>1. e = d
    BY <1>2 DEF UpsertAutoSubnet
  <2> QED
    BY <1>2, <2>1, NothingAdds
<1>3. CASE ~ \E s \in d.subnets : s.cidr = c
  <2>1. /\ e.subnets = d.subnets \cup {new} /\ e.hosts = d.hosts /\ e.ports = d.ports
        /\ e.tags = d.tags /\ e.links = d.links
    BY <1>1, <1>3 DEF UpsertAutoSubnet, InsertSubnet, Database
  <2>2. new.id > n /\ new.cidr = c
    BY <1>1
  <2> HIDE DEF e, new
  <2>3. Adds(d, n, e) /\ NamesKept(d, e)
    BY <2>1, <2>2 DEF Adds, Keeps, NewAbove, NamesKept
  <2> QED
    BY <2>1, <2>2, <2>3 DEF e
<1> QED
  BY <1>2, <1>3

LEMMA SetSubnetEnabledAdds ==
  ASSUME NEW d, NEW n, Sound(d, n), NEW id, NEW on \in BOOLEAN
  PROVE  LET e == SetSubnetEnabled(d, id, on) IN
         /\ Adds(d, n, e) /\ NamesKept(d, e) /\ e.hosts = d.hosts /\ e.ports = d.ports
         /\ e.subnets = {IF s.id = id THEN [s EXCEPT !.enabled = on] ELSE s : s \in d.subnets}
<1> DEFINE e == SetSubnetEnabled(d, id, on)
           set(s) == IF s.id = id THEN [s EXCEPT !.enabled = on] ELSE s
<1>1. d \in Database /\ d.subnets \subseteq Subnet
  BY DEF Sound, Database
<1>2. /\ e.subnets = {set(s) : s \in d.subnets} /\ e.hosts = d.hosts /\ e.ports = d.ports
      /\ e.tags = d.tags /\ e.links = d.links
  BY <1>1 DEF SetSubnetEnabled, Database
<1>3. \A s \in d.subnets : set(s).id = s.id /\ set(s).cidr = s.cidr
  BY <1>1 DEF Subnet
<1> HIDE DEF e, set
<1>4. Adds(d, n, e) /\ NamesKept(d, e)
  BY <1>2, <1>3 DEF Adds, Keeps, NewAbove, NamesKept
<1> QED
  BY <1>2, <1>4 DEF e, set

LEMMA InsertHostAdds ==
  ASSUME NEW d, NEW n, Sound(d, n), NEW sn, NEW ip, NEW name
  PROVE  LET e == InsertHost(d, sn, ip, name, n + 1) IN
         /\ Adds(d, n, e) /\ NamesKept(d, e)
         /\ e.hosts = d.hosts \cup {[id |-> n + 1, subnet |-> sn, ip |-> ip, name |-> name]}
         /\ e.subnets = d.subnets /\ e.ports = d.ports
<1> DEFINE e == InsertHost(d, sn, ip, name, n + 1)
           new == [id |-> n + 1, subnet |-> sn, ip |-> ip, name |-> name]
<1>1. d \in Database /\ n \in Nat
  BY DEF Sound
<1>2. /\ e.hosts = d.hosts \cup {new} /\ e.subnets = d.subnets /\ e.ports = d.ports
      /\ e.tags = d.tags /\ e.links = d.links
  BY <1>1 DEF InsertHost, Database
<1>3. new.id > n
  BY <1>1
<1> HIDE DEF e, new
<1>4. Adds(d, n, e) /\ NamesKept(d, e)
  BY <1>2, <1>3 DEF Adds, Keeps, NewAbove, NamesKept
<1> QED
  BY <1>2, <1>4 DEF e, new

\* A call that only changes the names of hosts.
LEMMA RenamedAdds ==
  ASSUME NEW d, NEW n, Sound(d, n), NEW set,
         \A h \in d.hosts :
           set[h].id = h.id /\ set[h].subnet = h.subnet /\ set[h].ip = h.ip,
         NEW e,
         e.subnets = d.subnets, e.ports = d.ports, e.tags = d.tags, e.links = d.links,
         e.hosts = {set[h] : h \in d.hosts}
  PROVE  Adds(d, n, e)
  BY DEF Adds, Keeps, NewAbove

LEMMA NameHostAdds ==
  ASSUME NEW d, NEW n, Sound(d, n), NEW id, NEW name
  PROVE  LET e == NameHost(d, id, name) IN
         Adds(d, n, e) /\ e.subnets = d.subnets /\ e.ports = d.ports
<1> DEFINE set == [h \in d.hosts |-> IF h.id = id THEN [h EXCEPT !.name = name] ELSE h]
           e == NameHost(d, id, name)
<1>1. d \in Database /\ d.hosts \subseteq Host
  BY DEF Sound, Database
<1>2. \A h \in d.hosts : set[h].id = h.id /\ set[h].subnet = h.subnet /\ set[h].ip = h.ip
  BY <1>1 DEF Host
<1>3. /\ e.subnets = d.subnets /\ e.ports = d.ports /\ e.tags = d.tags /\ e.links = d.links
      /\ e.hosts = {set[h] : h \in d.hosts}
  BY <1>1 DEF NameHost, Database
<1> HIDE DEF set, e
<1>4. Adds(d, n, e)
  BY <1>2, <1>3, RenamedAdds
<1> QED
  BY <1>3, <1>4 DEF e

LEMMA UpsertHostAdds ==
  ASSUME NEW d, NEW n, Sound(d, n), NEW sn, NEW ip, NEW name
  PROVE  LET e == UpsertHost(d, sn, ip, name, n + 1) IN
         Adds(d, n, e) /\ e.subnets = d.subnets /\ e.ports = d.ports
  BY NothingAdds, InsertHostAdds, NameHostAdds DEF UpsertHost

LEMMA ImportHostAdds ==
  ASSUME NEW d, NEW n, Sound(d, n), NEW sn, NEW ip, NEW name
  PROVE  LET e == ImportHost(d, sn, ip, name, n + 1) IN
         /\ Adds(d, n, e) /\ NamesKept(d, e) /\ e.subnets = d.subnets /\ e.ports = d.ports
<1> DEFINE e == ImportHost(d, sn, ip, name, n + 1)
<1>1. CASE HostsAt(d, sn, ip) = {}
  BY <1>1, InsertHostAdds DEF ImportHost
<1>2. CASE HostsAt(d, sn, ip) # {}
  <2> DEFINE fills(h) == h \in HostsAt(d, sn, ip) /\ h.name = Blank
             set == [h \in d.hosts |-> IF fills(h) THEN [h EXCEPT !.name = name] ELSE h]
  <2>1. d \in Database /\ d.hosts \subseteq Host
    BY DEF Sound, Database
  <2>2. \A h \in d.hosts :
          /\ set[h].id = h.id /\ set[h].subnet = h.subnet /\ set[h].ip = h.ip
          /\ set[h] = h \/ h.name = Blank
    BY <2>1 DEF Host
  <2>3. /\ e.subnets = d.subnets /\ e.ports = d.ports /\ e.tags = d.tags
        /\ e.links = d.links /\ e.hosts = {set[h] : h \in d.hosts}
    BY <1>2, <2>1 DEF ImportHost, Database
  <2> HIDE DEF set, e
  <2>4. Adds(d, n, e) /\ NamesKept(d, e)
    BY <2>2, <2>3, RenamedAdds DEF NamesKept
  <2> QED
    BY <2>3, <2>4 DEF e
<1> QED
  BY <1>1, <1>2

LEMMA UpsertPortAdds ==
  ASSUME NEW d, NEW n, Sound(d, n), NEW h, NEW p
  PROVE  LET e == UpsertPort(d, h, p) IN
         /\ Adds(d, n, e) /\ NamesKept(d, e) /\ e.subnets = d.subnets /\ e.hosts = d.hosts
         /\ e.ports = (d.ports \ PortsAt(d, h, p)) \cup {[host |-> h, port |-> p, open |-> TRUE]}
<1> DEFINE e == UpsertPort(d, h, p)
           new == [host |-> h, port |-> p, open |-> TRUE]
<1>1. d \in Database /\ d.ports \subseteq Port
  BY DEF Sound, Database
<1>2. /\ e.ports = (d.ports \ PortsAt(d, h, p)) \cup {new}
      /\ e.hosts = d.hosts /\ e.subnets = d.subnets /\ e.tags = d.tags /\ e.links = d.links
  BY <1>1 DEF UpsertPort, Database
<1>3. ASSUME NEW q \in PortsAt(d, h, p) PROVE [q EXCEPT !.open = TRUE] = new
  <2>1. q \in Port /\ q.host = h /\ q.port = p
    BY <1>1 DEF PortsAt
  <2>2. q = [host |-> h, port |-> p, open |-> q.open]
    BY <2>1 DEF Port
  <2>3. ASSUME NEW x, NEW y
        PROVE  [[host |-> h, port |-> p, open |-> x] EXCEPT !.open = y]
                 = [host |-> h, port |-> p, open |-> y]
    OBVIOUS
  <2> QED
    BY <2>2, <2>3, Zenon
<1> HIDE DEF e, new
<1>4. \A q \in d.ports : q \in e.ports \/ [q EXCEPT !.open = TRUE] \in e.ports
  BY <1>2, <1>3
<1>5. Adds(d, n, e) /\ NamesKept(d, e)
  BY <1>2, <1>4 DEF Adds, Keeps, NewAbove, NamesKept
<1> QED
  BY <1>2, <1>5 DEF e, new

\* An import step, with the exceptions that depend on the kind of file.
LEMMA ImportAdds ==
  ASSUME Inv, ImportStep
  PROVE  /\ Adds(db, serial, db')
         /\ db.subnets \subseteq db'.subnets \/ kind = "system"
         /\ NamesKept(db, db') \/ kind = "nmap"
<1>1. Sound(db, serial) /\ New = serial + 1 /\ ImportType /\ DocHeld
  BY InvSound DEF New, Inv, TypeOK
<1>2. CASE db' = db
  BY <1>1, <1>2, NothingAdds
<1>3. ASSUME Fail \/ \E row : Skip(row) PROVE db' = db
  BY <1>3 DEF Fail, Skip, inventory
<1>4. ASSUME NEW seg \in todo, stage = "segments", ImportSegment(seg)
      PROVE  Adds(db, serial, db') /\ db.subnets \subseteq db'.subnets /\ NamesKept(db, db')
  <2>1. seg.cidr \in Cidrs
    BY <1>1, <1>4 DEF ImportType, Subnet
  <2>2. db' = UpsertAutoSubnet(db, seg.cidr, New)
    BY <1>4 DEF ImportSegment, Store
  <2> QED
    BY <1>1, <2>1, <2>2, UpsertAutoSubnetAdds
<1>5. ASSUME NEW seg \in todo, ImportFlags(seg)
      PROVE  Adds(db, serial, db') /\ kind = "system" /\ NamesKept(db, db')
  <2>1. seg.enabled \in BOOLEAN /\ kind = "system"
    BY <1>1, <1>5 DEF ImportFlags, ImportType, Subnet, DocHeld
  <2>2. \E id : db' = SetSubnetEnabled(db, id, seg.enabled)
    BY <1>5 DEF ImportFlags, Store
  <2> QED
    BY <1>1, <2>1, <2>2, SetSubnetEnabledAdds
<1>6. ASSUME NEW h \in todo, ImportHostRow(h), db' # db
      PROVE  Adds(db, serial, db') /\ db'.subnets = db.subnets /\ NamesKept(db, db')
  <2>1. \E sn : db' = ImportHost(db, sn, h.ip, h.name, New)
    BY <1>3, <1>6 DEF ImportHostRow, Store
  <2> QED
    BY <1>1, <2>1, ImportHostAdds
<1>7. ASSUME NEW p \in todo, ImportPortRow(p), db' # db
      PROVE  Adds(db, serial, db') /\ db'.subnets = db.subnets /\ NamesKept(db, db')
  <2>1. \E h : db' = UpsertPort(db, h, p.port)
    BY <1>3, <1>7 DEF ImportPortRow, Store
  <2> QED
    BY <1>1, <2>1, UpsertPortAdds
<1>8. ASSUME NEW a \in todo, stage = "addresses", ImportAddress(a), db' # db
      PROVE  /\ Adds(db, serial, db') /\ db.subnets \subseteq db'.subnets
             /\ NamesKept(db, db') \/ kind = "nmap"
  <2>1. a.ip \in IPs /\ Slash24[a.ip] \in Cidrs
    BY <1>1, <1>8, AddressAssumption DEF ImportType, Address
  <2>2. \/ db' = UpsertAutoSubnet(db, Slash24[a.ip], New)
        \/ kind = "nmap" /\ \E sn : db' = UpsertHost(db, sn, a.ip, a.name, New)
        \/ \E sn : db' = ImportHost(db, sn, a.ip, a.name, New)
    BY <1>3, <1>8 DEF ImportAddress, Store
  <2> QED
    BY <1>1, <2>1, <2>2, UpsertAutoSubnetAdds, UpsertHostAdds, ImportHostAdds
<1>9. ASSUME NEW x \in pending, ImportAddressPort(x), db' # db
      PROVE  Adds(db, serial, db') /\ db'.subnets = db.subnets /\ NamesKept(db, db')
  <2>1. db' = UpsertPort(db, x[1], x[2])
    BY <1>3, <1>9 DEF ImportAddressPort, Store
  <2> QED
    BY <1>1, <2>1, UpsertPortAdds
<1>10. ASSUME ImportSettings, db' # db
       PROVE  Adds(db, serial, db') /\ db'.subnets = db.subnets /\ NamesKept(db, db')
  <2>1. db' = [db EXCEPT !.method = doc.method] /\ db \in Database
    BY <1>1, <1>10 DEF ImportSettings, Sound
  <2>2. /\ db'.subnets = db.subnets /\ db'.hosts = db.hosts /\ db'.ports = db.ports
        /\ db'.tags = db.tags /\ db'.links = db.links
    BY <2>1 DEF Database
  <2> QED
    BY <2>2 DEF Adds, Keeps, NewAbove, NamesKept
<1> QED
  BY <1>2, <1>4, <1>5, <1>6, <1>7, <1>8, <1>9, <1>10
     DEF ImportStep, ImportSegment

\* Whatever is imported, in whatever order and over whatever rows: an import adds
\* rows, fills in names and opens ports, and takes nothing away.
THEOREM ImportOnlyAddsHolds == Spec => ImportOnlyAdds
<1> DEFINE OnlyAdds ==
      ImportStep =>
        /\ \A s \in db.subnets :
             s \in db'.subnets \/ (kind = "system" /\ s.id \in Ids(db'.subnets))
        /\ \A h \in db.hosts :
             \/ h \in db'.hosts
             \/ (kind = "nmap" \/ h.name = Blank) /\ h.id \in Ids(db'.hosts)
        /\ \A p \in db.ports : p \in db'.ports \/ [p EXCEPT !.open = TRUE] \in db'.ports
        /\ db'.tags = db.tags /\ db'.links = db.links
<1>1. ASSUME Inv, [Next]_vars PROVE [OnlyAdds]_vars
  <2> SUFFICES ASSUME ImportStep PROVE OnlyAdds
    OBVIOUS
  <2>1. /\ Adds(db, serial, db')
        /\ db.subnets \subseteq db'.subnets \/ kind = "system"
        /\ NamesKept(db, db') \/ kind = "nmap"
    BY <1>1, ImportAdds
  <2>2. /\ \A s \in db.subnets : s.id \in Ids(db'.subnets)
        /\ \A h \in db.hosts : h.id \in Ids(db'.hosts)
    BY <2>1 DEF Adds, Keeps, Ids
  <2> QED
    BY <2>1, <2>2 DEF Adds, Keeps, NamesKept
<1>2. Inv /\ [Next]_vars => [OnlyAdds]_vars
  BY <1>1
<1>3. ImportOnlyAdds <=> [][OnlyAdds]_vars
  BY DEF ImportOnlyAdds
<1> QED
  BY <1>2, <1>3, InvHolds, PTL DEF Spec

-----------------------------------------------------------------------------
(* What edits take away.                                                   *)

\* A row of d that is not in e has left its key free; ports go with their hosts.
Moves(d, n, e) ==
  /\ NewAbove(d, n, e)
  /\ \A s \in d.subnets : s.id \in Ids(e.subnets) \/ s.cidr \notin CidrsOf(e)
  /\ \A h \in d.hosts :
       h.id \in Ids(e.hosts) \/ <<CidrIn(d, h.subnet), h.ip>> \notin Addresses(e)
  /\ \A p \in d.ports : p.host \notin Ids(e.hosts) \/ PortsAt(e, p.host, p.port) # {}

LEMMA RowIs ==
  ASSUME NEW d, NEW n, Sound(d, n), NEW s \in d.subnets
  PROVE  CidrIn(d, s.id) = s.cidr
<1>1. \A t \in d.subnets : t.id = s.id => t = s
  BY DEF Sound, Keys
<1>2. RowOf(d.subnets, s.id) = s
  BY <1>1 DEF RowOf
<1> QED
  BY <1>2 DEF CidrIn

LEMMA HostCidr ==
  ASSUME NEW d, NEW n, Sound(d, n), NEW h \in d.hosts
  PROVE  \E s \in d.subnets : s.id = h.subnet /\ CidrIn(d, h.subnet) = s.cidr
<1>1. PICK s \in d.subnets : s.id = h.subnet
  BY DEF Sound, References, Ids
<1> QED
  BY <1>1, RowIs

LEMMA AddsMoves ==
  ASSUME NEW d, NEW n, Sound(d, n), NEW e, Adds(d, n, e) PROVE Moves(d, n, e)
<1>1. ASSUME NEW p \in d.ports PROVE PortsAt(e, p.host, p.port) # {}
  <2>1. p \in Port /\ (p \in e.ports \/ [p EXCEPT !.open = TRUE] \in e.ports)
    BY DEF Adds, Keeps, Sound, Database
  <2>2. \A q : q = p \/ q = [p EXCEPT !.open = TRUE] => q.host = p.host /\ q.port = p.port
    BY <2>1 DEF Port
  <2> QED
    BY <2>1, <2>2 DEF PortsAt
<1> QED
  BY <1>1 DEF Adds, Keeps, Moves, Ids

LEMMA FewerMoves ==
  ASSUME NEW d, NEW n, Sound(d, n), NEW e, NEW m, Sound(e, m),
         e.subnets \subseteq d.subnets, e.hosts \subseteq d.hosts,
         \A p \in d.ports : p.host \notin Ids(e.hosts) \/ PortsAt(e, p.host, p.port) # {}
  PROVE  Moves(d, n, e)
<1>1. NewAbove(d, n, e)
  BY DEF NewAbove
<1>2. ASSUME NEW s \in d.subnets, s.cidr \in CidrsOf(e) PROVE s.id \in Ids(e.subnets)
  <2>1. PICK t \in e.subnets : t.cidr = s.cidr
    BY <1>2 DEF CidrsOf
  <2>2. t = s
    BY <2>1 DEF Sound, Keys
  <2> QED
    BY <2>2 DEF Ids
<1>3. ASSUME NEW h \in d.hosts, <<CidrIn(d, h.subnet), h.ip>> \in Addresses(e)
      PROVE  h.id \in Ids(e.hosts)
  <2>1. PICK g \in e.hosts : CidrIn(e, g.subnet) = CidrIn(d, h.subnet) /\ g.ip = h.ip
    BY <1>3 DEF Addresses
  <2>2. PICK t \in e.subnets : t.id = g.subnet /\ CidrIn(e, g.subnet) = t.cidr
    BY HostCidr
  <2>3. PICK s \in d.subnets : s.id = h.subnet /\ CidrIn(d, h.subnet) = s.cidr
    BY HostCidr
  <2>4. t = s
    BY <2>1, <2>2, <2>3 DEF Sound, Keys
  <2>5. g = h
    BY <2>1, <2>2, <2>3, <2>4 DEF Sound, Keys
  <2> QED
    BY <2>5 DEF Ids
<1> QED
  BY <1>1, <1>2, <1>3 DEF Moves

LEMMA DropHostsMoves ==
  ASSUME NEW d, NEW n, Sound(d, n), NEW these PROVE Moves(d, n, DropHosts(d, these))
<1> DEFINE e == DropHosts(d, these)
<1>1. e.subnets = d.subnets /\ e.hosts = {h \in d.hosts : h.id \notin these}
      /\ e.ports = {p \in d.ports : p.host \notin these}
  BY DEF DropHosts, Sound, Database
<1>2. Sound(e, n + 1)
  BY DropHostsSound DEF Follows
<1> HIDE DEF e
<1>3. \A p \in d.ports : p.host \notin Ids(e.hosts) \/ PortsAt(e, p.host, p.port) # {}
  BY <1>1 DEF Ids, PortsAt
<1>4. Moves(d, n, e)
  BY <1>1, <1>2, <1>3, FewerMoves
<1> QED
  BY <1>4 DEF e

LEMMA DropSubnetMoves ==
  ASSUME NEW d, NEW n, Sound(d, n), NEW id PROVE Moves(d, n, DropSubnet(d, id))
<1> DEFINE e == DropSubnet(d, id)
           these == {h.id : h \in {g \in d.hosts : g.subnet = id}}
<1>1. e.subnets = {s \in d.subnets : s.id # id}
      /\ e.hosts = {h \in d.hosts : h.id \notin these}
      /\ e.ports = {p \in d.ports : p.host \notin these}
  BY DEF DropSubnet, DropHosts, Sound, Database
<1>2. Sound(e, n + 1)
  BY DropSubnetSound DEF Follows
<1> HIDE DEF e, these
<1>3. \A p \in d.ports : p.host \notin Ids(e.hosts) \/ PortsAt(e, p.host, p.port) # {}
  BY <1>1 DEF Ids, PortsAt
<1>4. Moves(d, n, e)
  BY <1>1, <1>2, <1>3, FewerMoves
<1> QED
  BY <1>4 DEF e

LEMMA ClosePortMoves ==
  ASSUME NEW d, NEW n, Sound(d, n), NEW h, NEW p PROVE Moves(d, n, ClosePort(d, h, p))
<1> DEFINE set(q) == IF q \in PortsAt(d, h, p) THEN [q EXCEPT !.open = FALSE] ELSE q
           e == ClosePort(d, h, p)
<1>1. d \in Database /\ d.ports \subseteq Port
  BY DEF Sound, Database
<1>2. e.subnets = d.subnets /\ e.hosts = d.hosts /\ e.ports = {set(q) : q \in d.ports}
  BY <1>1 DEF ClosePort, Database
<1>3. \A q \in d.ports : set(q).host = q.host /\ set(q).port = q.port
  BY <1>1 DEF Port
<1>4. Sound(e, n + 1)
  BY ClosePortSound DEF Follows
<1> HIDE DEF e, set
<1>5. \A q \in d.ports : PortsAt(e, q.host, q.port) # {}
  BY <1>2, <1>3 DEF PortsAt
<1>6. Moves(d, n, e)
  BY <1>2, <1>4, <1>5, FewerMoves
<1> QED
  BY <1>6 DEF e

\* Tags and settings are apart.
LEMMA ApartMoves ==
  ASSUME NEW d, NEW n, Sound(d, n), NEW e,
         e.subnets = d.subnets, e.hosts = d.hosts, e.ports = d.ports
  PROVE  Moves(d, n, e)
  BY DEF Moves, NewAbove, Ids, PortsAt

LEMMA EditMoves ==
  ASSUME Sound(db, serial), EditStep PROVE Moves(db, serial, db')
<1>1. New = serial + 1 /\ db \in Database
  BY DEF New, Sound
<1>2. ASSUME NEW c \in Cidrs, AddSubnet(c) PROVE Moves(db, serial, db')
  <2>1. db' = UpsertAutoSubnet(db, c, serial + 1)
    BY <1>1, <1>2 DEF AddSubnet, Edit, UpsertAutoSubnet
  <2> QED
    BY <2>1, UpsertAutoSubnetAdds, AddsMoves
<1>3. ASSUME NEW s \in db.subnets, UpdateSubnet(s) \/ DeleteSubnet(s)
      PROVE  Moves(db, serial, db')
  <2>1. (~ s.enabled) \in BOOLEAN
    BY Zenon
  <2>2. CASE UpdateSubnet(s)
    <3>1. \E on \in BOOLEAN : db' = SetSubnetEnabled(db, s.id, on)
      BY <2>1, <2>2 DEF UpdateSubnet, Edit
    <3> QED
      BY <3>1, SetSubnetEnabledAdds, AddsMoves
  <2>3. CASE DeleteSubnet(s)
    BY <2>3, DropSubnetMoves DEF DeleteSubnet, Edit
  <2> QED
    BY <1>3, <2>2, <2>3
<1>4. ASSUME NEW s \in db.subnets, NEW ip \in IPs, AddHost(s, ip) \/ ScanHost(s, ip)
      PROVE  Moves(db, serial, db')
  <2>1. \E name \in Names : \/ db' = InsertHost(db, s.id, ip, name, serial + 1)
                            \/ db' = UpsertHost(db, s.id, ip, name, serial + 1)
    BY <1>1, <1>4 DEF AddHost, ScanHost, Edit
  <2> QED
    BY <2>1, InsertHostAdds, UpsertHostAdds, AddsMoves
<1>5. ASSUME NEW h \in db.hosts, UpdateHost(h) \/ DeleteHost(h)
      PROVE  Moves(db, serial, db')
  BY <1>5, NameHostAdds, AddsMoves, DropHostsMoves DEF UpdateHost, DeleteHost, Edit
<1>6. ASSUME NEW h \in db.hosts, NEW p \in PortNumbers, ScanPort(h, p)
      PROVE  Moves(db, serial, db')
  BY <1>6, UpsertPortAdds, AddsMoves, ClosePortMoves DEF ScanPort, Edit
<1>7. ASSUME NEW h \in db.hosts, NEW t \in db.tags, TagHost(h, t)
      PROVE  Moves(db, serial, db')
  <2>1. \E links : db' = [db EXCEPT !.links = links]
    BY <1>7 DEF TagHost, Edit
  <2> QED
    BY <1>1, <2>1, ApartMoves DEF Database
<1>8. ASSUME ClearAllHosts PROVE Moves(db, serial, db')
  BY <1>8, DropHostsMoves DEF ClearAllHosts, Edit
<1>9. ASSUME CreateTag \/ (\E t \in db.tags : DeleteTag(t)) \/ \E m \in Methods : PutSettings(m)
      PROVE  Moves(db, serial, db')
  <2>1. db'.subnets = db.subnets /\ db'.hosts = db.hosts /\ db'.ports = db.ports
    BY <1>1, <1>9 DEF CreateTag, DeleteTag, PutSettings, DropTag, Edit, Database
  <2> QED
    BY <2>1, ApartMoves
<1> QED
  BY <1>2, <1>3, <1>4, <1>5, <1>6, <1>7, <1>8, <1>9 DEF EditStep

-----------------------------------------------------------------------------
(* What an import restores.                                                *)

\* A file's ids, addresses and CIDRs are as unique as those of the tables.
FileKeys(f) ==
  /\ \A s, t \in f.segs : s.id = t.id \/ s.cidr = t.cidr => s = t
  /\ \A g, h \in f.hosts :
       g.id = h.id \/ (g.subnet = h.subnet /\ g.ip = h.ip) => g = h
FilesKeyed ==
  /\ FileKeys(export)
  /\ file # NoFile => FileKeys(file)
  /\ doc # NoFile => FileKeys(doc)

\* A row id an import holds is that of the row it stands for, which is there
\* unless it was deleted.
SegmentFound(m) ==
  /\ m[2] <= serial
  /\ \E seg \in doc.segs :
       /\ seg.id = m[1]
       /\ \A s \in db.subnets : s.id = m[2] => s.cidr = seg.cidr
       /\ m[2] \in Ids(db.subnets) \/ seg.cidr \in gone.subnets
HostFound(m) ==
  /\ m[2] <= serial
  /\ \E h \in doc.hosts, seg \in doc.segs :
       /\ h.id = m[1] /\ seg.id = h.subnet
       /\ \A g \in db.hosts :
            g.id = m[2] => g.ip = h.ip /\ CidrIn(db, g.subnet) = seg.cidr
       /\ m[2] \in Ids(db.hosts) \/ <<seg.cidr, h.ip>> \in gone.hosts
RowsFound ==
  /\ \A m \in segIds : SegmentFound(m)
  /\ \A m \in hostIds : HostFound(m)
  /\ \A k \in known : k.id \in Ids(db.subnets) \/ gone.subnets # {}
  /\ \A r \in pending : r[1] \in Ids(db.hosts) \/ gone.hosts # {}
  /\ \A l, m \in hostIds : l[1] = m[1] => l = m

\* Every row of the stages before is done, and of this stage what is not left.
SegmentsDone ==
  stage \in {"segments", "flags", "hosts", "ports", "settings", "done"} =>
    \A seg \in doc.segs :
      \/ stage \in {"segments", "flags"} /\ seg \in todo
      \/ \E m \in segIds : m[1] = seg.id
HostsDone ==
  stage \in {"hosts", "ports", "settings", "done"} =>
    \A h \in doc.hosts, seg \in doc.segs : h.subnet = seg.id =>
      \/ stage = "hosts" /\ h \in todo
      \/ \E m \in hostIds : m[1] = h.id
PortsDone ==
  stage \in {"ports", "settings", "done"} =>
    \A p \in doc.ports, m \in hostIds : p.open /\ m[1] = p.host =>
      \/ stage = "ports" /\ p \in todo
      \/ m[2] \notin Ids(db.hosts) \/ PortsAt(db, m[2], p.port) # {}
Left ==
  /\ stage \in {"segments", "flags"} => todo \subseteq doc.segs /\ hostIds = {}
  /\ stage = "hosts" => /\ todo \subseteq doc.hosts
                        /\ \A h \in todo, m \in hostIds : m[1] # h.id
  /\ stage = "ports" => todo \subseteq doc.ports
  /\ stage = "addresses" => doc = NoFile

Restoring ==
  /\ FilesKeyed /\ RowsFound /\ Left
  /\ doc # NoFile => SegmentsDone /\ HostsDone /\ PortsDone
  /\ stage = "failed" => gone # Nothing

\* A step that names what it deletes, and opens no other ports.
Accounted ==
  /\ NewAbove(db, serial, db') /\ serial <= serial'
  /\ gone.subnets \subseteq gone'.subnets /\ gone.hosts \subseteq gone'.hosts
  /\ \A s \in db.subnets : s.id \in Ids(db'.subnets) \/ s.cidr \in gone'.subnets
  /\ \A h \in db.hosts :
       h.id \in Ids(db'.hosts) \/ <<CidrIn(db, h.subnet), h.ip>> \in gone'.hosts
  /\ \A p \in db.ports :
       p.host \notin Ids(db'.hosts) \/ PortsAt(db', p.host, p.port) # {}

LEMMA StayAccounted ==
  ASSUME Inv, db' = db, serial' = serial, gone' = gone PROVE Accounted
<1>1. serial \in Nat
  BY DEF Inv, TypeOK, InventoryType
<1>2. NewAbove(db, serial, db) /\ \A p \in db.ports : p \in PortsAt(db, p.host, p.port)
  BY DEF NewAbove, PortsAt
<1> QED
  BY <1>1, <1>2 DEF Accounted, Ids

LEMMA ImportAccounted ==
  ASSUME Inv, ImportStep PROVE Accounted /\ gone' = gone
<1>1. gone' = gone
  BY DEF ImportStep, ImportSegment, ImportFlags, ImportHostRow, ImportPortRow, ImportAddress,
     ImportAddressPort, ImportSettings, Store, Skip, Fail, ghosts
<1>2. Sound(db, serial) /\ Adds(db, serial, db')
  BY InvSound, ImportAdds
<1>3. Moves(db, serial, db')
  BY <1>2, AddsMoves
<1>4. serial <= serial'
  BY <1>2, ImportKeeps DEF Stored, Sound
<1> QED
  BY <1>1, <1>2, <1>3, <1>4 DEF Accounted, Moves, Adds, Keeps, Ids

LEMMA OtherAccounted ==
  ASSUME Inv, OtherEdit, Running PROVE Accounted /\ UNCHANGED importing
<1>1. Sound(db, serial) /\ Moves(db, serial, db')
  BY InvSound, EditMoves DEF OtherEdit
<1>2. serial <= serial'
  BY <1>1, OtherKeeps DEF Stored, Sound
<1>3. /\ gone' = [subnets |-> gone.subnets \cup (CidrsOf(db) \ CidrsOf(db')),
                  hosts |-> gone.hosts \cup (Addresses(db) \ Addresses(db'))]
      /\ UNCHANGED importing
  BY DEF OtherEdit
<1>4. /\ gone'.subnets = gone.subnets \cup (CidrsOf(db) \ CidrsOf(db'))
      /\ gone'.hosts = gone.hosts \cup (Addresses(db) \ Addresses(db'))
  BY <1>3
<1>5. \A s \in db.subnets : s.cidr \in CidrsOf(db)
  BY DEF CidrsOf
<1>6. \A h \in db.hosts : <<CidrIn(db, h.subnet), h.ip>> \in Addresses(db)
  BY DEF Addresses
<1> QED
  BY <1>1, <1>2, <1>3, <1>4, <1>5, <1>6 DEF Accounted, Moves

\* Subnets keep their addresses.
LEMMA CidrStays ==
  ASSUME Inv, Inv', Accounted, NEW h \in db.hosts, NEW g \in db'.hosts, g.subnet = h.subnet
  PROVE  CidrIn(db', g.subnet) = CidrIn(db, h.subnet)
<1>1. Sound(db, serial) /\ Sound(db', serial')
  BY DEF Inv, TypeOK, InventoryType, NoOrphans, Sound
<1>2. PICK s \in db.subnets : s.id = h.subnet /\ CidrIn(db, h.subnet) = s.cidr
  BY <1>1, HostCidr
<1>3. PICK t \in db'.subnets : t.id = g.subnet /\ CidrIn(db', g.subnet) = t.cidr
  BY <1>1, HostCidr
<1>4. ~ (t.id > serial)
  <2>1. t.id \in Ids(db.subnets)
    BY <1>2, <1>3 DEF Ids
  <2>2. t.id \in 1 .. serial /\ serial \in Nat
    BY <1>1, <2>1 DEF Sound, IdsUpTo
  <2> QED
    BY <2>2
<1>5. PICK r \in db.subnets : r.id = t.id /\ r.cidr = t.cidr
  BY <1>4 DEF Accounted, NewAbove
<1>6. r = s
  BY <1>1, <1>2, <1>3, <1>5 DEF Sound, Keys
<1> QED
  BY <1>2, <1>3, <1>5, <1>6

LEMMA SegmentStays ==
  ASSUME Inv, Inv', Accounted, doc' = doc, NEW m \in Nat \X Nat, SegmentFound(m)
  PROVE  SegmentFound(m)'
<1>1. m[2] \in Nat /\ serial \in Nat /\ serial' \in Nat /\ m[2] <= serial
  BY DEF Inv, TypeOK, InventoryType, SegmentFound
<1>2. PICK seg \in doc.segs :
        /\ seg.id = m[1]
        /\ \A s \in db.subnets : s.id = m[2] => s.cidr = seg.cidr
        /\ m[2] \in Ids(db.subnets) \/ seg.cidr \in gone.subnets
  BY DEF SegmentFound
<1>3. m[2] <= serial'
  BY <1>1 DEF Accounted
<1>4. ASSUME NEW t \in db'.subnets, t.id = m[2] PROVE t.cidr = seg.cidr
  BY <1>1, <1>2, <1>4 DEF Accounted, NewAbove
<1>5. m[2] \in Ids(db'.subnets) \/ seg.cidr \in gone'.subnets
  <2>1. CASE seg.cidr \in gone.subnets
    BY <2>1 DEF Accounted
  <2>2. ASSUME NEW s \in db.subnets, s.id = m[2]
        PROVE  m[2] \in Ids(db'.subnets) \/ seg.cidr \in gone'.subnets
    BY <1>2, <2>2 DEF Accounted
  <2> QED
    BY <1>2, <2>1, <2>2 DEF Ids
<1> QED
  BY <1>2, <1>3, <1>4, <1>5 DEF SegmentFound

LEMMA HostStays ==
  ASSUME Inv, Inv', Accounted, doc' = doc, NEW m \in Nat \X Nat, HostFound(m)
  PROVE  HostFound(m)'
<1>1. m[2] \in Nat /\ serial \in Nat /\ serial' \in Nat /\ m[2] <= serial
  BY DEF Inv, TypeOK, InventoryType, HostFound
<1>2. PICK h \in doc.hosts, seg \in doc.segs :
        /\ h.id = m[1] /\ seg.id = h.subnet
        /\ \A g \in db.hosts :
             g.id = m[2] => g.ip = h.ip /\ CidrIn(db, g.subnet) = seg.cidr
        /\ m[2] \in Ids(db.hosts) \/ <<seg.cidr, h.ip>> \in gone.hosts
  BY DEF HostFound
<1>3. m[2] <= serial'
  BY <1>1 DEF Accounted
<1>4. ASSUME NEW f \in db'.hosts, f.id = m[2]
      PROVE  f.ip = h.ip /\ CidrIn(db', f.subnet) = seg.cidr
  <2>1. PICK g \in db.hosts : g.id = f.id /\ g.subnet = f.subnet /\ g.ip = f.ip
    BY <1>1, <1>4 DEF Accounted, NewAbove
  <2> QED
    BY <1>2, <1>4, <2>1, CidrStays
<1>5. m[2] \in Ids(db'.hosts) \/ <<seg.cidr, h.ip>> \in gone'.hosts
  <2>1. CASE <<seg.cidr, h.ip>> \in gone.hosts
    BY <2>1 DEF Accounted
  <2>2. ASSUME NEW g \in db.hosts, g.id = m[2]
        PROVE  m[2] \in Ids(db'.hosts) \/ <<seg.cidr, h.ip>> \in gone'.hosts
    BY <1>2, <2>2 DEF Accounted
  <2> QED
    BY <1>2, <2>1, <2>2 DEF Ids
<1> QED
  BY <1>2, <1>3, <1>4, <1>5 DEF HostFound

LEMMA PortsStay ==
  ASSUME Inv, Accounted, NEW id \in Nat, id <= serial, NEW port,
         id \notin Ids(db.hosts) \/ PortsAt(db, id, port) # {}
  PROVE  id \notin Ids(db'.hosts) \/ PortsAt(db', id, port) # {}
<1> SUFFICES ASSUME id \in Ids(db'.hosts) PROVE PortsAt(db', id, port) # {}
  OBVIOUS
<1>1. serial \in Nat
  BY DEF Inv, TypeOK, InventoryType
<1>2. id \in Ids(db.hosts)
  BY <1>1 DEF Accounted, NewAbove, Ids
<1>3. PICK q \in db.ports : q.host = id /\ q.port = port
  BY <1>2 DEF PortsAt
<1> QED
  BY <1>3 DEF Accounted

\* Stale ids of an address import.
LEMMA KnownStay ==
  ASSUME Inv, Accounted, NEW id
  PROVE  /\ id \in Ids(db.subnets) \/ gone.subnets # {} =>
              id \in Ids(db'.subnets) \/ gone'.subnets # {}
         /\ id \in Ids(db.hosts) \/ gone.hosts # {} =>
              id \in Ids(db'.hosts) \/ gone'.hosts # {}
  BY DEF Accounted, Ids

LEMMA NextFilesKeyed == ASSUME Inv, FilesKeyed, [Next]_vars PROVE FilesKeyed'
<1>1. export \in Exports /\ Keys(db)
  BY DEF Inv, TypeOK, ExportType, NoOrphans
<1>2. FileKeys(export) /\ (file # NoFile => FileKeys(file)) /\ (doc # NoFile => FileKeys(doc))
  BY DEF FilesKeyed
<1>3. FileKeys(NoExport)
  BY DEF NoExport, FileKeys
<1>4. \A f : f.segs = export.segs /\ f.hosts = export.hosts => FileKeys(f)
  BY <1>2 DEF FileKeys
<1>5. ASSUME doc' \in {doc, file, NoFile}, file' = file, FileKeys(export')
      PROVE  FilesKeyed'
  BY <1>2, <1>5 DEF FilesKeyed
<1>6. CASE ExportSubnets
  <2>1. export' = [NoExport EXCEPT !.at = "subnets", !.segs = db.subnets, !.upto = serial]
        /\ file' = file /\ doc' = doc
    BY <1>6 DEF ExportSubnets, importing
  <2>2. export'.segs = db.subnets /\ export'.hosts = {}
    BY <2>1 DEF NoExport
  <2> QED
    BY <1>1, <1>5, <2>1, <2>2 DEF FileKeys, Keys
<1>7. CASE ExportHosts
  <2>1. export' = [export EXCEPT !.at = "hosts", !.hosts = db.hosts, !.left = db.hosts]
        /\ file' = file /\ doc' = doc
    BY <1>7 DEF ExportHosts, importing
  <2>2. export'.segs = export.segs /\ export'.hosts = db.hosts
    BY <1>1, <2>1 DEF Exports
  <2> QED
    BY <1>1, <1>2, <1>5, <2>1, <2>2 DEF FileKeys, Keys
<1>8. CASE \E h \in export.left : ExportPorts(h)
  <2>1. PICK h \in export.left : ExportPorts(h)
    BY <1>8
  <2>2. export'.segs = export.segs /\ export'.hosts = export.hosts /\ file' = file /\ doc' = doc
    BY <1>1, <2>1 DEF ExportPorts, Exports, importing
  <2> QED
    BY <1>4, <1>5, <2>2
<1>9. CASE ExportDone
  <2>1. /\ file' = [segs |-> export.segs, hosts |-> export.hosts,
                    ports |-> export.ports, method |-> db.method]
        /\ export' = NoExport /\ doc' = doc
    BY <1>9 DEF ExportDone, importing
  <2>2. FileKeys(file')
    BY <1>4, <2>1
  <2> QED
    BY <1>2, <1>3, <2>1, <2>2 DEF FilesKeyed
<1>10. CASE \/ \E k \in {"map", "system"} : StartImport(k)
            \/ \E k \in {"dnsrecon", "nmap"}, rows \in SUBSET Scanned \ {{}} :
                 StartAddressImport(k, rows)
            \/ NextStage \/ UNCHANGED vars
  <2>1. export' = export /\ file' = file /\ doc' \in {doc, file, NoFile}
    BY <1>10 DEF StartImport, StartAddressImport, Start, NextStage, exporting, vars
  <2> QED
    BY <1>2, <1>5, <2>1
<1>11. CASE ImportStep
  <2>1. export'.segs = export.segs /\ export'.hosts = export.hosts
    BY <1>1, <1>11, ImportCalm DEF Exports
  <2>2. file' = file /\ doc' = doc
    BY <1>11 DEF ImportStep, ImportSegment, ImportFlags, ImportHostRow, ImportPortRow,
       ImportAddress, ImportAddressPort, ImportSettings, Store, Skip, Fail, exporting
  <2> QED
    BY <1>4, <1>5, <2>1, <2>2
<1>12. CASE OtherEdit \/ Restart
  <2>1. /\ export' = NoExport \/ (export'.segs = export.segs /\ export'.hosts = export.hosts)
        /\ file' = file /\ doc' \in {doc, NoFile}
    BY <1>1, <1>12 DEF OtherEdit, Restart, ImportForgotten, Exports, importing
  <2> QED
    BY <1>3, <1>4, <1>5, <2>1
<1> QED
  BY <1>6, <1>7, <1>8, <1>9, <1>10, <1>11, <1>12 DEF Next

LEMMA RowsStay ==
  ASSUME Inv, Inv', Accounted, doc' = doc, RowsFound
  PROVE  /\ \A m \in segIds : SegmentFound(m)'
         /\ \A m \in hostIds : HostFound(m)'
         /\ \A k \in known : k.id \in Ids(db'.subnets) \/ gone'.subnets # {}
         /\ \A r \in pending : r[1] \in Ids(db'.hosts) \/ gone'.hosts # {}
<1>1. segIds \subseteq Nat \X Nat /\ hostIds \subseteq Nat \X Nat
  BY DEF Inv, TypeOK, ImportType
<1>2. ASSUME NEW m \in segIds PROVE SegmentFound(m)'
  BY <1>1, SegmentStays DEF RowsFound
<1>3. ASSUME NEW m \in hostIds PROVE HostFound(m)'
  BY <1>1, HostStays DEF RowsFound
<1> QED
  BY <1>2, <1>3, KnownStay DEF RowsFound

\* What was gone when the import failed still is.
LEMMA GoneStays ==
  ASSUME Inv, Inv', Accounted, gone # Nothing PROVE gone' # Nothing
<1>1. /\ gone \in [subnets : SUBSET Cidrs, hosts : SUBSET (Cidrs \X IPs)]
      /\ gone' \in [subnets : SUBSET Cidrs, hosts : SUBSET (Cidrs \X IPs)]
  BY DEF Inv, TypeOK, HistoryType
<1>2. gone.subnets # {} \/ gone.hosts # {}
  BY <1>1 DEF Nothing
<1> QED
  BY <1>1, <1>2 DEF Accounted, Nothing

LEMMA PortsDoneStay ==
  ASSUME Inv, Accounted, RowsFound, NEW p, NEW m \in hostIds,
         m[2] \notin Ids(db.hosts) \/ PortsAt(db, m[2], p.port) # {}
  PROVE  m[2] \notin Ids(db'.hosts) \/ PortsAt(db', m[2], p.port) # {}
<1>1. m[2] \in Nat /\ m[2] <= serial
  BY DEF Inv, TypeOK, ImportType, RowsFound, HostFound
<1> QED
  BY <1>1, PortsStay

\* Steps of others while the import runs.
LEMMA StaysRestoring ==
  ASSUME Inv, Inv', Accounted, Restoring, UNCHANGED importing, FilesKeyed'
  PROVE  Restoring'
<1>1. UNCHANGED <<kind, stage, doc, todo, segIds, hostIds, known, pending>>
  BY DEF importing
<1>2. RowsFound'
  BY <1>1, RowsStay DEF Restoring, RowsFound
<1>3. Left'
  BY <1>1 DEF Restoring, Left
<1>4. doc # NoFile => SegmentsDone' /\ HostsDone'
  BY <1>1 DEF Restoring, SegmentsDone, HostsDone
<1>5. doc # NoFile => PortsDone'
  BY <1>1, PortsDoneStay DEF Restoring, PortsDone
<1>6. stage = "failed" => gone' # Nothing
  BY GoneStays DEF Restoring
<1> QED
  BY <1>1, <1>2, <1>3, <1>4, <1>5, <1>6 DEF Restoring

LEMMA ForgottenRestoring ==
  ASSUME ImportForgotten, FilesKeyed' PROVE Restoring'
<1>1. RowsFound' /\ Left' /\ doc' = NoFile /\ stage' = "idle"
  BY DEF ImportForgotten, RowsFound, Left
<1> QED
  BY <1>1 DEF Restoring

LEMMA StartRestoring ==
  ASSUME Inv, Restoring, FilesKeyed',
         \/ \E k \in {"map", "system"} : StartImport(k)
         \/ \E k \in {"dnsrecon", "nmap"}, rows \in SUBSET Scanned \ {{}} :
              StartAddressImport(k, rows)
  PROVE  Restoring'
<1>1. segIds' = {} /\ hostIds' = {} /\ pending' = {} /\ db' = db
      /\ (known' = {} \/ known' = {[id |-> s.id, cidr |-> s.cidr] : s \in db.subnets})
  BY DEF StartImport, StartAddressImport, Start, inventory
<1>2. RowsFound'
  BY <1>1 DEF RowsFound, Ids
<1>3. \/ doc' # NoFile /\ stage' = "segments" /\ todo' = doc'.segs
      \/ doc' = NoFile /\ stage' = "addresses"
  BY DEF StartImport, StartAddressImport, Start
<1>4. Left'
  BY <1>1, <1>3 DEF Left
<1>5. doc' # NoFile => SegmentsDone' /\ HostsDone' /\ PortsDone'
  BY <1>3 DEF SegmentsDone, HostsDone, PortsDone
<1>6. stage' # "failed"
  BY <1>3
<1> QED
  BY <1>2, <1>4, <1>5, <1>6 DEF Restoring

LEMMA NextStageRestoring ==
  ASSUME Inv, Restoring, FilesKeyed', NextStage PROVE Restoring'
<1>1. /\ UNCHANGED <<db, serial, doc, segIds, hostIds, known, pending, gone>>
      /\ todo = {}
  BY DEF NextStage, inventory, ghosts
<1>2. RowsFound'
  BY <1>1 DEF Restoring, RowsFound, SegmentFound, HostFound
<1>3. \/ stage = "segments" /\ stage' = "hosts" /\ todo' = doc.hosts
      \/ stage = "hosts" /\ stage' = "ports" /\ todo' = doc.ports
      \/ stage = "ports" /\ stage' = "settings" /\ todo' = {}
      \/ stage = "addresses" /\ stage' = "done" /\ todo' = {}
  BY DEF NextStage
<1>4. Left'
  BY <1>1, <1>3 DEF Restoring, Left
<1>5. doc # NoFile => SegmentsDone'
  BY <1>1, <1>3 DEF Restoring, SegmentsDone, Left
<1>6. doc # NoFile => HostsDone'
  BY <1>1, <1>3 DEF Restoring, HostsDone, Left
<1>7. doc # NoFile => PortsDone'
  BY <1>1, <1>3 DEF Restoring, PortsDone, Left
<1> QED
  BY <1>1, <1>2, <1>3, <1>4, <1>5, <1>6, <1>7 DEF Restoring

\* Import steps, one lemma for each.
LEMMA FailRestoring ==
  ASSUME Inv, Inv', Restoring, FilesKeyed', Fail, gone # Nothing
  PROVE  Restoring'
<1>1. /\ UNCHANGED <<db, serial, doc, segIds, hostIds, known, pending, gone>>
      /\ stage' = "failed"
  BY DEF Fail, inventory, ghosts
<1>2. RowsFound'
  BY <1>1 DEF Restoring, RowsFound, SegmentFound, HostFound
<1> QED
  BY <1>1, <1>2 DEF Restoring, Left, SegmentsDone, HostsDone, PortsDone

LEMMA SegmentRestoring ==
  ASSUME Inv, Inv', Restoring, FilesKeyed', NEW seg \in todo, ImportSegment(seg)
  PROVE  Restoring'
<1> DEFINE d == UpsertAutoSubnet(db, seg.cidr, New)
<1>1. /\ stage = "segments" /\ db' = d /\ serial' = LastIdIn(d)
      /\ segIds' = segIds \cup {<<seg.id, s.id>> : s \in {t \in d.subnets : t.cidr = seg.cidr}}
      /\ UNCHANGED <<doc, hostIds, known, pending, gone>>
      /\ \/ stage' = "flags" /\ todo' = todo
         \/ stage' = "segments" /\ todo' = todo \ {seg}
  BY DEF ImportSegment, Store
<1>2. Accounted /\ Sound(db, serial) /\ New = serial + 1 /\ Sound(db', serial')
  <2>1. ImportStep
    BY <1>1 DEF ImportStep
  <2> QED
    BY <2>1, ImportAccounted, InvSound DEF New, Inv, TypeOK, InventoryType, NoOrphans, Sound
<1>3. doc # NoFile /\ seg \in doc.segs /\ seg.cidr \in Cidrs /\ hostIds = {}
  BY <1>1 DEF Inv, DocHeld, TypeOK, ImportType, Restoring, Left, Subnet
<1>4. \E s \in db'.subnets : s.cidr = seg.cidr
  BY <1>1, <1>2, <1>3, UpsertAutoSubnetAdds
<1> HIDE DEF d
<1>5. ASSUME NEW s \in db'.subnets, s.cidr = seg.cidr PROVE SegmentFound(<<seg.id, s.id>>)'
  <2>1. s.id <= serial' /\ s.id \in Ids(db'.subnets)
    BY <1>2 DEF Sound, IdsUpTo, Ids
  <2>2. \A t \in db'.subnets : t.id = s.id => t.cidr = seg.cidr
    BY <1>2, <1>5 DEF Sound, Keys
  <2> QED
    BY <1>1, <1>3, <2>1, <2>2 DEF SegmentFound
<1>6. RowsFound'
  <2>1. RowsFound
    BY DEF Restoring
  <2>2. \A m \in segIds' : SegmentFound(m)'
    BY <1>1, <1>2, <1>5, <2>1, RowsStay
  <2> QED
    BY <1>1, <1>2, <1>3, <2>1, <2>2, RowsStay DEF RowsFound
<1>7. Left'
  BY <1>1, <1>3 DEF Restoring, Left
<1>8. SegmentsDone'
  <2>1. \E m \in segIds' : m[1] = seg.id
    <3>1. PICK s \in d.subnets : s.cidr = seg.cidr
      BY <1>1, <1>4
    <3>2. s \in {t \in d.subnets : t.cidr = seg.cidr}
      BY <3>1
    <3>3. <<seg.id, s.id>> \in segIds'
      BY <1>1, <3>2
    <3>4. <<seg.id, s.id>>[1] = seg.id
      OBVIOUS
    <3> QED
      BY <3>3, <3>4
  <2>2. segIds \subseteq segIds'
    BY <1>1
  <2> QED
    BY <1>1, <1>3, <2>1, <2>2 DEF Restoring, SegmentsDone
<1>9. HostsDone' /\ PortsDone' /\ stage' # "failed"
  BY <1>1 DEF HostsDone, PortsDone
<1> QED
  BY <1>6, <1>7, <1>8, <1>9 DEF Restoring

LEMMA FlagsRestoring ==
  ASSUME Inv, Inv', Restoring, FilesKeyed', NEW seg \in todo, ImportFlags(seg)
  PROVE  Restoring'
<1>1. /\ stage = "flags" /\ stage' = "segments" /\ todo' = todo \ {seg}
      /\ UNCHANGED <<doc, segIds, hostIds, known, pending, gone>>
      /\ \E m \in segIds : m[1] = seg.id
  BY DEF ImportFlags, Store
<1>2. Accounted
  <2>1. ImportStep
    BY <1>1 DEF ImportStep
  <2> QED
    BY <2>1, ImportAccounted
<1>3. RowsFound'
  BY <1>1, <1>2, RowsStay DEF Restoring, RowsFound
<1>4. Left'
  BY <1>1 DEF Restoring, Left
<1>5. doc # NoFile => SegmentsDone'
  BY <1>1 DEF Restoring, SegmentsDone
<1>6. HostsDone' /\ PortsDone' /\ stage' # "failed"
  BY <1>1 DEF HostsDone, PortsDone
<1> QED
  BY <1>1, <1>3, <1>4, <1>5, <1>6 DEF Restoring

\* After the call there is one host row at the address.
LEMMA ImportHostThere ==
  ASSUME NEW d, NEW n, Sound(d, n), NEW sn \in Ids(d.subnets), NEW ip \in IPs,
         NEW name \in Names
  PROVE  LET e == ImportHost(d, sn, ip, name, n + 1) IN
         \E g \in e.hosts : /\ g.subnet = sn /\ g.ip = ip
                            /\ RowIds(e, sn, ip) = {g.id}
<1> DEFINE e == ImportHost(d, sn, ip, name, n + 1)
<1>1. \E g \in e.hosts : g.subnet = sn /\ g.ip = ip
  <2>1. CASE HostsAt(d, sn, ip) = {}
    <3> DEFINE new == [id |-> n + 1, subnet |-> sn, ip |-> ip, name |-> name]
    <3>1. new \in e.hosts
      BY <2>1, InsertHostAdds DEF ImportHost
    <3>2. new.subnet = sn /\ new.ip = ip
      OBVIOUS
    <3> QED
      BY <3>1, <3>2
  <2>2. CASE HostsAt(d, sn, ip) # {}
    BY <2>2, ImportHostAdds DEF Adds, Keeps, HostsAt
  <2> QED
    BY <2>1, <2>2
<1>2. Keys(e)
  BY ImportHostSound DEF Follows, Sound
<1> HIDE DEF e
<1>3. PICK g \in e.hosts : g.subnet = sn /\ g.ip = ip
  BY <1>1
<1>4. HostsAt(e, sn, ip) = {g}
  BY <1>2, <1>3 DEF HostsAt, Keys
<1>5. RowIds(e, sn, ip) = {g.id}
  BY <1>4 DEF RowIds
<1> QED
  BY <1>3, <1>5 DEF e

LEMMA HostRestoring ==
  ASSUME Inv, Inv', Restoring, FilesKeyed', NEW h \in todo, ImportHostRow(h)
  PROVE  Restoring'
<1>1. stage = "hosts" /\ doc # NoFile /\ h \in doc.hosts /\ h \in Host
  BY DEF ImportHostRow, Inv, DocHeld, TypeOK, ImportType, Restoring, Left
<1>2. CASE \A m \in segIds : m[1] # h.subnet
  <2>1. /\ UNCHANGED <<db, serial, stage, doc, segIds, hostIds, known, pending, gone>>
        /\ todo' = todo \ {h}
    BY <1>2 DEF ImportHostRow, Skip, inventory, ghosts
  <2>2. \A seg \in doc.segs : h.subnet # seg.id
    BY <1>1, <1>2 DEF Restoring, SegmentsDone
  <2>3. RowsFound'
    BY <2>1 DEF Restoring, RowsFound, SegmentFound, HostFound
  <2>4. Left'
    BY <1>1, <2>1 DEF Restoring, Left
  <2>5. SegmentsDone' /\ HostsDone' /\ PortsDone' /\ stage' # "failed"
    BY <1>1, <2>1, <2>2 DEF Restoring, SegmentsDone, HostsDone, PortsDone
  <2> QED
    BY <2>3, <2>4, <2>5 DEF Restoring
<1>3. ASSUME NEW m \in segIds, m[1] = h.subnet, m[2] \notin Ids(db.subnets), Fail
      PROVE  Restoring'
  <2>1. gone.subnets # {}
    BY <1>3 DEF Restoring, RowsFound, SegmentFound
  <2> QED
    BY <1>3, <2>1, FailRestoring DEF Nothing
<1>4. ASSUME NEW m \in segIds, m[1] = h.subnet, m[2] \in Ids(db.subnets),
             Store(ImportHost(db, m[2], h.ip, h.name, New)),
             hostIds' = hostIds \cup ({h.id} \X RowIds(db', m[2], h.ip)),
             todo' = todo \ {h}, UNCHANGED <<stage, segIds, known, pending>>
      PROVE  Restoring'
  <2>1. Accounted /\ Sound(db, serial) /\ Sound(db', serial') /\ New = serial + 1
    <3>1. ImportStep
      BY <1>1 DEF ImportStep
    <3> QED
      BY <3>1, ImportAccounted, InvSound
         DEF New, Inv, TypeOK, InventoryType, NoOrphans, Sound
  <2>2. db' = ImportHost(db, m[2], h.ip, h.name, serial + 1) /\ doc' = doc /\ gone' = gone
    BY <1>4, <2>1 DEF Store
  <2>3. h.ip \in IPs /\ h.name \in Names
    BY <1>1 DEF Host
  <2>4. PICK g \in db'.hosts : g.subnet = m[2] /\ g.ip = h.ip /\ RowIds(db', m[2], h.ip) = {g.id}
    BY <1>4, <2>1, <2>2, <2>3, ImportHostThere
  <2>5. hostIds' = hostIds \cup {<<h.id, g.id>>} /\ db'.subnets = db.subnets
    BY <1>4, <2>1, <2>2, <2>4, ImportHostAdds
  <2>6. HostFound(<<h.id, g.id>>)'
    <3>1. PICK seg \in doc.segs :
            seg.id = h.subnet /\ \A s \in db.subnets : s.id = m[2] => s.cidr = seg.cidr
      BY <1>4 DEF Restoring, RowsFound, SegmentFound
    <3>2. PICK s \in db'.subnets : s.id = g.subnet /\ CidrIn(db', g.subnet) = s.cidr
      BY <2>1, HostCidr
    <3>3. CidrIn(db', g.subnet) = seg.cidr
      BY <2>4, <2>5, <3>1, <3>2
    <3>4. \A f \in db'.hosts : f.id = g.id => f = g
      BY <2>1 DEF Sound, Keys
    <3>5. g.id <= serial' /\ g.id \in Ids(db'.hosts)
      BY <2>1 DEF Sound, IdsUpTo, Ids
    <3> QED
      BY <1>1, <2>2, <2>4, <3>1, <3>3, <3>4, <3>5 DEF HostFound
  <2>7. \A l \in hostIds : l[1] # h.id
    BY <1>1 DEF Restoring, Left
  <2>8. RowsFound'
    <3>1. RowsFound
      BY DEF Restoring
    <3>2. \A l, k \in hostIds' : l[1] = k[1] => l = k
      BY <2>5, <2>7, <3>1 DEF RowsFound
    <3>3. \A l \in hostIds' : HostFound(l)'
      BY <2>1, <2>2, <2>5, <2>6, <3>1, RowsStay
    <3> QED
      BY <1>4, <2>1, <2>2, <3>1, <3>2, <3>3, RowsStay DEF RowsFound
  <2>9. Left'
    <3>1. \A f \in todo' : f.id # h.id
      BY <1>1, <1>4 DEF Restoring, Left, FilesKeyed, FileKeys
    <3> QED
      BY <1>1, <1>4, <2>2, <2>5, <3>1 DEF Restoring, Left
  <2>10. SegmentsDone' /\ PortsDone' /\ stage' # "failed"
    BY <1>1, <1>4, <2>2 DEF Restoring, SegmentsDone, PortsDone
  <2>11. HostsDone'
    <3>1. <<h.id, g.id>> \in hostIds' /\ <<h.id, g.id>>[1] = h.id /\ hostIds \subseteq hostIds'
      BY <2>5
    <3>2. \E l \in hostIds' : l[1] = h.id
      BY <3>1
    <3> QED
      BY <1>1, <1>4, <2>2, <3>1, <3>2 DEF Restoring, HostsDone
  <2> QED
    BY <2>8, <2>9, <2>10, <2>11 DEF Restoring
<1>5. CASE ~ \A m \in segIds : m[1] # h.subnet
  <2>1. PICK m \in segIds :
          /\ m[1] = h.subnet
          /\ IF m[2] \notin Ids(db.subnets) THEN Fail
             ELSE LET d == ImportHost(db, m[2], h.ip, h.name, New) IN
                  /\ Store(d)
                  /\ hostIds' = hostIds \cup ({h.id} \X RowIds(d, m[2], h.ip))
                  /\ todo' = todo \ {h}
                  /\ UNCHANGED <<stage, segIds, known, pending>>
    BY <1>5 DEF ImportHostRow
  <2>2. \A d : Store(d) => db' = d
    BY DEF Store
  <2> QED
    BY <1>3, <1>4, <2>1, <2>2
<1> QED
  BY <1>2, <1>5

LEMMA PortRestoring ==
  ASSUME Inv, Inv', Restoring, FilesKeyed', NEW p \in todo, ImportPortRow(p)
  PROVE  Restoring'
<1>1. stage = "ports" /\ doc # NoFile /\ p \in doc.ports /\ p \in Port
  BY DEF ImportPortRow, Inv, DocHeld, TypeOK, ImportType, Restoring, Left
<1>2. CASE ~ p.open \/ \A m \in hostIds : m[1] # p.host
  <2>1. /\ UNCHANGED <<db, serial, stage, doc, segIds, hostIds, known, pending, gone>>
        /\ todo' = todo \ {p}
    BY <1>2 DEF ImportPortRow, Skip, inventory, ghosts
  <2>2. RowsFound'
    BY <2>1 DEF Restoring, RowsFound, SegmentFound, HostFound
  <2>3. Left'
    BY <1>1, <2>1 DEF Restoring, Left
  <2>4. SegmentsDone' /\ HostsDone' /\ stage' # "failed"
    BY <1>1, <2>1 DEF Restoring, SegmentsDone, HostsDone
  <2>5. PortsDone'
    BY <1>1, <1>2, <2>1 DEF Restoring, PortsDone
  <2> QED
    BY <2>2, <2>3, <2>4, <2>5 DEF Restoring
<1>3. ASSUME NEW m \in hostIds, m[1] = p.host, m[2] \notin Ids(db.hosts), Fail
      PROVE  Restoring'
  <2>1. gone.hosts # {}
    BY <1>3 DEF Restoring, RowsFound, HostFound
  <2> QED
    BY <1>3, <2>1, FailRestoring DEF Nothing
<1>4. ASSUME NEW m \in hostIds, m[1] = p.host, m[2] \in Ids(db.hosts),
             Store(UpsertPort(db, m[2], p.port)), todo' = todo \ {p},
             UNCHANGED <<stage, segIds, hostIds, known, pending>>
      PROVE  Restoring'
  <2>1. Accounted /\ Sound(db, serial)
    <3>1. ImportStep
      BY <1>1 DEF ImportStep
    <3> QED
      BY <3>1, ImportAccounted, InvSound
  <2>2. db' = UpsertPort(db, m[2], p.port) /\ doc' = doc
    BY <1>4 DEF Store
  <2>3. RowsFound /\ \A l \in hostIds : l[1] = p.host => l = m
    BY <1>4 DEF Restoring, RowsFound
  <2>4. RowsFound'
    BY <1>4, <2>1, <2>2, <2>3, RowsStay DEF RowsFound
  <2>5. Left' /\ SegmentsDone' /\ HostsDone' /\ stage' # "failed"
    BY <1>1, <1>4, <2>2 DEF Restoring, Left, SegmentsDone, HostsDone
  <2>6. PortsAt(db', m[2], p.port) # {}
    <3> DEFINE new == [host |-> m[2], port |-> p.port, open |-> TRUE]
    <3>1. new \in db'.ports
      BY <2>1, <2>2, UpsertPortAdds
    <3>2. new.host = m[2] /\ new.port = p.port
      OBVIOUS
    <3> QED
      BY <3>1, <3>2 DEF PortsAt
  <2>7. PortsDone'
    <3> SUFFICES ASSUME NEW q \in doc.ports, NEW l \in hostIds, q.open, l[1] = q.host,
                        q \notin todo \/ q = p
                 PROVE  l[2] \notin Ids(db'.hosts) \/ PortsAt(db', l[2], q.port) # {}
      BY <1>1, <1>4, <2>2 DEF PortsDone
    <3>1. CASE q = p
      BY <2>3, <2>6, <3>1
    <3>2. CASE q \notin todo
      BY <1>1, <2>1, <2>3, <3>2, PortsDoneStay DEF Restoring, PortsDone
    <3> QED
      BY <3>1, <3>2
  <2> QED
    BY <2>4, <2>5, <2>7 DEF Restoring
<1> QED
  BY <1>2, <1>3, <1>4 DEF ImportPortRow

\* The steps of an address import, which has no file to restore.
LEMMA AddressesRestoring ==
  ASSUME Inv, Inv', Restoring, FilesKeyed', stage = "addresses",
         \/ \E a \in todo : ImportAddress(a)
         \/ \E x \in pending : ImportAddressPort(x)
  PROVE  Restoring'
<1>1. Accounted /\ Sound(db, serial) /\ New = serial + 1 /\ doc = NoFile /\ RowsFound
  <2>1. ImportStep
    BY DEF ImportStep, ImportAddress
  <2> QED
    BY <2>1, ImportAccounted, InvSound DEF Restoring, Left, New
<1>2. ASSUME doc' = doc, stage' = stage, segIds' = segIds, hostIds' = hostIds, RowsFound'
      PROVE  Restoring'
  BY <1>1, <1>2 DEF Restoring, Left
<1>3. ASSUME NEW a \in todo, ImportAddress(a) PROVE Restoring'
  <2>1. a.ip \in IPs /\ a.name \in Names /\ Slash24[a.ip] \in Cidrs
    BY <1>3, AddressAssumption DEF ImportAddress, Inv, TypeOK, ImportType, Address
  <2>2. ASSUME Store(UpsertAutoSubnet(db, Slash24[a.ip], New)),
               known' = known \cup {[id |-> s.id, cidr |-> s.cidr] :
                          s \in {t \in db'.subnets : t.cidr = Slash24[a.ip]}},
               UNCHANGED <<stage, todo, segIds, hostIds, pending>>
        PROVE  Restoring'
    <3>1. doc' = doc
      BY <2>2 DEF Store
    <3>2. \A k \in known' : k \in known \/ k.id \in Ids(db'.subnets)
      BY <2>2 DEF Ids
    <3>3. RowsFound'
      BY <1>1, <2>2, <3>1, <3>2, RowsStay DEF RowsFound
    <3> QED
      BY <1>2, <2>2, <3>1, <3>3
  <2>3. ASSUME NEW s \in known, s.id \notin Ids(db.subnets), Fail PROVE Restoring'
    <3>1. gone.subnets # {}
      BY <1>1, <2>3 DEF RowsFound
    <3> QED
      BY <2>3, <3>1, FailRestoring DEF Nothing
  <2>4. ASSUME NEW s \in known, NEW d, Store(d),
               pending' = RowIds(d, s.id, a.ip) \X a.ports, todo' = todo \ {a},
               UNCHANGED <<stage, segIds, hostIds, known>>
        PROVE  Restoring'
    <3>1. doc' = doc /\ db' = d
      BY <2>4 DEF Store
    <3>2. \A x \in pending' : x[1] \in Ids(db'.hosts)
      BY <2>4, <3>1 DEF RowIds, HostsAt, Ids
    <3>3. RowsFound'
      BY <1>1, <2>4, <3>1, <3>2, RowsStay DEF RowsFound
    <3> QED
      BY <1>2, <2>4, <3>1, <3>3
  <2>5. \A d : Store(d) => db' = d
    BY DEF Store
  <2>6. CASE /\ Store(UpsertAutoSubnet(db, Slash24[a.ip], New))
             /\ known' = known \cup {[id |-> s.id, cidr |-> s.cidr] :
                  s \in {t \in UpsertAutoSubnet(db, Slash24[a.ip], New).subnets :
                           t.cidr = Slash24[a.ip]}}
             /\ UNCHANGED <<stage, todo, segIds, hostIds, pending>>
    BY <2>2, <2>5, <2>6
  <2>7. CASE \E s \in known :
               IF s.id \notin Ids(db.subnets) THEN Fail
               ELSE \E d : /\ Store(d)
                           /\ pending' = RowIds(d, s.id, a.ip) \X a.ports
                           /\ todo' = todo \ {a}
                           /\ UNCHANGED <<stage, segIds, hostIds, known>>
    BY <2>3, <2>4, <2>7
  <2> QED
    BY <1>3, <2>6, <2>7 DEF ImportAddress
<1>4. ASSUME NEW x \in pending, ImportAddressPort(x) PROVE Restoring'
  <2>1. CASE x[1] \notin Ids(db.hosts)
    <3>1. gone.hosts # {} /\ Fail
      BY <1>1, <1>4, <2>1 DEF RowsFound, ImportAddressPort
    <3> QED
      BY <3>1, FailRestoring DEF Nothing
  <2>2. CASE x[1] \in Ids(db.hosts)
    <3>1. /\ Store(UpsertPort(db, x[1], x[2])) /\ pending' = pending \ {x}
          /\ UNCHANGED <<stage, todo, segIds, hostIds, known>>
      BY <1>4, <2>2 DEF ImportAddressPort
    <3>2. doc' = doc
      BY <3>1 DEF Store
    <3>3. RowsFound'
      BY <1>1, <3>1, <3>2, RowsStay DEF RowsFound
    <3> QED
      BY <1>2, <3>1, <3>2, <3>3
  <2> QED
    BY <2>1, <2>2
<1> QED
  BY <1>3, <1>4

LEMMA SettingsRestoring ==
  ASSUME Inv, Inv', Restoring, FilesKeyed', ImportSettings PROVE Restoring'
<1>1. Accounted
  <2>1. ImportStep
    BY DEF ImportStep
  <2> QED
    BY <2>1, ImportAccounted
<1>2. /\ stage = "settings" /\ stage' = "done"
      /\ UNCHANGED <<doc, todo, segIds, hostIds, known, pending, gone>>
  BY DEF ImportSettings
<1>3. RowsFound'
  BY <1>1, <1>2, RowsStay DEF Restoring, RowsFound
<1>4. Left'
  BY <1>2 DEF Left
<1>5. doc # NoFile => SegmentsDone' /\ HostsDone'
  BY <1>2 DEF Restoring, SegmentsDone, HostsDone
<1>6. doc # NoFile => PortsDone'
  BY <1>1, <1>2, PortsDoneStay DEF Restoring, PortsDone
<1> QED
  BY <1>2, <1>3, <1>4, <1>5, <1>6 DEF Restoring

LEMMA InitRestoring == Init => Restoring
<1> SUFFICES ASSUME Init PROVE Restoring
  OBVIOUS
<1>1. FilesKeyed
  BY DEF Init, FilesKeyed, FileKeys, NoExport
<1> QED
  BY <1>1 DEF Init, Restoring, RowsFound, Left

LEMMA NextRestoring == Inv /\ Inv' /\ Restoring /\ [Next]_vars => Restoring'
<1> SUFFICES ASSUME Inv, Inv', Restoring, [Next]_vars PROVE Restoring'
  OBVIOUS
<1>1. FilesKeyed'
  BY NextFilesKeyed DEF Restoring
<1>2. CASE \/ ExportSubnets \/ ExportHosts \/ ExportDone
           \/ (\E h \in export.left : ExportPorts(h)) \/ UNCHANGED vars
  <2>1. UNCHANGED importing /\ db' = db /\ serial' = serial /\ gone' = gone
    BY <1>2 DEF ExportSubnets, ExportHosts, ExportPorts, ExportDone, inventory, ghosts,
       vars, importing
  <2> QED
    BY <1>1, <2>1, StayAccounted, StaysRestoring
<1>3. CASE \/ \E k \in {"map", "system"} : StartImport(k)
           \/ \E k \in {"dnsrecon", "nmap"}, rows \in SUBSET Scanned \ {{}} :
                StartAddressImport(k, rows)
  BY <1>1, <1>3, StartRestoring
<1>4. CASE ImportStep
  <2>1. \A x \in pending : ImportAddressPort(x) => stage = "addresses"
    BY DEF ImportAddressPort
  <2> QED
    BY <1>1, <1>4, <2>1, SegmentRestoring, FlagsRestoring, HostRestoring, PortRestoring,
       AddressesRestoring, SettingsRestoring DEF ImportStep
<1>5. CASE NextStage
  BY <1>1, <1>5, NextStageRestoring
<1>6. CASE OtherEdit /\ Running
  BY <1>1, <1>6, OtherAccounted, StaysRestoring
<1>7. CASE (OtherEdit /\ ~ Running) \/ Restart
  BY <1>1, <1>7, ForgottenRestoring DEF OtherEdit, Restart
<1> QED
  BY <1>2, <1>3, <1>4, <1>5, <1>6, <1>7 DEF Next

LEMMA RestoringHolds == Spec => [](Inv /\ Restoring)
<1>1. Init => Inv /\ Restoring
  BY InitInv, InitRestoring
<1>2. (Inv /\ Restoring) /\ [Next]_vars => (Inv /\ Restoring)'
  <2>1. Inv /\ [Next]_vars => Inv'
    BY NextInv
  <2>2. Inv /\ Inv' /\ Restoring /\ [Next]_vars => Restoring'
    BY NextRestoring
  <2> QED
    BY <2>1, <2>2
<1> QED
  BY <1>1, <1>2, PTL DEF Spec

\* The row of a segment or host of the file the import is done with.
LEMMA SegmentRow ==
  ASSUME Restoring, doc # NoFile, NEW m \in segIds, NEW seg \in doc.segs, m[1] = seg.id
  PROVE  seg.cidr \in CidrsOf(db) \cup gone.subnets
<1>1. PICK t \in doc.segs :
        /\ t.id = m[1]
        /\ \A s \in db.subnets : s.id = m[2] => s.cidr = t.cidr
        /\ m[2] \in Ids(db.subnets) \/ t.cidr \in gone.subnets
  BY DEF Restoring, RowsFound, SegmentFound
<1>2. t = seg
  BY <1>1 DEF Restoring, FilesKeyed, FileKeys
<1> QED
  BY <1>1, <1>2 DEF Ids, CidrsOf

LEMMA HostRow ==
  ASSUME Restoring, doc # NoFile, NEW m \in hostIds, NEW h \in doc.hosts,
         NEW seg \in doc.segs, m[1] = h.id, h.subnet = seg.id
  PROVE  \/ <<seg.cidr, h.ip>> \in gone.hosts
         \/ \E g \in db.hosts :
              g.id = m[2] /\ g.ip = h.ip /\ CidrIn(db, g.subnet) = seg.cidr
<1>1. PICK f \in doc.hosts, t \in doc.segs :
        /\ f.id = m[1] /\ t.id = f.subnet
        /\ \A g \in db.hosts :
             g.id = m[2] => g.ip = f.ip /\ CidrIn(db, g.subnet) = t.cidr
        /\ m[2] \in Ids(db.hosts) \/ <<t.cidr, f.ip>> \in gone.hosts
  BY DEF Restoring, RowsFound, HostFound
<1>2. f = h /\ t = seg
  BY <1>1 DEF Restoring, FilesKeyed, FileKeys
<1> QED
  BY <1>1, <1>2 DEF Ids

\* However many segments, hosts and ports a file has, and whatever others do to
\* the tables meanwhile: an import that ends well has restored its file but for
\* what they deleted, and it ends badly only after such a deletion.
THEOREM RestoreCompleteHolds == Spec => []RestoreComplete
<1>1. ASSUME Inv, Restoring PROVE RestoreComplete
  <2>1. ASSUME stage = "done", doc # NoFile, NEW seg \in doc.segs
        PROVE  seg.cidr \in CidrsOf(db) \cup gone.subnets
    <3>1. PICK m \in segIds : m[1] = seg.id
      BY <1>1, <2>1 DEF Restoring, SegmentsDone
    <3> QED
      BY <1>1, <2>1, <3>1, SegmentRow
  <2>2. ASSUME stage = "done", doc # NoFile, NEW seg \in doc.segs, NEW h \in doc.hosts,
               h.subnet = seg.id, <<seg.cidr, h.ip>> \notin gone.hosts
        PROVE  \E g \in db.hosts :
                 /\ g.ip = h.ip /\ CidrIn(db, g.subnet) = seg.cidr
                 /\ \A p \in doc.ports :
                      p.host = h.id /\ p.open => PortsAt(db, g.id, p.port) # {}
    <3>1. PICK m \in hostIds : m[1] = h.id
      BY <1>1, <2>2 DEF Restoring, HostsDone
    <3>2. PICK g \in db.hosts :
            g.id = m[2] /\ g.ip = h.ip /\ CidrIn(db, g.subnet) = seg.cidr
      BY <1>1, <2>2, <3>1, HostRow
    <3>3. ASSUME NEW p \in doc.ports, p.host = h.id, p.open
          PROVE  PortsAt(db, g.id, p.port) # {}
      BY <1>1, <2>2, <3>1, <3>2, <3>3 DEF Restoring, PortsDone, Ids
    <3> QED
      BY <3>2, <3>3
  <2> QED
    BY <1>1, <2>1, <2>2 DEF RestoreComplete, Restoring
<1> QED
  BY <1>1, RestoringHolds, PTL

-----------------------------------------------------------------------------
(* What an undisturbed import comes to.                                    *)

FlagsSet ==
  kind = "system" =>
    \A seg \in doc.segs, s \in db.subnets :
      <<seg.id, s.id>> \in segIds =>
        \/ stage \in {"segments", "flags"} /\ seg \in todo
        \/ s.enabled = seg.enabled
NamesFilled ==
  \A h \in doc.hosts, g \in db.hosts :
    <<h.id, g.id>> \in hostIds => g.name # Blank \/ h.name = Blank
PortsOpened ==
  stage \in {"ports", "settings", "done"} =>
    \A p \in doc.ports, m \in hostIds : p.open /\ m[1] = p.host =>
      \/ stage = "ports" /\ p \in todo
      \/ [host |-> m[2], port |-> p.port, open |-> TRUE] \in db.ports
MethodSet == stage = "done" /\ kind = "system" => db.method = doc.method

\* On empty tables, nothing is there but what the file says.
SegmentsFromFile ==
  \A s \in db.subnets :
    /\ \E seg \in doc.segs : <<seg.id, s.id>> \in segIds
    /\ kind = "map" => s.enabled = TRUE
HostsFromFile ==
  \A g \in db.hosts : \E h \in doc.hosts : <<h.id, g.id>> \in hostIds /\ g.name = h.name
PortsFromFile ==
  \A q \in db.ports :
    /\ q.open = TRUE
    /\ \E p \in doc.ports : p.open /\ p.port = q.port /\ <<p.host, q.host>> \in hostIds

Undisturbed ==
  /\ fresh => quiet
  /\ doc # NoFile => kind \in {"map", "system"}
  /\ quiet /\ doc # NoFile =>
       gone = Nothing /\ FlagsSet /\ NamesFilled /\ PortsOpened /\ MethodSet
  /\ fresh /\ doc # NoFile => SegmentsFromFile /\ HostsFromFile /\ PortsFromFile

\* Which row of the tables a row of the file has become.
LEMMA SegmentRowIs ==
  ASSUME Restoring, doc # NoFile, NEW seg \in doc.segs, NEW s \in db.subnets,
         <<seg.id, s.id>> \in segIds
  PROVE  s.cidr = seg.cidr /\ s.id <= serial
<1> DEFINE m == <<seg.id, s.id>>
<1>1. m[1] = seg.id /\ m[2] = s.id /\ SegmentFound(m)
  BY DEF Restoring, RowsFound
<1> HIDE DEF m
<1>2. PICK t \in doc.segs : t.id = m[1] /\ \A r \in db.subnets : r.id = m[2] => r.cidr = t.cidr
  BY <1>1 DEF SegmentFound
<1>3. t = seg
  BY <1>1, <1>2 DEF Restoring, FilesKeyed, FileKeys
<1> QED
  BY <1>1, <1>2, <1>3 DEF SegmentFound

LEMMA HostRowIs ==
  ASSUME Restoring, doc # NoFile, NEW h \in doc.hosts, NEW g \in db.hosts,
         <<h.id, g.id>> \in hostIds
  PROVE  /\ g.id <= serial
         /\ \E seg \in doc.segs :
              seg.id = h.subnet /\ g.ip = h.ip /\ CidrIn(db, g.subnet) = seg.cidr
<1> DEFINE m == <<h.id, g.id>>
<1>1. m[1] = h.id /\ m[2] = g.id /\ HostFound(m)
  BY DEF Restoring, RowsFound
<1> HIDE DEF m
<1>2. PICK f \in doc.hosts, seg \in doc.segs :
        /\ f.id = m[1] /\ seg.id = f.subnet
        /\ \A r \in db.hosts : r.id = m[2] => r.ip = f.ip /\ CidrIn(db, r.subnet) = seg.cidr
  BY <1>1 DEF HostFound
<1>3. f = h
  BY <1>1, <1>2 DEF Restoring, FilesKeyed, FileKeys
<1> QED
  BY <1>1, <1>2, <1>3 DEF HostFound

\* The rows of a segment that is imported: its own, or a new one.
LEMMA UpsertAutoSubnetRows ==
  ASSUME NEW d, NEW n, Sound(d, n), NEW c \in Cidrs
  PROVE  LET e == UpsertAutoSubnet(d, c, n + 1) IN
         \A s \in e.subnets :
           s \in d.subnets \/ (s.id > n /\ s.cidr = c /\ s.enabled = TRUE)
<1> DEFINE e == UpsertAutoSubnet(d, c, n + 1)
           new == [id |-> n + 1, cidr |-> c, enabled |-> TRUE]
<1>1. d \in Database /\ n \in Nat
  BY DEF Sound
<1>2. e = d \/ e.subnets = d.subnets \cup {new}
  BY <1>1 DEF UpsertAutoSubnet, InsertSubnet, Database
<1>3. new.id > n /\ new.cidr = c /\ new.enabled = TRUE
  BY <1>1
<1> HIDE DEF e, new
<1> QED
  BY <1>2, <1>3 DEF e

\* The rows of a host that is imported.
LEMMA ImportHostRows ==
  ASSUME NEW d, NEW n, Sound(d, n), NEW sn, NEW ip, NEW name
  PROVE  LET e == ImportHost(d, sn, ip, name, n + 1) IN
         \A g \in e.hosts :
           \/ g \in d.hosts /\ (HostsAt(d, sn, ip) = {} \/ g \notin HostsAt(d, sn, ip)
                                  \/ g.name # Blank)
           \/ /\ HostsAt(d, sn, ip) = {}
              /\ g.id > n /\ g.subnet = sn /\ g.ip = ip /\ g.name = name
           \/ \E h \in HostsAt(d, sn, ip) :
                /\ h.name = Blank /\ g.id = h.id /\ g.subnet = sn /\ g.ip = ip
                /\ g.name = name
<1> DEFINE e == ImportHost(d, sn, ip, name, n + 1)
<1>1. d \in Database /\ n \in Nat /\ d.hosts \subseteq Host
  BY DEF Sound, Database
<1>2. CASE HostsAt(d, sn, ip) = {}
  <2> DEFINE new == [id |-> n + 1, subnet |-> sn, ip |-> ip, name |-> name]
  <2>1. e.hosts = d.hosts \cup {new}
    BY <1>1, <1>2 DEF ImportHost, InsertHost, Database
  <2>2. new.id > n /\ new.subnet = sn /\ new.ip = ip /\ new.name = name
    BY <1>1
  <2> HIDE DEF e, new
  <2> QED
    BY <1>2, <2>1, <2>2 DEF e
<1>3. CASE HostsAt(d, sn, ip) # {}
  <2> DEFINE fills(h) == h \in HostsAt(d, sn, ip) /\ h.name = Blank
             set(h) == IF fills(h) THEN [h EXCEPT !.name = name] ELSE h
  <2>1. e.hosts = {set(h) : h \in d.hosts}
    BY <1>1, <1>3 DEF ImportHost, Database
  <2>2. ASSUME NEW h \in d.hosts, fills(h)
        PROVE  /\ set(h).id = h.id /\ set(h).subnet = sn /\ set(h).ip = ip
               /\ set(h).name = name
    BY <1>1, <2>2 DEF Host, HostsAt
  <2>3. \A h \in d.hosts : ~ fills(h) => set(h) = h
    OBVIOUS
  <2> HIDE DEF e, set
  <2>4. ASSUME NEW h \in d.hosts, ~ fills(h)
        PROVE  set(h) = h /\ (h \notin HostsAt(d, sn, ip) \/ h.name # Blank)
    BY <2>3, <2>4
  <2>5. \A h \in d.hosts : fills(h) =>
          /\ set(h).id = h.id /\ set(h).subnet = sn /\ set(h).ip = ip
          /\ set(h).name = name
    BY <2>2
  <2> QED
    BY <1>3, <2>1, <2>4, <2>5 DEF e, fills
<1> QED
  BY <1>2, <1>3

\* Steps of others, and the start of an import.
LEMMA StaysUndisturbed ==
  ASSUME Undisturbed, UNCHANGED importing, db' = db, gone' = gone,
         quiet' = quiet, fresh' = fresh
  PROVE  Undisturbed'
<1>1. UNCHANGED <<kind, stage, doc, todo, segIds, hostIds>>
  BY DEF importing
<1> QED
  BY <1>1 DEF Undisturbed, FlagsSet, NamesFilled, PortsOpened, MethodSet,
     SegmentsFromFile, HostsFromFile, PortsFromFile

LEMMA DisturbedUndisturbed ==
  ASSUME Undisturbed, UNCHANGED <<kind, doc>>, quiet' = FALSE, fresh' = FALSE
  PROVE  Undisturbed'
  BY DEF Undisturbed

LEMMA ForgottenUndisturbed == ASSUME ImportForgotten PROVE Undisturbed'
  BY DEF ImportForgotten, Undisturbed

LEMMA StartUndisturbed ==
  ASSUME Inv,
         \/ \E k \in {"map", "system"} : StartImport(k)
         \/ \E k \in {"dnsrecon", "nmap"}, rows \in SUBSET Scanned \ {{}} :
              StartAddressImport(k, rows)
  PROVE  Undisturbed'
<1>1. /\ segIds' = {} /\ hostIds' = {} /\ quiet' = TRUE /\ gone' = Nothing /\ db' = db
      /\ fresh' = (db.subnets = {})
      /\ \/ stage' = "segments" /\ kind' \in {"map", "system"}
         \/ doc' = NoFile
  BY DEF StartImport, StartAddressImport, Start, inventory
<1>2. References(db)
  BY DEF Inv, NoOrphans
<1>3. fresh' => db.subnets = {} /\ db.hosts = {} /\ db.ports = {}
  <2>1. db.subnets = {} => db.hosts = {}
    BY <1>2 DEF References, Ids
  <2>2. db.hosts = {} => db.ports = {}
    BY <1>2 DEF References, Ids
  <2> QED
    BY <1>1, <2>1, <2>2
<1>4. CASE doc' = NoFile
  BY <1>1, <1>4 DEF Undisturbed
<1>5. CASE stage' = "segments" /\ kind' \in {"map", "system"}
  <2>1. FlagsSet' /\ NamesFilled' /\ PortsOpened' /\ MethodSet'
    BY <1>1, <1>5 DEF FlagsSet, NamesFilled, PortsOpened, MethodSet
  <2>2. fresh' => SegmentsFromFile' /\ HostsFromFile' /\ PortsFromFile'
    BY <1>1, <1>3 DEF SegmentsFromFile, HostsFromFile, PortsFromFile
  <2> QED
    BY <1>1, <1>5, <2>1, <2>2 DEF Undisturbed
<1> QED
  BY <1>1, <1>4, <1>5

LEMMA NextStageUndisturbed ==
  ASSUME Inv, Restoring, Undisturbed, NextStage PROVE Undisturbed'
<1>1. /\ todo = {} /\ UNCHANGED <<db, kind, doc, segIds, hostIds, gone, quiet, fresh>>
      /\ stage' = "done" => stage = "addresses"
      /\ stage' = "ports" => stage = "hosts" /\ todo' = doc.ports
      /\ stage' = "settings" => stage = "ports"
      /\ stage' \in {"hosts", "ports", "settings", "done"}
  BY DEF NextStage, inventory, ghosts
<1>2. stage = "addresses" => doc = NoFile
  BY DEF Restoring, Left
<1>3. doc # NoFile /\ quiet => FlagsSet' /\ NamesFilled' /\ PortsOpened' /\ MethodSet'
  BY <1>1, <1>2 DEF Undisturbed, FlagsSet, NamesFilled, PortsOpened, MethodSet
<1>4. doc # NoFile /\ fresh => SegmentsFromFile' /\ HostsFromFile' /\ PortsFromFile'
  BY <1>1 DEF Undisturbed, SegmentsFromFile, HostsFromFile, PortsFromFile
<1> QED
  BY <1>1, <1>3, <1>4 DEF Undisturbed

\* An import that fails has met a deletion, and is disturbed.
LEMMA FailUndisturbed ==
  ASSUME Restoring', Undisturbed, Fail PROVE Undisturbed'
<1>1. /\ stage' = "failed"
      /\ UNCHANGED <<db, kind, doc, todo, segIds, hostIds, gone, quiet, fresh>>
  BY DEF Fail, inventory, ghosts
<1>2. gone # Nothing
  BY <1>1 DEF Restoring
<1> QED
  BY <1>1, <1>2 DEF Undisturbed

\* Import steps, one lemma for each.
LEMMA SegmentUndisturbed ==
  ASSUME Inv, Inv', Restoring, Restoring', Undisturbed, NEW seg \in todo, ImportSegment(seg)
  PROVE  Undisturbed'
<1> DEFINE d == UpsertAutoSubnet(db, seg.cidr, New)
<1>1. /\ stage = "segments" /\ db' = d /\ stage' \in {"segments", "flags"}
      /\ segIds' = segIds \cup {<<seg.id, s.id>> : s \in {t \in d.subnets : t.cidr = seg.cidr}}
      /\ UNCHANGED <<doc, kind, hostIds, gone, quiet, fresh>>
      /\ IF kind = "system" THEN todo' = todo ELSE todo' = todo \ {seg}
  BY DEF ImportSegment, Store
<1>2. Sound(db, serial) /\ New = serial + 1 /\ serial \in Nat
  BY InvSound DEF New, Sound
<1>3. doc # NoFile /\ seg \in doc.segs /\ seg.cidr \in Cidrs /\ hostIds = {}
  BY <1>1 DEF Inv, DocHeld, TypeOK, ImportType, Restoring, Left, Subnet
<1>4. /\ db.subnets \subseteq d.subnets /\ d.hosts = db.hosts /\ d.ports = db.ports
      /\ \A s \in d.subnets :
           s \in db.subnets \/ (s.id > serial /\ s.cidr = seg.cidr /\ s.enabled = TRUE)
  BY <1>2, <1>3, UpsertAutoSubnetAdds, UpsertAutoSubnetRows
<1>5. segIds \subseteq segIds' /\ \A s \in d.subnets : s.cidr = seg.cidr => <<seg.id, s.id>> \in segIds'
  BY <1>1
<1>6. ASSUME NEW t \in doc.segs, NEW s \in d.subnets, <<t.id, s.id>> \in segIds'
      PROVE  t = seg \/ <<t.id, s.id>> \in segIds
  <2>1. <<t.id, s.id>> \in segIds \/ t.id = seg.id
    BY <1>1, <1>6
  <2> QED
    BY <1>3, <2>1 DEF Restoring, FilesKeyed, FileKeys
<1> HIDE DEF d
<1>7. quiet => FlagsSet'
  <2> SUFFICES ASSUME quiet, kind = "system", NEW t \in doc.segs, NEW s \in d.subnets,
                      <<t.id, s.id>> \in segIds', t \notin todo
               PROVE  s.enabled = t.enabled
    BY <1>1 DEF FlagsSet
  <2>1. t # seg /\ <<t.id, s.id>> \in segIds
    BY <1>6
  <2>2. s \in db.subnets
    <3>1. s.id <= serial
      <4> DEFINE m == <<t.id, s.id>>
      <4>1. SegmentFound(m) /\ m[2] = s.id
        BY <2>1 DEF Restoring, RowsFound
      <4> HIDE DEF m
      <4> QED
        BY <4>1 DEF SegmentFound
    <3>2. s.id \in Nat
      BY <1>1 DEF Inv, TypeOK, InventoryType, Database, Subnet
    <3> QED
      BY <1>2, <1>4, <3>1, <3>2
  <2> QED
    BY <1>1, <1>3, <2>1, <2>2 DEF Undisturbed, FlagsSet
<1>8. NamesFilled' /\ PortsOpened' /\ MethodSet'
  BY <1>1, <1>3 DEF NamesFilled, PortsOpened, MethodSet
<1>9. fresh => SegmentsFromFile'
  <2> SUFFICES ASSUME fresh, NEW s \in d.subnets
               PROVE  /\ \E t \in doc.segs : <<t.id, s.id>> \in segIds'
                      /\ kind = "map" => s.enabled = TRUE
    BY <1>1 DEF SegmentsFromFile
  <2> QED
    BY <1>3, <1>4, <1>5 DEF Undisturbed, SegmentsFromFile
<1>10. fresh => HostsFromFile' /\ PortsFromFile'
  BY <1>1, <1>3, <1>4 DEF Undisturbed, HostsFromFile, PortsFromFile
<1> QED
  BY <1>1, <1>3, <1>7, <1>8, <1>9, <1>10 DEF Undisturbed

LEMMA FlagsUndisturbed ==
  ASSUME Inv, Restoring, Undisturbed, NEW seg \in todo, ImportFlags(seg)
  PROVE  Undisturbed'
<1>1. PICK m \in segIds : m[1] = seg.id /\ Store(SetSubnetEnabled(db, m[2], seg.enabled))
  BY DEF ImportFlags
<1>2. /\ db' = SetSubnetEnabled(db, m[2], seg.enabled)
      /\ stage = "flags" /\ stage' = "segments" /\ todo' = todo \ {seg}
      /\ UNCHANGED <<kind, doc, segIds, hostIds, gone, quiet, fresh>>
  BY <1>1 DEF ImportFlags, Store
<1>3. /\ doc # NoFile /\ kind = "system" /\ seg \in doc.segs /\ seg \in Subnet /\ hostIds = {}
      /\ seg.enabled \in BOOLEAN
  BY <1>2 DEF Inv, DocHeld, TypeOK, ImportType, Restoring, Left, Subnet
<1> DEFINE set(s) == IF s.id = m[2] THEN [s EXCEPT !.enabled = seg.enabled] ELSE s
<1>4. /\ db'.hosts = db.hosts /\ db'.ports = db.ports
      /\ db'.subnets = {set(s) : s \in db.subnets}
  BY <1>2, <1>3, InvSound, SetSubnetEnabledAdds
<1>5. ASSUME NEW s \in db.subnets
      PROVE  /\ set(s).id = s.id
             /\ s.id # m[2] => set(s) = s
             /\ s.id = m[2] => set(s).enabled = seg.enabled
  BY DEF Inv, TypeOK, InventoryType, Database, Subnet
<1> HIDE DEF set
<1>6. quiet => FlagsSet'
  <2> SUFFICES ASSUME quiet, NEW t \in doc.segs, NEW s \in db.subnets,
                      <<t.id, set(s).id>> \in segIds, t \notin todo \/ t = seg
               PROVE  set(s).enabled = t.enabled
    BY <1>2, <1>4 DEF FlagsSet
  <2>1. <<t.id, s.id>> \in segIds
    BY <1>5
  <2>2. ASSUME s.id = m[2] PROVE t = seg
    <3>1. <<seg.id, s.id>> \in segIds
      <4>1. m = <<m[1], m[2]>>
        BY DEF Inv, TypeOK, ImportType
      <4> QED
        BY <1>1, <2>2, <4>1
    <3>2. s.cidr = seg.cidr /\ s.cidr = t.cidr
      BY <1>3, <2>1, <3>1, SegmentRowIs
    <3> QED
      BY <1>3, <3>2 DEF Restoring, FilesKeyed, FileKeys
  <2>3. ASSUME t = seg PROVE s.id = m[2]
    <3>1. PICK r \in doc.segs :
            r.id = m[1] /\ \A q \in db.subnets : q.id = m[2] => q.cidr = r.cidr
      BY DEF Restoring, RowsFound, SegmentFound
    <3>2. PICK q \in db.subnets : q.id = m[2]
      <4>1. gone.subnets = {}
        BY <1>3 DEF Undisturbed, Nothing
      <4> QED
        BY <4>1 DEF Restoring, RowsFound, SegmentFound, Ids
    <3>3. r = seg /\ s.cidr = seg.cidr
      BY <1>1, <1>3, <2>1, <2>3, <3>1, SegmentRowIs DEF Restoring, FilesKeyed, FileKeys
    <3>4. q = s
      BY <3>1, <3>2, <3>3 DEF Inv, NoOrphans, Keys
    <3> QED
      BY <3>2, <3>4
  <2>4. CASE s.id = m[2]
    BY <1>5, <2>2, <2>4
  <2>5. CASE s.id # m[2]
    <3>1. set(s) = s /\ t \notin todo
      BY <1>5, <2>3, <2>5
    <3> QED
      BY <1>2, <1>3, <2>1, <3>1 DEF Undisturbed, FlagsSet
  <2> QED
    BY <2>4, <2>5
<1>7. NamesFilled' /\ PortsOpened' /\ MethodSet'
  BY <1>2, <1>3 DEF NamesFilled, PortsOpened, MethodSet
<1>8. fresh => SegmentsFromFile' /\ HostsFromFile' /\ PortsFromFile'
  BY <1>2, <1>3, <1>4, <1>5 DEF Undisturbed, SegmentsFromFile, HostsFromFile, PortsFromFile
<1> QED
  BY <1>2, <1>3, <1>6, <1>7, <1>8 DEF Undisturbed

LEMMA HostUndisturbed ==
  ASSUME Inv, Inv', Restoring, Restoring', Undisturbed, NEW h \in todo, ImportHostRow(h)
  PROVE  Undisturbed'
<1>1. stage = "hosts" /\ doc # NoFile /\ h \in doc.hosts /\ h \in Host
  BY DEF ImportHostRow, Inv, DocHeld, TypeOK, ImportType, Restoring, Left
<1>2. CASE \A m \in segIds : m[1] # h.subnet
  <2>1. UNCHANGED <<db, kind, stage, doc, segIds, hostIds, gone, quiet, fresh>>
    BY <1>2 DEF ImportHostRow, Skip, inventory, ghosts
  <2> QED
    BY <1>1, <2>1 DEF Undisturbed, FlagsSet, NamesFilled, PortsOpened, MethodSet,
       SegmentsFromFile, HostsFromFile, PortsFromFile
<1>3. ASSUME NEW m \in segIds, m[1] = h.subnet, m[2] \in Ids(db.subnets),
             Store(ImportHost(db, m[2], h.ip, h.name, New)),
             hostIds' = hostIds \cup ({h.id} \X RowIds(db', m[2], h.ip)),
             UNCHANGED <<stage, segIds>>
      PROVE  Undisturbed'
  <2>1. Sound(db, serial) /\ Sound(db', serial') /\ New = serial + 1
    BY InvSound DEF New, Inv, TypeOK, InventoryType, NoOrphans, Sound
  <2>2. /\ db' = ImportHost(db, m[2], h.ip, h.name, serial + 1)
        /\ UNCHANGED <<kind, doc, gone, quiet, fresh>>
    BY <1>3, <2>1 DEF Store
  <2>3. h.ip \in IPs /\ h.name \in Names
    BY <1>1 DEF Host
  <2>4. PICK g \in db'.hosts : g.subnet = m[2] /\ g.ip = h.ip /\ RowIds(db', m[2], h.ip) = {g.id}
    BY <1>3, <2>1, <2>2, <2>3, ImportHostThere
  <2>5. hostIds' = hostIds \cup {<<h.id, g.id>>} /\ db'.subnets = db.subnets /\ db'.ports = db.ports
    BY <1>3, <2>1, <2>2, <2>4, ImportHostAdds
  <2>6. \A f \in db'.hosts :
          \/ f \in db.hosts /\ (HostsAt(db, m[2], h.ip) = {} \/ f \notin HostsAt(db, m[2], h.ip)
                                  \/ f.name # Blank)
          \/ /\ HostsAt(db, m[2], h.ip) = {}
             /\ f.id > serial /\ f.subnet = m[2] /\ f.ip = h.ip /\ f.name = h.name
          \/ \E r \in HostsAt(db, m[2], h.ip) :
               /\ r.name = Blank /\ f.id = r.id /\ f.subnet = m[2] /\ f.ip = h.ip
               /\ f.name = h.name
    BY <2>1, <2>2, ImportHostRows
  <2>7. \A f \in db'.hosts : f.id = g.id => f = g
    BY <2>1, <2>4 DEF Sound, Keys
  \* The row of h has a name, or the file has none for it.
  <2>8. g.name # Blank \/ h.name = Blank
    BY <2>4, <2>6 DEF HostsAt
  <2>9. \A f \in db.hosts : f.id <= serial /\ f.id \in Nat
    BY <2>1 DEF Sound, IdsUpTo, Ids, Database, Host
  <2>10. quiet => NamesFilled'
    <3> SUFFICES ASSUME quiet, NEW k \in doc.hosts, NEW f \in db'.hosts,
                        <<k.id, f.id>> \in hostIds', k.name # Blank
                 PROVE  f.name # Blank
      BY <2>2 DEF NamesFilled
    <3>1. CASE <<k.id, f.id>> \in hostIds
      <4>1. f.id <= serial /\ f.id \in Nat /\ serial \in Nat
        <5> DEFINE l == <<k.id, f.id>>
        <5>1. HostFound(l) /\ l[2] = f.id
          BY <3>1 DEF Restoring, RowsFound
        <5> HIDE DEF l
        <5> QED
          BY <2>1, <5>1 DEF HostFound, Sound, Database, Host
      <4>2. \A r \in db.hosts : r.id = f.id => r.name # Blank
        BY <1>1, <3>1 DEF Undisturbed, NamesFilled
      <4> QED
        BY <2>6, <4>1, <4>2 DEF HostsAt
    <3>2. CASE <<k.id, f.id>> = <<h.id, g.id>>
      <4>1. k = h /\ f = g
        BY <1>1, <2>7, <3>2 DEF Restoring, FilesKeyed, FileKeys
      <4> QED
        BY <2>8, <4>1
    <3> QED
      BY <2>5, <3>1, <3>2
  <2>11. fresh => HostsFromFile'
    <3> SUFFICES ASSUME fresh, NEW f \in db'.hosts
                 PROVE  \E k \in doc.hosts : <<k.id, f.id>> \in hostIds' /\ f.name = k.name
      BY <2>2 DEF HostsFromFile
    <3>1. CASE f \in db.hosts
      BY <1>1, <2>5, <3>1 DEF Undisturbed, HostsFromFile
    <3>2. CASE f.subnet = m[2] /\ f.ip = h.ip /\ f.name = h.name
      <4>1. f = g
        BY <2>1, <2>4, <3>2 DEF Sound, Keys
      <4> QED
        BY <1>1, <2>5, <3>2, <4>1
    <3> QED
      BY <2>6, <3>1, <3>2
  <2>12. fresh => SegmentsFromFile' /\ PortsFromFile'
    BY <1>1, <1>3, <2>2, <2>5 DEF Undisturbed, SegmentsFromFile, PortsFromFile
  <2>13. quiet => FlagsSet' /\ PortsOpened' /\ MethodSet'
    BY <1>1, <1>3, <2>2, <2>5 DEF Undisturbed, FlagsSet, PortsOpened, MethodSet
  <2> QED
    BY <1>1, <2>2, <2>10, <2>11, <2>12, <2>13 DEF Undisturbed
<1>4. CASE ~ \A m \in segIds : m[1] # h.subnet
  <2>1. PICK m \in segIds :
          /\ m[1] = h.subnet
          /\ IF m[2] \notin Ids(db.subnets) THEN Fail
             ELSE LET d == ImportHost(db, m[2], h.ip, h.name, New) IN
                  /\ Store(d)
                  /\ hostIds' = hostIds \cup ({h.id} \X RowIds(d, m[2], h.ip))
                  /\ todo' = todo \ {h}
                  /\ UNCHANGED <<stage, segIds, known, pending>>
    BY <1>4 DEF ImportHostRow
  <2>2. \A d : Store(d) => db' = d
    BY DEF Store
  <2> QED
    BY <1>3, <2>1, <2>2, FailUndisturbed
<1> QED
  BY <1>2, <1>4

LEMMA PortUndisturbed ==
  ASSUME Inv, Inv', Restoring, Restoring', Undisturbed, NEW p \in todo, ImportPortRow(p)
  PROVE  Undisturbed'
<1>1. stage = "ports" /\ doc # NoFile /\ p \in doc.ports /\ p \in Port
  BY DEF ImportPortRow, Inv, DocHeld, TypeOK, ImportType, Restoring, Left
<1>2. CASE ~ p.open \/ \A m \in hostIds : m[1] # p.host
  <2>1. /\ UNCHANGED <<db, kind, stage, doc, segIds, hostIds, gone, quiet, fresh>>
        /\ todo' = todo \ {p}
    BY <1>2 DEF ImportPortRow, Skip, inventory, ghosts
  <2>2. quiet => PortsOpened'
    BY <1>1, <1>2, <2>1 DEF Undisturbed, PortsOpened
  <2> QED
    BY <1>1, <2>1, <2>2 DEF Undisturbed, FlagsSet, NamesFilled, MethodSet,
       SegmentsFromFile, HostsFromFile, PortsFromFile
<1>3. ASSUME NEW m \in hostIds, m[1] = p.host, p.open,
             Store(UpsertPort(db, m[2], p.port)), todo' = todo \ {p},
             UNCHANGED <<stage, segIds, hostIds>>
      PROVE  Undisturbed'
  <2> DEFINE new == [host |-> m[2], port |-> p.port, open |-> TRUE]
  <2>1. Sound(db, serial) /\ db' = UpsertPort(db, m[2], p.port)
        /\ UNCHANGED <<kind, doc, gone, quiet, fresh>>
    BY <1>3, InvSound DEF Store
  <2>2. /\ db'.subnets = db.subnets /\ db'.hosts = db.hosts
        /\ db'.ports = (db.ports \ PortsAt(db, m[2], p.port)) \cup {new}
    BY <2>1, UpsertPortAdds
  <2>3. new.host = m[2] /\ new.port = p.port /\ new.open = TRUE
    OBVIOUS
  <2>4. m = <<p.host, m[2]>> /\ \A l \in hostIds : l[1] = p.host => l = m
    BY <1>3 DEF Restoring, RowsFound, Inv, TypeOK, ImportType
  <2>5. quiet => PortsOpened'
    <3> SUFFICES ASSUME quiet, NEW q \in doc.ports, NEW l \in hostIds, q.open, l[1] = q.host,
                        q \notin todo \/ q = p
                 PROVE  [host |-> l[2], port |-> q.port, open |-> TRUE] \in db'.ports
      BY <1>1, <1>3, <2>1 DEF PortsOpened
    <3> DEFINE row == [host |-> l[2], port |-> q.port, open |-> TRUE]
    <3>1. CASE q = p
      <4>1. row = new
        BY <2>4, <3>1
      <4> QED
        BY <2>2, <4>1
    <3>2. CASE q \notin todo
      <4>1. row \in db.ports
        BY <1>1, <3>2 DEF Undisturbed, PortsOpened
      <4>2. row.host = m[2] /\ row.port = p.port => row = new
        OBVIOUS
      <4> HIDE DEF row, new
      <4>3. row \in db'.ports
        BY <2>2, <4>1, <4>2 DEF PortsAt
      <4> QED
        BY <4>3 DEF row
    <3> QED
      BY <3>1, <3>2
  <2>6. fresh => PortsFromFile'
    <3> SUFFICES ASSUME fresh, NEW q \in db'.ports
                 PROVE  /\ q.open = TRUE
                        /\ \E r \in doc.ports :
                             r.open /\ r.port = q.port /\ <<r.host, q.host>> \in hostIds
      BY <1>3, <2>1 DEF PortsFromFile
    <3> HIDE DEF new
    <3>1. CASE q \in db.ports
      BY <1>1, <3>1 DEF Undisturbed, PortsFromFile
    <3>2. CASE q = new
      BY <1>1, <1>3, <2>3, <2>4, <3>2
    <3> QED
      BY <2>2, <3>1, <3>2
  <2>7. quiet => FlagsSet' /\ NamesFilled' /\ MethodSet'
    BY <1>1, <1>3, <2>1, <2>2 DEF Undisturbed, FlagsSet, NamesFilled, MethodSet
  <2>8. fresh => SegmentsFromFile' /\ HostsFromFile'
    BY <1>1, <1>3, <2>1, <2>2 DEF Undisturbed, SegmentsFromFile, HostsFromFile
  <2> QED
    BY <1>1, <2>1, <2>5, <2>6, <2>7, <2>8 DEF Undisturbed
<1> QED
  BY <1>2, <1>3, FailUndisturbed DEF ImportPortRow

LEMMA SettingsUndisturbed ==
  ASSUME Inv, Undisturbed, ImportSettings PROVE Undisturbed'
<1>1. /\ stage = "settings" /\ stage' = "done"
      /\ db' = IF kind = "system" THEN [db EXCEPT !.method = doc.method] ELSE db
      /\ UNCHANGED <<kind, doc, segIds, hostIds, gone, quiet, fresh>>
  BY DEF ImportSettings
<1>2. doc # NoFile /\ db \in Database
  BY <1>1 DEF Inv, DocHeld, TypeOK, InventoryType
<1>3. /\ db'.subnets = db.subnets /\ db'.hosts = db.hosts /\ db'.ports = db.ports
      /\ kind = "system" => db'.method = doc.method
  BY <1>1, <1>2 DEF Database
<1>4. MethodSet'
  BY <1>1, <1>3 DEF MethodSet
<1>5. quiet => FlagsSet' /\ NamesFilled' /\ PortsOpened'
  BY <1>1, <1>2, <1>3 DEF Undisturbed, FlagsSet, NamesFilled, PortsOpened
<1>6. fresh => SegmentsFromFile' /\ HostsFromFile' /\ PortsFromFile'
  BY <1>1, <1>2, <1>3 DEF Undisturbed, SegmentsFromFile, HostsFromFile, PortsFromFile
<1> QED
  BY <1>1, <1>2, <1>4, <1>5, <1>6 DEF Undisturbed

LEMMA AddressesUndisturbed ==
  ASSUME Restoring, Undisturbed, stage = "addresses",
         \/ \E a \in todo : ImportAddress(a)
         \/ \E x \in pending : ImportAddressPort(x)
  PROVE  Undisturbed'
<1>1. doc' = doc /\ quiet' = quiet /\ fresh' = fresh
  BY DEF ImportAddress, ImportAddressPort, Store, Fail, ghosts
<1>2. doc = NoFile
  BY DEF Restoring, Left
<1> QED
  BY <1>1, <1>2 DEF Undisturbed

LEMMA NextUndisturbed ==
  Inv /\ Inv' /\ Restoring /\ Restoring' /\ Undisturbed /\ [Next]_vars => Undisturbed'
<1> SUFFICES ASSUME Inv, Inv', Restoring, Restoring', Undisturbed, [Next]_vars
             PROVE  Undisturbed'
  OBVIOUS
<1>1. CASE \/ ExportSubnets \/ ExportHosts \/ ExportDone
           \/ (\E h \in export.left : ExportPorts(h)) \/ UNCHANGED vars
  <2>1. UNCHANGED importing /\ db' = db /\ gone' = gone /\ quiet' = quiet /\ fresh' = fresh
    BY <1>1 DEF ExportSubnets, ExportHosts, ExportPorts, ExportDone, inventory, ghosts,
       vars, importing
  <2> QED
    BY <2>1, StaysUndisturbed
<1>2. CASE \/ \E k \in {"map", "system"} : StartImport(k)
           \/ \E k \in {"dnsrecon", "nmap"}, rows \in SUBSET Scanned \ {{}} :
                StartAddressImport(k, rows)
  BY <1>2, StartUndisturbed
<1>3. CASE ImportStep
  <2>1. \A x \in pending : ImportAddressPort(x) => stage = "addresses"
    BY DEF ImportAddressPort
  <2> QED
    BY <1>3, <2>1, SegmentUndisturbed, FlagsUndisturbed, HostUndisturbed, PortUndisturbed,
       AddressesUndisturbed, SettingsUndisturbed DEF ImportStep
<1>4. CASE NextStage
  BY <1>4, NextStageUndisturbed
<1>5. CASE OtherEdit /\ Running
  BY <1>5, DisturbedUndisturbed DEF OtherEdit, importing
<1>6. CASE (OtherEdit /\ ~ Running) \/ Restart
  BY <1>6, ForgottenUndisturbed DEF OtherEdit, Restart
<1> QED
  BY <1>1, <1>2, <1>3, <1>4, <1>5, <1>6 DEF Next

LEMMA UndisturbedHolds == Spec => [](Inv /\ Restoring /\ Undisturbed)
<1>1. Init => Inv /\ Restoring /\ Undisturbed
  <2>1. Init => Undisturbed
    BY DEF Init, Undisturbed
  <2> QED
    BY <2>1, InitInv, InitRestoring
<1>2. (Inv /\ Restoring /\ Undisturbed) /\ [Next]_vars => (Inv /\ Restoring /\ Undisturbed)'
  <2>1. Inv /\ [Next]_vars => Inv'
    BY NextInv
  <2>2. Inv /\ Inv' /\ Restoring /\ [Next]_vars => Restoring'
    BY NextRestoring
  <2>3. Inv /\ Inv' /\ Restoring /\ Restoring' /\ Undisturbed /\ [Next]_vars => Undisturbed'
    BY NextUndisturbed
  <2> QED
    BY <2>1, <2>2, <2>3
<1> QED
  BY <1>1, <1>2, PTL DEF Spec

\* File and tables, row by row, when an undisturbed import into empty tables is done.
Rebuilt == Inv /\ Restoring /\ Undisturbed /\ stage = "done" /\ fresh /\ doc # NoFile

LEMMA RebuiltSegments ==
  ASSUME Rebuilt
  PROVE  /\ kind \in {"map", "system"} /\ gone = Nothing
         /\ \A s \in db.subnets : \E seg \in doc.segs :
              s.cidr = seg.cidr /\ s.enabled = IF kind = "system" THEN seg.enabled ELSE TRUE
         /\ \A seg \in doc.segs : \E s \in db.subnets :
              s.cidr = seg.cidr /\ s.enabled = IF kind = "system" THEN seg.enabled ELSE TRUE
<1>1. /\ quiet /\ gone = Nothing /\ kind \in {"map", "system"} /\ FlagsSet
      /\ SegmentsFromFile /\ stage = "done" /\ doc # NoFile /\ FileKeys(doc)
  BY DEF Rebuilt, Undisturbed, Restoring, FilesKeyed
<1>2. ASSUME NEW s \in db.subnets
      PROVE  \E seg \in doc.segs :
               s.cidr = seg.cidr /\ s.enabled = IF kind = "system" THEN seg.enabled ELSE TRUE
  <2>1. PICK seg \in doc.segs : <<seg.id, s.id>> \in segIds
    BY <1>1 DEF SegmentsFromFile
  <2>2. s.cidr = seg.cidr
    BY <1>1, <2>1, SegmentRowIs DEF Rebuilt
  <2>3. kind = "system" => s.enabled = seg.enabled
    BY <1>1, <2>1 DEF FlagsSet
  <2>4. kind # "system" => s.enabled = TRUE
    BY <1>1 DEF SegmentsFromFile
  <2> QED
    BY <2>2, <2>3, <2>4
<1>3. ASSUME NEW seg \in doc.segs
      PROVE  \E s \in db.subnets :
               s.cidr = seg.cidr /\ s.enabled = IF kind = "system" THEN seg.enabled ELSE TRUE
  <2>1. PICK m \in segIds : m[1] = seg.id
    BY <1>1 DEF Rebuilt, Restoring, SegmentsDone
  <2>2. seg.cidr \in CidrsOf(db)
    BY <1>1, <2>1, SegmentRow DEF Rebuilt, Nothing
  <2>3. PICK s \in db.subnets : s.cidr = seg.cidr
    BY <2>2 DEF CidrsOf
  <2>4. PICK t \in doc.segs :
          s.cidr = t.cidr /\ s.enabled = IF kind = "system" THEN t.enabled ELSE TRUE
    BY <1>2
  <2>5. t = seg
    BY <1>1, <2>3, <2>4 DEF FileKeys
  <2> QED
    BY <2>3, <2>4, <2>5
<1> QED
  BY <1>1, <1>2, <1>3

\* Host h of the file, in its segment, and row g.
SameHost(h, seg, g) ==
  /\ seg.id = h.subnet /\ <<h.id, g.id>> \in hostIds
  /\ CidrIn(db, g.subnet) = seg.cidr /\ g.ip = h.ip /\ g.name = h.name

LEMMA RebuiltHosts ==
  ASSUME Rebuilt
  PROVE  /\ \A g \in db.hosts : \E h \in doc.hosts, seg \in doc.segs : SameHost(h, seg, g)
         /\ \A h \in doc.hosts, seg \in doc.segs : h.subnet = seg.id =>
              \E g \in db.hosts : SameHost(h, seg, g)
<1>1. HostsFromFile /\ stage = "done" /\ doc # NoFile /\ FileKeys(doc) /\ gone = Nothing
  BY DEF Rebuilt, Undisturbed, Restoring, FilesKeyed
<1>2. ASSUME NEW g \in db.hosts
      PROVE  \E h \in doc.hosts, seg \in doc.segs : SameHost(h, seg, g)
  <2>1. PICK h \in doc.hosts : <<h.id, g.id>> \in hostIds /\ g.name = h.name
    BY <1>1 DEF HostsFromFile
  <2> QED
    BY <1>1, <2>1, HostRowIs DEF Rebuilt, SameHost
<1>3. ASSUME NEW h \in doc.hosts, NEW seg \in doc.segs, h.subnet = seg.id
      PROVE  \E g \in db.hosts : SameHost(h, seg, g)
  <2>1. PICK m \in hostIds : m[1] = h.id
    BY <1>1, <1>3 DEF Rebuilt, Restoring, HostsDone
  <2>2. PICK g \in db.hosts : g.id = m[2] /\ g.ip = h.ip /\ CidrIn(db, g.subnet) = seg.cidr
    BY <1>1, <1>3, <2>1, HostRow DEF Rebuilt, Nothing
  <2>3. PICK f \in doc.hosts, t \in doc.segs : SameHost(f, t, g)
    BY <1>2
  <2>4. t = seg
    BY <1>1, <2>2, <2>3 DEF SameHost, FileKeys
  <2>5. f = h
    BY <1>1, <1>3, <2>2, <2>3, <2>4 DEF SameHost, FileKeys
  <2> QED
    BY <2>3, <2>4, <2>5
<1> QED
  BY <1>2, <1>3

LEMMA RebuiltPorts ==
  ASSUME Rebuilt
  PROVE  /\ \A q \in db.ports :
              /\ q.open = TRUE
              /\ \E p \in doc.ports, h \in doc.hosts, seg \in doc.segs, g \in db.hosts :
                   /\ SameHost(h, seg, g)
                   /\ p.open /\ p.port = q.port /\ p.host = h.id /\ q.host = g.id
         /\ \A p \in doc.ports, h \in doc.hosts, seg \in doc.segs, g \in db.hosts :
              p.open /\ p.host = h.id /\ SameHost(h, seg, g) =>
                \E q \in db.ports : q.host = g.id /\ q.port = p.port /\ q.open
<1>1. /\ PortsFromFile /\ PortsOpened /\ stage = "done" /\ doc # NoFile /\ FileKeys(doc)
      /\ References(db) /\ Keys(db)
  BY DEF Rebuilt, Undisturbed, Restoring, FilesKeyed, Inv, NoOrphans
<1>2. ASSUME NEW q \in db.ports
      PROVE  /\ q.open = TRUE
             /\ \E p \in doc.ports, h \in doc.hosts, seg \in doc.segs, g \in db.hosts :
                  /\ SameHost(h, seg, g)
                  /\ p.open /\ p.port = q.port /\ p.host = h.id /\ q.host = g.id
  <2>1. PICK p \in doc.ports : p.open /\ p.port = q.port /\ <<p.host, q.host>> \in hostIds
    BY <1>1 DEF PortsFromFile
  <2>2. PICK g \in db.hosts : g.id = q.host
    BY <1>1 DEF References, Ids
  <2>3. PICK h \in doc.hosts, seg \in doc.segs : SameHost(h, seg, g)
    BY RebuiltHosts
  <2>4. PICK f \in doc.hosts : f.id = p.host
    <3> DEFINE m == <<p.host, q.host>>
    <3>1. m[1] = p.host /\ HostFound(m)
      BY <2>1 DEF Rebuilt, Restoring, RowsFound
    <3> HIDE DEF m
    <3> QED
      BY <3>1 DEF HostFound
  <2>5. PICK t \in doc.segs : t.id = f.subnet /\ g.ip = f.ip /\ CidrIn(db, g.subnet) = t.cidr
    BY <1>1, <2>1, <2>2, <2>4, HostRowIs DEF Rebuilt
  <2>6. t = seg
    BY <1>1, <2>3, <2>5 DEF SameHost, FileKeys
  <2>7. f = h
    BY <1>1, <2>3, <2>5, <2>6 DEF SameHost, FileKeys
  <2> QED
    BY <1>1, <2>1, <2>2, <2>3, <2>4, <2>7 DEF PortsFromFile
<1>3. ASSUME NEW p \in doc.ports, NEW h \in doc.hosts, NEW seg \in doc.segs, NEW g \in db.hosts,
             p.open, p.host = h.id, SameHost(h, seg, g)
      PROVE  \E q \in db.ports : q.host = g.id /\ q.port = p.port /\ q.open
  <2> DEFINE m == <<h.id, g.id>>
             new == [host |-> m[2], port |-> p.port, open |-> TRUE]
  <2>1. m \in hostIds /\ m[1] = p.host
    BY <1>3 DEF SameHost
  <2>2. new \in db.ports
    BY <1>1, <1>3, <2>1 DEF PortsOpened
  <2>3. new.host = g.id /\ new.port = p.port /\ new.open
    OBVIOUS
  <2> QED
    BY <2>2, <2>3
<1>4. \A p \in doc.ports, h \in doc.hosts, seg \in doc.segs, g \in db.hosts :
        p.open /\ p.host = h.id /\ SameHost(h, seg, g) =>
          \E q \in db.ports : q.host = g.id /\ q.port = p.port /\ q.open
  BY <1>3, Zenon
<1> QED
  BY <1>2, <1>4

\* Whatever ids the tables had and get: imported undisturbed into an empty
\* database, a file gives back its subnets, hosts and open ports and nothing
\* else; a system file also the excluded subnets and the scan method.
THEOREM RestoredAsExportedHolds == Spec => []RestoredAsExported
<1>1. ASSUME Rebuilt
      PROVE  LET enabled(s) == IF kind = "system" THEN s ELSE [s EXCEPT !.enabled = TRUE] IN
             /\ Picture(db.subnets, db.hosts, db.ports)
                  = Picture({enabled(s) : s \in doc.segs}, doc.hosts, doc.ports)
             /\ \A p \in db.ports : p.open
             /\ kind = "system" => db.method = doc.method
  <2> DEFINE enabled(s) == IF kind = "system" THEN s ELSE [s EXCEPT !.enabled = TRUE]
             segs == {enabled(s) : s \in doc.segs}
             at(h) == RowOf(segs, h.subnet).cidr
             held == {h \in doc.hosts : h.subnet \in Ids(segs)}
             at0(h) == RowOf(db.subnets, h.subnet).cidr
             held0 == {h \in db.hosts : h.subnet \in Ids(db.subnets)}
  <2>1. FileKeys(doc) /\ References(db) /\ Sound(db, serial) /\ doc \in File
    BY <1>1, InvSound DEF Rebuilt, Restoring, FilesKeyed, Inv, NoOrphans, TypeOK, ImportType
  <2>2. ASSUME NEW s \in doc.segs
        PROVE  /\ enabled(s).id = s.id /\ enabled(s).cidr = s.cidr
               /\ enabled(s).enabled = IF kind = "system" THEN s.enabled ELSE TRUE
    BY <2>1 DEF File, Subnet
  <2> HIDE DEF enabled
  <2>3. ASSUME NEW r \in segs
         PROVE  \E s \in doc.segs :
                  /\ r.id = s.id /\ r.cidr = s.cidr
                  /\ r.enabled = IF kind = "system" THEN s.enabled ELSE TRUE
    BY <2>2
  <2>4. ASSUME NEW s \in doc.segs
         PROVE  \E r \in segs :
                  /\ r.id = s.id /\ r.cidr = s.cidr
                  /\ r.enabled = IF kind = "system" THEN s.enabled ELSE TRUE
    <3>1. enabled(s) \in segs
      OBVIOUS
    <3> QED
      BY <2>2, <3>1
  <2> HIDE DEF segs
  <2>5. ASSUME NEW h \in doc.hosts, NEW seg \in doc.segs, h.subnet = seg.id
        PROVE  h \in held /\ at(h) = seg.cidr
    <3>1. \E r \in segs : r.id = h.subnet
      BY <2>5, <2>4
    <3>2. \A r \in segs : r.id = h.subnet => r.cidr = seg.cidr
      BY <2>1, <2>5, <2>3 DEF FileKeys
    <3>3. RowOf(segs, h.subnet) \in segs /\ RowOf(segs, h.subnet).id = h.subnet
      BY <3>1 DEF RowOf
    <3>4. h.subnet \in Ids(segs)
      BY <3>1 DEF Ids
    <3> QED
      BY <3>2, <3>3, <3>4
  <2>6. ASSUME NEW h \in held PROVE h \in doc.hosts /\ \E seg \in doc.segs : h.subnet = seg.id
    BY <2>3 DEF Ids
  <2>7. held0 = db.hosts /\ \A h \in db.hosts : at0(h) = CidrIn(db, h.subnet)
    BY <2>1 DEF References, CidrIn
  <2> HIDE DEF at, held, at0, held0
  <2>8. {<<s.cidr, s.enabled>> : s \in db.subnets} = {<<s.cidr, s.enabled>> : s \in segs}
    <3>1. ASSUME NEW s \in db.subnets
          PROVE  \E t \in segs : <<s.cidr, s.enabled>> = <<t.cidr, t.enabled>>
      <4>1. PICK seg \in doc.segs :
              s.cidr = seg.cidr /\ s.enabled = IF kind = "system" THEN seg.enabled ELSE TRUE
        BY <1>1, RebuiltSegments
      <4>2. PICK t \in segs :
              t.cidr = seg.cidr /\ t.enabled = IF kind = "system" THEN seg.enabled ELSE TRUE
        BY <2>4
      <4>3. s.cidr = t.cidr /\ s.enabled = t.enabled
        BY <4>1, <4>2, Zenon
      <4> QED
        BY <4>3
    <3>2. ASSUME NEW t \in segs
          PROVE  \E s \in db.subnets : <<s.cidr, s.enabled>> = <<t.cidr, t.enabled>>
      <4>1. PICK seg \in doc.segs :
              t.cidr = seg.cidr /\ t.enabled = IF kind = "system" THEN seg.enabled ELSE TRUE
        BY <2>3
      <4>2. PICK s \in db.subnets :
              s.cidr = seg.cidr /\ s.enabled = IF kind = "system" THEN seg.enabled ELSE TRUE
        BY <1>1, RebuiltSegments
      <4>3. s.cidr = t.cidr /\ s.enabled = t.enabled
        BY <4>1, <4>2, Zenon
      <4> QED
        BY <4>3
    <3> QED
      BY <3>1, <3>2
  <2>9. {<<at0(h), h.ip, h.name>> : h \in held0} = {<<at(h), h.ip, h.name>> : h \in held}
    <3>1. ASSUME NEW g \in held0
          PROVE  \E h \in held : <<at0(g), g.ip, g.name>> = <<at(h), h.ip, h.name>>
      <4>1. g \in db.hosts /\ at0(g) = CidrIn(db, g.subnet)
        BY <2>7
      <4>2. PICK h \in doc.hosts, seg \in doc.segs : SameHost(h, seg, g)
        BY <1>1, <4>1, RebuiltHosts
      <4> QED
        BY <2>5, <4>1, <4>2 DEF SameHost
    <3>2. ASSUME NEW h \in held
          PROVE  \E g \in held0 : <<at0(g), g.ip, g.name>> = <<at(h), h.ip, h.name>>
      <4>1. PICK seg \in doc.segs : h \in doc.hosts /\ h.subnet = seg.id
        BY <2>6
      <4>2. PICK g \in db.hosts : SameHost(h, seg, g)
        BY <1>1, <4>1, RebuiltHosts
      <4> QED
        BY <2>5, <2>7, <4>1, <4>2 DEF SameHost
    <3> QED
      BY <3>1, <3>2
  <2> DEFINE pairs0 == {y \in held0 \X db.ports : y[2].host = y[1].id /\ y[2].open}
             pairs == {y \in held \X doc.ports : y[2].host = y[1].id /\ y[2].open}
  <2>10. {<<at0(x[1]), x[1].ip, x[2].port>> : x \in pairs0}
          = {<<at(x[1]), x[1].ip, x[2].port>> : x \in pairs}
    <3>1. ASSUME NEW x \in pairs0
          PROVE  \E y \in pairs :
                   <<at0(x[1]), x[1].ip, x[2].port>> = <<at(y[1]), y[1].ip, y[2].port>>
      <4>1. x[1] \in db.hosts /\ x[2] \in db.ports /\ x[2].host = x[1].id
        BY <2>7
      <4>2. PICK p \in doc.ports, h \in doc.hosts, seg \in doc.segs, g \in db.hosts :
              /\ SameHost(h, seg, g)
              /\ p.open /\ p.port = x[2].port /\ p.host = h.id /\ x[2].host = g.id
        BY <1>1, <4>1, RebuiltPorts
      <4>3. g = x[1]
        BY <2>1, <4>1, <4>2 DEF Sound, Keys
      <4>4. h \in held /\ at(h) = seg.cidr
        BY <2>5, <4>2 DEF SameHost
      <4>5. <<h, p>> \in pairs
        BY <4>2, <4>4
      <4>6. at0(x[1]) = at(h) /\ x[1].ip = h.ip
        BY <2>7, <4>1, <4>2, <4>3, <4>4 DEF SameHost
      <4> HIDE DEF pairs, pairs0
      <4> QED
        BY <4>2, <4>5, <4>6
    <3>2. ASSUME NEW y \in pairs
          PROVE  \E x \in pairs0 :
                   <<at0(x[1]), x[1].ip, x[2].port>> = <<at(y[1]), y[1].ip, y[2].port>>
      <4>1. y[1] \in held /\ y[2] \in doc.ports /\ y[2].host = y[1].id /\ y[2].open
        OBVIOUS
      <4>2. PICK seg \in doc.segs : y[1] \in doc.hosts /\ y[1].subnet = seg.id
        BY <2>6, <4>1
      <4>3. PICK g \in db.hosts : SameHost(y[1], seg, g)
        BY <1>1, <4>2, RebuiltHosts
      <4>4. PICK q \in db.ports : q.host = g.id /\ q.port = y[2].port /\ q.open
        BY <1>1, <4>1, <4>2, <4>3, RebuiltPorts
      <4>5. at(y[1]) = seg.cidr
        BY <2>5, <4>2
      <4>6. <<g, q>> \in pairs0
        BY <2>7, <4>3, <4>4
      <4>7. at0(g) = at(y[1]) /\ g.ip = y[1].ip
        BY <2>7, <4>3, <4>5 DEF SameHost
      <4> HIDE DEF pairs, pairs0
      <4> QED
        BY <4>4, <4>6, <4>7
    <3> HIDE DEF pairs, pairs0
    <3> QED
      BY <3>1, <3>2
  <2>11. Picture(db.subnets, db.hosts, db.ports) = Picture(segs, doc.hosts, doc.ports)
    BY <2>8, <2>9, <2>10, Zenon DEF Picture, at, at0, held, held0
  <2>12. \A p \in db.ports : p.open
    BY <1>1, RebuiltPorts
  <2>13. kind = "system" => db.method = doc.method
    BY <1>1 DEF Rebuilt, Undisturbed, MethodSet
  <2> QED
    BY <2>11, <2>12, <2>13, Zenon DEF segs, enabled
<1>2. Inv /\ Restoring /\ Undisturbed => RestoredAsExported
  BY <1>1 DEF Rebuilt, RestoredAsExported
<1> QED
  BY <1>2, UndisturbedHolds, PTL

-----------------------------------------------------------------------------
(* What is current.                                                        *)

\* An export during which nobody edited is a picture of the tables.
CalmExport ==
  export.calm /\ export.at # "idle" =>
    /\ export.segs = db.subnets
    /\ export.at = "hosts" =>
         /\ export.hosts = db.hosts
         /\ export.ports = {p \in db.ports : \A h \in export.left : h.id # p.host}

\* The tables hold what an import of kind k would take from the file.
SegmentsHeld(k) ==
  \A seg \in file.segs : \E s \in db.subnets :
    s.cidr = seg.cidr /\ (k = "system" => s.enabled = seg.enabled)
HostsHeld ==
  \A h \in file.hosts, seg \in file.segs : h.subnet = seg.id =>
    \E g \in db.hosts :
      /\ g.ip = h.ip /\ CidrIn(db, g.subnet) = seg.cidr
      /\ g.name # Blank \/ h.name = Blank
      /\ \A p \in file.ports : p.host = h.id /\ p.open =>
           [host |-> g.id, port |-> p.port, open |-> TRUE] \in db.ports
MethodHeld(k) == k = "system" => db.method = file.method
Holds(k) == SegmentsHeld(k) /\ HostsHeld /\ MethodHeld(k)

Calm ==
  /\ CalmExport
  /\ \A k \in current : Holds(k)

\* Calm is about the tables, the export and the file alone.
LEMMA StaysHeld ==
  ASSUME db' = db, file' = file, NEW k, Holds(k) PROVE Holds(k)'
  BY DEF Holds, SegmentsHeld, HostsHeld, MethodHeld

LEMMA StaysCalm ==
  ASSUME Calm, db' = db, file' = file, current' \subseteq current,
         export'.at = "idle" \/ ~ export'.calm \/ export' = export
  PROVE  Calm'
<1>1. CalmExport'
  BY DEF Calm, CalmExport
<1> QED
  BY <1>1, StaysHeld DEF Calm

LEMMA StoreCalm ==
  ASSUME Inv, Calm, NEW d, Store(d) PROVE Calm'
<1>1. /\ db' = d /\ file' = file
      /\ export' = [export EXCEPT !.calm = export.calm /\ d = db]
      /\ current' = IF d = db THEN current ELSE {}
      /\ export \in Exports
  BY DEF Store, Inv, TypeOK, ExportType
<1>2. CASE d = db
  <2>1. (export.calm /\ d = db) = export.calm
    BY <1>1, <1>2, Zenon DEF Exports
  <2>2. export' = export
    BY <1>1, <2>1 DEF Exports
  <2> QED
    BY <1>1, <1>2, <2>2, StaysCalm
<1>3. CASE d # db
  <2>1. (export.calm /\ d = db) = FALSE
    BY <1>3, Zenon
  <2>2. export'.calm = FALSE
    BY <1>1, <2>1 DEF Exports
  <2> QED
    BY <1>1, <1>3, <2>2 DEF Calm, CalmExport
<1> QED
  BY <1>2, <1>3

\* An undisturbed export of the tables.
LEMMA ExportDoneCalm ==
  ASSUME Inv, ExportInv, Calm, ExportDone PROVE Calm'
<1>1. /\ export.at = "hosts" /\ export.left = {}
      /\ file' = [segs |-> export.segs, hosts |-> export.hosts,
                  ports |-> export.ports, method |-> db.method]
      /\ export' = NoExport /\ db' = db
      /\ current' = IF export.calm THEN {"map", "system"} ELSE {}
  BY DEF ExportDone, inventory
<1>2. CalmExport'
  BY <1>1 DEF CalmExport, NoExport
<1>3. ASSUME export.calm, NEW k PROVE Holds(k)'
  <2>1. /\ file'.segs = db.subnets /\ file'.hosts = db.hosts /\ file'.ports = db.ports
        /\ file'.method = db.method
    BY <1>1, <1>3 DEF Calm, CalmExport
  <2>2. SegmentsHeld(k)' /\ MethodHeld(k)'
    BY <1>1, <2>1 DEF SegmentsHeld, MethodHeld
  <2>3. ASSUME NEW h \in db.hosts, NEW seg \in db.subnets, h.subnet = seg.id
        PROVE  /\ CidrIn(db, h.subnet) = seg.cidr
               /\ \A p \in db.ports : p.host = h.id /\ p.open =>
                    [host |-> h.id, port |-> p.port, open |-> TRUE] \in db.ports
    <3>1. CidrIn(db, h.subnet) = seg.cidr
      BY <2>3, InvSound, RowIs
    <3>2. ASSUME NEW p \in db.ports, p.host = h.id, p.open
          PROVE  [host |-> h.id, port |-> p.port, open |-> TRUE] \in db.ports
      <4>1. p \in Port
        BY DEF Inv, TypeOK, InventoryType, Database
      <4>2. p.open = TRUE
        BY <3>2, <4>1, Zenon DEF Port
      <4>3. p = [host |-> h.id, port |-> p.port, open |-> TRUE]
        BY <3>2, <4>1, <4>2 DEF Port
      <4> QED
        BY <4>3
    <3> QED
      BY <3>1, <3>2
  <2>4. HostsHeld'
    BY <1>1, <2>1, <2>3 DEF HostsHeld
  <2> QED
    BY <2>2, <2>4 DEF Holds
<1> QED
  BY <1>1, <1>2, <1>3 DEF Calm

\* An undisturbed import of the file.
LEMMA ImportedHeld ==
  ASSUME Inv, Restoring, Undisturbed, stage = "settings", quiet, doc = file
  PROVE  SegmentsHeld(kind) /\ HostsHeld
<1>1. /\ doc # NoFile /\ FileKeys(doc) /\ gone = Nothing /\ FlagsSet /\ NamesFilled
      /\ PortsOpened /\ SegmentsDone /\ HostsDone /\ RowsFound /\ kind \in {"map", "system"}
  BY DEF Inv, DocHeld, Restoring, FilesKeyed, Undisturbed
<1>2. ASSUME NEW seg \in doc.segs
      PROVE  \E s \in db.subnets :
               s.cidr = seg.cidr /\ (kind = "system" => s.enabled = seg.enabled)
  <2>1. PICK m \in segIds : m[1] = seg.id
    BY <1>1 DEF SegmentsDone
  <2>2. PICK t \in doc.segs, s \in db.subnets : t.id = m[1] /\ s.id = m[2] /\ s.cidr = t.cidr
    BY <1>1 DEF RowsFound, SegmentFound, Nothing, Ids
  <2>3. t = seg /\ <<seg.id, s.id>> \in segIds
    <3>1. m = <<m[1], m[2]>>
      BY DEF Inv, TypeOK, ImportType
    <3> QED
      BY <1>1, <2>1, <2>2, <3>1 DEF FileKeys
  <2>4. kind = "system" => s.enabled = seg.enabled
    BY <1>1, <2>3 DEF FlagsSet
  <2> QED
    BY <2>2, <2>3, <2>4
<1>3. ASSUME NEW h \in doc.hosts, NEW seg \in doc.segs, h.subnet = seg.id
      PROVE  \E g \in db.hosts :
               /\ g.ip = h.ip /\ CidrIn(db, g.subnet) = seg.cidr
               /\ g.name # Blank \/ h.name = Blank
               /\ \A p \in doc.ports : p.host = h.id /\ p.open =>
                    [host |-> g.id, port |-> p.port, open |-> TRUE] \in db.ports
  <2>1. PICK m \in hostIds : m[1] = h.id
    BY <1>1, <1>3 DEF HostsDone
  <2>2. PICK g \in db.hosts : g.id = m[2] /\ g.ip = h.ip /\ CidrIn(db, g.subnet) = seg.cidr
    BY <1>1, <1>3, <2>1, HostRow DEF Nothing
  <2>3. m = <<h.id, g.id>>
    BY <2>1, <2>2 DEF Inv, TypeOK, ImportType
  <2>4. g.name # Blank \/ h.name = Blank
    BY <1>1, <2>1, <2>3 DEF NamesFilled
  <2>5. ASSUME NEW p \in doc.ports, p.host = h.id, p.open
        PROVE  [host |-> g.id, port |-> p.port, open |-> TRUE] \in db.ports
    BY <1>1, <2>1, <2>2, <2>5 DEF PortsOpened
  <2> QED
    BY <2>2, <2>4, <2>5
<1> QED
  BY <1>2, <1>3 DEF SegmentsHeld, HostsHeld

LEMMA SettingsCalm ==
  ASSUME Inv, Restoring, Undisturbed, Calm, ImportSettings PROVE Calm'
<1>1. /\ stage = "settings" /\ file' = file /\ db \in Database /\ export \in Exports
      /\ db' = IF kind = "system" THEN [db EXCEPT !.method = doc.method] ELSE db
      /\ export' = [export EXCEPT !.calm = export.calm /\ db' = db]
      /\ current' = IF doc # file \/ ~ quiet THEN IF db' = db THEN current ELSE {}
                    ELSE IF kind = "system" THEN {"map", "system"}
                    ELSE current \cup {"map"}
  BY DEF ImportSettings, Inv, TypeOK, InventoryType, ExportType
<1>2. CalmExport'
  <2>1. CASE db' = db
    <3>1. (export.calm /\ db' = db) = export.calm
      BY <1>1, <2>1, Zenon DEF Exports
    <3>2. export' = export
      BY <1>1, <3>1 DEF Exports
    <3> QED
      BY <2>1, <3>2 DEF Calm, CalmExport
  <2>2. CASE db' # db
    <3>1. (export.calm /\ db' = db) = FALSE
      BY <2>2, Zenon
    <3>2. export'.calm = FALSE
      BY <1>1, <3>1 DEF Exports
    <3> QED
      BY <3>2 DEF CalmExport
  <2> QED
    BY <2>1, <2>2
<1>3. CASE doc # file \/ ~ quiet
  <2>1. CASE db' = db
    BY <1>1, <1>2, <1>3, <2>1, StaysHeld DEF Calm
  <2>2. CASE db' # db
    BY <1>1, <1>2, <1>3, <2>2 DEF Calm
  <2> QED
    BY <2>1, <2>2
<1>4. CASE doc = file /\ quiet
  <2>1. SegmentsHeld(kind) /\ HostsHeld
    BY <1>1, <1>4, ImportedHeld
  <2>2. /\ db'.subnets = db.subnets /\ db'.hosts = db.hosts /\ db'.ports = db.ports
        /\ kind = "system" => db'.method = doc.method
    BY <1>1 DEF Database
  <2>3. HostsHeld' /\ SegmentsHeld("map")'
    BY <1>1, <2>1, <2>2 DEF HostsHeld, SegmentsHeld, CidrIn
  <2>4. CASE kind = "system"
    <3>1. SegmentsHeld("system")' /\ MethodHeld("system")'
      BY <1>1, <1>4, <2>1, <2>2, <2>4 DEF SegmentsHeld, MethodHeld
    <3> QED
      BY <1>1, <1>2, <1>4, <2>3, <2>4, <3>1 DEF Calm, Holds, MethodHeld
  <2>5. CASE kind # "system"
    <3>1. db' = db /\ current' = current \cup {"map"}
      BY <1>1, <1>4, <2>5
    <3>2. Holds("map")'
      BY <2>3 DEF Holds, MethodHeld
    <3> QED
      BY <1>1, <1>2, <2>3, <3>1, <3>2, StaysHeld DEF Calm
  <2> QED
    BY <2>4, <2>5
<1> QED
  BY <1>3, <1>4

LEMMA ExportCalm ==
  ASSUME Inv, ExportInv, Calm,
         ExportSubnets \/ ExportHosts \/ (\E h \in export.left : ExportPorts(h))
  PROVE  Calm'
<1>1. db' = db /\ file' = file /\ current' = current /\ export \in Exports
  BY DEF ExportSubnets, ExportHosts, ExportPorts, inventory, ghosts, Inv, TypeOK, ExportType
<1>2. CalmExport'
  <2>1. CASE ExportSubnets
    <3>1. export' = [NoExport EXCEPT !.at = "subnets", !.upto = serial, !.segs = db.subnets]
      BY <2>1 DEF ExportSubnets
    <3>2. export'.at = "subnets" /\ export'.segs = db.subnets
      BY <3>1 DEF NoExport
    <3> QED
      BY <1>1, <3>2 DEF CalmExport
  <2>2. CASE ExportHosts
    <3>1. export' = [export EXCEPT !.at = "hosts", !.hosts = db.hosts, !.left = db.hosts]
          /\ export.at = "subnets"
      BY <2>2 DEF ExportHosts
    <3>2. /\ export'.segs = export.segs /\ export'.hosts = db.hosts /\ export'.left = db.hosts
          /\ export'.ports = {} /\ export'.calm = export.calm
      BY <1>1, <3>1 DEF Exports, ExportInv
    <3>3. \A p \in db.ports : \E h \in db.hosts : h.id = p.host
      BY DEF Inv, NoOrphans, References, Ids
    <3> QED
      BY <1>1, <3>1, <3>2, <3>3 DEF Calm, CalmExport
  <2>3. ASSUME NEW h \in export.left, ExportPorts(h) PROVE CalmExport'
    <3>1. /\ export' = [export EXCEPT !.left = @ \ {h},
                          !.ports = @ \cup {p \in db.ports : p.host = h.id}]
          /\ export.at = "hosts"
      BY <2>3 DEF ExportPorts
    <3>2. /\ export'.segs = export.segs /\ export'.hosts = export.hosts
          /\ export'.left = export.left \ {h} /\ export'.calm = export.calm
          /\ export'.ports = export.ports \cup {p \in db.ports : p.host = h.id}
      BY <1>1, <3>1 DEF Exports
    <3>3. ASSUME export.calm
          PROVE  export'.ports = {p \in db.ports : \A g \in export'.left : g.id # p.host}
      <4>1. /\ export.left \subseteq db.hosts
            /\ export.ports = {p \in db.ports : \A g \in export.left : g.id # p.host}
        BY <3>1, <3>3 DEF Calm, CalmExport, ExportInv
      <4>2. \A g \in db.hosts : g.id = h.id => g = h
        BY <4>1 DEF Inv, NoOrphans, Keys
      <4> QED
        BY <3>2, <4>1, <4>2
    <3> QED
      BY <1>1, <3>1, <3>2, <3>3 DEF Calm, CalmExport
  <2> QED
    BY <2>1, <2>2, <2>3
<1> QED
  BY <1>1, <1>2, StaysHeld DEF Calm

LEMMA ImportStepCalm ==
  ASSUME Inv, Restoring, Undisturbed, Calm, ImportStep PROVE Calm'
<1>1. CASE \/ Fail \/ \E row : Skip(row)
  BY <1>1, StaysCalm DEF Fail, Skip, inventory, exporting, ghosts
<1>2. CASE \E d : Store(d)
  BY <1>2, StoreCalm
<1>3. CASE ImportSettings
  BY <1>3, SettingsCalm
<1> QED
  BY <1>1, <1>2, <1>3 DEF ImportStep, ImportSegment, ImportFlags, ImportHostRow,
     ImportPortRow, ImportAddress, ImportAddressPort

LEMMA NextCalm ==
  Inv /\ Restoring /\ Undisturbed /\ ExportInv /\ Calm /\ [Next]_vars => Calm'
<1> SUFFICES ASSUME Inv, Restoring, Undisturbed, ExportInv, Calm, [Next]_vars PROVE Calm'
  OBVIOUS
<1>1. CASE ExportSubnets \/ ExportHosts \/ (\E h \in export.left : ExportPorts(h))
  BY <1>1, ExportCalm
<1>2. CASE ExportDone
  BY <1>2, ExportDoneCalm
<1>3. CASE \/ \E k \in {"map", "system"} : StartImport(k)
           \/ \E k \in {"dnsrecon", "nmap"}, rows \in SUBSET Scanned \ {{}} :
                StartAddressImport(k, rows)
           \/ NextStage \/ UNCHANGED vars
  BY <1>3, StaysCalm
     DEF StartImport, StartAddressImport, Start, NextStage, inventory, exporting, ghosts, vars
<1>4. CASE ImportStep
  BY <1>4, ImportStepCalm
<1>5. CASE OtherEdit
  <2>1. export' = [export EXCEPT !.calm = FALSE] /\ export \in Exports /\ current' = {}
    BY <1>5 DEF OtherEdit, Inv, TypeOK, ExportType
  <2>2. export'.calm = FALSE
    BY <2>1 DEF Exports
  <2> QED
    BY <2>1, <2>2 DEF Calm, CalmExport
<1>6. CASE Restart
  <2>1. /\ export'.at = "idle" /\ file' = file
        /\ (db' = db /\ current' = current) \/ current' = {}
    BY <1>6 DEF Restart, NoExport
  <2> QED
    BY <2>1, StaysHeld DEF Calm, CalmExport
<1> QED
  BY <1>1, <1>2, <1>3, <1>4, <1>5, <1>6 DEF Next

\* A row that is there is not written again.
LEMMA ReimportSegment ==
  ASSUME Inv, SegmentsHeld(kind), doc = file, doc # NoFile, Restoring,
         NEW seg \in todo, ImportSegment(seg)
  PROVE  db' = db
<1>1. stage = "segments" /\ seg \in doc.segs /\ db' = UpsertAutoSubnet(db, seg.cidr, New)
  BY DEF ImportSegment, Store, Restoring, Left
<1>2. \E s \in db.subnets : s.cidr = seg.cidr
  BY <1>1 DEF SegmentsHeld
<1> QED
  BY <1>1, <1>2 DEF UpsertAutoSubnet

LEMMA ReimportFlags ==
  ASSUME Inv, SegmentsHeld("system"), doc = file, doc # NoFile, Restoring,
         NEW seg \in todo, ImportFlags(seg)
  PROVE  db' = db
<1>1. PICK m \in segIds : m[1] = seg.id /\ Store(SetSubnetEnabled(db, m[2], seg.enabled))
  BY DEF ImportFlags
<1>2. stage = "flags" /\ seg \in doc.segs /\ db' = SetSubnetEnabled(db, m[2], seg.enabled)
  BY <1>1 DEF ImportFlags, Store, Restoring, Left
<1>3. ASSUME NEW s \in db.subnets, s.id = m[2] PROVE s.enabled = seg.enabled
  <2>1. m = <<m[1], m[2]>>
    BY DEF Inv, TypeOK, ImportType
  <2>2. s.cidr = seg.cidr
    BY <1>1, <1>2, <1>3, <2>1, SegmentRowIs
  <2>3. PICK t \in db.subnets : t.cidr = seg.cidr /\ t.enabled = seg.enabled
    BY <1>2 DEF SegmentsHeld
  <2>4. s = t
    BY <2>2, <2>3 DEF Inv, NoOrphans, Keys
  <2> QED
    BY <2>3, <2>4
<1>4. ASSUME NEW s \in db.subnets, s.id = m[2] PROVE [s EXCEPT !.enabled = seg.enabled] = s
  <2>1. s \in Subnet /\ s.enabled = seg.enabled
    BY <1>3, <1>4 DEF Inv, TypeOK, InventoryType, Database
  <2> QED
    BY <2>1 DEF Subnet
<1>5. {IF s.id = m[2] THEN [s EXCEPT !.enabled = seg.enabled] ELSE s : s \in db.subnets}
        = db.subnets
  BY <1>4
<1> QED
  BY <1>2, <1>5 DEF SetSubnetEnabled, Inv, TypeOK, InventoryType, Database

LEMMA ReimportHost ==
  ASSUME Inv, HostsHeld, doc = file, doc # NoFile, Restoring, NEW h \in todo, ImportHostRow(h)
  PROVE  db' = db
<1>1. stage = "hosts" /\ h \in doc.hosts /\ Sound(db, serial)
  BY InvSound DEF ImportHostRow, Restoring, Left
<1>2. ASSUME NEW m \in segIds, m[1] = h.subnet, m[2] \in Ids(db.subnets)
      PROVE  ImportHost(db, m[2], h.ip, h.name, New) = db
  <2>1. PICK seg \in doc.segs :
          seg.id = h.subnet /\ \A s \in db.subnets : s.id = m[2] => s.cidr = seg.cidr
    BY <1>2 DEF Restoring, RowsFound, SegmentFound
  <2>2. PICK g \in db.hosts :
          /\ g.ip = h.ip /\ CidrIn(db, g.subnet) = seg.cidr
          /\ g.name # Blank \/ h.name = Blank
    BY <1>1, <2>1 DEF HostsHeld
  <2>3. g.subnet = m[2]
    <3>1. PICK s \in db.subnets : s.id = g.subnet /\ CidrIn(db, g.subnet) = s.cidr
      BY <1>1, HostCidr
    <3>2. PICK t \in db.subnets : t.id = m[2]
      BY <1>2 DEF Ids
    <3>3. s = t
      BY <1>1, <2>1, <2>2, <3>1, <3>2 DEF Sound, Keys
    <3> QED
      BY <3>1, <3>2, <3>3
  <2>4. HostsAt(db, m[2], h.ip) = {g}
    BY <1>1, <2>2, <2>3 DEF HostsAt, Sound, Keys
  <2>5. h.name = Blank => \A f : f \in db.hosts /\ f.name = Blank => [f EXCEPT !.name = h.name] = f
    BY <1>1 DEF Sound, Database, Host
  <2>6. {IF f \in HostsAt(db, m[2], h.ip) /\ f.name = Blank
         THEN [f EXCEPT !.name = h.name] ELSE f : f \in db.hosts} = db.hosts
    BY <2>2, <2>4, <2>5
  <2> QED
    BY <1>1, <2>4, <2>6 DEF ImportHost, Sound, Database
<1>3. \A d : Store(d) => db' = d
  BY DEF Store
<1>4. Fail \/ Skip(h) => db' = db
  BY DEF Fail, Skip, inventory
<1> QED
  BY <1>2, <1>3, <1>4 DEF ImportHostRow

LEMMA ReimportPort ==
  ASSUME Inv, HostsHeld, doc = file, doc # NoFile, Restoring, NEW p \in todo, ImportPortRow(p)
  PROVE  db' = db
<1>1. stage = "ports" /\ p \in doc.ports /\ Sound(db, serial)
  BY InvSound DEF ImportPortRow, Restoring, Left
<1>2. ASSUME NEW m \in hostIds, m[1] = p.host, m[2] \in Ids(db.hosts), p.open
      PROVE  UpsertPort(db, m[2], p.port) = db
  <2> DEFINE new == [host |-> m[2], port |-> p.port, open |-> TRUE]
  <2>1. PICK h \in doc.hosts, seg \in doc.segs :
          /\ h.id = m[1] /\ seg.id = h.subnet
          /\ \A g \in db.hosts :
               g.id = m[2] => g.ip = h.ip /\ CidrIn(db, g.subnet) = seg.cidr
    BY <1>2 DEF Restoring, RowsFound, HostFound
  <2>2. PICK g \in db.hosts :
          /\ g.ip = h.ip /\ CidrIn(db, g.subnet) = seg.cidr
          /\ \A q \in doc.ports : q.host = h.id /\ q.open =>
               [host |-> g.id, port |-> q.port, open |-> TRUE] \in db.ports
    BY <2>1 DEF HostsHeld
  <2>3. g.id = m[2]
    <3>1. PICK f \in db.hosts : f.id = m[2]
      BY <1>2 DEF Ids
    <3>2. PICK s \in db.subnets : s.id = g.subnet /\ CidrIn(db, g.subnet) = s.cidr
      BY <1>1, HostCidr
    <3>3. PICK t \in db.subnets : t.id = f.subnet /\ CidrIn(db, f.subnet) = t.cidr
      BY <1>1, HostCidr
    <3>4. s = t /\ f.ip = g.ip
      BY <1>1, <2>1, <2>2, <3>1, <3>2, <3>3 DEF Sound, Keys
    <3>5. f = g
      BY <1>1, <3>2, <3>3, <3>4 DEF Sound, Keys
    <3> QED
      BY <3>1, <3>5
  <2>4. new \in db.ports
    BY <1>1, <1>2, <2>1, <2>2, <2>3
  <2>5. new.host = m[2] /\ new.port = p.port
    OBVIOUS
  <2>6. db.ports = (db.ports \ PortsAt(db, m[2], p.port)) \cup {new}
    <3> HIDE DEF new
    <3>1. \A q \in PortsAt(db, m[2], p.port) : q = new
      BY <1>1, <2>4, <2>5 DEF PortsAt, Sound, Keys
    <3> QED
      BY <2>4, <3>1
  <2> QED
    BY <1>1, <2>6 DEF UpsertPort, Sound, Database
<1>3. \A d : Store(d) => db' = d
  BY DEF Store
<1>4. Fail \/ Skip(p) => db' = db
  BY DEF Fail, Skip, inventory
<1> QED
  BY <1>2, <1>3, <1>4 DEF ImportPortRow

\* A file that is in the tables is imported without a write: an operator may
\* repeat an import whose answer was lost, or import what was just exported.
THEOREM ReimportChangesNothingHolds == Spec => ReimportChangesNothing
<1> DEFINE Done == Inv /\ Restoring /\ Undisturbed /\ ExportInv /\ Calm
           Same == ImportStep /\ doc = file /\ kind \in current => db' = db
<1>1. Init => Done
  <2>1. Init => ExportInv /\ Undisturbed /\ Calm
    BY DEF Init, NoExport, ExportInv, SegmentsKnown, ExportClosed, Undisturbed, Calm, CalmExport
  <2> QED
    BY <2>1, InitInv, InitRestoring
<1>2. Done /\ [Next]_vars => Done'
  <2>1. Inv /\ [Next]_vars => Inv'
    BY NextInv
  <2>2. Inv /\ Inv' /\ Restoring /\ [Next]_vars => Restoring'
    BY NextRestoring
  <2> QED
    BY <2>1, <2>2, NextUndisturbed, NextExport, NextCalm
<1>3. Done => Same
  <2> SUFFICES ASSUME Done, ImportStep, doc = file, kind \in current PROVE db' = db
    OBVIOUS
  <2>1. /\ Holds(kind) /\ SegmentsHeld(kind) /\ HostsHeld /\ MethodHeld(kind)
        /\ kind \in {"map", "system"} /\ stage # "addresses" /\ db \in Database
    BY DEF Calm, Holds, Inv, TypeOK, HistoryType, InventoryType, DocHeld
  <2>2. stage \in {"segments", "flags", "hosts", "ports", "settings"}
    BY <2>1 DEF ImportStep, ImportAddressPort, ImportSettings
  <2>3. doc # NoFile /\ (stage = "flags" => kind = "system")
    BY <2>2 DEF Inv, DocHeld
  <2>4. \A seg \in todo : ImportSegment(seg) => db' = db
    BY <2>1, <2>3, ReimportSegment
  <2>5. \A seg \in todo : ImportFlags(seg) => db' = db
    <3>1. \A seg \in todo : ImportFlags(seg) => stage = "flags"
      BY DEF ImportFlags
    <3> QED
      BY <2>1, <2>3, <3>1, ReimportFlags
  <2>6. \A h \in todo : ImportHostRow(h) => db' = db
    BY <2>1, <2>3, ReimportHost
  <2>7. \A p \in todo : ImportPortRow(p) => db' = db
    BY <2>1, <2>3, ReimportPort
  <2>8. ImportSettings => db' = db
    BY <2>1 DEF ImportSettings, MethodHeld, Database
  <2> QED
    BY <2>1, <2>4, <2>5, <2>6, <2>7, <2>8 DEF ImportStep, ImportAddressPort
<1>4. Done /\ [Next]_vars => [Same]_vars
  BY <1>3
<1>5. ReimportChangesNothing <=> [][Same]_vars
  BY DEF ReimportChangesNothing
<1> QED
  BY <1>1, <1>2, <1>4, <1>5, PTL DEF Spec

=============================================================================
