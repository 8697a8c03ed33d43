------------------------------- MODULE Backup -------------------------------
(***************************************************************************)
(* Exports and imports of the inventory, against everybody else who edits  *)
(* it: exportNetworkMap and exportSystem read the tables in several store  *)
(* calls; the imports (network map, system, dnsrecon, nmap) write them row *)
(* by row and stop at the first error, with no transaction around them.    *)
(*                                                                         *)
(* One export and one import run at a time; a second import would be one   *)
(* more editor.  A file outlives the database it was taken from.  Its rows *)
(* are imported in any order, since a file may list them in any.  A system *)
(* import restores the risk rules last; they are in module RiskRules.      *)
(***************************************************************************)
EXTENDS Inventory

CONSTANTS
  Within,         \* Within[ip]: the CIDRs that contain ip
  Slash24,        \* Slash24[ip]: the /24 around ip
  Scanned,        \* the hosts dnsrecon and nmap files may list
  DefaultMethod,  \* the scan method of a new database
  NoFile,
  MaxExports, MaxImports, MaxRestarts   \* bounds

\* A host of a dnsrecon or nmap file, with the open ports nmap saw.
Address == [ip : IPs, name : Names, ports : SUBSET PortNumbers]

ASSUME AddressAssumption ==
  /\ Within \in [IPs -> SUBSET Cidrs]
  /\ Slash24 \in [IPs -> Cidrs]
  /\ \A ip \in IPs : Slash24[ip] \in Within[ip]
  /\ Scanned \subseteq Address
ASSUME MethodAssumption == DefaultMethod \in Methods
ASSUME CountsAssumption ==
  MaxExports \in Nat /\ MaxImports \in Nat /\ MaxRestarts \in Nat

VARIABLES
  export,      \* the running export, see Exports
  file,        \* the last finished one, or NoFile
  kind,        \* what the running import imports
  stage,       \* how far it is
  doc,         \* the file it imports
  todo,        \* its rows of this stage that are left
  segIds,      \* <<id in the file, row id>> of the segments done
  hostIds,     \* <<id in the file, row id>> of the hosts done
  known,       \* the list of subnets an address import works from
  pending,     \* ports of the nmap host just imported that are left
  \* history, read by no guard
  gone,        \* what was deleted since the import started
  quiet,       \* nobody but the import has edited since it started
  fresh,       \* it started on empty tables, and still quiet
  current,     \* kinds whose import of file would find nothing to do
  taken, imported, restarts

exporting == <<export, file>>
importing == <<kind, stage, doc, todo, segIds, hostIds, known, pending>>
ghosts == <<gone, quiet, fresh, current>>
bounds == <<taken, imported, restarts>>
vars == <<db, serial, edits, export, file, kind, stage, doc, todo, segIds,
          hostIds, known, pending, gone, quiet, fresh, current, taken, imported,
          restarts>>

\* A file names rows by the ids they had, which mean nothing elsewhere.
File == [segs : SUBSET Subnet, hosts : SUBSET Host, ports : SUBSET Port, method : Methods]

\* left: hosts whose ports are still to be read.  History: upto, the last id
\* when the subnets were read; calm, nothing was edited since.
Exports == [at : {"idle", "subnets", "hosts"}, segs : SUBSET Subnet,
            hosts : SUBSET Host, ports : SUBSET Port, left : SUBSET Host,
            upto : Nat, calm : BOOLEAN]
NoExport == [at |-> "idle", segs |-> {}, hosts |-> {}, ports |-> {},
             left |-> {}, upto |-> 0, calm |-> TRUE]

Nothing == [subnets |-> {}, hosts |-> {}]
Addresses(d) == {<<CidrIn(d, h.subnet), h.ip>> : h \in d.hosts}
CidrsOf(d) == {s.cidr : s \in d.subnets}

InventoryType ==
  /\ db \in Database /\ serial \in Nat /\ IdsUpTo(db, serial)
  /\ edits \in 0 .. MaxEdits
ExportType ==
  /\ export \in Exports
  /\ file \in File \cup {NoFile}
ImportType ==
  /\ doc \in File \cup {NoFile}
  /\ kind \in {"map", "system", "dnsrecon", "nmap"}
  /\ stage \in {"idle", "segments", "flags", "hosts", "ports", "settings",
                "addresses", "done", "failed"}
  /\ todo \subseteq CASE stage \in {"segments", "flags"} -> Subnet
                      [] stage = "hosts" -> Host
                      [] stage = "ports" -> Port
                      [] stage = "addresses" -> Address
                      [] stage \in {"idle", "settings", "done"} -> {}
                      [] stage = "failed" -> Host \cup Port \cup Address
  /\ segIds \subseteq Nat \X Nat /\ hostIds \subseteq Nat \X Nat
  /\ known \subseteq [id : Nat, cidr : Cidrs]
  /\ pending \subseteq Nat \X PortNumbers
HistoryType ==
  /\ gone \in [subnets : SUBSET Cidrs, hosts : SUBSET (Cidrs \X IPs)]
  /\ quiet \in BOOLEAN /\ fresh \in BOOLEAN
  /\ current \subseteq {"map", "system"}
  /\ taken \in 0 .. MaxExports /\ imported \in 0 .. MaxImports
  /\ restarts \in 0 .. MaxRestarts

TypeOK == InventoryType /\ ExportType /\ ImportType /\ HistoryType

Init ==
  /\ Open
  /\ export = NoExport /\ file = NoFile
  /\ kind = "map" /\ stage = "idle" /\ doc = NoFile
  /\ todo = {} /\ segIds = {} /\ hostIds = {} /\ known = {} /\ pending = {}
  /\ gone = Nothing /\ quiet = TRUE /\ fresh = FALSE /\ current = {}
  /\ taken = 0 /\ imported = 0 /\ restarts = 0

Running == stage \notin {"idle", "done", "failed"}

-----------------------------------------------------------------------------
(* The export.                                                             *)

\* Fault: excluded subnets are left out, though ListHosts knows no such filter.
ExportSubnets_ScannedOnly ==
  /\ export.at = "idle" /\ taken < MaxExports
  /\ export' = [NoExport EXCEPT !.at = "subnets", !.upto = serial,
                                !.segs = {s \in db.subnets : s.enabled}]
  /\ taken' = taken + 1
  /\ UNCHANGED <<inventory, file, importing, ghosts, imported, restarts>>

ExportSubnets ==
  /\ export.at = "idle" /\ taken < MaxExports
  /\ export' = [NoExport EXCEPT !.at = "subnets", !.segs = db.subnets, !.upto = serial]
  /\ taken' = taken + 1
  /\ UNCHANGED <<inventory, file, importing, ghosts, imported, restarts>>

\* ListHosts reads the host rows under the lock, and the ports of each after it.
ExportHosts ==
  /\ export.at = "subnets"
  /\ export' = [export EXCEPT !.at = "hosts", !.hosts = db.hosts, !.left = db.hosts]
  /\ UNCHANGED <<inventory, file, importing, ghosts, bounds>>

ExportPorts(h) ==
  /\ export.at = "hosts" /\ h \in export.left
  /\ export' = [export EXCEPT !.left = @ \ {h},
                              !.ports = @ \cup {p \in db.ports : p.host = h.id}]
  /\ UNCHANGED <<inventory, file, importing, ghosts, bounds>>

\* The file is complete once the settings are read.
ExportDone ==
  /\ export.at = "hosts" /\ export.left = {}
  /\ file' = [segs |-> export.segs, hosts |-> export.hosts,
              ports |-> export.ports, method |-> db.method]
  /\ export' = NoExport
  /\ current' = IF export.calm THEN {"map", "system"} ELSE {}
  /\ UNCHANGED <<inventory, importing, gone, quiet, fresh, bounds>>

-----------------------------------------------------------------------------
(* The imports.                                                            *)

Start(k, first, rows) ==
  /\ ~ Running /\ imported < MaxImports
  /\ kind' = k /\ stage' = first /\ todo' = rows
  /\ segIds' = {} /\ hostIds' = {} /\ pending' = {}
  /\ gone' = Nothing /\ quiet' = TRUE
  /\ fresh' = (db.subnets = {})
  /\ imported' = imported + 1
  /\ UNCHANGED <<inventory, exporting, current, taken, restarts>>

StartImport(k) ==
  /\ file # NoFile
  /\ doc' = file /\ known' = {}
  /\ Start(k, "segments", file.segs)

\* The subnets are listed once, at the start.  dnsrecon knows names, not ports.
StartAddressImport(k, rows) ==
  /\ \A a, b \in rows : a.ip = b.ip => a = b
  /\ k = "nmap" \/ \A a \in rows : a.ports = {} /\ a.name # Blank
  /\ doc' = NoFile
  /\ known' = {[id |-> s.id, cidr |-> s.cidr] : s \in db.subnets}
  /\ Start(k, "addresses", rows)

\* Any error ends the import where it is.
Fail ==
  /\ stage' = "failed"
  /\ UNCHANGED <<inventory, exporting, kind, doc, todo, segIds, hostIds, known,
                 pending, ghosts, bounds>>

Skip(row) ==
  /\ todo' = todo \ {row}
  /\ UNCHANGED <<inventory, exporting, kind, stage, doc, segIds, hostIds, known,
                 pending, ghosts, bounds>>

\* A store call of the import.
Store(d) ==
  /\ db' = d
  /\ serial' = LastIdIn(d)
  /\ export' = [export EXCEPT !.calm = @ /\ d = db]
  /\ current' = IF d = db THEN current ELSE {}
  /\ UNCHANGED <<edits, file, kind, doc, gone, quiet, fresh, bounds>>

\* Fault: only a segment that was created gets an id to hang hosts on.
ImportSegment_NewOnly(seg) ==
  LET d == UpsertAutoSubnet(db, seg.cidr, New) IN
  /\ stage = "segments" /\ seg \in todo
  /\ Store(d)
  /\ segIds' = segIds \cup {<<seg.id, s.id>> : s \in d.subnets \ db.subnets}
  /\ IF kind = "system" /\ d # db THEN stage' = "flags" /\ todo' = todo
     ELSE stage' = stage /\ todo' = todo \ {seg}
  /\ UNCHANGED <<hostIds, known, pending>>

\* A system file sets the flags of the segment next, by the id just returned.
ImportSegment(seg) ==
  LET d == UpsertAutoSubnet(db, seg.cidr, New) IN
  /\ stage = "segments" /\ seg \in todo
  /\ Store(d)
  /\ segIds' = segIds \cup
       {<<seg.id, s.id>> : s \in {t \in d.subnets : t.cidr = seg.cidr}}
  /\ IF kind = "system" THEN stage' = "flags" /\ todo' = todo
     ELSE stage' = stage /\ todo' = todo \ {seg}
  /\ UNCHANGED <<hostIds, known, pending>>

\* An UPDATE of a row that is gone is no error.
ImportFlags(seg) ==
  /\ stage = "flags" /\ seg \in todo
  /\ \E m \in segIds :
       /\ m[1] = seg.id
       /\ Store(SetSubnetEnabled(db, m[2], seg.enabled))
  /\ stage' = "segments" /\ todo' = todo \ {seg}
  /\ UNCHANGED <<segIds, hostIds, known, pending>>

\* The row ids an address has in d, if any.
RowIds(d, sn, ip) == {h.id : h \in HostsAt(d, sn, ip)}

\* A host whose segment the file does not hold is skipped; one whose segment
\* was deleted meanwhile breaks the reference.
ImportHostRow(h) ==
  /\ stage = "hosts" /\ h \in todo
  /\ IF \A m \in segIds : m[1] # h.subnet THEN Skip(h)
     ELSE \E m \in segIds :
       /\ m[1] = h.subnet
       /\ IF m[2] \notin Ids(db.subnets) THEN Fail
          ELSE LET d == ImportHost(db, m[2], h.ip, h.name, New) IN
               /\ Store(d)
               /\ hostIds' = hostIds \cup ({h.id} \X RowIds(d, m[2], h.ip))
               /\ todo' = todo \ {h}
               /\ UNCHANGED <<stage, segIds, known, pending>>

\* Fault: closed ports are restored too.
ImportPortRow_Closed(p) ==
  /\ stage = "ports" /\ p \in todo
  /\ IF \A m \in hostIds : m[1] # p.host THEN Skip(p)
     ELSE \E m \in hostIds :
       /\ m[1] = p.host
       /\ IF m[2] \notin Ids(db.hosts) THEN Fail
          ELSE /\ Store(UpsertPort(db, m[2], p.port))
               /\ todo' = todo \ {p}
               /\ UNCHANGED <<stage, segIds, hostIds, known, pending>>

\* Closed ports are not restored.
ImportPortRow(p) ==
  /\ stage = "ports" /\ p \in todo
  /\ IF ~ p.open \/ \A m \in hostIds : m[1] # p.host THEN Skip(p)
     ELSE \E m \in hostIds :
       /\ m[1] = p.host
       /\ IF m[2] \notin Ids(db.hosts) THEN Fail
          ELSE /\ Store(UpsertPort(db, m[2], p.port))
               /\ todo' = todo \ {p}
               /\ UNCHANGED <<stage, segIds, hostIds, known, pending>>

NextStage ==
  /\ todo = {} /\ pending = {}
  /\ \/ stage = "segments" /\ stage' = "hosts" /\ todo' = doc.hosts
     \/ stage = "hosts" /\ stage' = "ports" /\ todo' = doc.ports
     \/ stage = "ports" /\ stage' = "settings" /\ todo' = {}
     \/ stage = "addresses" /\ stage' = "done" /\ todo' = {}
  /\ UNCHANGED <<inventory, exporting, kind, doc, segIds, hostIds, known, pending,
                 ghosts, bounds>>

\* Only a system file has settings.  From here on the same import again would
\* find nothing to do.
ImportSettings ==
  /\ stage = "settings" /\ stage' = "done"
  /\ db' = IF kind = "system" THEN [db EXCEPT !.method = doc.method] ELSE db
  /\ export' = [export EXCEPT !.calm = @ /\ db' = db]
  /\ current' = IF doc # file \/ ~ quiet THEN IF db' = db THEN current ELSE {}
                ELSE IF kind = "system" THEN {"map", "system"}
                ELSE current \cup {"map"}
  /\ UNCHANGED <<serial, edits, file, kind, doc, todo, segIds, hostIds, known,
                 pending, gone, quiet, fresh, bounds>>

\* resolveSubnetFor and the upsert: the first listed subnet that contains the
\* address, or a new /24, which joins the list.
ImportAddress(a) ==
  LET fit == {s \in known : s.cidr \in Within[a.ip]} IN
  /\ stage = "addresses" /\ pending = {} /\ a \in todo
  /\ \/ LET d == UpsertAutoSubnet(db, Slash24[a.ip], New) IN
        /\ fit = {}
        /\ Store(d)
        /\ known' = known \cup {[id |-> s.id, cidr |-> s.cidr] :
                                  s \in {t \in d.subnets : t.cidr = Slash24[a.ip]}}
        /\ UNCHANGED <<stage, todo, segIds, hostIds, pending>>
     \/ \E s \in fit :
        /\ \A t \in fit : s.id <= t.id
        /\ IF s.id \notin Ids(db.subnets) THEN Fail
           ELSE LET d == IF kind = "nmap" THEN UpsertHost(db, s.id, a.ip, a.name, New)
                         ELSE ImportHost(db, s.id, a.ip, a.name, New) IN
                /\ Store(d)
                /\ pending' = RowIds(d, s.id, a.ip) \X a.ports
                /\ todo' = todo \ {a}
                /\ UNCHANGED <<stage, segIds, hostIds, known>>

ImportAddressPort(r) ==
  /\ stage = "addresses" /\ r \in pending
  /\ IF r[1] \notin Ids(db.hosts) THEN Fail
     ELSE /\ Store(UpsertPort(db, r[1], r[2]))
          /\ pending' = pending \ {r}
          /\ UNCHANGED <<stage, todo, segIds, hostIds, known>>

ImportStep ==
  \/ stage \in {"segments", "flags"} /\ \E seg \in todo : ImportSegment(seg) \/ ImportFlags(seg)
  \/ stage = "hosts" /\ \E h \in todo : ImportHostRow(h)
  \/ stage = "ports" /\ \E p \in todo : ImportPortRow(p)
  \/ stage = "addresses" /\ \E a \in todo : ImportAddress(a)
  \/ \E r \in pending : ImportAddressPort(r)
  \/ ImportSettings

-----------------------------------------------------------------------------
(* Everybody else.                                                         *)

\* An import that has answered, or died, leaves no trace but in the database.
ImportForgotten ==
  /\ kind' = "map" /\ stage' = "idle" /\ doc' = NoFile /\ todo' = {}
  /\ segIds' = {} /\ hostIds' = {} /\ known' = {} /\ pending' = {}
  /\ gone' = Nothing /\ quiet' = TRUE /\ fresh' = FALSE

OtherEdit ==
  /\ EditStep
  /\ IF Running
     THEN /\ gone' = [subnets |-> gone.subnets \cup (CidrsOf(db) \ CidrsOf(db')),
                      hosts |-> gone.hosts \cup (Addresses(db) \ Addresses(db'))]
          /\ quiet' = FALSE /\ fresh' = FALSE
          /\ UNCHANGED importing
     ELSE ImportForgotten
  /\ current' = {}
  /\ export' = [export EXCEPT !.calm = FALSE]
  /\ UNCHANGED <<file, bounds>>

\* The process ends and starts again, on the database file or, in memory, on
\* nothing.  What it was doing is not taken up again.
Restart ==
  /\ restarts < MaxRestarts
  /\ restarts' = restarts + 1
  /\ \/ UNCHANGED <<db, serial, current>>
     \/ /\ db' = [subnets |-> {}, hosts |-> {}, ports |-> {}, tags |-> {},
                  links |-> {}, method |-> DefaultMethod]
        /\ serial' = 0 /\ current' = {}
  /\ export' = NoExport
  /\ ImportForgotten
  /\ UNCHANGED <<edits, file, taken, imported>>

Next ==
  \/ ExportSubnets \/ ExportHosts \/ ExportDone
  \/ \E h \in export.left : ExportPorts(h)
  \/ \E k \in {"map", "system"} : StartImport(k)
  \/ \E k \in {"dnsrecon", "nmap"}, rows \in SUBSET Scanned \ {{}} :
       StartAddressImport(k, rows)
  \/ ImportStep \/ NextStage
  \/ OtherEdit
  \/ Restart

Spec == Init /\ [][Next]_vars

-----------------------------------------------------------------------------
(* Properties.                                                             *)

\* Hosts, ports and tag links never outlive what they refer to, and no key is
\* taken twice, whatever edits, imports with ids from an earlier list, and
\* restarts do to each other: the orphans the comment in Open warns of.
NoOrphans == References(db) /\ Keys(db)

\* An export is two reads and one more per host, with edits in between.  The
\* only hosts whose segment it misses are those of subnets added since the
\* first read, and every port in it has its host.
ExportClosed ==
  /\ \A h \in export.hosts : h.subnet \in Ids(export.segs) \/ h.subnet > export.upto
  /\ \A p \in export.ports : p.host \in Ids(export.hosts)

\* A finished import has restored every segment of its file, every host whose
\* segment the file holds and a port row for every open port of those, but for
\* what was deleted while it ran; and only such a deletion makes it fail.
RestoreComplete ==
  /\ stage = "failed" => gone # Nothing
  /\ stage = "done" /\ doc # NoFile => \A seg \in doc.segs :
       /\ seg.cidr \in CidrsOf(db) \cup gone.subnets
       /\ \A h \in doc.hosts : h.subnet = seg.id =>
            \/ <<seg.cidr, h.ip>> \in gone.hosts
            \/ \E g \in db.hosts :
                 /\ g.ip = h.ip /\ CidrIn(db, g.subnet) = seg.cidr
                 /\ \A p \in doc.ports :
                      p.host = h.id /\ p.open => PortsAt(db, g.id, p.port) # {}

\* What an import can carry over of a database or a file, whatever the ids.
Picture(segs, hosts, ports) ==
  LET at(h) == RowOf(segs, h.subnet).cidr
      held == {h \in hosts : h.subnet \in Ids(segs)} IN
  [segs  |-> {<<s.cidr, s.enabled>> : s \in segs},
   hosts |-> {<<at(h), h.ip, h.name>> : h \in held},
   ports |-> {<<at(x[1]), x[1].ip, x[2].port>> :
                x \in {y \in held \X ports : y[2].host = y[1].id /\ y[2].open}}]

\* "I lost my database, but I have last week's export": imported undisturbed
\* into empty tables, a file gives back exactly its subnets, hosts and open
\* ports, a system file also the excluded subnets and the scan method.
RestoredAsExported ==
  stage = "done" /\ fresh /\ doc # NoFile =>
    LET enabled(s) == IF kind = "system" THEN s ELSE [s EXCEPT !.enabled = TRUE] IN
    /\ Picture(db.subnets, db.hosts, db.ports)
         = Picture({enabled(s) : s \in doc.segs}, doc.hosts, doc.ports)
    /\ \A p \in db.ports : p.open
    /\ kind = "system" => db.method = doc.method

\* An import deletes nothing, renames nothing that has a name, closes nothing
\* and leaves tags alone; only a system file changes an existing subnet.
ImportOnlyAdds ==
  [][ImportStep =>
       /\ \A s \in db.subnets :
            s \in db'.subnets \/ (kind = "system" /\ s.id \in Ids(db'.subnets))
       /\ \A h \in db.hosts :
            \/ h \in db'.hosts
            \/ (kind = "nmap" \/ h.name = Blank) /\ h.id \in Ids(db'.hosts)
       /\ \A p \in db.ports : p \in db'.ports \/ [p EXCEPT !.open = TRUE] \in db'.ports
       /\ db'.tags = db.tags /\ db'.links = db.links]_vars

\* Importing the same file again changes nothing, nor does importing an export
\* into the database it was taken from, as long as nobody edited since.
ReimportChangesNothing ==
  [][ImportStep /\ doc = file /\ kind \in current => db' = db]_vars

\* importNetworkMap: "it never overwrites data a live scan already found".
ScannedStateKept == [][ImportStep /\ kind = "map" => db.ports \subseteq db'.ports]_vars

=============================================================================
