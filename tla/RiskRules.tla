----------------------------- MODULE RiskRules -----------------------------
(***************************************************************************)
(* The triage rules: which open ports they flag and how badly, how         *)
(* versions compare, and how the table is seeded, edited, exported and     *)
(* restored.                                                               *)
(*                                                                         *)
(* A version text is the sequence of its runs, a run of digits being its   *)
(* number and anything else Sep; the empty text is <<>>.  A service or     *)
(* product name is known by the rule services it contains.  A severity is  *)
(* its rank; a rule's label goes the way of its severity and is left out.  *)
(*                                                                         *)
(* Store.mu makes every store call one step.  An import lists the rules in *)
(* one call and then makes one more for each row of its file.              *)
(***************************************************************************)
EXTENDS Integers, FiniteSets, Sequences, SequencesExt

CONSTANTS
  PortNumbers,
  Services,     \* service texts of rules; AnyService, the empty one, matches all
  AnyService,
  Texts,        \* service and product names of ports
  Mentions,     \* Mentions[t]: the services other than AnyService that t contains
  Versions,     \* version texts
  Sep,
  Defaults,     \* defaultRiskRules, a sequence
  Bodies,       \* the rules an operator may write
  Hosts,        \* hosts by the sequence of their ports
  Importers,    \* requests that may import at the same time
  MaxEdits, MaxImports, MaxRestarts   \* bounds

Severities == 1 .. 3    \* info, warning, critical

Body == [port : PortNumbers, service : Services, below : Versions,
         severity : Severities, enabled : BOOLEAN]
Rule == [id : Nat, body : Body]
Port == [port : PortNumbers, open : BOOLEAN, service : Texts, product : Texts,
         version : Versions]

ASSUME TextAssumption ==
  /\ AnyService \in Services
  /\ Mentions \in [Texts -> SUBSET (Services \ {AnyService})]
  /\ Versions \subseteq Seq({Sep} \cup Nat)
  /\ <<>> \in Versions
ASSUME RulesAssumption ==
  /\ PortNumbers \subseteq Nat
  /\ Defaults \in Seq(Body)
  /\ Bodies \subseteq Body
  /\ Hosts \subseteq Seq(Port)
ASSUME BoundAssumption ==
  MaxEdits \in Nat /\ MaxImports \in Nat /\ MaxRestarts \in Nat

VARIABLES
  up,           \* the process serves requests
  rules,        \* the table
  serial,       \* the last id handed out
  file,         \* the exported rules, a sequence
  imports,      \* what each importer is doing, see Imports
  edits, started, restarts

vars == <<up, rules, serial, file, imports, edits, started, restarts>>

-----------------------------------------------------------------------------
(* Versions.                                                               *)

versionNumbers(v) ==
  LET out[k \in 0 .. Len(v)] ==
        IF k = 0 THEN <<>>
        ELSE IF v[k] = Sep THEN out[k - 1] ELSE Append(out[k - 1], v[k]) IN
  out[Len(v)]

\* Fault: a component that is missing sorts before all others.
Component_Missing(ns, i) == IF i \in 1 .. Len(ns) THEN ns[i] ELSE -1

Component(ns, i) == IF i \in 1 .. Len(ns) THEN ns[i] ELSE 0

\* The first component that differs decides.
NumbersLess(m, n) ==
  \E i \in 1 .. Len(m) + Len(n) :
    /\ Component(m, i) < Component(n, i)
    /\ \A j \in 1 .. i - 1 : Component(m, j) = Component(n, j)

versionLess(a, b) == NumbersLess(versionNumbers(a), versionNumbers(b))

-----------------------------------------------------------------------------
(* Matching.                                                               *)

Flags(r, p) ==
  /\ p.open
  /\ r.enabled /\ r.port = p.port
  /\ \/ r.service = AnyService
     \/ r.service \in Mentions[p.service] \cup Mentions[p.product]
  /\ \/ r.below = <<>>
     \/ p.version # <<>> /\ versionLess(p.version, r.below)

\* Fault: the last rule that matches decides.
Worse_Last(level, severity) == severity

Worse(level, severity) == IF severity > level THEN severity ELSE level

\* What a pass over the rules for one port makes of the level.
riskForPort(level, p, list) ==
  FoldLeft(LAMBDA best, r : IF Flags(r.body, p) THEN Worse(best, r.body.severity)
                            ELSE best, level, list)

\* The level of a host, 0 for none.
riskForPorts(ports, list) ==
  FoldLeft(LAMBDA level, p : riskForPort(level, p, list), 0, ports)

-----------------------------------------------------------------------------
(* The table.                                                              *)

Ids == {r.id : r \in rules}

\* ORDER BY port, id
Before(q, r) ==
  q.body.port < r.body.port \/ (q.body.port = r.body.port /\ q.id < r.id)
ListRiskRules ==
  [n \in 1 .. Cardinality(rules) |->
     CHOOSE r \in rules : Cardinality({q \in rules : Before(q, r)}) = n - 1]

\* Fault: the threshold is no part of the identity.
KeyOf_NoThreshold(b) == <<b.port, b.service>>

\* What decides which ports a rule matches.
KeyOf(b) == <<b.port, b.service, b.below>>
SameKey(b, c) == b.port = c.port /\ b.service = c.service /\ b.below = c.below

\* Fault: the first rule under a key is kept.
LastUnderKey_First(r, list) ==
  \A q \in list : KeyOf(q.body) = KeyOf(r.body) => r.id <= q.id

\* A later rule in the list replaces an earlier one under the same key.
LastUnderKey(r, list) ==
  \A q \in list : KeyOf(q.body) = KeyOf(r.body) => q.id <= r.id

Insert(body) ==
  /\ rules' = rules \cup {[id |-> serial + 1, body |-> body]}
  /\ serial' = serial + 1

\* at: the next row of doc, 0 before the first import.  list: the table as the
\* import read it.  History: calm, nobody else has changed the table since;
\* again, a calm import of the same rows had just finished.
Imports == [at : Nat, doc : Seq(Body), list : SUBSET Rule, calm : BOOLEAN,
            again : BOOLEAN]
NoImport == [at |-> 0, doc |-> <<>>, list |-> {}, calm |-> FALSE, again |-> FALSE]
Importing(i) == imports[i].at \in 1 .. Len(imports[i].doc)
Finished(i) == imports[i].at = Len(imports[i].doc) + 1

TypeOK ==
  /\ up \in BOOLEAN
  /\ rules \subseteq Rule /\ IsFiniteSet(rules) /\ serial \in Nat
  /\ Ids \subseteq 1 .. serial /\ \A q, r \in rules : q.id = r.id => q = r
  /\ file \in Seq(Body)
  /\ imports \in [Importers -> Imports]
  /\ \A i \in Importers : imports[i].at <= Len(imports[i].doc) + 1
  /\ edits \in 0 .. MaxEdits /\ started \in 0 .. MaxImports
  /\ restarts \in 0 .. MaxRestarts

Init ==
  /\ up = FALSE
  /\ rules = {} /\ serial = 0
  /\ file = <<>>
  /\ imports = [i \in Importers |-> NoImport]
  /\ edits = 0 /\ started = 0 /\ restarts = 0

-----------------------------------------------------------------------------
(* Start and stop.                                                         *)

\* ensureDefaultRiskRules fills an empty table rule by rule, outside of any
\* transaction: a process that dies on the way leaves the first n of them.
Start ==
  /\ ~ up
  /\ IF rules # {} THEN up' = TRUE /\ UNCHANGED <<rules, serial>>
     ELSE \E n \in 0 .. Len(Defaults) :
       /\ rules' = {[id |-> serial + k, body |-> Defaults[k]] : k \in 1 .. n}
       /\ serial' = serial + n
       /\ up' = (n = Len(Defaults))
  /\ UNCHANGED <<file, imports, edits, started, restarts>>

\* The next start is on the same database file, or, in memory, on an empty one.
Stop ==
  /\ up /\ restarts < MaxRestarts
  /\ up' = FALSE
  /\ \/ UNCHANGED <<rules, serial>>
     \/ rules' = {} /\ serial' = 0
  /\ imports' = [i \in Importers |-> NoImport]
  /\ restarts' = restarts + 1
  /\ UNCHANGED <<file, edits, started>>

-----------------------------------------------------------------------------
(* Requests.                                                               *)

\* The table has changed under every import but the one that did it.
Unsettle(own) ==
  imports' = [i \in Importers |->
    IF i \in own THEN imports[i] ELSE [imports[i] EXCEPT !.calm = FALSE]]

Edit ==
  /\ up /\ edits < MaxEdits
  /\ edits' = edits + 1
  /\ Unsettle({})
  /\ UNCHANGED <<up, file, started, restarts>>

\* A rule is on when the operator creates it.
CreateRule(body) == body.enabled /\ Edit /\ Insert(body)

\* The request names the columns to change; body is what they come to.
UpdateRule(r, body) ==
  /\ Edit
  /\ rules' = (rules \ {r}) \cup {[r EXCEPT !.body = body]}
  /\ UNCHANGED serial

DeleteRule(r) ==
  /\ Edit
  /\ rules' = rules \ {r}
  /\ UNCHANGED serial

ExportRules ==
  /\ up
  /\ LET list == ListRiskRules IN file' = [n \in DOMAIN list |-> list[n].body]
  /\ UNCHANGED <<up, rules, serial, imports, edits, started, restarts>>

StartImport(i) ==
  /\ up /\ started < MaxImports /\ ~ Importing(i)
  /\ imports' = [imports EXCEPT ![i] =
       [at |-> 1, doc |-> file, list |-> rules, calm |-> TRUE,
        again |-> \E j \in Importers :
                    Finished(j) /\ imports[j].calm /\ imports[j].doc = file]]
  /\ started' = started + 1
  /\ UNCHANGED <<up, rules, serial, file, edits, restarts>>

\* Fault: an import creates a rule the way the operator does.
CreateFromRow_On(row) == Insert([row EXCEPT !.enabled = TRUE])

CreateFromRow(row) == Insert(row)

\* An UPDATE of a rule that is gone is no error.  The list is not brought up to
\* date with what the import itself creates.
ImportRow(i) ==
  LET im == imports[i]
      row == im.doc[im.at]
      match == {r.id : r \in {q \in im.list :
                  LastUnderKey(q, im.list) /\ KeyOf(q.body) = KeyOf(row)}} IN
  /\ up /\ Importing(i)
  /\ \/ match = {} /\ CreateFromRow(row)
     \/ /\ match # {}
        /\ rules' = {IF r.id \notin match THEN r
                     ELSE [r EXCEPT !.body.severity = row.severity,
                                    !.body.below = row.below,
                                    !.body.enabled = row.enabled] : r \in rules}
        /\ UNCHANGED serial
  /\ imports' = [j \in Importers |->
       IF j = i THEN [im EXCEPT !.at = @ + 1]
       ELSE [imports[j] EXCEPT !.calm = @ /\ rules' = rules]]
  /\ UNCHANGED <<up, file, edits, started, restarts>>

\* A store call fails and the import ends where it is.
AbortImport(i) ==
  /\ up /\ Importing(i)
  /\ imports' = [imports EXCEPT ![i] = NoImport]
  /\ UNCHANGED <<up, rules, serial, file, edits, started, restarts>>

Next ==
  \/ Start \/ Stop
  \/ \E body \in Bodies : CreateRule(body) \/ \E r \in rules : UpdateRule(r, body)
  \/ \E r \in rules : DeleteRule(r)
  \/ ExportRules
  \/ \E i \in Importers : StartImport(i) \/ ImportRow(i) \/ AbortImport(i)

Spec == Init /\ [][Next]_vars

-----------------------------------------------------------------------------
(* Properties.                                                             *)

\* An import nobody disturbs leaves the table with each rule of its file as the
\* last row about it says, on or off, even if two rows match the same ports; it
\* is that rule a later import will find.
RulesRestored ==
  \A i \in Importers : Finished(i) /\ imports[i].calm =>
    LET doc == imports[i].doc IN
    \A n \in DOMAIN doc :
      \/ \E m \in n + 1 .. Len(doc) : SameKey(doc[m], doc[n])
      \/ \E r \in rules :
           r.body = doc[n] /\ \A q \in rules : SameKey(q.body, r.body) => q.id <= r.id

\* Importing the same file again changes nothing, though the rows are matched
\* against a list that knows each match by one rule only.
ReimportStable ==
  \A i \in Importers :
    Finished(i) /\ imports[i].calm /\ imports[i].again => rules = imports[i].list

\* An import deletes no rule, and of those it found unchanged it leaves alone
\* the ones that match other ports than any rule of its file.
ImportKeepsOthers ==
  [][\A i \in Importers : ImportRow(i) =>
       /\ Ids \subseteq {r.id : r \in rules'}
       /\ \A r \in rules \cap imports[i].list :
            \/ r \in rules'
            \/ \E n \in DOMAIN imports[i].doc : SameKey(imports[i].doc[n], r.body)]_vars

\* A host's level is the worst severity among the rules that flag one of its
\* ports, in whatever order ports and rules are listed; the interface sorts and
\* filters by it.
RiskIsWorst ==
  LET list == ListRiskRules IN
  \A h \in Hosts :
    LET flagging == {r \in rules : \E n \in DOMAIN h : Flags(r.body, h[n])}
        level == riskForPorts(h, list) IN
    /\ \A r \in flagging : r.body.severity <= level
    /\ level = 0 \/ \E r \in flagging : r.body.severity = level

\* The numbers of a version without the zeros at its end.
Significant(v) ==
  LET ns == versionNumbers(v) IN
  SubSeq(ns, 1, CHOOSE k \in 0 .. Len(ns) :
    /\ k = 0 \/ ns[k] # 0
    /\ \A j \in k + 1 .. Len(ns) : ns[j] = 0)

\* "Below" a version is a sharp line: a rule that flags a port flags it in every
\* version that is not newer, and never in the version of the rule itself,
\* however many zeros and letters that is written with.
ThresholdIsSharp ==
  \A r \in rules : r.body.below # <<>> =>
    \A h \in Hosts : \A n \in DOMAIN h : Flags(r.body, h[n]) =>
      /\ \A v \in Versions \ {<<>>} :
           versionLess(h[n].version, v) \/ Flags(r.body, [h[n] EXCEPT !.version = v])
      /\ Significant(h[n].version) # Significant(r.body.below)

\* ensureDefaultRiskRules: "once any rule exists (including all deleted down to
\* zero by the user) it's left alone".
DeletedStayDeleted == [][Start /\ serial > 0 => rules' = rules]_vars

=============================================================================
