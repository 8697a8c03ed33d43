-------------------------- MODULE RiskRulesProofs --------------------------
(***************************************************************************)
(* Proofs about RiskRules, for every set of rules, texts and versions and  *)
(* any number of importers, edits and restarts.                            *)
(***************************************************************************)
EXTENDS RiskRules, FiniteSetTheorems, WellFoundedInduction, TLAPS

-----------------------------------------------------------------------------
(* The order of the list.                                                  *)

\* What SQLite keeps of the table: a finite set of rows with an id each.
Table ==
  /\ rules \subseteq Rule /\ IsFiniteSet(rules)
  /\ \A q, r \in rules : q.id = r.id => q = r

Preceding(r) == {q \in rules : Before(q, r)}

LEMMA BeforeIsOrder ==
  ASSUME Table, NEW p \in rules, NEW q \in rules, NEW r \in rules
  PROVE  /\ ~ Before(r, r)
         /\ Before(p, q) /\ Before(q, r) => Before(p, r)
         /\ q # r => Before(q, r) \/ Before(r, q)
<1>1. \A x \in {p, q, r} : x.id \in Nat /\ x.body.port \in Nat
  BY RulesAssumption DEF Table, Rule, Body
<1>2. q # r => q.id # r.id
  BY DEF Table
<1> QED
  BY <1>1, <1>2 DEF Before

\* A rule's place among the others.
LEMMA PrecedingCount ==
  ASSUME Table, NEW r \in rules
  PROVE  Cardinality(Preceding(r)) \in 0 .. Cardinality(rules) - 1
<1>1. IsFiniteSet(rules) /\ Preceding(r) \in SUBSET rules /\ r \notin Preceding(r)
  BY BeforeIsOrder DEF Table, Preceding
<1>2. /\ Cardinality(Preceding(r)) \in Nat
      /\ Cardinality(Preceding(r)) <= Cardinality(rules)
      /\ Cardinality(Preceding(r)) # Cardinality(rules)
  BY <1>1, FS_Subset, FS_CardinalityType
<1>3. Cardinality(rules) \in Nat
  BY <1>1, FS_CardinalityType
<1> QED
  BY <1>2, <1>3

LEMMA PrecedingDiffers ==
  ASSUME Table, NEW q \in rules, NEW r \in rules, Before(q, r)
  PROVE  Cardinality(Preceding(q)) # Cardinality(Preceding(r))
<1>1. IsFiniteSet(Preceding(r))
  BY FS_Subset DEF Table, Preceding
<1>2. Preceding(q) \in SUBSET Preceding(r) /\ Preceding(q) # Preceding(r)
  <2>1. \A p \in Preceding(q) : p \in Preceding(r)
    BY BeforeIsOrder DEF Preceding
  <2>2. q \in Preceding(r) /\ q \notin Preceding(q)
    BY BeforeIsOrder DEF Preceding
  <2> QED
    BY <2>1, <2>2
<1> QED
  BY <1>1, <1>2, FS_Subset

\* The list holds every rule of the table, each once (listRiskRulesLocked).
LEMMA Listed ==
  ASSUME Table
  PROVE  /\ Cardinality(rules) \in Nat
         /\ ListRiskRules \in [1 .. Cardinality(rules) -> rules]
         /\ \A r \in rules : \E n \in 1 .. Cardinality(rules) : ListRiskRules[n] = r
<1> DEFINE size == Cardinality(rules)
           place == [r \in rules |-> Cardinality(Preceding(r))]
<1>1. size \in Nat /\ IsFiniteSet(rules)
  BY FS_CardinalityType DEF Table
<1>2. IsFiniteSet(0 .. size - 1) /\ Cardinality(0 .. size - 1) = size
  BY <1>1, FS_Interval
<1>3. \A q, r \in rules : place[q] = place[r] => q = r
  BY BeforeIsOrder, PrecedingDiffers
<1>4. place \in [rules -> 0 .. size - 1]
  BY PrecedingCount
<1>5. place \in Injection(rules, 0 .. size - 1)
  BY <1>3, <1>4 DEF Injection, IsInjective
<1>6. place \in Surjection(rules, 0 .. size - 1)
  BY <1>1, <1>2, <1>5, FS_Injection
<1>7. \A n \in 1 .. size : \E r \in rules : Cardinality(Preceding(r)) = n - 1
  <2> SUFFICES ASSUME NEW n \in 1 .. size
               PROVE  \E r \in rules : Cardinality(Preceding(r)) = n - 1
    OBVIOUS
  <2>1. n - 1 \in 0 .. size - 1
    BY <1>1
  <2>2. \E r \in rules : place[r] = n - 1
    BY <1>6, <2>1 DEF Surjection
  <2> QED
    BY <2>2
<1>8. \A n \in 1 .. size :
        ListRiskRules[n] \in rules /\ Cardinality(Preceding(ListRiskRules[n])) = n - 1
  BY <1>7 DEF ListRiskRules, Preceding
<1>9. ListRiskRules \in [1 .. size -> rules]
  BY <1>8 DEF ListRiskRules
<1>10. ASSUME NEW r \in rules PROVE \E n \in 1 .. size : ListRiskRules[n] = r
  <2> DEFINE n == Cardinality(Preceding(r)) + 1
  <2>1. Cardinality(Preceding(r)) \in 0 .. size - 1
    BY PrecedingCount
  <2>2. n \in 1 .. size /\ n - 1 = Cardinality(Preceding(r))
    BY <1>1, <2>1
  <2>3. /\ ListRiskRules[n] \in rules
        /\ Cardinality(Preceding(ListRiskRules[n])) = Cardinality(Preceding(r))
    BY <1>8, <2>2
  <2>4. ListRiskRules[n] = r
    BY <1>3, <2>3
  <2> QED
    BY <2>2, <2>4
<1> QED
  BY <1>1, <1>9, <1>10

-----------------------------------------------------------------------------
(* Types, and what a running import knows.                                 *)

\* The list an import works from was the table once.
ListsOnce ==
  \A i \in Importers : \A q, r \in imports[i].list : q.id = r.id => q = r

IInv == TypeOK /\ ListsOnce

\* The parts of the invariant an action may disturb.
TableTypes == Table /\ serial \in Nat /\ Ids \subseteq 1 .. serial
ImportTypes ==
  /\ imports \in [Importers -> Imports]
  /\ \A i \in Importers : imports[i].at <= Len(imports[i].doc) + 1
  /\ ListsOnce
CountTypes ==
  /\ edits \in 0 .. MaxEdits /\ started \in 0 .. MaxImports
  /\ restarts \in 0 .. MaxRestarts

LEMMA Parts ==
  IInv <=> up \in BOOLEAN /\ file \in Seq(Body) /\ TableTypes /\ ImportTypes /\ CountTypes
BY DEF IInv, TypeOK, TableTypes, ImportTypes, CountTypes, Table

LEMMA InitIInv == Init => IInv
<1> SUFFICES ASSUME Init PROVE IInv
  OBVIOUS
<1>1. IsFiniteSet({})
  BY FS_EmptySet
<1>2. /\ rules \subseteq Rule /\ IsFiniteSet(rules) /\ serial \in Nat
      /\ Ids \subseteq 1 .. serial /\ \A q, r \in rules : q.id = r.id => q = r
  BY <1>1 DEF Init, Ids
<1>3. NoImport \in Imports
  BY DEF NoImport, Imports
<1>4. imports \in [Importers -> Imports]
  BY <1>3 DEF Init
<1>5. \A i \in Importers : imports[i].at <= Len(imports[i].doc) + 1 /\ imports[i].list = {}
  BY DEF Init, NoImport
<1>6. up \in BOOLEAN
  BY DEF Init
<1>7. /\ file \in Seq(Body)
      /\ edits \in 0 .. MaxEdits /\ started \in 0 .. MaxImports
      /\ restarts \in 0 .. MaxRestarts
  BY BoundAssumption DEF Init
<1> QED
  BY <1>2, <1>4, <1>5, <1>6, <1>7 DEF IInv, TypeOK, ListsOnce

\* A new row has an id no row ever had.
LEMMA InsertTypes ==
  ASSUME TableTypes, NEW body \in Body, Insert(body)
  PROVE  TableTypes'
<1> DEFINE new == [id |-> serial + 1, body |-> body]
<1>1. rules' = rules \cup {new} /\ serial' = serial + 1 /\ serial \in Nat
  BY DEF Insert, TableTypes
<1>2. new \in Rule /\ new.id = serial + 1
  BY <1>1 DEF Rule
<1> HIDE DEF new
<1>3. IsFiniteSet(rules')
  BY <1>1, FS_AddElement DEF TableTypes, Table
<1>4. \A r \in rules : r.id \in 1 .. serial
  BY DEF TableTypes, Ids
<1>5. \A q, r \in rules' : q.id = r.id => q = r
  BY <1>1, <1>2, <1>4 DEF TableTypes, Table
<1>6. Ids' \subseteq 1 .. serial'
  BY <1>1, <1>2, <1>4 DEF Ids
<1> QED
  BY <1>1, <1>2, <1>3, <1>5, <1>6 DEF TableTypes, Table

\* Rows that are rewritten keep their ids.
LEMMA RewriteTypes ==
  ASSUME TableTypes, NEW f \in [rules -> Rule], rules' = {f[r] : r \in rules},
         \A r \in rules : f[r].id = r.id, serial' = serial
  PROVE  TableTypes'
<1>1. f \in Surjection(rules, rules')
  BY DEF Surjection
<1>2. IsFiniteSet(rules')
  BY <1>1, FS_Surjection DEF TableTypes, Table
<1>3. \A r \in rules : r.id \in 1 .. serial
  BY DEF TableTypes, Ids
<1> QED
  BY <1>2, <1>3 DEF TableTypes, Table, Ids

\* The defaults get ids of their own.
LEMMA SeedTypes ==
  ASSUME TableTypes, NEW n \in 0 .. Len(Defaults),
         rules' = {[id |-> serial + k, body |-> Defaults[k]] : k \in 1 .. n},
         serial' = serial + n
  PROVE  TableTypes'
<1> DEFINE f == [k \in 1 .. n |-> [id |-> serial + k, body |-> Defaults[k]]]
<1>1. serial \in Nat /\ n \in Nat
  BY RulesAssumption DEF TableTypes
<1>2. \A k \in 1 .. n : f[k] \in Rule /\ f[k].id = serial + k
  <2>1. \A k \in 1 .. n : Defaults[k] \in Body /\ serial + k \in Nat
    BY <1>1, RulesAssumption
  <2> QED
    BY <2>1 DEF Rule
<1>3. rules' = {f[k] : k \in 1 .. n}
  OBVIOUS
<1>4. f \in Surjection(1 .. n, rules')
  BY <1>3 DEF Surjection
<1>5. IsFiniteSet(1 .. n)
  BY <1>1, FS_Interval
<1>6. IsFiniteSet(rules')
  BY <1>4, <1>5, FS_Surjection
<1> HIDE DEF f
<1>7. Ids' \subseteq 1 .. serial'
  BY <1>1, <1>2, <1>3 DEF Ids
<1>8. \A q, r \in rules' : q.id = r.id => q = r
  BY <1>1, <1>2, <1>3
<1> QED
  BY <1>1, <1>2, <1>3, <1>6, <1>7, <1>8 DEF TableTypes, Table

\* Whatever becomes of the history variables, an import keeps what it knows.
LEMMA CalmTypes ==
  ASSUME ImportTypes, NEW c \in [Importers -> BOOLEAN],
         imports' = [i \in Importers |-> [imports[i] EXCEPT !.calm = c[i]]]
  PROVE  ImportTypes'
<1>1. \A i \in Importers : imports[i] \in Imports
  BY DEF ImportTypes
<1>2. \A i \in Importers :
        /\ imports'[i] \in Imports
        /\ imports'[i].at = imports[i].at /\ imports'[i].doc = imports[i].doc
        /\ imports'[i].list = imports[i].list
  BY <1>1 DEF Imports
<1>3. imports' \in [Importers -> Imports]
  BY <1>2
<1> QED
  BY <1>2, <1>3 DEF ImportTypes, ListsOnce

\* An edit of the operator leaves imports as they are, if no longer calm.
LEMMA EditImports ==
  ASSUME ImportTypes, Unsettle({})
  PROVE  ImportTypes'
<1> DEFINE c == [i \in Importers |-> FALSE]
<1>1. imports' = [i \in Importers |-> [imports[i] EXCEPT !.calm = c[i]]]
  BY DEF Unsettle
<1>2. c \in [Importers -> BOOLEAN]
  OBVIOUS
<1> QED
  BY <1>1, <1>2, CalmTypes

LEMMA StartIInv == IInv /\ Start => IInv'
<1> SUFFICES ASSUME IInv, Start PROVE IInv'
  OBVIOUS
<1>1. UNCHANGED <<file, imports, edits, started, restarts>>
  BY DEF Start
<1>2. up' \in BOOLEAN
  BY DEF Start
<1>3. TableTypes'
  <2>1. CASE rules # {}
    BY <2>1, Parts DEF Start, TableTypes, Table, Ids
  <2>2. CASE rules = {}
    BY <2>2, Parts, SeedTypes DEF Start
  <2> QED
    BY <2>1, <2>2
<1> QED
  BY <1>1, <1>2, <1>3, Parts DEF IInv, TypeOK, ListsOnce, TableTypes, Table

LEMMA StopIInv == IInv /\ Stop => IInv'
<1> SUFFICES ASSUME IInv, Stop PROVE IInv'
  OBVIOUS
<1>1. UNCHANGED <<file, edits, started>> /\ up' = FALSE
  BY DEF Stop
<1>2. TableTypes'
  <2>1. CASE UNCHANGED <<rules, serial>>
    BY <2>1, Parts DEF TableTypes, Table, Ids
  <2>2. CASE rules' = {} /\ serial' = 0
    BY <2>2, FS_EmptySet DEF TableTypes, Table, Ids
  <2> QED
    BY <2>1, <2>2 DEF Stop
<1>3. ImportTypes'
  <2>1. NoImport \in Imports
    BY DEF NoImport, Imports
  <2>2. imports' = [i \in Importers |-> NoImport]
    BY DEF Stop
  <2> QED
    BY <2>1, <2>2 DEF ImportTypes, ListsOnce, NoImport
<1>4. restarts' \in 0 .. MaxRestarts
  BY Parts, BoundAssumption DEF Stop, CountTypes
<1> QED
  BY <1>1, <1>2, <1>3, <1>4, Parts DEF IInv, TypeOK, TableTypes, Table, ImportTypes

\* What all edits have in common.
LEMMA EditIInv == ASSUME IInv, Edit, TableTypes' PROVE IInv'
<1>1. UNCHANGED <<up, file, started, restarts>>
  BY DEF Edit
<1>2. ImportTypes'
  BY Parts, EditImports DEF Edit
<1>3. edits' \in 0 .. MaxEdits
  BY Parts, BoundAssumption DEF Edit, CountTypes
<1> QED
  BY <1>1, <1>2, <1>3, Parts DEF IInv, TypeOK, TableTypes, Table, ImportTypes

LEMMA CreateIInv == ASSUME IInv, NEW body \in Bodies, CreateRule(body) PROVE IInv'
  BY Parts, EditIInv, InsertTypes, RulesAssumption DEF CreateRule

LEMMA UpdateIInv ==
  ASSUME IInv, NEW r \in rules, NEW body \in Bodies, UpdateRule(r, body) PROVE IInv'
<1> DEFINE f == [q \in rules |-> IF q = r THEN [r EXCEPT !.body = body] ELSE q]
<1>1. TableTypes
  BY Parts
<1>2. \A q \in rules : q \in Rule
  BY <1>1 DEF TableTypes, Table
<1>3. [r EXCEPT !.body = body] \in Rule /\ [r EXCEPT !.body = body].id = r.id
  BY <1>2, RulesAssumption DEF Rule
<1>4. f \in [rules -> Rule] /\ \A q \in rules : f[q].id = q.id
  BY <1>2, <1>3
<1>5. rules' = {f[q] : q \in rules} /\ serial' = serial
  BY DEF UpdateRule
<1>6. TableTypes'
  BY <1>1, <1>4, <1>5, RewriteTypes
<1> QED
  BY <1>6, EditIInv DEF UpdateRule

LEMMA DeleteIInv == ASSUME IInv, NEW r \in rules, DeleteRule(r) PROVE IInv'
<1>1. IsFiniteSet(rules')
  BY Parts, FS_RemoveElement DEF DeleteRule, TableTypes, Table
<1>2. TableTypes'
  BY <1>1, Parts DEF DeleteRule, TableTypes, Table, Ids
<1> QED
  BY <1>2, EditIInv DEF DeleteRule

LEMMA ExportIInv == ASSUME IInv, ExportRules PROVE IInv'
<1>1. UNCHANGED <<up, rules, serial, imports, edits, started, restarts>>
  BY DEF ExportRules
<1>2. file' \in Seq(Body)
  <2>1. /\ Cardinality(rules) \in Nat
        /\ ListRiskRules \in [1 .. Cardinality(rules) -> rules]
    BY Parts, Listed DEF TableTypes
  <2>2. \A r \in rules : r.body \in Body
    BY Parts DEF TableTypes, Table, Rule
  <2>3. file' = [n \in 1 .. Cardinality(rules) |-> ListRiskRules[n].body]
    BY <2>1 DEF ExportRules
  <2> QED
    BY <2>1, <2>2, <2>3
<1> QED
  BY <1>1, <1>2, Parts DEF IInv, TypeOK, ListsOnce, Ids

LEMMA StartImportIInv == ASSUME IInv, NEW i \in Importers, StartImport(i) PROVE IInv'
<1>1. UNCHANGED <<up, rules, serial, file, edits, restarts>>
  BY DEF StartImport
<1>2. PICK a \in BOOLEAN : imports' = [imports EXCEPT ![i] =
        [at |-> 1, doc |-> file, list |-> rules, calm |-> TRUE, again |-> a]]
  BY Zenon DEF StartImport
<1>3. [at |-> 1, doc |-> file, list |-> rules, calm |-> TRUE, again |-> a] \in Imports
  BY Parts DEF Imports, TableTypes, Table
<1>4. imports' \in [Importers -> Imports]
  BY <1>2, <1>3, Parts DEF ImportTypes
<1>5. \A j \in Importers :
        \/ imports'[j] = imports[j]
        \/ /\ imports'[j].at = 1 /\ imports'[j].doc = file /\ imports'[j].list = rules
  BY <1>2, Parts DEF ImportTypes
<1>6. ImportTypes'
  <2>1. file \in Seq(Body) /\ 1 <= Len(file) + 1
    BY Parts
  <2>2. ASSUME NEW j \in Importers PROVE imports'[j].at <= Len(imports'[j].doc) + 1
    BY <1>5, <2>1, Parts DEF ImportTypes
  <2>3. ListsOnce'
    BY <1>5, Parts DEF ImportTypes, ListsOnce, TableTypes, Table
  <2> QED
    BY <1>4, <2>2, <2>3 DEF ImportTypes
<1>7. started' \in 0 .. MaxImports
  BY Parts, BoundAssumption DEF StartImport, CountTypes
<1> QED
  BY <1>1, <1>6, <1>7, Parts DEF IInv, TypeOK, ImportTypes, Ids

LEMMA AbortIInv == ASSUME IInv, NEW i \in Importers, AbortImport(i) PROVE IInv'
<1>1. UNCHANGED <<up, rules, serial, file, edits, started, restarts>>
  BY DEF AbortImport
<1>2. NoImport \in Imports
  BY DEF NoImport, Imports
<1>3. imports' = [imports EXCEPT ![i] = NoImport]
  BY DEF AbortImport
<1>4. ImportTypes'
  BY <1>2, <1>3, Parts DEF ImportTypes, ListsOnce, NoImport
<1> QED
  BY <1>1, <1>4, Parts DEF IInv, TypeOK, ImportTypes, Ids

\* A row of the file is created or merged into what the list knows.
LEMMA RowTypes ==
  ASSUME IInv, NEW i \in Importers, ImportRow(i)
  PROVE  TableTypes'
<1> DEFINE row == imports[i].doc[imports[i].at]
           match == {r.id : r \in {q \in imports[i].list :
                       LastUnderKey(q, imports[i].list) /\ KeyOf(q.body) = KeyOf(row)}}
           merged(r) == [r EXCEPT !.body.severity = row.severity,
                                  !.body.below = row.below,
                                  !.body.enabled = row.enabled]
           f == [r \in rules |-> IF r.id \notin match THEN r ELSE merged(r)]
<1>1. imports[i] \in Imports /\ imports[i].at \in DOMAIN imports[i].doc
  <2>1. imports[i] \in Imports /\ imports[i].at \in 1 .. Len(imports[i].doc)
    BY Parts DEF ImportRow, Importing, ImportTypes
  <2>2. imports[i].doc \in Seq(Body)
    BY <2>1 DEF Imports
  <2> QED
    BY <2>1, <2>2
<1>2. row \in Body
  BY <1>1 DEF Imports
<1>3. TableTypes /\ \A r \in rules : r \in Rule
  BY Parts DEF TableTypes, Table
<1>4. \/ CreateFromRow(row)
      \/ rules' = {f[r] : r \in rules} /\ serial' = serial
  <2>1. \/ CreateFromRow(row)
        \/ /\ rules' = {IF r.id \notin match THEN r ELSE merged(r) : r \in rules}
           /\ serial' = serial
    BY DEF ImportRow
  <2> HIDE DEF match, merged, row
  <2> QED
    BY <2>1
<1>5. CASE CreateFromRow(row)
  BY <1>2, <1>3, <1>5, InsertTypes DEF CreateFromRow
<1>6. CASE rules' = {f[r] : r \in rules} /\ serial' = serial
  <2>1. \A r \in rules : merged(r) \in Rule /\ merged(r).id = r.id
    <3> SUFFICES ASSUME NEW r \in rules PROVE merged(r) \in Rule /\ merged(r).id = r.id
      OBVIOUS
    <3>1. r \in Rule
      BY <1>3
    <3> HIDE DEF row
    <3> QED
      BY <1>2, <3>1 DEF Rule, Body
  <2> HIDE DEF merged, match, row
  <2>2. f \in [rules -> Rule] /\ \A r \in rules : f[r].id = r.id
    BY <1>3, <2>1
  <2> HIDE DEF f
  <2> QED
    BY <1>3, <1>6, <2>2, RewriteTypes
<1> QED
  BY <1>4, <1>5, <1>6

LEMMA RowIInv == ASSUME IInv, NEW i \in Importers, ImportRow(i) PROVE IInv'
<1>1. UNCHANGED <<up, file, edits, started, restarts>> /\ Importing(i)
  BY DEF ImportRow
<1>2. TableTypes'
  BY RowTypes
<1>3. PICK c \in [Importers -> BOOLEAN] :
        imports' = [j \in Importers |->
          IF j = i THEN [imports[i] EXCEPT !.at = @ + 1]
          ELSE [imports[j] EXCEPT !.calm = c[j]]]
  <2> DEFINE c == [j \in Importers |-> imports[j].calm /\ rules' = rules]
  <2>1. \A j \in Importers : c[j] = (imports[j].calm /\ rules' = rules)
    OBVIOUS
  <2>2. c \in [Importers -> BOOLEAN]
    OBVIOUS
  <2>3. imports' = [j \in Importers |->
          IF j = i THEN [imports[i] EXCEPT !.at = imports[i].at + 1]
          ELSE [imports[j] EXCEPT !.calm = imports[j].calm /\ rules' = rules]]
    BY DEF ImportRow
  <2> HIDE DEF c
  <2>4. imports' = [j \in Importers |->
          IF j = i THEN [imports[i] EXCEPT !.at = imports[i].at + 1]
          ELSE [imports[j] EXCEPT !.calm = c[j]]]
    BY <2>1, <2>3, Zenon
  <2> QED
    BY <2>2, <2>4
<1>4. \A j \in Importers : imports[j] \in Imports
  BY Parts DEF ImportTypes
<1>5. \A j \in Importers :
        /\ imports'[j] \in Imports
        /\ imports'[j].doc = imports[j].doc /\ imports'[j].list = imports[j].list
        /\ imports'[j].at = IF j = i THEN imports[j].at + 1 ELSE imports[j].at
  <2> SUFFICES ASSUME NEW j \in Importers
               PROVE  /\ imports'[j] \in Imports
                      /\ imports'[j].doc = imports[j].doc /\ imports'[j].list = imports[j].list
                      /\ imports'[j].at = IF j = i THEN imports[j].at + 1 ELSE imports[j].at
    BY Zenon
  <2> DEFINE im == imports[j]
  <2>1. im \in Imports
    BY <1>4
  <2>2. CASE j = i
    <3>1. imports'[j] = [im EXCEPT !.at = @ + 1]
      BY <1>3, <2>2
    <3> HIDE DEF im
    <3>2. /\ imports'[j] \in Imports /\ imports'[j].doc = im.doc
          /\ imports'[j].list = im.list /\ imports'[j].at = im.at + 1
      BY <2>1, <3>1 DEF Imports
    <3> QED
      BY <2>2, <3>2 DEF im
  <2>3. CASE j # i
    <3>1. imports'[j] = [im EXCEPT !.calm = c[j]] /\ c[j] \in BOOLEAN
      BY <1>3, <2>3
    <3> HIDE DEF im
    <3>2. /\ imports'[j] \in Imports /\ imports'[j].doc = im.doc
          /\ imports'[j].list = im.list /\ imports'[j].at = im.at
      BY <2>1, <3>1 DEF Imports
    <3> QED
      BY <2>3, <3>2 DEF im
  <2> QED
    BY <2>2, <2>3
<1>6. imports' \in [Importers -> Imports]
  BY <1>3, <1>5
<1>7. \A j \in Importers : imports'[j].at <= Len(imports'[j].doc) + 1
  <2>1. imports[i].at \in 1 .. Len(imports[i].doc) /\ imports[i].doc \in Seq(Body)
    BY <1>1, <1>4 DEF Importing, Imports
  <2>2. imports[i].at + 1 <= Len(imports[i].doc) + 1
    BY <2>1
  <2>3. \A j \in Importers : imports[j].at <= Len(imports[j].doc) + 1
    BY Parts DEF ImportTypes
  <2> QED
    BY <1>5, <2>2, <2>3
<1>8. ListsOnce'
  BY <1>5, Parts DEF ImportTypes, ListsOnce
<1> QED
  BY <1>1, <1>2, <1>6, <1>7, <1>8, Parts
     DEF IInv, TypeOK, TableTypes, Table, CountTypes

LEMMA NextIInv == IInv /\ [Next]_vars => IInv'
<1> SUFFICES ASSUME IInv, [Next]_vars PROVE IInv'
  OBVIOUS
<1>1. CASE Start
  BY <1>1, StartIInv
<1>2. CASE Stop
  BY <1>2, StopIInv
<1>3. ASSUME NEW body \in Bodies,
             CreateRule(body) \/ \E r \in rules : UpdateRule(r, body)
      PROVE  IInv'
  BY <1>3, CreateIInv, UpdateIInv
<1>4. CASE \E r \in rules : DeleteRule(r)
  BY <1>4, DeleteIInv
<1>5. CASE ExportRules
  BY <1>5, ExportIInv
<1>6. ASSUME NEW i \in Importers, StartImport(i) \/ ImportRow(i) \/ AbortImport(i)
      PROVE  IInv'
  BY <1>6, StartImportIInv, RowIInv, AbortIInv
<1>7. CASE UNCHANGED vars
  BY <1>7 DEF vars, IInv, TypeOK, ListsOnce, Ids
<1> QED
  BY <1>1, <1>2, <1>3, <1>4, <1>5, <1>6, <1>7 DEF Next

\* The rules, the exported file and what the imports know keep their types, ids
\* are unique, and no import runs past the end of its file.
THEOREM TypeCorrect == Spec => []TypeOK
<1>1. IInv => TypeOK
  BY DEF IInv
<1> QED
  BY <1>1, InitIInv, NextIInv, PTL DEF Spec

-----------------------------------------------------------------------------
(* What an import leaves alone.                                            *)

\* One row of a file, under the rules its list knows.
LEMMA RowKeeps ==
  ASSUME IInv, NEW i \in Importers, ImportRow(i)
  PROVE  /\ Ids \subseteq {r.id : r \in rules'}
         /\ \A r \in rules \cap imports[i].list :
              \/ r \in rules'
              \/ \E n \in DOMAIN imports[i].doc : SameKey(imports[i].doc[n], r.body)
<1> DEFINE row == imports[i].doc[imports[i].at]
           match == {r.id : r \in {q \in imports[i].list :
                       LastUnderKey(q, imports[i].list) /\ KeyOf(q.body) = KeyOf(row)}}
           merged(r) == [r EXCEPT !.body.severity = row.severity,
                                  !.body.below = row.below,
                                  !.body.enabled = row.enabled]
<1>1. imports[i].at \in DOMAIN imports[i].doc
  <2>1. imports[i] \in Imports /\ imports[i].at \in 1 .. Len(imports[i].doc)
    BY Parts DEF ImportRow, Importing, ImportTypes
  <2>2. imports[i].doc \in Seq(Body)
    BY <2>1 DEF Imports
  <2> QED
    BY <2>1, <2>2
<1>2. \A r \in rules : r \in Rule
  BY Parts DEF TableTypes, Table
<1>3. CASE CreateFromRow(row)
  BY <1>3 DEF CreateFromRow, Insert, Ids
<1>4. CASE rules' = {IF r.id \notin match THEN r ELSE merged(r) : r \in rules}
  <2>1. \A r \in rules : merged(r).id = r.id
    BY <1>2 DEF Rule
  <2>2. ASSUME NEW r \in rules, r \in imports[i].list, r.id \in match
        PROVE  SameKey(row, r.body)
    <3>1. PICK q \in imports[i].list : q.id = r.id /\ KeyOf(q.body) = KeyOf(row)
      BY <2>2
    <3>2. q = r
      BY <2>2, <3>1 DEF IInv, ListsOnce
    <3> QED
      BY <3>1, <3>2 DEF KeyOf, SameKey
  <2> HIDE DEF match, merged
  <2>3. \A r \in rules : \E q \in rules' : q.id = r.id
    BY <1>4, <2>1
  <2>4. \A r \in rules : r.id \notin match => r \in rules'
    BY <1>4
  <2>5. Ids \subseteq {r.id : r \in rules'}
    BY <2>3 DEF Ids
  <2>6. ASSUME NEW r \in rules \cap imports[i].list
        PROVE  \/ r \in rules'
               \/ \E n \in DOMAIN imports[i].doc : SameKey(imports[i].doc[n], r.body)
    BY <1>1, <2>2, <2>4
  <2> QED
    BY <2>5, <2>6
<1> QED
  BY <1>3, <1>4 DEF ImportRow

\* However many imports run at once and whatever is edited meanwhile, an import
\* deletes no rule and leaves alone those its file does not speak of.
THEOREM ImportKeepsOthersHolds == Spec => ImportKeepsOthers
<1>1. IInv => [\A i \in Importers : ImportRow(i) =>
                /\ Ids \subseteq {r.id : r \in rules'}
                /\ \A r \in rules \cap imports[i].list :
                     \/ r \in rules'
                     \/ \E n \in DOMAIN imports[i].doc :
                          SameKey(imports[i].doc[n], r.body)]_vars
  BY RowKeeps
<1> QED
  BY <1>1, InitIInv, NextIInv, PTL DEF Spec, ImportKeepsOthers

-----------------------------------------------------------------------------
(* What an import restores.                                                *)

\* Row n of doc has its rule in the table, where a later import will find it,
\* unless one of the rows up to upto is about the same ports.
RowDone(doc, n, upto, table) ==
  \/ \E m \in n + 1 .. upto : SameKey(doc[m], doc[n])
  \/ \E r \in table : r.body = doc[n] /\ LastUnderKey(r, table)

\* A process that does not run imports nothing, and no list holds an id that
\* was not handed out.
ListsOld ==
  /\ ~ up => \A i \in Importers : imports[i] = NoImport
  /\ \A i \in Importers : \A r \in imports[i].list : r.id \in 1 .. serial

\* What the list of an undisturbed import still says of the table: the rules in
\* it keep their keys, and those that are not in it match other ports.
ListTrue(list) ==
  /\ \A r \in list : \E q \in rules : q.id = r.id /\ KeyOf(q.body) = KeyOf(r.body)
  /\ \A q \in rules :
       \/ \E r \in list : r.id = q.id
       \/ \A r \in list : r.id < q.id /\ KeyOf(r.body) # KeyOf(q.body)

\* How far such an import is: the rows before at are done, and only rules that
\* one of them finds are no longer as they were.
Undisturbed(i) ==
  imports[i].calm =>
    /\ imports[i].at >= 1
    /\ ListTrue(imports[i].list)
    /\ \A n \in 1 .. imports[i].at - 1 :
         RowDone(imports[i].doc, n, imports[i].at - 1, rules)
    /\ \A q \in rules, r \in imports[i].list :
         q.id = r.id =>
           \/ q = r
           \/ /\ LastUnderKey(r, imports[i].list)
              /\ \E n \in 1 .. imports[i].at - 1 : SameKey(imports[i].doc[n], r.body)

\* A second import of the same rows started on a table that had them all, so it
\* creates none.
Again(i) ==
  imports[i].again =>
    /\ \A n \in DOMAIN imports[i].doc :
         RowDone(imports[i].doc, n, Len(imports[i].doc), imports[i].list)
    /\ imports[i].calm => \A q \in rules : \E r \in imports[i].list : r.id = q.id

Restoring == ListsOld /\ \A i \in Importers : Undisturbed(i) /\ Again(i)

\* A set of numbers with a bound has a greatest.
LEMMA GreatestExists ==
  ASSUME NEW N \in Nat, NEW S \in SUBSET (0 .. N), S # {}
  PROVE  \E m \in S : \A k \in S : k <= m
<1> DEFINE T == {N - k : k \in S}
<1>1. T \subseteq Nat /\ T # {}
  <2>1. \A k \in S : N - k \in Nat
    OBVIOUS
  <2> QED
    BY <2>1
<1>2. PICK x \in T : \A y \in T : ~ (<<y, x>> \in OpToRel(<, Nat))
  <2> HIDE DEF T
  <2> QED
    BY <1>1, NatLessThanWellFounded, WFMin
<1>3. PICK m \in S : x = N - m
  OBVIOUS
<1>4. ASSUME NEW k \in S PROVE k <= m
  <2>1. N - k \in T /\ N - k \in Nat /\ x \in Nat
    BY <1>1
  <2>2. ~ (N - k < x)
    BY <1>2, <2>1 DEF OpToRel
  <2> QED
    BY <1>3, <2>2
<1> QED
  BY <1>4

\* The rows of a file about the same ports have a last one.
LEMMA LastRow ==
  ASSUME NEW doc \in Seq(Body), NEW n \in DOMAIN doc
  PROVE  \E m \in DOMAIN doc :
           SameKey(doc[m], doc[n]) /\ \A k \in m + 1 .. Len(doc) : ~ SameKey(doc[k], doc[m])
<1> DEFINE S == {m \in DOMAIN doc : SameKey(doc[m], doc[n])}
<1>1. Len(doc) \in Nat /\ DOMAIN doc = 1 .. Len(doc)
  OBVIOUS
<1>2. n \in S /\ S \in SUBSET (0 .. Len(doc))
  BY <1>1 DEF SameKey
<1>3. PICK m \in S : \A k \in S : k <= m
  <2> HIDE DEF S
  <2> QED
    BY <1>1, <1>2, GreatestExists
<1>4. ASSUME NEW k \in m + 1 .. Len(doc) PROVE ~ SameKey(doc[k], doc[m])
  BY <1>1, <1>3 DEF SameKey
<1> QED
  BY <1>4

\* So have the rules of a list.
LEMMA LastRule ==
  ASSUME NEW list, NEW N \in Nat, \A r \in list : r.id \in 1 .. N, NEW r \in list
  PROVE  \E q \in list : KeyOf(q.body) = KeyOf(r.body) /\ LastUnderKey(q, list)
<1> DEFINE like == {q \in list : KeyOf(q.body) = KeyOf(r.body)}
           S == {q.id : q \in like}
<1>1. S \in SUBSET (0 .. N) /\ r.id \in S
  OBVIOUS
<1>2. PICK m \in S : \A k \in S : k <= m
  <2> HIDE DEF S
  <2> QED
    BY <1>1, GreatestExists
<1>3. PICK q \in like : q.id = m
  OBVIOUS
<1>4. ASSUME NEW p \in list, KeyOf(p.body) = KeyOf(q.body) PROVE p.id <= q.id
  BY <1>2, <1>3, <1>4
<1> QED
  BY <1>3, <1>4 DEF LastUnderKey

\* One row of an undisturbed import: a rule with a new key, or the rule of the
\* list that is last under the key becomes what the row says.
LEMMA RowShape ==
  ASSUME IInv, ListsOld, NEW i \in Importers, ImportRow(i), ListTrue(imports[i].list)
  PROVE  LET list == imports[i].list
             row == imports[i].doc[imports[i].at] IN
         /\ imports[i].at \in DOMAIN imports[i].doc /\ row \in Body
         /\ \/ /\ \A r \in list : KeyOf(r.body) # KeyOf(row)
               /\ rules' = rules \cup {[id |-> serial + 1, body |-> row]}
               /\ serial' = serial + 1
            \/ \E x \in list, y \in rules :
                 /\ LastUnderKey(x, list) /\ KeyOf(x.body) = KeyOf(row)
                 /\ y.id = x.id /\ KeyOf(y.body) = KeyOf(row)
                 /\ rules' = (rules \ {y}) \cup {[id |-> y.id, body |-> row]}
                 /\ serial' = serial
<1> DEFINE list == imports[i].list
           row == imports[i].doc[imports[i].at]
           lasts == {q \in list : LastUnderKey(q, list) /\ KeyOf(q.body) = KeyOf(row)}
           match == {r.id : r \in lasts}
           merged(r) == [r EXCEPT !.body.severity = row.severity,
                                  !.body.below = row.below,
                                  !.body.enabled = row.enabled]
<1>1. imports[i].at \in DOMAIN imports[i].doc
  <2>1. imports[i] \in Imports /\ imports[i].at \in 1 .. Len(imports[i].doc)
    BY Parts DEF ImportRow, Importing, ImportTypes
  <2>2. imports[i].doc \in Seq(Body)
    BY <2>1 DEF Imports
  <2> QED
    BY <2>1, <2>2
<1>2. row \in Body /\ list \subseteq Rule
  BY <1>1, Parts DEF ImportTypes, Imports
<1>3. /\ rules \subseteq Rule /\ \A q, r \in rules : q.id = r.id => q = r
      /\ \A q, r \in list : q.id = r.id => q = r
      /\ serial \in Nat /\ \A r \in list : r.id \in 1 .. serial
  BY DEF IInv, TypeOK, ListsOnce, ListsOld
<1>4. \/ match = {} /\ CreateFromRow(row)
      \/ /\ match # {}
         /\ rules' = {IF r.id \notin match THEN r ELSE merged(r) : r \in rules}
         /\ serial' = serial
  BY DEF ImportRow
<1> HIDE DEF row, list
<1>5. CASE match = {} /\ CreateFromRow(row)
  <2>1. ASSUME NEW r \in list, KeyOf(r.body) = KeyOf(row) PROVE FALSE
    <3>1. PICK q \in list : KeyOf(q.body) = KeyOf(r.body) /\ LastUnderKey(q, list)
      BY <1>3, LastRule
    <3>2. q.id \in match
      BY <2>1, <3>1
    <3> QED
      BY <1>5, <3>2
  <2> QED
    BY <1>1, <1>2, <1>5, <2>1 DEF CreateFromRow, Insert, row, list
<1>6. CASE /\ match # {}
           /\ rules' = {IF r.id \notin match THEN r ELSE merged(r) : r \in rules}
           /\ serial' = serial
  <2>1. PICK x \in list : LastUnderKey(x, list) /\ KeyOf(x.body) = KeyOf(row)
    BY <1>6
  <2>2. match = {x.id}
    <3>1. x.id \in match
      BY <2>1
    <3>2. ASSUME NEW z \in lasts PROVE z.id = x.id
      <4>1. z.id \in Nat /\ x.id \in Nat /\ z.id <= x.id /\ x.id <= z.id
        BY <1>2, <2>1 DEF LastUnderKey, Rule
      <4> QED
        BY <4>1
    <3> QED
      BY <3>1, <3>2
  <2>3. PICK y \in rules : y.id = x.id /\ KeyOf(y.body) = KeyOf(row)
    BY <2>1 DEF ListTrue, list
  <2>4. merged(y) = [id |-> y.id, body |-> row]
    <3>1. y \in Rule /\ y.body.port = row.port /\ y.body.service = row.service
      BY <1>3, <2>3 DEF KeyOf
    <3> DEFINE body == [y.body EXCEPT !.severity = row.severity, !.below = row.below,
                                      !.enabled = row.enabled]
    <3>2. body = row
      BY <1>2, <3>1 DEF Rule, Body
    <3>3. merged(y) = [y EXCEPT !.body = body]
      BY <3>1 DEF Rule, Body
    <3> HIDE DEF merged, body
    <3> QED
      BY <3>1, <3>2, <3>3 DEF Rule
  <2>5. \A r \in rules : r.id \in match <=> r = y
    BY <1>3, <2>2, <2>3
  <2> HIDE DEF match, merged
  <2>6. rules' = (rules \ {y}) \cup {merged(y)}
    BY <1>6, <2>5
  <2> QED
    BY <1>1, <1>2, <1>6, <2>1, <2>3, <2>4, <2>6 DEF row, list
<1> QED
  BY <1>4, <1>5, <1>6

\* A step of import i leaves the others as they are, but for their calm.
LEMMA RowAdvances ==
  ASSUME IInv, NEW i \in Importers, ImportRow(i), NEW j \in Importers
  PROVE  /\ imports'[j].doc = imports[j].doc /\ imports'[j].list = imports[j].list
         /\ imports'[j].again = imports[j].again
         /\ j = i => imports'[j].at = imports[j].at + 1 /\ imports'[j].calm = imports[j].calm
         /\ j # i => /\ imports'[j].at = imports[j].at
                     /\ imports'[j].calm => imports[j].calm /\ rules' = rules
<1> DEFINE calm == imports[j].calm /\ rules' = rules
<1>1. imports[j] \in Imports
  BY DEF IInv, TypeOK
<1>2. CASE j = i
  <2>1. imports'[j] = [imports[j] EXCEPT !.at = @ + 1]
    BY <1>2 DEF ImportRow
  <2> QED
    BY <1>1, <1>2, <2>1 DEF Imports
<1>3. CASE j # i
  <2>1. imports'[j] = [imports[j] EXCEPT !.calm = calm]
    BY <1>3 DEF ImportRow
  <2>2. calm => imports[j].calm /\ rules' = rules
    OBVIOUS
  <2> HIDE DEF calm
  <2> QED
    BY <1>1, <1>3, <2>1, <2>2 DEF Imports
<1> QED
  BY <1>2, <1>3

\* A rule that the list knows as last under its key is so in the table.
LEMMA LastStays ==
  ASSUME IInv, NEW list, ListTrue(list), \A q, r \in list : q.id = r.id => q = r,
         NEW x \in list, LastUnderKey(x, list), NEW q \in rules, KeyOf(q.body) = KeyOf(x.body)
  PROVE  q.id <= x.id
<1>1. PICK r \in list : r.id = q.id
  BY DEF ListTrue
<1>2. PICK p \in rules : p.id = r.id /\ KeyOf(p.body) = KeyOf(r.body)
  BY DEF ListTrue
<1>3. p = q
  BY <1>1, <1>2 DEF IInv, TypeOK
<1> QED
  BY <1>1, <1>2, <1>3 DEF LastUnderKey

\* A row the list has no rule for.
LEMMA CreatedRow ==
  ASSUME IInv, ListsOld, NEW i \in Importers, ImportRow(i), Undisturbed(i),
         imports[i].calm, NEW row, row = imports[i].doc[imports[i].at],
         imports[i].at \in DOMAIN imports[i].doc, row \in Body,
         \A r \in imports[i].list : KeyOf(r.body) # KeyOf(row),
         rules' = rules \cup {[id |-> serial + 1, body |-> row]}
  PROVE  Undisturbed(i)'
<1> DEFINE new == [id |-> serial + 1, body |-> row]
           list == imports[i].list
           doc == imports[i].doc
           k == imports[i].at
<1>1. /\ imports'[i].doc = doc /\ imports'[i].list = list /\ imports'[i].at = k + 1
      /\ k \in Nat /\ k >= 1 /\ k + 1 - 1 = k
  BY RowAdvances DEF IInv, TypeOK, Imports, Undisturbed
<1>2. /\ rules' = rules \cup {new} /\ new.id = serial + 1 /\ new.body = row
      /\ serial \in Nat /\ rules \subseteq Rule
      /\ \A r \in rules : r.id \in 1 .. serial
      /\ \A r \in list : r.id \in 1 .. serial
  BY DEF IInv, TypeOK, Ids, ListsOld
<1> HIDE DEF new
<1>3. ListTrue(imports[i].list)'
  <2>1. ListTrue(list)
    BY DEF Undisturbed
  <2>2. \A r \in list : r.id < new.id /\ KeyOf(r.body) # KeyOf(new.body)
    BY <1>2
  <2> QED
    BY <1>1, <1>2, <2>1, <2>2 DEF ListTrue
<1>4. ASSUME NEW n \in 1 .. k PROVE RowDone(doc, n, k, rules')
  <2>1. CASE n = k
    <3>1. LastUnderKey(new, rules')
      BY <1>2 DEF LastUnderKey
    <3> QED
      BY <1>2, <2>1, <3>1 DEF RowDone
  <2>2. CASE n # k /\ SameKey(row, doc[n])
    BY <1>1, <2>2 DEF RowDone
  <2>3. CASE n # k /\ ~ SameKey(row, doc[n])
    <3>1. RowDone(doc, n, k - 1, rules)
      BY <1>1, <2>3 DEF Undisturbed
    <3>2. CASE \E m \in n + 1 .. k - 1 : SameKey(doc[m], doc[n])
      BY <1>1, <3>2 DEF RowDone
    <3>3. ASSUME NEW r \in rules, r.body = doc[n], LastUnderKey(r, rules)
          PROVE  r \in rules' /\ LastUnderKey(r, rules')
      <4>1. KeyOf(new.body) # KeyOf(r.body)
        BY <1>2, <2>3, <3>3 DEF KeyOf, SameKey
      <4> QED
        BY <1>2, <3>3, <4>1 DEF LastUnderKey
    <3> QED
      BY <3>1, <3>2, <3>3 DEF RowDone
  <2> QED
    BY <2>1, <2>2, <2>3
<1>5. ASSUME NEW q \in rules', NEW r \in list, q.id = r.id
      PROVE  \/ q = r
             \/ LastUnderKey(r, list) /\ \E n \in 1 .. k : SameKey(doc[n], r.body)
  <2>1. q \in rules
    BY <1>2, <1>5
  <2> QED
    BY <1>1, <1>5, <2>1 DEF Undisturbed
<1>6. imports'[i].at - 1 = k
  BY <1>1
<1>7. \A n \in 1 .. imports'[i].at - 1 :
        RowDone(imports'[i].doc, n, imports'[i].at - 1, rules')
  BY <1>1, <1>4, <1>6, Zenon
<1>8. \A q \in rules', r \in imports'[i].list :
        q.id = r.id =>
          \/ q = r
          \/ /\ LastUnderKey(r, imports'[i].list)
             /\ \E n \in 1 .. imports'[i].at - 1 : SameKey(imports'[i].doc[n], r.body)
  BY <1>1, <1>5, <1>6, Zenon
<1>9. imports'[i].at >= 1
  BY <1>1
<1> QED
  BY <1>3, <1>7, <1>8, <1>9 DEF Undisturbed

\* A row merged into the rule the list has for it.
LEMMA MergedRow ==
  ASSUME IInv, ListsOld, NEW i \in Importers, ImportRow(i), Undisturbed(i),
         imports[i].calm, NEW row, row = imports[i].doc[imports[i].at],
         imports[i].at \in DOMAIN imports[i].doc, row \in Body,
         NEW x \in imports[i].list, NEW y \in rules,
         LastUnderKey(x, imports[i].list), KeyOf(x.body) = KeyOf(row),
         y.id = x.id, KeyOf(y.body) = KeyOf(row),
         rules' = (rules \ {y}) \cup {[id |-> y.id, body |-> row]}
  PROVE  Undisturbed(i)'
<1> DEFINE z == [id |-> y.id, body |-> row]
           list == imports[i].list
           doc == imports[i].doc
           k == imports[i].at
<1>1. /\ imports'[i].doc = doc /\ imports'[i].list = list /\ imports'[i].at = k + 1
      /\ k \in Nat /\ k >= 1 /\ k + 1 - 1 = k
  BY RowAdvances DEF IInv, TypeOK, Imports, Undisturbed
<1>2. /\ rules' = (rules \ {y}) \cup {z} /\ z.id = y.id /\ z.body = row
      /\ KeyOf(z.body) = KeyOf(y.body)
      /\ \A q, r \in rules : q.id = r.id => q = r
      /\ \A q, r \in list : q.id = r.id => q = r
      /\ ListTrue(list)
  BY DEF IInv, TypeOK, ListsOnce, Undisturbed
<1> HIDE DEF z
<1>3. ListTrue(imports[i].list)'
  BY <1>1, <1>2 DEF ListTrue
<1>4. ASSUME NEW n \in 1 .. k PROVE RowDone(doc, n, k, rules')
  <2>1. CASE n = k
    <3>1. ASSUME NEW q \in rules', KeyOf(q.body) = KeyOf(z.body) PROVE q.id <= z.id
      <4>1. CASE q = z
        <5>1. y.id \in Nat
          BY DEF IInv, TypeOK, Rule
        <5> QED
          BY <1>2, <4>1, <5>1
      <4>2. CASE q # z
        BY <1>2, <3>1, <4>2, LastStays
      <4> QED
        BY <4>1, <4>2
    <3> QED
      BY <1>2, <2>1, <3>1 DEF RowDone, LastUnderKey
  <2>2. CASE n # k /\ SameKey(row, doc[n])
    BY <1>1, <2>2 DEF RowDone
  <2>3. CASE n # k /\ ~ SameKey(row, doc[n])
    <3>1. RowDone(doc, n, k - 1, rules)
      BY <1>1, <2>3 DEF Undisturbed
    <3>2. CASE \E m \in n + 1 .. k - 1 : SameKey(doc[m], doc[n])
      BY <1>1, <3>2 DEF RowDone
    <3>3. ASSUME NEW r \in rules, r.body = doc[n], LastUnderKey(r, rules)
          PROVE  r \in rules' /\ LastUnderKey(r, rules')
      <4>1. r # y
        BY <2>3, <3>3 DEF KeyOf, SameKey
      <4> QED
        BY <1>2, <3>3, <4>1 DEF LastUnderKey
    <3> QED
      BY <3>1, <3>2, <3>3 DEF RowDone
  <2> QED
    BY <2>1, <2>2, <2>3
<1>5. ASSUME NEW q \in rules', NEW r \in list, q.id = r.id
      PROVE  \/ q = r
             \/ LastUnderKey(r, list) /\ \E n \in 1 .. k : SameKey(doc[n], r.body)
  <2>1. CASE q = z
    <3>1. r = x
      BY <1>2, <1>5, <2>1
    <3>2. SameKey(doc[k], r.body) /\ LastUnderKey(r, list)
      BY <3>1 DEF KeyOf, SameKey
    <3>3. k \in 1 .. k
      BY <1>1
    <3> QED
      BY <3>2, <3>3
  <2>2. CASE q # z
    BY <1>1, <1>2, <1>5, <2>2 DEF Undisturbed
  <2> QED
    BY <2>1, <2>2
<1>6. imports'[i].at - 1 = k
  BY <1>1
<1>7. \A n \in 1 .. imports'[i].at - 1 :
        RowDone(imports'[i].doc, n, imports'[i].at - 1, rules')
  BY <1>1, <1>4, <1>6, Zenon
<1>8. \A q \in rules', r \in imports'[i].list :
        q.id = r.id =>
          \/ q = r
          \/ /\ LastUnderKey(r, imports'[i].list)
             /\ \E n \in 1 .. imports'[i].at - 1 : SameKey(imports'[i].doc[n], r.body)
  BY <1>1, <1>5, <1>6, Zenon
<1>9. imports'[i].at >= 1
  BY <1>1
<1> QED
  BY <1>3, <1>7, <1>8, <1>9 DEF Undisturbed

LEMMA RowRestoring ==
  ASSUME IInv, Restoring, NEW i \in Importers, ImportRow(i)
  PROVE  Restoring'
<1> DEFINE list == imports[i].list
           doc == imports[i].doc
           row == imports[i].doc[imports[i].at]
<1>1. up' = up /\ up /\ serial \in Nat /\ serial' \in {serial, serial + 1}
  BY DEF ImportRow, CreateFromRow, Insert, IInv, TypeOK
<1>2. ListsOld'
  BY <1>1, RowAdvances DEF Restoring, ListsOld
<1>3. ASSUME NEW j \in Importers, j # i PROVE Undisturbed(j)' /\ Again(j)'
  BY <1>3, RowAdvances DEF Restoring, Undisturbed, Again, ListTrue
<1>4. ~ imports[i].calm => Undisturbed(i)' /\ Again(i)'
  BY RowAdvances DEF Restoring, Undisturbed, Again
<1>5. ASSUME imports[i].calm PROVE Undisturbed(i)' /\ Again(i)'
  <2>1. Undisturbed(i) /\ ListsOld /\ ListTrue(list)
    BY <1>5 DEF Restoring, Undisturbed
  <2>2. imports[i].at \in DOMAIN doc /\ row \in Body
    BY <2>1, RowShape
  <2>3. CASE /\ \A r \in list : KeyOf(r.body) # KeyOf(row)
             /\ rules' = rules \cup {[id |-> serial + 1, body |-> row]}
    <3>1. Undisturbed(i)'
      BY <1>5, <2>1, <2>2, <2>3, CreatedRow
    <3>2. ~ imports[i].again
      <4>1. doc \in Seq(Body)
        BY DEF IInv, TypeOK, Imports
      <4>2. PICK m \in DOMAIN doc :
              /\ SameKey(doc[m], row)
              /\ \A k \in m + 1 .. Len(doc) : ~ SameKey(doc[k], doc[m])
        BY <2>2, <4>1, LastRow
      <4>3. ~ RowDone(doc, m, Len(doc), list)
        BY <2>3, <4>2 DEF RowDone, SameKey, KeyOf
      <4> QED
        BY <4>3 DEF Restoring, Again
    <3> QED
      BY <3>1, <3>2, RowAdvances DEF Again
  <2>4. ASSUME NEW x \in list, NEW y \in rules,
               LastUnderKey(x, list), KeyOf(x.body) = KeyOf(row),
               y.id = x.id, KeyOf(y.body) = KeyOf(row),
               rules' = (rules \ {y}) \cup {[id |-> y.id, body |-> row]}
        PROVE  Undisturbed(i)' /\ Again(i)'
    <3>1. Undisturbed(i)'
      BY <1>5, <2>1, <2>2, <2>4, MergedRow
    <3>2. imports[i].again => \A q \in rules' : \E r \in list : r.id = q.id
      BY <1>5, <2>4 DEF Restoring, Again
    <3> QED
      BY <3>1, <3>2, RowAdvances DEF Restoring, Again
  <2> QED
    BY <2>1, <2>3, <2>4, RowShape
<1> QED
  BY <1>2, <1>3, <1>4, <1>5 DEF Restoring

\* At its end every row is done.
LEMMA FinishedDone ==
  ASSUME IInv, Restoring, NEW i \in Importers, Finished(i), imports[i].calm,
         NEW n \in DOMAIN imports[i].doc
  PROVE  RowDone(imports[i].doc, n, Len(imports[i].doc), rules)
<1>1. imports[i].doc \in Seq(Body)
  BY DEF IInv, TypeOK, Imports
<1>2. imports[i].at - 1 = Len(imports[i].doc) /\ n \in 1 .. Len(imports[i].doc)
  BY <1>1 DEF Finished
<1> QED
  BY <1>2, Zenon DEF Restoring, Undisturbed

LEMMA InitRestoring == Init => Restoring
  BY DEF Init, Restoring, ListsOld, Undisturbed, Again, NoImport

LEMMA StartImportRestoring ==
  ASSUME IInv, Restoring, NEW i \in Importers, StartImport(i)
  PROVE  Restoring'
<1>1. PICK a \in BOOLEAN :
        /\ imports' = [imports EXCEPT ![i] =
             [at |-> 1, doc |-> file, list |-> rules, calm |-> TRUE, again |-> a]]
        /\ a => \E j \in Importers :
                  Finished(j) /\ imports[j].calm /\ imports[j].doc = file
  <2> DEFINE a == \E j \in Importers :
                    Finished(j) /\ imports[j].calm /\ imports[j].doc = file
  <2>1. a \in BOOLEAN
    BY Zenon
  <2>2. imports' = [imports EXCEPT ![i] =
          [at |-> 1, doc |-> file, list |-> rules, calm |-> TRUE, again |-> a]]
    BY DEF StartImport
  <2> QED
    BY <2>1, <2>2, Zenon
<1>2. /\ imports'[i].at = 1 /\ imports'[i].doc = file /\ imports'[i].list = rules
      /\ imports'[i].again = a
      /\ \A j \in Importers : j # i => imports'[j] = imports[j]
  BY <1>1 DEF IInv, TypeOK
<1>3. up /\ up' = up /\ rules' = rules /\ serial' = serial
      /\ \A r \in rules : r.id \in 1 .. serial
  BY DEF StartImport, IInv, TypeOK, Ids
<1>4. ListsOld'
  BY <1>2, <1>3 DEF Restoring, ListsOld
<1>5. ASSUME NEW j \in Importers, j # i PROVE Undisturbed(j)' /\ Again(j)'
  BY <1>2, <1>3, <1>5 DEF Restoring, Undisturbed, Again, ListTrue
<1>6. Undisturbed(i)'
  <2>1. ListTrue(imports[i].list)'
    BY <1>2, <1>3 DEF ListTrue
  <2>2. \A q, r \in rules : q.id = r.id => q = r
    BY DEF IInv, TypeOK
  <2> QED
    BY <1>2, <1>3, <2>1, <2>2 DEF Undisturbed
<1>7. Again(i)'
  <2>1. ASSUME a, NEW n \in DOMAIN file PROVE RowDone(file, n, Len(file), rules)
    BY <1>1, <2>1, FinishedDone
  <2> QED
    BY <1>2, <1>3, <2>1 DEF Again
<1> QED
  BY <1>4, <1>5, <1>6, <1>7 DEF Restoring

LEMMA NextRestoring == IInv /\ Restoring /\ [Next]_vars => Restoring'
<1> SUFFICES ASSUME IInv, Restoring, [Next]_vars PROVE Restoring'
  OBVIOUS
<1>1. CASE Start
  <2>1. \A i \in Importers : imports[i] = NoImport /\ imports'[i] = NoImport
    BY <1>1 DEF Start, Restoring, ListsOld
  <2> QED
    BY <2>1 DEF Restoring, ListsOld, Undisturbed, Again, NoImport
<1>2. CASE Stop
  BY <1>2 DEF Stop, Restoring, ListsOld, Undisturbed, Again, NoImport
<1>3. ASSUME Edit, serial' \in {serial, serial + 1} PROVE Restoring'
  <2>1. up /\ up' = up /\ serial \in Nat
    BY <1>3 DEF Edit, IInv, TypeOK
  <2>2. ASSUME NEW i \in Importers
        PROVE  /\ ~ imports'[i].calm /\ imports'[i].list = imports[i].list
               /\ imports'[i].doc = imports[i].doc /\ imports'[i].again = imports[i].again
    <3>1. imports[i] \in Imports /\ imports'[i] = [imports[i] EXCEPT !.calm = FALSE]
      BY <1>3 DEF Edit, Unsettle, IInv, TypeOK
    <3> QED
      BY <3>1 DEF Imports
  <2>3. ListsOld'
    BY <1>3, <2>1, <2>2 DEF Restoring, ListsOld
  <2>4. ASSUME NEW i \in Importers PROVE Undisturbed(i)' /\ Again(i)'
    BY <2>2 DEF Restoring, Undisturbed, Again
  <2> QED
    BY <2>3, <2>4 DEF Restoring
<1>4. ASSUME NEW body \in Bodies,
             CreateRule(body) \/ \E r \in rules : UpdateRule(r, body)
      PROVE  Restoring'
  BY <1>3, <1>4 DEF CreateRule, UpdateRule, Insert
<1>5. CASE \E r \in rules : DeleteRule(r)
  BY <1>3, <1>5 DEF DeleteRule
<1>6. CASE ExportRules \/ UNCHANGED vars
  BY <1>6 DEF ExportRules, vars, Restoring, ListsOld, Undisturbed, Again, ListTrue
<1>7. ASSUME NEW i \in Importers, AbortImport(i) PROVE Restoring'
  <2>1. /\ up' = up /\ up /\ serial' = serial /\ rules' = rules
        /\ imports'[i] = NoImport
        /\ \A j \in Importers : j # i => imports'[j] = imports[j]
    BY <1>7 DEF AbortImport, IInv, TypeOK
  <2>2. ListsOld'
    BY <2>1 DEF Restoring, ListsOld, NoImport
  <2>3. ASSUME NEW j \in Importers PROVE Undisturbed(j)' /\ Again(j)'
    <3>1. CASE j = i
      BY <2>1, <3>1 DEF Undisturbed, Again, NoImport
    <3>2. CASE j # i
      BY <2>1, <3>2 DEF Restoring, Undisturbed, Again, ListTrue
    <3> QED
      BY <3>1, <3>2
  <2> QED
    BY <2>2, <2>3 DEF Restoring
<1> QED
  BY <1>1, <1>2, <1>4, <1>5, <1>6, <1>7, StartImportRestoring, RowRestoring DEF Next

LEMMA RestoringHolds == Spec => [](IInv /\ Restoring)
  BY InitIInv, NextIInv, InitRestoring, NextRestoring, PTL DEF Spec

\* An import nobody disturbs leaves the rules of its file in the table, on or off,
\* each as the last row about its ports says, where a later import finds it
\* (createRiskRuleFromImport, importRiskRules).
THEOREM RulesRestoredHolds == Spec => []RulesRestored
<1>1. IInv /\ Restoring => RulesRestored
  <2> SUFFICES ASSUME IInv, Restoring, NEW i \in Importers, Finished(i), imports[i].calm,
                      NEW n \in DOMAIN imports[i].doc
               PROVE  \/ \E m \in n + 1 .. Len(imports[i].doc) :
                           SameKey(imports[i].doc[m], imports[i].doc[n])
                      \/ \E r \in rules :
                           /\ r.body = imports[i].doc[n]
                           /\ \A q \in rules : SameKey(q.body, r.body) => q.id <= r.id
    BY DEF RulesRestored
  <2> QED
    BY FinishedDone DEF RowDone, LastUnderKey, KeyOf, SameKey
<1> QED
  BY <1>1, RestoringHolds, PTL

\* The same file imported again changes nothing, whatever rules share a key and
\* although the list is read once (importRiskRules).
THEOREM ReimportStableHolds == Spec => []ReimportStable
<1>1. IInv /\ Restoring => ReimportStable
  <2> SUFFICES ASSUME IInv, Restoring, NEW i \in Importers, Finished(i),
                      imports[i].calm, imports[i].again
               PROVE  rules = imports[i].list
    BY DEF ReimportStable
  <2> DEFINE list == imports[i].list
             doc == imports[i].doc
  <2>1. doc \in Seq(Body) /\ imports[i].at - 1 = Len(doc)
    BY DEF IInv, TypeOK, Imports, Finished
  <2>2. /\ \A q, r \in rules : q.id = r.id => q = r
        /\ \A q, r \in list : q.id = r.id => q = r
        /\ rules \subseteq Rule /\ list \subseteq Rule
        /\ ListTrue(list) /\ \A q \in rules : \E r \in list : r.id = q.id
    BY DEF IInv, TypeOK, Imports, ListsOnce, Restoring, Undisturbed, Again
  <2>3. ASSUME NEW q \in rules, NEW r \in list, q.id = r.id PROVE q = r
    <3> SUFFICES ASSUME q # r PROVE FALSE
      OBVIOUS
    <3>1. PICK n \in DOMAIN doc : SameKey(doc[n], r.body)
      BY <2>1, <2>3 DEF Restoring, Undisturbed
    <3>2. PICK m \in DOMAIN doc :
            /\ SameKey(doc[m], doc[n])
            /\ \A k \in m + 1 .. Len(doc) : ~ SameKey(doc[k], doc[m])
      BY <2>1, LastRow
    <3>3. PICK x \in list : x.body = doc[m] /\ LastUnderKey(x, list)
      BY <3>2 DEF Restoring, Again, RowDone
    <3>4. PICK y \in rules : y.body = doc[m] /\ LastUnderKey(y, rules)
      BY <3>2, FinishedDone DEF RowDone
    <3>5. KeyOf(q.body) = KeyOf(r.body) /\ KeyOf(r.body) = KeyOf(x.body)
          /\ KeyOf(y.body) = KeyOf(x.body)
      <4>1. PICK p \in rules : p.id = r.id /\ KeyOf(p.body) = KeyOf(r.body)
        BY <2>2 DEF ListTrue
      <4>2. p = q
        BY <2>2, <2>3, <4>1
      <4> QED
        BY <3>1, <3>2, <3>3, <3>4, <4>1, <4>2 DEF KeyOf, SameKey
    <3>6. y.id = x.id
      <4>1. y.id <= x.id
        BY <2>2, <3>3, <3>5, LastStays
      <4>2. PICK p \in rules : p.id = x.id /\ KeyOf(p.body) = KeyOf(x.body)
        BY <2>2 DEF ListTrue
      <4>3. x.id <= y.id
        BY <3>4, <3>5, <4>2 DEF LastUnderKey
      <4>4. x.id \in Nat /\ y.id \in Nat
        BY <2>2 DEF Rule
      <4> QED
        BY <4>1, <4>3, <4>4
    <3>7. x = y
      BY <2>2, <3>3, <3>4, <3>6 DEF Rule
    <3>8. LastUnderKey(r, list)
      BY <2>3 DEF Restoring, Undisturbed
    <3>9. x = r
      <4>1. x.id <= r.id /\ r.id <= x.id /\ x.id \in Nat /\ r.id \in Nat
        BY <2>2, <3>3, <3>5, <3>8 DEF LastUnderKey, Rule
      <4> QED
        BY <2>2, <4>1
    <3> QED
      BY <2>2, <2>3, <3>7, <3>9
  <2>4. \A r \in list : r \in rules
    BY <2>2, <2>3 DEF ListTrue
  <2>5. \A q \in rules : q \in list
    BY <2>2, <2>3
  <2> QED
    BY <2>4, <2>5
<1> QED
  BY <1>1, RestoringHolds, PTL

-----------------------------------------------------------------------------
(* Folds.  A fold over a sequence goes through its first k elements.        *)

LEMMA LeastExists ==
  ASSUME NEW S \in SUBSET Nat, S # {}
  PROVE  \E m \in S : \A k \in S : m <= k
<1>1. \E m \in S : \A k \in S : ~ (k < m)
  <2>1. PICK m \in S : \A k \in S : ~ (<<k, m>> \in OpToRel(<, Nat))
    BY NatLessThanWellFounded, WFMin
  <2>2. ASSUME NEW k \in S PROVE ~ (k < m)
    BY <2>1 DEF OpToRel
  <2> QED
    BY <2>2, Zenon
<1> QED
  BY <1>1

LEMMA MaxIs ==
  ASSUME NEW n \in Nat, NEW X \in SUBSET (1 .. n), X # {}
  PROVE  Max(X) \in X /\ \A k \in X : k <= Max(X)
<1>1. \E m \in X : \A k \in X : m >= k
  <2>1. PICK m \in X : \A k \in X : k <= m
    <3>1. X \in SUBSET (0 .. n)
      OBVIOUS
    <3> QED
      BY <3>1, GreatestExists
  <2>2. \A k \in X : m >= k
    BY <2>1
  <2> QED
    BY <2>2
<1>2. Max(X) \in X /\ \A k \in X : Max(X) >= k
  BY <1>1 DEF Max
<1> QED
  BY <1>2

LEMMA MaxOfPrefix ==
  ASSUME NEW k \in Nat \ {0} PROVE Max(1 .. k) = k /\ (1 .. k) \ {k} = 1 .. k - 1
<1>1. Max(1 .. k) \in 1 .. k /\ k <= Max(1 .. k)
  <2>1. k \in 1 .. k /\ 1 .. k \in SUBSET (1 .. k) /\ 1 .. k # {}
    OBVIOUS
  <2> QED
    BY <2>1, MaxIs
<1> QED
  BY <1>1

\* How FoldLeft goes through the numbers up to n: what it makes of a set is the
\* step for its greatest element after what it makes of the others.
FoldsSets(T, base, n, step, iter) ==
  /\ iter \in [SUBSET (1 .. n) -> T]
  /\ \A X \in SUBSET (1 .. n) :
       iter[X] = IF X = {} THEN base ELSE step[<<Max(X), iter[X \ {Max(X)}]>>]

\* Such a fold exists: each number adds the sets that end with it.
LEMMA FoldExists ==
  ASSUME NEW T, NEW base \in T, NEW n \in Nat, NEW step \in [(1 .. n) \X T -> T]
  PROVE  \E iter : FoldsSets(T, base, n, step, iter)
<1> DEFINE Folds(k, iter) == FoldsSets(T, base, k, step, iter)
           Bad == {k \in 0 .. n : \A iter : ~ Folds(k, iter)}
<1>1. \E iter : Folds(0, iter)
  <2> DEFINE iter == [X \in SUBSET (1 .. 0) |-> base]
  <2>1. Folds(0, iter)
    BY DEF FoldsSets
  <2> QED
    BY <2>1
<1>2. ASSUME NEW k \in 0 .. n - 1, NEW old, Folds(k, old)
      PROVE  \E iter : Folds(k + 1, iter)
  <2> DEFINE top == k + 1
             iter == [X \in SUBSET (1 .. top) |->
                        IF top \in X THEN step[<<top, old[X \ {top}]>>] ELSE old[X]]
  <2>1. top \in 1 .. n /\ k \in Nat
    OBVIOUS
  <2>2. ASSUME NEW X \in SUBSET (1 .. top), top \in X
        PROVE  /\ X \ {top} \in SUBSET (1 .. k) /\ Max(X) = top
               /\ iter[X] = step[<<top, old[X \ {top}]>>] /\ iter[X] \in T
               /\ iter[X \ {top}] = old[X \ {top}]
    <3>1. X \ {top} \in SUBSET (1 .. k)
      BY <2>1
    <3>2. Max(X) = top
      <4>1. Max(X) \in X /\ top <= Max(X)
        BY <2>1, <2>2, MaxIs
      <4>2. Max(X) \in 1 .. top
        BY <4>1
      <4> HIDE DEF top
      <4> QED
        BY <2>1, <4>1, <4>2
    <3>3. old[X \ {top}] \in T
      BY <1>2, <3>1 DEF FoldsSets
    <3> QED
      BY <2>1, <2>2, <3>1, <3>2, <3>3
  <2>3. ASSUME NEW X \in SUBSET (1 .. top), top \notin X
        PROVE  /\ X \in SUBSET (1 .. k) /\ iter[X] = old[X] /\ iter[X] \in T
               /\ X # {} => /\ Max(X) \in X
                            /\ iter[X \ {Max(X)}] = old[X \ {Max(X)}]
    <3>1. X \in SUBSET (1 .. k)
      BY <2>1, <2>3
    <3>2. X # {} => Max(X) \in X
      BY <2>1, <3>1, MaxIs
    <3> QED
      BY <1>2, <2>3, <3>1, <3>2 DEF FoldsSets
  <2>4. iter \in [SUBSET (1 .. top) -> T]
    BY <2>2, <2>3
  <2>5. ASSUME NEW X \in SUBSET (1 .. top)
        PROVE  iter[X] = IF X = {} THEN base ELSE step[<<Max(X), iter[X \ {Max(X)}]>>]
    <3>1. CASE top \in X
      <4> HIDE DEF iter
      <4> QED
        BY <2>2, <3>1
    <3>2. CASE top \notin X
      <4> HIDE DEF iter
      <4> QED
        BY <1>2, <2>3, <3>2 DEF FoldsSets
    <3> QED
      BY <3>1, <3>2
  <2> HIDE DEF iter
  <2>6. Folds(k + 1, iter)
    BY <2>4, <2>5 DEF FoldsSets
  <2> QED
    BY <2>6
<1>3. \E iter : Folds(n, iter)
  <2>0. n \in 0 .. n
    OBVIOUS
  <2> SUFFICES ASSUME Bad # {} PROVE FALSE
    <3> HIDE DEF Folds
    <3> QED
      BY <2>0
  <2>1. PICK m \in Bad : \A k \in Bad : m <= k
    <3> HIDE DEF Folds
    <3>1. Bad \in SUBSET Nat
      OBVIOUS
    <3> HIDE DEF Bad
    <3> QED
      BY <3>1, LeastExists
  <2> HIDE DEF Folds
  <2>2. m # 0
    BY <1>1
  <2>3. m - 1 \in 0 .. n - 1 /\ m - 1 \notin Bad /\ (m - 1) + 1 = m
    BY <2>1, <2>2
  <2>4. PICK old : Folds(m - 1, old)
    BY <2>3
  <2>5. \E iter : Folds(m, iter)
    BY <1>2, <2>3, <2>4
  <2> QED
    BY <2>5
<1> QED
  BY <1>3

\* A loop keeps what the fold makes of each prefix.
Loops(T, base, n, step, out) ==
  /\ out \in [0 .. n -> T] /\ out[0] = base
  /\ \A k \in 1 .. n : out[k] = step[<<k, out[k - 1]>>]

LEMMA LoopExists ==
  ASSUME NEW T, NEW base \in T, NEW n \in Nat, NEW step \in [(1 .. n) \X T -> T]
  PROVE  \E out : Loops(T, base, n, step, out)
<1>1. PICK iter : FoldsSets(T, base, n, step, iter)
  BY FoldExists
<1> DEFINE out == [k \in 0 .. n |-> iter[1 .. k]]
<1>2. \A k \in 0 .. n : 1 .. k \in SUBSET (1 .. n)
  OBVIOUS
<1>3. out \in [0 .. n -> T]
  BY <1>1, <1>2 DEF FoldsSets
<1>4. out[0] = base
  <2>1. 1 .. 0 = {} /\ 0 \in 0 .. n
    OBVIOUS
  <2>2. out[0] = iter[{}]
    BY <2>1
  <2> QED
    BY <1>1, <2>2 DEF FoldsSets
<1>5. ASSUME NEW k \in 1 .. n PROVE out[k] = step[<<k, out[k - 1]>>]
  <2>1. Max(1 .. k) = k /\ (1 .. k) \ {k} = 1 .. k - 1 /\ 1 .. k # {}
    BY MaxOfPrefix
  <2>2. out[k] = iter[1 .. k] /\ out[k - 1] = iter[1 .. k - 1] /\ 1 .. k \in SUBSET (1 .. n)
    BY <1>2
  <2> HIDE DEF out
  <2> QED
    BY <1>1, <2>1, <2>2 DEF FoldsSets
<1> HIDE DEF out
<1>6. Loops(T, base, n, step, out)
  BY <1>3, <1>4, <1>5 DEF Loops
<1> QED
  BY <1>6

-----------------------------------------------------------------------------
(* Versions.                                                               *)

LEMMA ComponentType ==
  ASSUME NEW m \in Seq(Nat), NEW i \in Nat PROVE Component(m, i) \in Nat
  BY DEF Component

\* Two versions that agree in every component.
Same(m, n) == \A i \in Nat \ {0} : Component(m, i) = Component(n, i)

\* The first component that differs.
FirstDifference(m, n, i) ==
  /\ i \in Nat \ {0}
  /\ Component(m, i) < Component(n, i)
  /\ \A j \in Nat \ {0} : j < i => Component(m, j) = Component(n, j)

\* Beyond the end of both there is no difference.
LEMMA LessByFirstDifference ==
  ASSUME NEW m \in Seq(Nat), NEW n \in Seq(Nat)
  PROVE  NumbersLess(m, n) <=> \E i : FirstDifference(m, n, i)
<1>1. Len(m) \in Nat /\ Len(n) \in Nat
  OBVIOUS
<1>2. ASSUME NEW i, FirstDifference(m, n, i)
      PROVE  i \in 1 .. Len(m) + Len(n)
  BY <1>1, <1>2 DEF FirstDifference, Component
<1>3. NumbersLess(m, n) => \E i : FirstDifference(m, n, i)
  <2> SUFFICES ASSUME NEW i \in 1 .. Len(m) + Len(n),
                      Component(m, i) < Component(n, i),
                      \A j \in 1 .. i - 1 : Component(m, j) = Component(n, j)
               PROVE  FirstDifference(m, n, i)
    BY DEF NumbersLess
  <2>1. i \in Nat \ {0}
    BY <1>1
  <2>2. ASSUME NEW j \in Nat \ {0}, j < i PROVE j \in 1 .. i - 1
    BY <2>1, <2>2
  <2> QED
    BY <2>1, <2>2 DEF FirstDifference
<1>4. ASSUME NEW i, FirstDifference(m, n, i) PROVE NumbersLess(m, n)
  BY <1>2, <1>4 DEF FirstDifference, NumbersLess
<1> QED
  BY <1>3, <1>4

\* There is one unless the versions agree.
LEMMA DifferenceExists ==
  ASSUME NEW m \in Seq(Nat), NEW n \in Seq(Nat), ~ Same(m, n)
  PROVE  \E i : FirstDifference(m, n, i) \/ FirstDifference(n, m, i)
<1> DEFINE D == {i \in Nat \ {0} : Component(m, i) # Component(n, i)}
<1>1. D \subseteq Nat /\ D # {}
  BY DEF Same
<1>2. PICK i \in D : \A j \in D : ~ (<<j, i>> \in OpToRel(<, Nat))
  <2>1. IsWellFoundedOn(OpToRel(<, Nat), Nat)
    BY NatLessThanWellFounded
  <2> HIDE DEF D
  <2> QED
    BY <1>1, <2>1, WFMin
<1>3. i \in Nat \ {0} /\ Component(m, i) # Component(n, i)
  OBVIOUS
<1>4. \A j \in Nat \ {0} : j < i => Component(m, j) = Component(n, j)
  BY <1>2 DEF OpToRel
<1>5. Component(m, i) < Component(n, i) \/ Component(n, i) < Component(m, i)
  BY <1>3, ComponentType
<1> QED
  BY <1>3, <1>4, <1>5 DEF FirstDifference

\* versionLess is a strict order on the numbers of versions, and versions neither
\* of which is below the other agree in every component: a rule's threshold
\* leaves no version undecided.
THEOREM VersionOrder ==
  ASSUME NEW l \in Seq(Nat), NEW m \in Seq(Nat), NEW n \in Seq(Nat)
  PROVE  /\ ~ NumbersLess(m, m)
         /\ NumbersLess(l, m) /\ NumbersLess(m, n) => NumbersLess(l, n)
         /\ Same(m, n) <=> ~ NumbersLess(m, n) /\ ~ NumbersLess(n, m)
<1>1. \A i \in Nat \ {0} : /\ Component(l, i) \in Nat /\ Component(m, i) \in Nat
                           /\ Component(n, i) \in Nat
  BY ComponentType
<1>2. ASSUME NumbersLess(m, m) PROVE FALSE
  <2>1. PICK i : FirstDifference(m, m, i)
    BY <1>2, LessByFirstDifference
  <2> QED
    BY <1>1, <2>1 DEF FirstDifference
<1>3. ASSUME NumbersLess(l, m), NumbersLess(m, n) PROVE NumbersLess(l, n)
  <2>1. PICK i : FirstDifference(l, m, i)
    BY <1>3, LessByFirstDifference
  <2>2. PICK j : FirstDifference(m, n, j)
    BY <1>3, LessByFirstDifference
  <2>3. i \in Nat \ {0} /\ j \in Nat \ {0}
    BY <2>1, <2>2 DEF FirstDifference
  <2>4. CASE i < j
    <3>1. FirstDifference(l, n, i)
      BY <1>1, <2>1, <2>2, <2>3, <2>4 DEF FirstDifference
    <3> QED
      BY <3>1, LessByFirstDifference
  <2>5. CASE j < i
    <3>1. FirstDifference(l, n, j)
      BY <1>1, <2>1, <2>2, <2>3, <2>5 DEF FirstDifference
    <3> QED
      BY <3>1, LessByFirstDifference
  <2>6. CASE i = j
    <3>1. FirstDifference(l, n, i)
      BY <1>1, <2>1, <2>2, <2>3, <2>6 DEF FirstDifference
    <3> QED
      BY <3>1, LessByFirstDifference
  <2> QED
    BY <2>3, <2>4, <2>5, <2>6
<1>4. Same(m, n) => ~ NumbersLess(m, n) /\ ~ NumbersLess(n, m)
  <2>1. ASSUME NEW i, Same(m, n), FirstDifference(m, n, i) \/ FirstDifference(n, m, i)
        PROVE  FALSE
    BY <1>1, <2>1 DEF Same, FirstDifference
  <2> QED
    BY <2>1, LessByFirstDifference
<1>5. ~ Same(m, n) => NumbersLess(m, n) \/ NumbersLess(n, m)
  BY DifferenceExists, LessByFirstDifference
<1> QED
  BY <1>2, <1>3, <1>4, <1>5

\* The loop over the runs of a version leaves numbers.
LEMMA NumbersType ==
  ASSUME NEW v \in Seq({Sep} \cup Nat) PROVE versionNumbers(v) \in Seq(Nat)
<1> DEFINE row(k, f) == IF k = 0 THEN <<>>
                        ELSE IF v[k] = Sep THEN f[k - 1] ELSE Append(f[k - 1], v[k])
           out == CHOOSE f : f = [k \in 0 .. Len(v) |-> row(k, f)]
<1>0. Len(v) \in Nat /\ \A k \in 1 .. Len(v) : v[k] = Sep \/ v[k] \in Nat
  OBVIOUS
<1>1. \E f : f = [k \in 0 .. Len(v) |-> row(k, f)]
  <2> DEFINE step == [x \in (1 .. Len(v)) \X Seq(Nat) |->
                        IF v[x[1]] = Sep THEN x[2] ELSE Append(x[2], v[x[1]])]
  <2>1. step \in [(1 .. Len(v)) \X Seq(Nat) -> Seq(Nat)]
    BY <1>0
  <2>2. <<>> \in Seq(Nat)
    OBVIOUS
  <2>3. PICK f : Loops(Seq(Nat), <<>>, Len(v), step, f)
    <3> HIDE DEF step
    <3> QED
      BY <1>0, <2>1, <2>2, LoopExists
  <2>4. ASSUME NEW k \in 0 .. Len(v) PROVE f[k] = row(k, f)
    <3>1. CASE k = 0
      BY <2>3, <3>1 DEF Loops
    <3>2. CASE k # 0
      <4>1. k \in 1 .. Len(v) /\ k - 1 \in 0 .. Len(v) /\ f[k - 1] \in Seq(Nat)
        BY <1>0, <2>3, <3>2 DEF Loops
      <4>2. f[k] = step[<<k, f[k - 1]>>]
        BY <2>3, <4>1 DEF Loops
      <4> QED
        BY <3>2, <4>1, <4>2
    <3> QED
      BY <3>1, <3>2
  <2>5. f = [k \in 0 .. Len(v) |-> f[k]]
    BY <2>3 DEF Loops
  <2>6. f = [k \in 0 .. Len(v) |-> row(k, f)]
    <3> HIDE DEF row
    <3> QED
      BY <2>4, <2>5
  <2> QED
    BY <2>6
<1>2. out = [k \in 0 .. Len(v) |-> row(k, out)]
  <2> HIDE DEF row
  <2> QED
    BY <1>1
<1>3. versionNumbers(v) = out[Len(v)]
  BY DEF versionNumbers
<1> HIDE DEF out
<1> DEFINE Bad == {k \in 0 .. Len(v) : out[k] \notin Seq(Nat)}
<1>4. Bad = {}
  <2> SUFFICES ASSUME Bad # {} PROVE FALSE
    OBVIOUS
  <2>1. PICK m \in Bad : \A k \in Bad : m <= k
    <3>1. Bad \in SUBSET Nat
      OBVIOUS
    <3> HIDE DEF Bad
    <3> QED
      BY <3>1, LeastExists
  <2>2. m \in 0 .. Len(v) /\ out[m] \notin Seq(Nat) /\ out[m] = row(m, out)
    BY <1>2
  <2>3. m # 0
    BY <2>2
  <2>4. m \in 1 .. Len(v) /\ m - 1 \in 0 .. Len(v) /\ m - 1 \notin Bad
    BY <1>0, <2>1, <2>2, <2>3
  <2>5. out[m - 1] \in Seq(Nat)
    BY <2>4
  <2> QED
    BY <1>0, <2>2, <2>3, <2>4, <2>5
<1> QED
  BY <1>0, <1>3, <1>4

\* Zeros at the end of a version make no difference.
LEMMA SignificantDecides ==
  ASSUME NEW v \in Seq({Sep} \cup Nat), NEW w \in Seq({Sep} \cup Nat),
         Significant(v) = Significant(w)
  PROVE  Same(versionNumbers(v), versionNumbers(w))
<1> DEFINE Ends(ns, k) == /\ k = 0 \/ ns[k] # 0
                          /\ \A j \in k + 1 .. Len(ns) : ns[j] = 0
           End(ns) == CHOOSE k \in 0 .. Len(ns) : Ends(ns, k)
<1>1. ASSUME NEW ns \in Seq(Nat)
      PROVE  End(ns) \in 0 .. Len(ns) /\ \A j \in End(ns) + 1 .. Len(ns) : ns[j] = 0
  <2> DEFINE Nonzero == {j \in 0 .. Len(ns) : j = 0 \/ ns[j] # 0}
  <2>0. Len(ns) \in Nat /\ Nonzero \in SUBSET (0 .. Len(ns)) /\ 0 \in Nonzero
    OBVIOUS
  <2>1. PICK k \in Nonzero : \A j \in Nonzero : j <= k
    <3> HIDE DEF Nonzero
    <3> QED
      BY <2>0, GreatestExists
  <2>2. k \in 0 .. Len(ns) /\ Ends(ns, k)
    <3>1. k \in 0 .. Len(ns) /\ (k = 0 \/ ns[k] # 0)
      OBVIOUS
    <3>2. ASSUME NEW j \in k + 1 .. Len(ns) PROVE ns[j] = 0
      <4>1. j \in 0 .. Len(ns) /\ ~ (j <= k)
        BY <2>0, <3>1
      <4> QED
        BY <2>1, <4>1
    <3> QED
      BY <3>1, <3>2
  <2>3. End(ns) \in 0 .. Len(ns) /\ Ends(ns, End(ns))
    <3> HIDE DEF Ends
    <3> QED
      BY <2>2
  <2> QED
    BY <2>3
<1>2. \A x : Significant(x) = SubSeq(versionNumbers(x), 1, End(versionNumbers(x)))
  BY DEF Significant
<1> HIDE DEF End
<1>3. ASSUME NEW ns \in Seq(Nat), NEW i \in Nat \ {0}
      PROVE  Component(ns, i) = Component(SubSeq(ns, 1, End(ns)), i)
  <2>1. /\ End(ns) \in 0 .. Len(ns) /\ Len(ns) \in Nat
        /\ \A j \in End(ns) + 1 .. Len(ns) : ns[j] = 0
    BY <1>1
  <2>2. /\ Len(SubSeq(ns, 1, End(ns))) = End(ns)
        /\ \A j \in 1 .. End(ns) : SubSeq(ns, 1, End(ns))[j] = ns[j]
    BY <2>1
  <2> QED
    BY <2>1, <2>2 DEF Component
<1>4. versionNumbers(v) \in Seq(Nat) /\ versionNumbers(w) \in Seq(Nat)
  BY NumbersType
<1> QED
  BY <1>2, <1>3, <1>4 DEF Same

LEMMA SameIsLess ==
  ASSUME NEW l \in Seq(Nat), NEW m \in Seq(Nat), NEW n \in Seq(Nat),
         Same(l, m), NumbersLess(m, n)
  PROVE  NumbersLess(l, n)
<1>1. PICK i : FirstDifference(m, n, i)
  BY LessByFirstDifference
<1>2. FirstDifference(l, n, i)
  BY <1>1 DEF FirstDifference, Same
<1> QED
  BY <1>2, LessByFirstDifference

\* A rule's threshold is a sharp line, whatever the rules, ports and versions.
THEOREM ThresholdIsSharpHolds == Spec => []ThresholdIsSharp
<1>1. ASSUME TypeOK PROVE ThresholdIsSharp
  <2> SUFFICES ASSUME NEW r \in rules, r.body.below # <<>>,
                      NEW h \in Hosts, NEW n \in DOMAIN h, Flags(r.body, h[n])
               PROVE  /\ \A v \in Versions \ {<<>>} :
                           \/ versionLess(h[n].version, v)
                           \/ Flags(r.body, [h[n] EXCEPT !.version = v])
                      /\ Significant(h[n].version) # Significant(r.body.below)
    BY DEF ThresholdIsSharp
  <2> DEFINE p == h[n]
             below == r.body.below
             N(v) == versionNumbers(v)
  <2>0. h \in Seq(Port)
    BY RulesAssumption
  <2>1. p \in Port /\ p.version \in Versions /\ below \in Versions
    <3>1. p \in Port
      BY <2>0
    <3>2. r \in Rule
      BY <1>1 DEF TypeOK
    <3> QED
      BY <3>1, <3>2 DEF Port, Rule, Body
  <2>2. ASSUME NEW v \in Versions PROVE N(v) \in Seq(Nat) /\ v \in Seq({Sep} \cup Nat)
    BY TextAssumption, NumbersType
  <2>3. NumbersLess(N(p.version), N(below))
    BY DEF Flags, versionLess
  <2>4. Significant(p.version) # Significant(below)
    <3> HIDE DEF p, below, N
    <3>1. ~ Same(N(p.version), N(below))
      BY <2>1, <2>2, <2>3, VersionOrder
    <3> QED
      BY <2>1, <2>2, <3>1, SignificantDecides DEF N
  <2>5. ASSUME NEW v \in Versions \ {<<>>}, ~ versionLess(p.version, v)
        PROVE  Flags(r.body, [p EXCEPT !.version = v])
    <3>1. NumbersLess(N(v), N(below))
      <4>0. ~ NumbersLess(N(p.version), N(v))
        BY <2>5 DEF versionLess
      <4> HIDE DEF p, below, N
      <4>1. CASE NumbersLess(N(v), N(p.version))
        BY <2>1, <2>2, <2>3, <4>1, VersionOrder
      <4>2. CASE ~ NumbersLess(N(v), N(p.version))
        <5>1. Same(N(v), N(p.version))
          BY <2>1, <2>2, <4>0, <4>2, VersionOrder
        <5> QED
          BY <2>1, <2>2, <2>3, <5>1, SameIsLess
      <4> QED
        BY <4>1, <4>2
    <3>2. versionLess(v, below)
      BY <3>1 DEF versionLess
    <3>3. LET q == [p EXCEPT !.version = v] IN
          /\ q.version = v /\ q.open = p.open /\ q.port = p.port
          /\ q.service = p.service /\ q.product = p.product
      BY <2>1 DEF Port
    <3> QED
      BY <3>2, <3>3 DEF Flags
  <2> QED
    BY <2>4, <2>5
<1> QED
  BY <1>1, TypeCorrect, PTL

-----------------------------------------------------------------------------
(* Levels.                                                                 *)

\* w is base or one of the candidates of the numbers up to n, and no less than any.
WorstOf(base, n, cand, w) ==
  /\ base <= w /\ \A k \in 1 .. n : \A c \in cand[k] : c <= w
  /\ w = base \/ \E k \in 1 .. n : w \in cand[k]

Raises(T, n, step, cand) ==
  \A k \in 1 .. n, l \in T :
    /\ l <= step[<<k, l>>] /\ \A c \in cand[k] : c <= step[<<k, l>>]
    /\ step[<<k, l>>] = l \/ step[<<k, l>>] \in cand[k]

\* A step that raises the level to a candidate of its number, and at least to each
\* of them, finds the worst candidate of all.
LEMMA FoldFindsWorst ==
  ASSUME NEW T \in SUBSET Nat, NEW base \in T, NEW n \in Nat,
         NEW step \in [(1 .. n) \X T -> T], NEW out, out[0] = base,
         \A k \in 1 .. n : out[k - 1] \in T => out[k] = step[<<k, out[k - 1]>>],
         NEW cand \in [1 .. n -> SUBSET T],
         Raises(T, n, step, cand)
  PROVE  out[n] \in T /\ WorstOf(base, n, cand, out[n])
<1> DEFINE Worst(m, w) == w \in T /\ WorstOf(base, m, cand, w)
           Bad == {m \in 0 .. n : ~ Worst(m, out[m])}
<1>2. Bad = {}
  <2> SUFFICES ASSUME Bad # {} PROVE FALSE
    OBVIOUS
  <2>1. PICK m \in Bad : \A k \in Bad : m <= k
    <3>1. Bad \in SUBSET Nat
      OBVIOUS
    <3> HIDE DEF Bad
    <3> QED
      BY <3>1, LeastExists
  <2>2. m \in 0 .. n /\ ~ Worst(m, out[m])
    OBVIOUS
  <2>3. m # 0
    <3>1. Worst(0, base)
      BY DEF WorstOf
    <3> HIDE DEF Worst
    <3> QED
      BY <2>2, <3>1
  <2>4. m \in 1 .. n /\ m - 1 \in 0 .. n /\ m - 1 \notin Bad
    BY <2>1, <2>2, <2>3
  <2>5. Worst(m - 1, out[m - 1])
    BY <2>4
  <2> DEFINE l == out[m - 1]
             w == out[m]
  <2>6. /\ w = step[<<m, l>>] /\ l \in T /\ w \in T /\ l <= w
        /\ \A c \in cand[m] : c <= w
        /\ w = l \/ w \in cand[m]
    BY <2>4, <2>5 DEF Raises
  <2>7. \A k \in 1 .. m : k = m \/ k \in 1 .. m - 1
    BY <2>4
  <2> HIDE DEF l, w
  <2>8. /\ l \in Nat /\ base <= l /\ \A k \in 1 .. m - 1 : \A c \in cand[k] : c <= l
        /\ l = base \/ \E k \in 1 .. m - 1 : l \in cand[k]
    BY <2>5, <2>6 DEF l, WorstOf
  <2>9. \A k \in 1 .. m : \A c \in cand[k] : c <= w
    <3> SUFFICES ASSUME NEW k \in 1 .. m, NEW c \in cand[k] PROVE c <= w
      OBVIOUS
    <3>1. CASE k = m
      BY <2>6, <3>1
    <3>2. CASE k \in 1 .. m - 1
      <4>1. c <= l /\ c \in Nat /\ w \in Nat
        BY <2>4, <2>6, <2>8, <3>2
      <4> QED
        BY <2>6, <2>8, <4>1
    <3> QED
      BY <2>7, <3>1, <3>2
  <2>10. base <= w /\ (w = base \/ \E k \in 1 .. m : w \in cand[k])
    <3>1. base <= w
      BY <2>6, <2>8
    <3>2. \A k \in 1 .. m - 1 : k \in 1 .. m
      BY <2>4
    <3>3. m \in 1 .. m
      BY <2>4
    <3> QED
      BY <2>6, <2>8, <3>1, <3>2, <3>3
  <2>11. Worst(m, w)
    BY <2>6, <2>9, <2>10 DEF WorstOf
  <2> QED
    BY <2>2, <2>11 DEF w
<1>3. n \in 0 .. n
  OBVIOUS
<1>4. Worst(n, out[n])
  BY <1>2, <1>3
<1> QED
  BY <1>4

\* A pass for one port: no rule that flags it is worse, and the level is the old
\* one or that of such a rule.
LEMMA PassFindsWorst ==
  ASSUME NEW level \in 0 .. 3, NEW p, NEW list \in Seq(Rule)
  PROVE  LET w == riskForPort(level, p, list) IN
         /\ w \in 0 .. 3 /\ level <= w
         /\ \A k \in DOMAIN list : Flags(list[k].body, p) => list[k].body.severity <= w
         /\ \/ w = level
            \/ \E k \in DOMAIN list : Flags(list[k].body, p) /\ list[k].body.severity = w
<1> DEFINE T == 0 .. 3
           n == Len(list)
           Raised(k, l) == IF Flags(list[k].body, p) THEN Worse(l, list[k].body.severity)
                           ELSE l
           step == [x \in (1 .. n) \X T |-> Raised(x[1], x[2])]
           cand == [k \in 1 .. n |->
                      {s \in T : Flags(list[k].body, p) /\ s = list[k].body.severity}]
           Fold(iter) == iter = [X \in SUBSET DOMAIN list |->
             IF X = {} THEN level ELSE Raised(Max(X), iter[X \ {Max(X)}])]
<1>1. n \in Nat /\ DOMAIN list = 1 .. n
  OBVIOUS
<1>2. ASSUME NEW k \in 1 .. n PROVE list[k].body.severity \in 1 .. 3
  <2>1. list[k] \in Rule
    BY <1>1
  <2> QED
    BY <2>1 DEF Rule, Body, Severities
<1>3. ASSUME NEW k \in 1 .. n, NEW l \in T
      PROVE  /\ Raised(k, l) \in T /\ step[<<k, l>>] = Raised(k, l) /\ l <= Raised(k, l)
             /\ \A c \in cand[k] : c <= Raised(k, l)
             /\ Raised(k, l) = l \/ Raised(k, l) \in cand[k]
  BY <1>2 DEF Worse
<1>4. riskForPort(level, p, list) = LET iter == CHOOSE iter : Fold(iter) IN iter[DOMAIN list]
  BY DEF riskForPort, FoldLeft, MapThenFoldSet
<1> DEFINE iter == CHOOSE f : Fold(f)
<1>5. Fold(iter)
  <2> HIDE DEF Raised, step
  <2>1. \E f : FoldsSets(T, level, n, step, f)
    <3>1. step \in [(1 .. n) \X T -> T]
      BY <1>3 DEF step
    <3> QED
      BY <1>1, <3>1, FoldExists
  <2>2. ASSUME NEW f, FoldsSets(T, level, n, step, f) PROVE Fold(f)
    <3>1. ASSUME NEW X \in SUBSET (1 .. n), X # {}
          PROVE  f[X] = Raised(Max(X), f[X \ {Max(X)}])
      <4>1. Max(X) \in 1 .. n
        BY <1>1, <3>1, MaxIs
      <4>2. f[X] = step[<<Max(X), f[X \ {Max(X)}]>>] /\ f[X \ {Max(X)}] \in T
        BY <2>2, <3>1 DEF FoldsSets
      <4> QED
        BY <1>3, <4>1, <4>2
    <3>2. f = [X \in SUBSET (1 .. n) |-> f[X]] /\ f[{}] = level
      BY <2>2 DEF FoldsSets
    <3> QED
      BY <1>1, <3>1, <3>2
  <2> QED
    BY <2>1, <2>2
<1> DEFINE out == [k \in 0 .. n |-> iter[1 .. k]]
<1>6. out[0] = level
  <2>1. 1 .. 0 = {} /\ 0 \in 0 .. n /\ {} \in SUBSET DOMAIN list
    BY <1>1
  <2> HIDE DEF iter, Raised
  <2> QED
    BY <1>5, <2>1
<1>7. ASSUME NEW k \in 1 .. n, out[k - 1] \in T PROVE out[k] = step[<<k, out[k - 1]>>]
  <2>1. /\ Max(1 .. k) = k /\ (1 .. k) \ {k} = 1 .. k - 1 /\ 1 .. k # {}
        /\ 1 .. k \in SUBSET DOMAIN list /\ k \in 0 .. n /\ k - 1 \in 0 .. n
    BY <1>1, MaxOfPrefix
  <2> HIDE DEF iter, Raised, step
  <2>2. iter[1 .. k] = Raised(k, iter[1 .. k - 1])
    BY <1>5, <2>1
  <2>3. out[k] = iter[1 .. k] /\ out[k - 1] = iter[1 .. k - 1]
    BY <2>1
  <2> HIDE DEF out
  <2> QED
    BY <1>3, <1>7, <2>2, <2>3
<1>8. riskForPort(level, p, list) = out[n]
  <2>1. n \in 0 .. n
    BY <1>1
  <2> HIDE DEF Fold
  <2> QED
    BY <1>1, <1>4, <2>1
<1> DEFINE w == out[n]
<1>9. w \in T /\ WorstOf(level, n, cand, w)
  <2>1. cand \in [1 .. n -> SUBSET T] /\ T \in SUBSET Nat
    OBVIOUS
  <2> HIDE DEF cand, out, Raised
  <2>2. step \in [(1 .. n) \X T -> T]
    BY <1>3
  <2> HIDE DEF step
  <2>3. Raises(T, n, step, cand)
    BY <1>3 DEF Raises
  <2> HIDE DEF T
  <2>4. level \in T
    BY DEF T
  <2> QED
    BY <1>1, <1>6, <1>7, <2>1, <2>2, <2>3, <2>4, FoldFindsWorst
<1> HIDE DEF w
<1>10. \A k \in 1 .. n, s \in T :
         s \in cand[k] <=> Flags(list[k].body, p) /\ s = list[k].body.severity
  OBVIOUS
<1> HIDE DEF cand
<1>11. \A k \in 1 .. n : Flags(list[k].body, p) => list[k].body.severity <= w
  BY <1>2, <1>9, <1>10 DEF WorstOf
<1>12. w = level \/ \E k \in 1 .. n : Flags(list[k].body, p) /\ list[k].body.severity = w
  BY <1>9, <1>10 DEF WorstOf
<1>13. riskForPort(level, p, list) = w
  BY <1>8 DEF w
<1> QED
  BY <1>1, <1>9, <1>11, <1>12, <1>13 DEF WorstOf

\* All the passes for a host.
LEMMA PassesFindWorst ==
  ASSUME NEW ports \in Seq(Port), NEW list \in Seq(Rule)
  PROVE  LET w == riskForPorts(ports, list) IN
         /\ \A k \in DOMAIN ports, r \in DOMAIN list :
              Flags(list[r].body, ports[k]) => list[r].body.severity <= w
         /\ w = 0 \/ \E k \in DOMAIN ports, r \in DOMAIN list :
                       Flags(list[r].body, ports[k]) /\ list[r].body.severity = w
<1> DEFINE T == 0 .. 3
           n == Len(ports)
           Raised(k, l) == riskForPort(l, ports[k], list)
           step == [x \in (1 .. n) \X T |-> Raised(x[1], x[2])]
           cand == [k \in 1 .. n |->
                      {s \in T : \E r \in DOMAIN list :
                         Flags(list[r].body, ports[k]) /\ s = list[r].body.severity}]
           Fold(f) == f = [X \in SUBSET DOMAIN ports |->
             IF X = {} THEN 0 ELSE Raised(Max(X), f[X \ {Max(X)}])]
<1>1. n \in Nat /\ DOMAIN ports = 1 .. n
  OBVIOUS
<1>2. ASSUME NEW k \in 1 .. n, NEW l \in T
      PROVE  /\ Raised(k, l) \in T /\ l <= Raised(k, l)
             /\ \A r \in DOMAIN list : Flags(list[r].body, ports[k]) =>
                  list[r].body.severity <= Raised(k, l)
             /\ \/ Raised(k, l) = l
                \/ \E r \in DOMAIN list : Flags(list[r].body, ports[k])
                                            /\ list[r].body.severity = Raised(k, l)
  BY PassFindsWorst
<1>3. ASSUME NEW k \in 1 .. n, NEW l \in T
      PROVE  /\ Raised(k, l) \in T /\ step[<<k, l>>] = Raised(k, l) /\ l <= Raised(k, l)
             /\ \A c \in cand[k] : c <= Raised(k, l)
             /\ Raised(k, l) = l \/ Raised(k, l) \in cand[k]
  <2>1. step[<<k, l>>] = Raised(k, l)
    OBVIOUS
  <2> HIDE DEF Raised, step
  <2> QED
    BY <1>2, <2>1
<1>4. riskForPorts(ports, list) = LET iter == CHOOSE iter : Fold(iter) IN iter[DOMAIN ports]
  BY DEF riskForPorts, FoldLeft, MapThenFoldSet
<1> DEFINE iter == CHOOSE f : Fold(f)
<1>5. Fold(iter)
  <2> HIDE DEF Raised, step
  <2>1. \E f : FoldsSets(T, 0, n, step, f)
    <3>1. step \in [(1 .. n) \X T -> T]
      BY <1>3 DEF step
    <3>2. 0 \in T
      OBVIOUS
    <3> HIDE DEF T
    <3> QED
      BY <1>1, <3>1, <3>2, FoldExists
  <2>2. ASSUME NEW f, FoldsSets(T, 0, n, step, f) PROVE Fold(f)
    <3>1. ASSUME NEW X \in SUBSET (1 .. n), X # {}
          PROVE  f[X] = Raised(Max(X), f[X \ {Max(X)}])
      <4>1. Max(X) \in 1 .. n
        BY <1>1, <3>1, MaxIs
      <4>2. f[X] = step[<<Max(X), f[X \ {Max(X)}]>>] /\ f[X \ {Max(X)}] \in T
        BY <2>2, <3>1 DEF FoldsSets
      <4> QED
        BY <1>3, <4>1, <4>2
    <3>2. f = [X \in SUBSET (1 .. n) |-> f[X]] /\ f[{}] = 0
      BY <2>2 DEF FoldsSets
    <3> QED
      BY <1>1, <3>1, <3>2
  <2> QED
    BY <2>1, <2>2
<1> DEFINE out == [k \in 0 .. n |-> iter[1 .. k]]
<1>6. out[0] = 0
  <2>1. 1 .. 0 = {} /\ 0 \in 0 .. n /\ {} \in SUBSET DOMAIN ports
    BY <1>1
  <2> HIDE DEF iter, Raised
  <2> QED
    BY <1>5, <2>1
<1>7. ASSUME NEW k \in 1 .. n, out[k - 1] \in T PROVE out[k] = step[<<k, out[k - 1]>>]
  <2>1. /\ Max(1 .. k) = k /\ (1 .. k) \ {k} = 1 .. k - 1 /\ 1 .. k # {}
        /\ 1 .. k \in SUBSET DOMAIN ports /\ k \in 0 .. n /\ k - 1 \in 0 .. n
    BY <1>1, MaxOfPrefix
  <2> HIDE DEF iter, Raised, step
  <2>2. iter[1 .. k] = Raised(k, iter[1 .. k - 1])
    BY <1>5, <2>1
  <2>3. out[k] = iter[1 .. k] /\ out[k - 1] = iter[1 .. k - 1]
    BY <2>1
  <2> HIDE DEF out
  <2> QED
    BY <1>3, <1>7, <2>2, <2>3
<1>8. riskForPorts(ports, list) = out[n]
  <2>1. n \in 0 .. n
    BY <1>1
  <2> HIDE DEF Fold
  <2> QED
    BY <1>1, <1>4, <2>1
<1> DEFINE w == out[n]
<1>9. w \in T /\ WorstOf(0, n, cand, w)
  <2>1. cand \in [1 .. n -> SUBSET T] /\ T \in SUBSET Nat
    OBVIOUS
  <2> HIDE DEF cand, out, Raised
  <2>2. step \in [(1 .. n) \X T -> T]
    BY <1>3
  <2> HIDE DEF step
  <2>3. Raises(T, n, step, cand)
    BY <1>3 DEF Raises
  <2> HIDE DEF T
  <2>4. 0 \in T
    BY DEF T
  <2> QED
    BY <1>1, <1>6, <1>7, <2>1, <2>2, <2>3, <2>4, FoldFindsWorst
<1> HIDE DEF w
<1>10. \A k \in 1 .. n, s \in T :
         s \in cand[k] <=> \E r \in DOMAIN list :
                             Flags(list[r].body, ports[k]) /\ s = list[r].body.severity
  OBVIOUS
<1> HIDE DEF cand
<1>11. \A k \in 1 .. n, r \in DOMAIN list :
         Flags(list[r].body, ports[k]) => list[r].body.severity <= w
  <2> SUFFICES ASSUME NEW k \in 1 .. n, NEW r \in DOMAIN list, Flags(list[r].body, ports[k])
               PROVE  list[r].body.severity <= w
    OBVIOUS
  <2>1. list[r].body.severity \in T
    <3>1. list[r] \in Rule
      OBVIOUS
    <3> QED
      BY <3>1 DEF Rule, Body, Severities
  <2>2. list[r].body.severity \in cand[k]
    BY <1>10, <2>1
  <2> QED
    BY <1>9, <2>2 DEF WorstOf
<1>12. w = 0 \/ \E k \in 1 .. n, r \in DOMAIN list :
                  Flags(list[r].body, ports[k]) /\ list[r].body.severity = w
  BY <1>9, <1>10 DEF WorstOf
<1>13. riskForPorts(ports, list) = w
  BY <1>8 DEF w
<1> QED
  BY <1>1, <1>9, <1>11, <1>12, <1>13

\* A host's level is the worst severity that flags one of its ports, for every
\* table of rules and every order of ports.
THEOREM RiskIsWorstHolds == Spec => []RiskIsWorst
<1>1. ASSUME TypeOK PROVE RiskIsWorst
  <2> DEFINE list == ListRiskRules
  <2>1. /\ list \in Seq(Rule)
        /\ \A n \in DOMAIN list : list[n] \in rules
        /\ \A r \in rules : \E n \in DOMAIN list : list[n] = r
    <3>1. Table
      BY <1>1 DEF TypeOK, Table
    <3>2. Cardinality(rules) \in Nat /\ list \in [1 .. Cardinality(rules) -> rules]
      BY <3>1, Listed
    <3>3. \A r \in rules : \E n \in 1 .. Cardinality(rules) : list[n] = r
      BY <3>1, Listed
    <3>4. rules \subseteq Rule
      BY <1>1 DEF TypeOK
    <3> HIDE DEF list
    <3> QED
      BY <3>2, <3>3, <3>4
  <2> HIDE DEF list
  <2> SUFFICES ASSUME NEW h \in Hosts
               PROVE  LET flagging == {r \in rules : \E n \in DOMAIN h : Flags(r.body, h[n])}
                          level == riskForPorts(h, list) IN
                      /\ \A r \in flagging : r.body.severity <= level
                      /\ level = 0 \/ \E r \in flagging : r.body.severity = level
    BY DEF RiskIsWorst, list
  <2> DEFINE flagging == {r \in rules : \E n \in DOMAIN h : Flags(r.body, h[n])}
             level == riskForPorts(h, list)
  <2>2. h \in Seq(Port)
    BY RulesAssumption
  <2>3. /\ \A k \in DOMAIN h, r \in DOMAIN list :
             Flags(list[r].body, h[k]) => list[r].body.severity <= level
        /\ level = 0 \/ \E k \in DOMAIN h, r \in DOMAIN list :
                          Flags(list[r].body, h[k]) /\ list[r].body.severity = level
    BY <2>1, <2>2, PassesFindWorst
  <2> HIDE DEF level
  <2>4. \A r \in flagging : r.body.severity <= level
    BY <2>1, <2>3
  <2>5. level = 0 \/ \E r \in flagging : r.body.severity = level
    BY <2>1, <2>3
  <2> QED
    BY <2>4, <2>5 DEF level
<1> QED
  BY <1>1, TypeCorrect, PTL

=============================================================================
