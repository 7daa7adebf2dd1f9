---------------------------- MODULE Database_proofs ----------------------------
(* What holds of the database file and of the cost books for any number of      *)
(* rows, migrations, imports, daemons and faults.                               *)
EXTENDS Store, CostLedger, FiniteSetTheorems, NaturalsInduction, TLAPS

-----------------------------------------------------------------------------
(* Numbers.                                                                   *)

\* The least element of a set of numbers.
LEMMA LeastNumber ==
  ASSUME NEW S \in SUBSET Nat, S # {}
  PROVE  \E x \in S : \A y \in S : x <= y
<1> DEFINE R == {p \in Nat \X Nat : p[1] < p[2]}
<1>1. IsWellFoundedOn(R, Nat)
  BY NatLessThanWellFounded DEF OpToRel
<1>2. \E x \in S : \A y \in S : ~ (<<y, x>> \in R)
  <2> HIDE DEF R
  <2> QED
    BY <1>1, WFMin
<1>3. \A x, y \in Nat : ~ (<<y, x>> \in R) => x <= y
  OBVIOUS
<1> QED
  BY <1>2, <1>3

LEMMA MinNumber ==
  ASSUME NEW S \in SUBSET Nat, S # {}
  PROVE  Min(S) \in S
BY LeastNumber DEF Min

\* A finite set of numbers has a greatest element: the one that has most of them
\* up to it.
LEMMA MaxNumber ==
  ASSUME NEW S \in SUBSET Nat, S # {}, IsFiniteSet(S)
  PROVE  Max(S) \in S /\ \A y \in S : y <= Max(S)
<1> DEFINE UpTo(x) == {y \in S : y <= x}
           Above == {Cardinality(S) - Cardinality(UpTo(x)) : x \in S}
<1>1. \A x \in S : /\ IsFiniteSet(UpTo(x)) /\ Cardinality(UpTo(x)) \in Nat
                   /\ Cardinality(UpTo(x)) <= Cardinality(S)
  BY FS_Subset, FS_CardinalityType
<1>2. Cardinality(S) \in Nat
  BY FS_CardinalityType
<1>3. Above \in SUBSET Nat /\ Above # {}
  <2>1. \A x \in S : Cardinality(S) - Cardinality(UpTo(x)) \in Nat
    <3> HIDE DEF UpTo
    <3> QED
      BY <1>1, <1>2
  <2> QED
    BY <2>1
<1>4. PICK m \in S : \A y \in S : Cardinality(UpTo(y)) <= Cardinality(UpTo(m))
  <2>1. PICK n \in Above : \A k \in Above : n <= k
    <3> HIDE DEF Above
    <3> QED
      BY <1>3, LeastNumber
  <2>2. PICK m \in S : n = Cardinality(S) - Cardinality(UpTo(m))
    OBVIOUS
  <2> HIDE DEF UpTo
  <2>3. \A y \in S : n <= Cardinality(S) - Cardinality(UpTo(y))
    BY <2>1
  <2> QED
    BY <1>1, <1>2, <2>2, <2>3
<1>5. \A y \in S : y <= m
  <2> SUFFICES ASSUME NEW y \in S, ~ (y <= m) PROVE FALSE
    OBVIOUS
  <2>1. UpTo(m) \subseteq UpTo(y) /\ y \in UpTo(y) /\ y \notin UpTo(m)
    <3>1. y \in Nat /\ m \in Nat /\ m < y
      OBVIOUS
    <3>2. \A x \in S : x <= m => x <= y
      BY <3>1
    <3>3. UpTo(m) \subseteq UpTo(y)
      BY <3>2
    <3>4. y \in UpTo(y)
      BY <3>1
    <3> QED
      BY <3>3, <3>4
  <2>2. UpTo(m) # UpTo(y)
    BY <2>1
  <2> HIDE DEF UpTo
  <2>3. /\ Cardinality(UpTo(m)) <= Cardinality(UpTo(y))
        /\ Cardinality(UpTo(m)) # Cardinality(UpTo(y))
    BY <1>1, <2>1, <2>2, FS_Subset
  <2> QED
    BY <1>1, <1>4, <2>3
<1> QED
  BY <1>5 DEF Max

-----------------------------------------------------------------------------
(* Opening the file.                                                          *)

\* How far the file is when a process is so far with it; what was done once stays
\* done.
Opened(p) ==
    /\ pc[p] = "migrate" => Migrations \ applied \subseteq todo[p]
    /\ pc[p] \in {"alter", "check", "off", "rebuild", "on", "open"} => applied = Migrations
    /\ pc[p] \in {"check", "off", "rebuild", "on", "open"} => columns \/ ignored
    /\ pc[p] \in {"on", "open"} => ~ legacy
    /\ pc[p] \in {"schema", "pending", "migrate", "alter", "check", "off", "open"} => enforce[p]
    /\ pc[p] = "rebuild" => ~ enforce[p]

OpenInv ==
    /\ pc \in [Procs -> Stages]
    /\ todo \in [Procs -> SUBSET Migrations]
    /\ enforce \in [Procs -> BOOLEAN]
    /\ applied \subseteq Migrations
    /\ \A p \in Procs : Opened(p)

\* No process makes undone what another relies on.
LEMMA OpeningOnlyAdds ==
  ASSUME OpenInv, NEW p \in Procs, Opening(p) \/ Stop(p)
  PROVE  /\ applied \subseteq applied' /\ applied' \subseteq Migrations
         /\ columns => columns'
         /\ ignored => ignored'
         /\ ~ legacy => ~ legacy'
         /\ \A q \in Procs \ {p} : /\ pc'[q] = pc[q] /\ todo'[q] = todo[q]
                                  /\ enforce'[q] = enforce[q]
<1>1. CASE Migrate(p)
  <2>1. todo[p] \subseteq Nat /\ todo[p] # {} /\ todo[p] \subseteq Migrations
    BY <1>1, StoreAssumption DEF Migrate, OpenInv
  <2>2. Min(todo[p]) \in Migrations
    BY <2>1, MinNumber
  <2> QED
    BY <1>1, <2>2 DEF Migrate, MigrationTaken, OpenInv
<1>2. CASE ExecSchema(p) \/ Alter(p)
  <2>1. UNCHANGED <<applied, legacy, todo, enforce>>
    BY <1>2 DEF ExecSchema, Alter
  <2>3. columns => columns'
    BY <1>2 DEF ExecSchema, Alter
  <2>4. ignored => ignored'
    BY <1>2 DEF ExecSchema, Alter
  <2>2. \A q \in Procs \ {p} : pc'[q] = pc[q]
    BY <1>2 DEF ExecSchema, Alter, Goes, OpenInv
  <2> QED
    BY <2>1, <2>2, <2>3, <2>4 DEF OpenInv
<1>3. CASE Start(p) \/ ReadPending(p) \/ MigrationsDone(p) \/ Check(p) \/ Stop(p)
           \/ ForeignKeysOff(p) \/ ForeignKeysOn(p)
  <2>1. UNCHANGED <<applied, legacy, columns, ignored>>
    BY <1>3 DEF Start, ReadPending, MigrationsDone, Check, Stop, ForeignKeysOff, ForeignKeysOn,
               fileVars
  <2>2. \A q \in Procs \ {p} : pc'[q] = pc[q] /\ todo'[q] = todo[q] /\ enforce'[q] = enforce[q]
    BY <1>3 DEF Start, ReadPending, MigrationsDone, Check, Stop, ForeignKeysOff, ForeignKeysOn,
               Goes, OpenInv
  <2> QED
    BY <2>1, <2>2 DEF OpenInv
<1>4. CASE Rebuild(p)
  BY <1>4 DEF Rebuild, OpenInv
<1> QED
  BY <1>1, <1>2, <1>3, <1>4 DEF Opening

\* A process goes on when its own part is done.
LEMMA OpeningKeepsOrder ==
  ASSUME OpenInv, NEW p \in Procs, Opening(p) \/ Stop(p)
  PROVE  OpenInv'
<1>1. /\ pc' \in [Procs -> Stages]
      /\ todo' \in [Procs -> SUBSET Migrations]
      /\ enforce' \in [Procs -> BOOLEAN]
  <2>1. CASE Migrate(p)
    BY <2>1 DEF Migrate, MigrationTaken, OpenInv, Stages
  <2>2. CASE ~ Migrate(p)
    BY <2>2 DEF Opening, Start, ExecSchema, ReadPending, MigrationsDone, Alter, Check,
                ForeignKeysOff, Rebuild, ForeignKeysOn, Stop, Goes, fileVars, OpenInv, Stages
  <2> QED
    BY <2>1, <2>2
<1>2. Opened(p)'
  <2>0. applied' \subseteq Migrations /\ applied \subseteq Migrations /\ Opened(p)
        /\ pc \in [Procs -> Stages] /\ todo \in [Procs -> SUBSET Migrations]
        /\ enforce \in [Procs -> BOOLEAN]
    BY OpeningOnlyAdds DEF OpenInv
  <2>1. CASE Migrate(p)
    BY <2>0, <2>1 DEF Migrate, MigrationTaken, Opened
  <2>2. CASE Start(p) \/ ExecSchema(p) \/ ReadPending(p) \/ Stop(p)
    BY <2>0, <2>2 DEF Start, ExecSchema, ReadPending, Stop, Goes, fileVars, Opened
  <2>3. CASE MigrationsDone(p)
    BY <2>0, <2>3 DEF MigrationsDone, Goes, fileVars, Opened
  <2>4. CASE Alter(p)
    BY <2>0, <2>4 DEF Alter, Goes, Opened
  <2>5. CASE Check(p)
    BY <2>0, <2>5 DEF Check, Goes, fileVars, Opened
  <2>6. CASE Rebuild(p)
    BY <2>0, <2>6 DEF Rebuild, Opened
  <2>7. CASE ForeignKeysOff(p)
    BY <2>0, <2>7 DEF ForeignKeysOff, Goes, fileVars, Opened
  <2>8. CASE ForeignKeysOn(p)
    BY <2>0, <2>8 DEF ForeignKeysOn, Goes, fileVars, Opened
  <2> QED
    BY <2>1, <2>2, <2>3, <2>4, <2>5, <2>6, <2>7, <2>8 DEF Opening
<1>3. \A q \in Procs \ {p} : Opened(q)'
  BY OpeningOnlyAdds DEF OpenInv, Opened
<1> QED
  BY <1>1, <1>2, <1>3, OpeningOnlyAdds DEF OpenInv

LEMMA OpenInvHolds == Spec => []OpenInv
<1>1. Init => OpenInv
  BY DEF Init, OpenInv, Opened, Stages
<1>2. OpenInv /\ [Next]_vars => OpenInv'
  <2> SUFFICES ASSUME OpenInv, [Next]_vars PROVE OpenInv'
    OBVIOUS
  <2>1. CASE Work \/ UNCHANGED vars
    <3>1. UNCHANGED <<applied, pc, todo, enforce, columns, ignored, legacy>>
      BY <2>1 DEF Work, vars, openVars, fileVars
    <3> QED
      BY <3>1 DEF OpenInv, Opened
  <2> QED
    BY <2>1, OpeningKeepsOrder DEF Next
<1> QED
  BY <1>1, <1>2, PTL DEF Spec

\* Whoever works on the file has seen it brought up to date and enforces its foreign
\* keys, for any migrations and number of stops, and whatever the other process does
\* to the file meanwhile.
THEOREM OpenIsCurrentHolds == Spec => []OpenIsCurrent
<1>1. OpenInv => OpenIsCurrent
  BY DEF OpenInv, Opened, OpenIsCurrent, Working
<1> QED
  BY <1>1, OpenInvHolds, PTL

-----------------------------------------------------------------------------
(* What an import does.                                                       *)

LEMMA SchemaFacts ==
  /\ DOMAIN ExportTables = 1 .. 3 /\ Len(ExportTables) = 3
  /\ ExportTables[1] = "contracts" /\ ExportTables[2] = "entries"
  /\ ExportTables[3] = "configs"
  /\ Parent["contracts"] = Null /\ Parent["entries"] = "contracts"
  /\ Parent["configs"] = "contracts" /\ Parent["history"] = "entries"
  /\ Parent["alerts"] = "configs"
  /\ Null # "contracts" /\ Null # "entries" /\ Null # "configs"
BY BackupAssumption DEF ExportTables, Parent, Tables

\* Deleting the contracts last leaves nothing, by cascade.
LEMMA ClearedIsEmpty == Cleared = [t \in Tables |-> {}]
<1>1. \A t \in Tables : t \in {"contracts"} \cup Cascades("contracts")
  <2>1. "entries" \in Cascades("contracts") /\ "configs" \in Cascades("contracts")
    BY SchemaFacts DEF Cascades, Tables
  <2>2. "history" \in Cascades("contracts")
    BY SchemaFacts DEF Cascades, Tables
  <2>3. "alerts" \in Cascades("contracts")
    BY SchemaFacts DEF Cascades, Tables
  <2> QED
    BY <2>1, <2>2, <2>3 DEF Tables
<1>2. ClearTables[3] = "contracts"
  BY DEF ClearTables
<1> QED
  BY <1>1, <1>2 DEF Cleared, DeleteAll

\* The contents of a backup file: three tables of rows.
IsFile(file) == file \in Seq(SUBSET Row) /\ Len(file) = 3

\* Its rows refer to contracts it has.
Closed(file) ==
    \A i \in {2, 3} : \A r \in file[i] : r.parent \in Ids(file[1])

LEMMA RowsOfFile ==
  ASSUME NEW file
  PROVE  /\ RowsOf(file, "contracts") = {Columns("contracts", r) : r \in file[1]}
         /\ RowsOf(file, "entries") = file[2]
         /\ RowsOf(file, "configs") = file[3]
<1>1. (CHOOSE i \in DOMAIN ExportTables : ExportTables[i] = "contracts") = 1
  BY SchemaFacts
<1>2. (CHOOSE i \in DOMAIN ExportTables : ExportTables[i] = "entries") = 2
  BY SchemaFacts
<1>3. (CHOOSE i \in DOMAIN ExportTables : ExportTables[i] = "configs") = 3
  BY SchemaFacts
<1>4. RowsOf(file, "contracts") = {Columns("contracts", r) : r \in file[1]}
  BY <1>1 DEF RowsOf
<1>5. RowsOf(file, "entries") = {r : r \in file[2]}
  BY <1>2 DEF RowsOf, Columns
<1>6. RowsOf(file, "configs") = {r : r \in file[3]}
  BY <1>3 DEF RowsOf, Columns
<1> QED
  BY <1>4, <1>5, <1>6

\* A contract that is restored keeps its id.
LEMMA RestoredIds ==
  ASSUME NEW file, IsFile(file)
  PROVE  /\ Ids(RowsOf(file, "contracts")) = Ids(file[1])
         /\ RowsOf(file, "contracts") \subseteq Row
<1>1. file[1] \subseteq Row
  <2>1. file \in Seq(SUBSET Row) /\ 1 \in 1 .. Len(file)
    BY DEF IsFile
  <2> QED
    BY <2>1
<1>2. \A r \in Row : Columns("contracts", r).id = r.id /\ Columns("contracts", r) \in Row
  BY DEF Columns, Row
<1>3. RowsOf(file, "contracts") = {Columns("contracts", r) : r \in file[1]}
  BY RowsOfFile
<1> QED
  BY <1>1, <1>2, <1>3 DEF Ids

\* The transaction puts in place what the file holds and nothing else, and fails only
\* for rows that refer to none of its contracts.
LEMMA ImportedIsTheFile ==
  ASSUME NEW file, IsFile(file)
  PROVE  /\ Closed(file) => Imported(file) # Failed
         /\ Imported(file) # Failed =>
                /\ Closed(file)
                /\ Imported(file) =
                       [t \in Tables |-> IF t \in {"contracts", "entries", "configs"}
                                         THEN RowsOf(file, t) ELSE {}]
<1> DEFINE A == RowsOf(file, "contracts")
           B == RowsOf(file, "entries")
           C == RowsOf(file, "configs")
           D0 == [t \in Tables |-> {}]
           D1 == [t \in Tables |-> IF t = "contracts" THEN A ELSE {}]
           D2 == [t \in Tables |-> IF t = "contracts" THEN A ELSE IF t = "entries" THEN B ELSE {}]
           D3 == [t \in Tables |-> IF t = "contracts" THEN A ELSE IF t = "entries" THEN B
                                   ELSE IF t = "configs" THEN C ELSE {}]
<1>1. Imported(file) = InsertAll(InsertAll(InsertAll(D0, "contracts", A), "entries", B), "configs", C)
  BY ClearedIsEmpty, SchemaFacts DEF Imported, Filled
<1>2. Ids({}) = {}
  BY DEF Ids
<1>3. D0 # Failed /\ D1 # Failed /\ D2 # Failed /\ D3 # Failed
  <2>1. D0["history"] = {} /\ D1["history"] = {} /\ D2["history"] = {} /\ D3["history"] = {}
        /\ Failed["history"] = {Null}
    BY DEF Tables, Failed
  <2> HIDE DEF D0, D1, D2, D3
  <2> QED
    BY <2>1
<1>4. InsertAll(D0, "contracts", A) = D1
  <2>1. Accepts(D0, "contracts", A)
    BY <1>2, SchemaFacts DEF Accepts, Tables
  <2>2. [D0 EXCEPT !["contracts"] = @ \cup A] = D1
    BY DEF Tables
  <2> QED
    BY <1>3, <2>1, <2>2 DEF InsertAll
<1>5. Accepts(D1, "entries", B) <=> \A r \in B : r.parent \in Ids(A)
  BY <1>2, SchemaFacts DEF Accepts, Tables
<1>6. InsertAll(D1, "entries", B) = IF \A r \in B : r.parent \in Ids(A) THEN D2 ELSE Failed
  <2>1. [D1 EXCEPT !["entries"] = @ \cup B] = D2
    BY DEF Tables
  <2> HIDE DEF D1, D2
  <2> QED
    BY <1>3, <1>5, <2>1 DEF InsertAll
<1>7. Accepts(D2, "configs", C) <=> \A r \in C : r.parent \in Ids(A)
  BY <1>2, SchemaFacts DEF Accepts, Tables
<1>8. InsertAll(D2, "configs", C) = IF \A r \in C : r.parent \in Ids(A) THEN D3 ELSE Failed
  <2>1. [D2 EXCEPT !["configs"] = @ \cup C] = D3
    BY DEF Tables
  <2> HIDE DEF D2, D3
  <2> QED
    BY <1>3, <1>7, <2>1 DEF InsertAll
<1>9. InsertAll(Failed, "configs", C) = Failed
  BY DEF InsertAll
<1>10. Closed(file) <=> /\ \A r \in B : r.parent \in Ids(A)
                        /\ \A r \in C : r.parent \in Ids(A)
  BY RowsOfFile, RestoredIds DEF Closed
<1>11. Imported(file) = IF Closed(file) THEN D3 ELSE Failed
  <2> HIDE DEF A, B, C, D0, D1, D2, D3
  <2> QED
    BY <1>1, <1>4, <1>6, <1>8, <1>9, <1>10
<1>12. D3 = [t \in Tables |-> IF t \in {"contracts", "entries", "configs"}
                              THEN RowsOf(file, t) ELSE {}]
  OBVIOUS
<1> HIDE DEF D3
<1> QED
  BY <1>3, <1>11, <1>12

-----------------------------------------------------------------------------
(* Ids and backups.                                                           *)

\* Rows that AUTOINCREMENT has numbered.
Counted(T) == T \subseteq Row /\ IsFiniteSet(T) /\ Ids(T) \subseteq Nat

DataTypes ==
    /\ db \in [Tables -> SUBSET Row]
    /\ seq \in [Numbered -> Nat]
    /\ held \subseteq Row
    /\ IsFiniteSet(db["entries"]) /\ Ids(db["entries"]) \subseteq Nat
    /\ IsFiniteSet(db["configs"]) /\ Ids(db["configs"]) \subseteq Nat
    /\ export \in Seq(SUBSET Row) /\ Len(export) \in {0, 1, 2}
    /\ Len(export) = 2 => Counted(export[2])
    /\ backup # Null => /\ IsFile(backup.tables)
                        /\ Counted(backup.tables[2]) /\ Counted(backup.tables[3])

\* Entry e has been one of database L: it is in the table, in the hands of a monitor,
\* in the export under way or in the last backup.
Seen(e, L) ==
    \/ L = origin /\ e \in db["entries"]
    \/ L = origin /\ ~ crossed /\ e \in held
    \/ L = source /\ Len(export) = 2 /\ e \in export[2]
    \/ backup # Null /\ L = backup.of /\ e \in backup.tables[2]

\* Entry e is in the file of another database.
Foreign(e, L) == \E f \in OtherFiles : L = f.of /\ e \in f.tables[2]

Known(e, L) == Seen(e, L) \/ Foreign(e, L)

\* Ids of database L have been given to rows here.
Used(L) == L \in {origin, source} \/ (backup # Null /\ L = backup.of)

\* Within a database an id stands for one entry wherever it is found, and the next one
\* for none.
MeaningInv ==
    /\ \A e, L : Seen(e, L) => e.id \in Nat /\ e.id <= seq["entries"]
    /\ \A e, L : Foreign(e, L) /\ Used(L) => e.id <= seq["entries"]
    /\ \A d, e, L : Known(d, L) /\ Known(e, L) /\ d.id = e.id => d.val = e.val
    /\ ~ crossed =>
          \A h \in db["history"] :
              /\ h.parent \in Nat /\ h.parent <= seq["entries"]
              /\ \A e : Known(e, origin) /\ e.id = h.parent => e.val = h.val

\* No row without its contract, neither in the tables nor in a backup that nothing
\* was written into.
RestoreInv ==
    /\ \A r \in db["entries"] \cup db["configs"] : r.parent \in Ids(db["contracts"])
    /\ ~ torn => \A i \in 1 .. Len(export) : export[i] = db[ExportTables[i]]
    /\ backup # Null /\ ~ backup.torn => Closed(backup.tables)

LEMMA IdsAreFinite ==
  ASSUME NEW T, IsFiniteSet(T)
  PROVE  IsFiniteSet(Ids(T))
<1> DEFINE f == [r \in T |-> r.id]
<1>1. f \in Surjection(T, Ids(T))
  BY DEF Ids, Surjection
<1> QED
  BY <1>1, FS_Surjection

\* The number AUTOINCREMENT goes on from.
LEMMA GreatestId ==
  ASSUME NEW T, IsFiniteSet(T), Ids(T) \subseteq Nat, NEW n \in Nat
  PROVE  LET m == Max({n} \cup Ids(T)) IN
         m \in Nat /\ n <= m /\ \A r \in T : r.id \in Nat /\ r.id <= m
<1> DEFINE S == {n} \cup Ids(T)
<1>1. S \subseteq Nat /\ S # {} /\ IsFiniteSet(S)
  BY IdsAreFinite, FS_Singleton, FS_Union
<1>2. \A r \in T : r.id \in S
  BY DEF Ids
<1> HIDE DEF S
<1>3. Max(S) \in S /\ \A y \in S : y <= Max(S)
  BY <1>1, MaxNumber
<1>4. n \in S
  BY DEF S
<1> QED
  BY <1>1, <1>2, <1>3, <1>4 DEF S

\* What is assumed of the files of other databases.
LEMMA ForeignIds ==
  /\ \A e, L : Foreign(e, L) => e.id \in Nat
  /\ \A d, e, L : Foreign(d, L) /\ Foreign(e, L) /\ d.id = e.id => d = e
<1>1. \A f \in OtherFiles : /\ Ids(f.tables[2]) \subseteq Nat
                           /\ \A d, e \in f.tables[2] : d.id = e.id => d = e
  BY BackupAssumption DEF IsExport
<1>2. \A f, g \in OtherFiles : f.of = g.of => f = g
  BY BackupAssumption
<1> QED
  BY <1>1, <1>2 DEF Foreign, Ids

LEMMA FilesStartOrderly ==
  ASSUME NEW T, Orderly(T), BackupInit(T)
  PROVE  DataTypes /\ MeaningInv /\ RestoreInv
<1>0. /\ db = T /\ export = << >> /\ torn = FALSE /\ backup = Null /\ held = {}
      /\ origin = Null /\ source = Null
      /\ seq = [t \in Numbered |-> Max(Ids(T[t]) \cup {0})]
  BY DEF BackupInit
<1>1. /\ T \in [Tables -> SUBSET Row]
      /\ \A t \in Numbered : IsFiniteSet(T[t]) /\ Ids(T[t]) \subseteq Nat
  BY DEF Orderly, Numbered, Tables
<1>2. \A t \in Numbered : seq[t] \in Nat /\ \A r \in T[t] : r.id \in Nat /\ r.id <= seq[t]
  <2> SUFFICES ASSUME NEW t \in Numbered
               PROVE  seq[t] \in Nat /\ \A r \in T[t] : r.id \in Nat /\ r.id <= seq[t]
    OBVIOUS
  <2>1. Ids(T[t]) \cup {0} = {0} \cup Ids(T[t])
    OBVIOUS
  <2> QED
    BY <1>0, <1>1, <2>1, GreatestId
<1>3. DataTypes
  BY <1>0, <1>1, <1>2 DEF DataTypes, Numbered
<1>4. \A e, L : Seen(e, L) => e \in T["entries"] /\ L = Null
  BY <1>0 DEF Seen
<1>5. \A h \in T["history"] :
          /\ h.parent \in Ids(T["entries"])
          /\ \A e \in T["entries"] : e.id = h.parent => e.val = h.val
  BY SchemaFacts DEF Orderly, Tables
<1>6. MeaningInv
  <2>1. \A e : ~ Foreign(e, Null)
    BY BackupAssumption DEF Foreign
  <2>2. \A d, e, L : Known(d, L) /\ Known(e, L) /\ d.id = e.id => d.val = e.val
    <3> SUFFICES ASSUME NEW d, NEW e, NEW L, Known(d, L), Known(e, L), d.id = e.id
                 PROVE  d.val = e.val
      OBVIOUS
    <3>1. CASE L = Null
      BY <1>4, <2>1, <3>1 DEF Known, Orderly
    <3>2. CASE L # Null
      BY <1>4, <3>2, ForeignIds DEF Known
    <3> QED
      BY <3>1, <3>2
  <2>3. \A h \in db["history"] :
            /\ h.parent \in Nat /\ h.parent <= seq["entries"]
            /\ \A e : Known(e, Null) /\ e.id = h.parent => e.val = h.val
    BY <1>0, <1>2, <1>4, <1>5, <2>1 DEF Known, Numbered, Ids
  <2>4. \A e, L : Foreign(e, L) /\ Used(L) => e.id <= seq["entries"]
    BY <1>0, <2>1 DEF Used
  <2> QED
    BY <1>0, <1>2, <1>4, <2>2, <2>3, <2>4 DEF MeaningInv, Numbered
<1>7. RestoreInv
  BY <1>0, SchemaFacts DEF RestoreInv, Orderly, Tables
<1> QED
  BY <1>3, <1>6, <1>7

LEMMA NewFileIsOrderly == Orderly(NoRows)
<1>1. IsFiniteSet({}) /\ Ids({}) = {}
  BY FS_EmptySet DEF Ids
<1> QED
  BY <1>1 DEF Orderly, NoRows, Numbered, Tables

-----------------------------------------------------------------------------

\* A write ends the exports under way as clean ones.
LEMMA WroteTears ==
  ASSUME Wrote
  PROVE  ~ torn' => Len(export) = 0
<1>1. ~ torn' => export = << >>
  BY DEF Wrote
<1>2. Len(<< >>) = 0
  OBVIOUS
<1> QED
  BY <1>1, <1>2

DataInv == DataTypes /\ MeaningInv /\ RestoreInv

\* Steps after which nothing is known that was not, and that give no id.
LEMMA MeaningKept ==
  ASSUME MeaningInv,
         \A e, L : Seen(e, L)' => Seen(e, L),
         \A L : Used(L)' => Used(L) \/ L = Null,
         seq'["entries"] = seq["entries"], UNCHANGED <<origin, crossed>>,
         ~ crossed =>
             \A h \in db'["history"] :
                 /\ h.parent \in Nat /\ h.parent <= seq["entries"]
                 /\ \A e : Known(e, origin) /\ e.id = h.parent => e.val = h.val
  PROVE  MeaningInv'
<1>1. \A e, L : Foreign(e, L)' <=> Foreign(e, L)
  BY DEF Foreign
<1>2. \A e, L : Known(e, L)' => Known(e, L)
  BY <1>1 DEF Known
<1>3. \A e, L : Seen(e, L)' => e.id \in Nat /\ e.id <= seq'["entries"]
  BY DEF MeaningInv
<1>4. \A e, L : Foreign(e, L)' /\ Used(L)' => e.id <= seq'["entries"]
  <2>1. \A e : ~ Foreign(e, Null)
    BY BackupAssumption DEF Foreign
  <2> QED
    BY <1>1, <2>1 DEF MeaningInv
<1>5. \A d, e, L : Known(d, L)' /\ Known(e, L)' /\ d.id = e.id => d.val = e.val
  BY <1>2 DEF MeaningInv
<1>6. ~ crossed' =>
          \A h \in db'["history"] :
              /\ h.parent \in Nat /\ h.parent <= seq'["entries"]
              /\ \A e : Known(e, origin)' /\ e.id = h.parent => e.val = h.val
  BY <1>2
<1> QED
  BY <1>3, <1>4, <1>5, <1>6 DEF MeaningInv

\* Steps that write no entry, remove no contract and give no id.
LEMMA OtherTables ==
  ASSUME DataInv,
         db' \in [Tables -> SUBSET Row], db'["entries"] = db["entries"],
         IsFiniteSet(db'["configs"]), Ids(db'["configs"]) \subseteq Nat,
         \A r \in db'["configs"] : r.parent \in Ids(db["contracts"]),
         Ids(db["contracts"]) \subseteq Ids(db'["contracts"]),
         seq' \in [Numbered -> Nat], seq'["entries"] = seq["entries"],
         ~ crossed =>
             \A h \in db'["history"] :
                 /\ h.parent \in Nat /\ h.parent <= seq["entries"]
                 /\ \A e : Known(e, origin) /\ e.id = h.parent => e.val = h.val,
         held' \subseteq held, UNCHANGED <<export, backup, origin, source, crossed>>, Wrote
  PROVE  DataInv'
<1>1. DataTypes'
  BY DEF DataInv, DataTypes
<1>2. \A e, L : Seen(e, L)' => Seen(e, L)
  BY DEF Seen
<1>3. MeaningInv'
  <2>1. \A L : Used(L)' => Used(L)
    BY DEF Used
  <2> QED
    BY <1>2, <2>1, MeaningKept DEF DataInv
<1>4. ~ torn' => Len(export) = 0
  BY WroteTears
<1>5. RestoreInv'
  BY <1>4 DEF DataInv, RestoreInv
<1> QED
  BY <1>1, <1>3, <1>5 DEF DataInv

LEMMA ContractKeepsData ==
  ASSUME DataInv, NEW c \in Contracts, NEW poll \in Polls \cup {Null}, InsertContract(c, poll)
  PROVE  DataInv'
<1> DEFINE old == {r \in db["contracts"] : r.id = c}
           val == IF poll = Null /\ old # {} THEN (CHOOSE r \in old : TRUE).val ELSE poll
           new == [id |-> c, parent |-> Null, val |-> val]
<1>0. db \in [Tables -> SUBSET Row] /\ {"contracts", "entries", "configs", "history"} \subseteq Tables
  BY DEF DataInv, DataTypes, Tables
<1>1. /\ db' = [db EXCEPT !["contracts"] = (@ \ old) \cup {new}]
      /\ Wrote
      /\ UNCHANGED <<seq, export, backup, held, origin, source, crossed>>
  BY DEF InsertContract
<1>2. new \in Row /\ new.id = c
  <2>1. \A r \in Row : r.val \in Keys \cup Polls \cup {Null}
    BY DEF Row
  <2>2. old \subseteq Row
    BY <1>0
  <2>3. val \in Keys \cup Polls \cup {Null}
    BY <2>1, <2>2
  <2> HIDE DEF val
  <2> QED
    BY <2>3 DEF Row
<1>3. Ids(db["contracts"]) \subseteq Ids(db'["contracts"])
  <2> SUFFICES ASSUME NEW r \in db["contracts"] PROVE r.id \in Ids(db'["contracts"])
    BY DEF Ids
  <2>1. db'["contracts"] = (db["contracts"] \ old) \cup {new}
    BY <1>0, <1>1
  <2> HIDE DEF new
  <2>2. CASE r \in old
    BY <1>2, <2>1, <2>2 DEF Ids
  <2>3. CASE r \notin old
    BY <2>1, <2>3 DEF Ids
  <2> QED
    BY <2>2, <2>3
<1> HIDE DEF new, old
<1>4. db' \in [Tables -> SUBSET Row]
  BY <1>0, <1>1, <1>2
<1>5. /\ db'["entries"] = db["entries"] /\ db'["configs"] = db["configs"]
      /\ db'["history"] = db["history"]
  BY <1>0, <1>1
<1> QED
  BY <1>1, <1>3, <1>4, <1>5, OtherTables DEF DataInv, DataTypes, MeaningInv, RestoreInv

LEMMA ConfigKeepsData ==
  ASSUME DataInv,
         \/ \E c \in Contracts : InsertChild("configs", c, Null)
         \/ \E r \in db["configs"] : RemoveConfig(r)
  PROVE  DataInv'
<1>0. db \in [Tables -> SUBSET Row] /\ {"contracts", "entries", "configs", "history", "alerts"} \subseteq Tables
      /\ seq \in [Numbered -> Nat] /\ Numbered = {"entries", "configs"}
      /\ IsFiniteSet(db["configs"]) /\ Ids(db["configs"]) \subseteq Nat
      /\ \A r \in db["configs"] : r.parent \in Ids(db["contracts"])
  BY DEF DataInv, DataTypes, RestoreInv, Tables, Numbered
<1>1. ASSUME NEW c \in Contracts, InsertChild("configs", c, Null) PROVE DataInv'
  <2> DEFINE n == seq["configs"] + 1
             new == [id |-> n, parent |-> c, val |-> Null]
  <2>1. /\ db' = [db EXCEPT !["configs"] = @ \cup {new}]
        /\ seq' = [seq EXCEPT !["configs"] = Max({@, n})]
        /\ c \in Ids(db["contracts"])
        /\ Wrote
        /\ UNCHANGED <<export, backup, held, origin, source, crossed>>
    BY <1>1 DEF InsertChild, NextId
  <2>2. n \in Nat /\ seq["configs"] \in Nat
    BY <1>0
  <2>3. Max({seq["configs"], n}) \in Nat
    BY <2>2 DEF Max
  <2> HIDE DEF n
  <2>4. new \in Row /\ new.id \in Nat /\ new.parent = c
    BY <2>2 DEF Row
  <2> HIDE DEF new
  <2>5. seq' \in [Numbered -> Nat] /\ seq'["entries"] = seq["entries"]
    BY <1>0, <2>1, <2>3
  <2>6. /\ db' \in [Tables -> SUBSET Row]
        /\ db'["entries"] = db["entries"] /\ db'["contracts"] = db["contracts"]
        /\ db'["history"] = db["history"]
        /\ db'["configs"] = db["configs"] \cup {new}
    BY <1>0, <2>1, <2>4
  <2>7. IsFiniteSet(db'["configs"])
    BY <1>0, <2>6, FS_AddElement
  <2>8. Ids(db'["configs"]) \subseteq Nat /\ \A r \in db'["configs"] : r.parent \in Ids(db["contracts"])
    BY <1>0, <2>1, <2>4, <2>6 DEF Ids
  <2> QED
    BY <2>1, <2>5, <2>6, <2>7, <2>8, OtherTables DEF DataInv, MeaningInv
<1>2. ASSUME NEW r \in db["configs"], RemoveConfig(r) PROVE DataInv'
  <2>1. /\ db' = [db EXCEPT !["configs"] = @ \ {r}, !["alerts"] = {a \in @ : a.parent # r.id}]
        /\ Wrote
        /\ UNCHANGED <<seq, export, backup, held, origin, source, crossed>>
    BY <1>2 DEF RemoveConfig
  <2>2. /\ db' \in [Tables -> SUBSET Row]
        /\ db'["entries"] = db["entries"] /\ db'["contracts"] = db["contracts"]
        /\ db'["history"] = db["history"]
        /\ db'["configs"] = db["configs"] \ {r}
    BY <1>0, <2>1
  <2>3. IsFiniteSet(db'["configs"])
    BY <1>0, <2>2, FS_RemoveElement
  <2>4. Ids(db'["configs"]) \subseteq Nat /\ \A q \in db'["configs"] : q.parent \in Ids(db["contracts"])
    BY <1>0, <2>2 DEF Ids
  <2> QED
    BY <1>0, <2>1, <2>2, <2>3, <2>4, OtherTables DEF DataInv, MeaningInv
<1> QED
  BY <1>1, <1>2

\* The only step that gives an id to an entry gives one that nobody knows.
LEMMA EntryKeepsData ==
  ASSUME DataInv, NEW c \in Contracts, NEW k \in Keys, InsertChild("entries", c, k)
  PROVE  DataInv'
<1> DEFINE n == seq["entries"] + 1
           new == [id |-> n, parent |-> c, val |-> k]
<1>0. db \in [Tables -> SUBSET Row] /\ {"contracts", "entries", "configs", "history"} \subseteq Tables
      /\ seq \in [Numbered -> Nat] /\ Numbered = {"entries", "configs"}
  BY DEF DataInv, DataTypes, Tables, Numbered
<1>1. /\ db' = [db EXCEPT !["entries"] = @ \cup {new}]
      /\ seq' = [seq EXCEPT !["entries"] = Max({@, n})]
      /\ c \in Ids(db["contracts"])
      /\ Wrote
      /\ UNCHANGED <<export, backup, held, origin, source, crossed>>
  BY DEF InsertChild, NextId
<1>2. n \in Nat /\ seq["entries"] \in Nat /\ seq["entries"] < n
  BY <1>0
<1>3. Max({seq["entries"], n}) = n
  BY <1>2 DEF Max
<1>4. new \in Row /\ new.id = n /\ new.parent = c /\ new.val = k
  BY <1>2 DEF Row
<1> HIDE DEF n, new
<1>5. seq' \in [Numbered -> Nat] /\ seq'["entries"] = n
  BY <1>0, <1>1, <1>2, <1>3
<1>6. /\ db' \in [Tables -> SUBSET Row]
      /\ db'["configs"] = db["configs"] /\ db'["contracts"] = db["contracts"]
      /\ db'["history"] = db["history"]
      /\ db'["entries"] = db["entries"] \cup {new}
  BY <1>0, <1>1, <1>4
<1>7. DataTypes'
  <2>0. IsFiniteSet(db["entries"])
    BY DEF DataInv, DataTypes
  <2>1. IsFiniteSet(db'["entries"])
    BY <1>6, <2>0, FS_AddElement
  <2>2. Ids(db'["entries"]) \subseteq Nat
    BY <1>2, <1>4, <1>6 DEF DataInv, DataTypes, Ids
  <2> QED
    BY <1>1, <1>5, <1>6, <2>1, <2>2 DEF DataInv, DataTypes
<1>8. \A e, L : Seen(e, L)' => Seen(e, L) \/ (e = new /\ L = origin)
  BY <1>1, <1>6 DEF Seen
<1>9. MeaningInv'
  <2>0. \A e, L : Foreign(e, L)' <=> Foreign(e, L)
    BY DEF Foreign
  <2>1. \A e, L : Seen(e, L) => e.id \in Nat /\ e.id <= n /\ e.id # new.id
    BY <1>2, <1>4 DEF DataInv, MeaningInv
  <2>2. \A e, L : Foreign(e, L) /\ Used(L) => e.id \in Nat /\ e.id <= n /\ e.id # new.id
    BY <1>2, <1>4, ForeignIds DEF DataInv, MeaningInv
  <2>3. ~ crossed => \A h \in db["history"] : h.parent \in Nat /\ h.parent <= n /\ h.parent # new.id
    BY <1>2, <1>4 DEF DataInv, MeaningInv
  <2>4. new.id \in Nat /\ new.id <= n
    BY <1>2, <1>4
  <2>5. \A e, L : Known(e, L)' => Known(e, L) \/ (e = new /\ L = origin)
    BY <1>8, <2>0 DEF Known
  <2>6. \A e : Known(e, origin) => e.id # new.id
    BY <2>1, <2>2 DEF Known, Used
  <2>7. \A e, L : Seen(e, L)' => e.id \in Nat /\ e.id <= seq'["entries"]
    BY <1>5, <1>8, <2>1, <2>4
  <2>8. \A e, L : Foreign(e, L)' /\ Used(L)' => e.id <= seq'["entries"]
    BY <1>1, <1>5, <2>0, <2>2 DEF Used
  <2>9. \A d, e, L : Known(d, L)' /\ Known(e, L)' /\ d.id = e.id => d.val = e.val
    BY <2>5, <2>6 DEF DataInv, MeaningInv
  <2>10. ~ crossed =>
             \A h \in db'["history"] :
                 /\ h.parent \in Nat /\ h.parent <= seq'["entries"]
                 /\ \A e : Known(e, origin)' /\ e.id = h.parent => e.val = h.val
    <3> SUFFICES ASSUME ~ crossed, NEW h \in db["history"]
                 PROVE  /\ h.parent \in Nat /\ h.parent <= n
                        /\ \A e : Known(e, origin)' /\ e.id = h.parent => e.val = h.val
      BY <1>5, <1>6
    <3>1. h.parent \in Nat /\ h.parent <= n /\ h.parent # new.id
      BY <2>3
    <3>2. \A e : Known(e, origin) /\ e.id = h.parent => e.val = h.val
      BY DEF DataInv, MeaningInv
    <3>3. \A e : Known(e, origin)' => Known(e, origin) \/ e = new
      BY <1>1, <2>5
    <3> QED
      BY <3>1, <3>2, <3>3
  <2> QED
    BY <1>1, <2>7, <2>8, <2>9, <2>10 DEF MeaningInv
<1>10. RestoreInv'
  <2>1. ~ torn' => Len(export) = 0
    BY <1>1, WroteTears
  <2> QED
    BY <1>1, <1>4, <1>6, <2>1 DEF DataInv, RestoreInv
<1> QED
  BY <1>7, <1>9, <1>10 DEF DataInv

LEMMA MonitorKeepsData ==
  ASSUME DataInv, (\E c \in Contracts : MonitorReads(c)) \/ \E r \in held : MonitorWrites(r)
  PROVE  DataInv'
<1>0. db \in [Tables -> SUBSET Row] /\ {"contracts", "entries", "configs", "history", "alerts"} \subseteq Tables
      /\ held \subseteq Row
  BY DEF DataInv, DataTypes, Tables
<1>1. ASSUME NEW c \in Contracts, MonitorReads(c) PROVE DataInv'
  <2>1. /\ UNCHANGED <<db, seq, export, torn, backup, origin, source, crossed>>
        /\ held' \subseteq db["entries"]
    BY <1>1 DEF MonitorReads
  <2>2. DataTypes'
    BY <1>0, <2>1 DEF DataInv, DataTypes
  <2>3. \A e, L : Seen(e, L)' => Seen(e, L)
    BY <2>1 DEF Seen
  <2>4. MeaningInv'
    BY <2>1, <2>3, MeaningKept DEF DataInv, MeaningInv, Used
  <2>5. RestoreInv'
    BY <2>1 DEF DataInv, RestoreInv
  <2> QED
    BY <2>2, <2>4, <2>5 DEF DataInv
<1>2. ASSUME NEW r \in held, MonitorWrites(r) PROVE DataInv'
  <2>1. UNCHANGED <<seq, export, backup, origin, source, crossed>> /\ held' = {}
    BY <1>2 DEF MonitorWrites
  <2>2. CASE UNCHANGED <<db, torn>>
    <3>1. DataTypes'
      BY <2>1, <2>2 DEF DataInv, DataTypes
    <3>2. \A e, L : Seen(e, L)' => Seen(e, L)
      BY <2>1, <2>2 DEF Seen
    <3>3. MeaningInv'
      BY <2>1, <2>2, <3>2, MeaningKept DEF DataInv, MeaningInv, Used
    <3>4. RestoreInv'
      BY <2>1, <2>2 DEF DataInv, RestoreInv
    <3> QED
      BY <3>1, <3>3, <3>4 DEF DataInv
  <2>3. CASE r.id \in Ids(db["entries"])
    <3> DEFINE seen == [id |-> r.id, parent |-> r.id, val |-> r.val]
               fired == {[id |-> g.id, parent |-> g.id, val |-> Null] :
                             g \in {h \in db["configs"] : h.parent = r.parent}}
    <3>1. /\ db' = [db EXCEPT !["history"] = @ \cup {seen}, !["alerts"] = @ \cup fired]
          /\ Wrote
      BY <1>2, <2>3 DEF MonitorWrites
    <3>2. r \in Row /\ (~ crossed => Seen(r, origin) /\ r.id \in Nat /\ r.id <= seq["entries"])
      BY <1>0 DEF Seen, DataInv, MeaningInv
    <3>3. seen \in Row /\ seen.parent = r.id /\ seen.val = r.val
      BY <3>2 DEF Row
    <3>4. fired \subseteq Row
      <4>1. db["configs"] \subseteq Row
        BY <1>0
      <4>2. \A g \in Row : [id |-> g.id, parent |-> g.id, val |-> Null] \in Row
        BY DEF Row
      <4> QED
        BY <4>1, <4>2
    <3> HIDE DEF seen, fired
    <3>5. /\ db' \in [Tables -> SUBSET Row]
          /\ db'["entries"] = db["entries"] /\ db'["contracts"] = db["contracts"]
          /\ db'["configs"] = db["configs"]
          /\ db'["history"] = db["history"] \cup {seen}
      BY <1>0, <3>1, <3>3, <3>4
    <3>6. ~ crossed =>
              \A h \in db'["history"] :
                  /\ h.parent \in Nat /\ h.parent <= seq["entries"]
                  /\ \A e : Known(e, origin) /\ e.id = h.parent => e.val = h.val
      BY <3>2, <3>3, <3>5 DEF DataInv, MeaningInv, Known
    <3> QED
      BY <2>1, <3>1, <3>5, <3>6, OtherTables DEF DataInv, DataTypes, RestoreInv
  <2> QED
    BY <1>2, <2>2, <2>3 DEF MonitorWrites
<1> QED
  BY <1>1, <1>2

\* A table is added to the export; the last one completes the backup.
LEMMA ExportKeepsData ==
  ASSUME DataInv, ExportTable
  PROVE  DataInv'
<1> DEFINE n == Len(export) + 1
           done == Append(export, db[ExportTables[n]])
<1>0. /\ db \in [Tables -> SUBSET Row] /\ {"contracts", "entries", "configs"} \subseteq Tables
      /\ export \in Seq(SUBSET Row) /\ Len(export) \in {0, 1, 2}
      /\ Counted(db["entries"]) /\ Counted(db["configs"])
  BY DEF DataInv, DataTypes, Tables, Counted
<1>1. /\ n \in 1 .. 3 /\ db[ExportTables[n]] \in SUBSET Row
      /\ done \in Seq(SUBSET Row) /\ Len(done) = n
      /\ done[n] = db[ExportTables[n]]
      /\ \A i \in 1 .. Len(export) : done[i] = export[i]
  <2>0. Len(export) = 0 \/ Len(export) = 1 \/ Len(export) = 2
    BY <1>0
  <2>1. n \in 1 .. 3
    <3>1. CASE Len(export) = 0
      BY <3>1
    <3>2. CASE Len(export) = 1
      BY <3>2
    <3>3. CASE Len(export) = 2
      BY <3>3
    <3> QED
      BY <2>0, <3>1, <3>2, <3>3
  <2>2. db[ExportTables[n]] \in SUBSET Row
    BY <1>0, <2>1, SchemaFacts
  <2> HIDE DEF n
  <2>3. done \in Seq(SUBSET Row) /\ Len(done) = Len(export) + 1
    BY <1>0, <2>2
  <2> QED
    BY <1>0, <2>1, <2>2, <2>3 DEF n
<1>2. UNCHANGED <<db, seq, held, origin, crossed>>
  BY DEF ExportTable
<1>3. ~ torn => \A i \in 1 .. n : done[i] = db[ExportTables[i]]
  <2>1. ~ torn => \A i \in 1 .. Len(export) : export[i] = db[ExportTables[i]]
    BY DEF DataInv, RestoreInv
  <2> HIDE DEF done
  <2> QED
    BY <1>0, <1>1, <2>1
<1>4. /\ n >= 2 => Counted(done[2])
      /\ n = 3 => Counted(done[3])
  <2>1. CASE n = 1
    BY <2>1
  <2>2. CASE n = 2
    BY <1>0, <1>1, <2>2, SchemaFacts
  <2>3. CASE n = 3
    <3>0. Len(export) = 0 \/ Len(export) = 1 \/ Len(export) = 2
      BY <1>0
    <3>1. Len(export) = 2
      BY <2>3, <3>0
    <3>2. Counted(export[2])
      BY <3>1 DEF DataInv, DataTypes
    <3> HIDE DEF done, n
    <3>3. done[2] = export[2]
      BY <1>1, <3>1
    <3> QED
      BY <1>0, <1>1, <2>3, <3>2, <3>3, SchemaFacts
  <2> QED
    BY <1>1, <2>1, <2>2, <2>3
\* The entries in the export are those of the database it names.
<1>5. /\ n = 2 => \A e \in done[2] : Seen(e, origin)
      /\ n = 3 => \A e \in done[2] : Seen(e, source)
  <2>1. CASE n = 2
    BY <1>1, <2>1, SchemaFacts DEF Seen
  <2>2. CASE n = 3
    <3>0. Len(export) = 0 \/ Len(export) = 1 \/ Len(export) = 2
      BY <1>0
    <3>1. Len(export) = 2
      BY <2>2, <3>0
    <3> HIDE DEF done, n
    <3>2. done[2] = export[2]
      BY <1>1, <3>1
    <3> QED
      BY <2>2, <3>1, <3>2 DEF Seen
  <2> QED
    BY <1>1, <2>1, <2>2
<1>6. CASE n = 3
  <2>1. /\ backup' = [tables |-> done, torn |-> torn, of |-> source]
        /\ export' = << >> /\ torn' = FALSE /\ source' = Null
    BY <1>1, <1>6, SchemaFacts DEF ExportTable
  <2> HIDE DEF done, n
  <2>2. backup'.tables = done /\ backup'.torn = torn /\ backup'.of = source /\ Len(export') = 0
        /\ export' \in Seq(SUBSET Row)
    BY <2>1
  <2>3. DataTypes'
    BY <1>1, <1>2, <1>4, <1>6, <2>2 DEF DataInv, DataTypes, IsFile
  <2>4. \A e, L : Seen(e, L)' => Seen(e, L)
    BY <1>2, <1>5, <1>6, <2>2 DEF Seen
  <2>5. MeaningInv'
    <3>1. \A L : Used(L)' => Used(L) \/ L = Null
      BY <1>2, <2>1, <2>2 DEF Used
    <3> QED
      BY <1>2, <2>4, <3>1, MeaningKept DEF DataInv, MeaningInv
  <2>6. ~ torn => Closed(done)
    <3>1. ~ torn => done[1] = db["contracts"] /\ done[2] = db["entries"] /\ done[3] = db["configs"]
      BY <1>3, <1>6, SchemaFacts
    <3> QED
      BY <3>1 DEF Closed, DataInv, RestoreInv
  <2>7. RestoreInv'
    BY <1>2, <2>1, <2>2, <2>6 DEF DataInv, RestoreInv
  <2> QED
    BY <2>3, <2>5, <2>7 DEF DataInv
<1>7. CASE n # 3
  <2>1. /\ export' = done /\ UNCHANGED <<backup, torn>>
        /\ n = 2 => source' = origin
        /\ source' = origin \/ source' = source
    BY <1>1, <1>7, SchemaFacts DEF ExportTable
  <2>2. n \in 1 .. 2
    BY <1>1, <1>7
  <2> HIDE DEF done, n
  <2>3. DataTypes'
    <3>1. /\ export' \in Seq(SUBSET Row) /\ Len(export') \in {0, 1, 2}
          /\ Len(export') = 2 => Counted(export'[2])
      BY <1>1, <1>4, <2>1, <2>2
    <3> QED
      BY <1>2, <2>1, <3>1 DEF DataInv, DataTypes
  <2>4. \A e, L : Seen(e, L)' => Seen(e, L)
    <3>1. Len(export') = 2 => n = 2
      BY <1>1, <2>1
    <3> QED
      BY <1>2, <1>5, <2>1, <3>1 DEF Seen
  <2>5. MeaningInv'
    <3>1. \A L : Used(L)' => Used(L)
      BY <1>2, <2>1 DEF Used
    <3> QED
      BY <1>2, <2>4, <3>1, MeaningKept DEF DataInv, MeaningInv
  <2>6. RestoreInv'
    BY <1>1, <1>2, <1>3, <2>1 DEF DataInv, RestoreInv
  <2> QED
    BY <2>3, <2>5, <2>6 DEF DataInv
<1> QED
  BY <1>6, <1>7

\* What is known of a file there is to import.
LEMMA FilesAreKnown ==
  ASSUME DataInv, NEW f \in Files
  PROVE  /\ IsFile(f.tables) /\ Counted(f.tables[2]) /\ Counted(f.tables[3])
         /\ ~ f.torn => Closed(f.tables)
         /\ \A e \in f.tables[2] : Known(e, f.of)
<1>1. CASE f \in OtherFiles
  <2>1. IsExport(f)
    BY <1>1, BackupAssumption
  <2>2. IsFile(f.tables)
    BY <2>1, SchemaFacts DEF IsExport, IsFile
  <2>3. f.tables[2] \subseteq Row /\ f.tables[3] \subseteq Row
    BY <2>2 DEF IsFile
  <2>4. Counted(f.tables[2]) /\ Counted(f.tables[3])
    BY <2>1, <2>3 DEF IsExport, Counted
  <2>5. ~ f.torn => Closed(f.tables)
    BY <2>1 DEF IsExport, Closed
  <2>6. \A e \in f.tables[2] : Known(e, f.of)
    BY <1>1 DEF Known, Foreign
  <2> QED
    BY <2>2, <2>4, <2>5, <2>6
<1>2. CASE f = backup /\ backup # Null
  <2>1. IsFile(backup.tables) /\ Counted(backup.tables[2]) /\ Counted(backup.tables[3])
    BY <1>2 DEF DataInv, DataTypes
  <2>2. ~ backup.torn => Closed(backup.tables)
    BY <1>2 DEF DataInv, RestoreInv
  <2>3. \A e \in backup.tables[2] : Known(e, backup.of)
    BY <1>2 DEF Known, Seen
  <2> QED
    BY <1>2, <2>1, <2>2, <2>3
<1> QED
  BY <1>1, <1>2 DEF Files

\* An import brings back ids with the meaning they had in the database they are of, and
\* goes on above them.
LEMMA ImportKeepsData ==
  ASSUME DataInv, NEW f \in Files, Import(f)
  PROVE  DataInv'
<1> DEFINE file == f.tables
           new == Imported(file)
<1>0. /\ UNCHANGED <<export, source, backup, held>>
      /\ IsFile(file) /\ Counted(file[2]) /\ Counted(file[3])
      /\ \A e \in file[2] : Known(e, f.of)
  BY FilesAreKnown DEF Import
<1>1. CASE new = Failed
  <2>1. UNCHANGED <<db, seq, torn, origin, crossed>>
    BY <1>1 DEF Import
  <2> HIDE DEF file, new
  <2>2. \A e, L : Seen(e, L)' => Seen(e, L)
    BY <1>0, <2>1 DEF Seen
  <2>3. DataTypes'
    BY <1>0, <2>1 DEF DataInv, DataTypes
  <2>4. MeaningInv'
    BY <1>0, <2>1, <2>2, MeaningKept DEF DataInv, MeaningInv, Used
  <2>5. RestoreInv'
    BY <1>0, <2>1 DEF DataInv, RestoreInv
  <2> QED
    BY <2>3, <2>4, <2>5 DEF DataInv
<1>2. CASE new # Failed
  <2>1. /\ db' = new /\ Wrote
        /\ seq' = [t \in Numbered |-> Max({seq[t]} \cup Ids(new[t]))]
        /\ origin' = f.of
        /\ crossed' = (held # {} /\ (crossed \/ f.of # origin))
    BY <1>2 DEF Import
  <2>2. /\ Closed(file)
        /\ new["contracts"] = RowsOf(file, "contracts")
        /\ new["entries"] = file[2] /\ new["configs"] = file[3]
        /\ new["history"] = {} /\ new["alerts"] = {}
        /\ new = [t \in Tables |-> new[t]]
    BY <1>0, <1>2, ImportedIsTheFile, RowsOfFile DEF Tables
  <2>3. new \in [Tables -> SUBSET Row]
    <3>1. /\ new["contracts"] \subseteq Row /\ new["entries"] \subseteq Row
          /\ new["configs"] \subseteq Row
      BY <1>0, <2>2, RestoredIds DEF Counted
    <3> HIDE DEF new
    <3>2. \A t \in Tables : new[t] \subseteq Row
      BY <2>2, <3>1 DEF Tables
    <3> QED
      BY <2>2, <3>2
  <2>4. /\ \A t \in Numbered : seq'[t] \in Nat
        /\ seq["entries"] \in Nat /\ seq["entries"] <= seq'["entries"]
        /\ \A e \in file[2] : e.id <= seq'["entries"]
    <3>1. \A t \in Numbered : IsFiniteSet(new[t]) /\ Ids(new[t]) \subseteq Nat
      BY <1>0, <2>2 DEF Numbered, Counted
    <3>2. seq \in [Numbered -> Nat] /\ "entries" \in Numbered
      BY DEF DataInv, DataTypes, Numbered
    <3> HIDE DEF new
    <3>3. \A t \in Numbered : LET m == Max({seq[t]} \cup Ids(new[t]))
                               IN  m \in Nat /\ seq[t] <= m /\ \A r \in new[t] : r.id <= m
      BY <3>1, <3>2, GreatestId
    <3>4. \A t \in Numbered : seq'[t] \in Nat /\ seq[t] <= seq'[t] /\ \A r \in new[t] : r.id <= seq'[t]
      BY <2>1, <3>3
    <3> QED
      BY <2>2, <3>2, <3>4
  <2>5. seq' \in [Numbered -> Nat]
    BY <2>1, <2>4
  <2> HIDE DEF new
  <2>6. DataTypes'
    BY <1>0, <2>1, <2>2, <2>3, <2>5 DEF DataInv, DataTypes, Counted
  <2>7. \A e, L : Known(e, L)' => Known(e, L)
    <3>1. \A e, L : Foreign(e, L)' => Foreign(e, L)
      BY DEF Foreign
    <3>2. ~ crossed' /\ held # {} => ~ crossed /\ origin' = origin
      BY <2>1
    <3>3. \A e, L : Seen(e, L)' => Known(e, L)
      BY <1>0, <2>1, <2>2, <3>2 DEF Seen, Known
    <3> QED
      BY <3>1, <3>3 DEF Known
  <2>8. MeaningInv'
    <3>0. seq'["entries"] \in Nat
      BY <2>4 DEF Numbered
    <3>1. \A e, L : Seen(e, L)' => e.id \in Nat /\ e.id <= seq'["entries"]
      <4> SUFFICES ASSUME NEW e, NEW L, Seen(e, L)'
                   PROVE  e.id \in Nat /\ e.id <= seq'["entries"]
        OBVIOUS
      <4>1. CASE Seen(e, L)
        <5>1. e.id \in Nat /\ e.id <= seq["entries"]
          BY <4>1 DEF DataInv, MeaningInv
        <5> QED
          BY <2>4, <3>0, <5>1
      <4>2. CASE e \in file[2]
        <5>1. e.id \in Nat
          BY <1>0, <4>2 DEF Counted, Ids
        <5> QED
          BY <2>4, <4>2, <5>1
      <4>3. ~ crossed' /\ held # {} => ~ crossed /\ origin' = origin
        BY <2>1
      <4>4. Seen(e, L) \/ e \in file[2]
        BY <1>0, <2>1, <2>2, <4>3 DEF Seen
      <4> QED
        BY <4>1, <4>2, <4>4
    <3>2. \A e, L : Foreign(e, L)' /\ Used(L)' => e.id <= seq'["entries"]
      <4> SUFFICES ASSUME NEW e, NEW L, Foreign(e, L), Used(L)'
                   PROVE  e.id <= seq'["entries"]
        BY DEF Foreign
      <4>1. CASE L = f.of /\ f \in OtherFiles
        <5>1. e \in file[2]
          BY <4>1, BackupAssumption DEF Foreign
        <5> QED
          BY <2>4, <5>1
      <4>2. CASE Used(L)
        <5>1. e.id \in Nat /\ e.id <= seq["entries"]
          BY <4>2, ForeignIds DEF DataInv, MeaningInv
        <5> QED
          BY <2>4, <3>0, <5>1
      <4>3. Used(L) \/ L = f.of
        BY <1>0, <2>1 DEF Used
      <4>4. f \in OtherFiles \/ Used(f.of)
        BY DEF Files, Used
      <4> QED
        BY <4>1, <4>2, <4>3, <4>4
    <3>3. \A d, e, L : Known(d, L)' /\ Known(e, L)' /\ d.id = e.id => d.val = e.val
      BY <2>7 DEF DataInv, MeaningInv
    <3> QED
      BY <2>1, <2>2, <3>1, <3>2, <3>3 DEF MeaningInv
  <2>9. RestoreInv'
    <3>1. \A r \in db'["entries"] \cup db'["configs"] : r.parent \in Ids(db'["contracts"])
      <4>1. Ids(db'["contracts"]) = Ids(file[1])
        BY <1>0, <2>1, <2>2, RestoredIds
      <4> QED
        BY <2>1, <2>2, <4>1 DEF Closed
    <3>2. ~ torn' => Len(export) = 0
      BY <2>1, WroteTears
    <3> QED
      BY <1>0, <3>1, <3>2 DEF DataInv, RestoreInv
  <2> QED
    BY <2>6, <2>8, <2>9 DEF DataInv
<1> QED
  BY <1>1, <1>2

\* The columns the copy names are all there are.
LEMMA CopyIsExact ==
  ASSUME DataTypes
  PROVE  Copied(db["configs"]) = db["configs"]
<1>1. db["configs"] \subseteq Row
  BY DEF DataTypes, Tables
<1>2. \A r \in Row : [id |-> r.id, parent |-> r.parent, val |-> r.val] = r
  BY DEF Row
<1>3. \A r \in db["configs"] : [id |-> r.id, parent |-> r.parent, val |-> r.val] = r
  BY <1>1, <1>2
<1>4. Copied(db["configs"]) = {r : r \in db["configs"]}
  BY <1>3 DEF Copied
<1> QED
  BY <1>4

\* The transaction of the rebuild runs on a connection that does not enforce foreign
\* keys: the drop deletes no row that refers to the table.
LEMMA OpeningLosesNothing ==
  ASSUME OpenInv, DataTypes, NEW p \in Procs, Opening(p) \/ Stop(p)
  PROVE  UNCHANGED db
<1>1. CASE Rebuild(p)
  <2>1. ~ enforce[p]
    BY <1>1 DEF Rebuild, OpenInv, Opened
  <2>2. Rebuilt(db, enforce[p]) = [[db EXCEPT !["configs"] = {}] EXCEPT !["configs"] = db["configs"]]
    BY <2>1, CopyIsExact DEF Rebuilt, Dropped
  <2>3. Rebuilt(db, enforce[p]) = db
    BY <2>2 DEF DataTypes, Tables
  <2> QED
    BY <1>1, <2>3 DEF Rebuild
<1>2. CASE ~ Rebuild(p)
  BY <1>2 DEF Opening, Start, ExecSchema, ReadPending, Migrate, MigrationsDone, Alter, Check,
         ForeignKeysOff, ForeignKeysOn, Stop, backupVars
<1> QED
  BY <1>1, <1>2

\* Opening a file, and being stopped, touch no row and forget at most an export.
LEMMA OpeningKeepsData ==
  ASSUME OpenInv, DataInv, NEW p \in Procs, Opening(p) \/ Stop(p)
  PROVE  DataInv'
<1>1. CASE UNCHANGED backupVars
  BY <1>1 DEF backupVars, DataInv, DataTypes, MeaningInv, Known, Seen, Foreign, Used, RestoreInv
<1>2. CASE Rebuild(p) /\ ~ UNCHANGED backupVars
  <2>1. /\ UNCHANGED <<db, export, torn, backup, held, origin, source, crossed>>
        /\ \/ UNCHANGED seq
           \/ seq' = [seq EXCEPT !["configs"] = Max(Ids(db["configs"]) \cup {0})]
    BY <1>2, OpeningLosesNothing, CopyIsExact DEF Rebuild, DataInv
  <2>2. Max(Ids(db["configs"]) \cup {0}) \in Nat
    <3>1. Ids(db["configs"]) \cup {0} = {0} \cup Ids(db["configs"])
      OBVIOUS
    <3>2. IsFiniteSet(db["configs"]) /\ Ids(db["configs"]) \subseteq Nat
      BY DEF DataInv, DataTypes
    <3> QED
      BY <3>1, <3>2, GreatestId
  <2>3. seq' \in [Numbered -> Nat] /\ seq'["entries"] = seq["entries"]
    BY <2>1, <2>2 DEF DataInv, DataTypes, Numbered
  <2>4. DataTypes'
    BY <2>1, <2>3 DEF DataInv, DataTypes
  <2>5. MeaningInv' /\ RestoreInv'
    BY <2>1, <2>3 DEF DataInv, MeaningInv, Known, Seen, Foreign, Used, RestoreInv
  <2> QED
    BY <2>4, <2>5 DEF DataInv
<1>3. CASE Stop(p)
  <2>1. /\ UNCHANGED <<db, seq, backup, origin, crossed>>
        /\ source' = source \/ source' = Null
        /\ \/ export' = export /\ torn' = torn /\ source' = source
           \/ export' = << >> /\ torn' = FALSE
        /\ held' = held \/ held' = {}
    BY <1>3 DEF Stop
  <2>2. << >> \in Seq(SUBSET Row) /\ Len(<< >>) = 0
    OBVIOUS
  <2>3. DataTypes'
    <3>1. held' \subseteq Row
      BY <2>1 DEF DataInv, DataTypes
    <3>2. /\ export' \in Seq(SUBSET Row) /\ Len(export') \in {0, 1, 2}
          /\ Len(export') = 2 => Counted(export'[2])
      <4>1. CASE export' = export
        BY <4>1 DEF DataInv, DataTypes
      <4>2. CASE export' = << >>
        BY <2>2, <4>2
      <4> QED
        BY <2>1, <4>1, <4>2
    <3> QED
      BY <2>1, <3>1, <3>2 DEF DataInv, DataTypes
  <2>4. \A e, L : Seen(e, L)' => Seen(e, L)
    BY <2>1, <2>2 DEF Seen
  <2>5. MeaningInv'
    BY <2>1, <2>4, MeaningKept DEF DataInv, MeaningInv, Used
  <2>6. RestoreInv'
    BY <2>1, <2>2 DEF DataInv, RestoreInv
  <2> QED
    BY <2>3, <2>5, <2>6 DEF DataInv
<1> QED
  BY <1>1, <1>2, <1>3 DEF Opening, Start, ExecSchema, ReadPending, Migrate, MigrationsDone,
         Alter, Check, ForeignKeysOff, ForeignKeysOn

LEMMA DataInvHolds == Spec => []DataInv
<1>1. Init => DataInv
  BY FilesStartOrderly, NewFileIsOrderly, StoreAssumption DEF Init, DataInv
<1>2. OpenInv /\ DataInv /\ [Next]_vars => DataInv'
  <2> SUFFICES ASSUME OpenInv, DataInv, [Next]_vars PROVE DataInv'
    OBVIOUS
  <2>1. CASE Work
    BY <2>1, ContractKeepsData, ConfigKeepsData, EntryKeepsData, MonitorKeepsData,
       ExportKeepsData, ImportKeepsData DEF Work
  <2>2. CASE \E p \in Procs : Opening(p) \/ Stop(p)
    BY <2>2, OpeningKeepsData
  <2>3. CASE UNCHANGED vars
    BY <2>3 DEF vars, backupVars, DataInv, DataTypes, MeaningInv, Known, Seen, Foreign, Used, RestoreInv
  <2> QED
    BY <2>1, <2>2, <2>3 DEF Next
<1> QED
  BY <1>1, <1>2, OpenInvHolds, PTL DEF Spec

\* Bringing a file up to date loses no row, for any rows and wherever a process stops:
\* the connection that drops the table does not enforce foreign keys then, and the copy
\* has taken over every column of every row.
THEOREM OpeningKeepsRowsHolds == Spec => OpeningKeepsRows
<1>1. OpenInv /\ DataInv /\ [Next]_vars =>
          [(\E p \in Procs : Opening(p) \/ Stop(p)) => UNCHANGED db]_vars
  BY OpeningLosesNothing DEF DataInv
<1> QED
  BY <1>1, OpenInvHolds, DataInvHolds, PTL DEF Spec, OpeningKeepsRows

\* What a monitor writes after an await is recorded under the entry it saw, for any
\* rows, imports of any files, exports and stops: an id of this database, or of one
\* whose file was imported, never comes to mean another entry of it. Only a monitor that
\* holds rows while those of another database take their place is at risk.
THEOREM IdsKeepTheirMeaningHolds == Spec => []IdsKeepTheirMeaning
<1>1. DataInv => IdsKeepTheirMeaning
  BY DEF DataInv, MeaningInv, Known, Seen, IdsKeepTheirMeaning
<1> QED
  BY <1>1, DataInvHolds, PTL

\* A file nothing wrote into while it was made can be imported at any later time, into
\* any database and whatever the tables hold then, and puts back what it holds.
THEOREM CleanBackupRestoresHolds == Spec => CleanBackupRestores
<1>1. DataInv /\ [Next]_vars =>
          [\A f \in Files : (Import(f) /\ ~ f.torn) =>
               \A i \in DOMAIN ExportTables : LET t == ExportTables[i] IN
                   db'[t] = {IF t = "contracts" THEN [r EXCEPT !.val = Null] ELSE r :
                                 r \in f.tables[i]}]_backupVars
  <2> SUFFICES ASSUME DataInv, NEW f \in Files, Import(f), ~ f.torn,
                      NEW i \in DOMAIN ExportTables, NEW t, t = ExportTables[i]
               PROVE  db'[t] = {IF t = "contracts" THEN [r EXCEPT !.val = Null] ELSE r :
                                    r \in f.tables[i]}
    OBVIOUS
  <2> DEFINE file == f.tables
  <2>1. IsFile(file) /\ Closed(file)
    BY FilesAreKnown
  <2>2. Imported(file) # Failed
    BY <2>1, ImportedIsTheFile
  <2>3. db' = Imported(file)
    BY <2>2 DEF Import
  <2>4. t \in Tables /\ t \in {"contracts", "entries", "configs"} /\ i \in {1, 2, 3}
    BY SchemaFacts DEF Tables
  <2>5. db'[t] = RowsOf(file, t)
    BY <2>1, <2>2, <2>3, <2>4, ImportedIsTheFile
  <2>6. RowsOf(file, t) = {Columns(t, r) : r \in file[i]}
    <3>1. (CHOOSE j \in DOMAIN ExportTables : ExportTables[j] = t) = i
      BY SchemaFacts
    <3> QED
      BY <3>1 DEF RowsOf
  <2> QED
    BY <2>5, <2>6 DEF Columns
<1> QED
  BY <1>1, DataInvHolds, PTL DEF Spec, CleanBackupRestores

-----------------------------------------------------------------------------
(* The rent formula.                                                           *)

\* What a quotient bounds.
LEMMA Quotient ==
  ASSUME NEW a \in Int, NEW b \in Nat \ {0}
  PROVE  /\ a \div b \in Int
         /\ b * (a \div b) <= a
         /\ a < b * (a \div b) + b
         /\ a >= 0 => a \div b >= 0
BY SMTT(30)

\* Of numbers whose products are less than one factor apart, none is above the other.
LEMMA LessTimes ==
  ASSUME NEW b \in Nat \ {0}, NEW q \in Int, NEW y \in Int, b * q < b * y + b
  PROVE  q <= y
<1> SUFFICES ASSUME q >= y + 1 PROVE FALSE
  OBVIOUS
<1>1. b * q >= b * (y + 1)
  BY SMTT(30)
<1> QED
  BY <1>1, SMTT(30)

\* A product grows with its factors.
LEMMA TimesMonotonic ==
  ASSUME NEW k \in Nat, NEW x \in Nat, NEW y \in Nat, x <= y
  PROVE  k * x <= k * y /\ k * x \in Nat /\ x * k <= y * k
BY SMTT(30)

\* A quotient rounded up is the least number that is enough.
LEMMA RoundedUp ==
  ASSUME NEW x \in Nat, NEW b \in Nat \ {0}
  PROVE  /\ CeilDiv(x, b) \in Nat
         /\ x <= b * CeilDiv(x, b)
         /\ \A y \in Nat : x <= b * y => CeilDiv(x, b) <= y
<1> DEFINE q == (x + b - 1) \div b
<1>1. q \in Nat /\ b * q <= x + b - 1 /\ x + b - 1 < b * q + b /\ b * q \in Int
  BY Quotient
<1> HIDE DEF q
<1>2. ASSUME NEW y \in Nat, x <= b * y
      PROVE  q <= y
  <2>1. b * y \in Int /\ b * q < b * y + b
    BY <1>1, <1>2
  <2> QED
    BY <1>1, <2>1, LessTimes
<1>3. x <= b * q
  BY <1>1
<1> QED
  BY <1>1, <1>2, <1>3 DEF CeilDiv, q

\* It grows with what is divided.
LEMMA RoundedUpGrows ==
  ASSUME NEW x \in Nat, NEW y \in Nat, NEW b \in Nat \ {0}, x <= y
  PROVE  CeilDiv(x, b) <= CeilDiv(y, b)
<1>1. CeilDiv(y, b) \in Nat /\ y <= b * CeilDiv(y, b)
  BY RoundedUp
<1>2. b * CeilDiv(y, b) \in Int
  BY <1>1
<1>3. x <= b * CeilDiv(y, b)
  BY <1>1, <1>2
<1> QED
  BY <1>1, <1>3, RoundedUp

\* Rounding up once gives no more than rounding up each of several parts.
LEMMA RoundedUpOfTimes ==
  ASSUME NEW x \in Nat, NEW k \in Nat, NEW b \in Nat \ {0}
  PROVE  CeilDiv(k * x, b) <= k * CeilDiv(x, b)
<1> DEFINE c == CeilDiv(x, b)
<1>1. c \in Nat /\ x <= b * c
  BY RoundedUp
<1> HIDE DEF c
<1>2. b * c \in Nat /\ k * c \in Nat /\ k * x \in Nat
  BY <1>1
<1>3. k * x <= k * (b * c)
  BY <1>1, <1>2, TimesMonotonic
<1>4. k * (b * c) = b * (k * c)
  BY <1>1
<1>5. k * x <= b * (k * c)
  BY <1>3, <1>4
<1> QED
  BY <1>2, <1>5, RoundedUp DEF c

-----------------------------------------------------------------------------

\* The numbers of the formula, none of its divisors zero.
RentNumbers ==
  /\ LedgersNum \in Nat /\ FeePerIncrement \in Nat
  /\ LedgersDen \in Nat \ {0} /\ CodeDiscount \in Nat \ {0}
  /\ \A t : Increment * Rate(t) \in Nat \ {0} /\ Increment \in Nat \ {0} /\ Rate(t) \in Nat \ {0}

\* They are what the assumption says.
LEMMA RentNumbersHold == RentNumbers
<1>1. {LedgersDen, Increment, PersistentRate, TemporaryRate, CodeDiscount} \subseteq Nat \ {0}
  BY RentAssumption
<1>2. \A a, b \in Nat \ {0} : a * b \in Nat \ {0}
  <2> SUFFICES ASSUME NEW a \in Nat \ {0}, NEW b \in Nat \ {0} PROVE a * b >= 1 /\ a * b \in Nat
    OBVIOUS
  <2>1. a * 1 <= a * b
    BY TimesMonotonic
  <2> QED
    BY <2>1
<1>3. \A t : Rate(t) \in Nat \ {0}
  BY <1>1 DEF Rate
<1> QED
  BY <1>1, <1>2, <1>3, RentAssumption DEF RentNumbers

\* The ledgers of some days: enough, more for more days, and of a multiple of the
\* days at most as many times as many.
LEMMA Ledgers ==
  ASSUME NEW d \in Nat
  PROVE  /\ LedgerCount(d) \in Nat
         /\ d * LedgersNum <= LedgersDen * LedgerCount(d)
         /\ \A e \in Nat : d <= e => LedgerCount(d) <= LedgerCount(e)
         /\ \A k \in Nat : LedgerCount(k * d) <= k * LedgerCount(d)
<1>1. LedgersNum \in Nat /\ LedgersDen \in Nat \ {0}
  BY RentNumbersHold DEF RentNumbers
<1>2. d * LedgersNum \in Nat
  BY <1>1
<1>3. ASSUME NEW e \in Nat, d <= e
      PROVE  LedgerCount(d) <= LedgerCount(e)
  <2>1. e * LedgersNum \in Nat /\ d * LedgersNum <= e * LedgersNum
    BY <1>1, <1>3, TimesMonotonic
  <2> QED
    BY <1>1, <1>2, <2>1, RoundedUpGrows DEF LedgerCount
<1>4. ASSUME NEW k \in Nat
      PROVE  LedgerCount(k * d) <= k * LedgerCount(d)
  <2>1. (k * d) * LedgersNum = k * (d * LedgersNum)
    BY <1>1
  <2> QED
    BY <1>1, <1>2, <2>1, RoundedUpOfTimes DEF LedgerCount
<1> QED
  BY <1>1, <1>2, <1>3, <1>4, RoundedUp DEF LedgerCount

\* The same of the fee before the discount.
LEMMA FullFees ==
  ASSUME NEW s \in Nat, NEW d \in Nat, NEW t
  PROVE  /\ FullFee(s, d, t) \in Nat
         /\ s * FeePerIncrement * d * LedgersNum
                <= FullFee(s, d, t) * (Increment * Rate(t)) * LedgersDen
         /\ \A e \in Nat : d <= e => FullFee(s, d, t) <= FullFee(s, e, t)
         /\ \A k \in Nat : FullFee(s, k * d, t) <= k * FullFee(s, d, t)
<1> DEFINE f == s * FeePerIncrement
           b == Increment * Rate(t)
<1>1. f \in Nat /\ b \in Nat \ {0} /\ LedgersNum \in Nat /\ LedgersDen \in Nat \ {0}
  BY RentNumbersHold DEF RentNumbers
<1>2. \A e : FullFee(s, e, t) = CeilDiv(f * LedgerCount(e), b)
  BY DEF FullFee
<1>3. LedgerCount(d) \in Nat /\ f * LedgerCount(d) \in Nat
  <2>1. LedgerCount(d) \in Nat
    BY Ledgers
  <2> HIDE DEF f, b
  <2> QED
    BY <1>1, <2>1
<1>4. ASSUME NEW e \in Nat, LedgerCount(d) <= LedgerCount(e)
      PROVE  FullFee(s, d, t) <= FullFee(s, e, t)
  <2>1. LedgerCount(e) \in Nat
    BY Ledgers
  <2> HIDE DEF f, b
  <2>2. f * LedgerCount(e) \in Nat /\ f * LedgerCount(d) <= f * LedgerCount(e)
    BY <1>1, <1>3, <1>4, <2>1, TimesMonotonic
  <2> QED
    BY <1>1, <1>2, <1>3, <2>2, RoundedUpGrows
<1>5. ASSUME NEW k \in Nat
      PROVE  FullFee(s, k * d, t) <= k * FullFee(s, d, t)
  <2> DEFINE l == LedgerCount(d)
             m == LedgerCount(k * d)
  <2>1. k * d \in Nat
    OBVIOUS
  <2>2. l \in Nat /\ m \in Nat /\ m <= k * l
    BY <2>1, Ledgers
  <2> HIDE DEF f, b, l, m
  <2>3. k * l \in Nat /\ f * (k * l) = k * (f * l) /\ f * m \in Nat
    BY <1>1, <2>2
  <2>4. f * m <= k * (f * l)
    BY <1>1, <2>2, <2>3, TimesMonotonic
  <2>5. f * l \in Nat
    BY <1>1, <2>2
  <2>6. k * (f * l) \in Nat
    BY <2>5
  <2>7. CeilDiv(f * m, b) <= CeilDiv(k * (f * l), b)
    BY <1>1, <2>3, <2>4, <2>6, RoundedUpGrows
  <2>8. CeilDiv(k * (f * l), b) <= k * CeilDiv(f * l, b)
    BY <1>1, <2>5, RoundedUpOfTimes
  <2>9. CeilDiv(f * m, b) \in Nat /\ CeilDiv(k * (f * l), b) \in Nat /\ CeilDiv(f * l, b) \in Nat
    BY <1>1, <2>3, <2>5, <2>6, RoundedUp
  <2>10. k * CeilDiv(f * l, b) \in Nat
    BY <2>9
  <2>11. CeilDiv(f * m, b) <= k * CeilDiv(f * l, b)
    BY <2>7, <2>8, <2>9, <2>10
  <2> QED
    BY <1>2, <2>11 DEF l, m
<1>6. f * d * LedgersNum <= FullFee(s, d, t) * b * LedgersDen
  <2> DEFINE l == LedgerCount(d)
             q == FullFee(s, d, t)
             n == d * LedgersNum
  <2>1. l \in Nat /\ n <= LedgersDen * l /\ n \in Nat
    <3>1. l \in Nat /\ n <= LedgersDen * l
      BY Ledgers
    <3> HIDE DEF l, f, b
    <3> QED
      BY <1>1, <3>1
  <2>2. q \in Nat /\ f * l <= b * q
    BY <1>1, <1>2, <1>3, RoundedUp
  <2>3. f * d * LedgersNum = f * n
    BY <1>1
  <2> HIDE DEF f, b, l, q, n
  <2>4. f * n <= f * (LedgersDen * l)
    BY <1>1, <2>1, TimesMonotonic
  <2>5. LedgersDen * (f * l) <= LedgersDen * (b * q)
    <3>1. f * l \in Nat /\ b * q \in Nat
      BY <1>1, <2>1, <2>2
    <3> QED
      BY <1>1, <2>2, <3>1, TimesMonotonic
  <2>6. f * (LedgersDen * l) = LedgersDen * (f * l) /\ LedgersDen * (b * q) = q * b * LedgersDen
    BY <1>1, <2>1, <2>2
  <2>7. f * n \in Int /\ LedgersDen * (f * l) \in Int /\ LedgersDen * (b * q) \in Int
    BY <1>1, <2>1, <2>2
  <2>8. f * n <= q * b * LedgersDen
    BY <2>4, <2>5, <2>6, <2>7
  <2> QED
    BY <2>3, <2>8 DEF q
<1> QED
  BY <1>1, <1>2, <1>3, <1>4, <1>5, <1>6, RoundedUp, Ledgers

\* What holds of the forecast of a size, whatever the size.
LEMMA RentCosts ==
  ASSUME NEW s \in Nat, NEW d \in Nat, NEW t
  PROVE  /\ RentCost(s, d, t) \in Nat
         /\ RentCost(s, d, t) * (IF IsCode(t) THEN CodeDiscount ELSE 1)
                * Increment * Rate(t) * LedgersDen
                >= s * FeePerIncrement * d * LedgersNum
         /\ \A e \in Nat : d <= e => RentCost(s, d, t) <= RentCost(s, e, t)
         /\ \A k \in Nat : RentCost(s, k * d, t) <= k * RentCost(s, d, t)
<1> DEFINE b == Increment * Rate(t)
           q == FullFee(s, d, t)
           r == RentCost(s, d, t)
           c == IF IsCode(t) THEN CodeDiscount ELSE 1
           owed == s * FeePerIncrement * d * LedgersNum
<1>1. /\ b \in Nat \ {0} /\ Increment \in Nat /\ Rate(t) \in Nat /\ LedgersDen \in Nat
      /\ CodeDiscount \in Nat \ {0} /\ c \in Nat \ {0} /\ owed \in Nat
  BY RentNumbersHold DEF RentNumbers
<1>2. \A e \in Nat : FullFee(s, e, t) \in Nat
  BY FullFees
<1>3. r \in Nat /\ q <= c * r
  <2>1. CASE IsCode(t)
    BY <1>1, <1>2, <2>1, RoundedUp DEF RentCost
  <2>2. CASE ~ IsCode(t)
    <3>1. r = q /\ c = 1
      BY <2>2 DEF RentCost
    <3> HIDE DEF r, q, c
    <3>2. q \in Nat
      BY <1>2 DEF q
    <3> QED
      BY <3>1, <3>2
  <2> QED
    BY <2>1, <2>2
<1>4. r * c * Increment * Rate(t) * LedgersDen >= owed
  <2>1. owed <= q * b * LedgersDen /\ q \in Nat
    BY FullFees
  <2>2. r * c * Increment * Rate(t) * LedgersDen = (b * LedgersDen) * (c * r)
    <3>1. r \in Int /\ c \in Int /\ Increment \in Int /\ Rate(t) \in Int /\ LedgersDen \in Int
      BY <1>1, <1>3
    <3> HIDE DEF r, c
    <3> QED
      BY <3>1
  <2> HIDE DEF b, q, r, c, owed
  <2>3. q * b * LedgersDen = (b * LedgersDen) * q /\ b * LedgersDen \in Nat /\ c * r \in Nat
    BY <1>1, <1>3, <2>1
  <2>4. (b * LedgersDen) * q <= (b * LedgersDen) * (c * r)
    BY <1>3, <2>1, <2>3, TimesMonotonic
  <2>5. (b * LedgersDen) * q \in Int /\ (b * LedgersDen) * (c * r) \in Int
    BY <2>1, <2>3
  <2> QED
    BY <1>1, <2>1, <2>2, <2>3, <2>4, <2>5
<1>5. ASSUME NEW e \in Nat, d <= e
      PROVE  RentCost(s, d, t) <= RentCost(s, e, t)
  <2>1. FullFee(s, d, t) <= FullFee(s, e, t)
    BY <1>5, FullFees
  <2> QED
    BY <1>1, <1>2, <2>1, RoundedUpGrows DEF RentCost
<1>6. ASSUME NEW k \in Nat
      PROVE  RentCost(s, k * d, t) <= k * RentCost(s, d, t)
  <2> DEFINE m == FullFee(s, k * d, t)
  <2>1. q \in Nat /\ k * d \in Nat /\ m <= k * q
    BY <1>2, FullFees
  <2>2. m \in Nat
    BY <1>2, <2>1
  <2>3. CASE IsCode(t)
    <3> HIDE DEF m, q
    <3>1. k * q \in Nat
      BY <2>1
    <3>2. CeilDiv(m, CodeDiscount) <= CeilDiv(k * q, CodeDiscount)
      BY <1>1, <2>1, <2>2, <3>1, RoundedUpGrows
    <3>3. CeilDiv(k * q, CodeDiscount) <= k * CeilDiv(q, CodeDiscount)
      BY <1>1, <2>1, RoundedUpOfTimes
    <3>4. /\ CeilDiv(m, CodeDiscount) \in Nat /\ CeilDiv(k * q, CodeDiscount) \in Nat
          /\ CeilDiv(q, CodeDiscount) \in Nat
      BY <1>1, <2>1, <2>2, <3>1, RoundedUp
    <3>5. k * CeilDiv(q, CodeDiscount) \in Nat
      BY <3>4
    <3>6. CeilDiv(m, CodeDiscount) <= k * CeilDiv(q, CodeDiscount)
      BY <3>2, <3>3, <3>4, <3>5
    <3> QED
      BY <2>3, <3>6 DEF RentCost, m, q
  <2>4. CASE ~ IsCode(t)
    BY <2>1, <2>4 DEF RentCost
  <2> QED
    BY <2>3, <2>4
<1> QED
  BY <1>3, <1>4, <1>5, <1>6

-----------------------------------------------------------------------------
(* The cost books.                                                            *)

\* So many numbers of each day, told apart by the day; and the rows of all days.
Marks(D, n) == UNION {{d} \X (1 .. n[d]) : d \in D}
Gathered(D, E) == UNION {E[d] : d \in D}

\* Numbers of several days, none more than a day has of rows that belong to it alone,
\* are together no more than the rows, and as many when each is as many.
LEMMA CountedByDay ==
  ASSUME NEW S, IsFiniteSet(S), NEW D, NEW E, NEW n,
         \A d \in D : E[d] \subseteq S,
         \A d, e \in D : d # e => E[d] \cap E[e] = {},
         \A d \in D : n[d] \in Nat /\ n[d] <= Cardinality(E[d])
  PROVE  /\ IsFiniteSet(Gathered(D, E))
         /\ Cardinality(Marks(D, n)) \in Nat
         /\ Cardinality(Marks(D, n)) <= Cardinality(Gathered(D, E))
         /\ (\A d \in D : n[d] = Cardinality(E[d])) =>
                Cardinality(Marks(D, n)) = Cardinality(Gathered(D, E))
<1> DEFINE W == UNION {{d} \X (1 .. n[d]) : d \in D}
           U == UNION {E[d] : d \in D}
           Numbering(d) == Bijection(1 .. Cardinality(E[d]), E[d])
           g == [d \in D |-> CHOOSE f : f \in Numbering(d)]
           G == [w \in W |-> g[w[1]][w[2]]]
<1>1. \A d \in D : /\ Cardinality(E[d]) \in Nat
                   /\ g[d] \in Numbering(d)
  <2> SUFFICES ASSUME NEW d \in D
               PROVE  Cardinality(E[d]) \in Nat /\ g[d] \in Numbering(d)
    OBVIOUS
  <2>1. IsFiniteSet(E[d])
    BY FS_Subset
  <2>2. Cardinality(E[d]) \in Nat /\ Numbering(d) # {}
    BY <2>1, FS_CardinalityType DEF ExistsBijection
  <2> HIDE DEF Numbering
  <2> QED
    BY <2>2
<1>2. \A d \in D : /\ g[d] \in [1 .. Cardinality(E[d]) -> E[d]]
                   /\ \A k, m \in 1 .. Cardinality(E[d]) : g[d][k] = g[d][m] => k = m
                   /\ \A x \in E[d] : \E k \in 1 .. Cardinality(E[d]) : g[d][k] = x
  <2> HIDE DEF g
  <2> QED
    BY <1>1 DEF Bijection, Injection, Surjection, IsInjective
<1> HIDE DEF g
<1>3. \A w \in W : /\ w[1] \in D /\ w[2] \in 1 .. n[w[1]] /\ w = <<w[1], w[2]>>
                   /\ w[2] \in 1 .. Cardinality(E[w[1]])
  <2> SUFFICES ASSUME NEW w \in W
               PROVE  /\ w[1] \in D /\ w[2] \in 1 .. n[w[1]] /\ w = <<w[1], w[2]>>
                      /\ w[2] \in 1 .. Cardinality(E[w[1]])
    OBVIOUS
  <2>1. PICK d \in D : w \in {d} \X (1 .. n[d])
    OBVIOUS
  <2>2. w[1] = d /\ w[2] \in 1 .. n[d] /\ w = <<w[1], w[2]>>
    BY <2>1
  <2>3. \A k \in 1 .. n[d] : k \in 1 .. Cardinality(E[d])
    BY <1>1
  <2> QED
    BY <2>2, <2>3
<1>4. IsFiniteSet(U)
  <2>1. U \subseteq S
    OBVIOUS
  <2> QED
    BY <2>1, FS_Subset
<1>5. \A w \in W : G[w] = g[w[1]][w[2]] /\ G[w] \in E[w[1]] /\ G[w] \in U
  <2>1. \A w \in W : G[w] = g[w[1]][w[2]]
    OBVIOUS
  <2>2. \A d \in D : E[d] \subseteq U
    OBVIOUS
  <2> HIDE DEF G, W, U
  <2>3. ASSUME NEW d \in D, NEW k \in 1 .. Cardinality(E[d])
        PROVE  g[d][k] \in E[d]
    BY <1>2
  <2>4. ASSUME NEW w \in W
        PROVE  g[w[1]][w[2]] \in E[w[1]]
    BY <1>3, <2>3
  <2> QED
    BY <1>3, <2>1, <2>2, <2>4
<1>6. G \in Injection(W, U)
  <2>1. G \in [W -> U]
    BY <1>5
  <2>2. ASSUME NEW v \in W, NEW w \in W, G[v] = G[w]
        PROVE  v = w
    <3>1. v[1] = w[1]
      BY <1>3, <1>5, <2>2
    <3>2. v[2] = w[2]
      BY <1>2, <1>3, <1>5, <2>2, <3>1
    <3> QED
      BY <1>3, <3>1, <3>2
  <2>3. DOMAIN G = W
    OBVIOUS
  <2> HIDE DEF G, W, U
  <2> QED
    BY <2>1, <2>2, <2>3 DEF Injection, IsInjective
<1>7. /\ IsFiniteSet(W) /\ Cardinality(W) <= Cardinality(U)
      /\ Cardinality(W) = Cardinality(U) <=> G \in Surjection(W, U)
  <2> HIDE DEF G, W, U
  <2> QED
    BY <1>4, <1>6, FS_Injection
<1>8. ASSUME \A d \in D : n[d] = Cardinality(E[d])
      PROVE  G \in Surjection(W, U)
  <2>1. ASSUME NEW x \in U PROVE \E w \in W : G[w] = x
    <3>1. PICK d \in D : x \in E[d]
      OBVIOUS
    <3>2. PICK k \in 1 .. Cardinality(E[d]) : g[d][k] = x
      BY <1>2, <3>1
    <3>3. <<d, k>> \in W
      BY <1>8, <3>2
    <3>4. G[<<d, k>>] = x
      BY <3>2, <3>3
    <3> QED
      BY <3>3, <3>4
  <2>2. G \in [W -> U]
    BY <1>5
  <2> HIDE DEF G, W, U
  <2> QED
    BY <2>1, <2>2 DEF Surjection
<1>9. Cardinality(W) \in Nat
  <2> HIDE DEF W
  <2> QED
    BY <1>7, FS_CardinalityType
<1> HIDE DEF W, U
<1>10. /\ IsFiniteSet(U) /\ Cardinality(W) \in Nat
       /\ Cardinality(W) <= Cardinality(U)
       /\ (\A d \in D : n[d] = Cardinality(E[d])) => Cardinality(W) = Cardinality(U)
  BY <1>4, <1>7, <1>8, <1>9
<1> QED
  BY <1>10 DEF W, U, Marks, Gathered

\* A moment lies within its day, and days follow each other as moments do.
LEMMA Days ==
  ASSUME NEW m \in Nat
  PROVE  /\ DayLength \in Nat \ {0}
         /\ Day(m) \in Nat
         /\ DayLength * Day(m) <= m /\ m < DayLength * Day(m) + DayLength
         /\ \A k \in Nat : k <= m => Day(k) <= Day(m)
<1>1. DayLength \in Nat \ {0}
  BY CostAssumption
<1>2. \A k \in Nat : /\ Day(k) \in Nat /\ DayLength * Day(k) <= k
                     /\ k < DayLength * Day(k) + DayLength
  BY <1>1, Quotient DEF Day
<1>3. ASSUME NEW k \in Nat, k <= m
      PROVE  Day(k) <= Day(m)
  <2>1. DayLength * Day(k) \in Int /\ DayLength * Day(m) \in Int
    BY <1>1, <1>2
  <2>2. DayLength * Day(k) < DayLength * Day(m) + DayLength
    BY <1>1, <1>2, <1>3, <2>1
  <2> QED
    BY <1>1, <1>2, <2>2, LessTimes
<1> QED
  BY <1>1, <1>2, <1>3

\* What was executed on a day of a type, whether or not the table still has it.
Executed(d, t) ==
    {i \in DOMAIN executed : Day(executed[i].at) = d /\ TypeOf[executed[i].entry] = t}

\* The counts of days that are over: none above what was executed.
Within(counts) ==
    \A d \in DOMAIN counts :
        /\ d \in Nat /\ d < Today
        /\ \A t \in Types : /\ counts[d][t] \in Nat
                            /\ counts[d][t] <= Cardinality(Executed(d, t))

\* The counts of days that are over: what the table has of them.
Exact(counts) ==
    \A d \in DOMAIN counts : counts[d] = ByType(OfDay(d))

\* The rows come in time, what a daemon read or stored of a day that is over counts
\* none that was not executed on it, and without a raced import counts exactly what
\* the table has of it.
LedgerInv ==
    /\ now \in Nat
    /\ executed \in Seq(ExtensionRow)
    /\ \A i \in DOMAIN executed : executed[i].at <= now
    /\ history \subseteq DOMAIN executed
    /\ DOMAIN rows = Daemons
    /\ \A p \in Daemons : p \notin reading => rows[p] = << >>
    /\ Within(snapshots)
    /\ \A p \in Daemons : Within(rows[p])
    /\ ~ raced => Exact(snapshots) /\ \A p \in Daemons : Exact(rows[p])

\* What the rows are.
LEMMA Rows ==
  ASSUME LedgerInv
  PROVE  /\ Len(executed) \in Nat /\ DOMAIN executed = 1 .. Len(executed)
         /\ \A i \in DOMAIN executed :
                /\ executed[i] \in ExtensionRow /\ executed[i].at \in Nat
                /\ executed[i].at <= now /\ Day(executed[i].at) \in Nat
                /\ Day(executed[i].at) <= Today
         /\ IsFiniteSet(DOMAIN executed) /\ IsFiniteSet(history)
         /\ now \in Nat /\ Today \in Nat
<1>1. Len(executed) \in Nat /\ DOMAIN executed = 1 .. Len(executed)
  BY DEF LedgerInv
<1>2. \A i \in DOMAIN executed : executed[i] \in ExtensionRow /\ executed[i].at \in Nat
  <2>1. \A i \in DOMAIN executed : executed[i] \in ExtensionRow
    BY DEF LedgerInv
  <2>2. \A x \in ExtensionRow : x.at \in Nat
    BY DEF ExtensionRow
  <2> QED
    BY <2>1, <2>2
<1>3. \A i \in DOMAIN executed : Day(executed[i].at) \in Nat /\ Day(executed[i].at) <= Today
  BY <1>2, Days DEF LedgerInv, Today
<1>4. IsFiniteSet(DOMAIN executed)
  BY <1>1, FS_Interval
<1>5. IsFiniteSet(history)
  BY <1>4, FS_Subset DEF LedgerInv
<1>6. now \in Nat /\ Today \in Nat
  BY Days DEF LedgerInv, Today
<1> QED
  BY <1>1, <1>2, <1>3, <1>4, <1>5, <1>6 DEF LedgerInv

\* Steps that change neither what was executed nor the clock.
LEMMA SameBooks ==
  ASSUME UNCHANGED executed, NEW d, NEW t
  PROVE  Executed(d, t)' = Executed(d, t)
BY DEF Executed

\* The books begin in order.
LEMMA InitHolds == CostInit => LedgerInv
<1> SUFFICES ASSUME CostInit PROVE LedgerInv
  OBVIOUS
<1>1. DOMAIN << >> = {}
  OBVIOUS
<1>2. Within(<< >>) /\ Exact(<< >>)
  BY <1>1 DEF Within, Exact
<1>3. << >> \in Seq(ExtensionRow)
  OBVIOUS
<1>4. \A i \in DOMAIN executed : executed[i].at <= now
  BY <1>1 DEF CostInit
<1>5. \A p \in Daemons : rows[p] = << >>
  BY DEF CostInit
<1> QED
  BY <1>1, <1>2, <1>3, <1>4, <1>5 DEF CostInit, LedgerInv

\* A day that ends ends no count: a day that is over stays over.
LEMMA TickHolds ==
  ASSUME LedgerInv, Tick
  PROVE  LedgerInv'
<1>1. now' = now + 1 /\ UNCHANGED <<executed, history, snapshots, reading, rows, raced>>
  BY DEF Tick
<1>2. now' \in Nat /\ now <= now' /\ Today <= Today' /\ Today \in Nat /\ Today' \in Nat
  <2>1. now \in Nat /\ now' \in Nat /\ now <= now'
    BY <1>1, Rows
  <2>2. Day(now) \in Nat /\ Day(now') \in Nat /\ Day(now) <= Day(now')
    BY <2>1, Days
  <2>3. Today = Day(now) /\ Today' = Day(now')
    BY DEF Today, Day
  <2> QED
    BY <2>1, <2>2, <2>3
<1>3. \A i \in DOMAIN executed : executed[i].at <= now'
  BY <1>2, Rows
<1>4. \A d, t : Executed(d, t)' = Executed(d, t)
  BY <1>1, SameBooks
<1>5. ASSUME NEW c, Within(c)
      PROVE  /\ \A d \in DOMAIN c : d \in Nat /\ d < Today'
             /\ \A d \in DOMAIN c : \A t \in Types :
                    c[d][t] \in Nat /\ c[d][t] <= Cardinality(Executed(d, t)')
  BY <1>2, <1>4, <1>5 DEF Within
<1>6. Within(snapshots)'
  BY <1>1, <1>5 DEF LedgerInv, Within
<1>7. \A p \in Daemons : Within(rows[p])'
  BY <1>1, <1>5 DEF LedgerInv, Within
<1>8. \A d : ByType(OfDay(d))' = ByType(OfDay(d))
  BY <1>1 DEF ByType, OfDay
<1>9. (~ raced => Exact(snapshots) /\ \A p \in Daemons : Exact(rows[p]))'
  BY <1>1, <1>8 DEF LedgerInv, Exact
<1> QED
  BY <1>1, <1>2, <1>3, <1>6, <1>7, <1>9 DEF LedgerInv

\* A row of a type of what the table has of a day was executed then.
LEMMA CountsAreWithin ==
  ASSUME LedgerInv, NEW d, NEW t \in Types
  PROVE  /\ IsFiniteSet(Executed(d, t)) /\ Cardinality(Executed(d, t)) \in Nat
         /\ ByType(OfDay(d))[t] \in Nat
         /\ ByType(OfDay(d))[t] <= Cardinality(Executed(d, t))
<1> DEFINE S == {i \in OfDay(d) : TypeOf[executed[i].entry] = t}
<1>1. IsFiniteSet(Executed(d, t)) /\ Cardinality(Executed(d, t)) \in Nat
  <2>1. Executed(d, t) \subseteq DOMAIN executed
    BY DEF Executed
  <2> QED
    BY <2>1, Rows, FS_Subset, FS_CardinalityType
<1>2. S \subseteq Executed(d, t)
  BY DEF LedgerInv, OfDay, Executed
<1>3. ByType(OfDay(d))[t] = Cardinality(S)
  BY DEF ByType
<1> HIDE DEF S
<1> QED
  BY <1>1, <1>2, <1>3, FS_Subset, FS_CardinalityType

\* Nothing read is in order.
LEMMA EmptyCounts == Within(<< >>) /\ Exact(<< >>)
<1>1. DOMAIN << >> = {}
  OBVIOUS
<1> QED
  BY <1>1 DEF Within, Exact

\* A step that leaves the clock and the rows alone.
LEMMA QuietStep ==
  ASSUME LedgerInv, UNCHANGED <<now, executed, history>>
  PROVE  /\ \A c : /\ Within(c) => (\A d \in DOMAIN c :
                                       /\ d \in Nat /\ d < Today'
                                       /\ \A t \in Types : /\ c[d][t] \in Nat
                                                           /\ c[d][t] <= Cardinality(Executed(d, t)'))
                   /\ Exact(c) => \A d \in DOMAIN c : c[d] = ByType(OfDay(d))'
         /\ (now \in Nat)' /\ (executed \in Seq(ExtensionRow))'
         /\ (\A i \in DOMAIN executed : executed[i].at <= now)'
         /\ (history \subseteq DOMAIN executed)'
<1>1. \A d, t : Executed(d, t)' = Executed(d, t)
  BY SameBooks
<1>2. Today' = Today
  BY DEF Today, Day
<1>3. \A d : ByType(OfDay(d))' = ByType(OfDay(d))
  BY DEF ByType, OfDay
<1> QED
  BY <1>1, <1>2, <1>3 DEF LedgerInv, Within, Exact

\* A query counts what the table has of the days that are over.
LEMMA ReadHolds ==
  ASSUME LedgerInv, NEW p \in Daemons, AggregateReads(p)
  PROVE  LedgerInv'
<1> DEFINE D == {Day(executed[i].at) : i \in {j \in history : IsClosed(Day(executed[j].at))}}
           c == [d \in D |-> ByType(OfDay(d))]
<1>1. /\ UNCHANGED <<now, executed, history, snapshots, raced>>
      /\ reading' = reading \cup {p}
      /\ DOMAIN rows' = DOMAIN rows
      /\ \A q \in Daemons : rows'[q] = IF q = p THEN c ELSE rows[q]
  BY DEF AggregateReads, LedgerInv
<1>2. \A d \in D : d \in Nat /\ d < Today
  BY Rows DEF LedgerInv, IsClosed
<1> HIDE DEF D
<1>3. Within(c)
  BY <1>2, CountsAreWithin DEF Within
<1>4. Exact(c)
  BY DEF Exact
<1> HIDE DEF c
<1>5. \A q \in Daemons : Within(rows'[q]) /\ (~ raced => Exact(rows'[q]))
  BY <1>1, <1>3, <1>4 DEF LedgerInv
<1>6. \A q \in Daemons : q \notin reading' => rows'[q] = << >>
  BY <1>1 DEF LedgerInv
<1>7. \A q \in Daemons : Within(rows[q])'
  BY <1>1, <1>5, QuietStep DEF Within
<1>8. Within(snapshots)'
  BY <1>1, QuietStep DEF LedgerInv, Within
<1>9. ~ raced' => Exact(snapshots)'
  BY <1>1, QuietStep DEF LedgerInv, Exact
<1>10. ~ raced' => \A q \in Daemons : Exact(rows[q])'
  BY <1>1, <1>5, QuietStep DEF Exact
<1>11. DOMAIN rows' = Daemons
  BY <1>1 DEF LedgerInv
<1> QED
  BY <1>1, <1>6, <1>7, <1>8, <1>9, <1>10, <1>11, QuietStep DEF LedgerInv

\* An upsert puts what was read in the place of what was stored.
LEMMA WriteHolds ==
  ASSUME LedgerInv, NEW p \in Daemons, AggregateWrites(p)
  PROVE  LedgerInv'
<1>1. /\ UNCHANGED <<now, executed, history, raced>>
      /\ reading' = reading \ {p}
      /\ DOMAIN rows' = DOMAIN rows
      /\ \A q \in Daemons : rows'[q] = IF q = p THEN << >> ELSE rows[q]
  BY DEF AggregateWrites, LedgerInv
<1>2. /\ DOMAIN snapshots' = DOMAIN rows[p] \cup DOMAIN snapshots
      /\ \A d \in DOMAIN snapshots' :
             \/ d \in DOMAIN snapshots /\ snapshots'[d] = snapshots[d]
             \/ d \in DOMAIN rows[p] /\ snapshots'[d] = rows[p][d]
  BY DEF AggregateWrites, Updated
<1>3. Within(snapshots') /\ (~ raced => Exact(snapshots'))
  BY <1>2 DEF LedgerInv, Within, Exact
<1>4. \A q \in Daemons : Within(rows'[q]) /\ (~ raced => Exact(rows'[q]))
  BY <1>1, EmptyCounts DEF LedgerInv
<1>5. \A q \in Daemons : q \notin reading' => rows'[q] = << >>
  BY <1>1 DEF LedgerInv
<1>6. \A q \in Daemons : Within(rows[q])'
  BY <1>4, QuietStep, <1>1 DEF Within
<1>7. Within(snapshots)'
  BY <1>1, <1>3, QuietStep DEF Within
<1>8. ~ raced' => Exact(snapshots)'
  BY <1>1, <1>3, QuietStep DEF Exact
<1>9. ~ raced' => \A q \in Daemons : Exact(rows[q])'
  BY <1>1, <1>4, QuietStep DEF Exact
<1>10. DOMAIN rows' = Daemons
  BY <1>1 DEF LedgerInv
<1> QED
  BY <1>1, <1>5, <1>6, <1>7, <1>8, <1>9, <1>10, QuietStep DEF LedgerInv

\* A daemon that fails stores nothing and forgets what it read.
LEMMA FailHolds ==
  ASSUME LedgerInv, NEW p \in Daemons, AggregateFails(p)
  PROVE  LedgerInv'
<1>1. /\ UNCHANGED <<now, executed, history, snapshots, raced>>
      /\ reading' = reading \ {p}
      /\ DOMAIN rows' = DOMAIN rows
      /\ \A q \in Daemons : rows'[q] = IF q = p THEN << >> ELSE rows[q]
  BY DEF AggregateFails, LedgerInv
<1>2. \A q \in Daemons : Within(rows'[q]) /\ (~ raced => Exact(rows'[q]))
  BY <1>1, EmptyCounts DEF LedgerInv
<1>3. \A q \in Daemons : q \notin reading' => rows'[q] = << >>
  BY <1>1 DEF LedgerInv
<1>4. \A q \in Daemons : Within(rows[q])'
  BY <1>1, <1>2, QuietStep DEF Within
<1>5. Within(snapshots)'
  BY <1>1, QuietStep DEF LedgerInv, Within
<1>6. ~ raced' => Exact(snapshots)'
  BY <1>1, QuietStep DEF LedgerInv, Exact
<1>7. ~ raced' => \A q \in Daemons : Exact(rows[q])'
  BY <1>1, <1>2, QuietStep DEF Exact
<1>8. DOMAIN rows' = Daemons
  BY <1>1 DEF LedgerInv
<1> QED
  BY <1>1, <1>3, <1>4, <1>5, <1>6, <1>7, <1>8, QuietStep DEF LedgerInv

\* An import takes the rows: what was read before it is what the table had, and
\* nobody had read unless the books are marked.
LEMMA ImportHolds ==
  ASSUME LedgerInv, ImportBackup
  PROVE  LedgerInv'
<1>1. /\ UNCHANGED <<now, executed, reading, rows>>
      /\ history' = {} /\ snapshots' = << >> /\ raced' = (raced \/ reading # {})
  BY DEF ImportBackup
<1>2. Today' = Today
  BY <1>1 DEF Today, Day
<1>3. \A d, t : Executed(d, t)' = Executed(d, t)
  BY <1>1, SameBooks
<1>4. \A q \in Daemons : Within(rows[q])'
  BY <1>1, <1>2, <1>3 DEF LedgerInv, Within
<1>5. DOMAIN << >> = {}
  OBVIOUS
<1>6. Within(snapshots)' /\ Exact(snapshots)'
  BY <1>1, <1>5 DEF Within, Exact
<1>7. ~ raced' => \A q \in Daemons : rows[q] = << >>
  BY <1>1 DEF LedgerInv
<1>8. ~ raced' => \A q \in Daemons : Exact(rows[q])'
  BY <1>1, <1>5, <1>7 DEF Exact
<1> QED
  BY <1>1, <1>4, <1>6, <1>8 DEF LedgerInv

-----------------------------------------------------------------------------

\* What the transaction of extendEntries adds comes last and is of now.
LEMMA Recorded ==
  ASSUME LedgerInv, NEW S \in SUBSET Entries, NEW size \in Sizes \cup {NoSize},
         RecordExtension(S, size)
  PROVE  /\ executed' \in Seq(ExtensionRow)
         /\ DOMAIN executed \subseteq DOMAIN executed'
         /\ \A i \in DOMAIN executed : executed'[i] = executed[i]
         /\ \A i \in DOMAIN executed' \ DOMAIN executed : executed'[i].at = now
<1> DEFINE n == Cardinality(S)
           new == [i \in 1 .. n |-> [entry |-> SetToSeq(S)[i], at |-> now, size |-> size]]
<1>1. executed' = executed \o new /\ now \in Nat /\ executed \in Seq(ExtensionRow)
  BY DEF RecordExtension, LedgerInv
<1>2. n \in Nat /\ SetToSeq(S) \in [1 .. n -> S]
  <2>1. IsFiniteSet(S)
    BY CostAssumption, FS_Subset
  <2>2. n \in Nat /\ ExistsBijection(1 .. n, S)
    BY <2>1, FS_CardinalityType
  <2>3. \E f \in [1 .. n -> S] : IsInjective(f)
    BY <2>2 DEF ExistsBijection, Bijection, Injection
  <2> QED
    BY <2>2, <2>3 DEF SetToSeq
<1> HIDE DEF n
<1>3. \A i \in 1 .. n : /\ new[i] \in ExtensionRow
                        /\ new[i].at = now
  BY <1>1, <1>2 DEF ExtensionRow
<1>4. new \in Seq(ExtensionRow) /\ Len(new) = n /\ DOMAIN new = 1 .. n
  <2>1. new \in [1 .. n -> ExtensionRow]
    BY <1>3
  <2> HIDE DEF new
  <2> QED
    BY <1>2, <2>1
<1> HIDE DEF new
<1>5. executed' \in Seq(ExtensionRow)
  BY <1>1, <1>4
<1>6. /\ DOMAIN executed = 1 .. Len(executed) /\ Len(executed) \in Nat
      /\ DOMAIN executed' = 1 .. (Len(executed) + n)
      /\ \A i \in 1 .. (Len(executed) + n) :
             executed'[i] = IF i <= Len(executed) THEN executed[i] ELSE new[i - Len(executed)]
  <2>1. DOMAIN executed = 1 .. Len(executed) /\ Len(executed) \in Nat
    BY <1>1
  <2>2. Len(executed') = Len(executed) + n
    <3>1. executed \in Seq(ExtensionRow) /\ new \in Seq(ExtensionRow) /\ Len(new) = n
      BY <1>1, <1>4
    <3>2. Len(executed \o new) = Len(executed) + Len(new)
      BY <3>1
    <3> QED
      BY <1>1, <3>1, <3>2
  <2>3. DOMAIN executed' = 1 .. (Len(executed) + n)
    BY <1>5, <2>2
  <2>4. \A i \in 1 .. (Len(executed) + n) :
            (executed \o new)[i] = IF i <= Len(executed) THEN executed[i] ELSE new[i - Len(executed)]
    BY <1>1, <1>4
  <2> QED
    BY <1>1, <2>1, <2>3, <2>4
<1>7. \A i \in DOMAIN executed' \ DOMAIN executed : executed'[i].at = now
  <2> SUFFICES ASSUME NEW i \in DOMAIN executed' \ DOMAIN executed
               PROVE  executed'[i].at = now
    OBVIOUS
  <2>1. executed'[i] = new[i - Len(executed)] /\ i - Len(executed) \in 1 .. n
    BY <1>2, <1>6
  <2> QED
    BY <1>3, <2>1
<1>8. DOMAIN executed \subseteq DOMAIN executed'
  BY <1>2, <1>6
<1>9. \A i \in DOMAIN executed : executed'[i] = executed[i]
  BY <1>2, <1>6
<1> QED
  BY <1>5, <1>7, <1>8, <1>9

\* An extension changes only the counts of today, which nobody stores yet.
LEMMA RecordHolds ==
  ASSUME LedgerInv, NEW S \in SUBSET Entries, NEW size \in Sizes \cup {NoSize},
         RecordExtension(S, size)
  PROVE  LedgerInv'
<1>1. /\ UNCHANGED <<now, snapshots, reading, rows, raced>>
      /\ history' = history \cup (DOMAIN executed' \ DOMAIN executed)
  BY DEF RecordExtension
<1>2. Today' = Today /\ now \in Nat
  BY <1>1, Rows DEF Today, Day
<1>3. \A i \in DOMAIN executed' : executed'[i].at <= now'
  BY <1>1, <1>2, Recorded DEF LedgerInv
<1>4. history' \subseteq DOMAIN executed'
  BY <1>1, Recorded DEF LedgerInv
<1>5. \A d \in Nat : \A t : d < Today => Executed(d, t)' = Executed(d, t)
  <2> SUFFICES ASSUME NEW d \in Nat, NEW t, d < Today
               PROVE  Executed(d, t)' = Executed(d, t)
    OBVIOUS
  <2>1. \A i \in DOMAIN executed' \ DOMAIN executed : Day(executed'[i].at) # d
    BY Recorded, Rows DEF Today
  <2>2. \A i : i \in Executed(d, t)' <=> i \in Executed(d, t)
    BY <2>1, Recorded DEF Executed, Day
  <2> QED
    BY <2>2
<1>6. \A d \in Nat : d < Today => ByType(OfDay(d))' = ByType(OfDay(d))
  <2> SUFFICES ASSUME NEW d \in Nat, d < Today
               PROVE  ByType(OfDay(d))' = ByType(OfDay(d))
    OBVIOUS
  <2>1. \A i \in DOMAIN executed' \ DOMAIN executed : Day(executed'[i].at) # d
    BY Recorded, Rows DEF Today
  <2>2. \A i : i \in OfDay(d)' <=> i \in OfDay(d)
    BY <1>1, <2>1, Recorded DEF LedgerInv, OfDay, Day
  <2>3. \A i \in OfDay(d) : executed'[i] = executed[i]
    BY Recorded DEF LedgerInv, OfDay
  <2>4. OfDay(d)' = OfDay(d)
    BY <2>2
  <2>5. \A t : {i \in OfDay(d)' : TypeOf[executed'[i].entry] = t}
                  = {i \in OfDay(d) : TypeOf[executed[i].entry] = t}
    BY <2>3, <2>4
  <2> QED
    BY <2>5 DEF ByType, Types
<1>7. ASSUME NEW c, Within(c)
      PROVE  /\ \A d \in DOMAIN c : d \in Nat /\ d < Today'
             /\ \A d \in DOMAIN c : \A t \in Types :
                    c[d][t] \in Nat /\ c[d][t] <= Cardinality(Executed(d, t)')
             /\ Exact(c) => \A d \in DOMAIN c : c[d] = ByType(OfDay(d))'
  BY <1>2, <1>5, <1>6, <1>7 DEF Within, Exact
<1>8. Within(snapshots)' /\ \A p \in Daemons : Within(rows[p])'
  BY <1>1, <1>7 DEF LedgerInv, Within
<1>9. (~ raced => Exact(snapshots) /\ \A p \in Daemons : Exact(rows[p]))'
  BY <1>1, <1>7 DEF LedgerInv, Exact
<1> QED
  BY <1>1, <1>2, <1>3, <1>4, <1>8, <1>9, Recorded DEF LedgerInv

\* The books are in order.
THEOREM LedgerInvHolds == CostSpec => []LedgerInv
<1>1. LedgerInv /\ [CostNext]_costVars => LedgerInv'
  <2> SUFFICES ASSUME LedgerInv, [CostNext]_costVars PROVE LedgerInv'
    OBVIOUS
  <2>1. CASE UNCHANGED costVars
    <3>1. /\ UNCHANGED <<now, executed, history, snapshots, rows, reading, raced>>
      BY <2>1 DEF costVars
    <3>2. Within(snapshots)' /\ \A p \in Daemons : Within(rows[p])'
      BY <3>1, QuietStep DEF LedgerInv, Within
    <3>3. (~ raced => Exact(snapshots) /\ \A p \in Daemons : Exact(rows[p]))'
      BY <3>1, QuietStep DEF LedgerInv, Exact
    <3> QED
      BY <3>1, <3>2, <3>3, QuietStep DEF LedgerInv
  <2> QED
    BY <2>1, TickHolds, RecordHolds, ImportHolds, ReadHolds, WriteHolds, FailHolds DEF CostNext
<1> QED
  BY <1>1, InitHolds, PTL DEF CostSpec

\* The first day of a summary over so many days.
LEMMA WindowDays ==
  ASSUME LedgerInv, NEW days \in Nat \ {0}
  PROVE  FirstDay(days) = Today - (days - 1)
<1>1. days - 1 \in Nat
  OBVIOUS
<1> DEFINE m == days - 1
<1>2. \A x \in {m, 0} : (\A y \in {m, 0} : x >= y) <=> x = m
  BY <1>1
<1>3. m \in {m, 0}
  OBVIOUS
<1> HIDE DEF m
<1>4. Max({m, 0}) = m
  BY <1>2, <1>3 DEF Max
<1> QED
  BY <1>4 DEF FirstDay, m

\* The rows of a type.
OfType(S, t) == {i \in S : TypeOf[executed[i].entry] = t}

\* The rows of the days a summary covers.
Covered(S, days) == {i \in S : days = All \/ Day(executed[i].at) >= FirstDay(days)}

\* Fewer rows have fewer of a type.
LEMMA Sizing ==
  ASSUME LedgerInv, NEW S \in SUBSET DOMAIN executed, NEW t
  PROVE  /\ IsFiniteSet(S) /\ IsFiniteSet(OfType(S, t))
         /\ Cardinality(OfType(S, t)) \in Nat
         /\ \A T \in SUBSET S : Cardinality(OfType(T, t)) <= Cardinality(OfType(S, t))
<1>1. IsFiniteSet(S)
  BY Rows, FS_Subset
<1>2. \A T \in SUBSET S : OfType(T, t) \subseteq OfType(S, t)
  BY DEF OfType
<1>3. OfType(S, t) \subseteq S
  BY DEF OfType
<1>4. IsFiniteSet(OfType(S, t)) /\ Cardinality(OfType(S, t)) \in Nat
  BY <1>1, <1>3, FS_Subset, FS_CardinalityType
<1> QED
  BY <1>1, <1>2, <1>4, FS_Subset

\* Today's rows and those of other days are apart.
LEMMA WithToday ==
  ASSUME LedgerInv, NEW t, NEW U \in SUBSET DOMAIN executed,
         \A i \in U : Day(executed[i].at) # Today
  PROVE  LET T == OfType(OfDay(Today), t)
         IN  /\ IsFiniteSet(U \cup T)
             /\ Cardinality(U \cup T) = Cardinality(U) + Cardinality(T)
<1> DEFINE T == OfType(OfDay(Today), t)
<1>1. OfDay(Today) \in SUBSET DOMAIN executed
  BY DEF OfDay, LedgerInv
<1>2. IsFiniteSet(T) /\ IsFiniteSet(U)
  BY <1>1, Sizing
<1>3. U \cap T = {}
  BY DEF OfType, OfDay
<1> HIDE DEF T
<1>4. Cardinality(U \cap T) = 0
  BY <1>3, FS_EmptySet
<1>5. Cardinality(U) \in Nat /\ Cardinality(T) \in Nat
  BY <1>2, FS_CardinalityType
<1>6. /\ IsFiniteSet(U \cup T)
      /\ Cardinality(U \cup T) = Cardinality(U) + Cardinality(T) - Cardinality(U \cap T)
  BY <1>2, FS_Union
<1>7. Cardinality(U \cup T) = Cardinality(U) + Cardinality(T)
  BY <1>4, <1>5, <1>6
<1> QED
  BY <1>6, <1>7 DEF T

\* A summary counts no row twice and none outside its days.
LEMMA SummaryIsBounded ==
  ASSUME LedgerInv, NEW days \in Nat, NEW t \in Types
  PROVE  CostSummary(days)[t] <= Cardinality(OfType(Covered(DOMAIN executed, days), t))
<1> DEFINE D == DailySnapshots(days)
           E == [d \in D |-> Executed(d, t)]
           n == [d \in D |-> snapshots[d][t]]
           U == Gathered(D, E)
           T == OfType(OfDay(Today), t)
           X == OfType(Covered(DOMAIN executed, days), t)
<1>1. D \subseteq DOMAIN snapshots
  BY DEF DailySnapshots
<1>2. \A d \in D : /\ d \in Nat /\ d < Today
                   /\ n[d] \in Nat /\ n[d] <= Cardinality(E[d])
  BY <1>1 DEF LedgerInv, Within
<1>3. \A d \in D : E[d] \subseteq DOMAIN executed
  BY DEF Executed
<1>4. \A d, e \in D : d # e => E[d] \cap E[e] = {}
  BY DEF Executed
<1>5. SnapshotSum(D, t) = Cardinality(Marks(D, n))
  <2>1. \A d \in D : n[d] = snapshots[d][t]
    OBVIOUS
  <2>2. {{d} \X (1 .. n[d]) : d \in D} = {{d} \X (1 .. snapshots[d][t]) : d \in D}
    <3> HIDE DEF n, D
    <3> QED
      BY <2>1
  <2> QED
    BY <2>2 DEF SnapshotSum, Marks
<1>6. SnapshotSum(D, t) \in Nat /\ SnapshotSum(D, t) <= Cardinality(U)
  <2>1. IsFiniteSet(DOMAIN executed)
    BY Rows
  <2> HIDE DEF D, E, n
  <2> QED
    BY <1>2, <1>3, <1>4, <1>5, <2>1, CountedByDay
<1>7. /\ U \in SUBSET DOMAIN executed
      /\ \A i \in U : Day(executed[i].at) # Today
  <2>1. U \in SUBSET DOMAIN executed
    BY <1>3 DEF Gathered
  <2>2. ASSUME NEW i \in U PROVE Day(executed[i].at) # Today
    <3>1. PICK d \in D : i \in Executed(d, t)
      BY DEF Gathered
    <3>2. Day(executed[i].at) = d /\ d \in Nat /\ d < Today
      BY <1>2, <3>1 DEF Executed
    <3> QED
      BY <3>2, Rows
  <2> QED
    BY <2>1, <2>2
<1>8. U \cup T \subseteq X
  <2>1. ASSUME NEW i \in U PROVE i \in X
    <3>1. PICK d \in D : i \in Executed(d, t)
      BY DEF Gathered
    <3>2. days = All \/ d >= FirstDay(days)
      BY DEF DailySnapshots
    <3> QED
      BY <3>1, <3>2 DEF Executed, OfType, Covered
  <2>2. ASSUME NEW i \in T PROVE i \in X
    <3>1. i \in DOMAIN executed /\ Day(executed[i].at) = Today /\ TypeOf[executed[i].entry] = t
      BY DEF OfType, OfDay, LedgerInv
    <3>2. days = All \/ Today >= FirstDay(days)
      BY WindowDays, Rows DEF All
    <3> QED
      BY <3>1, <3>2 DEF OfType, Covered
  <2> QED
    BY <2>1, <2>2
<1>9. IsFiniteSet(X)
  <2>1. Covered(DOMAIN executed, days) \in SUBSET DOMAIN executed
    BY DEF Covered
  <2> QED
    BY <2>1, Sizing
<1>10. CostSummary(days)[t] = SnapshotSum(D, t) + Cardinality(T)
  BY DEF CostSummary, ByType, OfType
<1>11. Cardinality(U \cup T) = Cardinality(U) + Cardinality(T) /\ Cardinality(T) \in Nat
       /\ IsFiniteSet(U)
  <2>1. OfDay(Today) \in SUBSET DOMAIN executed
    BY DEF OfDay, LedgerInv
  <2> HIDE DEF U
  <2> QED
    BY <1>7, <2>1, WithToday, Sizing
<1> HIDE DEF D, E, n, U, T, X
<1>12. Cardinality(U) \in Nat /\ Cardinality(U \cup T) <= Cardinality(X) /\ Cardinality(X) \in Nat
  BY <1>8, <1>9, <1>11, FS_Subset, FS_CardinalityType
<1>13. SnapshotSum(D, t) + Cardinality(T) <= Cardinality(X)
  BY <1>6, <1>11, <1>12
<1> QED
  BY <1>10, <1>13 DEF X

\* A summary of books that are complete counts what the table has of its days.
LEMMA SummaryIsExact ==
  ASSUME LedgerInv, Stored, NEW days \in Nat, NEW t \in Types
  PROVE  CostSummary(days)[t] = Cardinality(OfType(Covered(history, days), t))
<1> DEFINE D == DailySnapshots(days)
           E == [d \in D |-> OfType(OfDay(d), t)]
           n == [d \in D |-> snapshots[d][t]]
           U == Gathered(D, E)
           T == OfType(OfDay(Today), t)
           X == OfType(Covered(history, days), t)
<1>1. D \subseteq DOMAIN snapshots
  BY DEF DailySnapshots
<1>2. \A d \in D : /\ d \in Nat /\ d < Today
                   /\ n[d] \in Nat /\ n[d] = Cardinality(E[d])
  <2> SUFFICES ASSUME NEW d \in D
               PROVE  /\ d \in Nat /\ d < Today
                      /\ n[d] \in Nat /\ n[d] = Cardinality(E[d])
    OBVIOUS
  <2>1. d \in Nat /\ d < Today /\ n[d] \in Nat
    BY <1>1 DEF LedgerInv, Within
  <2>2. snapshots[d] = ByType(OfDay(d))
    BY <1>1 DEF LedgerInv, Exact, Stored
  <2>3. n[d] = Cardinality(E[d])
    BY <2>2 DEF ByType, OfType
  <2> QED
    BY <2>1, <2>3
<1>3. \A d \in D : E[d] \subseteq DOMAIN executed
  BY DEF OfType, OfDay, LedgerInv
<1>4. \A d, e \in D : d # e => E[d] \cap E[e] = {}
  BY DEF OfType, OfDay
<1>5. SnapshotSum(D, t) = Cardinality(Marks(D, n))
  <2>1. \A d \in D : n[d] = snapshots[d][t]
    OBVIOUS
  <2>2. {{d} \X (1 .. n[d]) : d \in D} = {{d} \X (1 .. snapshots[d][t]) : d \in D}
    <3> HIDE DEF n, D
    <3> QED
      BY <2>1
  <2> QED
    BY <2>2 DEF SnapshotSum, Marks
<1>6. SnapshotSum(D, t) = Cardinality(U)
  <2>1. IsFiniteSet(DOMAIN executed)
    BY Rows
  <2> HIDE DEF D, E, n
  <2>2. \A d \in D : n[d] <= Cardinality(E[d])
    BY <1>2
  <2> QED
    BY <1>2, <1>3, <1>4, <1>5, <2>1, <2>2, CountedByDay
<1>7. /\ U \in SUBSET DOMAIN executed
      /\ \A i \in U : Day(executed[i].at) # Today
  <2>1. U \in SUBSET DOMAIN executed
    BY <1>3 DEF Gathered
  <2>2. ASSUME NEW i \in U PROVE Day(executed[i].at) # Today
    <3>1. PICK d \in D : i \in OfType(OfDay(d), t)
      BY DEF Gathered
    <3>2. Day(executed[i].at) = d /\ d \in Nat /\ d < Today
      BY <1>2, <3>1 DEF OfType, OfDay
    <3> QED
      BY <3>2, Rows
  <2> QED
    BY <2>1, <2>2
<1>8. U \cup T = X
  <2>1. ASSUME NEW i \in U PROVE i \in X
    <3>1. PICK d \in D : i \in OfType(OfDay(d), t)
      BY DEF Gathered
    <3>2. days = All \/ d >= FirstDay(days)
      BY DEF DailySnapshots
    <3> QED
      BY <3>1, <3>2 DEF OfDay, OfType, Covered
  <2>2. ASSUME NEW i \in T PROVE i \in X
    <3>1. i \in history /\ Day(executed[i].at) = Today /\ TypeOf[executed[i].entry] = t
      BY DEF OfType, OfDay
    <3>2. days = All \/ Today >= FirstDay(days)
      BY WindowDays, Rows DEF All
    <3> QED
      BY <3>1, <3>2 DEF OfType, Covered
  <2>3. ASSUME NEW i \in X PROVE i \in U \cup T
    <3> DEFINE d == Day(executed[i].at)
    <3>1. /\ i \in history /\ TypeOf[executed[i].entry] = t
          /\ days = All \/ d >= FirstDay(days)
      BY DEF OfType, Covered
    <3>2. d \in DOMAIN snapshots \cup {Today}
      BY <3>1 DEF Stored
    <3>3. i \in OfType(OfDay(d), t)
      BY <3>1 DEF OfType, OfDay
    <3>4. CASE d = Today
      BY <3>3, <3>4
    <3>5. CASE d \in DOMAIN snapshots
      <4>1. d \in D
        BY <3>1, <3>5 DEF DailySnapshots
      <4>2. E[d] = OfType(OfDay(d), t)
        BY <4>1
      <4> QED
        BY <3>3, <4>1, <4>2 DEF Gathered
    <3> QED
      BY <3>2, <3>4, <3>5
  <2> QED
    BY <2>1, <2>2, <2>3
<1>9. CostSummary(days)[t] = SnapshotSum(D, t) + Cardinality(T)
  BY DEF CostSummary, ByType, OfType
<1>10. Cardinality(U \cup T) = Cardinality(U) + Cardinality(T)
  <2> HIDE DEF U
  <2> QED
    BY <1>7, WithToday
<1> HIDE DEF D, E, n, U, T, X
<1> QED
  BY <1>6, <1>8, <1>9, <1>10 DEF X

\* A summary never counts an extension that was not executed in its window, nor one
\* twice, for any numbers of daemons, extensions, imports, failures and days:
\* getContractCostSummary over what aggregateDailyCostSnapshots stores.
THEOREM NeverOverstatesHolds == CostSpec => []NeverOverstates
<1>1. LedgerInv => NeverOverstates
  <2> SUFFICES ASSUME LedgerInv, NEW days \in Windows \cup {All}, NEW t \in Types
               PROVE  CostSummary(days)[t] <=
                          ByType({i \in DOMAIN executed :
                                     days = All \/ Day(executed[i].at) >= FirstDay(days)})[t]
    BY DEF NeverOverstates, Leq
  <2>1. days \in Nat
    BY RentAssumption DEF All
  <2> QED
    BY <2>1, SummaryIsBounded DEF ByType, OfType, Covered
<1> QED
  BY <1>1, LedgerInvHolds, PTL

\* Days against moments: a day within the summary's is within the hours, and one
\* within the hours is within one day more.
LEMMA DaysAgainstHours ==
  ASSUME LedgerInv, NEW days \in Nat \ {0}, NEW m \in Nat, m <= now
  PROVE  /\ Day(m) >= FirstDay(days) => m >= now - days * DayLength
         /\ m >= now - days * DayLength => Day(m) >= FirstDay(days + 1)
<1> DEFINE a == Day(m)
           b == Day(now)
           l == DayLength
<1>1. /\ a \in Nat /\ l * a <= m /\ m < l * a + l
      /\ b \in Nat /\ l * b <= now /\ now < l * b + l
      /\ l \in Nat \ {0} /\ now \in Nat
  BY Days, Rows
<1>2. FirstDay(days) = b - (days - 1) /\ FirstDay(days + 1) = b - days
  <2>1. days + 1 \in Nat \ {0} /\ (days + 1) - 1 = days
    OBVIOUS
  <2> QED
    BY <2>1, WindowDays DEF Today
<1> HIDE DEF a, b, l
<1>3. l * a \in Int /\ l * b \in Int /\ l * days \in Int /\ days * l = l * days
  BY <1>1
<1>4. ASSUME a >= b - (days - 1)
      PROVE  m >= now - days * l
  <2>1. l * b <= l * (a + (days - 1))
    <3>1. a + (days - 1) \in Nat /\ b <= a + (days - 1)
      BY <1>1, <1>4
    <3> QED
      BY <1>1, <3>1, TimesMonotonic
  <2>2. l * (a + (days - 1)) = l * a + l * days - l
    BY <1>1
  <2> QED
    BY <1>1, <1>3, <2>1, <2>2
<1>5. ASSUME m >= now - days * l
      PROVE  a >= b - days
  <2>1. l * (a + days) = l * a + l * days
    BY <1>1
  <2>2. l * b < l * (a + days) + l
    BY <1>1, <1>3, <1>5, <2>1
  <2>3. b <= a + days
    BY <1>1, <2>2, LessTimes
  <2> QED
    BY <1>1, <2>3
<1> QED
  BY <1>2, <1>4, <1>5 DEF a, b, l

\* Where every closed day is stored, the calendar days of getContractCostSummary and
\* the hours of getExtensionCosts differ by less than a day: for every window.
THEOREM ReportsAgreeHolds == CostSpec => []ReportsAgree
<1>1. LedgerInv => ReportsAgree
  <2> SUFFICES ASSUME LedgerInv, Stored, NEW days \in Windows, NEW t \in Types
               PROVE  /\ CostSummary(days)[t] <= ExtensionCosts(days).byEntryType[t]
                      /\ ExtensionCosts(days).byEntryType[t] <= CostSummary(days + 1)[t]
                      /\ CostSummary(All)[t] = ExtensionCosts(All).byEntryType[t]
                      /\ CostSummary(All)[t] \in Nat
    <3>1. (\A d \in Windows : \A t \in Types :
              /\ CostSummary(d)[t] <= ExtensionCosts(d).byEntryType[t]
              /\ ExtensionCosts(d).byEntryType[t] <= CostSummary(d + 1)[t]
              /\ CostSummary(All)[t] <= ExtensionCosts(All).byEntryType[t]
              /\ ExtensionCosts(All).byEntryType[t] <= CostSummary(All)[t])
          => \A d \in Windows :
              /\ Leq(CostSummary(d), ExtensionCosts(d).byEntryType)
              /\ Leq(ExtensionCosts(d).byEntryType, CostSummary(d + 1))
              /\ Leq(CostSummary(All), ExtensionCosts(All).byEntryType)
              /\ Leq(ExtensionCosts(All).byEntryType, CostSummary(All))
      BY DEF Leq
    <3> QED
      BY <3>1 DEF ReportsAgree
  <2>1. days \in Nat \ {0} /\ days \in Nat /\ days + 1 \in Nat /\ days # All /\ days + 1 # All /\ All \in Nat
    BY RentAssumption DEF All
  <2>2. \A d : ExtensionCosts(d).byEntryType[t] = Cardinality(OfType(ExtensionHistory(d), t))
    BY DEF ExtensionCosts, ByType, OfType
  <2> DEFINE H == ExtensionHistory(days)
             A == Covered(history, days)
             B == Covered(history, days + 1)
  <2>3. /\ A \in SUBSET H /\ H \in SUBSET B
        /\ H \in SUBSET DOMAIN executed /\ B \in SUBSET DOMAIN executed
    <3>1. \A i \in history : executed[i].at \in Nat /\ executed[i].at <= now
      BY Rows DEF LedgerInv
    <3>2. A \in SUBSET H
      BY <2>1, <3>1, DaysAgainstHours DEF Covered, ExtensionHistory
    <3>3. H \in SUBSET B
      BY <2>1, <3>1, DaysAgainstHours DEF Covered, ExtensionHistory
    <3>4. B \in SUBSET DOMAIN executed
      BY DEF Covered, LedgerInv
    <3> QED
      BY <3>2, <3>3, <3>4
  <2>4. CostSummary(days)[t] = Cardinality(OfType(A, t)) /\ CostSummary(days + 1)[t] = Cardinality(OfType(B, t))
    BY <2>1, SummaryIsExact
  <2>5. CostSummary(All)[t] = Cardinality(OfType(history, t))
    <3>1. Covered(history, All) = history
      BY DEF Covered
    <3> QED
      BY <2>1, <3>1, SummaryIsExact
  <2>6. ExtensionHistory(All) = history
    BY DEF ExtensionHistory
  <2>7. Cardinality(OfType(history, t)) \in Nat
    BY Sizing DEF LedgerInv
  <2> HIDE DEF H, A, B
  <2>8. Cardinality(OfType(A, t)) <= Cardinality(OfType(H, t)) /\ Cardinality(OfType(H, t)) <= Cardinality(OfType(B, t))
    BY <2>3, Sizing
  <2> QED
    BY <2>2, <2>4, <2>5, <2>6, <2>7, <2>8 DEF H
<1> QED
  BY <1>1, LedgerInvHolds, PTL

\* The newest of some rows is one of them: their moments are numbers up to now.
LEMMA NewestIsOne ==
  ASSUME LedgerInv, NEW S \in SUBSET history, S # {}
  PROVE  Newest(S) \in S
<1> DEFINE M == {now - executed[i].at : i \in S}
<1>1. \A i \in S : executed[i].at \in Nat /\ executed[i].at <= now /\ now \in Nat
  BY Rows DEF LedgerInv
<1>2. M \in SUBSET Nat /\ M # {}
  BY <1>1
<1>3. PICK n \in M : \A k \in M : n <= k
  <2> HIDE DEF M
  <2> QED
    BY <1>2, LeastNumber
<1>4. PICK i \in S : n = now - executed[i].at
  BY <1>3
<1>5. \A j \in S : now - executed[i].at <= now - executed[j].at
  BY <1>3, <1>4
<1>6. \A j \in S : executed[i].at >= executed[j].at
  BY <1>1, <1>5
<1> QED
  BY <1>6 DEF Newest

\* entries.find returns one of those it looks for, if there is one.
LEMMA FirstIsOne ==
  ASSUME NEW S \in SUBSET Entries, S # {}
  PROVE  FirstOf(S) \in S
<1> DEFINE K == {k \in DOMAIN EntryOrder : EntryOrder[k] \in S}
<1>1. DOMAIN EntryOrder \in SUBSET Nat
  BY CostAssumption
<1>2. K \in SUBSET Nat /\ K # {}
  BY <1>1, CostAssumption DEF ToSet
<1>3. \E n \in K : \A k \in K : n <= k
  <2> HIDE DEF K
  <2> QED
    BY <1>2, LeastNumber
<1>4. Min(K) \in K
  BY <1>3 DEF Min
<1> QED
  BY <1>4 DEF FirstOf

\* A known size was seen at that entry, and an unknown one is the default.
LEMMA SizesAreSeen ==
  ASSUME LedgerInv, NEW e \in Entries
  PROVE  SizeOf(e) \in SeenSizes(TypeOf[e]) \cup {DefaultSize} /\ SizeOf(e) \in Nat
<1>1. CASE KnownSizes(e) = {}
  BY <1>1, CostAssumption DEF SizeOf
<1>2. CASE KnownSizes(e) # {}
  <2>1. PICK i \in KnownSizes(e) : SizeOf(e) = executed[i].size
    <3>1. KnownSizes(e) \in SUBSET history
      BY DEF KnownSizes
    <3>2. Newest(KnownSizes(e)) \in KnownSizes(e)
      BY <1>2, <3>1, NewestIsOne
    <3> QED
      BY <1>2, <3>2 DEF SizeOf
  <2>2. i \in history /\ executed[i].entry = e /\ executed[i].size # NoSize
    BY <2>1 DEF KnownSizes
  <2>3. SizeOf(e) \in SeenSizes(TypeOf[e])
    BY <2>1, <2>2 DEF SeenSizes
  <2>4. SizeOf(e) \in Nat
    <3>1. executed[i] \in ExtensionRow
      BY <2>2, Rows DEF LedgerInv
    <3>2. executed[i].size \in Sizes
      BY <2>2, <3>1 DEF ExtensionRow
    <3> QED
      BY <2>1, <3>2, CostAssumption
  <2> QED
    BY <2>3, <2>4
<1> QED
  BY <1>1, <1>2

\* Whatever entry a row is taken for, a type is forecast with one of its own.
LEMMA SizedByItsOwn ==
  ASSUME LedgerInv, NEW days, NEW t \in Types
  PROVE  SizedBy(days, t) \in Entries /\ TypeOf[SizedBy(days, t)] = t
<1> DEFINE shown == {i \in ExtensionHistory(days) : TypeOf[ShownAs(i)] = t}
<1>1. CASE shown # {}
  <2>1. shown \in SUBSET history
    BY DEF ExtensionHistory
  <2>2. PICK i \in shown : SizedBy(days, t) = ShownAs(i)
    <3>1. Newest(shown) \in shown
      <4> HIDE DEF shown
      <4> QED
        BY <1>1, <2>1, NewestIsOne
    <3> QED
      BY <1>1, <3>1 DEF SizedBy
  <2>3. executed[i].entry \in Entries
    <3>1. executed[i] \in ExtensionRow
      BY <2>1, <2>2, Rows DEF LedgerInv
    <3> QED
      BY <3>1 DEF ExtensionRow
  <2>4. ShownAs(i) \in Entries
    <3> DEFINE S == {e \in Entries : LabelOf[e] = LabelOf[executed[i].entry]}
    <3>1. S \in SUBSET Entries /\ S # {}
      BY <2>3
    <3>2. FirstOf(S) \in S
      <4> HIDE DEF S
      <4> QED
        BY <3>1, FirstIsOne
    <3> QED
      BY <3>2 DEF ShownAs
  <2> QED
    BY <2>2, <2>4
<1>2. CASE shown = {}
  <2> DEFINE S == {e \in Entries : TypeOf[e] = t}
  <2>1. S \in SUBSET Entries /\ S # {}
    BY DEF Types
  <2>2. FirstOf(S) \in S
    <3> HIDE DEF S
    <3> QED
      BY <2>1, FirstIsOne
  <2> QED
    BY <1>2, <2>2 DEF SizedBy
<1> QED
  BY <1>1, <1>2

\* A type is forecast with a size seen at one of its own entries, or the default,
\* however labels are shared; projectRentCost never forecasts less than the formula
\* owes for it, a longer window never costs less, and never more than the shorter
\* ones it is made of: for every size, rate and discount.
THEOREM ForecastIsSoundHolds == CostSpec => []ForecastIsSound
<1>1. LedgerInv => ForecastIsSound
  <2> SUFFICES ASSUME LedgerInv, NEW days \in Windows, NEW t \in ActiveTypes(days)
               PROVE  LET fee == Forecast(days)[t]
                          size == EntrySize(days, t)
                      IN  /\ \A w \in Windows :
                                 fee[w] * (IF IsCode(t) THEN CodeDiscount ELSE 1)
                                     * Increment * Rate(t) * LedgersDen
                                     >= size * FeePerIncrement * w * LedgersNum
                          /\ size \in SeenSizes(t) \cup {DefaultSize}
                          /\ \A u, v, w \in Windows :
                                 v < w /\ v \in OverBudget(size, t, fee[u]) => w \in OverBudget(size, t, fee[u])
                          /\ \A v, w \in Windows : w % v = 0 => fee[w] <= (w \div v) * fee[v]
    BY DEF ForecastIsSound
  <2> DEFINE size == EntrySize(days, t)
             fee == Forecast(days)[t]
  <2>1. size \in SeenSizes(t) \cup {DefaultSize} /\ size \in Nat
    <3>1. t \in Types
      BY DEF ActiveTypes
    <3>2. SizedBy(days, t) \in Entries /\ TypeOf[SizedBy(days, t)] = t
      BY <3>1, SizedByItsOwn
    <3> QED
      BY <3>2, SizesAreSeen DEF EntrySize
  <2>2. fee = RentWindows(size, t)
    BY DEF Forecast
  <2> HIDE DEF size, fee
  <2>3. \A w \in Windows : w \in Nat \ {0} /\ fee[w] = RentCost(size, w, t)
    BY <2>2, RentAssumption DEF RentWindows
  <2>4. ASSUME NEW w \in Windows
        PROVE  fee[w] * (IF IsCode(t) THEN CodeDiscount ELSE 1)
                   * Increment * Rate(t) * LedgersDen
                   >= size * FeePerIncrement * w * LedgersNum
    <3>1. w \in Nat
      BY <2>3
    <3> QED
      BY <2>1, <2>3, <3>1, RentCosts
  <2>5. ASSUME NEW u \in Windows, NEW v \in Windows, NEW w \in Windows,
               v < w, v \in OverBudget(size, t, fee[u])
        PROVE  w \in OverBudget(size, t, fee[u])
    <3>1. u \in Nat /\ v \in Nat /\ w \in Nat /\ v <= w
      BY <2>3, <2>5
    <3>2. RentWindows(size, t)[v] = RentCost(size, v, t) /\ RentWindows(size, t)[w] = RentCost(size, w, t)
      BY DEF RentWindows
    <3>3. RentCost(size, v, t) <= RentCost(size, w, t)
      BY <2>1, <3>1, RentCosts
    <3>4. /\ RentCost(size, v, t) \in Nat /\ RentCost(size, w, t) \in Nat /\ fee[u] \in Nat
      BY <2>1, <2>3, <3>1, RentCosts
    <3>5. RentCost(size, v, t) > fee[u]
      BY <2>5, <3>2 DEF OverBudget
    <3>6. RentCost(size, w, t) > fee[u]
      BY <3>3, <3>4, <3>5
    <3> QED
      BY <3>2, <3>6 DEF OverBudget
  <2>6. ASSUME NEW v \in Windows, NEW w \in Windows, w % v = 0
        PROVE  fee[w] <= (w \div v) * fee[v]
    <3>1. v \in Nat \ {0} /\ w \in Nat
      BY <2>3
    <3>2. w \div v \in Nat /\ w = (w \div v) * v
      BY <2>6, <3>1, Quotient
    <3>3. RentCost(size, (w \div v) * v, t) <= (w \div v) * RentCost(size, v, t)
      BY <2>1, <3>1, <3>2, RentCosts
    <3> QED
      BY <2>3, <3>2, <3>3
  <2> QED
    BY <2>1, <2>4, <2>5, <2>6 DEF size, fee
<1> QED
  BY <1>1, LedgerInvHolds, PTL

=============================================================================
