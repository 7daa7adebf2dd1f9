------------------------------- MODULE Backup -------------------------------
(***************************************************************************)
(* The tables of a sorokeep database with their foreign keys, and db export *)
(* and db import of one process beside the writes of others. An export      *)
(* selects table after table without a transaction; an import is one        *)
(* transaction that empties the exported tables and fills them again, and   *)
(* deletes what hangs on them by cascade. It takes any file: one this       *)
(* database exported, before or after other imports, or one of another.     *)
(*                                                                         *)
(* Four kinds of table stand for all: contracts, contract_entries, configs  *)
(* (alert_configs, extension_policies and resource_alert_configs: exported  *)
(* children of contracts) and two that no backup has: history (children of  *)
(* entries) and alerts (children of configs). channel_accounts refers to    *)
(* nothing and is left out. A row's value is its entry key, for contracts   *)
(* poll_interval_seconds, for history the key its writer meant.            *)
(***************************************************************************)
EXTENDS Integers, Sequences, FiniteSets, FiniteSetsExt

CONSTANTS
    Contracts,      \* contract ids
    Keys,           \* entry keys
    Polls,          \* what --poll-interval is given: a number, or Null for nothing
    Null,           \* SQL NULL, no parent, no row, this database
    OtherFiles,     \* files that other databases exported
    MaxId,          \* bound: ids of each numbered table
    MaxImports      \* bound: imports

Tables == {"contracts", "entries", "configs", "history", "alerts"}

\* The foreign keys, all of them ON DELETE CASCADE.
Parent == [contracts |-> Null, entries |-> "contracts", configs |-> "contracts",
           history |-> "entries", alerts |-> "configs"]

\* EXPORT_TABLES, the order of export and of the inserts of an import, and
\* CLEAR_TABLES.
ExportTables == <<"contracts", "entries", "configs">>
ClearTables == <<"configs", "entries", "contracts">>

Numbered == {"entries", "configs"}

Row == [id : Contracts \cup Nat, parent : Contracts \cup Nat \cup {Null},
        val : Keys \cup Polls \cup {Null}]

Ids(rows) == {r.id : r \in rows}

\* A file that an export of this code wrote: tables and rows as SELECT gave them,
\* all of one moment unless it is torn.
IsExport(f) ==
    /\ f.tables \in Seq(SUBSET Row) /\ Len(f.tables) = Len(ExportTables)
    /\ \A i \in {2, 3} : IsFiniteSet(f.tables[i]) /\ Ids(f.tables[i]) \subseteq Nat
    /\ \A d, e \in f.tables[2] : d.id = e.id => d = e
    /\ ~ f.torn => \A r \in f.tables[2] \cup f.tables[3] : r.parent \in Ids(f.tables[1])

\* Two exports of another database count as two: between them it may have given an
\* id that was given here too.
ASSUME BackupAssumption ==
    /\ Null \notin Tables
    /\ \A f \in OtherFiles : IsExport(f) /\ f.of # Null
    /\ \A f, g \in OtherFiles : f.of = g.of => f = g

\* What SQLite and the code before see to in a file: keys that are unique and refer
\* to rows, ids that AUTOINCREMENT gave, and a history recorded under its entry.
Orderly(rows) ==
    /\ rows \in [Tables -> SUBSET Row]
    /\ \A t \in Tables : IsFiniteSet(rows[t])
    /\ \A t \in Numbered : Ids(rows[t]) \subseteq Nat
    /\ \A t \in Tables : Parent[t] = Null \/ \A r \in rows[t] : r.parent \in Ids(rows[Parent[t]])
    /\ \A e, f \in rows["entries"] : e.id = f.id => e = f
    /\ \A h \in rows["history"], e \in rows["entries"] : e.id = h.parent => e.val = h.val

VARIABLES
    db,         \* the rows of each table
    seq,        \* sqlite_sequence: the last id AUTOINCREMENT gave
    export,     \* the tables selected so far, in order
    torn,       \* something was written since this export began
    backup,     \* the file of the last finished export, or Null
    held,       \* entries whose rows a monitor holds across an await
    origin,     \* the database that gave the entries in the tables their ids
    source,     \* the one that gave those of the export under way theirs
    crossed,    \* a monitor held rows when those of another database replaced them
    imports     \* imports so far, for the bound

backupVars == <<db, seq, export, torn, backup, held, origin, source, crossed, imports>>

TypeOK ==
    /\ \A t \in Tables : db[t] \subseteq Row
    /\ \A t \in Numbered : seq[t] \in 0 .. MaxId[t]
    /\ Len(export) < Len(ExportTables)
    /\ torn \in BOOLEAN
    /\ backup = Null \/ Len(backup.tables) = Len(ExportTables)
    /\ held \subseteq Row
    /\ {origin, source} \subseteq {Null} \cup {f.of : f \in OtherFiles}
    /\ crossed \in BOOLEAN
    /\ imports \in 0 .. MaxImports

\* rows is what the file holds before any process opens it.
BackupInit(rows) ==
    /\ db = rows
    /\ seq = [t \in Numbered |-> Max(Ids(rows[t]) \cup {0})]
    /\ export = << >>
    /\ torn = FALSE
    /\ backup = Null
    /\ held = {}
    /\ origin = Null /\ source = Null /\ crossed = FALSE
    /\ imports = 0

-----------------------------------------------------------------------------
(* Writes of watch, guard, alerts and the daemon.                           *)

\* Mutant of NextId: an id that was used before is used again.
NextIdReused(t) == Max(Ids(db[t]) \cup {0}) + 1

NextId(t) == seq[t] + 1

Wrote == torn' = (torn \/ export # << >>)

\* insertContract: on conflict the old interval stays unless a new one is given.
InsertContract(c, poll) ==
    LET old == {r \in db["contracts"] : r.id = c}
        new == [id |-> c, parent |-> Null,
                val |-> IF poll = Null /\ old # {} THEN (CHOOSE r \in old : TRUE).val ELSE poll]
    IN  /\ db' = [db EXCEPT !["contracts"] = (@ \ old) \cup {new}]
        /\ db' # db
        /\ Wrote
        /\ UNCHANGED <<seq, export, backup, held, origin, source, crossed, imports>>

\* upsertEntry and insertAlertConfig; without its contract the insert throws.
InsertChild(t, c, val) ==
    /\ c \in Ids(db["contracts"])
    /\ t = "entries" => \A r \in db[t] : r.parent # c \/ r.val # val
    /\ NextId(t) <= MaxId[t]
    /\ db' = [db EXCEPT ![t] = @ \cup {[id |-> NextId(t), parent |-> c, val |-> val]}]
    /\ seq' = [seq EXCEPT ![t] = Max({@, NextId(t)})]
    /\ Wrote
    /\ UNCHANGED <<export, backup, held, origin, source, crossed, imports>>

\* deleteAlertConfig; its alerts go with it.
RemoveConfig(r) ==
    /\ r \in db["configs"]
    /\ db' = [db EXCEPT !["configs"] = @ \ {r},
                        !["alerts"] = {a \in @ : a.parent # r.id}]
    /\ Wrote
    /\ UNCHANGED <<seq, export, backup, held, origin, source, crossed, imports>>

\* processContract reads the rows of a contract's entries, awaits the node ...
MonitorReads(c) ==
    /\ held = {}
    /\ held' = {r \in db["entries"] : r.parent = c}
    /\ UNCHANGED <<db, seq, export, torn, backup, origin, source, crossed, imports>>

\* ... and records what it saw under the ids it holds. An id that is gone
\* violates the foreign key and ends the contract's turn.
MonitorWrites(r) ==
    /\ r \in held
    /\ held' = {}
    /\ IF r.id \in Ids(db["entries"])
       THEN /\ db' = [db EXCEPT !["history"] =
                         @ \cup {[id |-> r.id, parent |-> r.id, val |-> r.val]},
                      !["alerts"] = @ \cup
                         {[id |-> g.id, parent |-> g.id, val |-> Null] :
                             g \in {h \in db["configs"] : h.parent = r.parent}}]
            /\ Wrote
       ELSE UNCHANGED <<db, torn>>
    /\ UNCHANGED <<seq, export, backup, origin, source, crossed, imports>>

-----------------------------------------------------------------------------
(* exportDatabase and importDatabase.                                      *)

\* One selectTable; the last one completes the file.
ExportTable ==
    LET next == ExportTables[Len(export) + 1]
        done == Append(export, db[next])
    IN  /\ IF Len(done) = Len(ExportTables)
           THEN /\ backup' = [tables |-> done, torn |-> torn, of |-> source]
                /\ export' = << >>
                /\ torn' = FALSE
                /\ source' = Null
           ELSE /\ export' = done
                /\ source' = IF next = "entries" THEN origin ELSE source
                /\ UNCHANGED <<backup, torn>>
        /\ UNCHANGED <<db, seq, held, origin, crossed, imports>>

\* The tables a DELETE of all rows of t empties.
Cascades(t) == {u \in Tables : Parent[u] = t \/ \E v \in Tables : Parent[v] = t /\ Parent[u] = v}

DeleteAll(d, t) == [u \in Tables |-> IF u \in {t} \cup Cascades(t) THEN {} ELSE d[u]]

\* TABLE_COLUMNS: contracts are restored without poll_interval_seconds.
Columns(t, r) == IF t = "contracts" THEN [r EXCEPT !.val = Null] ELSE r

RowsOf(file, t) ==
    {Columns(t, r) : r \in file[CHOOSE i \in DOMAIN ExportTables : ExportTables[i] = t]}

\* An insert of an import: ids are kept, parents must be there already.
Accepts(d, t, rows) ==
    /\ \A r \in rows : Parent[t] = Null \/ r.parent \in Ids(d[Parent[t]])
    /\ Ids(rows) \cap Ids(d[t]) = {}

Failed == [t \in Tables |-> {Null}]

InsertAll(d, t, rows) ==
    IF d # Failed /\ Accepts(d, t, rows) THEN [d EXCEPT ![t] = @ \cup rows] ELSE Failed

\* The tables after the deletes of importDatabase, and after its inserts.
Cleared == DeleteAll(DeleteAll(DeleteAll(db, ClearTables[1]), ClearTables[2]), ClearTables[3])

Filled(order, file) ==
    LET Insert(d, t) == InsertAll(d, t, RowsOf(file, t))
    IN  Insert(Insert(Insert(Cleared, order[1]), order[2]), order[3])

\* Mutant of Imported: the inserts in the order of the deletes.
ImportedChildrenFirst(file) == Filled(ClearTables, file)

\* The tables after the transaction of importDatabase, or Failed.
Imported(file) == Filled(ExportTables, file)

\* The files there are to import.
Files == OtherFiles \cup ({backup} \ {Null})

\* db import <file>: a failure rolls everything back. No history is left to be
\* under a wrong id, and none will be unless a monitor holds one.
Import(file) ==
    /\ imports < MaxImports
    /\ imports' = imports + 1
    /\ LET new == Imported(file.tables)
       IN  IF new = Failed
           THEN UNCHANGED <<db, seq, torn, origin, crossed>>
           ELSE /\ db' = new
                /\ seq' = [t \in Numbered |-> Max({seq[t]} \cup Ids(new[t]))]
                /\ origin' = file.of
                /\ crossed' = (held # {} /\ (crossed \/ file.of # origin))
                /\ Wrote
    /\ UNCHANGED <<export, source, backup, held>>

-----------------------------------------------------------------------------

\* A monitor records what it saw under the entry it saw it of, although the
\* tables may be replaced while it awaits the node: an import of what this
\* database exported never makes an id mean another entry. One of another
\* database does; it harms only a monitor that holds rows at that moment.
IdsKeepTheirMeaning ==
    ~ crossed =>
        \A h \in db["history"] : \A e \in db["entries"] : e.id = h.parent => e.val = h.val

\* A file that nothing wrote into while it was made can always be imported, into
\* whatever database, and brings back exactly what it holds but the poll intervals.
CleanBackupRestores ==
    [][\A f \in Files : (Import(f) /\ ~ f.torn) =>
           \A i \in DOMAIN ExportTables : LET t == ExportTables[i] IN
               db'[t] = {IF t = "contracts" THEN [r EXCEPT !.val = Null] ELSE r :
                             r \in f.tables[i]}]_backupVars

=============================================================================
