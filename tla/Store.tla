-------------------------------- MODULE Store -------------------------------
(***************************************************************************)
(* The database file: processes open it, each bringing an older file up to  *)
(* date statement by statement, and work with it as Backup has it. A        *)
(* process may stop at any point; what one statement or transaction did is  *)
(* kept, an unfinished transaction is not.                                 *)
(***************************************************************************)
EXTENDS Backup

CONSTANTS
    Daemon, Cli,    \* the process that monitors and the one that backs up
    Migrations,     \* versions of the files in db/migrations
    OldRows,        \* the rows of a file of an older version
    MaxFaults       \* bound: stops and locked tables

Procs == {Daemon, Cli}

ASSUME StoreAssumption ==
    /\ Daemon # Cli
    /\ IsFiniteSet(Migrations) /\ Migrations \subseteq Nat
    /\ Orderly(OldRows)
    /\ MaxFaults \in Nat /\ MaxId \in [Numbered -> Nat] /\ MaxImports \in Nat

VARIABLES
    created,    \* the tables of schema.sql exist
    columns,    \* so do the columns that were added to them later
    legacy,     \* alert_configs has the CHECK of an older version
    applied,    \* schema_migrations
    pc,         \* how far getDatabase is in each process
    todo,       \* the pending migrations it computed
    enforce,    \* the foreign_keys pragma of each connection
    ignored,    \* an ALTER failed on a lock and the error was swallowed
    faults      \* faults so far, for the bound

fileVars == <<created, columns, legacy, applied>>
openVars == <<fileVars, pc, todo, enforce, ignored, faults>>
vars == <<backupVars, openVars>>

Stages == {"down", "schema", "pending", "migrate", "alter", "check", "off", "rebuild", "on", "open"}

StoreTypeOK ==
    /\ TypeOK
    /\ {created, columns, legacy, ignored} \subseteq BOOLEAN
    /\ applied \subseteq Migrations
    /\ pc \in [Procs -> Stages]
    /\ todo \in [Procs -> SUBSET Migrations]
    /\ enforce \in [Procs -> BOOLEAN]
    /\ faults \in 0 .. MaxFaults

NoRows == [t \in Tables |-> {}]

\* A new file, or one that a version before the last ones wrote.
Init ==
    /\ \/ BackupInit(NoRows) /\ created = FALSE /\ columns = FALSE /\ legacy = FALSE
       \/ BackupInit(OldRows) /\ created = TRUE /\ columns \in BOOLEAN /\ legacy \in BOOLEAN
    /\ applied = {}
    /\ pc = [p \in Procs |-> "down"]
    /\ todo = [p \in Procs |-> {}]
    /\ enforce = [p \in Procs |-> FALSE]
    /\ ignored = FALSE
    /\ faults = 0

-----------------------------------------------------------------------------
(* getDatabase.                                                            *)

Goes(p, from, to) == pc[p] = from /\ pc' = [pc EXCEPT ![p] = to]

Start(p) ==
    /\ Goes(p, "down", "schema")
    /\ enforce' = [enforce EXCEPT ![p] = TRUE]
    /\ UNCHANGED <<backupVars, fileVars, todo, ignored, faults>>

\* CREATE TABLE IF NOT EXISTS, for every table.
ExecSchema(p) ==
    /\ Goes(p, "schema", "pending")
    /\ created' = TRUE
    /\ columns' = (columns \/ ~ created)
    /\ UNCHANGED <<backupVars, legacy, applied, todo, enforce, ignored, faults>>

\* getPendingMigrations.
ReadPending(p) ==
    /\ Goes(p, "pending", "migrate")
    /\ todo' = [todo EXCEPT ![p] = Migrations \ applied]
    /\ UNCHANGED <<backupVars, fileVars, enforce, ignored, faults>>

\* Mutant of MigrationTaken: a migration that another process applied ends
\* the run of the migrator, but not getDatabase.
MigrationTakenIgnored(p) == pc' = [pc EXCEPT ![p] = "alter"]

\* The version is there already: the transaction and getDatabase throw.
MigrationTaken(p) == pc' = [pc EXCEPT ![p] = "down"]

\* A migration and its record, in one transaction.
Migrate(p) ==
    /\ pc[p] = "migrate"
    /\ todo[p] # {}
    /\ LET version == Min(todo[p]) IN
       IF version \in applied
       THEN /\ MigrationTaken(p)
            /\ todo' = [todo EXCEPT ![p] = {}]
            /\ UNCHANGED applied
       ELSE /\ applied' = applied \cup {version}
            /\ todo' = [todo EXCEPT ![p] = @ \ {version}]
            /\ UNCHANGED pc
    /\ UNCHANGED <<backupVars, created, columns, legacy, enforce, ignored, faults>>

MigrationsDone(p) ==
    /\ todo[p] = {}
    /\ Goes(p, "migrate", "alter")
    /\ UNCHANGED <<backupVars, fileVars, todo, enforce, ignored, faults>>

\* Mutant of Alter: the error of a column that is there already is not caught.
AlterUncaught(p) ==
    /\ Goes(p, "alter", IF columns THEN "down" ELSE "check")
    /\ columns' = TRUE
    /\ UNCHANGED <<backupVars, created, legacy, applied, todo, enforce, ignored, faults>>

\* The ALTER TABLE statements: any error is taken for "duplicate column".
Alter(p) ==
    /\ Goes(p, "alter", "check")
    /\ \/ columns' = TRUE /\ UNCHANGED <<ignored, faults>>
       \/ /\ ~ columns /\ faults < MaxFaults
          /\ ignored' = TRUE
          /\ faults' = faults + 1
          /\ UNCHANGED columns
    /\ UNCHANGED <<backupVars, created, legacy, applied, todo, enforce>>

\* migrateAlertConfigsChannelTypeCheck looks at the table's definition, ...
Check(p) ==
    /\ Goes(p, "check", IF legacy THEN "off" ELSE "open")
    /\ UNCHANGED <<backupVars, fileVars, todo, enforce, ignored, faults>>

\* Mutant of ForeignKeysOff: within a transaction the pragma does nothing.
ForeignKeysStayOn(p) ==
    /\ Goes(p, "off", "rebuild")
    /\ UNCHANGED <<backupVars, fileVars, todo, enforce, ignored, faults>>

\* ... PRAGMA foreign_keys = OFF, ...
ForeignKeysOff(p) ==
    /\ Goes(p, "off", "rebuild")
    /\ enforce' = [enforce EXCEPT ![p] = FALSE]
    /\ UNCHANGED <<backupVars, fileVars, todo, ignored, faults>>

\* DROP TABLE deletes the rows first, on a connection that enforces foreign keys.
Dropped(d, t, enforced) == IF enforced THEN DeleteAll(d, t) ELSE [d EXCEPT ![t] = {}]

\* What INSERT INTO alert_configs_new ... SELECT takes over of the rows.
Copied(rows) == {[id |-> r.id, parent |-> r.parent, val |-> r.val] : r \in rows}

\* The copy, the drop of the old table, and the new one in its place.
Rebuilt(d, enforced) == [Dropped(d, "configs", enforced) EXCEPT !["configs"] = Copied(d["configs"])]

\* ... the transaction that puts a table with the new CHECK in place: the copy
\* names webhook_secret and throws without the column. The sequence of the new
\* table starts from the ids it was given.
Rebuild(p) ==
    /\ pc[p] = "rebuild"
    /\ IF columns
       THEN /\ db' = Rebuilt(db, enforce[p])
            /\ legacy' = FALSE
            /\ seq' = [seq EXCEPT !["configs"] = Max(Ids(Copied(db["configs"])) \cup {0})]
            /\ pc' = [pc EXCEPT ![p] = "on"]
       ELSE /\ UNCHANGED <<db, legacy, seq>>
            /\ pc' = [pc EXCEPT ![p] = "down"]
    /\ UNCHANGED <<export, torn, backup, held, origin, source, crossed, imports,
                   created, columns, applied, todo, enforce, ignored, faults>>

\* ... and PRAGMA foreign_keys = ON.
ForeignKeysOn(p) ==
    /\ Goes(p, "on", "open")
    /\ enforce' = [enforce EXCEPT ![p] = TRUE]
    /\ UNCHANGED <<backupVars, fileVars, todo, ignored, faults>>

\* The process is killed: an export or a monitor cycle under way is lost.
Stop(p) ==
    /\ pc[p] # "down"
    /\ faults < MaxFaults
    /\ faults' = faults + 1
    /\ pc' = [pc EXCEPT ![p] = "down"]
    /\ todo' = [todo EXCEPT ![p] = {}]
    /\ export' = IF p = Cli THEN << >> ELSE export
    /\ torn' = IF p = Cli THEN FALSE ELSE torn
    /\ source' = IF p = Cli THEN Null ELSE source
    /\ held' = IF p = Daemon THEN {} ELSE held
    /\ UNCHANGED <<db, seq, backup, origin, crossed, imports, fileVars, enforce, ignored>>

Opening(p) ==
    \/ Start(p) \/ ExecSchema(p) \/ ReadPending(p) \/ Migrate(p) \/ MigrationsDone(p)
    \/ Alter(p) \/ Check(p) \/ ForeignKeysOff(p) \/ Rebuild(p) \/ ForeignKeysOn(p)

Working(p) == pc[p] = "open"

\* Work on an open database: the backups of one process, the cycles of the
\* other, and what either, or any other command, writes in between.
Work ==
    /\ \/ Working(Cli) /\ (ExportTable \/ \E f \in Files : Import(f))
       \/ /\ Working(Daemon)
          /\ \/ \E c \in Contracts : MonitorReads(c)
             \/ \E r \in held : MonitorWrites(r)
       \/ /\ \E p \in Procs : Working(p)
          /\ \/ \E c \in Contracts, poll \in Polls : InsertContract(c, poll)
             \/ \E c \in Contracts, k \in Keys : InsertChild("entries", c, k)
             \/ \E c \in Contracts : InsertChild("configs", c, Null)
             \/ \E r \in db["configs"] : RemoveConfig(r)
    /\ UNCHANGED openVars

Next == Work \/ \E p \in Procs : Opening(p) \/ Stop(p)

Spec == Init /\ [][Next]_vars

\* A process that stopped or failed to open is started again.
Fairness == \A p \in Procs : WF_vars(Opening(p))

FairSpec == Spec /\ Fairness

-----------------------------------------------------------------------------

\* Bringing a file up to date loses no row, neither of the table that is copied and
\* dropped nor, by cascade, of those that refer to it, wherever a process stops
\* and whatever the others write meanwhile.
OpeningKeepsRows ==
    [][(\E p \in Procs : Opening(p) \/ Stop(p)) => UNCHANGED db]_vars

\* Whoever works on the file has seen it brought up to date and enforces its
\* foreign keys, although two processes may open it at once and be stopped half
\* way; only an ALTER whose error was swallowed may have left a column out.
OpenIsCurrent ==
    \A p \in Procs : Working(p) =>
        applied = Migrations /\ ~ legacy /\ enforce[p] /\ (columns \/ ignored)

\* Every process can open the file in the end: the migrations two processes
\* take from each other, and half-made updates, do not lock anybody out.
OpensInTheEnd == \A p \in Procs : pc[p] # "open" ~> pc[p] = "open"

=============================================================================
