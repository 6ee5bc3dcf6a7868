--------------------------- MODULE SchemaMigration ---------------------------
(* SchemaManager (persistence/migration.py) with the commands that call it:    *)
(* `mishkan database upgrade`, the initialisation of an empty destination and  *)
(* the daemon, which starts on a current schema only.  The database is SQLite. *)
(* pysqlite opens a transaction at the first DML statement, so the DDL a       *)
(* migration runs before it is committed at once, and everything after it,     *)
(* the revision row included, is committed together at the end.                *)
EXTENDS Integers, FiniteSets

CONSTANTS
  Operators,        \* processes that may run the manager
  ByPath,           \* those whose manager was given a path rather than a runtime
  HeadRevision,     \* revisions are 1..HeadRevision, 1 being the I02 baseline
  MaxInterruptions  \* bound: deaths and failing statements in the middle of a change

ASSUME SchemaAssumption ==
  /\ ByPath \subseteq Operators
  /\ HeadRevision \in Nat \ {0, 1} /\ MaxInterruptions \in Nat

VARIABLES
  database, \* version: -1 no alembic_version table, 0 no row in it, HeadRevision + 1 a newer build's
            \* done: revisions applied; partial: DDL of the next one committed alone
  original, \* the database as it was found
  backups,  \* the copies made of it
  manager,  \* where each operator's call is, and the state it observed
  serving,  \* the daemon runs
  touchedBy, \* how the database was changed: by "path" or "runtime" managers
  restamped,\* a baseline was written over a later revision
  interrupted

schemaVars == <<database, original, backups, manager, serving, touchedBy, restamped, interrupted>>

BlankDatabase == [version |-> -1, done |-> {}, partial |-> FALSE, foreign |-> FALSE]
AtRevision(v) == [BlankDatabase EXCEPT !.version = v, !.done = 1..v]
Legacy == [BlankDatabase EXCEPT !.done = {1}]

\* DatabaseState, and SchemaManager.status: the I02 layout has no version table.
Status(db) ==
  CASE db = BlankDatabase -> "empty"
    [] db # BlankDatabase /\ db.version = -1 -> IF db = Legacy THEN "legacy_i02" ELSE "unknown"
    [] db.version = HeadRevision -> "current"
    [] db.version \in 1..HeadRevision - 1 -> "outdated"
    [] OTHER -> "unknown"

SchemaTypeOK ==
  /\ database.version \in -1..HeadRevision + 1 /\ database.done \subseteq 1..HeadRevision + 1
  /\ database.partial \in BOOLEAN
  /\ \A p \in Operators :
       /\ manager[p].pc \in {"idle", "observed", "secured", "stamped", "migrating", "done", "failed"}
       /\ manager[p].seen \in {"none", "empty", "legacy_i02", "outdated"}
       /\ manager[p].pc = "migrating" => database.partial
  /\ touchedBy \subseteq {"path", "runtime"} /\ interrupted \in 0..MaxInterruptions

SchemaInit ==
  /\ original \in {BlankDatabase, Legacy, [BlankDatabase EXCEPT !.foreign = TRUE]}
                  \cup {AtRevision(v) : v \in HeadRevision - 1..HeadRevision + 1}
  /\ database = original /\ backups = {}
  /\ manager = [p \in Operators |-> [pc |-> "idle", seen |-> "none"]]
  /\ serving = FALSE /\ touchedBy = {} /\ restamped = FALSE /\ interrupted = 0

Now(p, pc) == manager' = [manager EXCEPT ![p].pc = pc]
Change(p, db) ==
  /\ database' = db
  /\ touchedBy' = IF db = database THEN touchedBy
                  ELSE touchedBy \cup {IF p \in ByPath THEN "path" ELSE "runtime"}

\* SchemaManager.upgrade reads the status; an unrecognised schema is refused.
ObserveSchema(p) ==
  LET found == Status(database) IN
  /\ manager[p].pc = "idle"
  /\ manager' = [manager EXCEPT ![p] =
       CASE found = "current" -> [pc |-> "done", seen |-> "none"]
         [] found = "unknown" -> [pc |-> "failed", seen |-> "none"]
         [] OTHER            -> [pc |-> "observed", seen |-> found]]
  /\ UNCHANGED <<database, original, backups, serving, touchedBy, restamped, interrupted>>

\* initialize: the destination is looked at again and must still be empty.
Initialize(p) ==
  /\ manager[p].pc = "observed" /\ manager[p].seen = "empty"
  /\ Now(p, IF Status(database) = "empty" THEN "stamped" ELSE "failed")
  /\ UNCHANGED <<database, original, backups, serving, touchedBy, restamped, interrupted>>

\* _backup: only a manager that knows the path can copy the file.
Backup(p) ==
  /\ manager[p].pc = "observed" /\ manager[p].seen # "empty"
  /\ backups' = IF p \in ByPath THEN backups \cup {database} ELSE backups
  /\ Now(p, "secured")
  /\ UNCHANGED <<database, original, serving, touchedBy, restamped, interrupted>>

\* Mutant: the legacy layout is stamped with the head revision.
StampHead(p) ==
  /\ manager[p].pc = "secured"
  /\ IF manager[p].seen = "legacy_i02"
       THEN Change(p, [database EXCEPT !.version = HeadRevision]) /\ UNCHANGED restamped
       ELSE UNCHANGED <<database, touchedBy, restamped>>
  /\ Now(p, "stamped")
  /\ UNCHANGED <<original, backups, serving, interrupted>>

\* A legacy layout is stamped with the baseline revision, whatever row is there by now.
Baseline == 1
Stamp(p) ==
  /\ manager[p].pc = "secured"
  /\ IF manager[p].seen = "legacy_i02"
       THEN /\ Change(p, [database EXCEPT !.version = Baseline])
            /\ restamped' = (restamped \/ database.version > Baseline)
       ELSE UNCHANGED <<database, touchedBy, restamped>>
  /\ Now(p, "stamped")
  /\ UNCHANGED <<original, backups, serving, interrupted>>

\* _run_alembic: alembic reads the revision itself.  At the head there is nothing
\* to do; DDL that was applied before fails; otherwise its first statements commit.
Migrate(p) ==
  /\ manager[p].pc = "stamped"
  /\ LET next == IF database.version < 1 THEN 1 ELSE database.version + 1
         fails == database.partial \/ next \in database.done
     IN  IF database.version = HeadRevision \/ fails
           THEN Now(p, IF fails THEN "failed" ELSE "done") /\ UNCHANGED <<database, touchedBy>>
           ELSE /\ Now(p, "migrating")
                /\ Change(p, [database EXCEPT !.partial = TRUE, !.version = IF @ = -1 THEN 0 ELSE @])
  /\ UNCHANGED <<original, backups, serving, restamped, interrupted>>

\* The rest of the history and the revision row are one transaction.
CommitMigration(p) ==
  /\ manager[p].pc = "migrating"
  /\ Change(p, [database EXCEPT !.version = HeadRevision, !.done = 1..HeadRevision, !.partial = FALSE])
  /\ Now(p, "done")
  /\ UNCHANGED <<original, backups, serving, restamped, interrupted>>

\* The process dies or a statement fails: what was committed stays.  Between the
\* creation of the version table and its row the stamp leaves an empty table.
Interrupt(p) ==
  /\ interrupted < MaxInterruptions /\ manager[p].pc \in {"secured", "migrating"}
  /\ interrupted' = interrupted + 1
  /\ Now(p, "failed")
  /\ \/ UNCHANGED <<database, touchedBy>>
     \/ /\ manager[p].pc = "secured" /\ manager[p].seen = "legacy_i02" /\ database.version = -1
        /\ Change(p, [database EXCEPT !.version = 0])
  /\ UNCHANGED <<original, backups, serving, restamped>>

\* The command is run again.
Return(p) ==
  /\ manager[p].pc \in {"done", "failed"}
  /\ manager' = [manager EXCEPT ![p] = [pc |-> "idle", seen |-> "none"]]
  /\ UNCHANGED <<database, original, backups, serving, touchedBy, restamped, interrupted>>

\* require_current: the daemon opens no other schema.
Serve ==
  /\ ~serving /\ Status(database) = "current" /\ serving' = TRUE
  /\ UNCHANGED <<database, original, backups, manager, touchedBy, restamped, interrupted>>

SchemaNext ==
  \/ Serve
  \/ \E p \in Operators :
       \/ ObserveSchema(p) \/ Initialize(p) \/ Backup(p) \/ Stamp(p) \/ Migrate(p) \/ CommitMigration(p)
       \/ Interrupt(p) \/ Return(p)

SchemaSpec == SchemaInit /\ [][SchemaNext]_schemaVars

\* The head revision is recorded only over a schema every migration was applied to
\* whole, whatever was interrupted and whoever else was migrating.
CurrentIsWhole ==
  Status(database) = "current" => database.done = 1..HeadRevision /\ ~database.partial

\* A database that path managers changed can be had back as it was found, also after
\* an interrupted or a concurrent upgrade.
OriginalKept ==
  (touchedBy = {"path"} /\ original # BlankDatabase) => original \in backups

\* The daemon runs on the current schema for as long as it runs, unless an operator
\* who had seen the legacy layout stamped the baseline after another had migrated it.
ServedCurrent == serving => Status(database) = "current" \/ restamped

\* The operator's command says that it backs up what it upgrades (cli/app.py).
UpgradeBackedUp ==
  (touchedBy = {"runtime"} /\ original # BlankDatabase) => original \in backups

\* Whatever two managers do to one database and wherever they die, a current schema is
\* whole, the database as found can be had back, and the daemon serves a current one only.
SchemaSafe ==
  /\ SchemaTypeOK
  /\ CurrentIsWhole
  /\ OriginalKept
  /\ ServedCurrent
=============================================================================
