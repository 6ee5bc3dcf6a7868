----------------------------- MODULE StoreProofs ------------------------------
(***************************************************************************)
(* The stores of the daemon, for any operators, readers, plans, calls and  *)
(* paths: a current schema is whole and the database it was made from can  *)
(* be had back, the event stream skips nothing it still retains, retention *)
(* removes only what a plan listed and nothing protects, the settlement of *)
(* a git effect says what happened, and the rows and bodies of artifacts   *)
(* stay in agreement.                                                      *)
(***************************************************************************)
EXTENDS EventOutbox, Artifacts, GitEffects, SchemaMigration, FiniteSetTheorems, TLAPS

-----------------------------------------------------------------------------
(* Schema migration. *)

\* Any database the manager may find or leave.
Databases == [version : -1..HeadRevision + 1, done : SUBSET (1..HeadRevision + 1),
              partial : BOOLEAN, foreign : BOOLEAN]

SchemaTypes ==
  /\ database \in Databases
  /\ manager \in [Operators ->
       [pc : {"idle", "observed", "secured", "stamped", "migrating", "done", "failed"},
        seen : {"none", "empty", "legacy_i02", "outdated"}]]
  /\ touchedBy \subseteq {"path", "runtime"} /\ interrupted \in 0..MaxInterruptions
  /\ serving \in BOOLEAN /\ restamped \in BOOLEAN

\* One manager migrates at a time, after its first statements committed.
OneMigrates ==
  /\ \A p \in Operators : manager[p].pc = "migrating" => database.partial
  /\ \A p, q \in Operators : manager[p].pc = "migrating" /\ manager[q].pc = "migrating" => p = q

\* A manager with a path copied the database before it changes it: as it was found, unless
\* somebody had changed it by then.
CopiedFirst ==
  \A p \in ByPath :
    /\ manager[p].pc \in {"secured", "stamped", "migrating"} /\ original # BlankDatabase
    /\ touchedBy \subseteq {"path"}
    => original \in backups

SchemaInv ==
  /\ SchemaTypes
  /\ OneMigrates
  /\ database.version = HeadRevision => database.done = 1..HeadRevision /\ ~database.partial
  /\ touchedBy = {} \/ database.version = -1 => database = original
  /\ \A p \in Operators : manager[p].seen = "empty" => original = BlankDatabase
  /\ CopiedFirst
  /\ OriginalKept
  /\ ServedCurrent

\* What a status says of the recorded version.
LEMMA StatusOf ==
  ASSUME NEW db \in Databases
  PROVE  /\ Status(db) = "current" <=> db.version = HeadRevision
         /\ Status(db) = "empty" <=> db = BlankDatabase
         /\ Status(db) \in {"empty", "legacy_i02", "current", "outdated", "unknown"}
<1>1. BlankDatabase.version = -1
  BY DEF BlankDatabase
<1> QED BY <1>1, SchemaAssumption DEF Status, Databases

\* A database whose revision was written again.
LEMMA VersionSet ==
  ASSUME NEW db \in Databases, NEW v \in -1..HeadRevision + 1
  PROVE  /\ [db EXCEPT !.version = v] \in Databases
         /\ [db EXCEPT !.version = v].version = v
         /\ [db EXCEPT !.version = v].partial = db.partial
BY DEF Databases

\* A database some of whose next migration was committed.
LEMMA PartialSet ==
  ASSUME NEW db \in Databases, NEW v \in -1..HeadRevision + 1
  PROVE  /\ [db EXCEPT !.partial = TRUE, !.version = v] \in Databases
         /\ [db EXCEPT !.partial = TRUE, !.version = v].version = v
         /\ [db EXCEPT !.partial = TRUE, !.version = v].partial = TRUE
BY DEF Databases

\* A database with tables of its own.
LEMMA DoneSet ==
  ASSUME NEW db \in Databases, NEW d \in SUBSET (1..HeadRevision + 1)
  PROVE  /\ [db EXCEPT !.done = d] \in Databases
         /\ [db EXCEPT !.done = d].version = db.version
         /\ [db EXCEPT !.foreign = TRUE] \in Databases
         /\ [db EXCEPT !.foreign = TRUE].version = db.version
BY DEF Databases

\* The database as it is found satisfies the invariant.
LEMMA SchemaInitially == SchemaInit => SchemaInv
<1> USE SchemaAssumption
<1> SUFFICES ASSUME SchemaInit PROVE SchemaInv
  OBVIOUS
<1>1. /\ BlankDatabase \in Databases /\ BlankDatabase.version = -1
      /\ BlankDatabase.partial = FALSE
  BY DEF BlankDatabase, Databases
<1>2. ASSUME NEW v \in HeadRevision - 1..HeadRevision + 1
      PROVE  /\ AtRevision(v) \in Databases
             /\ AtRevision(v).version = v /\ AtRevision(v).done = 1..v
             /\ AtRevision(v).partial = FALSE
  <2>1. v \in -1..HeadRevision + 1 /\ 1..v \in SUBSET (1..HeadRevision + 1)
    OBVIOUS
  <2> DEFINE db == BlankDatabase
             d == 1..v
  <2>2. db \in Databases /\ db.partial = FALSE /\ d \in SUBSET (1..HeadRevision + 1)
    BY <1>1, <2>1
  <2> HIDE DEF db, d
  <2>3. /\ [db EXCEPT !.version = v, !.done = d] \in Databases
        /\ [db EXCEPT !.version = v, !.done = d].version = v
        /\ [db EXCEPT !.version = v, !.done = d].done = d
        /\ [db EXCEPT !.version = v, !.done = d].partial = FALSE
    BY <2>1, <2>2 DEF Databases
  <2> QED BY <2>3 DEF AtRevision, db, d
<1>4. /\ Legacy \in Databases /\ Legacy.version = -1
      /\ [BlankDatabase EXCEPT !.foreign = TRUE] \in Databases
      /\ [BlankDatabase EXCEPT !.foreign = TRUE].version = -1
  <2>1. {1} \in SUBSET (1..HeadRevision + 1)
    OBVIOUS
  <2> QED BY <1>1, <2>1, DoneSet DEF Legacy
<1>6. /\ database \in Databases
      /\ database.version = HeadRevision => database.done = 1..HeadRevision /\ ~database.partial
  <2> DEFINE foreign == [BlankDatabase EXCEPT !.foreign = TRUE]
  <2>3. foreign \in Databases /\ foreign.version = -1
    BY <1>4
  <2> HIDE DEF foreign
  <2>1. CASE database \in {BlankDatabase, Legacy, foreign}
    <3>1. database \in Databases /\ database.version = -1
      BY <2>1, <2>3, <1>1, <1>4
    <3> QED BY <3>1
  <2>2. CASE \E v \in HeadRevision - 1..HeadRevision + 1 : database = AtRevision(v)
    <3>1. PICK v \in HeadRevision - 1..HeadRevision + 1 : database = AtRevision(v)
      BY <2>2
    <3>2. database.version = v /\ database.done = 1..v /\ database.partial = FALSE
      BY <3>1, <1>2
    <3>3. database \in Databases
      BY <3>1, <1>2
    <3> QED BY <3>2, <3>3
  <2> QED BY <2>1, <2>2 DEF SchemaInit, foreign
<1>3. SchemaTypes
  <2>1. manager \in [Operators ->
          [pc : {"idle", "observed", "secured", "stamped", "migrating", "done", "failed"},
           seen : {"none", "empty", "legacy_i02", "outdated"}]]
    BY DEF SchemaInit
  <2>2. interrupted \in 0..MaxInterruptions /\ touchedBy = {} /\ serving = FALSE /\ restamped = FALSE
    BY DEF SchemaInit
  <2> QED BY <1>6, <2>1, <2>2 DEF SchemaTypes
<1> QED BY <1>6, <1>3
    DEF SchemaInit, SchemaInv, OneMigrates, CopiedFirst, OriginalKept, ServedCurrent

\* Every change of the schema keeps the invariant.
LEMMA SchemaStep == SchemaInv /\ [SchemaNext]_schemaVars => SchemaInv'
<1> USE SchemaAssumption
<1> SUFFICES ASSUME SchemaInv, [SchemaNext]_schemaVars PROVE SchemaInv'
  OBVIOUS
<1>t. SchemaTypes /\ OneMigrates /\ CopiedFirst /\ OriginalKept /\ ServedCurrent
  BY DEF SchemaInv
<1>v. /\ database.version = HeadRevision => database.done = 1..HeadRevision /\ ~database.partial
      /\ touchedBy = {} \/ database.version = -1 => database = original
      /\ \A p \in Operators : manager[p].seen = "empty" => original = BlankDatabase
  BY DEF SchemaInv
\* A manager moves without touching the database.
<1>m. ASSUME NEW p \in Operators, UNCHANGED <<database, original, touchedBy, restamped>>,
             manager' \in [Operators -> [pc : {"idle", "observed", "secured", "stamped",
                                               "migrating", "done", "failed"},
                                         seen : {"none", "empty", "legacy_i02", "outdated"}]],
             \A q \in Operators : q # p => manager'[q] = manager[q],
             manager'[p].pc # "migrating", backups \subseteq backups',
             manager'[p].seen = "empty" => original = BlankDatabase,
             (/\ p \in ByPath /\ manager'[p].pc \in {"secured", "stamped"}
              /\ original # BlankDatabase /\ touchedBy \subseteq {"path"}) => original \in backups',
             UNCHANGED serving, interrupted' \in 0..MaxInterruptions
      PROVE  SchemaInv'
  <2>1. SchemaTypes'
    BY <1>m, <1>t DEF SchemaTypes
  <2>2. OneMigrates'
    BY <1>m, <1>t DEF OneMigrates
  <2>3. CopiedFirst'
    BY <1>m, <1>t DEF CopiedFirst, BlankDatabase
  <2>4. OriginalKept' /\ ServedCurrent'
    BY <1>m, <1>t, <1>v DEF OriginalKept, ServedCurrent, BlankDatabase, Status, Legacy
  <2>5. /\ (database.version = HeadRevision => database.done = 1..HeadRevision /\ ~database.partial)'
        /\ (touchedBy = {} \/ database.version = -1 => database = original)'
    BY <1>m, <1>v
  <2>6. \A q \in Operators : manager'[q].seen = "empty" => original' = BlankDatabase
    BY <1>m, <1>v
  <2> QED BY <2>1, <2>2, <2>3, <2>4, <2>5, <2>6 DEF SchemaInv, BlankDatabase
\* A manager changes the database, to a state that is current only if it is whole.
<1>c. ASSUME NEW p \in Operators, NEW db, Change(p, db), UNCHANGED <<original, backups, serving>>,
             db \in Databases,
             db.version # -1, db.version = HeadRevision => db.done = 1..HeadRevision /\ ~db.partial,
             NEW pc \in {"secured", "stamped", "migrating", "done", "failed"}, Now(p, pc),
             manager[p].pc \in {"secured", "stamped", "migrating"},
             pc = "migrating" => db.partial,
             \A q \in Operators : q # p /\ manager[q].pc = "migrating" => db.partial /\ pc # "migrating",
             database.version = HeadRevision => db.version = HeadRevision \/ restamped',
             restamped' \in BOOLEAN, restamped => restamped',
             interrupted' \in 0..MaxInterruptions
      PROVE  SchemaInv'
  <2>1. /\ manager'[p].pc = pc /\ manager'[p].seen = manager[p].seen
        /\ \A q \in Operators : q # p => manager'[q] = manager[q]
        /\ manager' \in [Operators -> [pc : {"idle", "observed", "secured", "stamped", "migrating",
                                             "done", "failed"},
                                       seen : {"none", "empty", "legacy_i02", "outdated"}]]
    BY <1>c, <1>t DEF Now, SchemaTypes
  <2>2. /\ database' = db
        /\ touchedBy' = IF db = database THEN touchedBy
                        ELSE touchedBy \cup {IF p \in ByPath THEN "path" ELSE "runtime"}
    BY <1>c DEF Change
  <2>3. SchemaTypes'
    BY <1>c, <1>t, <2>1, <2>2 DEF SchemaTypes
  <2>4. OneMigrates'
    BY <1>c, <1>t, <2>1, <2>2 DEF OneMigrates
  <2>5. CopiedFirst'
    <3> SUFFICES ASSUME NEW q \in ByPath, manager'[q].pc \in {"secured", "stamped", "migrating"},
                        original # BlankDatabase, touchedBy' \subseteq {"path"}
                 PROVE  original \in backups
      BY <1>c DEF CopiedFirst, BlankDatabase
    <3>1. touchedBy \subseteq {"path"} /\ manager[q].pc \in {"secured", "stamped", "migrating"}
      BY <1>c, <2>1, <2>2
    <3> QED BY <3>1, <1>t DEF CopiedFirst
  <2>6. OriginalKept'
    <3> SUFFICES ASSUME touchedBy' = {"path"}, original # BlankDatabase PROVE original \in backups
      BY <1>c DEF OriginalKept, BlankDatabase
    <3>1. CASE touchedBy = {"path"}
      BY <3>1, <1>t DEF OriginalKept
    <3>2. CASE touchedBy # {"path"}
      <4>1. touchedBy \subseteq {"path"} /\ p \in ByPath
        BY <3>2, <2>2
      <4> QED BY <4>1, <1>c, <1>t DEF CopiedFirst
    <3> QED BY <3>1, <3>2
  <2>7. ServedCurrent'
    <3>1. Status(database') = "current" <=> db.version = HeadRevision
      BY <1>c, <2>2, StatusOf
    <3>2. Status(database) = "current" <=> database.version = HeadRevision
      BY <1>t, StatusOf DEF SchemaTypes
    <3>3. Status(database)' = Status(database')
      BY DEF Status, BlankDatabase, Legacy
    <3> QED BY <3>1, <3>2, <3>3, <1>c, <1>t DEF ServedCurrent
  <2>8. (touchedBy = {} \/ database.version = -1 => database = original)'
    BY <1>c, <1>v, <2>2
  <2>9. (database.version = HeadRevision => database.done = 1..HeadRevision /\ ~database.partial)'
    BY <1>c, <2>2
  <2>10. \A q \in Operators : manager'[q].seen = "empty" => original' = BlankDatabase
    BY <1>c, <1>v, <2>1
  <2> QED BY <2>3, <2>4, <2>5, <2>6, <2>7, <2>8, <2>9, <2>10 DEF SchemaInv, BlankDatabase
<1>1. ASSUME NEW p \in Operators, ObserveSchema(p) PROVE SchemaInv'
  <2>1. /\ UNCHANGED <<database, original, backups, serving, touchedBy, restamped, interrupted>>
        /\ manager' = [manager EXCEPT ![p] =
             CASE Status(database) = "current" -> [pc |-> "done", seen |-> "none"]
               [] Status(database) = "unknown" -> [pc |-> "failed", seen |-> "none"]
               [] OTHER -> [pc |-> "observed", seen |-> Status(database)]]
    BY <1>1 DEF ObserveSchema
  <2>2. Status(database) \in {"empty", "legacy_i02", "current", "outdated", "unknown"}
        /\ (Status(database) = "empty" => database = BlankDatabase)
    BY <1>t, StatusOf DEF SchemaTypes
  <2>3. /\ manager'[p].pc \in {"done", "failed", "observed"}
        /\ manager'[p].seen = "empty" => Status(database) = "empty"
        /\ manager' \in [Operators -> [pc : {"idle", "observed", "secured", "stamped", "migrating",
                                             "done", "failed"},
                                       seen : {"none", "empty", "legacy_i02", "outdated"}]]
        /\ \A q \in Operators : q # p => manager'[q] = manager[q]
    BY <2>1, <2>2, <1>t DEF SchemaTypes
  <2>4. BlankDatabase.version = -1
    BY DEF BlankDatabase
  <2>5. manager'[p].seen = "empty" => original = BlankDatabase
    BY <2>2, <2>3, <2>4, <1>v
  <2>6. interrupted' \in 0..MaxInterruptions
    BY <2>1, <1>t DEF SchemaTypes
  <2> QED BY <2>1, <2>3, <2>5, <2>6, <1>m
<1>2. ASSUME NEW p \in Operators, Initialize(p) \/ Return(p) PROVE SchemaInv'
  <2>1. /\ UNCHANGED <<database, original, backups, serving, touchedBy, restamped, interrupted>>
        /\ manager'[p].pc \in {"idle", "stamped", "failed"}
        /\ manager'[p].seen \in {"none", manager[p].seen}
        /\ manager'[p].pc = "stamped" => manager[p].seen = "empty"
        /\ manager' \in [Operators -> [pc : {"idle", "observed", "secured", "stamped", "migrating",
                                             "done", "failed"},
                                       seen : {"none", "empty", "legacy_i02", "outdated"}]]
        /\ \A q \in Operators : q # p => manager'[q] = manager[q]
    BY <1>2, <1>t DEF Initialize, Return, Now, SchemaTypes
  <2>2. interrupted' \in 0..MaxInterruptions
    BY <2>1, <1>t DEF SchemaTypes
  <2> QED BY <2>1, <2>2, <1>m, <1>v
<1>3. ASSUME NEW p \in Operators, Backup(p) PROVE SchemaInv'
  <2>1. /\ UNCHANGED <<database, original, serving, touchedBy, restamped, interrupted>>
        /\ manager'[p].pc = "secured" /\ manager'[p].seen = manager[p].seen
        /\ manager' \in [Operators -> [pc : {"idle", "observed", "secured", "stamped", "migrating",
                                             "done", "failed"},
                                       seen : {"none", "empty", "legacy_i02", "outdated"}]]
        /\ \A q \in Operators : q # p => manager'[q] = manager[q]
        /\ backups' = IF p \in ByPath THEN backups \cup {database} ELSE backups
    BY <1>3, <1>t DEF Backup, Now, SchemaTypes
  <2>2. ASSUME p \in ByPath, original # BlankDatabase, touchedBy \subseteq {"path"}
        PROVE  original \in backups'
    <3>1. CASE touchedBy = {}
      BY <2>1, <2>2, <3>1, <1>v
    <3>2. CASE touchedBy # {}
      <4>1. touchedBy = {"path"}
        BY <2>2, <3>2
      <4> QED BY <2>1, <2>2, <4>1, <1>t DEF OriginalKept
    <3> QED BY <3>1, <3>2
  <2>3. interrupted' \in 0..MaxInterruptions
    BY <2>1, <1>t DEF SchemaTypes
  <2>4. manager'[p].seen = "empty" => original = BlankDatabase
    BY <2>1, <1>v
  <2> QED BY <2>1, <2>2, <2>3, <2>4, <1>m
<1>4. ASSUME NEW p \in Operators, manager[p].pc \in {"secured", "stamped", "migrating"},
             NEW pc \in {"stamped", "done", "failed"}, Now(p, pc),
             pc = "stamped" => manager[p].pc = "secured",
             UNCHANGED <<database, original, backups, serving, touchedBy, restamped>>,
             interrupted' \in 0..MaxInterruptions
      PROVE  SchemaInv'
  <2>1. /\ manager'[p].pc = pc /\ manager'[p].seen = manager[p].seen
        /\ manager' \in [Operators -> [pc : {"idle", "observed", "secured", "stamped", "migrating",
                                             "done", "failed"},
                                       seen : {"none", "empty", "legacy_i02", "outdated"}]]
        /\ \A q \in Operators : q # p => manager'[q] = manager[q]
    BY <1>4, <1>t DEF Now, SchemaTypes
  <2>2. (/\ p \in ByPath /\ manager'[p].pc \in {"secured", "stamped"} /\ original # BlankDatabase
         /\ touchedBy \subseteq {"path"}) => original \in backups'
    BY <1>4, <2>1, <1>t DEF CopiedFirst
  <2>3. manager'[p].seen = "empty" => original = BlankDatabase
    BY <2>1, <1>v
  <2> QED BY <1>4, <2>1, <2>2, <2>3, <1>m
<1>5. ASSUME NEW p \in Operators, Stamp(p) PROVE SchemaInv'
  <2>1. interrupted' \in 0..MaxInterruptions /\ UNCHANGED <<original, backups, serving>>
        /\ manager[p].pc = "secured" /\ Now(p, "stamped")
    BY <1>5, <1>t DEF Stamp, SchemaTypes
  <2>2. CASE manager[p].seen # "legacy_i02"
    <3>1. UNCHANGED <<database, touchedBy, restamped>>
      BY <1>5, <2>2 DEF Stamp
    <3> QED BY <2>1, <3>1, <1>4
  <2>3. CASE manager[p].seen = "legacy_i02"
    <3> DEFINE db == [database EXCEPT !.version = Baseline]
    <3>1. Change(p, db) /\ restamped' = (restamped \/ database.version > Baseline)
      BY <1>5, <2>3 DEF Stamp
    <3>2. db \in Databases /\ db.version = 1 /\ db.partial = database.partial
      <4>1. database \in Databases /\ 1 \in -1..HeadRevision + 1
        BY <1>t DEF SchemaTypes
      <4> QED BY <4>1, VersionSet DEF Baseline
    <3>3. restamped' \in BOOLEAN /\ (restamped => restamped')
          /\ (database.version = HeadRevision => restamped')
      <4>1. restamped \in BOOLEAN
        BY <1>t DEF SchemaTypes
      <4>2. restamped' = (restamped \/ database.version > 1)
        BY <3>1 DEF Baseline
      <4>3. database.version = HeadRevision => database.version > 1
        OBVIOUS
      <4> QED BY <4>1, <4>2, <4>3
    <3>4. \A q \in Operators : q # p /\ manager[q].pc = "migrating" => db.partial
      BY <3>2, <1>t DEF OneMigrates
    <3> HIDE DEF db
    <3> QED BY <2>1, <3>1, <3>2, <3>3, <3>4, <1>c
  <2> QED BY <2>2, <2>3
<1>6. ASSUME NEW p \in Operators, Migrate(p) PROVE SchemaInv'
  <2> DEFINE next == IF database.version < 1 THEN 1 ELSE database.version + 1
             fails == database.partial \/ next \in database.done
             db == [database EXCEPT !.partial = TRUE, !.version = IF @ = -1 THEN 0 ELSE @]
  <2>1. interrupted' \in 0..MaxInterruptions /\ UNCHANGED <<original, backups, serving, restamped>>
        /\ manager[p].pc = "stamped"
    BY <1>6, <1>t DEF Migrate, SchemaTypes
  <2>2. CASE database.version = HeadRevision \/ fails
    <3>1. UNCHANGED <<database, touchedBy>> /\ Now(p, IF fails THEN "failed" ELSE "done")
      BY <1>6, <2>2 DEF Migrate
    <3>2. (IF fails THEN "failed" ELSE "done") \in {"stamped", "done", "failed"}
          /\ (IF fails THEN "failed" ELSE "done") # "stamped"
      OBVIOUS
    <3> HIDE DEF fails
    <3> QED BY <2>1, <3>1, <3>2, <1>4
  <2>3. CASE ~(database.version = HeadRevision \/ fails)
    <3>1. Now(p, "migrating") /\ Change(p, db)
      BY <1>6, <2>3 DEF Migrate
    <3>2. db \in Databases /\ db.version # -1 /\ db.version # HeadRevision /\ db.partial
      <4> DEFINE v == IF database.version = -1 THEN 0 ELSE database.version
      <4>1. database \in Databases
        BY <1>t DEF SchemaTypes
      <4>2. db = [database EXCEPT !.partial = TRUE, !.version = v]
        BY <4>1 DEF Databases
      <4>3. database.version \in -1..HeadRevision + 1
        BY <4>1 DEF Databases
      <4>4. v \in -1..HeadRevision + 1 /\ v # -1 /\ v # HeadRevision
        BY <4>3, <2>3
      <4> HIDE DEF v
      <4>5. [database EXCEPT !.partial = TRUE, !.version = v] \in Databases
            /\ [database EXCEPT !.partial = TRUE, !.version = v].version = v
            /\ [database EXCEPT !.partial = TRUE, !.version = v].partial = TRUE
        BY <4>1, <4>4, PartialSet
      <4> QED BY <4>2, <4>4, <4>5
    <3>3. \A q \in Operators : manager[q].pc # "migrating"
      BY <2>3, <1>t DEF OneMigrates
    <3>4. restamped' \in BOOLEAN
      BY <2>1, <1>t DEF SchemaTypes
    <3>5. database.version # HeadRevision
      BY <2>3
    <3> HIDE DEF db, fails, next
    <3> QED BY <2>1, <3>1, <3>2, <3>3, <3>4, <3>5, <1>c
  <2> QED BY <2>2, <2>3
<1>7. ASSUME NEW p \in Operators, CommitMigration(p) PROVE SchemaInv'
  <2> DEFINE db == [database EXCEPT !.version = HeadRevision, !.done = 1..HeadRevision,
                                    !.partial = FALSE]
  <2>1. interrupted' \in 0..MaxInterruptions /\ UNCHANGED <<original, backups, serving, restamped>>
        /\ manager[p].pc = "migrating" /\ Now(p, "done") /\ Change(p, db)
    BY <1>7, <1>t DEF CommitMigration, SchemaTypes
  <2>2. db \in Databases /\ db.version = HeadRevision /\ db.done = 1..HeadRevision /\ ~db.partial
    <3> DEFINE d == 1..HeadRevision
    <3>1. /\ database \in Databases /\ HeadRevision \in -1..HeadRevision + 1
          /\ d \in SUBSET (1..HeadRevision + 1)
      BY <1>t DEF SchemaTypes
    <3> HIDE DEF d
    <3>2. /\ [database EXCEPT !.version = HeadRevision, !.done = d, !.partial = FALSE] \in Databases
          /\ [database EXCEPT !.version = HeadRevision, !.done = d, !.partial = FALSE].version
               = HeadRevision
          /\ [database EXCEPT !.version = HeadRevision, !.done = d, !.partial = FALSE].done = d
          /\ [database EXCEPT !.version = HeadRevision, !.done = d, !.partial = FALSE].partial = FALSE
      BY <3>1 DEF Databases
    <3> QED BY <3>2 DEF d
  <2>3. \A q \in Operators : q # p => manager[q].pc # "migrating"
    BY <2>1, <1>t DEF OneMigrates
  <2>4. restamped' \in BOOLEAN
    BY <2>1, <1>t DEF SchemaTypes
  <2> HIDE DEF db
  <2> QED BY <2>1, <2>2, <2>3, <2>4, <1>c
<1>8. ASSUME NEW p \in Operators, Interrupt(p) PROVE SchemaInv'
  <2>1. interrupted' \in 0..MaxInterruptions
    BY <1>8, <1>t DEF Interrupt, SchemaTypes
  <2>2. /\ UNCHANGED <<original, backups, serving, restamped>> /\ Now(p, "failed")
        /\ manager[p].pc \in {"secured", "migrating"}
    BY <1>8 DEF Interrupt
  <2>3. CASE UNCHANGED <<database, touchedBy>>
    BY <2>1, <2>2, <2>3, <1>4
  <2>4. CASE manager[p].pc = "secured" /\ database.version = -1
             /\ Change(p, [database EXCEPT !.version = 0])
    <3> DEFINE db == [database EXCEPT !.version = 0]
    <3>1. db \in Databases /\ db.version = 0 /\ db.partial = database.partial
      <4>1. database \in Databases /\ 0 \in -1..HeadRevision + 1
        BY <1>t DEF SchemaTypes
      <4> QED BY <4>1, VersionSet
    <3>2. \A q \in Operators : q # p /\ manager[q].pc = "migrating" => db.partial
      BY <3>1, <1>t DEF OneMigrates
    <3>3. restamped' \in BOOLEAN
      BY <2>2, <1>t DEF SchemaTypes
    <3>4. Change(p, db)
      BY <2>4
    <3> HIDE DEF db
    <3> QED BY <2>1, <2>2, <2>4, <3>1, <3>2, <3>3, <3>4, <1>c
  <2> QED BY <1>8, <2>3, <2>4 DEF Interrupt
<1>9. CASE Serve
  <2>1. UNCHANGED <<database, original, backups, manager, touchedBy, restamped, interrupted>>
        /\ serving' = TRUE /\ Status(database) = "current"
    BY <1>9 DEF Serve
  <2>2. SchemaTypes' /\ OneMigrates' /\ CopiedFirst' /\ OriginalKept'
    BY <2>1, <1>t DEF SchemaTypes, OneMigrates, CopiedFirst, OriginalKept, BlankDatabase
  <2>3. ServedCurrent'
    BY <2>1 DEF ServedCurrent, Status, BlankDatabase, Legacy
  <2> QED BY <2>1, <2>2, <2>3, <1>v DEF SchemaInv, BlankDatabase
<1>10. CASE UNCHANGED schemaVars
  <2>1. UNCHANGED <<database, original, backups, manager, serving, touchedBy, restamped, interrupted>>
    BY <1>10 DEF schemaVars
  <2>2. SchemaTypes' /\ OneMigrates' /\ CopiedFirst' /\ OriginalKept'
    BY <2>1, <1>t DEF SchemaTypes, OneMigrates, CopiedFirst, OriginalKept, BlankDatabase
  <2>3. ServedCurrent'
    BY <2>1, <1>t DEF ServedCurrent, Status, BlankDatabase, Legacy
  <2> QED BY <2>1, <2>2, <2>3, <1>v DEF SchemaInv, BlankDatabase
<1> QED BY <1>1, <1>2, <1>3, <1>5, <1>6, <1>7, <1>8, <1>9, <1>10 DEF SchemaNext

\* Whatever managers do to one database and wherever they die, a current schema is whole,
\* the database as it was found can be had back, and the daemon serves a current one only.
THEOREM SchemaSafeAlways == SchemaSpec => []SchemaSafe
<1>1. SchemaInv => SchemaSafe
  <2> SUFFICES ASSUME SchemaInv PROVE SchemaSafe
    OBVIOUS
  <2>1. SchemaTypeOK
    <3>1. /\ database \in Databases /\ touchedBy \subseteq {"path", "runtime"}
          /\ interrupted \in 0..MaxInterruptions
          /\ \A p \in Operators : manager[p].pc = "migrating" => database.partial
      BY DEF SchemaInv, SchemaTypes, OneMigrates
    <3>2. \A p \in Operators :
            /\ manager[p].pc \in {"idle", "observed", "secured", "stamped", "migrating", "done", "failed"}
            /\ manager[p].seen \in {"none", "empty", "legacy_i02", "outdated"}
      BY DEF SchemaInv, SchemaTypes
    <3>3. /\ database.version \in -1..HeadRevision + 1 /\ database.done \subseteq 1..HeadRevision + 1
          /\ database.partial \in BOOLEAN
      BY <3>1 DEF Databases
    <3> QED BY <3>1, <3>2, <3>3 DEF SchemaTypeOK
  <2>2. CurrentIsWhole
    BY StatusOf DEF SchemaInv, SchemaTypes, CurrentIsWhole
  <2> QED BY <2>1, <2>2 DEF SchemaInv, SchemaSafe
<1> QED BY <1>1, SchemaInitially, SchemaStep, PTL DEF SchemaSpec
-----------------------------------------------------------------------------
(* The event outbox. *)

\* The rows are finitely many, no two share a cursor, and no reader is past the last one.
OutboxInv ==
  /\ OutboxTypeOK
  /\ IsFiniteSet(outbox)
  /\ \A e \in outbox : e.cursor <= lastCursor
  /\ \A e, f \in outbox : e.cursor = f.cursor => e = f
  /\ \A s \in Readers : reader[s].at <= lastCursor
  /\ RetainedDelivered

\* A finite set of rows has a last one.
LEMMA LastRow ==
  ASSUME NEW S, IsFiniteSet(S), S # {}, \A e \in S : e.cursor \in Nat
  PROVE  \E e \in S : \A f \in S : f.cursor <= e.cursor
<1> DEFINE After(e) == {f \in S : f.cursor > e.cursor}
           T == {After(e) : e \in S}
<1>1. T \subseteq FiniteSubsetsOf(S) /\ T # {}
  <2>1. \A e \in S : After(e) \in SUBSET S /\ IsFiniteSet(After(e))
    BY FS_Subset
  <2> QED BY <2>1 DEF FiniteSubsetsOf
<1>2. PICK x \in T : \A y \in T : <<y, x>> \notin StrictSubsetOrdering(S)
  <2> HIDE DEF T
  <2> QED BY <1>1, FS_StrictSubsetOrderingWellFounded, WFMin
<1>3. PICK e \in S : x = After(e)
  BY <1>2
<1>4. ASSUME NEW f \in After(e) PROVE FALSE
  <2>1. f \in S /\ f.cursor > e.cursor
    OBVIOUS
  <2>2. After(f) \subseteq After(e) /\ After(f) # After(e)
    <3>1. f \in After(e) /\ f \notin After(f)
      BY <2>1
    <3>2. \A g \in After(f) : g \in After(e)
      BY <2>1
    <3> QED BY <3>1, <3>2
  <2>3. After(f) \in T /\ After(f) \in SUBSET S /\ After(e) \in SUBSET S
    BY <2>1
  <2>4. <<After(f), After(e)>> \in StrictSubsetOrdering(S)
    <3> HIDE DEF After
    <3> QED BY <2>2, <2>3 DEF StrictSubsetOrdering
  <2> QED BY <1>2, <1>3, <2>3, <2>4
<1>5. \A f \in S : ~(f.cursor > e.cursor)
  BY <1>4
<1> QED BY <1>5

\* The oldest rows are at most as many as were asked for.
LEMMA OldestBounded ==
  ASSUME NEW S, IsFiniteSet(S), \A e \in S : e.cursor \in Nat,
         \A e, f \in S : e.cursor = f.cursor => e = f, NEW limit \in Nat
  PROVE  Oldest(S, limit) \subseteq S /\ Cardinality(Oldest(S, limit)) <= limit
<1> DEFINE O == Oldest(S, limit)
<1>1. O \subseteq S /\ IsFiniteSet(O)
  BY FS_Subset DEF Oldest
<1>2. CASE O = {}
  BY <1>1, <1>2, FS_EmptySet
<1>3. CASE O # {}
  <2>1. PICK e \in O : \A f \in O : f.cursor <= e.cursor
    <3> HIDE DEF O
    <3> QED BY <1>1, <1>3, LastRow
  <2> DEFINE B == {f \in S : f.cursor < e.cursor}
  <2>2. Cardinality(B) < limit
    BY <2>1 DEF Oldest
  <2>3. IsFiniteSet(B) /\ Cardinality(B) \in Nat
    BY FS_Subset, FS_CardinalityType
  <2>4. \A f \in O : f # e => f \in B
    BY <1>1, <2>1
  <2> HIDE DEF B
  <2>5. O \subseteq B \cup {e}
    BY <2>4
  <2>6. IsFiniteSet(B \cup {e}) /\ Cardinality(B \cup {e}) <= Cardinality(B) + 1
        /\ Cardinality(B \cup {e}) \in Nat
    <3>1. IsFiniteSet(B \cup {e}) /\ Cardinality(B \cup {e})
            = IF e \in B THEN Cardinality(B) ELSE Cardinality(B) + 1
      BY <2>3, FS_AddElement
    <3> QED BY <2>3, <3>1
  <2> HIDE DEF O
  <2>7. Cardinality(O) <= Cardinality(B \cup {e}) /\ Cardinality(O) \in Nat
    BY <1>1, <2>5, <2>6, FS_Subset, FS_CardinalityType
  <2>8. Cardinality(O) <= limit
    BY <2>2, <2>3, <2>6, <2>7
  <2> QED BY <1>1, <2>8 DEF O
<1> QED BY <1>2, <1>3

\* The oldest rows are closed downwards.
LEMMA OldestLower ==
  ASSUME NEW S, IsFiniteSet(S), \A e \in S : e.cursor \in Nat, NEW limit \in Nat,
         NEW g \in Oldest(S, limit), NEW e \in S, e.cursor <= g.cursor
  PROVE  e \in Oldest(S, limit)
<1> DEFINE B == {f \in S : f.cursor < e.cursor}
           G == {f \in S : f.cursor < g.cursor}
<1>1. g \in S /\ Cardinality(G) < limit
  BY DEF Oldest
<1>2. B \subseteq G /\ IsFiniteSet(G) /\ IsFiniteSet(B)
  BY <1>1, FS_Subset
<1>3. Cardinality(B) <= Cardinality(G) /\ Cardinality(B) \in Nat /\ Cardinality(G) \in Nat
  <2> HIDE DEF B, G
  <2> QED BY <1>2, FS_Subset, FS_CardinalityType
<1>4. Cardinality(B) < limit
  <2> HIDE DEF B, G
  <2> QED BY <1>1, <1>3
<1> QED BY <1>4 DEF Oldest

\* The stream starts with no rows and no subscriber.
LEMMA OutboxInitially == OutboxInit => OutboxInv
<1> USE OutboxAssumption
<1> SUFFICES ASSUME OutboxInit PROVE OutboxInv
  OBVIOUS
<1>1. hold \in [Holds -> HoldRow] /\ plan \in [Plans -> PlanRow]
  BY DEF OutboxInit, HoldRow, PlanRow, HoldScope
<1>2. reader \in [Readers -> ReaderRow] /\ \A s \in Readers : reader[s].at = 0
  BY DEF OutboxInit, ReaderRow
<1>3. OutboxTypeOK
  BY <1>1, <1>2 DEF OutboxInit, OutboxTypeOK
<1>4. IsFiniteSet(outbox) /\ outbox = {} /\ lastCursor = 0
  BY FS_EmptySet DEF OutboxInit
<1> QED BY <1>2, <1>3, <1>4 DEF OutboxInv, RetainedDelivered

\* The highest retained cursor is one of a retained row, or zero.
LEMMA MaxRetainedBounded == OutboxInv => MaxRetained \in 0..MaxCursor /\ MaxRetained <= lastCursor
<1> USE OutboxAssumption
<1> SUFFICES ASSUME OutboxInv PROVE MaxRetained \in 0..MaxCursor /\ MaxRetained <= lastCursor
  OBVIOUS
<1>t. /\ outbox \subseteq Event /\ lastCursor \in 0..MaxCursor /\ IsFiniteSet(outbox)
      /\ \A e \in outbox : e.cursor <= lastCursor
  BY DEF OutboxInv, OutboxTypeOK
<1>n. \A e \in outbox : e.cursor \in Nat /\ e.cursor \in 1..MaxCursor
  BY <1>t DEF Event
<1>1. CASE outbox = {}
  BY <1>1, <1>t DEF MaxRetained
<1>2. CASE outbox # {}
  <2>1. PICK e \in outbox : \A f \in outbox : f.cursor <= e.cursor
    BY <1>2, <1>t, <1>n, LastRow
  <2>2. \E c \in Cursors(outbox) : \A d \in Cursors(outbox) : d <= c
    BY <2>1 DEF Cursors
  <2>3. MaxRetained \in Cursors(outbox)
    BY <1>2, <2>2 DEF MaxRetained
  <2>4. PICK g \in outbox : MaxRetained = g.cursor
    BY <2>3 DEF Cursors
  <2> QED BY <2>4, <1>t, <1>n
<1> QED BY <1>1, <1>2

\* Writers, operators and readers keep the invariant.
LEMMA OutboxStep == OutboxInv /\ [OutboxNext]_outboxVars => OutboxInv'
<1> USE OutboxAssumption
<1> SUFFICES ASSUME OutboxInv, [OutboxNext]_outboxVars PROVE OutboxInv'
  OBVIOUS
<1>t. /\ OutboxTypeOK /\ IsFiniteSet(outbox) /\ RetainedDelivered
      /\ \A e \in outbox : e.cursor <= lastCursor
      /\ \A e, f \in outbox : e.cursor = f.cursor => e = f
      /\ \A s \in Readers : reader[s].at <= lastCursor
  BY DEF OutboxInv
<1>u. /\ outbox \subseteq Event /\ lastCursor \in 0..MaxCursor /\ clock \in 0..MaxClock
      /\ runStatus \in [Runs -> {"none", "active", "terminal"}]
      /\ hold \in [Holds -> HoldRow] /\ plan \in [Plans -> PlanRow]
      /\ reader \in [Readers -> ReaderRow]
  BY <1>t DEF OutboxTypeOK
<1>n. \A e \in outbox : e.cursor \in Nat /\ e.cursor \in 1..MaxCursor
  BY <1>u DEF Event
\* Rows are removed or nothing happens to them.
<1>r. ASSUME outbox' \subseteq outbox, UNCHANGED <<lastCursor, reader>>, clock' \in 0..MaxClock,
             runStatus' \in [Runs -> {"none", "active", "terminal"}],
             hold' \in [Holds -> HoldRow], plan' \in [Plans -> PlanRow]
      PROVE  OutboxInv'
  <2>1. OutboxTypeOK'
    BY <1>r, <1>u DEF OutboxTypeOK
  <2>2. IsFiniteSet(outbox')
    BY <1>r, <1>t, FS_Subset
  <2>3. RetainedDelivered'
    BY <1>r, <1>t DEF RetainedDelivered, Wanted
  <2> QED BY <1>r, <1>t, <2>1, <2>2, <2>3 DEF OutboxInv
\* A reader moves.
<1>s. ASSUME NEW s \in Readers, NEW row \in ReaderRow, reader' = [reader EXCEPT ![s] = row],
             UNCHANGED <<outbox, lastCursor, clock, runStatus, hold, plan>>, row.at <= lastCursor,
             row.state # "off" => \A e \in outbox : e.cursor <= row.at /\ Wanted(s, e)
                                                     => e.cursor \in row.known
      PROVE  OutboxInv'
  <2>1. reader' \in [Readers -> ReaderRow] /\ reader'[s] = row
        /\ \A q \in Readers : q # s => reader'[q] = reader[q]
    BY <1>s, <1>u
  <2>2. OutboxTypeOK'
    BY <1>s, <1>u, <2>1 DEF OutboxTypeOK
  <2>3. RetainedDelivered'
    BY <1>s, <1>t, <2>1 DEF RetainedDelivered, Wanted
  <2>4. \A q \in Readers : reader'[q].at <= lastCursor'
    BY <1>s, <1>t, <2>1
  <2> QED BY <1>s, <1>t, <2>2, <2>3, <2>4 DEF OutboxInv
<1>1. ASSUME NEW r \in Runs \cup {NoRun}, NEW status \in {"none", "active", "terminal"},
             WriteEvent(r, status)
      PROVE  OutboxInv'
  <2> DEFINE new == [cursor |-> lastCursor + 1, run |-> r, at |-> clock]
  <2>1. /\ lastCursor < MaxCursor /\ lastCursor' = lastCursor + 1 /\ outbox' = outbox \cup {new}
        /\ UNCHANGED <<clock, hold, plan, reader>>
    BY <1>1 DEF WriteEvent, AppendEvent
  <2>2. runStatus' \in [Runs -> {"none", "active", "terminal"}]
    BY <1>1, <1>u DEF WriteEvent
  <2>3. lastCursor' \in 1..MaxCursor /\ lastCursor' > lastCursor
    BY <2>1, <1>u
  <2>4. new.cursor = lastCursor' /\ new \in Event
    BY <2>1, <2>3, <1>u DEF Event
  <2> HIDE DEF new
  <2>5. OutboxTypeOK'
    BY <2>1, <2>2, <2>3, <2>4, <1>u DEF OutboxTypeOK
  <2>6. IsFiniteSet(outbox')
    BY <2>1, <1>t, FS_AddElement
  <2>7. \A e \in outbox' : e.cursor <= lastCursor'
    BY <2>1, <2>3, <2>4, <1>t, <1>n, <1>u
  <2>8. \A e, f \in outbox' : e.cursor = f.cursor => e = f
    <3>1. \A e \in outbox : e.cursor # new.cursor
      BY <2>3, <2>4, <1>t, <1>n, <1>u
    <3> QED BY <2>1, <3>1, <1>t
  <2>9. \A s \in Readers : reader[s].at \in Nat
    BY <1>u DEF ReaderRow
  <2>10. \A s \in Readers : reader'[s].at <= lastCursor'
    BY <2>1, <2>9, <1>t, <1>u
  <2>11. RetainedDelivered'
    <3>1. \A s \in Readers : ~(new.cursor <= reader[s].at)
      BY <2>3, <2>4, <2>9, <1>t, <1>u
    <3> QED BY <2>1, <3>1, <1>t DEF RetainedDelivered, Wanted
  <2> QED BY <2>5, <2>6, <2>7, <2>8, <2>10, <2>11 DEF OutboxInv
<1>2. CASE TickOutbox
  <2>1. UNCHANGED <<outbox, lastCursor, runStatus, hold, plan, reader>> /\ clock' \in 0..MaxClock
    BY <1>2, <1>u DEF TickOutbox
  <2> QED BY <2>1, <1>u, <1>r
<1>3. ASSUME NEW h \in Holds, (\E scope \in HoldScope : CreateEventHold(h, scope)) \/ ReleaseEventHold(h)
      PROVE  OutboxInv'
  <2>1. UNCHANGED <<outbox, lastCursor, clock, runStatus, plan, reader>>
    BY <1>3 DEF CreateEventHold, ReleaseEventHold
  <2>2. hold' \in [Holds -> HoldRow]
    <3>1. CASE ReleaseEventHold(h)
      BY <3>1, <1>u DEF ReleaseEventHold, HoldRow
    <3>2. ASSUME NEW scope \in HoldScope, CreateEventHold(h, scope) PROVE hold' \in [Holds -> HoldRow]
      <4>1. [scope |-> scope, state |-> "active"] \in HoldRow
        BY DEF HoldRow
      <4> QED BY <3>2, <4>1, <1>u DEF CreateEventHold
    <3> QED BY <1>3, <3>1, <3>2
  <2> QED BY <2>1, <2>2, <1>u, <1>r
<1>4. ASSUME NEW p \in Plans, NEW cutoff \in 1..MaxClock, PlanEventRetention(p, cutoff)
      PROVE  OutboxInv'
  <2> DEFINE row == [cutoff |-> cutoff, state |-> "planned",
                     candidates |-> EligibleRetentionRows(outbox, cutoff)]
  <2>1. EligibleRetentionRows(outbox, cutoff) \subseteq Event
    BY <1>u DEF EligibleRetentionRows, Oldest
  <2>2. row \in PlanRow
    BY <2>1 DEF PlanRow
  <2>3. plan' = [plan EXCEPT ![p] = row]
        /\ UNCHANGED <<outbox, lastCursor, clock, runStatus, hold, reader>>
    BY <1>4 DEF PlanEventRetention
  <2>4. plan' \in [Plans -> PlanRow]
    <3> HIDE DEF row
    <3> QED BY <2>2, <2>3, <1>u
  <2> QED BY <2>3, <2>4, <1>u, <1>r
<1>5. ASSUME NEW p \in Plans, ApplyEventRetention(p) PROVE OutboxInv'
  <2>1. outbox' \subseteq outbox /\ UNCHANGED <<lastCursor, clock, runStatus, hold, reader>>
        /\ plan' = [plan EXCEPT ![p].state = "applied"]
    BY <1>5 DEF ApplyEventRetention
  <2>2. plan' \in [Plans -> PlanRow]
    BY <2>1, <1>u DEF PlanRow
  <2> QED BY <2>1, <2>2, <1>u, <1>r
<1>6. ASSUME NEW s \in Readers, ReadSnapshot(s) PROVE OutboxInv'
  <2> DEFINE row == [at |-> MaxRetained, known |-> 1..lastCursor, state |-> "on"]
  <2>1. MaxRetained \in 0..MaxCursor /\ MaxRetained <= lastCursor
    BY MaxRetainedBounded
  <2>2. 1..lastCursor \in SUBSET (1..MaxCursor)
    BY <1>u
  <2>3. row \in ReaderRow /\ row.at <= lastCursor /\ row.known = 1..lastCursor
    BY <2>1, <2>2 DEF ReaderRow
  <2>4. \A e \in outbox : e.cursor \in 1..lastCursor
    BY <1>t, <1>n, <1>u
  <2>5. reader' = [reader EXCEPT ![s] = row]
        /\ UNCHANGED <<outbox, lastCursor, clock, runStatus, hold, plan>>
    BY <1>6 DEF ReadSnapshot
  <2> HIDE DEF row
  <2> QED BY <2>3, <2>4, <2>5, <1>s
<1>7. ASSUME NEW s \in Readers, GapReported(s) PROVE OutboxInv'
  <2> DEFINE row == [reader[s] EXCEPT !.state = "gap"]
  <2>1. row \in ReaderRow /\ row.at = reader[s].at /\ row.known = reader[s].known
    BY <1>u DEF ReaderRow
  <2>2. reader' = [reader EXCEPT ![s] = row] /\ reader[s].state = "on"
        /\ UNCHANGED <<outbox, lastCursor, clock, runStatus, hold, plan>>
    BY <1>7 DEF GapReported
  <2> HIDE DEF row
  <2> QED BY <2>1, <2>2, <1>t, <1>s DEF RetainedDelivered
<1>8. ASSUME NEW s \in Readers, StreamPage(s) PROVE OutboxInv'
  <2> DEFINE rest == {e \in outbox : e.cursor > reader[s].at /\ Wanted(s, e)}
             sent(last) == {c \in Cursors(Page(s)) : c <= last}
             row(last) == [reader[s] EXCEPT !.at = last, !.known = @ \cup sent(last)]
  <2>1. PICK last \in Cursors(Page(s)) :
          reader' = [reader EXCEPT ![s].at = last, ![s].known = @ \cup sent(last)]
    BY <1>8 DEF StreamPage
  <2>2. UNCHANGED <<outbox, lastCursor, clock, runStatus, hold, plan>> /\ reader[s].state = "on"
    BY <1>8 DEF StreamPage
  <2>3. PICK g \in Page(s) : last = g.cursor
    BY <2>1 DEF Cursors
  <2>4. rest \subseteq outbox /\ IsFiniteSet(rest) /\ \A e \in rest : e.cursor \in Nat
    BY <1>t, <1>n, FS_Subset
  <2>5. Page(s) = Oldest(rest, PageLimit) /\ Page(s) \subseteq rest
    BY DEF Page, Oldest
  <2>6. g \in outbox /\ last \in 1..MaxCursor /\ last <= lastCursor
    BY <2>3, <2>4, <2>5, <1>t, <1>n
  <2>7. sent(last) \in SUBSET (1..MaxCursor)
    BY <2>4, <2>5, <1>n DEF Cursors
  <2>8. row(last) \in ReaderRow /\ row(last).at = last /\ row(last).state = reader[s].state
        /\ row(last).known = reader[s].known \cup sent(last)
    <3> DEFINE old == reader[s]
               more == sent(last)
    <3>1. old \in ReaderRow /\ more \in SUBSET (1..MaxCursor) /\ last \in 0..MaxCursor
      BY <2>6, <2>7, <1>u
    <3> HIDE DEF old, more, sent
    <3>2. /\ [old EXCEPT !.at = last, !.known = @ \cup more] \in ReaderRow
          /\ [old EXCEPT !.at = last, !.known = @ \cup more].at = last
          /\ [old EXCEPT !.at = last, !.known = @ \cup more].state = old.state
          /\ [old EXCEPT !.at = last, !.known = @ \cup more].known = old.known \cup more
      BY <3>1 DEF ReaderRow
    <3> QED BY <3>2 DEF old, more
  <2>9. ASSUME NEW e \in outbox, e.cursor <= last, Wanted(s, e)
        PROVE  e.cursor \in reader[s].known \cup sent(last)
    <3>1. CASE e.cursor <= reader[s].at
      BY <3>1, <2>2, <2>9, <1>t DEF RetainedDelivered
    <3>2. CASE ~(e.cursor <= reader[s].at)
      <4>1. reader[s].at \in Nat
        BY <1>u DEF ReaderRow
      <4>2. e \in rest
        BY <3>2, <4>1, <2>9, <1>n
      <4>3. e \in Oldest(rest, PageLimit)
        <5> HIDE DEF rest
        <5> QED BY <4>2, <2>3, <2>4, <2>5, <2>9, OldestLower
      <4>4. e.cursor \in Cursors(Page(s))
        BY <4>3, <2>5 DEF Cursors
      <4> QED BY <4>4, <2>9
    <3> QED BY <3>1, <3>2
  <2>10. reader' = [reader EXCEPT ![s] = row(last)]
    BY <2>1, <1>u
  <2> HIDE DEF row, rest, sent
  <2> QED BY <2>2, <2>6, <2>8, <2>9, <2>10, <1>s
<1>9. CASE UNCHANGED outboxVars
  BY <1>9, <1>u, <1>r DEF outboxVars
<1> QED BY <1>1, <1>2, <1>3, <1>4, <1>5, <1>6, <1>7, <1>8, <1>9 DEF OutboxNext

\* Whatever is written, held, planned and removed meanwhile, no reader of the stream ever
\* passes a row that is still there without having been sent it or given a snapshot of it.
THEOREM StreamNeverSkips == OutboxSpec => []StreamSafe
<1>1. OutboxInv => StreamSafe
  BY DEF OutboxInv, StreamSafe
<1> QED BY <1>1, OutboxInitially, OutboxStep, PTL DEF OutboxSpec

\* Only the application of a plan removes rows, and what it removes is eligible again.
LEMMA RemovedEligible ==
  ASSUME OutboxInv, [OutboxNext]_outboxVars, NEW e \in outbox, e \notin outbox'
  PROVE  \E p \in Plans : ApplyEventRetention(p) /\ outbox \ outbox' \subseteq StillEligible(p)
                          /\ e \in StillEligible(p)
<1>1. ASSUME UNCHANGED outbox PROVE FALSE
  BY <1>1
<1>2. ASSUME NEW r \in Runs \cup {NoRun}, NEW status \in {"none", "active", "terminal"},
             WriteEvent(r, status)
      PROVE  FALSE
  BY <1>2 DEF WriteEvent, AppendEvent
<1>3. ASSUME NEW p \in Plans, ApplyEventRetention(p)
      PROVE  e \in StillEligible(p) /\ outbox \ outbox' \subseteq StillEligible(p)
  BY <1>3 DEF ApplyEventRetention
<1> QED
  BY <1>1, <1>2, <1>3
  DEF OutboxNext, outboxVars, TickOutbox, CreateEventHold, ReleaseEventHold, PlanEventRetention,
      ReadSnapshot, GapReported, StreamPage

\* A row that a hold or an unfinished run protects when a plan is applied survives it,
\* whenever the plan was made.
THEOREM ProtectedEvidenceKept == OutboxSpec => EvidenceKept
<1>1. OutboxInv /\ [OutboxNext]_outboxVars
        => [\A e \in outbox : ProtectedEvent(e) => e \in outbox']_outboxVars
  <2> SUFFICES ASSUME OutboxInv, [OutboxNext]_outboxVars, NEW e \in outbox, ProtectedEvent(e),
                      e \notin outbox'
               PROVE  FALSE
    OBVIOUS
  <2>1. PICK p \in Plans : e \in StillEligible(p)
    BY RemovedEligible
  <2> QED BY <2>1 DEF StillEligible, EligibleRetentionRows, Oldest
<1> QED BY <1>1, OutboxInitially, OutboxStep, PTL DEF OutboxSpec, EvidenceKept

\* One application removes at most a batch, of rows the plan listed and that were old
\* enough when it was made.
THEOREM RetentionStaysBounded == OutboxSpec => RetentionBounded
<1> DEFINE Bounded ==
      outbox \subseteq outbox' \/
        \E p \in Plans : /\ plan[p].state = "planned" /\ plan'[p].state = "applied"
                         /\ (outbox \ outbox') \subseteq plan[p].candidates
                         /\ Cardinality(outbox \ outbox') <= BatchSize
                         /\ \A e \in outbox \ outbox' : e.at < plan[p].cutoff
<1>1. OutboxInv /\ [OutboxNext]_outboxVars => Bounded
  <2> SUFFICES ASSUME OutboxInv, [OutboxNext]_outboxVars, NEW e \in outbox, e \notin outbox'
               PROVE  Bounded
    BY DEF Bounded
  <2>1. PICK p \in Plans : ApplyEventRetention(p)
    BY RemovedEligible
  <2> DEFINE listed == outbox \cap plan[p].candidates
             old == {f \in listed : f.at < plan[p].cutoff /\ ~ProtectedEvent(f)}
  <2>2. /\ plan[p].state = "planned" /\ outbox' = outbox \ Oldest(old, BatchSize)
        /\ plan' = [plan EXCEPT ![p].state = "applied"]
    BY <2>1 DEF ApplyEventRetention, StillEligible, EligibleRetentionRows
  <2>3. Oldest(old, BatchSize) \subseteq old /\ old \subseteq outbox
    BY DEF Oldest
  <2>4. outbox \ outbox' = Oldest(old, BatchSize)
    <3> HIDE DEF old
    <3> QED BY <2>2, <2>3
  <2>5. Cardinality(Oldest(old, BatchSize)) <= BatchSize
    <3>1. IsFiniteSet(old)
      <4> HIDE DEF old
      <4> QED BY <2>3, FS_Subset DEF OutboxInv
    <3>2. \A f \in old : f.cursor \in Nat
      BY OutboxAssumption, <2>3 DEF OutboxInv, OutboxTypeOK, Event
    <3>3. \A f, g \in old : f.cursor = g.cursor => f = g
      BY <2>3 DEF OutboxInv
    <3>4. BatchSize \in Nat
      BY OutboxAssumption
    <3> HIDE DEF old
    <3> QED BY <3>1, <3>2, <3>3, <3>4, OldestBounded
  <2>6. plan'[p].state = "applied"
    <3>1. plan \in [Plans -> PlanRow]
      BY DEF OutboxInv, OutboxTypeOK
    <3> QED BY <2>2, <3>1 DEF PlanRow
  <2>7. \A f \in outbox \ outbox' : f \in plan[p].candidates /\ f.at < plan[p].cutoff
    BY <2>3, <2>4
  <2>8. Cardinality(outbox \ outbox') <= BatchSize
    BY <2>4, <2>5
  <2> QED BY <2>2, <2>6, <2>7, <2>8
<1>2. OutboxInv /\ [OutboxNext]_outboxVars => [Bounded]_outboxVars
  BY <1>1
<1> QED BY <1>2, OutboxInitially, OutboxStep, PTL DEF OutboxSpec, RetentionBounded
-----------------------------------------------------------------------------
(* Git effects. *)

GitModes == {"stage", "commit"} \cup RemoteModes
GitPhases == {"idle", "based", "ready", "applied", "headed", "settled", "refused", "raised"}

EffectRow ==
  [pc : GitPhases, request : GitRequests \cup {NoRequest}, before : 0..MaxCommits, ok : BOOLEAN,
   after : 0..MaxCommits, remoteBefore : 0..MaxCommits, remoteAfter : 0..MaxCommits,
   settlement : {"none", "completed", "absent", "uncertain"}, raced : BOOLEAN, made : 0..MaxCommits]

RepositoryTypes ==
  /\ head \in Commits /\ index \subseteq GitPaths /\ remoteBranch \in 0..MaxCommits
  /\ head \in DOMAIN log
  /\ \E n \in Commits : DOMAIN log = 1..n
  /\ gitEffect \in [GitCalls -> EffectRow]
  /\ seenRemote \in [GitCalls -> SUBSET (0..MaxCommits)]

\* A push under way has seen the remote branch as it is; what it reports it has seen.
PushSees(c) ==
  gitEffect[c].request.mode \in RemoteModes =>
    /\ gitEffect[c].pc \in {"ready", "applied", "headed"} => remoteBranch \in seenRemote[c]
    /\ gitEffect[c].settlement = "completed" => gitEffect[c].after \in seenRemote[c]

\* An undisturbed commit runs over the paths it was compared with and leaves them in the
\* commit it made.
CommitHolds(c) ==
  gitEffect[c].request.mode = "commit" /\ ~gitEffect[c].raced =>
    /\ gitEffect[c].pc = "ready" => index = gitEffect[c].request.paths
    /\ gitEffect[c].pc \in {"applied", "headed", "settled"} /\ gitEffect[c].ok =>
         /\ gitEffect[c].made \in DOMAIN log
         /\ log[gitEffect[c].made].paths = gitEffect[c].request.paths

EffectPhase(c) ==
  /\ (gitEffect[c].pc = "settled") <=> (gitEffect[c].settlement # "none")
  /\ gitEffect[c].pc = "headed" => gitEffect[c].after \in Commits
  /\ gitEffect[c].settlement = "completed" /\ gitEffect[c].request.mode \notin RemoteModes
       => gitEffect[c].ok
  /\ gitEffect[c].pc \in {"idle", "based", "ready"} => ~gitEffect[c].ok

GitInv ==
  /\ RepositoryTypes
  /\ \A c \in GitCalls : PushSees(c) /\ CommitHolds(c) /\ EffectPhase(c)

\* The effects of one repository start unused.
LEMMA GitInitially == GitInit => GitInv
<1> USE GitAssumption
<1> SUFFICES ASSUME GitInit PROVE GitInv
  OBVIOUS
<1>1. Unused \in EffectRow /\ Unused.pc = "idle" /\ Unused.settlement = "none"
      /\ Unused.ok = FALSE
  BY DEF Unused, EffectRow, GitPhases
<1>2. gitEffect \in [GitCalls -> EffectRow]
      /\ \A c \in GitCalls : gitEffect[c].pc = "idle" /\ gitEffect[c].settlement = "none"
                              /\ ~gitEffect[c].ok
  BY <1>1 DEF GitInit
<1>3. DOMAIN log = 1..1 /\ 1 \in Commits
  BY DEF GitInit, Commits
<1>4. head \in Commits /\ head \in DOMAIN log /\ remoteBranch \in 0..MaxCommits /\ index \subseteq GitPaths
  BY <1>3 DEF GitInit
<1>5. seenRemote \in [GitCalls -> SUBSET (0..MaxCommits)]
  BY DEF GitInit
<1> QED BY <1>2, <1>3, <1>4, <1>5 DEF GitInv, RepositoryTypes, PushSees, CommitHolds, EffectPhase

\* A new commit has a number of its own.
LEMMA MadeFresh ==
  ASSUME RepositoryTypes
  PROVE  Made \notin DOMAIN log /\ \E n \in Nat : DOMAIN log = 1..n /\ Made = n + 1
<1> USE GitAssumption
<1>1. PICK n \in Commits : DOMAIN log = 1..n
  BY DEF RepositoryTypes
<1>2. Cardinality(DOMAIN log) = n /\ n \in Nat
  BY <1>1, FS_Interval DEF Commits
<1> QED BY <1>1, <1>2 DEF Made

\* What making a commit leaves in the log.
LEMMA RecordKeeps ==
  ASSUME RepositoryTypes, NEW parent, NEW paths, Made \in Commits, Record(parent, paths)
  PROVE  /\ \E n \in Commits : DOMAIN log' = 1..n
         /\ Made \in DOMAIN log' /\ log'[Made].paths = paths
         /\ \A k \in DOMAIN log : k \in DOMAIN log' /\ log'[k] = log[k]
<1> DEFINE made == Made
<1>1. made \notin DOMAIN log /\ made \in Commits
  BY MadeFresh
<1>2. PICK n \in Nat : DOMAIN log = 1..n /\ made = n + 1
  BY MadeFresh
<1>3. log' = [k \in DOMAIN log \cup {made} |->
                IF k = made THEN [parent |-> parent, paths |-> paths] ELSE log[k]]
  BY DEF Record
<1> HIDE DEF made
<1>4. DOMAIN log' = DOMAIN log \cup {made}
  BY <1>3
<1>5. DOMAIN log' = 1..made
  BY <1>2, <1>4
<1>6. made \in DOMAIN log' /\ log'[made].paths = paths
  BY <1>3, <1>4
<1>7. \A k \in DOMAIN log : k \in DOMAIN log' /\ log'[k] = log[k]
  BY <1>1, <1>3, <1>4
<1>8. \E n2 \in Commits : DOMAIN log' = 1..n2
  BY <1>1, <1>5
<1> QED BY <1>6, <1>7, <1>8 DEF made

\* Every git process, ours or another's, keeps the invariant.
LEMMA GitStep == GitInv /\ [GitNext]_gitVars => GitInv'
<1> USE GitAssumption
<1> SUFFICES ASSUME GitInv, [GitNext]_gitVars PROVE GitInv'
  OBVIOUS
<1>t. /\ head \in Commits /\ index \subseteq GitPaths /\ remoteBranch \in 0..MaxCommits
      /\ head \in DOMAIN log /\ \E n \in Commits : DOMAIN log = 1..n
      /\ gitEffect \in [GitCalls -> EffectRow]
      /\ seenRemote \in [GitCalls -> SUBSET (0..MaxCommits)]
      /\ RepositoryTypes
  BY DEF GitInv, RepositoryTypes
<1>i. \A c \in GitCalls : PushSees(c) /\ CommitHolds(c) /\ EffectPhase(c)
  BY DEF GitInv
\* Fields an effect never had its row lose.
<1>e. \A c \in GitCalls : gitEffect[c] \in EffectRow
  BY <1>t
\* The other calls: the index is theirs or they are raced, and the remote branch is seen.
<1>o. ASSUME NEW d \in GitCalls,
             gitEffect'[d] = gitEffect[d]
               \/ gitEffect'[d] = [gitEffect[d] EXCEPT !.raced = TRUE],
             index' = index \/ gitEffect[d].pc # "ready" \/ gitEffect[d].request.mode # "commit"
               \/ gitEffect'[d].raced,
             \A k \in DOMAIN log : k \in DOMAIN log' /\ log'[k] = log[k],
             seenRemote[d] \subseteq seenRemote'[d],
             remoteBranch' = remoteBranch \/ (seenRemote[d] # {} => remoteBranch' \in seenRemote'[d])
      PROVE  PushSees(d)' /\ CommitHolds(d)' /\ EffectPhase(d)'
  <2> DEFINE old == gitEffect[d]
             new == gitEffect'[d]
  <2>1. old \in EffectRow
    BY <1>e
  <2>2. /\ new.pc = old.pc /\ new.request = old.request /\ new.ok = old.ok /\ new.after = old.after
        /\ new.settlement = old.settlement /\ new.made = old.made
        /\ ~new.raced => new = old
    <3> DEFINE raced == [old EXCEPT !.raced = TRUE]
    <3>1. /\ raced.pc = old.pc /\ raced.request = old.request /\ raced.ok = old.ok
          /\ raced.after = old.after /\ raced.settlement = old.settlement /\ raced.made = old.made
          /\ raced.raced
      <4> HIDE DEF old
      <4> QED BY <2>1 DEF EffectRow
    <3>2. new = old \/ new = raced
      BY <1>o
    <3> HIDE DEF old, new, raced
    <3> QED BY <3>1, <3>2
  <2>3. PushSees(d)'
    <3> HIDE DEF new
    <3>1. gitEffect'[d].pc = old.pc /\ gitEffect'[d].request = old.request
          /\ gitEffect'[d].after = old.after /\ gitEffect'[d].settlement = old.settlement
      BY <2>2 DEF new
    <3> QED BY <1>o, <1>i, <3>1 DEF PushSees, RemoteModes
  <2>4. CommitHolds(d)'
    BY <1>o, <1>i, <2>2 DEF CommitHolds
  <2>5. EffectPhase(d)'
    BY <1>i, <2>2 DEF EffectPhase, RemoteModes, Commits
  <2> QED BY <2>3, <2>4, <2>5
\* One call moves and the repository stays.
<1>s. ASSUME NEW c \in GitCalls, NEW row \in EffectRow, gitEffect' = [gitEffect EXCEPT ![c] = row],
             UNCHANGED <<head, index, log>>, remoteBranch' \in 0..MaxCommits,
             seenRemote' \in [GitCalls -> SUBSET (0..MaxCommits)],
             \A d \in GitCalls : d # c =>
               /\ seenRemote[d] \subseteq seenRemote'[d]
               /\ remoteBranch' = remoteBranch
                    \/ (seenRemote[d] # {} => remoteBranch' \in seenRemote'[d]),
             PushSees(c)', CommitHolds(c)', EffectPhase(c)'
      PROVE  GitInv'
  <2>1. gitEffect' \in [GitCalls -> EffectRow] /\ gitEffect'[c] = row
        /\ \A d \in GitCalls : d # c => gitEffect'[d] = gitEffect[d]
    BY <1>s, <1>t
  <2>2. RepositoryTypes'
    BY <1>s, <1>t, <2>1 DEF RepositoryTypes, Commits
  <2>3. ASSUME NEW d \in GitCalls, d # c PROVE PushSees(d)' /\ CommitHolds(d)' /\ EffectPhase(d)'
    BY <1>s, <2>1, <2>3, <1>o
  <2> QED BY <1>s, <2>2, <2>3 DEF GitInv
\* Whom a change of the index races.
<1>r. ASSUME NEW b
      PROVE  /\ Racing(b) \in [GitCalls -> EffectRow]
             /\ \A d \in GitCalls :
                  /\ Racing(b)[d] = gitEffect[d] \/ Racing(b)[d] = [gitEffect[d] EXCEPT !.raced = TRUE]
                  /\ d = b => Racing(b)[d] = gitEffect[d]
                  /\ d # b /\ gitEffect[d].pc = "ready" /\ gitEffect[d].request.mode = "commit"
                       => Racing(b)[d].raced
  <2>1. \A d \in GitCalls : /\ [gitEffect[d] EXCEPT !.raced = TRUE] \in EffectRow
                            /\ [gitEffect[d] EXCEPT !.raced = TRUE].raced
    BY <1>e DEF EffectRow
  <2> QED BY <2>1, <1>e DEF Racing
\* The index or HEAD changes under the calls, one of which may be the one that does it.
<1>x. ASSUME NEW b, head' \in Commits, head' \in DOMAIN log', index' \subseteq GitPaths,
             \E n \in Commits : DOMAIN log' = 1..n,
             \A k \in DOMAIN log : k \in DOMAIN log' /\ log'[k] = log[k],
             UNCHANGED <<remoteBranch, seenRemote>>,
             gitEffect' \in [GitCalls -> EffectRow],
             \A d \in GitCalls : d # b => gitEffect'[d] = Racing(b)[d],
             b \in GitCalls => PushSees(b)' /\ CommitHolds(b)' /\ EffectPhase(b)'
      PROVE  GitInv'
  <2>1. RepositoryTypes'
    BY <1>x, <1>t DEF RepositoryTypes, Commits
  <2>2. ASSUME NEW d \in GitCalls, d # b PROVE PushSees(d)' /\ CommitHolds(d)' /\ EffectPhase(d)'
    <3>1. gitEffect'[d] = gitEffect[d] \/ gitEffect'[d] = [gitEffect[d] EXCEPT !.raced = TRUE]
      BY <1>r, <1>x, <2>2
    <3>2. gitEffect[d].pc # "ready" \/ gitEffect[d].request.mode # "commit" \/ gitEffect'[d].raced
      BY <1>r, <1>x, <2>2
    <3> QED BY <1>x, <3>1, <3>2, <1>o
  <2>3. \A d \in GitCalls : PushSees(d)' /\ CommitHolds(d)' /\ EffectPhase(d)'
    BY <1>x, <2>2
  <2> QED BY <2>1, <2>3 DEF GitInv
<1>1. ASSUME NEW c \in GitCalls, NEW r \in GitRequests, CheckBase(c, r) PROVE GitInv'
  <2> DEFINE row == [Unused EXCEPT !.request = r, !.before = head,
                                   !.pc = IF r.base \in {0, head} THEN "based" ELSE "refused"]
  <2>1. gitEffect' = [gitEffect EXCEPT ![c] = row]
        /\ UNCHANGED <<head, index, log, remoteBranch, seenRemote>>
    BY <1>1 DEF CheckBase, Step
  <2>2. row \in EffectRow /\ row.pc \in {"based", "refused"} /\ row.settlement = "none"
        /\ row.ok = FALSE
    <3>1. Unused \in EffectRow /\ Unused.settlement = "none" /\ Unused.ok = FALSE
      BY DEF Unused, EffectRow, GitPhases
    <3>2. head \in 0..MaxCommits
      BY <1>t DEF Commits
    <3> QED BY <3>1, <3>2 DEF EffectRow, GitPhases
  <2> HIDE DEF row
  <2>3. gitEffect'[c] = row
    BY <2>1, <1>t
  <2>4. PushSees(c)' /\ CommitHolds(c)' /\ EffectPhase(c)'
    BY <2>2, <2>3 DEF PushSees, CommitHolds, EffectPhase
  <2> QED BY <2>1, <2>2, <2>4, <1>t, <1>s
<1>2. ASSUME NEW c \in GitCalls, CheckGitTarget(c) PROVE GitInv'
  <2>1. UNCHANGED <<head, index, log, remoteBranch>> /\ gitEffect[c].pc = "based"
    BY <1>2 DEF CheckGitTarget
  <2>2. gitEffect[c].settlement = "none" /\ ~gitEffect[c].ok
    BY <2>1, <1>i DEF EffectPhase
  <2>3. CASE gitEffect[c].request.mode \in RemoteModes
    <3>1. PICK oid \in {remoteBranch, gitEffect[c].remoteBefore} :
            gitEffect' = [gitEffect EXCEPT ![c] =
              [gitEffect[c] EXCEPT !.pc = "ready", !.remoteBefore = oid]]
      <4>1. gitEffect[c] \in EffectRow
        BY <1>e
      <4>2. [gitEffect[c] EXCEPT !.pc = "ready"]
              = [gitEffect[c] EXCEPT !.pc = "ready", !.remoteBefore = gitEffect[c].remoteBefore]
        BY <4>1 DEF EffectRow
      <4> QED BY <1>2, <2>3, <4>2 DEF CheckGitTarget, Step
    <3> DEFINE old == gitEffect[c]
               row == [old EXCEPT !.pc = "ready", !.remoteBefore = oid]
    <3>2. row \in EffectRow /\ row.pc = "ready" /\ row.settlement = "none" /\ row.request = old.request
          /\ row.ok = old.ok
      <4>1. old \in EffectRow /\ old.settlement = "none" /\ oid \in 0..MaxCommits
        BY <1>e, <1>t, <2>2, <3>1 DEF EffectRow
      <4> HIDE DEF old
      <4> QED BY <4>1 DEF EffectRow, GitPhases
    <3>3. gitEffect' = [gitEffect EXCEPT ![c] = row]
      BY <3>1
    <3>4. seenRemote' = [seenRemote EXCEPT ![c] = {remoteBranch}]
      BY <1>2, <2>3 DEF CheckGitTarget
    <3> HIDE DEF row
    <3>5. gitEffect'[c] = row /\ seenRemote'[c] = {remoteBranch}
          /\ \A d \in GitCalls : d # c => seenRemote'[d] = seenRemote[d]
      BY <3>3, <3>4, <1>t
    <3>6. seenRemote' \in [GitCalls -> SUBSET (0..MaxCommits)]
      BY <3>4, <1>t
    <3>7. PushSees(c)'
      BY <3>2, <3>5, <2>1 DEF PushSees, RemoteModes
    <3>8. CommitHolds(c)' /\ EffectPhase(c)'
      BY <3>2, <3>5, <2>2, <2>3 DEF CommitHolds, EffectPhase, RemoteModes
    <3> QED BY <2>1, <3>2, <3>3, <3>5, <3>6, <3>7, <3>8, <1>t, <1>s
  <2>4. CASE gitEffect[c].request.mode \notin RemoteModes
    <3> DEFINE old == gitEffect[c]
               pc == IF old.request.mode = "commit" /\ index # old.request.paths THEN "refused"
                     ELSE "ready"
               row == [old EXCEPT !.pc = pc]
    <3>1. gitEffect' = [gitEffect EXCEPT ![c] = row] /\ UNCHANGED seenRemote
      BY <1>2, <2>4 DEF CheckGitTarget, Step
    <3>2. pc \in {"refused", "ready"}
          /\ (pc = "ready" /\ old.request.mode = "commit" => index = old.request.paths)
      OBVIOUS
    <3>3. row \in EffectRow /\ row.pc = pc /\ row.settlement = "none" /\ row.request = old.request
          /\ row.ok = old.ok
      <4>1. old \in EffectRow /\ old.settlement = "none"
        BY <1>e, <2>2
      <4> HIDE DEF old, pc
      <4> QED BY <4>1, <3>2 DEF EffectRow, GitPhases
    <3> HIDE DEF row, pc
    <3>4. gitEffect'[c] = row
      BY <3>1, <1>t
    <3>5. PushSees(c)' /\ CommitHolds(c)' /\ EffectPhase(c)'
      BY <3>2, <3>3, <3>4, <2>1, <2>2, <2>4 DEF PushSees, CommitHolds, EffectPhase, RemoteModes
    <3> QED BY <2>1, <3>1, <3>3, <3>5, <1>t, <1>s
  <2> QED BY <2>3, <2>4
<1>3. ASSUME NEW c \in GitCalls, StagePaths(c) PROVE GitInv'
  <2> DEFINE old == gitEffect[c]
             row == [old EXCEPT !.pc = "applied", !.ok = TRUE]
  <2>1. /\ old.pc = "ready" /\ old.request.mode = "stage"
        /\ index' = index \cup old.request.paths
        /\ gitEffect' = [Racing(c) EXCEPT ![c].pc = "applied", ![c].ok = TRUE]
        /\ UNCHANGED <<head, log, remoteBranch, seenRemote>>
    BY <1>3 DEF StagePaths
  <2>2. row \in EffectRow /\ row.pc = "applied" /\ row.settlement = old.settlement
        /\ row.request = old.request
    <3>1. old \in EffectRow
      BY <1>e
    <3> HIDE DEF old
    <3> QED BY <3>1 DEF EffectRow, GitPhases
  <2>3. Racing(c) \in [GitCalls -> EffectRow] /\ Racing(c)[c] = old
    BY <1>r
  <2>4. gitEffect' = [Racing(c) EXCEPT ![c] = row]
    BY <2>1, <2>3
  <2> HIDE DEF row
  <2>5. gitEffect' \in [GitCalls -> EffectRow] /\ gitEffect'[c] = row
        /\ \A d \in GitCalls : d # c => gitEffect'[d] = Racing(c)[d]
    BY <2>2, <2>3, <2>4
  <2>6. index' \subseteq GitPaths
    <3>1. old.request \in GitRequests \cup {NoRequest}
      BY <1>e DEF EffectRow
    <3>2. old.request.paths \subseteq GitPaths
      BY <3>1 DEF GitRequests, NoRequest
    <3> QED BY <2>1, <3>2, <1>t
  <2>7. old.settlement = "none"
    BY <2>1, <1>i DEF EffectPhase
  <2>8. PushSees(c)' /\ CommitHolds(c)' /\ EffectPhase(c)'
    BY <2>1, <2>2, <2>5, <2>7 DEF PushSees, CommitHolds, EffectPhase, RemoteModes
  <2> QED BY <2>1, <2>5, <2>6, <2>8, <1>t, <1>x
<1>4. ASSUME NEW c \in GitCalls, Commit(c) PROVE GitInv'
  <2> DEFINE old == gitEffect[c]
  <2>1. /\ old.pc = "ready" /\ old.request.mode = "commit" /\ old \in EffectRow
        /\ UNCHANGED <<remoteBranch, seenRemote>> /\ old.settlement = "none"
    BY <1>4, <1>e, <1>i DEF Commit, EffectPhase
  <2>2. CASE index = {}
    <3> DEFINE row == [old EXCEPT !.pc = "applied"]
    <3>1. gitEffect' = [gitEffect EXCEPT ![c] = row] /\ UNCHANGED <<head, index, log>>
      BY <1>4, <2>2 DEF Commit, Step
    <3>2. row \in EffectRow /\ row.pc = "applied" /\ row.settlement = "none"
          /\ row.request = old.request /\ row.ok = old.ok /\ row.raced = old.raced
          /\ row.made = old.made
      <4> HIDE DEF old
      <4> QED BY <2>1 DEF EffectRow, GitPhases
    <3> HIDE DEF row
    <3>3. gitEffect'[c] = row
      BY <3>1, <1>t
    <3>4. ~old.ok
      BY <2>1, <1>i DEF EffectPhase
    <3>5. PushSees(c)' /\ CommitHolds(c)' /\ EffectPhase(c)'
      BY <3>2, <3>3, <3>4, <2>1 DEF PushSees, CommitHolds, EffectPhase, RemoteModes
    <3> QED BY <2>1, <3>1, <3>2, <3>5, <1>t, <1>s
  <2>3. CASE index # {}
    <3> DEFINE made == Made
               row == [old EXCEPT !.pc = "applied", !.ok = TRUE, !.made = made]
    <3>1. /\ made \in Commits /\ Record(head, index) /\ head' = made /\ index' = {}
          /\ gitEffect' = [Racing(c) EXCEPT ![c].pc = "applied", ![c].ok = TRUE, ![c].made = made]
      BY <1>4, <2>3 DEF Commit
    <3>2. /\ \E n \in Commits : DOMAIN log' = 1..n
          /\ made \in DOMAIN log' /\ log'[made].paths = index
          /\ \A k \in DOMAIN log : k \in DOMAIN log' /\ log'[k] = log[k]
      BY <3>1, <1>t, RecordKeeps
    <3> HIDE DEF made
    <3>3. /\ row \in EffectRow /\ row.pc = "applied" /\ row.settlement = "none"
          /\ row.request = old.request /\ row.raced = old.raced /\ row.made = made
      <4>1. made \in 0..MaxCommits
        BY <3>1 DEF Commits
      <4> HIDE DEF old
      <4> QED BY <2>1, <4>1 DEF EffectRow, GitPhases
    <3>4. Racing(c) \in [GitCalls -> EffectRow] /\ Racing(c)[c] = old
      BY <1>r
    <3>5. gitEffect' = [Racing(c) EXCEPT ![c] = row]
      BY <3>1, <3>4
    <3> HIDE DEF row
    <3>6. gitEffect' \in [GitCalls -> EffectRow] /\ gitEffect'[c] = row
          /\ \A d \in GitCalls : d # c => gitEffect'[d] = Racing(c)[d]
      BY <3>3, <3>4, <3>5
    <3>7. ~old.raced => index = old.request.paths
      BY <2>1, <1>i DEF CommitHolds
    <3>8. PushSees(c)' /\ CommitHolds(c)' /\ EffectPhase(c)'
      BY <2>1, <3>2, <3>3, <3>6, <3>7 DEF PushSees, CommitHolds, EffectPhase, RemoteModes
    <3> QED BY <2>1, <3>1, <3>2, <3>6, <3>8, <1>t, <1>x
  <2> QED BY <2>2, <2>3
\* A push or its timeout; the branch is left alone or becomes HEAD.
<1>5. ASSUME NEW c \in GitCalls, Push(c) \/ TimeOut(c) PROVE GitInv'
  <2> DEFINE old == gitEffect[c]
  <2>1. /\ old.pc = "ready" /\ old.request.mode \in RemoteModes /\ old \in EffectRow
        /\ UNCHANGED <<head, index, log>> /\ old.settlement = "none"
    BY <1>5, <1>e, <1>i DEF Push, TimeOut, EffectPhase
  <2>2. PICK pc \in {"applied", "raised"}, ok \in BOOLEAN, made \in 0..MaxCommits :
          gitEffect' = [gitEffect EXCEPT ![c] = [old EXCEPT !.pc = pc, !.ok = ok, !.made = made]]
    <3>1. head \in 0..MaxCommits /\ old.ok \in BOOLEAN /\ old.made \in 0..MaxCommits
      BY <2>1, <1>t DEF EffectRow, Commits
    <3>2. \A pc \in {"applied", "raised"} :
            [old EXCEPT !.pc = pc] = [old EXCEPT !.pc = pc, !.ok = old.ok, !.made = old.made]
      <4> HIDE DEF old
      <4> QED BY <2>1 DEF EffectRow
    <3> QED BY <1>5, <3>1, <3>2, ZenonT(60) DEF Push, TimeOut, Step
  <2>3. PublishBranch(head) \/ UNCHANGED <<remoteBranch, seenRemote>>
    BY <1>5 DEF Push, TimeOut
  <2> DEFINE row == [old EXCEPT !.pc = pc, !.ok = ok, !.made = made]
  <2>4. row \in EffectRow /\ row.pc = pc /\ row.settlement = "none" /\ row.request = old.request
    <3> HIDE DEF old
    <3> QED BY <2>1 DEF EffectRow, GitPhases
  <2>5. /\ remoteBranch' \in 0..MaxCommits
        /\ seenRemote' \in [GitCalls -> SUBSET (0..MaxCommits)]
        /\ \A d \in GitCalls : seenRemote[d] \subseteq seenRemote'[d]
        /\ remoteBranch' = remoteBranch
             \/ \A d \in GitCalls : seenRemote[d] # {} => remoteBranch' \in seenRemote'[d]
    <3>1. CASE UNCHANGED <<remoteBranch, seenRemote>>
      BY <3>1, <1>t
    <3>2. CASE PublishBranch(head)
      <4>1. head \in 0..MaxCommits
        BY <1>t DEF Commits
      <4> QED BY <3>2, <4>1, <1>t DEF PublishBranch
    <3> QED BY <2>3, <3>1, <3>2
  <2>6. remoteBranch' \in seenRemote'[c]
    <3>1. remoteBranch \in seenRemote[c]
      BY <2>1, <1>i DEF PushSees
    <3>2. seenRemote[c] # {} /\ remoteBranch \in seenRemote'[c]
      BY <3>1, <2>5
    <3> QED BY <3>2, <2>5
  <2> HIDE DEF row
  <2>7. gitEffect'[c] = row
    BY <2>2, <1>t DEF row
  <2>8. PushSees(c)' /\ CommitHolds(c)' /\ EffectPhase(c)'
    BY <2>1, <2>2, <2>4, <2>6, <2>7 DEF PushSees, CommitHolds, EffectPhase, RemoteModes
  <2>9. gitEffect' = [gitEffect EXCEPT ![c] = row]
    BY <2>2 DEF row
  <2> QED BY <2>1, <2>4, <2>5, <2>8, <2>9, <1>s
<1>6. ASSUME NEW c \in GitCalls, ReadHead(c) PROVE GitInv'
  <2> DEFINE old == gitEffect[c]
             row == [old EXCEPT !.pc = "headed", !.after = head]
  <2>1. /\ old.pc = "applied" /\ gitEffect' = [gitEffect EXCEPT ![c] = row]
        /\ UNCHANGED <<head, index, log, remoteBranch, seenRemote>>
    BY <1>6 DEF ReadHead, Step
  <2>2. old \in EffectRow /\ head \in Commits /\ head \in 0..MaxCommits /\ old.settlement = "none"
    BY <2>1, <1>e, <1>t, <1>i DEF Commits, EffectPhase
  <2>3. row \in EffectRow /\ row.pc = "headed" /\ row.settlement = "none" /\ row.after = head
        /\ row.request = old.request /\ row.ok = old.ok /\ row.raced = old.raced
        /\ row.made = old.made
    <3> HIDE DEF old
    <3> QED BY <2>2 DEF EffectRow, GitPhases
  <2> HIDE DEF row
  <2>4. gitEffect'[c] = row
    BY <2>1, <1>t
  <2>5. PushSees(c)'
    BY <2>1, <2>3, <2>4, <1>i DEF PushSees
  <2>6. CommitHolds(c)'
    BY <2>1, <2>3, <2>4, <1>i DEF CommitHolds
  <2>7. EffectPhase(c)'
    BY <2>2, <2>3, <2>4, <2>1 DEF EffectPhase, Commits
  <2> QED BY <2>1, <2>3, <2>5, <2>6, <2>7, <1>t, <1>s
<1>7. ASSUME NEW c \in GitCalls, SettleGit(c) PROVE GitInv'
  <2> DEFINE old == gitEffect[c]
  <2>1. PICK found \in {remoteBranch, 0} :
          gitEffect' = [gitEffect EXCEPT ![c] =
            [old EXCEPT !.pc = "settled", !.remoteAfter = found, !.settlement = Settlement(old, found)]]
    BY <1>7 DEF SettleGit, Step
  <2>2. old.pc = "headed" /\ UNCHANGED <<head, index, log, remoteBranch, seenRemote>>
    BY <1>7 DEF SettleGit
  <2> DEFINE says == Settlement(old, found)
             row == [old EXCEPT !.pc = "settled", !.remoteAfter = found, !.settlement = says]
  <2>3. says \in {"completed", "absent", "uncertain"}
        /\ (says = "completed" /\ old.request.mode \in RemoteModes => found = old.after)
        /\ (says = "completed" /\ old.request.mode \notin RemoteModes => old.ok)
    BY DEF Settlement
  <2>4. old \in EffectRow /\ found \in 0..MaxCommits /\ old.after \in Commits
    BY <1>e, <1>t, <1>i, <2>2 DEF EffectPhase
  <2> HIDE DEF says
  <2>5. row \in EffectRow /\ row.pc = "settled" /\ row.settlement = says /\ row.after = old.after
        /\ row.request = old.request /\ row.ok = old.ok /\ row.raced = old.raced
        /\ row.made = old.made
    <3> HIDE DEF old
    <3> QED BY <2>3, <2>4 DEF EffectRow, GitPhases
  <2>6. gitEffect' = [gitEffect EXCEPT ![c] = row]
    BY <2>1 DEF says
  <2> HIDE DEF row
  <2>7. gitEffect'[c] = row
    BY <2>6, <1>t
  <2>8. PushSees(c)'
    <3>1. old.request.mode \in RemoteModes => remoteBranch \in seenRemote[c]
      BY <2>2, <1>i DEF PushSees
    <3>2. says = "completed" /\ old.request.mode \in RemoteModes => old.after = remoteBranch
      BY <2>3, <2>4 DEF Commits
    <3> QED BY <2>2, <2>5, <2>7, <3>1, <3>2 DEF PushSees
  <2>9. CommitHolds(c)'
    BY <2>2, <2>5, <2>7, <1>i DEF CommitHolds
  <2>10. EffectPhase(c)'
    BY <2>3, <2>5, <2>7 DEF EffectPhase
  <2> QED BY <2>2, <2>5, <2>6, <2>8, <2>9, <2>10, <1>t, <1>s
<1>8. CASE Others
  <2>n. "nobody" \notin GitCalls
    BY DEF GitAssumption
  <2>r. Racing("nobody") \in [GitCalls -> EffectRow]
    BY <1>r
  <2>1. ASSUME NEW p \in GitPaths \ index, index' = index \cup {p}, gitEffect' = Racing("nobody"),
               UNCHANGED <<head, log, remoteBranch, seenRemote>>
        PROVE  GitInv'
    BY <2>1, <2>n, <2>r, <1>t, <1>x
  <2>2. CASE /\ index # {} /\ Made \in Commits /\ Record(head, index) /\ head' = Made /\ index' = {}
             /\ gitEffect' = Racing("nobody") /\ UNCHANGED <<remoteBranch, seenRemote>>
    <3> DEFINE made == Made
    <3>1. /\ \E n \in Commits : DOMAIN log' = 1..n
          /\ made \in DOMAIN log' /\ made \in Commits /\ head' = made
          /\ \A k \in DOMAIN log : k \in DOMAIN log' /\ log'[k] = log[k]
      BY <2>2, <1>t, RecordKeeps
    <3> HIDE DEF made
    <3> QED BY <2>2, <2>n, <2>r, <3>1, <1>t, <1>x
  <2>3. CASE /\ Made \in Commits /\ Record(remoteBranch, {}) /\ PublishBranch(Made)
             /\ UNCHANGED <<head, index, gitEffect>>
    <3> DEFINE made == Made
    <3>1. /\ \E n \in Commits : DOMAIN log' = 1..n
          /\ made \in Commits
          /\ \A k \in DOMAIN log : k \in DOMAIN log' /\ log'[k] = log[k]
      BY <2>3, <1>t, RecordKeeps
    <3>2. /\ remoteBranch' = made
          /\ seenRemote' = [c \in GitCalls |-> IF seenRemote[c] = {} THEN {} ELSE seenRemote[c] \cup {made}]
      BY <2>3 DEF PublishBranch
    <3> HIDE DEF made
    <3>3. made \in 0..MaxCommits
      BY <3>1 DEF Commits
    <3>4. /\ seenRemote' \in [GitCalls -> SUBSET (0..MaxCommits)]
          /\ \A d \in GitCalls : seenRemote[d] \subseteq seenRemote'[d]
          /\ \A d \in GitCalls : seenRemote[d] # {} => remoteBranch' \in seenRemote'[d]
      BY <3>2, <3>3, <1>t
    <3>5. RepositoryTypes'
      BY <2>3, <3>1, <3>2, <3>3, <3>4, <1>t DEF RepositoryTypes, Commits
    <3>6. ASSUME NEW d \in GitCalls PROVE PushSees(d)' /\ CommitHolds(d)' /\ EffectPhase(d)'
      BY <2>3, <3>1, <3>4, <1>o
    <3> QED BY <3>5, <3>6 DEF GitInv
  <2> QED BY <1>8, <2>1, <2>2, <2>3 DEF Others
<1>9. CASE UNCHANGED gitVars
  <2>1. UNCHANGED <<head, index, log, remoteBranch, gitEffect, seenRemote>>
    BY <1>9 DEF gitVars
  <2>2. RepositoryTypes'
    BY <2>1, <1>t DEF RepositoryTypes, Commits
  <2>3. ASSUME NEW d \in GitCalls PROVE PushSees(d)' /\ CommitHolds(d)' /\ EffectPhase(d)'
    BY <2>1, <1>o
  <2> QED BY <2>2, <2>3 DEF GitInv
<1> QED BY <1>1, <1>2, <1>3, <1>4, <1>5, <1>6, <1>7, <1>8, <1>9 DEF GitNext

\* What a settled git effect reports is what happened in front of the readers of the remote
\* branch and in the log, whatever other calls and other people did with git meanwhile, and
\* no effect drops a commit it was not authorized to drop.
THEOREM GitEffectsFaithful == GitSpec => GitFaithful
<1>1. GitInv => GitTypeOK /\ CompletedReached /\ CommitExact
  <2> SUFFICES ASSUME GitInv PROVE GitTypeOK /\ CompletedReached /\ CommitExact
    OBVIOUS
  <2>1. /\ RepositoryTypes
        /\ \A c \in GitCalls : PushSees(c) /\ CommitHolds(c) /\ EffectPhase(c)
        /\ \A c \in GitCalls : gitEffect[c] \in EffectRow
    BY DEF GitInv, RepositoryTypes
  <2>2. DOMAIN log \subseteq Commits
    BY <2>1, GitAssumption DEF RepositoryTypes, Commits
  <2>3. GitTypeOK
    <3>1. ASSUME NEW c \in GitCalls
          PROVE  /\ gitEffect[c].pc \in GitPhases
                 /\ gitEffect[c].settlement \in {"none", "completed", "absent", "uncertain"}
                 /\ (gitEffect[c].pc = "settled") <=> (gitEffect[c].settlement # "none")
                 /\ seenRemote[c] \subseteq 0..MaxCommits
      BY <2>1 DEF RepositoryTypes, EffectPhase, EffectRow
    <3> QED BY <2>1, <2>2, <3>1 DEF RepositoryTypes, GitTypeOK, GitPhases
  <2>4. CompletedReached
    BY <2>1 DEF CompletedReached, PushSees
  <2>5. CommitExact
    <3> SUFFICES ASSUME NEW c \in GitCalls, gitEffect[c].settlement = "completed",
                        gitEffect[c].request.mode = "commit", ~gitEffect[c].raced
                 PROVE  gitEffect[c].made # 0 /\ log[gitEffect[c].made].paths = gitEffect[c].request.paths
      BY DEF CommitExact
    <3>1. gitEffect[c].pc = "settled" /\ gitEffect[c].ok
      BY <2>1 DEF EffectPhase, RemoteModes
    <3>2. gitEffect[c].made \in DOMAIN log
          /\ log[gitEffect[c].made].paths = gitEffect[c].request.paths
      BY <2>1, <3>1 DEF CommitHolds
    <3> QED BY <2>2, <3>2 DEF Commits
  <2> QED BY <2>3, <2>4, <2>5
<1>2. GitInv /\ [GitNext]_gitVars => [GuardedPush]_gitVars
  <2> SUFFICES ASSUME GitInv, GitNext, NEW c \in GitCalls, gitEffect[c].pc = "ready",
                      gitEffect'[c].pc \in {"applied", "raised"}, remoteBranch' # remoteBranch
               PROVE  \/ remoteBranch \in Ancestors(remoteBranch')
                      \/ gitEffect[c].request.mode = "force_push"
                      \/ /\ gitEffect[c].request.mode = "force_with_lease"
                         /\ remoteBranch = gitEffect[c].request.lease
    BY DEF GuardedPush
  <2>1. gitEffect \in [GitCalls -> EffectRow]
    BY DEF GitInv, RepositoryTypes
  <2>2. PICK d \in GitCalls : Push(d) \/ TimeOut(d)
    <3>1. ASSUME Others PROVE FALSE
      BY <3>1 DEF Others
    <3> QED BY <3>1 DEF GitNext, CheckBase, CheckGitTarget, StagePaths, Commit, ReadHead, SettleGit
  <2>3. gitEffect'[c] # gitEffect[c]
    OBVIOUS
  <2>4. \A e \in GitCalls : e # d => gitEffect'[e] = gitEffect[e]
    BY <2>1, <2>2 DEF Push, TimeOut, Step
  <2>5. c = d
    BY <2>3, <2>4
  <2>6. Accepted(gitEffect[c].request, remoteBranch, head) /\ remoteBranch' = head
        /\ gitEffect[c].request.mode \in RemoteModes
    BY <2>2, <2>5 DEF Push, TimeOut, PublishBranch
  <2>7. CASE gitEffect[c].request.mode = "push"
    BY <2>6, <2>7 DEF Accepted
  <2>8. CASE gitEffect[c].request.mode = "force_with_lease"
    BY <2>6, <2>8 DEF Accepted
  <2> QED BY <2>6, <2>7, <2>8 DEF RemoteModes
<1> QED BY <1>1, <1>2, GitInitially, GitStep, PTL DEF GitSpec, GitFaithful, RemoteGuarded

-----------------------------------------------------------------------------
(* Artifacts. *)

\* The rest of the types: what the threads hold and what a plan names.
ThreadTypes ==
  /\ purging \in [gc : SUBSET Digests, rec : {"idle", "validated", "marked"}, todo : SUBSET Digests,
                  reading : Arts \cup {NoArt}, members : SUBSET Arts]
  /\ recPlan \in [state : {"none", "planned", "applied"},
                  issues : [uploads : SUBSET Uploads, missing : SUBSET Arts, corrupt : SUBSET Arts,
                            orphans : SUBSET Digests, refs : SUBSET Names, collections : SUBSET Collections]]

\* A commit in progress holds the lock of its content, and what it published stays.
CommitInv ==
  \A u \in Uploads :
    /\ commitAt[u] # "idle" => casLock[DigestOf[u]] = u
    /\ commitAt[u] \in {"published", "unlinked"} =>
         body[DigestOf[u]] = "intact" \/ DigestOf[u] \in damaged

\* The upload of an artifact is over; what a plan or a reader found was made.
OriginInv ==
  \A a \in Arts :
    /\ artifact[a].life # "none" => upload[artifact[a].origin].state \in {"committed", "aborted"}
    /\ a = purging.reading \/ a \in recPlan.issues.missing \cup recPlan.issues.corrupt
         => artifact[a].life # "none"

ArtInv ==
  /\ ArtifactsTypeOK /\ ThreadTypes /\ CommitInv /\ OriginInv
  /\ AvailableHasBody /\ OneArtifactPerUpload /\ ReferencesLive

\* The types of the rows, one by one.
ArtUploads == [state : {"none", "staging", "committed", "aborted"}, offset : 0..Chunks,
               art : Arts \cup {NoArt}, sources : SUBSET Arts]
StagedFiles == [there : BOOLEAN, chunks : 0..Chunks]
ArtRows == [life : Lifecycles, digest : Digests, sources : SUBSET Arts, origin : Uploads]
RefRows == [target : Arts \cup {NoArt}, revision : 0..MaxRevision]
GcPlans == [state : {"none", "planned", "applied"}, candidates : SUBSET Arts]
Issues == [uploads : SUBSET Uploads, missing : SUBSET Arts, corrupt : SUBSET Arts, orphans : SUBSET Digests,
           refs : SUBSET Names, collections : SUBSET Collections]
RecPlans == [state : {"none", "planned", "applied"}, issues : Issues]
Sweeps == [gc : SUBSET Digests, rec : {"idle", "validated", "marked"}, todo : SUBSET Digests,
           reading : Arts \cup {NoArt}, members : SUBSET Arts]
Budgets == [plans : 0..MaxPlans, faults : 0..MaxFaults]

RowsTyped ==
  /\ upload \in [Uploads -> ArtUploads] /\ expired \subseteq Uploads /\ touched \subseteq Uploads
  /\ artifact \in [Arts -> ArtRows] /\ workRef \in [Names -> RefRows] /\ kept \in [Arts -> SUBSET Keeps]
  /\ collection \in [Collections -> SUBSET Arts] /\ gcPlan \in GcPlans /\ recPlan \in RecPlans

FilesTyped ==
  /\ staged \in [Uploads -> StagedFiles] /\ body \in [Digests -> {"absent", "intact", "corrupt"}]
  /\ damaged \subseteq Digests

ThreadsTyped ==
  /\ casLock \in [Digests -> Uploads \cup {"free", "gc"}]
  /\ commitAt \in [Uploads -> {"idle", "locked", "published", "unlinked"}]
  /\ purging \in Sweeps /\ spent \in Budgets

ArtTyped == RowsTyped /\ FilesTyped /\ ThreadsTyped

\* They are the type invariant.
LEMMA ArtTypesAre == ArtifactsTypeOK /\ ThreadTypes <=> ArtTyped
<1>1. ArtifactsTypeOK /\ ThreadTypes => ArtTyped
  BY DEF ArtifactsTypeOK, ThreadTypes, ArtTyped, RowsTyped, FilesTyped, ThreadsTyped, ArtUploads, StagedFiles,
       ArtRows, RefRows, GcPlans, Issues, RecPlans, Sweeps, Budgets
<1>2. ArtTyped => ThreadTypes
  BY DEF ThreadTypes, ArtTyped, RowsTyped, ThreadsTyped, Issues, RecPlans, Sweeps
<1>3. ArtTyped => ArtifactsTypeOK
  BY DEF ArtifactsTypeOK, ArtTyped, RowsTyped, FilesTyped, ThreadsTyped, ArtUploads, StagedFiles,
       ArtRows, RefRows, GcPlans, RecPlans, Sweeps, Budgets
<1> QED
  BY <1>1, <1>2, <1>3

\* Updates of the rows keep their types.
LEMMA ArtUpdates ==
  /\ \A r \in ArtUploads : /\ \A s \in {"staging", "committed", "aborted"} : [r EXCEPT !.state = s] \in ArtUploads
                           /\ \A S \in SUBSET Arts : [r EXCEPT !.sources = S] \in ArtUploads
                           /\ \A a \in Arts : [r EXCEPT !.art = a] \in ArtUploads
                           /\ r.offset < Chunks => [r EXCEPT !.offset = r.offset + 1] \in ArtUploads
                           /\ r.sources \in SUBSET Arts /\ r.offset \in 0..Chunks
  /\ \A f \in StagedFiles : /\ [f EXCEPT !.there = FALSE] \in StagedFiles
                            /\ f.chunks < Chunks => [f EXCEPT !.chunks = f.chunks + 1] \in StagedFiles
  /\ [there |-> TRUE, chunks |-> 0] \in StagedFiles
  /\ \A r \in ArtRows : \A l \in Lifecycles : [r EXCEPT !.life = l] \in ArtRows
  /\ \A d \in Digests, S \in SUBSET Arts, u \in Uploads :
       [life |-> "available", digest |-> d, sources |-> S, origin |-> u] \in ArtRows
  /\ \A a \in Arts \cup {NoArt}, r \in 0..MaxRevision : [target |-> a, revision |-> r] \in RefRows
  /\ 0 \in 0..MaxRevision
<1>0. Chunks \in Nat /\ 0 \in 0..Chunks /\ 0 \in 0..MaxRevision
  BY ArtifactsAssumption
<1>1. \A r \in ArtUploads : /\ \A s \in {"staging", "committed", "aborted"} : [r EXCEPT !.state = s] \in ArtUploads
                            /\ \A S \in SUBSET Arts : [r EXCEPT !.sources = S] \in ArtUploads
                            /\ \A a \in Arts : [r EXCEPT !.art = a] \in ArtUploads
                            /\ r.sources \in SUBSET Arts /\ r.offset \in 0..Chunks
  BY DEF ArtUploads
<1>2. ASSUME NEW r \in ArtUploads, r.offset < Chunks PROVE [r EXCEPT !.offset = r.offset + 1] \in ArtUploads
  <2>0. r.offset \in 0..Chunks
    BY <1>1
  <2>1. r.offset + 1 \in 0..Chunks
    BY <1>0, <2>0, <1>2
  <2> QED
    BY <1>2, <2>1 DEF ArtUploads
<1>3. \A f \in StagedFiles : /\ [f EXCEPT !.there = FALSE] \in StagedFiles
                             /\ f.chunks < Chunks => [f EXCEPT !.chunks = f.chunks + 1] \in StagedFiles
  <2> SUFFICES ASSUME NEW f \in StagedFiles
               PROVE  /\ [f EXCEPT !.there = FALSE] \in StagedFiles
                      /\ f.chunks < Chunks => [f EXCEPT !.chunks = f.chunks + 1] \in StagedFiles
    OBVIOUS
  <2>1. f.chunks \in 0..Chunks /\ (f.chunks < Chunks => f.chunks + 1 \in 0..Chunks)
    BY <1>0 DEF StagedFiles
  <2> QED
    BY <2>1 DEF StagedFiles
<1>4. [there |-> TRUE, chunks |-> 0] \in StagedFiles
  BY <1>0 DEF StagedFiles
<1>5. \A r \in ArtRows : \A l \in Lifecycles : [r EXCEPT !.life = l] \in ArtRows
  BY DEF ArtRows
<1>6. \A d \in Digests, S \in SUBSET Arts, u \in Uploads :
        [life |-> "available", digest |-> d, sources |-> S, origin |-> u] \in ArtRows
  BY DEF ArtRows, Lifecycles
<1>7. \A a \in Arts \cup {NoArt}, r \in 0..MaxRevision : [target |-> a, revision |-> r] \in RefRows
  BY DEF RefRows
<1> QED
  BY <1>0, <1>1, <1>2, <1>3, <1>4, <1>5, <1>6, <1>7

\* Updates of the plans and of what the threads hold keep their types.
LEMMA SweepUpdates ==
  /\ \A p \in Sweeps : /\ \A g \in SUBSET Digests : [p EXCEPT !.gc = g] \in Sweeps
                       /\ \A g \in SUBSET Digests : [p EXCEPT !.todo = g] \in Sweeps
                       /\ \A g \in SUBSET Digests : [p EXCEPT !.rec = "validated", !.todo = g] \in Sweeps
                       /\ \A x \in {"idle", "marked"} : [p EXCEPT !.rec = x] \in Sweeps
                       /\ \A a \in Arts \cup {NoArt} : [p EXCEPT !.reading = a] \in Sweeps
                       /\ \A S \in SUBSET Arts : [p EXCEPT !.members = S] \in Sweeps
                       /\ p.gc \in SUBSET Digests /\ p.todo \in SUBSET Digests /\ p.members \in SUBSET Arts
                       /\ p.reading \in Arts \cup {NoArt}
  /\ AtRest \in Sweeps
  /\ \A p \in GcPlans : [p EXCEPT !.state = "applied"] \in GcPlans /\ p.candidates \in SUBSET Arts
  /\ \A C \in SUBSET Arts : [state |-> "planned", candidates |-> C] \in GcPlans
  /\ \A p \in RecPlans : [p EXCEPT !.state = "applied"] \in RecPlans /\ p.issues \in Issues
  /\ \A i \in Issues : [state |-> "planned", issues |-> i] \in RecPlans /\ i.orphans \in SUBSET Digests
  /\ PlanMade /\ spent \in Budgets => spent' \in Budgets
  /\ ArtifactFault /\ spent \in Budgets => spent' \in Budgets
<1>1. \A p \in Sweeps : /\ \A g \in SUBSET Digests : [p EXCEPT !.gc = g] \in Sweeps
                        /\ \A g \in SUBSET Digests : [p EXCEPT !.todo = g] \in Sweeps
                        /\ \A g \in SUBSET Digests : [p EXCEPT !.rec = "validated", !.todo = g] \in Sweeps
                        /\ \A x \in {"idle", "marked"} : [p EXCEPT !.rec = x] \in Sweeps
                        /\ \A a \in Arts \cup {NoArt} : [p EXCEPT !.reading = a] \in Sweeps
                        /\ \A S \in SUBSET Arts : [p EXCEPT !.members = S] \in Sweeps
                        /\ p.gc \in SUBSET Digests /\ p.todo \in SUBSET Digests /\ p.members \in SUBSET Arts
                        /\ p.reading \in Arts \cup {NoArt}
  BY DEF Sweeps
<1>2. AtRest \in Sweeps
  BY DEF Sweeps, AtRest
<1>3. /\ \A p \in GcPlans : [p EXCEPT !.state = "applied"] \in GcPlans /\ p.candidates \in SUBSET Arts
      /\ \A C \in SUBSET Arts : [state |-> "planned", candidates |-> C] \in GcPlans
  BY DEF GcPlans
<1>4. /\ \A p \in RecPlans : [p EXCEPT !.state = "applied"] \in RecPlans /\ p.issues \in Issues
      /\ \A i \in Issues : [state |-> "planned", issues |-> i] \in RecPlans
  BY DEF RecPlans
<1>5. \A i \in Issues : i.orphans \in SUBSET Digests
  BY DEF Issues
<1>6. PlanMade /\ spent \in Budgets => spent' \in Budgets
  BY ArtifactsAssumption DEF PlanMade, Budgets
<1>7. ArtifactFault /\ spent \in Budgets => spent' \in Budgets
  BY ArtifactsAssumption DEF ArtifactFault, Budgets
<1> QED
  BY <1>1, <1>2, <1>3, <1>4, <1>5, <1>6, <1>7

\* Lifecycle changes keep the rows of artifacts.
LEMMA LifecycleTyped ==
  ASSUME artifact \in [Arts -> ArtRows], NEW S, NEW l \in Lifecycles PROVE Lifecycle(S, l) \in [Arts -> ArtRows]
BY ArtUpdates DEF Lifecycle

\* The rows keep their types.
LEMMA ArtTypesKept == ArtInv /\ [ArtifactsNext]_artVars => ArtTyped'
<1> SUFFICES ASSUME ArtInv, [ArtifactsNext]_artVars PROVE ArtTyped'
  OBVIOUS
<1>t. ArtTyped
  BY ArtTypesAre DEF ArtInv
<1> USE DEF ArtTyped, RowsTyped, FilesTyped, ThreadsTyped
<1>1. ASSUME NEW u \in Uploads, NEW S \in SUBSET Arts, OpenUpload(u, S) PROVE ArtTyped'
  BY <1>1, <1>t, ArtUpdates, SweepUpdates, ArtifactsAssumption DEF OpenUpload, Available, rowVars, fileVars, threadVars
<1>2. ASSUME NEW u \in Uploads, AppendChunk(u) PROVE ArtTyped'
  <2>0. staged[u] = [there |-> TRUE, chunks |-> upload[u].offset] /\ upload[u].offset < Chunks
    BY <1>2 DEF AppendChunk
  <2>a. upload[u] \in ArtUploads /\ staged[u] \in StagedFiles
    BY <1>t
  <2>b. staged[u].chunks = upload[u].offset
    BY <2>0
  <2>1. /\ upload[u] \in ArtUploads /\ staged[u] \in StagedFiles /\ staged[u].chunks = upload[u].offset
        /\ upload[u].offset < Chunks
    BY <2>0, <2>a, <2>b
  <2>2. [upload[u] EXCEPT !.offset = upload[u].offset + 1] \in ArtUploads
    BY <2>1, ArtUpdates
  <2>3. [staged[u] EXCEPT !.chunks = staged[u].chunks + 1] \in StagedFiles
    BY <2>1, ArtUpdates
  <2>4. staged' \in [Uploads -> StagedFiles]
    BY <1>2, <1>t, <2>3 DEF AppendChunk
  <2>5. upload' \in [Uploads -> ArtUploads]
    BY <1>2, <1>t, <2>2 DEF AppendChunk
  <2>6. expired' \subseteq Uploads /\ touched' \subseteq Uploads /\ spent' \in Budgets
    BY <1>2, <1>t, SweepUpdates DEF AppendChunk
  <2> QED
    BY <1>2, <1>t, <2>4, <2>5, <2>6 DEF AppendChunk, threadVars
<1>3. ASSUME NEW u \in Uploads, AbortUpload(u) PROVE ArtTyped'
  BY <1>3, <1>t, ArtUpdates, SweepUpdates, ArtifactsAssumption DEF AbortUpload, rowVars, fileVars, threadVars
<1>4. ASSUME NEW u \in Uploads, UploadExpires(u) PROVE ArtTyped'
  BY <1>4, <1>t, ArtUpdates, SweepUpdates, ArtifactsAssumption DEF UploadExpires, rowVars, fileVars, threadVars
<1>5. ASSUME NEW u \in Uploads, CommitBegins(u) PROVE ArtTyped'
  BY <1>5, <1>t, ArtUpdates, SweepUpdates, ArtifactsAssumption DEF CommitBegins, rowVars, fileVars, threadVars
<1>6. ASSUME NEW u \in Uploads, Publish(u) PROVE ArtTyped'
  BY <1>6, <1>t, ArtUpdates, SweepUpdates, ArtifactsAssumption DEF Publish, StoreBody, ExistingMatches, rowVars, fileVars, threadVars
<1>7. ASSUME NEW u \in Uploads, Unstage(u) PROVE ArtTyped'
  BY <1>7, <1>t, ArtUpdates, SweepUpdates, ArtifactsAssumption DEF Unstage, rowVars, fileVars, threadVars
<1>8. ASSUME NEW u \in Uploads, ResumeCommit(u) PROVE ArtTyped'
  BY <1>8, <1>t, ArtUpdates, SweepUpdates, ArtifactsAssumption DEF ResumeCommit, rowVars, fileVars, threadVars
<1>9. ASSUME NEW u \in Uploads, NEW a \in Arts, Finalize(u, a) PROVE ArtTyped'
  BY <1>9, <1>t, ArtUpdates, SweepUpdates, ArtifactsAssumption DEF Finalize, Unlock, rowVars, fileVars, threadVars
<1>10. ASSUME NEW u \in Uploads, CommitRefused(u) PROVE ArtTyped'
  BY <1>10, <1>t, ArtUpdates, SweepUpdates, ArtifactsAssumption DEF CommitRefused, Unlock, rowVars, fileVars, threadVars
<1>11. ASSUME NEW u \in Uploads, RejectSecretUpload(u) PROVE ArtTyped'
  <2>1. /\ [upload[u] EXCEPT !.state = "aborted"] \in ArtUploads /\ [staged[u] EXCEPT !.there = FALSE] \in StagedFiles
    BY <1>t, ArtUpdates
  <2>r. [upload[u] EXCEPT !.state = upload[u].state] \in ArtUploads
    <3>1. \A x \in ArtUploads : [x EXCEPT !.state = x.state] \in ArtUploads
      BY DEF ArtUploads
    <3> QED
      BY <3>1, <1>t
  <2>2. upload' \in [Uploads -> ArtUploads]
    BY <1>11, <1>t, <2>1, <2>r DEF RejectSecretUpload
  <2>3. staged' \in [Uploads -> StagedFiles]
    BY <1>11, <1>t, <2>1 DEF RejectSecretUpload
  <2>4. expired' \subseteq Uploads /\ touched' \subseteq Uploads /\ spent' \in Budgets
    BY <1>11, <1>t, SweepUpdates DEF RejectSecretUpload
  <2>5. casLock' \in [Digests -> Uploads \cup {"free", "gc"}]
    BY <1>11, <1>t DEF RejectSecretUpload, Unlock
  <2> QED
    BY <1>11, <1>t, <2>2, <2>3, <2>4, <2>5 DEF RejectSecretUpload, Unlock
<1>12. ASSUME NEW n \in Names, NEW a \in Arts, NEW r \in 0..MaxRevision, UpdateReference(n, a, r) PROVE ArtTyped'
  <2>1. r + 1 \in 0..MaxRevision
    BY <1>12, ArtifactsAssumption DEF UpdateReference
  <2>2. [target |-> a, revision |-> r + 1] \in RefRows
    BY <2>1, ArtUpdates
  <2>3. workRef' \in [Names -> RefRows]
    BY <1>12, <1>t, <2>2 DEF UpdateReference
  <2> QED
    BY <1>12, <1>t, <2>3 DEF UpdateReference, fileVars, threadVars
<1>13. ASSUME NEW a \in Arts, NEW why \in Keeps, Keep(a, why) PROVE ArtTyped'
  BY <1>13, <1>t, ArtUpdates, SweepUpdates, ArtifactsAssumption DEF Keep, rowVars, fileVars, threadVars
<1>14. ASSUME NEW a \in Arts, NEW why \in Keeps, ReleaseKeep(a, why) PROVE ArtTyped'
  BY <1>14, <1>t, ArtUpdates, SweepUpdates, ArtifactsAssumption DEF ReleaseKeep, rowVars, fileVars, threadVars
<1>15. ASSUME NEW a \in Arts, BeginRead(a) PROVE ArtTyped'
  BY <1>15, <1>t, ArtUpdates, SweepUpdates, ArtifactsAssumption DEF BeginRead, rowVars, fileVars, threadVars
<1>16. CASE ObserveBody
  <2>1. \A S : Lifecycle(S, "missing") \in [Arts -> ArtRows] /\ Lifecycle(S, "corrupt") \in [Arts -> ArtRows]
    BY <1>t, LifecycleTyped DEF Lifecycles
  <2>2. artifact' \in [Arts -> ArtRows]
    BY <1>16, <1>t, <2>1 DEF ObserveBody
  <2>3. purging' \in Sweeps
    BY <1>16, <1>t, SweepUpdates DEF ObserveBody
  <2> QED
    BY <1>16, <1>t, <2>2, <2>3 DEF ObserveBody, fileVars
<1>17. ASSUME NEW S \in SUBSET Arts, CheckMembers(S) PROVE ArtTyped'
  BY <1>17, <1>t, ArtUpdates, SweepUpdates, ArtifactsAssumption DEF CheckMembers, rowVars, fileVars, threadVars
<1>18. ASSUME NEW c \in Collections, CreateCollection(c) PROVE ArtTyped'
  BY <1>18, <1>t, ArtUpdates, SweepUpdates, ArtifactsAssumption DEF CreateCollection, rowVars, fileVars, threadVars
<1>19. CASE PlanGc
  <2>1. Available \ RootedIds \in SUBSET Arts
    BY DEF Available
  <2>2. gcPlan' \in GcPlans /\ spent' \in Budgets
    BY <1>19, <1>t, <2>1, SweepUpdates DEF PlanGc
  <2> QED
    BY <1>19, <1>t, <2>2 DEF PlanGc, fileVars, threadVars
<1>20. CASE ApplyGc
  <2> DEFINE gone == gcPlan.candidates \cap Available
  <2>1. {artifact[a].digest : a \in gone} \in SUBSET Digests
    BY <1>t DEF Available, ArtRows
  <2>2. Lifecycle(gone, "tombstoned") \in [Arts -> ArtRows]
    BY <1>t, LifecycleTyped DEF Lifecycles
  <2>3. artifact' \in [Arts -> ArtRows] /\ purging' \in Sweeps /\ gcPlan' \in GcPlans
    BY <1>20, <1>t, <2>1, <2>2, SweepUpdates DEF ApplyGc
  <2> QED
    BY <1>20, <1>t, <2>3 DEF ApplyGc, fileVars
<1>21. ASSUME NEW d \in Digests, GcPurge(d) PROVE ArtTyped'
  <2>1. purging' \in Sweeps
    <3>1. purging.gc \ {d} \in SUBSET Digests
      BY <1>t, SweepUpdates
    <3>2. UNCHANGED purging \/ purging' = [purging EXCEPT !.gc = purging.gc \ {d}]
      BY <1>21 DEF GcPurge
    <3>3. [purging EXCEPT !.gc = purging.gc \ {d}] \in Sweeps
      BY <1>t, <3>1, SweepUpdates
    <3> QED
      BY <1>t, <3>2, <3>3
  <2> QED
    BY <1>21, <1>t, <2>1 DEF GcPurge, rowVars
<1>22. ASSUME NEW d \in Digests, GcMarkDeleted(d) PROVE ArtTyped'
  <2>1. \A S : Lifecycle(S, "deleted") \in [Arts -> ArtRows]
    BY <1>t, LifecycleTyped DEF Lifecycles
  <2>2. purging.gc \ {d} \in SUBSET Digests
    BY <1>t, SweepUpdates
  <2>3. artifact' \in [Arts -> ArtRows] /\ purging' \in Sweeps
    BY <1>22, <1>t, <2>1, <2>2, SweepUpdates DEF GcMarkDeleted
  <2> QED
    BY <1>22, <1>t, <2>3 DEF GcMarkDeleted, fileVars
<1>23. CASE PlanReconciliation
  <2>1. PICK i : i \in Issues /\ recPlan' = [state |-> "planned", issues |-> i]
    <3> DEFINE bad == Observed("absent") \cup Observed("corrupt")
               i == [uploads |-> {u \in expired : upload[u].state \in {"staging", "aborted"}},
                     missing |-> Observed("absent"), corrupt |-> Observed("corrupt"),
                     orphans |-> {d \in Digests : body[d] # "absent" /\ ~Claimed(d)},
                     refs |-> {n \in Names : workRef[n].target # NoArt /\ Unavailable(workRef[n].target, bad)},
                     collections |-> {c \in Collections : \E a \in collection[c] : Unavailable(a, bad)}]
    <3>1. i \in Issues
      BY <1>t DEF Issues, Observed, Available
    <3>2. recPlan' = [state |-> "planned", issues |-> i]
      BY <1>23 DEF PlanReconciliation
    <3> QED
      BY <3>1, <3>2
  <2>2. recPlan' \in RecPlans /\ spent' \in Budgets /\ touched' = {}
    BY <1>23, <1>t, <2>1, SweepUpdates DEF PlanReconciliation
  <2> QED
    BY <1>23, <1>t, <2>2 DEF PlanReconciliation, fileVars, threadVars
<1>24. CASE ValidatePlan
  BY <1>24, <1>t, ArtUpdates, SweepUpdates, ArtifactsAssumption DEF ValidatePlan, rowVars, fileVars, threadVars
<1>25. ASSUME NEW d \in Digests, DeleteOrphan(d) PROVE ArtTyped'
  BY <1>25, <1>t, ArtUpdates, SweepUpdates, ArtifactsAssumption DEF DeleteOrphan, rowVars, fileVars, threadVars
<1>26. CASE MarkIssues
  <2>1. \A a \in Arts : \A l \in {"missing", "corrupt"} : [artifact[a] EXCEPT !.life = l] \in ArtRows
    BY <1>t, ArtUpdates DEF Lifecycles
  <2>2. artifact' \in [Arts -> ArtRows]
    BY <1>26, <1>t, <2>1 DEF MarkIssues
  <2>3. [target |-> NoArt, revision |-> 0] \in RefRows
    BY ArtUpdates
  <2>4. workRef' \in [Names -> RefRows] /\ collection' \in [Collections -> SUBSET Arts]
    BY <1>26, <1>t, <2>3 DEF MarkIssues
  <2>5. \A u \in Uploads : [upload[u] EXCEPT !.state = "aborted"] \in ArtUploads
    BY <1>t, ArtUpdates
  <2>6. upload' \in [Uploads -> ArtUploads]
    BY <1>26, <1>t, <2>5 DEF MarkIssues
  <2>7. purging' \in Sweeps
    BY <1>26, <1>t, SweepUpdates DEF MarkIssues
  <2> QED
    BY <1>26, <1>t, <2>2, <2>4, <2>6, <2>7 DEF MarkIssues, fileVars
<1>27. CASE FinishReconciliation
  BY <1>27, <1>t, ArtUpdates, SweepUpdates, ArtifactsAssumption DEF FinishReconciliation, rowVars, fileVars, threadVars
<1>28. ASSUME NEW d \in Digests, NEW how \in {"absent", "corrupt"}, DamageBody(d, how) PROVE ArtTyped'
  BY <1>28, <1>t, ArtUpdates, SweepUpdates, ArtifactsAssumption DEF DamageBody, rowVars, fileVars, threadVars
<1>29. CASE CrashArtifacts
  BY <1>29, <1>t, ArtUpdates, SweepUpdates, ArtifactsAssumption DEF CrashArtifacts, AtRest, rowVars, fileVars, threadVars
<1>30. CASE UNCHANGED artVars
  BY <1>30, <1>t DEF artVars, rowVars, fileVars, threadVars
<1> HIDE DEF ArtInv, ArtifactsTypeOK, ThreadTypes, Available
<1> HIDE DEF ArtTyped, RowsTyped, FilesTyped, ThreadsTyped
<1> QED
  BY <1>1, <1>2, <1>3, <1>4, <1>5, <1>6, <1>7, <1>8, <1>9, <1>10, <1>11, <1>12, <1>13, <1>14, <1>15,
     <1>16, <1>17, <1>18, <1>19, <1>20, <1>21, <1>22, <1>23, <1>24, <1>25, <1>26, <1>27, <1>28, <1>29,
     <1>30 DEF ArtifactsNext

\* What working references, keeps and collections name is rooted.
LEMMA RootsRooted == DirectRoots \cap Arts \subseteq RootedIds
BY ArtifactsAssumption DEF RootedIds

\* What a rooted artifact was derived from is rooted.
LEMMA SourcesRooted == \A b \in RootedIds : artifact[b].sources \cap Arts \subseteq RootedIds
BY DEF RootedIds

\* A commit in progress keeps its lock and what it published.
LEMMA CommitsKept == ArtInv /\ [ArtifactsNext]_artVars => CommitInv'
<1> SUFFICES ASSUME ArtInv, [ArtifactsNext]_artVars PROVE CommitInv'
  OBVIOUS
<1> USE ArtifactsAssumption DEF ArtInv, ArtifactsTypeOK, ThreadTypes, Available
<1> USE DEF CommitInv
<1>1. ASSUME NEW u \in Uploads, NEW S \in SUBSET Arts, OpenUpload(u, S) PROVE CommitInv'
  BY <1>1 DEF OpenUpload, Available, rowVars, fileVars, threadVars
<1>2. ASSUME NEW u \in Uploads, AppendChunk(u) PROVE CommitInv'
  BY <1>2 DEF AppendChunk, ArtifactFault, rowVars, fileVars, threadVars
<1>3. ASSUME NEW u \in Uploads, AbortUpload(u) PROVE CommitInv'
  BY <1>3 DEF AbortUpload, rowVars, fileVars, threadVars
<1>4. ASSUME NEW u \in Uploads, UploadExpires(u) PROVE CommitInv'
  BY <1>4 DEF UploadExpires, ArtifactFault, rowVars, fileVars, threadVars
<1>5. ASSUME NEW u \in Uploads, CommitBegins(u) PROVE CommitInv'
  BY <1>5 DEF CommitBegins, rowVars, fileVars, threadVars
<1>6. ASSUME NEW u \in Uploads, Publish(u) PROVE CommitInv'
  BY <1>6 DEF Publish, StoreBody, ExistingMatches, rowVars, fileVars, threadVars
<1>7. ASSUME NEW u \in Uploads, Unstage(u) PROVE CommitInv'
  BY <1>7 DEF Unstage, rowVars, fileVars, threadVars
<1>8. ASSUME NEW u \in Uploads, ResumeCommit(u) PROVE CommitInv'
  BY <1>8 DEF ResumeCommit, rowVars, fileVars, threadVars
<1>9. ASSUME NEW u \in Uploads, NEW a \in Arts, Finalize(u, a) PROVE CommitInv'
  BY <1>9 DEF Finalize, Unlock, rowVars, fileVars, threadVars
<1>10. ASSUME NEW u \in Uploads, CommitRefused(u) PROVE CommitInv'
  BY <1>10 DEF CommitRefused, Unlock, rowVars, fileVars, threadVars
<1>11. ASSUME NEW u \in Uploads, RejectSecretUpload(u) PROVE CommitInv'
  BY <1>11 DEF RejectSecretUpload, Unlock, ArtifactFault, rowVars, fileVars, threadVars
<1>12. ASSUME NEW n \in Names, NEW a \in Arts, NEW r \in 0..MaxRevision, UpdateReference(n, a, r) PROVE CommitInv'
  BY <1>12 DEF UpdateReference, Available, rowVars, fileVars, threadVars
<1>13. ASSUME NEW a \in Arts, NEW why \in Keeps, Keep(a, why) PROVE CommitInv'
  BY <1>13 DEF Keep, rowVars, fileVars, threadVars
<1>14. ASSUME NEW a \in Arts, NEW why \in Keeps, ReleaseKeep(a, why) PROVE CommitInv'
  BY <1>14 DEF ReleaseKeep, rowVars, fileVars, threadVars
<1>15. ASSUME NEW a \in Arts, BeginRead(a) PROVE CommitInv'
  BY <1>15 DEF BeginRead, PlanMade, rowVars, fileVars, threadVars
<1>16. CASE ObserveBody
  BY <1>16 DEF ObserveBody, Lifecycle, rowVars, fileVars, threadVars
<1>17. ASSUME NEW S \in SUBSET Arts, CheckMembers(S) PROVE CommitInv'
  BY <1>17 DEF CheckMembers, PlanMade, rowVars, fileVars, threadVars
<1>18. ASSUME NEW c \in Collections, CreateCollection(c) PROVE CommitInv'
  BY <1>18 DEF CreateCollection, rowVars, fileVars, threadVars
<1>19. CASE PlanGc
  BY <1>19 DEF PlanGc, PlanMade, rowVars, fileVars, threadVars
<1>20. CASE ApplyGc
  BY <1>20 DEF ApplyGc, Lifecycle, rowVars, fileVars, threadVars
<1>21. ASSUME NEW d \in Digests, GcPurge(d) PROVE CommitInv'
  BY <1>21 DEF GcPurge, rowVars, fileVars, threadVars
<1>22. ASSUME NEW d \in Digests, GcMarkDeleted(d) PROVE CommitInv'
  BY <1>22 DEF GcMarkDeleted, Lifecycle, rowVars, fileVars, threadVars
<1>23. CASE PlanReconciliation
  BY <1>23 DEF PlanReconciliation, PlanMade, rowVars, fileVars, threadVars
<1>24. CASE ValidatePlan
  BY <1>24 DEF ValidatePlan, rowVars, fileVars, threadVars
<1>25. ASSUME NEW d \in Digests, DeleteOrphan(d) PROVE CommitInv'
  BY <1>25 DEF DeleteOrphan, rowVars, fileVars, threadVars
<1>26. CASE MarkIssues
  BY <1>26 DEF MarkIssues, rowVars, fileVars, threadVars
<1>27. CASE FinishReconciliation
  BY <1>27 DEF FinishReconciliation, rowVars, fileVars, threadVars
<1>28. ASSUME NEW d \in Digests, NEW how \in {"absent", "corrupt"}, DamageBody(d, how) PROVE CommitInv'
  BY <1>28 DEF DamageBody, ArtifactFault, rowVars, fileVars, threadVars
<1>29. CASE CrashArtifacts
  BY <1>29 DEF CrashArtifacts, ArtifactFault, AtRest, rowVars, fileVars, threadVars
<1>30. CASE UNCHANGED artVars
  BY <1>30 DEF artVars, rowVars, fileVars, threadVars
<1> HIDE DEF ArtInv, ArtifactsTypeOK, ThreadTypes, Available, CommitInv
<1> QED
  BY <1>1, <1>2, <1>3, <1>4, <1>5, <1>6, <1>7, <1>8, <1>9, <1>10, <1>11, <1>12, <1>13, <1>14, <1>15,
     <1>16, <1>17, <1>18, <1>19, <1>20, <1>21, <1>22, <1>23, <1>24, <1>25, <1>26, <1>27, <1>28, <1>29,
     <1>30 DEF ArtifactsNext

\* The upload of an artifact stays over, and made one artifact.
LEMMA OriginsKept == ArtInv /\ [ArtifactsNext]_artVars => (OriginInv /\ OneArtifactPerUpload)'
<1> SUFFICES ASSUME ArtInv, [ArtifactsNext]_artVars PROVE (OriginInv /\ OneArtifactPerUpload)'
  OBVIOUS
<1> USE ArtifactsAssumption DEF ArtInv, ArtifactsTypeOK, ThreadTypes, Available
<1> USE DEF OriginInv, OneArtifactPerUpload, Lifecycles
<1>1. ASSUME NEW u \in Uploads, NEW S \in SUBSET Arts, OpenUpload(u, S) PROVE (OriginInv /\ OneArtifactPerUpload)'
  BY <1>1 DEF OpenUpload, Available, rowVars, fileVars, threadVars
<1>2. ASSUME NEW u \in Uploads, AppendChunk(u) PROVE (OriginInv /\ OneArtifactPerUpload)'
  <2>1. UNCHANGED <<artifact, purging, recPlan>>
    BY <1>2 DEF AppendChunk, threadVars
  <2>2. \A v \in Uploads : upload'[v].state = upload[v].state
    <3>1. UNCHANGED upload \/ upload' = [upload EXCEPT ![u].offset = upload[u].offset + 1]
      BY <1>2 DEF AppendChunk
    <3>2. upload \in [Uploads -> ArtUploads]
      BY ArtTypesAre DEF ArtTyped, RowsTyped
    <3> HIDE DEF ArtInv, ArtifactsTypeOK, ThreadTypes
    <3>3. CASE UNCHANGED upload
      BY <3>3
    <3>4. CASE upload' = [upload EXCEPT ![u].offset = upload[u].offset + 1]
      <4>1. PICK w : w = [upload[u] EXCEPT !.offset = upload[u].offset + 1]
        OBVIOUS
      <4>2. w.state = upload[u].state
        BY <4>1, <3>2 DEF ArtUploads
      <4>3. upload' = [upload EXCEPT ![u] = w]
        BY <4>1, <3>4
      <4> QED
        BY <4>2, <4>3, <3>2
    <3> QED
      BY <3>1, <3>3, <3>4
  <2> QED
    BY <2>1, <2>2
<1>3. ASSUME NEW u \in Uploads, AbortUpload(u) PROVE (OriginInv /\ OneArtifactPerUpload)'
  BY <1>3 DEF AbortUpload, rowVars, fileVars, threadVars
<1>4. ASSUME NEW u \in Uploads, UploadExpires(u) PROVE (OriginInv /\ OneArtifactPerUpload)'
  BY <1>4 DEF UploadExpires, ArtifactFault, rowVars, fileVars, threadVars
<1>5. ASSUME NEW u \in Uploads, CommitBegins(u) PROVE (OriginInv /\ OneArtifactPerUpload)'
  BY <1>5 DEF CommitBegins, rowVars, fileVars, threadVars
<1>6. ASSUME NEW u \in Uploads, Publish(u) PROVE (OriginInv /\ OneArtifactPerUpload)'
  BY <1>6 DEF Publish, StoreBody, ExistingMatches, rowVars, fileVars, threadVars
<1>7. ASSUME NEW u \in Uploads, Unstage(u) PROVE (OriginInv /\ OneArtifactPerUpload)'
  BY <1>7 DEF Unstage, rowVars, fileVars, threadVars
<1>8. ASSUME NEW u \in Uploads, ResumeCommit(u) PROVE (OriginInv /\ OneArtifactPerUpload)'
  BY <1>8 DEF ResumeCommit, rowVars, fileVars, threadVars
<1>9. ASSUME NEW u \in Uploads, NEW a \in Arts, Finalize(u, a) PROVE (OriginInv /\ OneArtifactPerUpload)'
  <2>1. /\ upload[u].state = "staging" /\ artifact[a].life = "none" /\ UNCHANGED <<recPlan, purging>>
        /\ artifact' = [artifact EXCEPT ![a] = [life |-> "available", digest |-> DigestOf[u],
                                             sources |-> upload[u].sources, origin |-> u]]
        /\ upload' = [upload EXCEPT ![u].state = "committed", ![u].art = a]
    BY <1>9 DEF Finalize
  <2>2. /\ artifact'[a].origin = u /\ artifact'[a].life = "available"
        /\ \A b \in Arts \ {a} : artifact'[b] = artifact[b]
    BY <2>1
  <2>3. upload'[u].state = "committed" /\ \A v \in Uploads \ {u} : upload'[v] = upload[v]
    BY <2>1
  <2>4. \A b \in Arts : artifact[b].life # "none" => artifact[b].origin # u /\ artifact[b].origin \in Uploads
    BY <2>1
  <2>5. OriginInv'
    BY <2>1, <2>2, <2>3, <2>4
  <2>i. OneArtifactPerUpload
    OBVIOUS
  <2> HIDE DEF ArtInv, ArtifactsTypeOK, ThreadTypes, OriginInv
  <2>6. OneArtifactPerUpload'
    BY <2>2, <2>4, <2>i
  <2> QED
    BY <2>5, <2>6
<1>10. ASSUME NEW u \in Uploads, CommitRefused(u) PROVE (OriginInv /\ OneArtifactPerUpload)'
  BY <1>10 DEF CommitRefused, Unlock, rowVars, fileVars, threadVars
<1>11. ASSUME NEW u \in Uploads, RejectSecretUpload(u) PROVE (OriginInv /\ OneArtifactPerUpload)'
  BY <1>11 DEF RejectSecretUpload, Unlock, ArtifactFault, rowVars, fileVars, threadVars
<1>12. ASSUME NEW n \in Names, NEW a \in Arts, NEW r \in 0..MaxRevision, UpdateReference(n, a, r) PROVE (OriginInv /\ OneArtifactPerUpload)'
  BY <1>12 DEF UpdateReference, Available, rowVars, fileVars, threadVars
<1>13. ASSUME NEW a \in Arts, NEW why \in Keeps, Keep(a, why) PROVE (OriginInv /\ OneArtifactPerUpload)'
  BY <1>13 DEF Keep, rowVars, fileVars, threadVars
<1>14. ASSUME NEW a \in Arts, NEW why \in Keeps, ReleaseKeep(a, why) PROVE (OriginInv /\ OneArtifactPerUpload)'
  BY <1>14 DEF ReleaseKeep, rowVars, fileVars, threadVars
<1>15. ASSUME NEW a \in Arts, BeginRead(a) PROVE (OriginInv /\ OneArtifactPerUpload)'
  BY <1>15 DEF BeginRead, PlanMade, rowVars, fileVars, threadVars
<1>16. CASE ObserveBody
  <2>1. UNCHANGED <<upload, recPlan>> /\ purging'.reading = NoArt
    BY <1>16 DEF ObserveBody
  <2>2. \A b \in Arts : artifact'[b].origin = artifact[b].origin
    BY <1>16 DEF ObserveBody, Lifecycle
  <2>3. \A b \in Arts : (artifact'[b].life # "none") = (artifact[b].life # "none")
    BY <1>16 DEF ObserveBody, Lifecycle
  <2>h. \A b \in Arts : artifact[b].origin \in Uploads
    OBVIOUS
  <2>i. OriginInv /\ OneArtifactPerUpload
    OBVIOUS
  <2> HIDE DEF ArtInv, ArtifactsTypeOK, ThreadTypes
  <2>5. OriginInv'
    <3>1. NoArt \notin Arts
      BY ArtifactsAssumption
    <3> QED
      BY <2>1, <2>2, <2>3, <2>h, <2>i, <3>1
  <2>6. OneArtifactPerUpload'
    BY <2>2, <2>3, <2>i
  <2> QED
    BY <2>5, <2>6
<1>17. ASSUME NEW S \in SUBSET Arts, CheckMembers(S) PROVE (OriginInv /\ OneArtifactPerUpload)'
  BY <1>17 DEF CheckMembers, PlanMade, rowVars, fileVars, threadVars
<1>18. ASSUME NEW c \in Collections, CreateCollection(c) PROVE (OriginInv /\ OneArtifactPerUpload)'
  BY <1>18 DEF CreateCollection, rowVars, fileVars, threadVars
<1>19. CASE PlanGc
  BY <1>19 DEF PlanGc, PlanMade, rowVars, fileVars, threadVars
<1>20. CASE ApplyGc
  BY <1>20 DEF ApplyGc, Lifecycle, rowVars, fileVars, threadVars
<1>21. ASSUME NEW d \in Digests, GcPurge(d) PROVE (OriginInv /\ OneArtifactPerUpload)'
  BY <1>21 DEF GcPurge, rowVars, fileVars, threadVars
<1>22. ASSUME NEW d \in Digests, GcMarkDeleted(d) PROVE (OriginInv /\ OneArtifactPerUpload)'
  BY <1>22 DEF GcMarkDeleted, Lifecycle, rowVars, fileVars, threadVars
<1>23. CASE PlanReconciliation
  <2>1. UNCHANGED <<artifact, upload, purging>>
    BY <1>23 DEF PlanReconciliation, threadVars
  <2>2. recPlan'.issues.missing = Observed("absent") /\ recPlan'.issues.corrupt = Observed("corrupt")
    BY <1>23 DEF PlanReconciliation
  <2>3. \A b \in Arts : b \in recPlan'.issues.missing \cup recPlan'.issues.corrupt => artifact[b].life # "none"
    BY <2>2 DEF Observed
  <2> QED
    BY <2>1, <2>3
<1>24. CASE ValidatePlan
  BY <1>24 DEF ValidatePlan, rowVars, fileVars, threadVars
<1>25. ASSUME NEW d \in Digests, DeleteOrphan(d) PROVE (OriginInv /\ OneArtifactPerUpload)'
  BY <1>25 DEF DeleteOrphan, rowVars, fileVars, threadVars
<1>26. CASE MarkIssues
  <2>1. \A v \in Uploads : upload'[v].state \in {upload[v].state, "aborted"}
    BY <1>26 DEF MarkIssues
  <2>2. \A b \in Arts : artifact'[b].origin = artifact[b].origin
    BY <1>26 DEF MarkIssues
  <2>3. \A b \in Arts : (artifact'[b].life # "none") = (artifact[b].life # "none")
    BY <1>26 DEF MarkIssues
  <2>4. UNCHANGED recPlan /\ purging'.reading = purging.reading
    BY <1>26 DEF MarkIssues
  <2>h. \A b \in Arts : artifact[b].origin \in Uploads
    OBVIOUS
  <2>i. OriginInv /\ OneArtifactPerUpload
    OBVIOUS
  <2> HIDE DEF ArtInv, ArtifactsTypeOK, ThreadTypes
  <2>5. OriginInv'
    BY <2>1, <2>2, <2>3, <2>4, <2>h, <2>i
  <2>6. OneArtifactPerUpload'
    BY <2>2, <2>3, <2>i
  <2> QED
    BY <2>5, <2>6
<1>27. CASE FinishReconciliation
  BY <1>27 DEF FinishReconciliation, rowVars, fileVars, threadVars
<1>28. ASSUME NEW d \in Digests, NEW how \in {"absent", "corrupt"}, DamageBody(d, how) PROVE (OriginInv /\ OneArtifactPerUpload)'
  BY <1>28 DEF DamageBody, ArtifactFault, rowVars, fileVars, threadVars
<1>29. CASE CrashArtifacts
  BY <1>29 DEF CrashArtifacts, ArtifactFault, AtRest, rowVars, fileVars, threadVars
<1>30. CASE UNCHANGED artVars
  BY <1>30 DEF artVars, rowVars, fileVars, threadVars
<1> HIDE DEF ArtInv, ArtifactsTypeOK, ThreadTypes, Available, OriginInv, OneArtifactPerUpload, Lifecycles
<1> QED
  BY <1>1, <1>2, <1>3, <1>4, <1>5, <1>6, <1>7, <1>8, <1>9, <1>10, <1>11, <1>12, <1>13, <1>14, <1>15,
     <1>16, <1>17, <1>18, <1>19, <1>20, <1>21, <1>22, <1>23, <1>24, <1>25, <1>26, <1>27, <1>28, <1>29,
     <1>30 DEF ArtifactsNext

\* An artifact on offer keeps its body.
LEMMA BodiesKept == ArtInv /\ [ArtifactsNext]_artVars => AvailableHasBody'
<1> SUFFICES ASSUME ArtInv, [ArtifactsNext]_artVars PROVE AvailableHasBody'
  OBVIOUS
<1> USE ArtifactsAssumption DEF ArtInv, ArtifactsTypeOK, ThreadTypes, Available
<1> USE DEF CommitInv, AvailableHasBody
<1>1. ASSUME NEW u \in Uploads, NEW S \in SUBSET Arts, OpenUpload(u, S) PROVE AvailableHasBody'
  BY <1>1 DEF OpenUpload, Available, rowVars, fileVars, threadVars
<1>2. ASSUME NEW u \in Uploads, AppendChunk(u) PROVE AvailableHasBody'
  BY <1>2 DEF AppendChunk, ArtifactFault, rowVars, fileVars, threadVars
<1>3. ASSUME NEW u \in Uploads, AbortUpload(u) PROVE AvailableHasBody'
  BY <1>3 DEF AbortUpload, rowVars, fileVars, threadVars
<1>4. ASSUME NEW u \in Uploads, UploadExpires(u) PROVE AvailableHasBody'
  BY <1>4 DEF UploadExpires, ArtifactFault, rowVars, fileVars, threadVars
<1>5. ASSUME NEW u \in Uploads, CommitBegins(u) PROVE AvailableHasBody'
  BY <1>5 DEF CommitBegins, rowVars, fileVars, threadVars
<1>6. ASSUME NEW u \in Uploads, Publish(u) PROVE AvailableHasBody'
  BY <1>6 DEF Publish, StoreBody, ExistingMatches, rowVars, fileVars, threadVars
<1>7. ASSUME NEW u \in Uploads, Unstage(u) PROVE AvailableHasBody'
  BY <1>7 DEF Unstage, rowVars, fileVars, threadVars
<1>8. ASSUME NEW u \in Uploads, ResumeCommit(u) PROVE AvailableHasBody'
  BY <1>8 DEF ResumeCommit, rowVars, fileVars, threadVars
<1>9. ASSUME NEW u \in Uploads, NEW a \in Arts, Finalize(u, a) PROVE AvailableHasBody'
  BY <1>9 DEF Finalize, Unlock, rowVars, fileVars, threadVars
<1>10. ASSUME NEW u \in Uploads, CommitRefused(u) PROVE AvailableHasBody'
  BY <1>10 DEF CommitRefused, Unlock, rowVars, fileVars, threadVars
<1>11. ASSUME NEW u \in Uploads, RejectSecretUpload(u) PROVE AvailableHasBody'
  BY <1>11 DEF RejectSecretUpload, Unlock, ArtifactFault, rowVars, fileVars, threadVars
<1>12. ASSUME NEW n \in Names, NEW a \in Arts, NEW r \in 0..MaxRevision, UpdateReference(n, a, r) PROVE AvailableHasBody'
  BY <1>12 DEF UpdateReference, Available, rowVars, fileVars, threadVars
<1>13. ASSUME NEW a \in Arts, NEW why \in Keeps, Keep(a, why) PROVE AvailableHasBody'
  BY <1>13 DEF Keep, rowVars, fileVars, threadVars
<1>14. ASSUME NEW a \in Arts, NEW why \in Keeps, ReleaseKeep(a, why) PROVE AvailableHasBody'
  BY <1>14 DEF ReleaseKeep, rowVars, fileVars, threadVars
<1>15. ASSUME NEW a \in Arts, BeginRead(a) PROVE AvailableHasBody'
  BY <1>15 DEF BeginRead, PlanMade, rowVars, fileVars, threadVars
<1>16. CASE ObserveBody
  BY <1>16 DEF ObserveBody, Lifecycle, rowVars, fileVars, threadVars
<1>17. ASSUME NEW S \in SUBSET Arts, CheckMembers(S) PROVE AvailableHasBody'
  BY <1>17 DEF CheckMembers, PlanMade, rowVars, fileVars, threadVars
<1>18. ASSUME NEW c \in Collections, CreateCollection(c) PROVE AvailableHasBody'
  BY <1>18 DEF CreateCollection, rowVars, fileVars, threadVars
<1>19. CASE PlanGc
  BY <1>19 DEF PlanGc, PlanMade, rowVars, fileVars, threadVars
<1>20. CASE ApplyGc
  BY <1>20 DEF ApplyGc, Lifecycle, rowVars, fileVars, threadVars
<1>21. ASSUME NEW d \in Digests, GcPurge(d) PROVE AvailableHasBody'
  <2>1. UNCHANGED <<artifact, damaged>>
    BY <1>21 DEF GcPurge, rowVars
  <2>2. UNCHANGED body \/ (~LiveBody(d) /\ body' = [body EXCEPT ![d] = "absent"])
    BY <1>21 DEF GcPurge
  <2> QED
    BY <2>1, <2>2 DEF LiveBody
<1>22. ASSUME NEW d \in Digests, GcMarkDeleted(d) PROVE AvailableHasBody'
  BY <1>22 DEF GcMarkDeleted, Lifecycle, rowVars, fileVars, threadVars
<1>23. CASE PlanReconciliation
  BY <1>23 DEF PlanReconciliation, PlanMade, rowVars, fileVars, threadVars
<1>24. CASE ValidatePlan
  BY <1>24 DEF ValidatePlan, rowVars, fileVars, threadVars
<1>25. ASSUME NEW d \in Digests, DeleteOrphan(d) PROVE AvailableHasBody'
  <2>1. UNCHANGED <<artifact, damaged>>
    BY <1>25 DEF DeleteOrphan, rowVars
  <2>2. UNCHANGED body \/ (~LiveBody(d) /\ body' = [body EXCEPT ![d] = "absent"])
    BY <1>25 DEF DeleteOrphan
  <2> QED
    BY <2>1, <2>2 DEF LiveBody
<1>26. CASE MarkIssues
  BY <1>26 DEF MarkIssues, rowVars, fileVars, threadVars
<1>27. CASE FinishReconciliation
  BY <1>27 DEF FinishReconciliation, rowVars, fileVars, threadVars
<1>28. ASSUME NEW d \in Digests, NEW how \in {"absent", "corrupt"}, DamageBody(d, how) PROVE AvailableHasBody'
  BY <1>28 DEF DamageBody, ArtifactFault, rowVars, fileVars, threadVars
<1>29. CASE CrashArtifacts
  BY <1>29 DEF CrashArtifacts, ArtifactFault, AtRest, rowVars, fileVars, threadVars
<1>30. CASE UNCHANGED artVars
  BY <1>30 DEF artVars, rowVars, fileVars, threadVars
<1> HIDE DEF ArtInv, ArtifactsTypeOK, ThreadTypes, Available, CommitInv, AvailableHasBody
<1> QED
  BY <1>1, <1>2, <1>3, <1>4, <1>5, <1>6, <1>7, <1>8, <1>9, <1>10, <1>11, <1>12, <1>13, <1>14, <1>15,
     <1>16, <1>17, <1>18, <1>19, <1>20, <1>21, <1>22, <1>23, <1>24, <1>25, <1>26, <1>27, <1>28, <1>29,
     <1>30 DEF ArtifactsNext

\* A working reference keeps a live target.
LEMMA TargetsKept == ArtInv /\ [ArtifactsNext]_artVars => ReferencesLive'
<1> SUFFICES ASSUME ArtInv, [ArtifactsNext]_artVars PROVE ReferencesLive'
  OBVIOUS
<1> USE ArtifactsAssumption DEF ArtInv, ArtifactsTypeOK, ThreadTypes, Available
<1> USE DEF ReferencesLive
<1>1. ASSUME NEW u \in Uploads, NEW S \in SUBSET Arts, OpenUpload(u, S) PROVE ReferencesLive'
  BY <1>1 DEF OpenUpload, Available, rowVars, fileVars, threadVars
<1>2. ASSUME NEW u \in Uploads, AppendChunk(u) PROVE ReferencesLive'
  BY <1>2 DEF AppendChunk, ArtifactFault, rowVars, fileVars, threadVars
<1>3. ASSUME NEW u \in Uploads, AbortUpload(u) PROVE ReferencesLive'
  BY <1>3 DEF AbortUpload, rowVars, fileVars, threadVars
<1>4. ASSUME NEW u \in Uploads, UploadExpires(u) PROVE ReferencesLive'
  BY <1>4 DEF UploadExpires, ArtifactFault, rowVars, fileVars, threadVars
<1>5. ASSUME NEW u \in Uploads, CommitBegins(u) PROVE ReferencesLive'
  BY <1>5 DEF CommitBegins, rowVars, fileVars, threadVars
<1>6. ASSUME NEW u \in Uploads, Publish(u) PROVE ReferencesLive'
  BY <1>6 DEF Publish, StoreBody, ExistingMatches, rowVars, fileVars, threadVars
<1>7. ASSUME NEW u \in Uploads, Unstage(u) PROVE ReferencesLive'
  BY <1>7 DEF Unstage, rowVars, fileVars, threadVars
<1>8. ASSUME NEW u \in Uploads, ResumeCommit(u) PROVE ReferencesLive'
  BY <1>8 DEF ResumeCommit, rowVars, fileVars, threadVars
<1>9. ASSUME NEW u \in Uploads, NEW a \in Arts, Finalize(u, a) PROVE ReferencesLive'
  BY <1>9 DEF Finalize, Unlock, rowVars, fileVars, threadVars
<1>10. ASSUME NEW u \in Uploads, CommitRefused(u) PROVE ReferencesLive'
  BY <1>10 DEF CommitRefused, Unlock, rowVars, fileVars, threadVars
<1>11. ASSUME NEW u \in Uploads, RejectSecretUpload(u) PROVE ReferencesLive'
  BY <1>11 DEF RejectSecretUpload, Unlock, ArtifactFault, rowVars, fileVars, threadVars
<1>12. ASSUME NEW n \in Names, NEW a \in Arts, NEW r \in 0..MaxRevision, UpdateReference(n, a, r) PROVE ReferencesLive'
  BY <1>12 DEF UpdateReference, Available, rowVars, fileVars, threadVars
<1>13. ASSUME NEW a \in Arts, NEW why \in Keeps, Keep(a, why) PROVE ReferencesLive'
  BY <1>13 DEF Keep, rowVars, fileVars, threadVars
<1>14. ASSUME NEW a \in Arts, NEW why \in Keeps, ReleaseKeep(a, why) PROVE ReferencesLive'
  BY <1>14 DEF ReleaseKeep, rowVars, fileVars, threadVars
<1>15. ASSUME NEW a \in Arts, BeginRead(a) PROVE ReferencesLive'
  BY <1>15 DEF BeginRead, PlanMade, rowVars, fileVars, threadVars
<1>16. CASE ObserveBody
  BY <1>16 DEF ObserveBody, Lifecycle, rowVars, fileVars, threadVars
<1>17. ASSUME NEW S \in SUBSET Arts, CheckMembers(S) PROVE ReferencesLive'
  BY <1>17 DEF CheckMembers, PlanMade, rowVars, fileVars, threadVars
<1>18. ASSUME NEW c \in Collections, CreateCollection(c) PROVE ReferencesLive'
  BY <1>18 DEF CreateCollection, rowVars, fileVars, threadVars
<1>19. CASE PlanGc
  BY <1>19 DEF PlanGc, PlanMade, rowVars, fileVars, threadVars
<1>20. CASE ApplyGc
  <2>1. \A m \in Names : workRef[m].target # NoArt => workRef[m].target \in RootedIds
    BY RootsRooted DEF DirectRoots
  <2>2. UNCHANGED workRef /\ gcPlan.candidates \cap RootedIds = {}
        /\ artifact' = Lifecycle(gcPlan.candidates \cap Available, "tombstoned")
    BY <1>20 DEF ApplyGc, StillUnrooted
  <2>3. \A m \in Names : workRef[m].target # NoArt => artifact'[workRef[m].target] = artifact[workRef[m].target]
    BY <2>1, <2>2 DEF Lifecycle
  <2> QED
    BY <2>2, <2>3
<1>21. ASSUME NEW d \in Digests, GcPurge(d) PROVE ReferencesLive'
  BY <1>21 DEF GcPurge, rowVars, fileVars, threadVars
<1>22. ASSUME NEW d \in Digests, GcMarkDeleted(d) PROVE ReferencesLive'
  BY <1>22 DEF GcMarkDeleted, Lifecycle, rowVars, fileVars, threadVars
<1>23. CASE PlanReconciliation
  BY <1>23 DEF PlanReconciliation, PlanMade, rowVars, fileVars, threadVars
<1>24. CASE ValidatePlan
  BY <1>24 DEF ValidatePlan, rowVars, fileVars, threadVars
<1>25. ASSUME NEW d \in Digests, DeleteOrphan(d) PROVE ReferencesLive'
  BY <1>25 DEF DeleteOrphan, rowVars, fileVars, threadVars
<1>26. CASE MarkIssues
  BY <1>26 DEF MarkIssues, rowVars, fileVars, threadVars
<1>27. CASE FinishReconciliation
  BY <1>27 DEF FinishReconciliation, rowVars, fileVars, threadVars
<1>28. ASSUME NEW d \in Digests, NEW how \in {"absent", "corrupt"}, DamageBody(d, how) PROVE ReferencesLive'
  BY <1>28 DEF DamageBody, ArtifactFault, rowVars, fileVars, threadVars
<1>29. CASE CrashArtifacts
  BY <1>29 DEF CrashArtifacts, ArtifactFault, AtRest, rowVars, fileVars, threadVars
<1>30. CASE UNCHANGED artVars
  BY <1>30 DEF artVars, rowVars, fileVars, threadVars
<1> HIDE DEF ArtInv, ArtifactsTypeOK, ThreadTypes, Available, ReferencesLive
<1> QED
  BY <1>1, <1>2, <1>3, <1>4, <1>5, <1>6, <1>7, <1>8, <1>9, <1>10, <1>11, <1>12, <1>13, <1>14, <1>15,
     <1>16, <1>17, <1>18, <1>19, <1>20, <1>21, <1>22, <1>23, <1>24, <1>25, <1>26, <1>27, <1>28, <1>29,
     <1>30 DEF ArtifactsNext

\* The invariant of the artifacts.
LEMMA ArtifactsInvariant == ArtifactsSpec => []ArtInv
<1>1. ArtifactsInit => ArtInv
  <2> SUFFICES ASSUME ArtifactsInit PROVE ArtInv
    OBVIOUS
  <2>1. PICK d0 \in Digests, u0 \in Uploads :
          artifact = [a \in Arts |-> [life |-> "none", digest |-> d0, sources |-> {}, origin |-> u0]]
    <3>1. \E d \in Digests : TRUE
      BY ArtifactsAssumption
    <3>2. (CHOOSE d \in Digests : TRUE) \in Digests
      BY <3>1
    <3>3. (CHOOSE u \in Uploads : TRUE) \in Uploads
      BY ArtifactsAssumption
    <3> QED
      BY <3>2, <3>3 DEF ArtifactsInit
  <2>2. 0 \in 0..Chunks /\ 0 \in 0..MaxRevision /\ 0 \in 0..MaxPlans /\ 0 \in 0..MaxFaults
    BY ArtifactsAssumption
  <2>3. RowsTyped
    <3>1. artifact \in [Arts -> ArtRows]
      BY <2>1 DEF ArtRows, Lifecycles
    <3>2. upload \in [Uploads -> ArtUploads] /\ workRef \in [Names -> RefRows]
      BY <2>2 DEF ArtifactsInit, ArtUploads, RefRows
    <3>3. gcPlan \in GcPlans /\ recPlan \in RecPlans
      BY DEF ArtifactsInit, GcPlans, RecPlans, Issues, NoIssues
    <3> QED
      BY <3>1, <3>2, <3>3 DEF ArtifactsInit, RowsTyped
  <2>4. FilesTyped
    BY <2>2 DEF ArtifactsInit, FilesTyped, StagedFiles
  <2>5. ThreadsTyped
    BY <2>2, SweepUpdates DEF ArtifactsInit, ThreadsTyped, Budgets
  <2>6. ArtifactsTypeOK /\ ThreadTypes
    BY <2>3, <2>4, <2>5, ArtTypesAre DEF ArtTyped
  <2>7. CommitInv /\ OriginInv
    BY <2>1, ArtifactsAssumption DEF ArtifactsInit, CommitInv, OriginInv, AtRest, NoIssues
  <2>8. AvailableHasBody /\ OneArtifactPerUpload /\ ReferencesLive
    BY <2>1 DEF ArtifactsInit, AvailableHasBody, OneArtifactPerUpload, ReferencesLive, Available
  <2> QED
    BY <2>6, <2>7, <2>8 DEF ArtInv
<1>2. ArtInv /\ [ArtifactsNext]_artVars => ArtInv'
  <2> SUFFICES ASSUME ArtInv, [ArtifactsNext]_artVars PROVE ArtInv'
    OBVIOUS
  <2>1. ArtTyped'
    BY ArtTypesKept
  <2>2. ArtifactsTypeOK' /\ ThreadTypes'
    BY <2>1, ArtTypesAre, PTL
  <2> QED
    BY <2>2, CommitsKept, OriginsKept, BodiesKept, TargetsKept DEF ArtInv
<1> QED
  BY <1>1, <1>2, PTL DEF ArtifactsSpec

\* What publication, garbage collection, reconciliation and crashes may never do to each
\* other: rows and bodies agree, an upload makes one artifact, and nothing is collected
\* that is referenced or that something retained was derived from (artifacts/service.py).
THEOREM ArtifactsStayKept == ArtifactsSpec => ArtifactsKept
<1>1. ArtInv => ArtifactsTypeOK /\ AvailableHasBody /\ OneArtifactPerUpload /\ ReferencesLive
  BY DEF ArtInv
<1> DEFINE Derivation == \A a, b \in Arts :
             /\ artifact[a].life = "available" /\ artifact'[a].life = "tombstoned"
             /\ artifact[b].life = "available" /\ a \in artifact[b].sources
             => kept[b] = {} /\ \A n \in Names : workRef[n].target # b
<1>2. ArtInv /\ [ArtifactsNext]_artVars => [Derivation]_artVars
  <2> SUFFICES ASSUME ArtInv, ArtifactsNext, NEW a \in Arts, NEW b \in Arts,
                      artifact[a].life = "available", artifact'[a].life = "tombstoned", a \in artifact[b].sources
               PROVE  kept[b] = {} /\ \A n \in Names : workRef[n].target # b
    OBVIOUS
  <2>1. CASE ApplyGc
    <3>1. a \in gcPlan.candidates /\ gcPlan.candidates \cap RootedIds = {}
      BY <2>1 DEF ApplyGc, StillUnrooted, Lifecycle
    <3>2. b \notin DirectRoots
      BY <3>1, RootsRooted, SourcesRooted
    <3> QED
      BY <3>2 DEF DirectRoots
  <2>2. CASE ~ApplyGc
    <3>1. UNCHANGED artifact \/ artifact'[a].life # "tombstoned"
      <4>1. ArtifactsTypeOK
        BY DEF ArtInv
      <4>2. ASSUME NEW u \in Uploads, NEW c \in Arts, Finalize(u, c) PROVE artifact'[a].life # "tombstoned"
        BY <4>1, <4>2 DEF Finalize, ArtifactsTypeOK
      <4>3. CASE ObserveBody
        BY <4>3 DEF ObserveBody, Lifecycle
      <4>4. ASSUME NEW d \in Digests, GcMarkDeleted(d) PROVE artifact'[a].life # "tombstoned"
        BY <4>1, <4>4 DEF GcMarkDeleted, Lifecycle
      <4>5. CASE MarkIssues
        BY <4>1, <4>5 DEF MarkIssues, ArtifactsTypeOK
      <4>6. \/ UNCHANGED artifact \/ ObserveBody \/ MarkIssues
            \/ \E u \in Uploads, c \in Arts : Finalize(u, c)
            \/ \E d \in Digests : GcMarkDeleted(d)
        BY <2>2 DEF ArtifactsNext, OpenUpload, AppendChunk, AbortUpload, UploadExpires, CommitBegins, Publish, Unstage,
             ResumeCommit, CommitRefused, RejectSecretUpload, UpdateReference, Keep, ReleaseKeep, BeginRead,
             CheckMembers, CreateCollection, PlanGc, GcPurge, PlanReconciliation, ValidatePlan, DeleteOrphan,
             FinishReconciliation, DamageBody, CrashArtifacts, rowVars
      <4> QED
        BY <4>2, <4>3, <4>4, <4>5, <4>6
    <3> QED
      BY <3>1
  <2> QED
    BY <2>1, <2>2
<1>3. ArtifactsSpec => [][ArtifactsNext]_artVars
  BY DEF ArtifactsSpec
<1> QED
  BY <1>1, <1>2, <1>3, ArtifactsInvariant, PTL DEF ArtifactsKept, DerivationKept
=============================================================================
