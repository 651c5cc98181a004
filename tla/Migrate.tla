------------------------------- MODULE Migrate -------------------------------
(***************************************************************************)
(* MigrateUp of the three stores, run by every replica of the server when  *)
(* it starts, against one database.  A migration file is a sequence of     *)
(* statements.  SQLite and Postgres run a file and record its version in   *)
(* one transaction; MySQL, whose DDL commits by itself, runs statement     *)
(* after statement and records the version last.                           *)
(*                                                                         *)
(* The catalogue maps the tables, keys and triggers the files speak of to  *)
(* their definitions.  Rows are left out except for the one fact a file    *)
(* depends on: whether some junction row crosses domains.                  *)
(***************************************************************************)
EXTENDS Naturals, Sequences

CONSTANTS
    Replicas,           \* processes that share the database
    Drivers,            \* DATABASE_DRIVER, among AllDrivers
    Files(_),           \* driver -> versions of its *.up.sql files
    Body(_, _),         \* driver, version -> statements of the file
    KeysOff(_, _),      \* driver, version -> the file says PRAGMA foreign_keys = OFF
    Produced(_, _),     \* driver, version -> the catalogue files up to it produce
    Attempts(_),        \* version -> <<next statement, catalogue>> of attempts at its MySQL file
    Names,              \* tables, keys and triggers
    Absent,             \* the catalogue has no definition of the name
    CompositeKeys       \* the definition of the keys that refuse rows across domains

AllDrivers == {"sqlite", "postgres", "mysql"}

\* The release before the composite keys: the schema of its last file.
OldRelease == 2

VARIABLES
    driver,         \* cfg.DatabaseDriver, the same in every replica
    versions,       \* rows of schema_migrations
    catalogue,      \* committed definitions
    crossRows,      \* some junction row crosses domains
    mig,            \* replica -> how far its MigrateUp is
    foreignKeys     \* replica -> its connection enforces foreign keys (SQLite), and the
                    \* files after which turning them on failed

database == <<driver, versions, catalogue, crossRows>>

----------------------------------------------------------------------------
(* Statements.  drop are the names a statement drops, make the definitions *)
(* it adds; check says that it is refused while rows cross domains: the    *)
(* pre-check of migration 3, and the composite keys.                       *)

Accepts(s, cat, cross) ==
    /\ \A n \in s.drop : cat[n] # Absent
    /\ \A n \in (DOMAIN s.make) \ s.drop : cat[n] = Absent
    /\ s.check => ~ cross

Effect(s, cat) ==
    [n \in Names |-> IF n \in DOMAIN s.make THEN s.make[n]
                     ELSE IF n \in s.drop THEN Absent ELSE cat[n]]

\* tx.Exec(body): the catalogue after every statement in turn, or none if one
\* of them is refused.
RunBody(stmts, cat, cross) ==
    LET after[k \in 0..Len(stmts)] ==
            IF k = 0 THEN {cat}
            ELSE { Effect(stmts[k], c) :
                     c \in { b \in after[k - 1] : Accepts(stmts[k], b, cross) } }
    IN after[Len(stmts)]

\* The largest file version that is at most v.
FileAt(d, v) == CHOOSE w \in Files(d) \cup {0} :
                    w <= v /\ \A x \in Files(d) : x <= v => x <= w

ASSUME FilesAssumption ==
    /\ Drivers \subseteq AllDrivers
    /\ \A d \in Drivers : Files(d) \subseteq Nat \ {0} /\ OldRelease \in Files(d)
    /\ \A d \in Drivers : \A v \in Files(d), cross \in BOOLEAN :
          RunBody(Body(d, v), Produced(d, FileAt(d, v - 1)), cross) \subseteq {Produced(d, v)}

\* A MySQL file that broke off is run again from its first statement, on what
\* the attempts before left: it is refused, or it ends in its own catalogue.
ASSUME AttemptsAssumption ==
    "mysql" \in Drivers => \A v \in Files("mysql") :
        /\ <<1, Produced("mysql", FileAt("mysql", v - 1))>> \in Attempts(v)
        /\ \A a \in Attempts(v) :
              LET s == Body("mysql", v)[a[1]] IN
              /\ <<1, a[2]>> \in Attempts(v)
              /\ a[1] <= Len(Body("mysql", v)) /\ Accepts(s, a[2], FALSE) =>
                    <<a[1] + 1, Effect(s, a[2])>> \in Attempts(v)
              /\ a[1] > Len(Body("mysql", v)) => a[2] = Produced("mysql", v)

----------------------------------------------------------------------------
(* One replica's MigrateUp.  *)

\* The versions loop: the files after v, and whether v is the next one.
After(v) == { w \in Files(driver) : w > v }
IsNext(w, v) == w \in After(v) /\ \A x \in After(v) : w <= x

\* SELECT COALESCE(MAX(version), 0)
Version == CHOOSE v \in versions \cup {0} : \A w \in versions : w <= v

\* No file is being applied: stmt is the statement MySQL runs next, work holds
\* the catalogue inside a transaction.
NoMigration == [pc |-> "off", file |-> 0, stmt |-> 1, work |-> {}]

\* Continue with the first file after v, or return nil.
Continue(p, v) ==
    \/ /\ After(v) = {}
       /\ mig' = [mig EXCEPT ![p] = [NoMigration EXCEPT !.pc = "done"]]
    \/ \E w \in After(v) :
         /\ IsNext(w, v)
         /\ mig' = [mig EXCEPT ![p] = [NoMigration EXCEPT !.pc = "apply", !.file = w]]

\* An error return.  A transaction is rolled back; in MySQL the statements
\* that ran stay.
ReturnErr(p) ==
    mig' = [mig EXCEPT ![p] = [NoMigration EXCEPT !.pc = "failed"]]

\* A new connection: foreign keys are on or not, and no file has run on it.
Connection(on) == [on |-> on, failed |-> {}]

\* applyMigration turned the keys off, if the file says so, and the deferred
\* PRAGMA foreign_keys=ON turns them on.  Its error is thrown away: they are
\* as before, and applyMigration returns what it would have returned.
RestoreKeys(p, off) ==
    \/ foreignKeys' = [foreignKeys EXCEPT ![p].on = TRUE]
    \/ /\ driver = "sqlite"
       /\ foreignKeys' = [foreignKeys EXCEPT ![p].on = @ /\ ~ off,
                                             ![p].failed = @ \cup {mig[p].file}]

\* CREATE TABLE IF NOT EXISTS schema_migrations, and the version in it.
ReadVersion_FromStart(p) ==
    /\ mig[p].pc = "read"
    /\ Continue(p, 0)
    /\ UNCHANGED <<database, foreignKeys>>
ReadVersion(p) ==
    /\ mig[p].pc = "read"
    /\ Continue(p, Version)
    /\ UNCHANGED <<database, foreignKeys>>

\* A replica whose transaction holds the locks of the tables it altered.
InTransaction(p) == mig[p].pc \in {"record", "commit"} /\ driver # "mysql"

\* applyMigration of SQLite and Postgres: PRAGMA foreign_keys = OFF where the
\* file says so, Begin, and the body, which waits for the locks of others.
ExecBody(p) ==
    LET v == mig[p].file
        result == RunBody(Body(driver, v), catalogue, crossRows)
    IN
    /\ mig[p].pc = "apply" /\ driver # "mysql"
    /\ \A q \in Replicas : ~ InTransaction(q)
    /\ \/ /\ result = {}
          /\ ReturnErr(p)
          /\ RestoreKeys(p, KeysOff(driver, v))
       \/ /\ result # {}
          /\ mig' = [mig EXCEPT ![p].pc = "record", ![p].work = result]
          /\ foreignKeys' = [foreignKeys EXCEPT ![p].on = @ /\ ~ KeysOff(driver, v)]
    /\ UNCHANGED database

\* INSERT INTO schema_migrations, whose primary key refuses a version twice.
RecordVersion_NoKey(p) ==
    /\ InTransaction(p) /\ mig[p].pc = "record"
    /\ mig' = [mig EXCEPT ![p].pc = "commit"]
    /\ UNCHANGED <<database, foreignKeys>>
RecordVersion(p) ==
    /\ InTransaction(p) /\ mig[p].pc = "record"
    /\ \/ /\ mig[p].file \in versions
          /\ ReturnErr(p)
          /\ RestoreKeys(p, FALSE)
       \/ /\ mig[p].file \notin versions
          /\ mig' = [mig EXCEPT ![p].pc = "commit"]
          /\ UNCHANGED foreignKeys
    /\ UNCHANGED database

\* The PRAGMA is deferred only for a file that turned the keys off.
Commit_RestoresOwn(p) ==
    /\ InTransaction(p) /\ mig[p].pc = "commit"
    /\ \E cat \in mig[p].work : catalogue' = cat
    /\ versions' = versions \cup {mig[p].file}
    /\ IF KeysOff(driver, mig[p].file) THEN RestoreKeys(p, FALSE) ELSE UNCHANGED foreignKeys
    /\ Continue(p, mig[p].file)
    /\ UNCHANGED <<driver, crossRows>>
\* tx.Commit, and the deferred PRAGMA.
Commit(p) ==
    /\ InTransaction(p) /\ mig[p].pc = "commit"
    /\ \E cat \in mig[p].work : catalogue' = cat
    /\ versions' = versions \cup {mig[p].file}
    /\ RestoreKeys(p, FALSE)
    /\ Continue(p, mig[p].file)
    /\ UNCHANGED <<driver, crossRows>>

\* applyMigration of MySQL: the next statement of the file, which commits by
\* itself, or its error.
ExecStatement(p) ==
    LET stmts == Body(driver, mig[p].file)
        s == stmts[mig[p].stmt]
    IN
    /\ mig[p].pc = "apply" /\ driver = "mysql"
    /\ mig[p].stmt <= Len(stmts)
    /\ \/ ~ Accepts(s, catalogue, crossRows) /\ ReturnErr(p) /\ UNCHANGED catalogue
       \/ /\ Accepts(s, catalogue, crossRows)
          /\ catalogue' = Effect(s, catalogue)
          /\ mig' = [mig EXCEPT ![p].stmt = @ + 1]
    /\ UNCHANGED <<driver, versions, crossRows, foreignKeys>>

\* MySQL: INSERT INTO schema_migrations after the last statement.
RecordApplied_Index(p) ==
    /\ mig[p].pc = "apply" /\ driver = "mysql"
    /\ mig[p].stmt > Len(Body(driver, mig[p].file))
    /\ \/ mig[p].file \in versions /\ ReturnErr(p) /\ UNCHANGED versions
       \/ /\ mig[p].file \notin versions
          /\ versions' = versions \cup {mig[p].stmt}
          /\ Continue(p, mig[p].file)
    /\ UNCHANGED <<driver, catalogue, crossRows, foreignKeys>>
RecordApplied(p) ==
    /\ mig[p].pc = "apply" /\ driver = "mysql"
    /\ mig[p].stmt > Len(Body(driver, mig[p].file))
    /\ \/ mig[p].file \in versions /\ ReturnErr(p) /\ UNCHANGED versions
       \/ /\ mig[p].file \notin versions
          /\ versions' = versions \cup {mig[p].file}
          /\ Continue(p, mig[p].file)
    /\ UNCHANGED <<driver, catalogue, crossRows, foreignKeys>>

\* MigrateUp goes on.
MigrateStep(p) ==
    \/ ReadVersion(p)
    \/ ExecBody(p) \/ RecordVersion(p) \/ Commit(p)
    \/ ExecStatement(p) \/ RecordApplied(p)

----------------------------------------------------------------------------
(* Others who use the database.  *)

\* The operator removes the rows the audit query of migration 3 finds.
CleanUp ==
    /\ crossRows
    /\ crossRows' = FALSE
    /\ UNCHANGED <<driver, versions, catalogue, mig, foreignKeys>>

\* A replica of the old release, which a rolling update has not stopped yet,
\* writes a junction row that crosses domains; nothing but the composite keys
\* refuses it, and the row waits for a migration's locks.
OldReleaseWrites ==
    /\ ~ crossRows
    /\ OldRelease \in versions /\ \A n \in Names : catalogue[n] # CompositeKeys
    /\ \A p \in Replicas : ~ InTransaction(p)
    /\ crossRows' = TRUE
    /\ UNCHANGED <<driver, versions, catalogue, mig, foreignKeys>>

\* A new database, or one that the old release left.
MigrateInit ==
    /\ driver \in Drivers
    /\ \E v \in {0, OldRelease} :
         /\ versions = { w \in Files(driver) : w <= v }
         /\ catalogue = Produced(driver, v)
         /\ crossRows \in {FALSE, v = OldRelease}
    /\ mig = [p \in Replicas |-> NoMigration]
    /\ foreignKeys = [p \in Replicas |-> Connection(TRUE)]

=============================================================================
