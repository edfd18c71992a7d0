---------------------------- MODULE SchemaUpgrade ----------------------------
(***************************************************************************)
(* The migration runner (internal/migrate): it refuses a set that has      *)
(* drifted, backs the database up table by table, verifies the backup,     *)
(* sends the pending migrations statement by statement, each followed by   *)
(* its record in schema_migrations, and on a failure drops every table and *)
(* rebuilds the database from the dump. MariaDB commits each statement of  *)
(* DDL by itself. While a run goes on a desk posts rows, the               *)
(* dump is damaged on its disk, a statement fails, the run is killed; then *)
(* somebody runs it again.                                                 *)
(***************************************************************************)
EXTENDS Integers, Sequences, FiniteSets

CONSTANTS
    Scripts,          \* each migration's statements: "table" or "convert"
    Rows,             \* the rows the desk may post to the one business table
    MaxTroubles       \* bound on failures, damage, edits and kills

ASSUME ScriptsAssumption == Scripts \in Seq(Seq({"table", "convert"}))

VARIABLES
    present,          \* the tables the database has
    books,            \* the business table: rows, with the migrations that rewrote each
    records,          \* schema_migrations: version and checksum
    armed,         \* whether the triggers on the business table are installed
    files,            \* the migration files: the checksum each has now
    step,             \* where the run is
    todo,             \* versions pending, lowest first
    sent,             \* statements of the first of them already sent
    dump,             \* this run's backup directory
    scarred,          \* a run was cut off while it changed the database
    kept,             \* rows posted while no run was going on
    shelved,          \* rows in the backups of earlier runs
    troubles

stored == <<present, books, records, armed>>
ghosts == <<scarred, kept, shelved>>
upgradeVars == <<stored, files, step, todo, sent, dump, ghosts, troubles>>

Versions == 1..Len(Scripts)

\* A table is known by the migration and the statement that creates it; the
\* business table and schema_migrations are older than the set.
Business == <<0, 1>>
Bookkeeping == <<0, 2>>
TablesOf(v) == {<<v, k>> : k \in {j \in DOMAIN Scripts[v] : Scripts[v][j] = "table"}}
Ids(rows) == {r.id : r \in rows}

NoDump == [tables |-> {}, books |-> {}, records |-> {}, whole |-> FALSE]

Ended == {"idle", "drifted", "nothing", "unusable", "migrated", "restored", "partway"}
Changing == {"apply", "record", "restore", "drop", "rebuild", "load", "check"}
UpgradeSteps == Ended \cup Changing \cup {"read", "schema", "data", "bookkeeping", "verify"}

Trouble == troubles < MaxTroubles /\ troubles' = troubles + 1

-----------------------------------------------------------------------------
(* Bookkeeping, drift and what is pending.                                 *)

\* CREATE TABLE IF NOT EXISTS schema_migrations.
Begin ==
    /\ step \in Ended
    /\ step' = "read"
    /\ present' = present \cup {Bookkeeping}
    /\ shelved' = IF dump.whole THEN shelved \cup Ids(dump.books) ELSE shelved
    /\ dump' = NoDump
    /\ UNCHANGED <<books, records, armed, files, todo, sent, scarred, kept, troubles>>

Drifted == \E r \in records : r.checksum # files[r.version]
Pending == {v \in Versions : \A r \in records : r.version # v}

ReadRecords ==
    /\ step = "read"
    /\ step' = IF Drifted THEN "drifted" ELSE IF Pending = {} THEN "nothing" ELSE "schema"
    /\ todo' = IF Drifted THEN {} ELSE Pending
    /\ sent' = 0
    /\ UNCHANGED <<stored, files, dump, ghosts, troubles>>

-----------------------------------------------------------------------------
(* Backup: the list of tables and their definitions first, then the rows   *)
(* of one table after another, each read by itself.                        *)

DumpSchema ==
    /\ step = "schema"
    /\ dump' = [dump EXCEPT !.tables = present]
    /\ step' = "data"
    /\ UNCHANGED <<stored, files, todo, sent, ghosts, troubles>>

DumpBooks ==
    /\ step = "data"
    /\ dump' = [dump EXCEPT !.books = books]
    /\ step' = "bookkeeping"
    /\ UNCHANGED <<stored, files, todo, sent, ghosts, troubles>>

\* The last table, then data.sql's checksum and the manifest.
FinishDump ==
    /\ step = "bookkeeping"
    /\ dump' = [dump EXCEPT !.records = records, !.whole = TRUE]
    /\ step' = "verify"
    /\ UNCHANGED <<stored, files, todo, sent, ghosts, troubles>>

\* Every table of the manifest is there and has as many rows as were written.
CountsMatch ==
    /\ dump.tables \subseteq present
    /\ Cardinality(books) = Cardinality(dump.books)
    /\ Cardinality(records) = Cardinality(dump.records)

VerifyBackup ==
    /\ step = "verify"
    /\ step' = IF dump.whole /\ CountsMatch THEN "apply" ELSE "unusable"
    /\ UNCHANGED <<stored, files, todo, sent, dump, ghosts, troubles>>

-----------------------------------------------------------------------------
(* Applying and recording.                                                 *)

Current == CHOOSE v \in todo : \A w \in todo : v <= w

Converted(rows, v) == {[r EXCEPT !.by = @ \cup {v}] : r \in rows}

\* A table that is there already makes the statement fail.
Runs(v, k) == Scripts[v][k] = "convert" \/ <<v, k>> \notin present

SendStatement ==
    /\ step = "apply"
    /\ sent < Len(Scripts[Current])
    /\ IF Runs(Current, sent + 1)
         THEN /\ sent' = sent + 1
              /\ IF Scripts[Current][sent'] = "table"
                   THEN present' = present \cup {<<Current, sent'>>} /\ UNCHANGED books
                   ELSE books' = Converted(books, Current) /\ UNCHANGED present
              /\ step' = IF sent' = Len(Scripts[Current]) THEN "record" ELSE "apply"
         ELSE step' = "restore" /\ UNCHANGED <<sent, present, books>>
    /\ UNCHANGED <<records, armed, files, todo, dump, ghosts, troubles>>

RecordMigration ==
    /\ step = "record"
    /\ records' = records \cup {[version |-> Current, checksum |-> files[Current]]}
    /\ todo' = todo \ {Current}
    /\ sent' = 0
    /\ step' = IF todo' = {} THEN "migrated" ELSE "apply"
    /\ UNCHANGED <<present, books, armed, files, dump, ghosts, troubles>>

\* A statement or the record of a migration is refused or loses its connection.
ApplyFails ==
    /\ step \in {"apply", "record"}
    /\ Trouble
    /\ step' = "restore"
    /\ UNCHANGED <<stored, files, todo, sent, dump, ghosts>>

-----------------------------------------------------------------------------
(* Restore: check the artifact, drop, rebuild, load, count.                *)

\* The caller is told the database is part-way and needs a person.
LeavePartway == step' = "partway" /\ scarred' = TRUE

\* Mutant: the dump is trusted to be what its verification saw.
CheckArtifactTrusting ==
    /\ step = "restore"
    /\ step' = "drop"
    /\ UNCHANGED <<stored, files, todo, sent, dump, ghosts, troubles>>

CheckArtifact ==
    /\ step = "restore"
    /\ IF dump.whole THEN step' = "drop" /\ UNCHANGED scarred ELSE LeavePartway
    /\ UNCHANGED <<stored, files, todo, sent, dump, kept, shelved, troubles>>

\* Mutant: only the tables the backup lists are dropped.
DoomedByManifest == present \cap dump.tables

\* The tables the database has now, not the ones the backup lists, in order.
Doomed == present
FirstOf(tables) ==
    CHOOSE t \in tables : \A u \in tables : t[1] < u[1] \/ (t[1] = u[1] /\ t[2] <= u[2])

DropTable ==
    /\ step = "drop" /\ Doomed # {}
    /\ LET t == FirstOf(Doomed)
       IN  /\ present' = present \ {t}
           /\ books' = IF t = Business THEN {} ELSE books
           /\ records' = IF t = Bookkeeping THEN {} ELSE records
           /\ armed' = (armed /\ t # Business)
    /\ UNCHANGED <<files, step, todo, sent, dump, ghosts, troubles>>

AllDropped ==
    /\ step = "drop" /\ Doomed = {}
    /\ step' = "rebuild"
    /\ UNCHANGED <<stored, files, todo, sent, dump, ghosts, troubles>>

\* SHOW CREATE TABLE says nothing of triggers: they do not come back here.
RebuildTables ==
    /\ step = "rebuild"
    /\ present' = present \cup dump.tables
    /\ step' = "load"
    /\ UNCHANGED <<books, records, armed, files, todo, sent, dump, ghosts, troubles>>

\* A data file that is not what was written fails on one of its statements.
LoadRows ==
    /\ step = "load"
    /\ IF dump.whole
         THEN /\ books' = books \cup dump.books
              /\ records' = dump.records
              /\ step' = "check" /\ UNCHANGED scarred
         ELSE LeavePartway /\ UNCHANGED <<books, records>>
    /\ UNCHANGED <<present, armed, files, todo, sent, dump, kept, shelved, troubles>>

VerifyRestore ==
    /\ step = "check"
    /\ IF CountsMatch THEN step' = "restored" /\ UNCHANGED scarred ELSE LeavePartway
    /\ UNCHANGED <<stored, files, todo, sent, dump, kept, shelved, troubles>>

RestoreFails ==
    /\ step \in {"drop", "rebuild", "load", "check"}
    /\ Trouble
    /\ LeavePartway
    /\ UNCHANGED <<stored, files, todo, sent, dump, kept, shelved>>

-----------------------------------------------------------------------------
(* The surroundings.                                                       *)

\* Whoever else has the books open goes on posting.
DeskPosts(id) ==
    /\ Business \in present
    /\ id \notin Ids(books) /\ id \notin kept
    /\ books' = books \cup {[id |-> id, by |-> {}]}
    /\ kept' = IF step \in Ended THEN kept \cup {id} ELSE kept
    /\ UNCHANGED <<present, records, armed, files, step, todo, sent, dump,
                   scarred, shelved, troubles>>

\* practice.Open puts the triggers back whenever the books are opened.
OpenBooks ==
    /\ step \in Ended /\ Business \in present
    /\ ~armed
    /\ armed' = TRUE
    /\ UNCHANGED <<present, books, records, files, step, todo, sent, dump, ghosts, troubles>>

\* data.sql is cut short between its verification and the failure that needs it.
DumpIsDamaged ==
    /\ step \in {"verify", "apply", "record"}
    /\ dump.whole
    /\ Trouble
    /\ dump' = [dump EXCEPT !.whole = FALSE]
    /\ UNCHANGED <<stored, files, step, todo, sent, ghosts>>

EditFile(v) ==
    /\ step \in Ended
    /\ files[v] = "issued"
    /\ Trouble
    /\ files' = [files EXCEPT ![v] = "edited"]
    /\ UNCHANGED <<stored, step, todo, sent, dump, ghosts>>

\* Nothing notices: the next run starts from the records as they stand.
RunIsKilled ==
    /\ step \notin Ended
    /\ Trouble
    /\ step' = "idle"
    /\ scarred' = (scarred \/ step \in Changing)
    /\ UNCHANGED <<stored, files, todo, sent, dump, kept, shelved>>

-----------------------------------------------------------------------------
UpgradeInit ==
    /\ present = {Business} /\ books = {} /\ records = {} /\ armed = TRUE
    /\ files = [v \in Versions |-> "issued"]
    /\ step = "idle" /\ todo = {} /\ sent = 0 /\ dump = NoDump
    /\ scarred = FALSE /\ kept = {} /\ shelved = {}
    /\ troubles = 0

RunnerStep ==
    \/ Begin \/ ReadRecords \/ DumpSchema \/ DumpBooks \/ FinishDump \/ VerifyBackup
    \/ SendStatement \/ RecordMigration
    \/ CheckArtifact \/ DropTable \/ AllDropped \/ RebuildTables \/ LoadRows \/ VerifyRestore

UpgradeNext ==
    \/ RunnerStep \/ ApplyFails \/ RestoreFails \/ DumpIsDamaged \/ RunIsKilled \/ OpenBooks
    \/ \E id \in Rows : DeskPosts(id)
    \/ \E v \in Versions : EditFile(v)

UpgradeSpec == UpgradeInit /\ [][UpgradeNext]_upgradeVars

-----------------------------------------------------------------------------
(* Properties.                                                             *)

(* A run of the migration runner that comes to an end by itself, restored   *)
(* or not, leaves exactly the tables of the migrations its records list,    *)
(* and no row rewritten by a migration that is not among them (runner.go:   *)
(* a batch that fails is rolled back to where it started).                  *)
RunEndsWhole ==
    step \in Ended /\ ~scarred =>
        /\ present \ {Bookkeeping} = {Business} \cup UNION {TablesOf(r.version) : r \in records}
        /\ \A row \in books : row.by \subseteq {r.version : r \in records}

(* A row posted while no run was going on is never lost: at every step, of  *)
(* a restore and of a restore that breaks off too, it is in the database or *)
(* in a backup that can still be loaded (restore.go: the artifact is        *)
(* checked before anything is dropped).                                     *)
NothingIsGone ==
    kept \subseteq Ids(books) \cup shelved \cup (IF dump.whole THEN Ids(dump.books) ELSE {})
=============================================================================
