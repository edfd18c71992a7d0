---------------------------- MODULE StartupProofs ----------------------------
(***************************************************************************)
(* Proofs about bringing a client's books up, for any number of copies,    *)
(* migrations, statements, rows, kills and failures: the screens open only *)
(* on a whole schema that nobody else holds, a run of the migration runner *)
(* ends whole, and no row posted between runs is gone.                     *)
(***************************************************************************)
EXTENDS Startup, SchemaUpgrade, TotalsProofs

-----------------------------------------------------------------------------
(* Starting the program.                                                   *)

StartupTypes ==
    /\ pc \in [Copies -> Places] /\ handles \subseteq Copies
    /\ server \in Copies \cup {NoCopy}
    /\ version \in Nat /\ accounts \in Nat

\* One copy at most is past the guard, and it holds the handle that keeps the
\* others out.
GuardHeld ==
    /\ \A i \in Copies : AtWork(i) => i \in handles
    /\ \A i, j \in Copies : AtWork(i) /\ AtWork(j) => i = j

\* A copy that has started its server finds no other one.
ServerMine ==
    \A i \in Copies : pc[i] \in Querying \cup Opened => server \in {i, NoCopy}

\* What a copy has probed or done by the time it is where it is.
Provisioned ==
    /\ UpToDate => torn = 0
    /\ \A i \in Copies :
        /\ pc[i] \in Querying \ {"database"} => database
        /\ pc[i] = "open" => accounts > 0
        /\ pc[i] \in Opened => UpToDate /\ triggers = Latest /\ database /\ accounts > 0

StartupIInv == StartupTypes /\ GuardHeld /\ ServerMine /\ Provisioned

-----------------------------------------------------------------------------
(* Upgrading a schema.                                                     *)

Row == [id : Rows, by : SUBSET Versions]
Record == [version : Versions, checksum : {"issued", "edited"}]

UpgradeTypes ==
    /\ present \subseteq Nat \X Nat /\ books \subseteq Row /\ records \subseteq Record
    /\ dump \in [tables : SUBSET (Nat \X Nat), books : SUBSET Row, records : SUBSET Record,
                 whole : BOOLEAN]
    /\ files \in [Versions -> {"issued", "edited"}]
    /\ step \in UpgradeSteps
    /\ todo \subseteq Versions /\ sent \in Nat
    /\ step \in {"schema", "data", "bookkeeping", "verify", "apply", "record"} => todo # {}

\* The tables of the migrations that are recorded.
TablesUpTo(recorded) == {Business} \cup UNION {TablesOf(r.version) : r \in recorded}

\* Tables and rows are those of exactly the migrations the records list.
Whole(tables, rows, recorded) ==
    /\ tables \ {Bookkeeping} = TablesUpTo(recorded)
    /\ \A row \in rows : row.by \subseteq {r.version : r \in recorded}

\* And those of the statements of the one that is being applied.
SentOf(v, n) == {<<v, k>> : k \in {j \in 1 .. n : Scripts[v][j] = "table"}}
PartWay(tables, rows, recorded, v, n) ==
    /\ n <= Len(Scripts[v])
    /\ tables \ {Bookkeeping} = TablesUpTo(recorded) \cup SentOf(v, n)
    /\ \A row \in rows : row.by \subseteq {r.version : r \in recorded} \cup {v}

\* What is not there holds nothing.
Emptied ==
    /\ Business \notin present => books = {}
    /\ Bookkeeping \notin present => records = {}

\* The bookkeeping table is there as soon as a run has begun.
Begun ==
    step \notin Ended \cup {"drop", "rebuild"} => Bookkeeping \in present

\* Where the database stands in a run that has not been cut off before.
Standing ==
    /\ step \in Ended \cup {"read", "schema", "data", "bookkeeping", "verify"} =>
        Whole(present, books, records)
    /\ step \in {"schema", "data", "bookkeeping", "verify"} => sent = 0
    /\ step = "apply" => PartWay(present, books, records, Current, sent)
    /\ step = "record" =>
        PartWay(present, books, records, Current, sent) /\ sent = Len(Scripts[Current])
    /\ step = "rebuild" => present = {}
    /\ step = "load" => present = dump.tables /\ \A row \in books : row.by = {}
    /\ step = "check" => Whole(present, books, records)

\* What the dump holds: the tables, then the rows, then the records of one
\* state of the schema.
Dumped ==
    /\ step = "data" => Whole(dump.tables, {}, records) /\ Bookkeeping \in dump.tables
    /\ step = "bookkeeping" => Whole(dump.tables, dump.books, records) /\ Bookkeeping \in dump.tables
    /\ step \in {"verify"} \cup Changing =>
        Whole(dump.tables, dump.books, dump.records) /\ Bookkeeping \in dump.tables

\* A row posted between runs is in the database until it is dropped, and in
\* the dump from the moment its table is read.
Saved ==
    /\ step \notin {"drop", "rebuild", "load", "check"} \cup Ended => kept \subseteq Ids(books) \cup shelved
    /\ step \in {"bookkeeping", "verify"} \cup Changing => kept \subseteq Ids(dump.books) \cup shelved
    /\ step \in {"drop", "rebuild", "load", "check"} => dump.whole

UpgradeIInv ==
    /\ UpgradeTypes /\ Saved /\ NothingIsGone
    /\ ~scarred => Emptied /\ Begun /\ Standing /\ Dumped

-----------------------------------------------------------------------------
(* Starting the program: every step keeps the invariant.                   *)

\* There is a release to bring the schema to.
LEMMA LatestNumber == Latest \in Nat \ {0}
BY MigrationsAssumption DEF Latest

\* The start stands.
LEMMA StartupInitStands == StartupInit => StartupIInv
<1> SUFFICES ASSUME StartupInit PROVE StartupIInv
  OBVIOUS
<1>1. StartupTypes
  BY AccountsAssumption DEF StartupInit, FreshMachine, FirstRelease, StartupTypes, Places
<1>2. \A i \in Copies : pc[i] = "off"
  BY DEF StartupInit
<1>3. GuardHeld /\ ServerMine /\ Provisioned
  BY <1>2 DEF StartupInit, GuardHeld, ServerMine, Provisioned, AtWork, Probing, Querying, Migrating,
     Opened, Leaving
<1> QED
  BY <1>1, <1>3 DEF StartupIInv

\* No step leaves the places, the copies and the numbers there are.
LEMMA StartupTypesKept ==
    ASSUME StartupTypes, [StartupNext]_startupVars
    PROVE  StartupTypes'
<1> USE LatestNumber, AccountsAssumption
<1> USE DEF StartupTypes, Places, Probing, Migrating, Querying, Opened, Leaving, disk
<1>1. ASSUME NEW i \in Copies, Claim(i) PROVE StartupTypes'
  BY <1>1 DEF Claim, Goto
<1>2. ASSUME NEW i \in Copies, SecondCopyExits(i) PROVE StartupTypes'
  BY <1>2 DEF SecondCopyExits, Goto
<1>3. ASSUME NEW i \in Copies, Locate(i) PROVE StartupTypes'
  BY <1>3 DEF Locate, Goto
<1>4. ASSUME NEW i \in Copies, FindDirectory(i) PROVE StartupTypes'
  BY <1>4 DEF FindDirectory, Goto
<1>5. ASSUME NEW i \in Copies, Installed(i) PROVE StartupTypes'
  BY <1>5 DEF Installed, Goto
<1>6. ASSUME NEW i \in Copies, StartServer(i) PROVE StartupTypes'
  BY <1>6 DEF StartServer, Goto
<1>7. ASSUME NEW i \in Copies, EnsureDatabase(i) PROVE StartupTypes'
  BY <1>7 DEF EnsureDatabase, Goto
<1>8. ASSUME NEW i \in Copies, ReadVersion(i) PROVE StartupTypes'
  BY <1>8 DEF ReadVersion, Goto
<1>9. ASSUME NEW i \in Copies, ReadChart(i) PROVE StartupTypes'
  BY <1>9 DEF ReadChart, Goto
<1>10. ASSUME NEW i \in Copies, RunStatement(i) PROVE StartupTypes'
  BY <1>10 DEF RunStatement, Goto, AfterFailure
<1>11. ASSUME NEW i \in Copies, RecordVersion(i) PROVE StartupTypes'
  BY <1>11 DEF RecordVersion, Goto
<1>12. ASSUME NEW i \in Copies, ApplyTriggers(i) PROVE StartupTypes'
  BY <1>12 DEF ApplyTriggers, Goto, AfterUp
<1>13. ASSUME NEW i \in Copies, SeedAccount(i) PROVE StartupTypes'
  BY <1>13 DEF SeedAccount, Goto
<1>14. ASSUME NEW i \in Copies, OpenTheYear(i) PROVE StartupTypes'
  BY <1>14 DEF OpenTheYear, Goto
<1>15. ASSUME NEW i \in Copies, AskCompany(i) PROVE StartupTypes'
  BY <1>15 DEF AskCompany, Goto
<1>16. ASSUME NEW i \in Copies, ServerIsGone(i) PROVE StartupTypes'
  BY <1>16 DEF ServerIsGone, Goto, AfterFailure
<1>17. ASSUME NEW i \in Copies, StopServer(i) PROVE StartupTypes'
  BY <1>17 DEF StopServer, Goto
<1>18. ASSUME NEW i \in Copies, ReleaseGuard(i) PROVE StartupTypes'
  BY <1>18 DEF ReleaseGuard, Goto
<1>19. ASSUME NEW i \in Copies, EndProcess(i) PROVE StartupTypes'
  BY <1>19 DEF EndProcess, Goto, ServerWithout
<1>20. ASSUME NEW i \in Copies, Launch(i) PROVE StartupTypes'
  BY <1>20 DEF Launch, Goto
<1>21. ASSUME NEW i \in Copies, Close(i) PROVE StartupTypes'
  BY <1>21 DEF Close, Goto
<1>22. ASSUME NEW i \in Copies, StepFails(i) PROVE StartupTypes'
  BY <1>22 DEF StepFails, Goto, AfterFailure
<1>23. ASSUME NEW i \in Copies, Kill(i) PROVE StartupTypes'
  BY <1>23 DEF Kill, Goto, ServerWithout
<1>24. ASSUME InstallerFinishes PROVE StartupTypes'
  BY <1>24 DEF InstallerFinishes
<1>25. ASSUME InstallerFails PROVE StartupTypes'
  BY <1>25 DEF InstallerFails
<1>26. ASSUME ServerDies PROVE StartupTypes'
  BY <1>26 DEF ServerDies
<1>27. ASSUME PowerCut PROVE StartupTypes'
  BY <1>27 DEF PowerCut
<1>28. CASE UNCHANGED startupVars
  BY <1>28 DEF startupVars
<1> QED
  BY <1>1, <1>2, <1>3, <1>4, <1>5, <1>6, <1>7, <1>8, <1>9, <1>10, <1>11, <1>12, <1>13, <1>14,
     <1>15, <1>16, <1>17, <1>18, <1>19, <1>20, <1>21, <1>22, <1>23, <1>24, <1>25, <1>26, <1>27,
     <1>28 DEF StartupNext, CopyStep

\* The guard lets one copy through, and no server is taken over.
LEMMA GuardKept ==
    ASSUME StartupTypes, GuardHeld, ServerMine, [StartupNext]_startupVars
    PROVE  GuardHeld' /\ ServerMine'
<1> USE CopiesAssumption
<1> USE DEF StartupTypes, GuardHeld, ServerMine, AtWork,
            Places, Probing, Migrating, Querying, Opened, Leaving, disk
<1>1. ASSUME NEW i \in Copies, Claim(i) PROVE GuardHeld' /\ ServerMine'
  BY <1>1 DEF Claim, Goto
<1>2. ASSUME NEW i \in Copies, SecondCopyExits(i) PROVE GuardHeld' /\ ServerMine'
  BY <1>2 DEF SecondCopyExits, Goto
<1>3. ASSUME NEW i \in Copies, Locate(i) PROVE GuardHeld' /\ ServerMine'
  BY <1>3 DEF Locate, Goto
<1>4. ASSUME NEW i \in Copies, FindDirectory(i) PROVE GuardHeld' /\ ServerMine'
  BY <1>4 DEF FindDirectory, Goto
<1>5. ASSUME NEW i \in Copies, Installed(i) PROVE GuardHeld' /\ ServerMine'
  BY <1>5 DEF Installed, Goto
<1>6. ASSUME NEW i \in Copies, StartServer(i) PROVE GuardHeld' /\ ServerMine'
  BY <1>6 DEF StartServer, Goto
<1>7. ASSUME NEW i \in Copies, EnsureDatabase(i) PROVE GuardHeld' /\ ServerMine'
  BY <1>7 DEF EnsureDatabase, Goto
<1>8. ASSUME NEW i \in Copies, ReadVersion(i) PROVE GuardHeld' /\ ServerMine'
  BY <1>8 DEF ReadVersion, Goto
<1>9. ASSUME NEW i \in Copies, ReadChart(i) PROVE GuardHeld' /\ ServerMine'
  BY <1>9 DEF ReadChart, Goto
<1>10. ASSUME NEW i \in Copies, RunStatement(i) PROVE GuardHeld' /\ ServerMine'
  BY <1>10 DEF RunStatement, Goto, AfterFailure
<1>11. ASSUME NEW i \in Copies, RecordVersion(i) PROVE GuardHeld' /\ ServerMine'
  BY <1>11 DEF RecordVersion, Goto
<1>12. ASSUME NEW i \in Copies, ApplyTriggers(i) PROVE GuardHeld' /\ ServerMine'
  BY <1>12 DEF ApplyTriggers, Goto, AfterUp
<1>13. ASSUME NEW i \in Copies, SeedAccount(i) PROVE GuardHeld' /\ ServerMine'
  BY <1>13 DEF SeedAccount, Goto
<1>14. ASSUME NEW i \in Copies, OpenTheYear(i) PROVE GuardHeld' /\ ServerMine'
  BY <1>14 DEF OpenTheYear, Goto
<1>15. ASSUME NEW i \in Copies, AskCompany(i) PROVE GuardHeld' /\ ServerMine'
  BY <1>15 DEF AskCompany, Goto
<1>16. ASSUME NEW i \in Copies, ServerIsGone(i) PROVE GuardHeld' /\ ServerMine'
  BY <1>16 DEF ServerIsGone, Goto, AfterFailure
<1>17. ASSUME NEW i \in Copies, StopServer(i) PROVE GuardHeld' /\ ServerMine'
  BY <1>17 DEF StopServer, Goto
<1>18. ASSUME NEW i \in Copies, ReleaseGuard(i) PROVE GuardHeld' /\ ServerMine'
  BY <1>18 DEF ReleaseGuard, Goto
<1>19. ASSUME NEW i \in Copies, EndProcess(i) PROVE GuardHeld' /\ ServerMine'
  BY <1>19 DEF EndProcess, Goto, ServerWithout
<1>20. ASSUME NEW i \in Copies, Launch(i) PROVE GuardHeld' /\ ServerMine'
  BY <1>20 DEF Launch, Goto
<1>21. ASSUME NEW i \in Copies, Close(i) PROVE GuardHeld' /\ ServerMine'
  BY <1>21 DEF Close, Goto
<1>22. ASSUME NEW i \in Copies, StepFails(i) PROVE GuardHeld' /\ ServerMine'
  BY <1>22 DEF StepFails, Goto, AfterFailure
<1>23. ASSUME NEW i \in Copies, Kill(i) PROVE GuardHeld' /\ ServerMine'
  BY <1>23 DEF Kill, Goto, ServerWithout
<1>24. ASSUME InstallerFinishes PROVE GuardHeld' /\ ServerMine'
  BY <1>24 DEF InstallerFinishes
<1>25. ASSUME InstallerFails PROVE GuardHeld' /\ ServerMine'
  BY <1>25 DEF InstallerFails
<1>26. ASSUME ServerDies PROVE GuardHeld' /\ ServerMine'
  BY <1>26 DEF ServerDies
<1>27. ASSUME PowerCut PROVE GuardHeld' /\ ServerMine'
  BY <1>27 DEF PowerCut
<1>28. CASE UNCHANGED startupVars
  BY <1>28 DEF startupVars
<1> QED
  BY <1>1, <1>2, <1>3, <1>4, <1>5, <1>6, <1>7, <1>8, <1>9, <1>10, <1>11, <1>12, <1>13, <1>14,
     <1>15, <1>16, <1>17, <1>18, <1>19, <1>20, <1>21, <1>22, <1>23, <1>24, <1>25, <1>26, <1>27,
     <1>28 DEF StartupNext, CopyStep

\* What was probed or done on the way to the books stays done.
LEMMA ProvisionedKept ==
    ASSUME StartupTypes, GuardHeld, Provisioned, [StartupNext]_startupVars
    PROVE  Provisioned'
<1> USE LatestNumber, AccountsAssumption
<1> USE DEF StartupTypes, Provisioned, UpToDate,
            Places, Probing, Migrating, Querying, Opened, Leaving, disk
<1>1. ASSUME NEW i \in Copies, Claim(i) PROVE Provisioned'
  BY <1>1 DEF Claim, Goto
<1>2. ASSUME NEW i \in Copies, SecondCopyExits(i) PROVE Provisioned'
  BY <1>2 DEF SecondCopyExits, Goto
<1>3. ASSUME NEW i \in Copies, Locate(i) PROVE Provisioned'
  BY <1>3 DEF Locate, Goto
<1>4. ASSUME NEW i \in Copies, FindDirectory(i) PROVE Provisioned'
  BY <1>4 DEF FindDirectory, Goto
<1>5. ASSUME NEW i \in Copies, Installed(i) PROVE Provisioned'
  BY <1>5 DEF Installed, Goto
<1>6. ASSUME NEW i \in Copies, StartServer(i) PROVE Provisioned'
  BY <1>6 DEF StartServer, Goto
<1>7. ASSUME NEW i \in Copies, EnsureDatabase(i) PROVE Provisioned'
  BY <1>7 DEF EnsureDatabase, Goto
<1>8. ASSUME NEW i \in Copies, ReadVersion(i) PROVE Provisioned'
  BY <1>8 DEF ReadVersion, Goto
<1>9. ASSUME NEW i \in Copies, ReadChart(i) PROVE Provisioned'
  BY <1>9 DEF ReadChart, Goto
<1>10. ASSUME NEW i \in Copies, RunStatement(i) PROVE Provisioned'
  BY <1>10 DEF RunStatement, Goto, AfterFailure
<1>11. ASSUME NEW i \in Copies, RecordVersion(i) PROVE Provisioned'
  BY <1>11 DEF RecordVersion, Goto
<1>12. ASSUME NEW i \in Copies, ApplyTriggers(i) PROVE Provisioned'
  BY <1>12 DEF ApplyTriggers, Goto, AfterUp
<1>13. ASSUME NEW i \in Copies, SeedAccount(i) PROVE Provisioned'
  BY <1>13 DEF SeedAccount, Goto
<1>14. ASSUME NEW i \in Copies, OpenTheYear(i) PROVE Provisioned'
  BY <1>14 DEF OpenTheYear, Goto
<1>15. ASSUME NEW i \in Copies, AskCompany(i) PROVE Provisioned'
  BY <1>15 DEF AskCompany, Goto
<1>16. ASSUME NEW i \in Copies, ServerIsGone(i) PROVE Provisioned'
  BY <1>16 DEF ServerIsGone, Goto, AfterFailure
<1>17. ASSUME NEW i \in Copies, StopServer(i) PROVE Provisioned'
  BY <1>17 DEF StopServer, Goto
<1>18. ASSUME NEW i \in Copies, ReleaseGuard(i) PROVE Provisioned'
  BY <1>18 DEF ReleaseGuard, Goto
<1>19. ASSUME NEW i \in Copies, EndProcess(i) PROVE Provisioned'
  BY <1>19 DEF EndProcess, Goto, ServerWithout
<1>20. ASSUME NEW i \in Copies, Launch(i) PROVE Provisioned'
  BY <1>20 DEF Launch, Goto
<1>21. ASSUME NEW i \in Copies, Close(i) PROVE Provisioned'
  BY <1>21 DEF Close, Goto
<1>22. ASSUME NEW i \in Copies, StepFails(i) PROVE Provisioned'
  BY <1>22 DEF StepFails, Goto, AfterFailure
<1>23. ASSUME NEW i \in Copies, Kill(i) PROVE Provisioned'
  BY <1>23 DEF Kill, Goto, ServerWithout
<1>24. ASSUME InstallerFinishes PROVE Provisioned'
  BY <1>24 DEF InstallerFinishes
<1>25. ASSUME InstallerFails PROVE Provisioned'
  BY <1>25 DEF InstallerFails
<1>26. ASSUME ServerDies PROVE Provisioned'
  BY <1>26 DEF ServerDies
<1>27. ASSUME PowerCut PROVE Provisioned'
  BY <1>27 DEF PowerCut
<1>28. CASE UNCHANGED startupVars
  BY <1>28 DEF startupVars
<1> QED
  BY <1>1, <1>2, <1>3, <1>4, <1>5, <1>6, <1>7, <1>8, <1>9, <1>10, <1>11, <1>12, <1>13, <1>14,
     <1>15, <1>16, <1>17, <1>18, <1>19, <1>20, <1>21, <1>22, <1>23, <1>24, <1>25, <1>26, <1>27,
     <1>28 DEF StartupNext, CopyStep

\* Through every start, kill and failure, the guard is held by one copy, no
\* server is shared, and what was provisioned on the way to the books stands.
THEOREM StartupInvariant == StartupSpec => []StartupIInv
<1>1. StartupIInv /\ [StartupNext]_startupVars => StartupIInv'
  BY StartupTypesKept, GuardKept, ProvisionedKept DEF StartupIInv
<1> QED
  BY <1>1, StartupInitStands, PTL DEF StartupSpec

\* The screens open only on the release's schema with its triggers, a probe
\* finds nothing missing, and no other copy or server is at the data directory.
THEOREM BooksOpenOnRelease == StartupSpec => []OpenOnReleaseSchema
<1>1. StartupIInv => OpenOnReleaseSchema
  <2> SUFFICES ASSUME StartupIInv, NEW i \in Copies, Held(i)
               PROVE  /\ version = Latest /\ torn = 0 /\ triggers = Latest
                      /\ Missing = {}
                      /\ i \in handles
                      /\ \A j \in Copies \ {i} : ~AtWork(j) /\ server # j
    BY DEF OpenOnReleaseSchema
  <2>1. /\ version = Latest /\ torn = 0 /\ triggers = Latest /\ database /\ accounts > 0
    BY DEF StartupIInv, Provisioned, UpToDate, Held
  <2>2. Missing = {}
    BY <2>1, LatestNumber DEF Missing, StartupIInv, StartupTypes
  <2>3. AtWork(i)
    BY DEF AtWork, Held
  <2>4. i \in handles /\ \A j \in Copies \ {i} : ~AtWork(j)
    BY <2>3 DEF StartupIInv, GuardHeld
  <2>5. \A j \in Copies \ {i} : server # j
    BY CopiesAssumption DEF StartupIInv, ServerMine, Held
  <2> QED
    BY <2>1, <2>2, <2>4, <2>5
<1> QED
  BY <1>1, StartupInvariant, PTL

-----------------------------------------------------------------------------
(* Upgrading a schema: types.                                              *)

\* Of any pending migrations one is the lowest.
LEMMA LeastPending ==
    ASSUME NEW some \in SUBSET Versions, some # {}
    PROVE  (CHOOSE v \in some : \A w \in some : v <= w) \in some
<1>1. Versions \subseteq Nat
  BY ScriptsAssumption DEF Versions
<1>2. some \in SUBSET Nat
  BY <1>1
<1>3. PICK v \in some : \A w \in some : ~(w < v)
  BY <1>2, LeastNumber
<1>4. \A w \in some : v <= w
  BY <1>2, <1>3
<1> QED
  BY <1>4

\* The migration that is applied next is one of those pending.
LEMMA CurrentPending ==
    ASSUME todo \subseteq Versions, todo # {}
    PROVE  Current \in todo /\ Current \in Versions
BY LeastPending DEF Current

\* The statements of a migration.
LEMMA ScriptFacts ==
    ASSUME NEW v \in Versions
    PROVE  Scripts[v] \in Seq({"table", "convert"}) /\ Len(Scripts[v]) \in Nat
BY ScriptsAssumption DEF Versions

\* The invariant holds when the upgrade starts.
LEMMA UpgradeInitStands == UpgradeInit => UpgradeIInv
<1> SUFFICES ASSUME UpgradeInit PROVE UpgradeIInv
  OBVIOUS
<1>1. UpgradeTypes
  BY DEF UpgradeInit, UpgradeTypes, UpgradeSteps, Ended, Business, NoDump
<1>2. Saved /\ NothingIsGone
  BY DEF UpgradeInit, Saved, NothingIsGone, NoDump, Ended, Changing
<1>3. present \ {Bookkeeping} = {Business} /\ records = {} /\ books = {}
  BY DEF UpgradeInit, Bookkeeping, Business
<1>4. Whole(present, books, records)
  BY <1>3 DEF Whole, TablesUpTo
<1>5. Emptied /\ Begun /\ Standing /\ Dumped
  BY <1>3, <1>4 DEF UpgradeInit, Emptied, Begun, Standing, Dumped, Ended, Changing
<1> QED
  BY <1>1, <1>2, <1>5 DEF UpgradeIInv

\* Every step keeps the types.
LEMMA UpgradeTypesKept ==
    ASSUME UpgradeTypes, [UpgradeNext]_upgradeVars
    PROVE  UpgradeTypes'
<1> USE DEF UpgradeTypes, UpgradeSteps, Ended, Changing, stored, ghosts
<1>1. ASSUME Begin PROVE UpgradeTypes'
  <2>1. Bookkeeping \in Nat \X Nat /\ NoDump.tables = {} /\ NoDump \in
          [tables : SUBSET (Nat \X Nat), books : SUBSET Row, records : SUBSET Record, whole : BOOLEAN]
    BY DEF Bookkeeping, NoDump
  <2> QED
    BY <1>1, <2>1 DEF Begin
<1>2. ASSUME ReadRecords PROVE UpgradeTypes'
  BY <1>2 DEF ReadRecords, Pending
<1>3. ASSUME DumpSchema PROVE UpgradeTypes'
  BY <1>3 DEF DumpSchema
<1>4. ASSUME DumpBooks PROVE UpgradeTypes'
  BY <1>4 DEF DumpBooks
<1>5. ASSUME FinishDump PROVE UpgradeTypes'
  BY <1>5 DEF FinishDump
<1>6. ASSUME VerifyBackup PROVE UpgradeTypes'
  BY <1>6 DEF VerifyBackup
<1>7. ASSUME SendStatement PROVE UpgradeTypes'
  <2>1. Current \in Versions
    BY <1>7, CurrentPending DEF SendStatement
  <2>2. Converted(books, Current) \subseteq Row
    BY <2>1 DEF Converted, Row
  <2> QED
    BY <1>7, <2>1, <2>2 DEF SendStatement
<1>8. ASSUME RecordMigration PROVE UpgradeTypes'
  <2>1. Current \in Versions
    BY <1>8, CurrentPending DEF RecordMigration
  <2>2. [version |-> Current, checksum |-> files[Current]] \in Record
    BY <2>1 DEF Record
  <2> QED
    BY <1>8, <2>2 DEF RecordMigration
<1>9. ASSUME CheckArtifact PROVE UpgradeTypes'
  BY <1>9 DEF CheckArtifact, LeavePartway
<1>10. ASSUME DropTable PROVE UpgradeTypes'
  BY <1>10 DEF DropTable, Doomed
<1>11. ASSUME AllDropped PROVE UpgradeTypes'
  BY <1>11 DEF AllDropped, Doomed
<1>12. ASSUME RebuildTables PROVE UpgradeTypes'
  BY <1>12 DEF RebuildTables
<1>13. ASSUME LoadRows PROVE UpgradeTypes'
  BY <1>13 DEF LoadRows, LeavePartway
<1>14. ASSUME VerifyRestore PROVE UpgradeTypes'
  BY <1>14 DEF VerifyRestore, LeavePartway
<1>15. ASSUME ApplyFails PROVE UpgradeTypes'
  BY <1>15 DEF ApplyFails
<1>16. ASSUME RestoreFails PROVE UpgradeTypes'
  BY <1>16 DEF RestoreFails, LeavePartway
<1>17. ASSUME DumpIsDamaged PROVE UpgradeTypes'
  BY <1>17 DEF DumpIsDamaged
<1>18. ASSUME RunIsKilled PROVE UpgradeTypes'
  BY <1>18 DEF RunIsKilled
<1>19. ASSUME OpenBooks PROVE UpgradeTypes'
  BY <1>19 DEF OpenBooks
<1>20. ASSUME NEW id \in Rows, DeskPosts(id) PROVE UpgradeTypes'
  BY <1>20 DEF DeskPosts, Row
<1>21. ASSUME NEW v \in Versions, EditFile(v) PROVE UpgradeTypes'
  BY <1>21 DEF EditFile
<1>22. CASE UNCHANGED upgradeVars
  BY <1>22 DEF upgradeVars
<1> QED
  BY <1>1, <1>2, <1>3, <1>4, <1>5, <1>6, <1>7, <1>8, <1>9, <1>10, <1>11, <1>12, <1>13,
     <1>14, <1>15, <1>16, <1>17, <1>18, <1>19, <1>20, <1>21, <1>22
  DEF UpgradeNext, RunnerStep

-----------------------------------------------------------------------------
(* No row is gone.                                                         *)

\* Rewriting rows keeps who they are.
LEMMA ConvertedIds ==
    ASSUME NEW rows \in SUBSET Row, NEW v
    PROVE  Ids(Converted(rows, v)) = Ids(rows)
<1>1. \A r \in rows : [r EXCEPT !.by = @ \cup {v}].id = r.id
  BY DEF Row
<1>2. Ids(Converted(rows, v)) = {[r EXCEPT !.by = @ \cup {v}].id : r \in rows}
  BY DEF Ids, Converted
<1> QED
  BY <1>1, <1>2 DEF Ids

\* A row posted between runs stays within reach.
LEMMA SavedKept ==
    ASSUME UpgradeTypes, Saved, NothingIsGone, [UpgradeNext]_upgradeVars
    PROVE  Saved' /\ NothingIsGone'
<1> USE DEF Saved, NothingIsGone, UpgradeSteps, Ended, Changing, stored, ghosts
<1>1. ASSUME Begin PROVE Saved' /\ NothingIsGone'
  BY <1>1 DEF Begin, NoDump
<1>2. ASSUME ReadRecords PROVE Saved' /\ NothingIsGone'
  BY <1>2 DEF ReadRecords, Pending
<1>3. ASSUME DumpSchema PROVE Saved' /\ NothingIsGone'
  BY <1>3 DEF DumpSchema, UpgradeTypes
<1>4. ASSUME DumpBooks PROVE Saved' /\ NothingIsGone'
  BY <1>4 DEF DumpBooks, UpgradeTypes
<1>5. ASSUME FinishDump PROVE Saved' /\ NothingIsGone'
  BY <1>5 DEF FinishDump, UpgradeTypes
<1>6. ASSUME VerifyBackup PROVE Saved' /\ NothingIsGone'
  BY <1>6 DEF VerifyBackup
<1>7. ASSUME SendStatement PROVE Saved' /\ NothingIsGone'
  <2>1. Ids(books') = Ids(books)
    BY <1>7, ConvertedIds DEF SendStatement, UpgradeTypes
  <2> QED
    BY <1>7, <2>1 DEF SendStatement
<1>8. ASSUME RecordMigration PROVE Saved' /\ NothingIsGone'
  BY <1>8 DEF RecordMigration
<1>9. ASSUME CheckArtifact PROVE Saved' /\ NothingIsGone'
  BY <1>9 DEF CheckArtifact, LeavePartway
<1>10. ASSUME DropTable PROVE Saved' /\ NothingIsGone'
  BY <1>10 DEF DropTable, Doomed
<1>11. ASSUME AllDropped PROVE Saved' /\ NothingIsGone'
  BY <1>11 DEF AllDropped, Doomed
<1>12. ASSUME RebuildTables PROVE Saved' /\ NothingIsGone'
  BY <1>12 DEF RebuildTables
<1>13. ASSUME LoadRows PROVE Saved' /\ NothingIsGone'
  BY <1>13 DEF LoadRows, LeavePartway, Ids
<1>14. ASSUME VerifyRestore PROVE Saved' /\ NothingIsGone'
  BY <1>14 DEF VerifyRestore, LeavePartway
<1>15. ASSUME ApplyFails PROVE Saved' /\ NothingIsGone'
  BY <1>15 DEF ApplyFails
<1>16. ASSUME RestoreFails PROVE Saved' /\ NothingIsGone'
  BY <1>16 DEF RestoreFails, LeavePartway
<1>17. ASSUME DumpIsDamaged PROVE Saved' /\ NothingIsGone'
  BY <1>17 DEF DumpIsDamaged, UpgradeTypes
<1>18. ASSUME RunIsKilled PROVE Saved' /\ NothingIsGone'
  BY <1>18 DEF RunIsKilled
<1>19. ASSUME OpenBooks PROVE Saved' /\ NothingIsGone'
  BY <1>19 DEF OpenBooks
<1>20. ASSUME NEW id \in Rows, DeskPosts(id) PROVE Saved' /\ NothingIsGone'
  <2>1. Ids(books') = Ids(books) \cup {id}
    <3>1. books' = books \cup {[id |-> id, by |-> {}]} /\ [id |-> id, by |-> {}].id = id
      BY <1>20 DEF DeskPosts
    <3> DEFINE row == [id |-> id, by |-> {}]
    <3> HIDE DEF row
    <3>2. \A rows : Ids(rows \cup {row}) = Ids(rows) \cup {row.id}
      BY DEF Ids
    <3> QED
      BY <3>1, <3>2 DEF row
  <2> QED
    BY <1>20, <2>1 DEF DeskPosts
<1>21. ASSUME NEW v \in Versions, EditFile(v) PROVE Saved' /\ NothingIsGone'
  BY <1>21 DEF EditFile
<1>22. CASE UNCHANGED upgradeVars
  BY <1>22 DEF upgradeVars
<1> QED
  BY <1>1, <1>2, <1>3, <1>4, <1>5, <1>6, <1>7, <1>8, <1>9, <1>10, <1>11, <1>12, <1>13,
     <1>14, <1>15, <1>16, <1>17, <1>18, <1>19, <1>20, <1>21, <1>22
  DEF UpgradeNext, RunnerStep

-----------------------------------------------------------------------------
(* A schema is whole, or part way through one migration.                   *)

\* A row the desk has just posted was rewritten by nobody.
LEMMA WholePosted ==
    ASSUME NEW tables, NEW rows, NEW recorded, Whole(tables, rows, recorded), NEW id
    PROVE  Whole(tables, rows \cup {[id |-> id, by |-> {}]}, recorded)
<1>1. [id |-> id, by |-> {}].by = {}
  OBVIOUS
<1> QED
  BY <1>1 DEF Whole

\* A migration of which nothing was sent.
LEMMA NothingSent ==
    ASSUME NEW tables, NEW rows, NEW recorded, Whole(tables, rows, recorded), NEW v \in Versions
    PROVE  PartWay(tables, rows, recorded, v, 0)
<1>1. SentOf(v, 0) = {} /\ 0 <= Len(Scripts[v])
  BY ScriptFacts DEF SentOf
<1> QED
  BY <1>1 DEF Whole, PartWay

\* One more statement of it.
LEMMA OneMoreSent ==
    ASSUME NEW tables, NEW rows \in SUBSET Row, NEW recorded, NEW v \in Versions, NEW n \in Nat,
           n < Len(Scripts[v]), PartWay(tables, rows, recorded, v, n),
           NEW more, NEW rewritten,
           IF Scripts[v][n + 1] = "table"
             THEN more = tables \cup {<<v, n + 1>>} /\ rewritten = rows
             ELSE rewritten = Converted(rows, v) /\ more = tables
    PROVE  PartWay(more, rewritten, recorded, v, n + 1)
<1>1. /\ n + 1 <= Len(Scripts[v]) /\ 1 .. n + 1 = 1 .. n \cup {n + 1}
      /\ <<v, n + 1>> # Bookkeeping
  BY ScriptFacts, ScriptsAssumption DEF Versions, Bookkeeping
<1>2. CASE Scripts[v][n + 1] = "table"
  <2>1. SentOf(v, n + 1) = SentOf(v, n) \cup {<<v, n + 1>>}
    BY <1>1, <1>2 DEF SentOf
  <2>2. (tables \cup {<<v, n + 1>>}) \ {Bookkeeping} = (tables \ {Bookkeeping}) \cup {<<v, n + 1>>}
    BY <1>1
  <2> QED
    BY <1>1, <1>2, <2>1, <2>2 DEF PartWay
<1>3. CASE Scripts[v][n + 1] # "table"
  <2>1. SentOf(v, n + 1) = SentOf(v, n)
    BY <1>1, <1>3 DEF SentOf
  <2>2. \A row \in Converted(rows, v) : \E r \in rows : row.by = r.by \cup {v}
    BY DEF Converted, Row
  <2>3. \A row \in Converted(rows, v) : row.by \subseteq {r.version : r \in recorded} \cup {v}
    BY <2>2 DEF PartWay
  <2> QED
    BY <1>1, <1>3, <2>1, <2>3 DEF PartWay
<1> QED
  BY <1>2, <1>3

\* A migration that was sent to its end, and recorded.
LEMMA AllSent ==
    ASSUME NEW tables, NEW rows, NEW recorded, NEW v \in Versions, NEW c,
           PartWay(tables, rows, recorded, v, Len(Scripts[v]))
    PROVE  Whole(tables, rows, recorded \cup {[version |-> v, checksum |-> c]})
<1> DEFINE new == [version |-> v, checksum |-> c]
<1>1. new.version = v
  OBVIOUS
<1>2. SentOf(v, Len(Scripts[v])) = TablesOf(v)
  BY ScriptFacts DEF SentOf, TablesOf
<1> HIDE DEF new
<1>3. TablesUpTo(recorded \cup {new}) = TablesUpTo(recorded) \cup TablesOf(v)
  <2> DEFINE made == {TablesOf(r.version) : r \in recorded}
  <2>1. {TablesOf(r.version) : r \in recorded \cup {new}} = made \cup {TablesOf(v)}
    BY <1>1
  <2>2. ASSUME NEW F, NEW t PROVE UNION (F \cup {t}) = (UNION F) \cup t
    BY Zenon
  <2>3. UNION (made \cup {TablesOf(v)}) = (UNION made) \cup TablesOf(v)
    BY <2>2
  <2> QED
    BY <2>1, <2>3 DEF TablesUpTo
<1>4. {r.version : r \in recorded \cup {new}} = {r.version : r \in recorded} \cup {v}
  BY <1>1
<1> QED
  BY <1>2, <1>3, <1>4 DEF PartWay, Whole, new

\* A database that has been cut off in the middle stays marked.
LEMMA ScarsStay ==
    ASSUME [UpgradeNext]_upgradeVars, scarred
    PROVE  scarred'
<1> USE DEF stored, ghosts
<1>1. ASSUME Begin PROVE scarred'
  BY <1>1 DEF Begin
<1>2. ASSUME ReadRecords PROVE scarred'
  BY <1>2 DEF ReadRecords, Pending
<1>3. ASSUME DumpSchema PROVE scarred'
  BY <1>3 DEF DumpSchema
<1>4. ASSUME DumpBooks PROVE scarred'
  BY <1>4 DEF DumpBooks
<1>5. ASSUME FinishDump PROVE scarred'
  BY <1>5 DEF FinishDump
<1>6. ASSUME VerifyBackup PROVE scarred'
  BY <1>6 DEF VerifyBackup
<1>7. ASSUME SendStatement PROVE scarred'
  BY <1>7 DEF SendStatement
<1>8. ASSUME RecordMigration PROVE scarred'
  BY <1>8 DEF RecordMigration
<1>9. ASSUME CheckArtifact PROVE scarred'
  BY <1>9 DEF CheckArtifact, LeavePartway
<1>10. ASSUME DropTable PROVE scarred'
  BY <1>10 DEF DropTable, Doomed
<1>11. ASSUME AllDropped PROVE scarred'
  BY <1>11 DEF AllDropped, Doomed
<1>12. ASSUME RebuildTables PROVE scarred'
  BY <1>12 DEF RebuildTables
<1>13. ASSUME LoadRows PROVE scarred'
  BY <1>13 DEF LoadRows, LeavePartway
<1>14. ASSUME VerifyRestore PROVE scarred'
  BY <1>14 DEF VerifyRestore, LeavePartway
<1>15. ASSUME ApplyFails PROVE scarred'
  BY <1>15 DEF ApplyFails
<1>16. ASSUME RestoreFails PROVE scarred'
  BY <1>16 DEF RestoreFails, LeavePartway
<1>17. ASSUME DumpIsDamaged PROVE scarred'
  BY <1>17 DEF DumpIsDamaged
<1>18. ASSUME RunIsKilled PROVE scarred'
  BY <1>18 DEF RunIsKilled
<1>19. ASSUME OpenBooks PROVE scarred'
  BY <1>19 DEF OpenBooks
<1>20. ASSUME NEW id \in Rows, DeskPosts(id) PROVE scarred'
  BY <1>20 DEF DeskPosts
<1>21. ASSUME NEW v \in Versions, EditFile(v) PROVE scarred'
  BY <1>21 DEF EditFile
<1>22. CASE UNCHANGED upgradeVars
  BY <1>22 DEF upgradeVars
<1> QED
  BY <1>1, <1>2, <1>3, <1>4, <1>5, <1>6, <1>7, <1>8, <1>9, <1>10, <1>11, <1>12, <1>13,
     <1>14, <1>15, <1>16, <1>17, <1>18, <1>19, <1>20, <1>21, <1>22
  DEF UpgradeNext, RunnerStep

\* The tables of a schema that is whole hold the business table.
LEMMA DumpedTables ==
    ASSUME NEW tables, NEW rows, NEW recorded, Whole(tables, rows, recorded)
    PROVE  Business \in tables
BY DEF Whole, TablesUpTo

\* What is not there holds nothing, and a run keeps its bookkeeping table.
LEMMA EmptiedKept ==
    ASSUME UpgradeTypes, Emptied, Begun, Standing, Dumped, [UpgradeNext]_upgradeVars, ~scarred'
    PROVE  Emptied' /\ Begun'
<1> USE DEF Emptied, Begun, UpgradeSteps, Ended, Changing, stored, ghosts
<1>1. ASSUME Begin PROVE Emptied' /\ Begun'
  BY <1>1 DEF Begin
<1>2. ASSUME ReadRecords PROVE Emptied' /\ Begun'
  BY <1>2 DEF ReadRecords, Pending
<1>3. ASSUME DumpSchema PROVE Emptied' /\ Begun'
  BY <1>3 DEF DumpSchema
<1>4. ASSUME DumpBooks PROVE Emptied' /\ Begun'
  BY <1>4 DEF DumpBooks
<1>5. ASSUME FinishDump PROVE Emptied' /\ Begun'
  BY <1>5 DEF FinishDump
<1>6. ASSUME VerifyBackup PROVE Emptied' /\ Begun'
  BY <1>6 DEF VerifyBackup
<1>7. ASSUME SendStatement PROVE Emptied' /\ Begun'
  <2>1. books = {} => Converted(books, Current) = {}
    BY DEF Converted
  <2> QED
    BY <1>7, <2>1 DEF SendStatement
<1>8. ASSUME RecordMigration PROVE Emptied' /\ Begun'
  BY <1>8 DEF RecordMigration
<1>9. ASSUME CheckArtifact PROVE Emptied' /\ Begun'
  BY <1>9 DEF CheckArtifact, LeavePartway
<1>10. ASSUME DropTable PROVE Emptied' /\ Begun'
  BY <1>10 DEF DropTable, Doomed
<1>11. ASSUME AllDropped PROVE Emptied' /\ Begun'
  BY <1>11 DEF AllDropped, Doomed
<1>12. ASSUME RebuildTables PROVE Emptied' /\ Begun'
  <2>1. Bookkeeping \in dump.tables
    BY <1>12 DEF RebuildTables, Dumped
  <2> QED
    BY <1>12, <2>1 DEF RebuildTables
<1>13. ASSUME LoadRows PROVE Emptied' /\ Begun'
  <2>1. Business \in present /\ Bookkeeping \in present
    BY <1>13, DumpedTables DEF LoadRows, Standing, Dumped
  <2> QED
    BY <1>13, <2>1 DEF LoadRows, LeavePartway
<1>14. ASSUME VerifyRestore PROVE Emptied' /\ Begun'
  BY <1>14 DEF VerifyRestore, LeavePartway
<1>15. ASSUME ApplyFails PROVE Emptied' /\ Begun'
  BY <1>15 DEF ApplyFails
<1>16. ASSUME RestoreFails PROVE Emptied' /\ Begun'
  BY <1>16 DEF RestoreFails, LeavePartway
<1>17. ASSUME DumpIsDamaged PROVE Emptied' /\ Begun'
  BY <1>17 DEF DumpIsDamaged
<1>18. ASSUME RunIsKilled PROVE Emptied' /\ Begun'
  BY <1>18 DEF RunIsKilled, UpgradeTypes
<1>19. ASSUME OpenBooks PROVE Emptied' /\ Begun'
  BY <1>19 DEF OpenBooks
<1>20. ASSUME NEW id \in Rows, DeskPosts(id) PROVE Emptied' /\ Begun'
  BY <1>20 DEF DeskPosts
<1>21. ASSUME NEW v \in Versions, EditFile(v) PROVE Emptied' /\ Begun'
  BY <1>21 DEF EditFile
<1>22. CASE UNCHANGED upgradeVars
  BY <1>22 DEF upgradeVars
<1> QED
  BY <1>1, <1>2, <1>3, <1>4, <1>5, <1>6, <1>7, <1>8, <1>9, <1>10, <1>11, <1>12, <1>13,
     <1>14, <1>15, <1>16, <1>17, <1>18, <1>19, <1>20, <1>21, <1>22
  DEF UpgradeNext, RunnerStep

\* The database stands whole, or part way through the migration being applied.
LEMMA StandingKept ==
    ASSUME UpgradeTypes, Emptied, Standing, Dumped, [UpgradeNext]_upgradeVars, ~scarred'
    PROVE  Standing'
<1> USE DEF Standing, UpgradeSteps, Ended, Changing, stored, ghosts
<1>0. todo' = todo => Current' = Current
  BY DEF Current
<1>1. ASSUME Begin PROVE Standing'
  <2>1. Whole(present \cup {Bookkeeping}, books, records)
    BY <1>1 DEF Begin, Whole
  <2> QED
    BY <1>1, <2>1 DEF Begin
<1>2. ASSUME ReadRecords PROVE Standing'
  BY <1>2 DEF ReadRecords, Pending
<1>3. ASSUME DumpSchema PROVE Standing'
  BY <1>3 DEF DumpSchema
<1>4. ASSUME DumpBooks PROVE Standing'
  BY <1>4 DEF DumpBooks
<1>5. ASSUME FinishDump PROVE Standing'
  BY <1>5 DEF FinishDump
<1>6. ASSUME VerifyBackup PROVE Standing'
  <2>1. Current \in Versions
    BY <1>6, CurrentPending DEF VerifyBackup, UpgradeTypes
  <2>2. PartWay(present, books, records, Current, 0) /\ sent = 0
    BY <1>6, <2>1, NothingSent DEF VerifyBackup
  <2> QED
    BY <1>0, <1>6, <2>2 DEF VerifyBackup
<1>7. ASSUME SendStatement PROVE Standing'
  <2> DEFINE v == Current
  <2>1. v \in Versions /\ sent < Len(Scripts[v]) /\ PartWay(present, books, records, v, sent)
    BY <1>7, CurrentPending DEF SendStatement, UpgradeTypes
  <2>2. todo' = todo /\ v' = v
    BY <1>0, <1>7 DEF SendStatement
  <2>3. CASE ~Runs(v, sent + 1)
    BY <1>7, <2>3 DEF SendStatement
  <2>4. CASE Runs(v, sent + 1)
    <3>1. PartWay(present', books', records', v, sent')
      <4>1. sent \in Nat /\ books \in SUBSET Row /\ sent' = sent + 1 /\ records' = records
        BY <1>7, <2>4 DEF SendStatement, UpgradeTypes
      <4>2. IF Scripts[v][sent + 1] = "table"
              THEN present' = present \cup {<<v, sent + 1>>} /\ books' = books
              ELSE books' = Converted(books, v) /\ present' = present
        BY <1>7, <2>4 DEF SendStatement
      <4> HIDE DEF v
      <4> QED
        BY <2>1, <4>1, <4>2, OneMoreSent
    <3>2. step' = IF sent' = Len(Scripts[v]) THEN "record" ELSE "apply"
      BY <1>7, <2>4 DEF SendStatement
    <3> HIDE DEF v
    <3> QED
      BY <2>2, <3>1, <3>2 DEF v
  <2> QED
    BY <2>3, <2>4
<1>8. ASSUME RecordMigration PROVE Standing'
  <2> DEFINE v == Current
             new == [version |-> v, checksum |-> files[v]]
  <2>1. v \in Versions /\ PartWay(present, books, records, v, Len(Scripts[v]))
    BY <1>8, CurrentPending DEF RecordMigration, UpgradeTypes
  <2>2. Whole(present, books, records \cup {new})
    BY <2>1, AllSent
  <2>3. Whole(present', books', records') /\ sent' = 0
    BY <1>8, <2>2 DEF RecordMigration
  <2>4. CASE todo' = {}
    BY <1>8, <2>3, <2>4 DEF RecordMigration
  <2>5. CASE todo' # {}
    <3>1. Current' \in Versions
      <4>1. todo' \subseteq Versions
        BY <1>8 DEF RecordMigration, UpgradeTypes
      <4>2. \A some : some \subseteq Versions /\ some # {} =>
              (CHOOSE w \in some : \A u \in some : w <= u) \in Versions
        BY LeastPending
      <4> QED
        BY <2>5, <4>1, <4>2 DEF Current
    <3>2. PartWay(present', books', records', Current', 0)
      BY <2>3, <3>1, NothingSent
    <3> QED
      BY <1>8, <2>3, <2>5, <3>2 DEF RecordMigration
  <2> QED
    BY <2>4, <2>5
<1>9. ASSUME CheckArtifact PROVE Standing'
  BY <1>9 DEF CheckArtifact, LeavePartway
<1>10. ASSUME DropTable PROVE Standing'
  BY <1>10 DEF DropTable, Doomed
<1>11. ASSUME AllDropped PROVE Standing'
  BY <1>11 DEF AllDropped, Doomed
<1>12. ASSUME RebuildTables PROVE Standing'
  <2>1. books = {} /\ present' = dump.tables
    BY <1>12 DEF RebuildTables, Emptied
  <2> QED
    BY <1>12, <2>1 DEF RebuildTables
<1>13. ASSUME LoadRows PROVE Standing'
  <2>1. Whole(dump.tables, books \cup dump.books, dump.records)
    BY <1>13 DEF LoadRows, Dumped, Whole
  <2> QED
    BY <1>13, <2>1 DEF LoadRows, LeavePartway
<1>14. ASSUME VerifyRestore PROVE Standing'
  BY <1>14 DEF VerifyRestore, LeavePartway
<1>15. ASSUME ApplyFails PROVE Standing'
  BY <1>0, <1>15 DEF ApplyFails
<1>16. ASSUME RestoreFails PROVE Standing'
  BY <1>16 DEF RestoreFails, LeavePartway
<1>17. ASSUME DumpIsDamaged PROVE Standing'
  BY <1>0, <1>17 DEF DumpIsDamaged
<1>18. ASSUME RunIsKilled PROVE Standing'
  BY <1>0, <1>18 DEF RunIsKilled, UpgradeTypes
<1>19. ASSUME OpenBooks PROVE Standing'
  BY <1>0, <1>19 DEF OpenBooks
<1>20. ASSUME NEW id \in Rows, DeskPosts(id) PROVE Standing'
  <2> DEFINE row == [id |-> id, by |-> {}]
  <2>1. row.by = {} /\ books' = books \cup {row} /\ UNCHANGED <<present, records, step, todo, sent, dump>>
    BY <1>20 DEF DeskPosts
  <2> HIDE DEF row
  <2>2. step # "rebuild"
    BY <1>20 DEF DeskPosts
  <2>3. Whole(present, books, records) => Whole(present', books', records')
    BY <2>1 DEF Whole
  <2>4. \A v : PartWay(present, books, records, v, sent) => PartWay(present', books', records', v, sent')
    BY <2>1 DEF PartWay
  <2> QED
    BY <1>0, <2>1, <2>2, <2>3, <2>4
<1>21. ASSUME NEW v \in Versions, EditFile(v) PROVE Standing'
  BY <1>0, <1>21 DEF EditFile
<1>22. CASE UNCHANGED upgradeVars
  BY <1>0, <1>22 DEF upgradeVars
<1> QED
  BY <1>1, <1>2, <1>3, <1>4, <1>5, <1>6, <1>7, <1>8, <1>9, <1>10, <1>11, <1>12, <1>13,
     <1>14, <1>15, <1>16, <1>17, <1>18, <1>19, <1>20, <1>21, <1>22
  DEF UpgradeNext, RunnerStep

\* The dump holds one state of the schema, whatever is posted while it is made.
LEMMA DumpedKept ==
    ASSUME UpgradeTypes, Begun, Standing, Dumped, [UpgradeNext]_upgradeVars, ~scarred'
    PROVE  Dumped'
<1> USE DEF Dumped, UpgradeSteps, Ended, Changing, stored, ghosts
<1>1. ASSUME Begin PROVE Dumped'
  BY <1>1 DEF Begin
<1>2. ASSUME ReadRecords PROVE Dumped'
  BY <1>2 DEF ReadRecords, Pending
<1>3. ASSUME DumpSchema PROVE Dumped'
  <2>1. Whole(present, {}, records) /\ Bookkeeping \in present /\ dump'.tables = present
    BY <1>3 DEF DumpSchema, Begun, Standing, Whole, UpgradeTypes
  <2> QED
    BY <1>3, <2>1 DEF DumpSchema
<1>4. ASSUME DumpBooks PROVE Dumped'
  <2>1. Whole(dump.tables, books, records)
    BY <1>4 DEF DumpBooks, Standing, Whole
  <2>2. dump'.tables = dump.tables /\ dump'.books = books
    BY <1>4 DEF DumpBooks, UpgradeTypes
  <2> QED
    BY <1>4, <2>1, <2>2 DEF DumpBooks
<1>5. ASSUME FinishDump PROVE Dumped'
  <2>1. dump'.tables = dump.tables /\ dump'.books = dump.books /\ dump'.records = records
    BY <1>5 DEF FinishDump, UpgradeTypes
  <2> QED
    BY <1>5, <2>1 DEF FinishDump
<1>6. ASSUME VerifyBackup PROVE Dumped'
  BY <1>6 DEF VerifyBackup
<1>7. ASSUME SendStatement PROVE Dumped'
  BY <1>7 DEF SendStatement
<1>8. ASSUME RecordMigration PROVE Dumped'
  BY <1>8 DEF RecordMigration
<1>9. ASSUME CheckArtifact PROVE Dumped'
  BY <1>9 DEF CheckArtifact, LeavePartway
<1>10. ASSUME DropTable PROVE Dumped'
  BY <1>10 DEF DropTable, Doomed
<1>11. ASSUME AllDropped PROVE Dumped'
  BY <1>11 DEF AllDropped, Doomed
<1>12. ASSUME RebuildTables PROVE Dumped'
  BY <1>12 DEF RebuildTables
<1>13. ASSUME LoadRows PROVE Dumped'
  BY <1>13 DEF LoadRows, LeavePartway
<1>14. ASSUME VerifyRestore PROVE Dumped'
  BY <1>14 DEF VerifyRestore, LeavePartway
<1>15. ASSUME ApplyFails PROVE Dumped'
  BY <1>15 DEF ApplyFails
<1>16. ASSUME RestoreFails PROVE Dumped'
  BY <1>16 DEF RestoreFails, LeavePartway
<1>17. ASSUME DumpIsDamaged PROVE Dumped'
  <2>1. dump'.tables = dump.tables /\ dump'.books = dump.books /\ dump'.records = dump.records
    BY <1>17 DEF DumpIsDamaged, UpgradeTypes
  <2> QED
    BY <1>17, <2>1 DEF DumpIsDamaged
<1>18. ASSUME RunIsKilled PROVE Dumped'
  BY <1>18 DEF RunIsKilled
<1>19. ASSUME OpenBooks PROVE Dumped'
  BY <1>19 DEF OpenBooks
<1>20. ASSUME NEW id \in Rows, DeskPosts(id) PROVE Dumped'
  BY <1>20 DEF DeskPosts
<1>21. ASSUME NEW v \in Versions, EditFile(v) PROVE Dumped'
  BY <1>21 DEF EditFile
<1>22. CASE UNCHANGED upgradeVars
  BY <1>22 DEF upgradeVars
<1> QED
  BY <1>1, <1>2, <1>3, <1>4, <1>5, <1>6, <1>7, <1>8, <1>9, <1>10, <1>11, <1>12, <1>13,
     <1>14, <1>15, <1>16, <1>17, <1>18, <1>19, <1>20, <1>21, <1>22
  DEF UpgradeNext, RunnerStep

\* Through every run, failure, damage and kill, nothing posted between runs is
\* gone, and unless a run was cut off in the middle the schema is whole between
\* runs and known at every step of one.
THEOREM UpgradeInvariant == UpgradeSpec => []UpgradeIInv
<1>1. UpgradeIInv /\ [UpgradeNext]_upgradeVars => UpgradeIInv'
  <2> SUFFICES ASSUME UpgradeIInv, [UpgradeNext]_upgradeVars PROVE UpgradeIInv'
    OBVIOUS
  <2>1. UpgradeTypes' /\ Saved' /\ NothingIsGone'
    BY UpgradeTypesKept, SavedKept DEF UpgradeIInv
  <2>2. ASSUME ~scarred' PROVE Emptied' /\ Begun' /\ Standing' /\ Dumped'
    <3>1. ~scarred
      BY <2>2, ScarsStay
    <3> QED
      BY <2>2, <3>1, EmptiedKept, StandingKept, DumpedKept DEF UpgradeIInv
  <2> QED
    BY <2>1, <2>2 DEF UpgradeIInv
<1> QED
  BY <1>1, UpgradeInitStands, PTL DEF UpgradeSpec

\* A run that ends by itself leaves exactly the tables and the rewritten rows
\* of the migrations its records list.
THEOREM RunsEndWhole == UpgradeSpec => []RunEndsWhole
<1>1. UpgradeIInv => RunEndsWhole
  BY DEF UpgradeIInv, Standing, RunEndsWhole, Whole, TablesUpTo
<1> QED
  BY <1>1, UpgradeInvariant, PTL

\* A row posted between two runs is in the database or in a backup that loads.
THEOREM RowsStayWithinReach == UpgradeSpec => []NothingIsGone
<1>1. UpgradeIInv => NothingIsGone
  BY DEF UpgradeIInv
<1> QED
  BY <1>1, UpgradeInvariant, PTL
=============================================================================
