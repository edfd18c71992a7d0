------------------------------- MODULE Startup -------------------------------
(***************************************************************************)
(* What happens between the double click and the open books: the copies of *)
(* the desktop program (cmd/fingo/main.go), the single-instance guard      *)
(* (internal/singleton), the provisioning sequence (internal/boot), the    *)
(* private MariaDB server (internal/dbhost), the migrations db.Up applies  *)
(* and the seeding of the chart (internal/usecase/practice).               *)
(*                                                                         *)
(* A copy is killed, the machine loses power, the server dies or a step    *)
(* fails at any point; the operator closes the window and starts again.    *)
(* What survives is on the disk: the data directory, the database, the     *)
(* recorded schema version, the statements of an unrecorded migration, the *)
(* triggers, the chart, the accounting period and the settings file.       *)
(***************************************************************************)
EXTENDS Integers, Sequences

CONSTANTS
    Copies,       \* copies of the program the operator may start
    NoCopy,       \* "nobody's", where a copy is expected
    Migrations,   \* the statements of each migration, "create" or "alter"
    Accounts,     \* how many accounts the TT133 chart has
    MaxMishaps    \* bound on kills, power cuts, failures and second starts

ASSUME CopiesAssumption == NoCopy \notin Copies
ASSUME MigrationsAssumption == Migrations \in Seq(Seq({"create", "alter"})) /\ Migrations # <<>>
ASSUME AccountsAssumption == Accounts \in Nat \ {0}

VARIABLES
    directory,    \* the server's data directory: "none", "partial", "whole"
    installing,   \* whether a mariadb-install-db process is running
    server,       \* the copy whose mariadbd holds the data directory
    handles,      \* the copies with an open handle to the guard's mutex
    database,     \* whether the client's database exists
    version,      \* the highest version goose recorded
    torn,         \* statements of migration version + 1 that took effect
    triggers,     \* the release whose triggers are installed
    accounts,     \* accounts in the chart
    year,         \* whether an accounting period exists
    company,      \* whether the settings file names the company
    pc,           \* where each copy is
    at,           \* the statement each copy's goose run has reached
    mishaps

disk == <<directory, database, version, torn, triggers, accounts, year, company>>
startupVars == <<disk, installing, server, handles, pc, at, mishaps>>

Latest == Len(Migrations)

Probing == {"locate", "probe", "install", "start"}
Migrating == {"migrate", "seedopen", "open"}
Querying == {"database", "version", "chart", "seed"} \cup Migrating
Opened == {"year", "ask", "ready"}
Leaving == {"refused", "broken", "stopping", "releasing"}
Places == {"off", "claim", "told", "ending"} \cup Probing \cup Querying \cup Opened \cup Leaving

Held(i) == pc[i] \in Opened
AtWork(i) == pc[i] \in Probing \cup Querying \cup Opened \cup Leaving

Goto(i, place) == pc' = [pc EXCEPT ![i] = place]
Mishap == mishaps < MaxMishaps /\ mishaps' = mishaps + 1

-----------------------------------------------------------------------------
(* The window and the guard.                                               *)

\* Starting a second copy while one runs is the operator's mishap.
Launch(i) ==
    /\ pc[i] = "off"
    /\ Goto(i, "claim")
    /\ IF \A j \in Copies : pc[j] = "off" THEN UNCHANGED mishaps ELSE Mishap
    /\ UNCHANGED <<disk, installing, server, handles, at>>

\* CreateMutex succeeds when the object exists and hands back a handle of its
\* own; that the object was there already is only the last error.
Claim(i) ==
    /\ pc[i] = "claim"
    /\ Goto(i, IF handles = {} THEN "locate" ELSE "told")
    /\ handles' = handles \cup {i}
    /\ UNCHANGED <<disk, installing, server, at, mishaps>>

\* The second handle is closed, the operator is told, and the copy exits.
SecondCopyExits(i) ==
    /\ pc[i] = "told"
    /\ handles' = handles \ {i}
    /\ Goto(i, "off")
    /\ UNCHANGED <<disk, installing, server, at, mishaps>>

-----------------------------------------------------------------------------
(* boot.Ensure: every step guarded by a probe.                             *)

\* The server's binaries, a free port and the provisioner.
Locate(i) ==
    /\ pc[i] = "locate"
    /\ Goto(i, "probe")
    /\ UNCHANGED <<disk, installing, server, handles, at, mishaps>>

\* The directory is there as soon as the installer has begun to fill it.
FindDirectory(i) ==
    /\ pc[i] = "probe"
    /\ IF directory = "none"
         THEN directory' = "partial" /\ installing' = TRUE /\ Goto(i, "install")
         ELSE UNCHANGED <<directory, installing>> /\ Goto(i, "start")
    /\ UNCHANGED <<database, version, torn, triggers, accounts, year, company,
                   server, handles, at, mishaps>>

\* The installer is a process of its own, outside the job object: killing the
\* copy that started it does not stop it.
InstallerFinishes ==
    /\ installing
    /\ installing' = FALSE
    /\ directory' = "whole"
    /\ UNCHANGED <<database, version, torn, triggers, accounts, year, company,
                   server, handles, pc, at, mishaps>>

InstallerFails ==
    /\ installing
    /\ Mishap
    /\ installing' = FALSE
    /\ directory' \in {"none", "partial"}
    /\ UNCHANGED <<database, version, torn, triggers, accounts, year, company,
                   server, handles, pc, at>>

Installed(i) ==
    /\ pc[i] = "install"
    /\ ~installing
    /\ Goto(i, IF directory = "whole" THEN "start" ELSE "refused")
    /\ UNCHANGED <<disk, installing, server, handles, at, mishaps>>

\* A server started on a directory that is not whole, or that another server
\* holds, aborts, and WaitReadyOrExit reports it; otherwise it answers.
StartServer(i) ==
    /\ pc[i] = "start"
    /\ IF directory = "whole" /\ server = NoCopy
         THEN server' = i /\ Goto(i, "database")
         ELSE UNCHANGED server /\ Goto(i, "refused")
    /\ UNCHANGED <<disk, installing, handles, at, mishaps>>

EnsureDatabase(i) ==
    /\ pc[i] = "database" /\ server = i
    /\ database' = TRUE
    /\ Goto(i, "version")
    /\ UNCHANGED <<directory, version, torn, triggers, accounts, year, company,
                   installing, server, handles, at, mishaps>>

\* Ensure migrates a database with no version and leaves any other alone.
ReadVersion(i) ==
    /\ pc[i] = "version" /\ server = i
    /\ Goto(i, IF version = 0 THEN "migrate" ELSE "chart")
    /\ UNCHANGED <<disk, installing, server, handles, at, mishaps>>

ReadChart(i) ==
    /\ pc[i] = "chart" /\ server = i
    /\ Goto(i, IF accounts > 0 THEN "open" ELSE "seedopen")
    /\ UNCHANGED <<disk, installing, server, handles, at, mishaps>>

\* onboarding.Probe changes nothing and says what has to happen before the books
\* can be opened: of the chart it asks whether there is an account.
Missing ==
    IF ~database
    THEN {"database", "schema", "chart"}
    ELSE (IF version = 0 THEN {"schema"} ELSE {}) \cup (IF accounts = 0 THEN {"chart"} ELSE {})

-----------------------------------------------------------------------------
(* db.Up, reached from Live.Migrate and from every practice.Open: goose    *)
(* sends the statements of each pending migration from its first, records  *)
(* the version after the last, and the triggers are replaced at the end.   *)
(* MariaDB commits each statement of DDL by itself.                        *)

\* Mutant: a database with some version is taken for one with the release's.
UpToDateOnceMigrated == version # 0

UpToDate == version = Latest

\* What db.Up was called for decides what comes after it.
AfterUp(place) ==
    CASE place = "migrate"  -> "chart"
      [] place = "seedopen" -> "seed"
      [] place = "open"     -> "year"

\* What the copy is left with when a step fails: boot.Live only after Ensure.
AfterFailure(place) == IF place = "open" THEN "broken" ELSE "refused"

\* CREATE TABLE IF NOT EXISTS may be sent again; an ALTER may not.
RunStatement(i) ==
    LET statements == Migrations[version + 1]
        k == at[i] + 1
    IN  /\ pc[i] \in Migrating /\ server = i
        /\ ~UpToDate
        /\ at[i] < Len(statements)
        /\ IF k > torn \/ statements[k] = "create"
             THEN /\ torn' = IF k > torn THEN k ELSE torn
                  /\ at' = [at EXCEPT ![i] = k]
                  /\ UNCHANGED pc
             ELSE /\ at' = [at EXCEPT ![i] = 0]
                  /\ Goto(i, AfterFailure(pc[i]))
                  /\ UNCHANGED torn
        /\ UNCHANGED <<directory, database, version, triggers, accounts, year,
                       company, installing, server, handles, mishaps>>

RecordVersion(i) ==
    /\ pc[i] \in Migrating /\ server = i
    /\ ~UpToDate
    /\ at[i] = Len(Migrations[version + 1])
    /\ version' = version + 1
    /\ torn' = 0
    /\ at' = [at EXCEPT ![i] = 0]
    /\ UNCHANGED <<directory, database, triggers, accounts, year, company,
                   installing, server, handles, pc, mishaps>>

ApplyTriggers(i) ==
    /\ pc[i] \in Migrating /\ server = i
    /\ UpToDate
    /\ triggers' = Latest
    /\ Goto(i, AfterUp(pc[i]))
    /\ UNCHANGED <<directory, database, version, torn, accounts, year, company,
                   installing, server, handles, at, mishaps>>

-----------------------------------------------------------------------------
(* The chart, the period and the company.                                  *)

\* EnsureChart inserts the accounts one by one, in no transaction.
SeedAccount(i) ==
    /\ pc[i] = "seed" /\ server = i
    /\ accounts' = accounts + 1
    /\ IF accounts' = Accounts THEN Goto(i, "open") ELSE UNCHANGED pc
    /\ UNCHANGED <<directory, database, version, torn, triggers, year, company,
                   installing, server, handles, at, mishaps>>

\* A period that cannot be read or written is logged and no more.
OpenTheYear(i) ==
    /\ pc[i] = "year"
    /\ IF server = i THEN year' = TRUE ELSE UNCHANGED year
    /\ Goto(i, "ask")
    /\ UNCHANGED <<directory, database, version, torn, triggers, accounts, company,
                   installing, server, handles, at, mishaps>>

\* The settings file is replaced whole, once the operator has named the company;
\* he may leave the question for another day.
Named(answered) == company \/ answered

AskCompany(i) ==
    /\ pc[i] = "ask"
    /\ \E answered \in BOOLEAN : company' = Named(answered)
    /\ Goto(i, "ready")
    /\ UNCHANGED <<directory, database, version, torn, triggers, accounts, year,
                   installing, server, handles, at, mishaps>>

-----------------------------------------------------------------------------
(* Closing the window. The server is stopped only through boot.Live; what  *)
(* is left of it dies with the process, after the guard has been released. *)

Close(i) ==
    /\ pc[i] \in {"ready", "broken", "refused"}
    /\ Goto(i, IF pc[i] = "refused" THEN "releasing" ELSE "stopping")
    /\ UNCHANGED <<disk, installing, server, handles, at, mishaps>>

\* An error of Stop is dropped, with the server perhaps still up.
StopServer(i) ==
    /\ pc[i] = "stopping"
    /\ server' \in IF server = i THEN {NoCopy, i} ELSE {server}
    /\ Goto(i, "releasing")
    /\ UNCHANGED <<disk, installing, handles, at, mishaps>>

ReleaseGuard(i) ==
    /\ pc[i] = "releasing"
    /\ handles' = handles \ {i}
    /\ Goto(i, "ending")
    /\ UNCHANGED <<disk, installing, server, at, mishaps>>

\* Mutant: the server is not confined to the life of its copy.
ServerOutliving(i) == server

\* The job object closes with the process and kills what is in it.
ServerWithout(i) == IF server = i THEN NoCopy ELSE server

EndProcess(i) ==
    /\ pc[i] = "ending"
    /\ server' = ServerWithout(i)
    /\ Goto(i, "off")
    /\ UNCHANGED <<disk, installing, handles, at, mishaps>>

-----------------------------------------------------------------------------
(* What goes wrong.                                                        *)

\* A step fails, or five minutes pass: the installer, if any, is killed.
StepFails(i) ==
    /\ pc[i] \in Probing \cup Querying
    /\ Mishap
    /\ installing' = (installing /\ pc[i] # "install")
    /\ at' = [at EXCEPT ![i] = 0]
    /\ Goto(i, AfterFailure(pc[i]))
    /\ UNCHANGED <<disk, server, handles>>

ServerDies ==
    /\ server # NoCopy
    /\ Mishap
    /\ server' = NoCopy
    /\ UNCHANGED <<disk, installing, handles, pc, at>>

ServerIsGone(i) ==
    /\ pc[i] \in Querying
    /\ server # i
    /\ at' = [at EXCEPT ![i] = 0]
    /\ Goto(i, AfterFailure(pc[i]))
    /\ UNCHANGED <<disk, installing, server, handles, mishaps>>

Kill(i) ==
    /\ pc[i] # "off"
    /\ Mishap
    /\ handles' = handles \ {i}
    /\ server' = ServerWithout(i)
    /\ at' = [at EXCEPT ![i] = 0]
    /\ Goto(i, "off")
    /\ UNCHANGED <<disk, installing>>

PowerCut ==
    /\ Mishap
    /\ installing' = FALSE
    /\ server' = NoCopy
    /\ handles' = {}
    /\ pc' = [i \in Copies |-> "off"]
    /\ at' = [i \in Copies |-> 0]
    /\ UNCHANGED disk

-----------------------------------------------------------------------------
\* A machine FinGo has never run on, or one with the first release's books.
FreshMachine ==
    /\ directory = "none" /\ database = FALSE
    /\ version = 0 /\ triggers = 0 /\ accounts = 0
    /\ year = FALSE /\ company = FALSE

FirstRelease ==
    /\ directory = "whole" /\ database = TRUE
    /\ version = 1 /\ triggers = 1 /\ accounts = Accounts
    /\ year = TRUE /\ company \in BOOLEAN

StartupInit ==
    /\ FreshMachine \/ FirstRelease
    /\ torn = 0
    /\ installing = FALSE /\ server = NoCopy /\ handles = {}
    /\ pc = [i \in Copies |-> "off"]
    /\ at = [i \in Copies |-> 0]
    /\ mishaps = 0

\* The steps a running copy takes by itself.
CopyStep(i) ==
    \/ Claim(i) \/ SecondCopyExits(i) \/ Locate(i) \/ FindDirectory(i) \/ Installed(i)
    \/ StartServer(i) \/ EnsureDatabase(i) \/ ReadVersion(i) \/ ReadChart(i)
    \/ RunStatement(i) \/ RecordVersion(i) \/ ApplyTriggers(i) \/ SeedAccount(i)
    \/ OpenTheYear(i) \/ AskCompany(i) \/ ServerIsGone(i)
    \/ StopServer(i) \/ ReleaseGuard(i) \/ EndProcess(i)

StartupNext ==
    \/ \E i \in Copies : CopyStep(i) \/ Launch(i) \/ Close(i) \/ StepFails(i) \/ Kill(i)
    \/ InstallerFinishes \/ InstallerFails \/ ServerDies \/ PowerCut

\* The operator who is told that the books did not open closes the window, and
\* when nothing is running starts the program again.
DismissFailure(i) == pc[i] \in {"broken", "refused"} /\ Close(i)
LaunchAgain == (\A j \in Copies : pc[j] = "off") /\ (\E i \in Copies : Launch(i))

StartupSpec == StartupInit /\ [][StartupNext]_startupVars

-----------------------------------------------------------------------------
(* Properties.                                                             *)

(* Books are open to the screens only when the schema is the release's,    *)
(* with nothing half applied and its own triggers in place, a probe finds  *)
(* nothing missing, and no other copy of the program, nor a server of one, *)
(* is at the same data directory (practice.Open, singleton, boot.Ensure).  *)
OpenOnReleaseSchema ==
    \A i \in Copies : Held(i) =>
        /\ version = Latest /\ torn = 0 /\ triggers = Latest
        /\ Missing = {}
        /\ i \in handles
        /\ \A j \in Copies \ {i} : ~AtWork(j) /\ server # j

WholeChart == accounts = Accounts

(* boot_test.go:149-151 says a first run that failed half way is resumable *)
(* by starting the program again: what is open then is whole, the chart    *)
(* with the rest, wherever the first run stopped.                          *)
OpenOnWholeBooks ==
    OpenOnReleaseSchema /\ \A i \in Copies : Held(i) => WholeChart
=============================================================================
