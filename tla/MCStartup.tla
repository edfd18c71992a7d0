------------------------------ MODULE MCStartup ------------------------------
(***************************************************************************)
(* The two ways a client's schema is brought forward, checked in one run:  *)
(* the program starting, with two copies and a second release on its way,  *)
(* or the migration runner working on a database beside a desk. A          *)
(* behaviour exercises one of the two.                                     *)
(***************************************************************************)
EXTENDS Startup, SchemaUpgrade

CONSTANTS CopyA, CopyB

VARIABLE exercise

vars == <<startupVars, upgradeVars, exercise>>

\* The first release creates its tables; the second also alters one.
MCMigrations == << <<"create", "create">>, <<"create", "alter">> >>
MCScripts == << <<"table", "convert">>, <<"table", "table">> >>

Starting(A) == exercise = "startup" /\ A /\ UNCHANGED <<upgradeVars, exercise>>
Upgrading(A) == exercise = "upgrade" /\ A /\ UNCHANGED <<startupVars, exercise>>

Init ==
    /\ StartupInit /\ UpgradeInit
    /\ exercise \in {"startup", "upgrade"}

Next == Starting(StartupNext) \/ Upgrading(UpgradeNext)

\* A running copy goes on, the installer comes to its end, and the operator
\* dismisses a failure and starts the program when nothing is running.
Fairness ==
    /\ WF_vars(Starting(InstallerFinishes))
    /\ WF_vars(Starting(LaunchAgain))
    /\ \A i \in Copies : WF_vars(Starting(CopyStep(i))) /\ WF_vars(Starting(DismissFailure(i)))

Spec == Init /\ [][Next]_vars /\ Fairness

-----------------------------------------------------------------------------
\* What no later start repairs: a data directory whose installer is gone, a
\* statement that cannot be sent twice before its version was recorded, or a
\* part of the chart, which every probe takes for a chart.
TornForGood ==
    \/ directory = "partial" /\ ~installing
    \/ ~UpToDate /\ \E k \in 1..torn : Migrations[version + 1][k] = "alter"
    \/ ~WholeChart /\ accounts > 0 /\ \A i \in Copies : pc[i] # "seed"

(* However a start is cut short, starting again opens the books in the end, *)
(* on a whole chart, unless one of the three torn states was left behind    *)
(* (boot.go: every step guarded by a probe, so that what is already there   *)
(* is left alone).                                                          *)
ResumesUnlessTorn ==
    exercise = "startup" => []<>(WholeChart /\ \E i \in Copies : Held(i)) \/ <>[]TornForGood
=============================================================================
