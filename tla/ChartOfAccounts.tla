--------------------------- MODULE ChartOfAccounts ---------------------------
(***************************************************************************)
(* gl.ChartOfAccounts: a client's accounts by code, with the account each  *)
(* sits under.  A chart is a function of the codes it holds; which codes   *)
(* are numeric is given.                                                   *)
(***************************************************************************)
EXTENDS PostingRules, Integers, FiniteSets

CONSTANT NumericCodes

\* A field that was left empty.
Blank == ""

Natures == {"DEBIT", "CREDIT", "DUAL"}

ValidAccount(a) ==
    a.code \in NumericCodes /\ a.name # Blank /\ a.type \in AccountTypes /\ a.nature \in Natures

Holds(chart, code) == code \in DOMAIN chart

CanAddAccount(chart, a) == ValidAccount(a) /\ ~Holds(chart, a.code)

\* A new account is active.
AddAccount(chart, a) ==
    [code \in DOMAIN chart \cup {a.code} |->
        IF code = a.code
        THEN [parent |-> a.parent, type |-> a.type, nature |-> a.nature, active |-> TRUE]
        ELSE chart[code]]

\* An account that sits under no other.
Topmost(chart, code) == chart[code].parent = Blank

\* The account above, if there is one.
Above(chart, code) ==
    IF Holds(chart, code) /\ ~Topmost(chart, code) THEN chart[code].parent ELSE code

\* The way up from an account, for so many steps.
Climb(chart, code, steps) ==
    LET Cur[n \in 0 .. steps] == IF n = 0 THEN code ELSE Above(chart, Cur[n - 1])
    IN  Cur

\* ChartOfAccounts.Validate: every parent is there, and climbing from an account
\* comes to one that has none.
ValidChart(chart) ==
    LET most == Cardinality(DOMAIN chart) IN
    \A code \in DOMAIN chart :
        /\ Topmost(chart, code) \/ Holds(chart, chart[code].parent)
        /\ Topmost(chart, Climb(chart, code, most)[most])
=============================================================================
