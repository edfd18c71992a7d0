---------------------------- MODULE ClosingEntries ----------------------------
(***************************************************************************)
(* What a close posts: the provisions of the period, and the entries that  *)
(* carry its revenue and expenses through the result account to retained   *)
(* earnings.  Everything here is a pure function of the facts the close    *)
(* was given (provisions.go, entries.go).                                  *)
(*                                                                         *)
(* A voucher is the net movement of every account, debits positive.  The   *)
(* closing entries and the provisions of one close never cancel out on     *)
(* every account at once, so a close without lines is one whose net is     *)
(* zero everywhere.                                                        *)
(***************************************************************************)
EXTENDS Totals, Integers, FiniteSets

CONSTANTS
    Accounts,
    AccountType,    \* account -> its type
    Postable,       \* the accounts the client's chart accepts an entry to
    Result,         \* the profit determination account, 911
    Retained,       \* the undistributed profit account, 4212
    Fallback,       \* the configured provision accounts
    Bands,          \* the bad debt policy: [name, from, percent], youngest first
    MonthDays       \* simplification: every month has as many days

ASSUME ClosingAccountsAssumption == Result \in Accounts /\ Retained \in Accounts /\ Result # Retained
ASSUME ChartAssumption == IsFiniteSet(Accounts) /\ Postable \subseteq Accounts

\* The types AccountType.Valid knows; 911 is entered in the chart as an expense
\* account, 4212 as equity.
ASSUME AccountTypeAssumption ==
    /\ AccountType \in [Accounts -> {"asset", "liability", "equity", "revenue", "expense"}]
    /\ AccountType[Result] = "expense" /\ AccountType[Retained] \notin {"revenue", "expense"}
ASSUME MonthDaysAssumption == MonthDays \in Nat \ {0}

\* WithProvisions refuses accounts that are missing, cancel each other out, or
\* are the close's own.
ASSUME FallbackAssumption ==
    /\ Fallback \in [{"depreciation", "accumulated", "badDebt", "provision"} -> Accounts \ {Result, Retained}]
    /\ Fallback.depreciation # Fallback.accumulated
    /\ Fallback.badDebt # Fallback.provision

\* BadDebtPolicy.Validate: the first band catches what is not yet due, each
\* later one starts after the one before, and none provides more than all.
ASSUME BandsAssumption ==
    /\ IsFiniteSet(DOMAIN Bands)
    /\ DOMAIN Bands = 1 .. Cardinality(DOMAIN Bands) /\ DOMAIN Bands # {}
    /\ \A i \in DOMAIN Bands : Bands[i].percent \in 0 .. 100
    /\ Bands[1].from = 0
    /\ \A i \in DOMAIN Bands : i > 1 => Bands[i].from > Bands[i - 1].from

ProfitAndLoss == {a \in Accounts : AccountType[a] \in {"revenue", "expense"}}
Blank == [a \in Accounts |-> 0]

-----------------------------------------------------------------------------
(* Depreciation.                                                           *)

\* Calendar months a period touches.
MonthsSpanned(p) == (p.last \div MonthDays) - (p.first \div MonthDays) + 1

ValidAsset(a) ==
    /\ a.life > 0 /\ a.cost > 0
    /\ 0 <= a.residual /\ a.residual <= a.cost

\* Straight line in whole dong, and never nothing.
MonthlyRate(a) ==
    LET rate == (a.cost - a.residual) \div a.life IN IF rate = 0 THEN 1 ELSE rate

\* The rate for each month, until the asset stands at its residual.
DepreciationFor(a, months) ==
    LET remaining == a.cost - a.residual - a.accumulated
        charge == MonthlyRate(a) * months
    IN  IF remaining <= 0 THEN 0 ELSE IF charge > remaining THEN remaining ELSE charge

-----------------------------------------------------------------------------
(* Bad debt.                                                               *)

DaysOverdue(due, asOf) == IF asOf < due THEN 0 ELSE asOf - due

\* The oldest band the days reach.
BandIndex(days) == CHOOSE i \in DOMAIN Bands :
    /\ Bands[i].from <= days
    /\ \A j \in DOMAIN Bands : Bands[j].from <= days => j <= i

\* What is outstanding in a band, credit balances left out.
Aged(receivables, asOf, i) ==
    Total([r \in {s \in receivables : s.amount > 0 /\ BandIndex(DaysOverdue(s.due, asOf)) = i}
            |-> r.amount])

BadDebtFor(receivables, asOf, i) == (Aged(receivables, asOf, i) * Bands[i].percent) \div 100

-----------------------------------------------------------------------------
(* The provision entries.                                                  *)

\* checkProvisionPair: an expense the close will clear, into an account it
\* will not.
ValidPair(expense, accumulation) ==
    /\ expense # accumulation
    /\ {expense, accumulation} \cap {Result, Retained} = {}
    /\ {expense, accumulation} \subseteq Postable
    /\ AccountType[expense] = "expense"
    /\ accumulation \notin ProfitAndLoss

Charge(what, expense, accumulation, amount) ==
    [what |-> what, expense |-> expense, accumulation |-> accumulation, amount |-> amount]

\* An asset may name its own accounts.
Depreciations(p, assets) ==
    {Charge(<<"asset", a.id>>, IF a.expense = "" THEN Fallback.depreciation ELSE a.expense,
            IF a.accumulation = "" THEN Fallback.accumulated ELSE a.accumulation,
            DepreciationFor(a, MonthsSpanned(p))) : a \in assets}

BadDebts(p, receivables) ==
    {Charge(<<"band", Bands[i].name>>, Fallback.badDebt, Fallback.provision, BadDebtFor(receivables, p.last, i)) :
        i \in DOMAIN Bands}

\* provisionsFor: what the period is charged, nothing left out but zeros.
Provided(p, facts) ==
    {c \in Depreciations(p, facts.assets) : c.amount # 0}
        \cup {c \in BadDebts(p, facts.receivables) : c.amount # 0}

\* Every asset is sound, every pair of accounts that is charged, and the bad
\* debt pair as soon as a band holds anything, whatever it provides.
CanProvide(p, facts) ==
    /\ \A a \in facts.assets : ValidAsset(a)
    /\ \A c \in Provided(p, facts) : ValidPair(c.expense, c.accumulation)
    /\ (\E r \in facts.receivables : r.amount > 0) => ValidPair(Fallback.badDebt, Fallback.provision)

Charged(charges) == Total([c \in charges |-> c.amount])

\* The expenses the provisions add to the period's balances.
WithProvisions(balances, charges) ==
    [a \in DOMAIN balances |-> balances[a] + Charged({c \in charges : c.expense = a})]

-----------------------------------------------------------------------------
(* The closing entries.                                                    *)

NothingLeft(balances) == \A a \in DOMAIN balances : balances[a] = 0

\* An earlier close left the result half determined.
CanClear(balances) == balances[Result] = 0

Of(balances, type) == Total([a \in {b \in DOMAIN balances : AccountType[b] = type} |-> balances[a]])
NetProfit(balances) == Of(balances, "revenue") - Of(balances, "expense")

\* Each account is emptied into the result account, which is emptied into
\* retained earnings: the result account ends where it began.
Closing(balances) ==
    [a \in Accounts |-> CASE a = Result   -> 0
                          [] a = Retained -> -NetProfit(balances)
                          [] a \in ProfitAndLoss \ {Result} ->
                                IF AccountType[a] = "revenue" THEN balances[a] ELSE -balances[a]
                          [] OTHER -> 0]

\* What passes through the result account on each of its sides: every emptied
\* account lands on it, and the carrying line makes the two sides equal.
ThroughResult(balances) ==
    LET effect(a) == IF AccountType[a] = "revenue" THEN balances[a] ELSE -balances[a]
        credits == Total([a \in {b \in DOMAIN balances : effect(b) > 0} |-> effect(a)])
        debits == -Total([a \in {b \in DOMAIN balances : effect(b) < 0} |-> effect(a)])
    IN  IF debits > credits THEN debits ELSE credits

\* Mutant: the entries are built from the books before the provisions are in.
ClosingVoucherHeld(held, charges) ==
    [a \in Accounts |->
        Closing(held)[a] + Charged({c \in charges : c.expense = a})
                         - Charged({c \in charges : c.accumulation = a})]

\* The one voucher of a close: the provisions, then the entries that carry
\* them with everything else.
ClosingVoucher(held, charges) ==
    LET closing == Closing(WithProvisions(held, charges)) IN
    [a \in Accounts |->
        closing[a] + Charged({c \in charges : c.expense = a})
                   - Charged({c \in charges : c.accumulation = a})]
===============================================================================
