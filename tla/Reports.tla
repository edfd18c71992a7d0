------------------------------- MODULE Reports -------------------------------
(***************************************************************************)
(* The reports of the reports package over the ledger that PeriodClose     *)
(* posts to: the trial balance, the profit and loss and the balance sheet  *)
(* of a period, each summed from the posted lines alone.                   *)
(*                                                                         *)
(* The lines a voucher puts on one account are netted, save those that     *)
(* pass through the result account: a turnover column is the net of each   *)
(* voucher and not of each line.                                           *)
(***************************************************************************)
EXTENDS PeriodClose

\* A zero "from", the beginning of the books.
Ever == None

Line(i, account, side, amount) ==
    [voucher |-> i, day |-> log[i].day, account |-> account, side |-> side, amount |-> amount]

Sides == {"debit", "credit"}

\* What a voucher put on an account, never negative and never nothing.
LinesOf(i) ==
    LET net == log[i].lines IN
    {Line(i, a, IF net[a] > 0 THEN "debit" ELSE "credit", IF net[a] > 0 THEN net[a] ELSE -net[a]) :
        a \in {b \in Accounts : net[b] # 0}}
    \cup {Line(i, Result, side, log[i].through) : side \in IF log[i].through = 0 THEN {} ELSE Sides}

\* Journal.Lines: the posted lines between two days, both included.
Lines(from, to) ==
    UNION {LinesOf(i) : i \in {j \in DOMAIN log : (from = Ever \/ from <= log[j].day) /\ log[j].day <= to}}

-----------------------------------------------------------------------------
(* reports.go.                                                             *)

\* A voucher that touches the result account is a closing entry.
ClosingVouchers(lines) == {l.voucher : l \in {k \in lines : k.account = Result}}

\* Mutant: only the line on the result account is left out.
MovementsWithoutResult(lines, from, excluded) ==
    LET read == {l \in lines : ~(l.voucher \in excluded /\ l.account = Result)}
        opening == {l \in read : from # Ever /\ l.day < from}
    IN  [a \in {l.account : l \in read} |->
            LET on(S, side) == Total([l \in {k \in S : k.account = a /\ k.side = side} |-> l.amount]) IN
            [opening |-> [s \in Sides |-> on(opening, s)],
             period  |-> [s \in Sides |-> on(read \ opening, s)],
             carried |-> {l.voucher : l \in {k \in read : k.account = a}},
             periodCarried |-> {l.voucher : l \in {k \in read \ opening : k.account = a}}]]

\* movements: for each account that was touched, what it carried into the
\* period, what the period did to it and the vouchers behind both, excluded
\* vouchers left out whole.
MovementsIn(lines, from, excluded) ==
    LET read == {l \in lines : l.voucher \notin excluded}
        opening == {l \in read : from # Ever /\ l.day < from}
    IN  [a \in {l.account : l \in read} |->
            LET on(S, side) == Total([l \in {k \in S : k.account = a /\ k.side = side} |-> l.amount]) IN
            [opening |-> [s \in Sides |-> on(opening, s)],
             period  |-> [s \in Sides |-> on(read \ opening, s)],
             carried |-> {l.voucher : l \in {k \in read : k.account = a}},
             periodCarried |-> {l.voucher : l \in {k \in read \ opening : k.account = a}}]]

\* A balance stands on one side.
Netted(sides) ==
    LET net == sides["debit"] - sides["credit"] IN
    [debit |-> IF net < 0 THEN 0 ELSE net, credit |-> IF net < 0 THEN -net ELSE 0]

\* realm: the period is in the calendar; the chart always holds the result
\* account here (ClosingAccountsAssumption).
CanReport(id) == \E p \in periods : p.id = id

-----------------------------------------------------------------------------
(* trialbalance.go.                                                        *)

TrialBalanceRow(held) ==
    LET closed == [s \in Sides |-> held.opening[s] + held.period[s]] IN
    [opening |-> Netted(held.opening), period |-> held.period, closing |-> Netted(closed),
     sources |-> held.carried]

TrialBalance(p) ==
    LET found == MovementsIn(Lines(Ever, p.last), p.first, {})
        rows == [a \in DOMAIN found |-> TrialBalanceRow(found[a])]
        column(c) == [s \in Sides |-> Total([a \in DOMAIN rows |-> rows[a][c][s]])]
    IN  [rows |-> rows, opening |-> column("opening"), period |-> column("period"),
         closing |-> column("closing"), sources |-> UNION {rows[a].sources : a \in DOMAIN rows}]

TrialBalanced(t) ==
    \A c \in {t.opening, t.period, t.closing} : c["debit"] = c["credit"]

-----------------------------------------------------------------------------
(* profitandloss.go.                                                       *)

\* Revenue in its own sense, and expenses in theirs.
Earned(held, type) ==
    IF type = "revenue" THEN held.period["credit"] - held.period["debit"]
    ELSE held.period["debit"] - held.period["credit"]

ProfitAndLossReport(p) ==
    LET lines == Lines(p.first, p.last)
        excluded == ClosingVouchers(lines)
        found == MovementsIn(lines, p.first, excluded)
        rows(type) == [a \in {b \in DOMAIN found : AccountType[b] = type} |-> Earned(found[a], type)]
        total(type) == Total(rows(type))
    IN  [revenue |-> rows("revenue"), expenses |-> rows("expense"),
         net |-> total("revenue") - total("expense"),
         excluded |-> excluded,
         sources |-> UNION {found[a].periodCarried : a \in DOMAIN found}]

-----------------------------------------------------------------------------
(* balancesheet.go.                                                        *)

BalanceSheet(p) ==
    LET found == MovementsIn(Lines(Ever, p.last), Ever, {})
        standing(a) == found[a].period["debit"] - found[a].period["credit"]
        section(types) == {a \in DOMAIN found : AccountType[a] \in types}
        total(types) == Total([a \in section(types) |-> standing(a)])
        result == -total({"revenue", "expense"})
    IN  [assets |-> total({"asset"}), liabilities |-> -total({"liability"}),
         result |-> result, equity |-> result - total({"equity"}),
         sources |-> UNION {found[a].carried : a \in DOMAIN found}]

SheetBalanced(b) == b.assets = b.liabilities + b.equity

-----------------------------------------------------------------------------
(* Properties.                                                             *)

\* The entries of the desk in a period, those its close had read and the later.
DeskIn(p)  == {i \in DOMAIN log : log[i].key = None /\ Covers(p, log[i].day)}
EarlyIn(p) == {i \in DeskIn(p) : i <= Since(p.id)}
LateIn(p)  == DeskIn(p) \ EarlyIn(p)

\* A voucher the report takes for a closing one.
LeftOut(i) == log[i].lines[Result] # 0 \/ log[i].through # 0

\* What vouchers earned.
ProfitOf(indices) == -Total([ia \in indices \X ProfitAndLoss |-> log[ia[1]].lines[ia[2]]])

\* A period closed by entries, in which nobody but its close has touched the
\* result account: what the report takes for granted of the account.
Closed(p) == Closings(p.id) # {} /\ \A i \in DeskIn(p) : ~LeftOut(i)

\* The profit reported is what the close carried to retained earnings, with
\* what was posted after the close had read the balances.
ReportsCarried(p) == ProfitAndLossReport(p).net = Carried(p.id) + ProfitOf(LateIn(p))

\* Every ledger a close can leave behind is seen with nobody at work, because
\* any call may stop where it is.
AtRest == desk = None /\ \A o \in Operators : pc[o] = "idle"

\* The three reports agree with each other and with what the closes did,
\* wherever closes and desk have stopped: the trial balance and the sheet
\* balance; the profit of a period whose close had no provisions to charge is
\* what that close carried; and once every entry up to a day has been carried
\* the sheet has no result standing (profitandloss.go:21, balancesheet.go:41).
StatementsAgree ==
    AtRest => \A p \in periods :
        LET sheet == BalanceSheet(p) IN
        /\ TrialBalanced(TrialBalance(p))
        /\ SheetBalanced(sheet)
        /\ Closed(p) /\ ChargedBy(p.id) = 0 => ReportsCarried(p)
        /\ (\A i \in DOMAIN log : log[i].key = None /\ log[i].day <= p.last =>
                \E q \in periods : Covers(q, log[i].day) /\ Closings(q.id) # {} /\ i <= Since(q.id))
            => sheet.result = 0

\* profitandloss.go:28-29 and :45-47 say it of every close: the report's net
\* profit is exactly what a close carries to retained earnings.
NetProfitIsCarried == AtRest => \A p \in periods : Closed(p) => ReportsCarried(p)
===============================================================================
