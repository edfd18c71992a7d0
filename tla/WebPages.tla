------------------------------- MODULE WebPages -------------------------------
(***************************************************************************)
(* What the web interface shows of the books: the document list and a      *)
(* document's page, the chart of accounts, the dashboard and its work      *)
(* list.  Each page is read whole under the books' mutex.                  *)
(***************************************************************************)
EXTENDS WebBook

-----------------------------------------------------------------------------
(* The documents. *)

VoucherOf(id) == posted[CHOOSE i \in DOMAIN posted : posted[i].id = id]

RowOf(id) ==
    LET d == filed[id] IN
    [id |-> id, kind |-> d.kind, day |-> d.day, total |-> d.total, allocated |-> d.allocated,
     outstanding |-> d.total - d.allocated, status |-> d.status]

\* A manual entry's total is what it moves: its debit side.
JournalRow(id) ==
    [id |-> id, kind |-> "journal", day |-> VoucherOf(id).day,
     total |-> SideOf(VoucherOf(id).lines, "debit"), allocated |-> 0, outstanding |-> 0,
     status |-> "posted"]

\* Within a day rows go by the text of their ids: rcp, jnl, inv, then number.
Rank == [invoice |-> 1, journal |-> 2, receipt |-> 3]

Newer(r, q) ==
    \/ r.day > q.day
    \/ r.day = q.day /\ Rank[r.kind] > Rank[q.kind]
    \/ r.day = q.day /\ r.kind = q.kind /\ r.id > q.id

Listed(kind) ==
    {r \in {RowOf(id) : id \in DOMAIN filed} \cup {JournalRow(id) : id \in journals} : kind \in {Blank, r.kind}}

\* Newest first, of one kind or of all: a row stands behind those newer than it.
Documents(kind) ==
    LET listed == Listed(kind) IN
    [n \in 1 .. Cardinality(listed) |->
        CHOOSE r \in listed : Cardinality({q \in listed : Newer(q, r)}) = n - 1]

JournalPage(id) == [row |-> JournalRow(id), payable |-> FALSE, allocations |-> {}]

DocumentPage(id) ==
    IF id \in journals THEN JournalPage(id)
    ELSE [row |-> RowOf(id), payable |-> filed[id].status \in {"open", "partially_paid"},
          allocations |-> {r \in settlements : r.doc = id}]

\* The payment form that a document's page opens, filled in from it.
PaymentForm(id) ==
    [customer |-> filed[id].partner, day |-> filed[id].day, amount |-> DocumentPage(id).row.outstanding,
     against |-> id]

-----------------------------------------------------------------------------
(* The chart. *)

\* However a heading came to be, the walk up to it stops here.
Deepest == 16

\* How far under a heading an account sits.
Depth(code) ==
    LET cur == Climb(chart, code, Deepest)
        Stops(n) == n = Deepest \/ ~Holds(chart, cur[n]) \/ Topmost(chart, cur[n])
    IN  CHOOSE n \in 0 .. Deepest : Stops(n) /\ \A m \in 0 .. n - 1 : ~Stops(m)

-----------------------------------------------------------------------------
(* The dashboard, and the trial balance it says it reads. *)

\* period.Current: the period today falls in, or else the latest there is.
Current ==
    IF Dated(Today) THEN PeriodFor(Today)
    ELSE CHOOSE p \in years : \A q \in years : q.first <= p.first

Reported == {i \in DOMAIN posted : posted[i].day <= Current.last}

OnlyOn(account, ls) == Restrict(ls, {i \in DOMAIN ls : ls[i].account = account})

\* What an account closes the current period at, debit less credit.
Closing(account) ==
    Total([i \in Reported |-> SideOf(OnlyOn(account, posted[i].lines), "debit")
                                - SideOf(OnlyOn(account, posted[i].lines), "credit")])

\* The invoices of the list that are still owed.
Open ==
    {RowOf(id) : id \in {i \in DOMAIN filed :
                            filed[i].kind = "invoice" /\ filed[i].status \notin {"void", "paid"}}}

Dashboard ==
    [open       |-> Open,
     receivable |-> Total([r \in Open |-> r.outstanding]),
     cash       |-> Total([account \in Cash \cap DOMAIN chart |-> Closing(account)]),
     payable    |-> -Total([account \in Suppliers \cap DOMAIN chart |-> Closing(account)]),
     balanced   |-> Total([account \in DOMAIN chart |-> Closing(account)]) = 0]

\* No period of these books is ever locked; one has ended once its last day has
\* begun, for its end is a midnight and the clock is not.
Ended == {p \in years : p.last <= Today}

\* The work list: what there is to do, and how much of it.
Attention ==
    {row \in {[what |-> "invoices outstanding", count |-> Cardinality(Dashboard.open)],
              [what |-> "periods ended but not locked", count |-> Cardinality(Ended)],
              [what |-> "the ledger does not balance", count |-> IF Dashboard.balanced THEN 0 ELSE 1]} :
        row.count > 0}

-----------------------------------------------------------------------------
(* Properties. *)

\* Every document and every manual entry has one voucher, of its own amount and
\* in its own period, and no voucher stands for anything else.
VouchersHavePapers ==
    /\ \A i, j \in DOMAIN posted : posted[i].id = posted[j].id => i = j
    /\ {posted[i].id : i \in DOMAIN posted} = DOMAIN filed \cup journals
    /\ \A i \in DOMAIN posted :
        /\ Agrees(posted[i].lines)
        /\ posted[i].id \in DOMAIN filed =>
            LET d == filed[posted[i].id] IN
            SideOf(posted[i].lines, "debit") = d.total /\ PeriodFor(posted[i].day).id = d.period

RowsOf(receipt) == {r \in settlements \cup overpayments : r.payment = receipt}

\* A receipt settles one document with all of its money, or none with any.
MoneySpentOnce ==
    /\ \A id \in DOMAIN filed :
        filed[id].allocated = Total([r \in {s \in settlements : s.doc = id} |-> r.amount])
    /\ \A r \in settlements \cup overpayments :
        /\ filed[r.payment].kind = "receipt"
        /\ Total([row \in RowsOf(r.payment) |-> row.amount]) = filed[r.payment].total

\* A key posts once, unless what it wrote was never answered for or the answer
\* has expired; and what was answered for is in the books.
KeyPostsOnce ==
    /\ \A i, j \in DOMAIN posted :
        i # j /\ posted[i].by = posted[j].by => posted[i].by \in forgotten
    /\ \A r \in answers :
        r.form.kind \in {"invoice", "payment", "journal"} => \E i \in DOMAIN posted : posted[i].by = r.key

\* The list shows every voucher once, at what it moved; a page's allocations are
\* what its row says is allocated, and it offers a payment, of something, exactly
\* when its row shows something owed; an account sits one under its heading, as
\* deep as the page goes; and the work list never holds a broken ledger.
PagesTell ==
    LET list == Documents(Blank) IN
    /\ Len(list) = Len(posted)
    /\ \A n \in DOMAIN list :
        LET row == list[n]
            page == DocumentPage(row.id)
        IN
        /\ row.total = SideOf(VoucherOf(row.id).lines, "debit")
        /\ page.row.allocated = Total([r \in page.allocations |-> r.amount])
        /\ page.payable <=> page.row.outstanding > 0
        /\ page.payable => Payable(row.id) /\ PaymentForm(row.id).amount > 0
    /\ \A code \in DOMAIN chart :
        IF Topmost(chart, code) THEN Depth(code) = 0
        ELSE Depth(code) = IF Depth(chart[code].parent) < Deepest THEN Depth(chart[code].parent) + 1 ELSE Deepest
    /\ \A row \in Attention : row.what # "the ledger does not balance"

\* Whatever was submitted twice, raced, refused half way, answered with an error
\* after it was written, or sent again after its answer expired: vouchers,
\* documents and settlements explain one another, the chart that forms add to
\* stays a forest (accounts.go:50), the calendar has no gap, and the pages tell
\* all of it.
BookExplained ==
    /\ VouchersHavePapers
    /\ MoneySpentOnce
    /\ KeyPostsOnce
    /\ ValidChart(chart) /\ Sequence(years)
    /\ PagesTell

\* view.go:170-174 says of what is owed to the business and of what it owes:
\* "Both are read off the same trial balance the report shows, so the dashboard
\* and the balance sheet cannot disagree about either."
DashboardReadsTrialBalance ==
    Dashboard.receivable = Closing(AccountFor(TT133Defaults, "debit", "ASSET"))
===============================================================================
