-------------------------------- MODULE WebBook --------------------------------
(***************************************************************************)
(* The web interface: web/books, a client's books in memory behind one     *)
(* mutex, and web/handlers, which writes to them and then renders a page   *)
(* as the answer, with the idempotency middleware around both.             *)
(*                                                                         *)
(* The middleware is taken at what IdempotencyContract says of it: one     *)
(* arrival of a key at a time, a success replayed while its record is      *)
(* kept, another request under the same key refused, a failure not         *)
(* recorded.  Documents follow DocumentRules; ids are the number that      *)
(* every kind of record draws from.                                        *)
(***************************************************************************)
EXTENDS VatRegistry, Calendar, ChartOfAccounts, Totals, Sequences

CONSTANTS
    Visitors,       \* browsers at work at once
    Requests,       \* forms a browser may submit, each under its key
    TT133Chart,     \* the chart the books are seeded with
    Year,           \* the period they are seeded with
    Today,          \* the day the clock says
    Cash,           \* accounts whose code starts with 111 or 112
    Suppliers,      \* accounts whose code starts with 331
    MaxArrivals     \* bound: requests a behaviour runs

Rules == INSTANCE DocumentRules
            WITH Docs <- Nat, Drafts <- {}, Applications <- {}, NoDocument <- 0

\* What the forms collect.  A blank rate is no VAT, an invoice 0 is none.
InvoiceInput == [kind : {"invoice"}, customer : STRING, day : Int, net : Int, vatRate : STRING]
PaymentInput == [kind : {"payment"}, customer : STRING, day : Int, amount : Int,
                 account : STRING, against : Nat]
JournalInput == [kind : {"journal"}, day : Int,
                 lines : Seq([account : STRING, side : STRING, amount : Int])]
AccountInput == [kind : {"account"}, code : STRING, name : STRING, parent : STRING,
                 type : STRING, nature : STRING]
PeriodInput  == [kind : {"period"}, id : STRING, first : Int, last : Int]
VATRateInput == [kind : {"rate"}, id : STRING, rate : Int, first : Int, last : Int]

ASSUME RequestsAssumption ==
    \A r \in Requests :
        r.form \in InvoiceInput \cup PaymentInput \cup JournalInput
                    \cup AccountInput \cup PeriodInput \cup VATRateInput
ASSUME SeedAssumption ==
    /\ ValidChart(TT133Chart) /\ IsFiniteSet(DOMAIN TT133Chart)
    /\ Year \in Period /\ ValidPeriod(Year)
    /\ {r.account : r \in TT133Defaults} \subseteq DOMAIN TT133Chart

VARIABLES
    filed,          \* documents by id: the memory repository
    settlements, overpayments,      \* its allocations and credits
    posted,         \* the vouchers, in the order they were posted
    journals,       \* the ids of manual entries
    years,          \* the accounting periods
    rates,          \* the rows of the VAT registry
    chart,          \* the chart of accounts
    seq,            \* the last number an id was made of
    answers,        \* the middleware's records
    visit,          \* what each browser's request is at
    forgotten,      \* keys that wrote and have no answer on file
    arrivals        \* requests received

paper == <<filed, settlements, overpayments, posted, journals, seq>>
setup == <<years, rates, chart>>
webVars == <<paper, setup, answers, visit, forgotten, arrivals>>

Quiet == [pc |-> "idle"]

\* New: the chart, the year and the standard rate.
WebInit ==
    /\ filed = <<>> /\ settlements = {} /\ overpayments = {}
    /\ posted = <<>> /\ journals = {} /\ seq = 0
    /\ years = {Year} /\ chart = TT133Chart
    /\ rates = {[id |-> "VAT10", rate |-> 1000, first |-> Year.first, last |-> Unended, active |-> FALSE]}
    /\ answers = {} /\ forgotten = {}
    /\ visit = [v \in Visitors |-> Quiet] /\ arrivals = 0

-----------------------------------------------------------------------------
(* The middleware. *)

\* Mutant: a key is only taken once its handler has written.
InFlightOnceWritten(key) == \E v \in Visitors : visit[v].pc = "render" /\ visit[v].request.key = key

InFlight(key) == \E v \in Visitors : visit[v] # Quiet /\ visit[v].request.key = key

Answered(key) == \E r \in answers : r.key = key

\* A request with no answer on file, and no other of its key at work.
Arrive(v, r) ==
    /\ visit[v] = Quiet /\ arrivals < MaxArrivals
    /\ ~Answered(r.key) /\ ~InFlight(r.key)
    /\ visit' = [visit EXCEPT ![v] = [pc |-> "write", request |-> r]]
    /\ arrivals' = arrivals + 1
    /\ UNCHANGED <<paper, setup, answers, forgotten>>

\* Answered before: the same page again, or 409 for another form.
Repeat(v, r) ==
    /\ visit[v] = Quiet
    /\ Answered(r.key)
    /\ UNCHANGED webVars

AnswerExpires(r) ==
    /\ r \in answers
    /\ answers' = answers \ {r}
    /\ forgotten' = forgotten \cup {r.key}
    /\ UNCHANGED <<paper, setup, visit, arrivals>>

-----------------------------------------------------------------------------
(* web/books: each write happens whole, under the books' mutex. *)

SideOf(ls, side) == Total([i \in DOMAIN ls |-> IF ls[i].side = side THEN ls[i].amount ELSE 0])

OnSide(account, side, amount) == [account |-> account, side |-> side, amount |-> amount]

\* The period a day falls in; a day outside every period is refused.
Dated(day) == \E p \in years : Covers(p, day)
PeriodFor(day) == CHOOSE p \in years : Covers(p, day)

Resolves(side, type) == Holds(chart, AccountFor(TT133Defaults, side, type))

\* Books.post, the last check: the two sides agree.
Agrees(ls) == SideOf(ls, "debit") = SideOf(ls, "credit")

PostVoucher(v, id, day, ls) ==
    /\ Agrees(ls)
    /\ posted' = Append(posted, [id |-> id, day |-> day, lines |-> ls, by |-> visit[v].request.key])

AsLines(ls) ==
    [i \in DOMAIN ls |->
        [debit |-> IF ls[i].side = "debit" THEN ls[i].amount ELSE 0,
         credit |-> IF ls[i].side = "credit" THEN ls[i].amount ELSE 0,
         currency |-> "VND"]]

Document(kind, form, total, rate) ==
    [kind |-> kind, partner |-> form.customer, day |-> form.day,
     period |-> PeriodFor(form.day).id, rate |-> rate,
     total |-> total, currency |-> "VND", allocated |-> 0, status |-> "open"]

\* MemoryRepository.Create of a document and its lines.
File(docs, id, d) == [x \in DOMAIN docs \cup {id} |-> IF x = id THEN d ELSE docs[x]]

\* What it refuses.
CanFile(d, ls) == Rules!CheckNew([document |-> d, lines |-> AsLines(ls)])

Tax(form) == IF form.vatRate = Blank THEN 0 ELSE ChargeOn(rates, form.vatRate, form.net)

InvoiceLines(form) ==
    LET sale ==
            <<OnSide(AccountFor(TT133Defaults, "debit", "ASSET"), "debit", form.net + Tax(form)),
              OnSide(AccountFor(TT133Defaults, "credit", "REVENUE"), "credit", form.net)>>
    IN  IF Tax(form) = 0 THEN sale
        ELSE Append(sale, OnSide(AccountFor(TT133Defaults, "credit", "LIABILITY"), "credit", Tax(form)))

Invoice(form) == Document("invoice", form, form.net + Tax(form), form.vatRate)

CanInvoice(form) ==
    /\ form.customer # Blank /\ form.net > 0
    /\ Dated(form.day)
    /\ form.vatRate = Blank \/ KnownRate(rates, form.vatRate)
    /\ Resolves("debit", "ASSET") /\ Resolves("credit", "REVENUE") /\ Resolves("credit", "LIABILITY")
    /\ CanFile(Invoice(form), InvoiceLines(form))

CreateInvoice(v, form) ==
    /\ seq' = seq + 1
    /\ filed' = File(filed, seq', Invoice(form))
    /\ PostVoucher(v, seq', form.day, InvoiceLines(form))
    /\ UNCHANGED <<settlements, overpayments, journals, setup>>

\* The two lines of money received.  The account credited is the rules' answer
\* for the credit side of an asset.
PaymentLines(form) ==
    <<OnSide(form.account, "debit", form.amount),
      OnSide(AccountFor(TT133Defaults, "credit", "ASSET"), "credit", form.amount)>>

Receipt(form) == Document("receipt", form, form.amount, Blank)

\* The target is looked at before anything is written.
Payable(id) == id \in DOMAIN filed /\ filed[id].status \notin {"paid", "void"}

CanReceive(form) ==
    /\ form.customer # Blank /\ form.amount > 0
    /\ form.account # Blank /\ Holds(chart, form.account)
    /\ Dated(form.day) /\ Resolves("credit", "ASSET")
    /\ form.against # 0 => Payable(form.against)
    /\ CanFile(Receipt(form), PaymentLines(form))

SettlementOf(form, receipt, id) ==
    [id |-> id, doc |-> form.against, payment |-> receipt, amount |-> form.amount, currency |-> "VND"]

\* A receipt, and a settlement when it is against a document.
CreatePayment(v, form) ==
    LET id  == seq + 1
        app == SettlementOf(form, id, seq + 2)
    IN  /\ PostVoucher(v, id, form.day, PaymentLines(form))
        /\ IF form.against = 0
           THEN /\ filed' = File(filed, id, Receipt(form))
                /\ seq' = id
                /\ UNCHANGED <<settlements, overpayments>>
           ELSE LET target == filed[form.against] IN
                /\ Rules!MaySettle(target, app)
                /\ filed' = File([filed EXCEPT ![form.against] = Rules!Settled(target, app)], id, Receipt(form))
                /\ settlements' = settlements \cup Rules!AllocationRows(target, app)
                /\ overpayments' = overpayments \cup Rules!CreditRows(target, app)
                /\ seq' = app.id
        /\ UNCHANGED <<journals, setup>>

\* A row of the form that names nothing is one the operator left alone.
FilledIn(ls) == Restrict(ls, {i \in DOMAIN ls : ls[i].account # Blank \/ ls[i].amount # 0})

WellFormed(form) ==
    /\ Dated(form.day)
    /\ \A i \in DOMAIN FilledIn(form.lines) :
        LET l == FilledIn(form.lines)[i] IN
        l.account # Blank /\ Holds(chart, l.account) /\ l.amount > 0 /\ l.side \in {"debit", "credit"}
    /\ Cardinality(DOMAIN FilledIn(form.lines)) >= 2

CreateJournal(v, form) ==
    /\ seq' = seq + 1
    /\ PostVoucher(v, seq', form.day, FilledIn(form.lines))
    /\ journals' = journals \cup {seq'}
    /\ UNCHANGED <<filed, settlements, overpayments, setup>>

\* The account sits under one that exists; the chart is not validated again.
CanPlaceAccount(form) ==
    /\ form.parent # Blank => Holds(chart, form.parent)
    /\ CanAddAccount(chart, form)

CreateAccount(form) ==
    /\ chart' = AddAccount(chart, form)
    /\ UNCHANGED <<paper, years, rates>>

Candidate(form) == [id |-> form.id, first |-> form.first, last |-> form.last]

CreatePeriod(form) ==
    /\ years' = years \cup {Candidate(form)}
    /\ UNCHANGED <<paper, rates, chart>>

\* A rate is never created active, so no window is compared with another.
Row(form) ==
    [id |-> form.id, rate |-> form.rate, first |-> form.first, last |-> form.last, active |-> FALSE]

CreateVATRate(form) ==
    /\ rates' = rates \cup {Row(form)}
    /\ UNCHANGED <<paper, years, chart>>

-----------------------------------------------------------------------------
(* The handlers. *)

Balancing(form) == WellFormed(form) /\ Agrees(FilledIn(form.lines))

Acceptable(form) ==
    CASE form.kind = "invoice" -> CanInvoice(form)
      [] form.kind = "payment" -> CanReceive(form)
      [] form.kind = "journal" -> Balancing(form)
      [] form.kind = "account" -> CanPlaceAccount(form)
      [] form.kind = "period"  -> CanAdd(years, Candidate(form))
      [] form.kind = "rate"    -> CanCreateRate(rates, Row(form))

\* What the books do for a form they accept.
Writing(v, form) ==
    \/ form.kind = "invoice" /\ CreateInvoice(v, form)
    \/ form.kind = "payment" /\ CreatePayment(v, form)
    \/ form.kind = "journal" /\ CreateJournal(v, form)
    \/ form.kind = "account" /\ CreateAccount(form)
    \/ form.kind = "period" /\ CreatePeriod(form)
    \/ form.kind = "rate" /\ CreateVATRate(form)

Write(v) ==
    /\ visit[v].pc = "write"
    /\ Acceptable(visit[v].request.form)
    /\ Writing(v, visit[v].request.form)
    /\ visit' = [visit EXCEPT ![v].pc = "render"]
    /\ UNCHANGED <<answers, forgotten, arrivals>>

\* An entry that is found not to balance has drawn its number by then.
DrewNumber(form) == form.kind = "journal" /\ WellFormed(form)

\* 422, with what was typed: not an answer.
Refused(v) ==
    /\ visit[v].pc = "write"
    /\ ~Acceptable(visit[v].request.form)
    /\ seq' = IF DrewNumber(visit[v].request.form) THEN seq + 1 ELSE seq
    /\ visit' = [visit EXCEPT ![v] = Quiet]
    /\ UNCHANGED <<filed, settlements, overpayments, posted, journals, setup, answers, forgotten, arrivals>>

\* 200 with the page as it now stands: recorded, and given back on a repeat.
Render(v) ==
    /\ visit[v].pc = "render"
    /\ answers' = answers \cup {visit[v].request}
    /\ visit' = [visit EXCEPT ![v] = Quiet]
    /\ UNCHANGED <<paper, setup, forgotten, arrivals>>

\* The list could not be read or its template failed: 500 for a write that was
\* done, and nothing recorded.
RenderFails(v) ==
    /\ visit[v].pc = "render"
    /\ visit' = [visit EXCEPT ![v] = Quiet]
    /\ forgotten' = forgotten \cup {visit[v].request.key}
    /\ UNCHANGED <<paper, setup, answers, arrivals>>

WebNext ==
    \/ \E v \in Visitors :
        \/ \E r \in Requests : Arrive(v, r) \/ Repeat(v, r)
        \/ Write(v) \/ Refused(v) \/ Render(v) \/ RenderFails(v)
    \/ \E r \in answers : AnswerExpires(r)

WebSpec == WebInit /\ [][WebNext]_webVars
===============================================================================
