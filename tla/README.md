# Fingo, modelled

Fingo is an accounting engine in Go over MariaDB: a client's vouchers, number
books, stock log, invoices and periods, kept by a desktop program and a web
front end. These modules model the parts of it where what happens depends on
the order things happen in: requests that are repeated, transactions that
overlap, a calendar that is shut while an entry is on its way, statements that
fail half way, two writes that are not one transaction, a start or an upgrade
that is cut off.

All paths below are under `src/fingo/`.

## The modules

| Module | Models | State |
|---|---|---|
| `IdempotencyContract` | what `internal/idempotency` promises a client | the clock, the kept answers, what each arrival is told |
| `Idempotency` | `middleware.go`, `memory.go`, the sweep of `reaper.go` | the record store, the in-flight table, the closed channels, a program counter and a held response per arrival |
| `IdempotencyProofs` | theorems about `Idempotency` | |
| `DocumentRules` | `internal/document`: `document.go`, `line.go`, `allocation.go` | none: the pure rules |
| `Totals` | the sum that a loop over a slice or a query's rows computes | none: one operator |
| `TotalsProofs` | lemmas about `Totals`, for any finite set of amounts | |
| `DocumentBook` | `document.Repository` as `memory.go` keeps it | documents, lines, allocations, credits, applied pairs |
| `DocumentStore` | `internal/adapter/mariadb/documentstore` | the committed tables, row and gap locks, a transaction per session |
| `DocumentStoreProofs` | theorems about `DocumentStore` | |
| `StockPosition` | `internal/domain/inventory`: `stock.go`, `movements.go` | none: moving average and replay |
| `PostingLedger` | `ledger.Service`, `postingrepo`, `glrepo`, `stockrepo`, and the desk of `practice` | the calendar, number counters, vouchers, keys, documents, the stock log, a posting per caller |
| `PostingLedgerProofs` | theorems about `PostingLedger` | |
| `Calendar`, `ClosingEntries` | `internal/period`; `close/entries.go`, `close/provisions.go` | none: the rules of a calendar, of provisions and of closing entries |
| `PeriodClose` | `internal/close`, with the guard, the ledger and a desk beside it | the log, the calendar, the locks, the reports, a close per operator |
| `PeriodCloseProofs` | theorems about `PeriodClose`, `ClosingEntries` and `Reports` | |
| `Reports` | `internal/reports` and the query it reads | none: the three statements over `PeriodClose`'s log |
| `Pricing`, `PostingRules`, `ChartOfAccounts`, `VatRegistry` | `trading/pricing.go`, `internal/posting`, `domain/gl/account.go`, `internal/vat` | none: pure rules |
| `Warehouse` | `internal/inventory` | none: the stock ledger as a record, and what a move makes of it |
| `Trading` | `internal/trading` over a poster, a document book and a warehouse | ledger, documents and rows, orders, receipts, stock, a flow per caller |
| `TradingProofs` | theorems about `Trading` and `Warehouse` | |
| `WebBook`, `WebPages` | `web`, `web/books` | vouchers, documents, chart, years, rates, kept answers, a request per visitor; the pages are functions of it |
| `Settlement` | `domain/document`, `documentrepo`, the desk's `Settle`, the allocation trigger | papers, allocations, a settlement per clerk |
| `ClientScope` | `internal/client` | registered clients, their charts, their rows, the registration and the requests in progress |
| `PracticeProofs` | theorems about `ClientScope`, `Settlement`, `WebBook` and `WebPages` | |
| `Startup` | `cmd/fingo/main.go`, `boot`, `dbhost`, `singleton`, `onboarding`, `db/migrate.go`, `EnsureChart` | the disk, the installer, the server, the guard's handles, a program counter per copy |
| `SchemaUpgrade` | `internal/migrate` | tables, rows, records, triggers, files, the run and its dump |
| `StartupProofs` | theorems about `Startup` and `SchemaUpgrade` | |
| `MC*` | instances for TLC | |

### Idempotency

Each arrival of a keyed write is a process. It looks its key up (`Look`),
claims it in the in-flight table or finds who has (`Claim`, under the mutex),
waits for that flight's channel (`Wait`), or looks again once it leads
(`Recheck`), runs the handler (`Handle`: success, or a failure, or a panic),
records a success (`Put`, which may fail) and lets go in two steps, the claim
under the mutex (`Release`) and the channel after it (`Wake`). `Sweep` deletes
with the reaper's strict comparison while `Fresh` uses the look-up's. `Restart`
loses the store and everything in flight. A response is named by the arrival
whose handler made it, which is all the properties tell apart.

`IdempotencyContract` has one step for each arrival: performed, replayed,
refused as a conflict, or refused because it could not be checked. The
refinement reads the contract's answers off the store as the records that are
still fresh, so an expired record that is not yet swept is no answer.

### Documents

`DocumentRules` is shared: the abstract book and the store call the same rules,
as both repositories call `Settle` and `CheckNew`. `DocumentBook` makes each
operation one step. `DocumentStore` makes each statement one step: the locked
read, the insert or the decision, the update and the two row inserts, the
commit. Any statement may fail, and the answer to a commit may be lost.

InnoDB is modelled from how the store uses it: exclusive row locks held to the
end; a gap lock when `SELECT ... FOR UPDATE` finds nothing, which two sessions
may both hold and which makes the other's insert wait; unique keys; a deadlock
victim rolled back. The document ids are numbers because a gap is a place in
the order of the primary key.

### Postings

`Ask`, `Price`, `CheckLock`, `CheckCostLock`, `LoadRules`, `Admit`,
`EnsureSequence`, `ReserveSequence`, `AdvanceSequence` follow
`RecordSale.Execute`, `Service.Post` and `NextNumber`; `CheckStock` to `Commit`
are `postingrepo.Save`, one action per statement. A movement row takes its
place in the log when it is inserted and shows to others at the commit, so the
log carries its owner; what a transaction reads is `Among(log, ...)`, the rows of
a set in the log's order. `RecordMovement` is the bare stock desk: read, then one
autocommitted insert. `LockPeriod`, `CloseMonth` and `ReopenMonth` run beside
all of it.

A date is a member of `Days`, each a month and a locked range of its own. A
voucher's lines are one bit, whether it balances on accounts of the chart.
Quantities and costs are whole numbers; the average is rounded as `money.Dong`
rounds. The lines of a sale are priced one after the other, each by a reading of its
own, and others move stock in between.

### Closing a period

`PeriodClose` gives each read and write of `ClosePeriod` a step: calendar,
documents, balances, report, save, the post (the lock is asked in one step and
the voucher written in another), the number saved back, the lock. A close may
fail between any two and be started again, under the same voucher or another;
two operators may close at once; the desk posts in two steps of its own, as
`ledger.Service` does; documents are settled and periods added meanwhile.
`ClosingEntries` computes what the code computes: depreciation by months
spanned and capped at what is left, bad debts by age band, the provisions folded
into the balances, the entries that clear revenue and expense through the result
account. `Reports` reads the same log back into a trial balance, a profit and
loss report and a balance sheet.

### Trading

A flow of `internal/trading` is a posting and then a write to the document book.
Its first step does all the checking and all the in-memory recording, as the
code does; `Post` and `CreateDocument` or `ApplyPayment` are steps of their own.
The poster is what the package's port promises: it takes a voucher under an id
and a request key, or refuses a duplicate. Its answer may be lost, and a caller
may give up between the two writes. `ReceiveGoods` walks its lines (`RecordLine`)
into the warehouse and saves the receipt last. The document book is
`DocumentRules`' own `MaySettle` and `Settled`. `IssueGoods` posts the cost of an
issue; the revenue voucher `PostSale` hands over in the same transaction is
whatever its caller made of the sale, and is left out. A return is bounded by what
was issued under the movement it names, and nothing compares the two movements'
items.

`Asking(commands)` is the next-state relation for the commands given; `Next` is
`Asking(Commands)`. `MCTrading` splits the commands in two, because sales and
purchases share only the poster.

### The web books

Every request is a form under a key. `Arrive` takes the key or finds it in
flight or answered; `Write` runs the form's refusals and its write under the
books' mutex; `Render` answers, or `RenderFails` gives a 500 that is not
recorded, after which the same form may come again. The pages (`Dashboard`,
`Documents`, `JournalPage`, `DocumentPage`, `Attention`) are functions of the
state and enter the properties.

### The desk's settlements

`ReadPapers`, `ReadOwed`, `CheckRow`, `InsertRow`, `CommitPlan`: two readings
outside the transaction, and then the plan's rows one at a time, each behind the
trigger. The plan takes papers by day and reference (`Orderings`); two of one day
and reference, which may be of different kinds, stand as the query happened to
return them, and the plan may take either first. The `SELECT` of a trigger is modelled as InnoDB runs it, a locking read
of the `INSERT` it belongs to. Were it a snapshot read, `NothingOverSettled`
would not hold; its mutant is that reading.

### Clients and their requests

Registering holds the registry's lock over the provisioning, which may fail
before or after it has written a chart. A request is admitted in one reading and
writes later. `internal/client` is composed only by its tests; the model composes
it the same way.

### Starting and upgrading

`Startup` follows one copy of the program from its window to its open books:
guard, layout, data directory, server, database, version, migrations statement
by statement, triggers, chart account by account, year, company. Copies are
killed, the power fails, the server dies, an installer is cut off; the operator
dismisses the failure and starts the program again, perhaps a second copy of it,
perhaps a later release. What is on the disk survives.

`SchemaUpgrade` is the runner: drift check, dump table by table, verification,
statements, record, and on a failure drop, rebuild, load and verify. A desk
posts rows around it, a dump is damaged, a file edited, a run killed.

## What is checked

| Run | Question | Answer |
|---|---|---|
| `sessions` | Is a repeated write performed once and answered to whoever asked it; do overlapping transactions leave what one careful book would; are numbers, postings, request keys and locked days safe from one another's interleavings? | yes, in the form stated below: 170,850 states (middleware 65,942, documents 37,408, postings 67,500) |
| `trading` | Do ledger, documents, warehouse, settlements and client registry explain one another wherever calls stop? | yes, in the form stated below: 257,693 states |
| `period_close` | Is a period's result carried once, and do the statements say so? | yes: 807,900 states |
| `startup` | Do books open only on the release's schema, does a start that was cut off resume, and is no row lost by an upgrade? | yes, but for three torn states: 930,577 states |
| `posting_overdraw` | Can two postings take the same stock? | they can |
| `posting_locked` | Can an entry reach a locked period? | it can |
| `posting_stock_moved` | Is a posting refused as overtaken only if it was? | no |
| `trading_receipt_replay` | Does a receipt offered twice move the goods once? | no |
| `trading_orphan` | Does making a sale again write the receivable the first attempt did not? | no |
| `web_receivable` | Do the dashboard and the trial balance give one receivable? | no |
| `period_profit` | Is the net profit reported what a close carried? | not where it charged provisions |
| `startup_half_chart` | Is the chart whole when books open? | no |

**sessions**, the middleware. `OneLeaderPerKey`: claim and label agree. `AnsweredKeyNotRun`:
no handler finishes while a kept answer to its key is on file, which is what
the second look is for. `OneAnswerOneRequest`: an answer goes only to requests
that asked the same. `ImplementsContract`: refinement.
`EveryArrivalAnswered`: nobody waits for ever.

**sessions**, the document store. `RowsExplainHeader`: the allocated amount is the sum of the
allocation rows, a document has all its lines or is not there, a void one has
no rows. `AcknowledgedIsAccounted`: what a caller was told was applied is in
allocations and credits to the unit. `DecidedOnCurrentRow`: what a transaction
read is still the row when it writes. `NothingIsTakenBack`: an action property.
`ImplementsBook`: refinement. `EveryTxAnswered`: no lock is waited for for
ever.

**sessions**, the posting ledger. `NumbersHandedOutOnce`: over places taken and not yet
filled as well as vouchers. `WholePostings`: an entry with both its vouchers,
key, document and every movement, or nothing. `OneEntryPerRequest`.
`LockedDaysFreeze`: what the code does guarantee of a lock, namely that after
it only postings already let through can reach the day, for the cost voucher's
day as well, and then it is still. `OnlyOverlapSpoilsStock`: a position stops
being readable only at the commit of a writer that others overtook.
`EveryCallAnswered`.

**trading.** `SubledgerFollowsLedger`: every document and application has its
voucher, and the vouchers the book knows of add up, account by account, to what
the book says is owed; the gap between the two is exactly the vouchers the book
never heard of. `CarriedNeverAboveCost`: positions are the
log folded again, and truncation never carries goods above their cost.
`WarehouseBacksPapers`: saved receipts were moved in, a bill without warnings is
for goods that came, returns never exceed their issue. `BookExplained`: vouchers,
documents and settlements of the web books explain one another, no money is
spent twice, a key posts once while its answer is kept, the chart stays a forest,
the years have no gap, and the pages show it. `NothingOverSettled`,
`OldestSettledFirst`: the desk's settlements. `OneCompanyOneLedger`: no tax code
twice, no client without a chart, no row of a client filed by another's request.

**period_close.** `ClosedOnce`; `OnlyLateEntriesStand`: after a close the profit
and loss accounts hold what was posted after the balances were read and nothing
else; `NumberedReportIsTrue`: a report that names its voucher states what it
did; `ClosedInOrder`; `StatementsAgree`: trial balance and sheet balance; the profit
of a period whose close charged no provisions, and in which nobody else has
posted through the result account, is what was carried and what came late; and
nothing stands on the sheet as result when everything has been carried. That
the first clause fails as soon as a close charges provisions is `period_profit`.

**startup.** `OpenOnReleaseSchema`: books are open only on the release's schema,
no migration half sent, its triggers in place, with nothing the probes find
missing and no other copy at the directory. Of the chart the probes ask whether
it has an account; that it is whole is another property, refuted by
`startup_half_chart`. `RunEndsWhole`: a run that ends by itself leaves
the tables of its records and rows no unrecorded migration has rewritten;
`NothingIsGone`: a row is in the database or in a backup that loads;
`ResumesUnlessTorn`: liveness, below.

### What the refuting runs show

* `posting_overdraw`: `checkStock` reads its position without locking it. Two
  sales of two units out of three both find them, both commit, and the item's
  log can no longer be replayed, so every later reading of the item fails.
* `posting_locked`: the lock is asked before the posting's transaction and not
  in it. A period locked in between is entered.
* `posting_stock_moved`: a sale with one item on two lines prices each line
  against the position on file and is re-checked line after line. Three units
  worth ten: both lines cost 3, the running check wants 3 and then 4. The sale
  is refused however often it is tried, with nobody else at work.
* `trading_receipt_replay`: nothing in `ReceiveGoods` looks whether the receipt is
  on file. Offered again it succeeds again: the stock ledger appends a second
  movement under an id it has, and `SaveReceipt` appends the receipt a second
  time. The goods are on the shelf twice.
* `trading_orphan`: a sale is called, its voucher posted, and the call ends before
  the receivable is created. The sale made again derives the same voucher id and
  is refused by the ledger, and no other operation writes a receivable. The comment
  calls the missing row recoverable; making the call again, or any other call of
  the package, does not recover it.
* `web_receivable`: an invoice debits 131; a payment through the form asks the
  rules for the credit side and is given 156. Inventory goes down, the
  receivable of the trial balance stays, the dashboard says it is paid.
* `period_profit`: a close charges provisions in the voucher that carries the
  result (`close/close.go:421`), and profit and loss leaves that voucher out whole.
  What was charged is in retained earnings and not in the report, which is larger
  by it than what the close carried. The trace is one close and nobody beside it.
* `startup_half_chart`: the first start is stopped between two accounts of the
  chart. The next one finds an account, takes the chart for seeded and opens the
  books on part of it.

Each quotes the comment it refutes in `PROJECT.json`.

## Bounds

| Run | Instance | Why it is enough |
|---|---|---|
| `sessions`, middleware | three arrivals of one key, one of them another request; `TTL = 1`, `MaxTime = 2`, `MaxRestarts = 1` | a leader, a waiter and a stranger; a record can be fresh, stale and swept; keys do not interact |
| `sessions`, documents | two callers, two documents, three drafts, five payments; calls are not counted | overpayment, part payment, the same payment with another amount, one payment on two documents with one application id, a bad draft, a wrong currency; two sessions can wait for each other |
| `sessions`, postings | two callers, `MaxCalls = 2`, two days (`Lockable` one, `Closable` the other), two books, one item, six postings, two bare movements | any two calls overlap in every order, or follow one another; one book has no counter row yet; the average does not divide |
| `trading`, sales and purchases | two callers, `MaxCalls = 6`; one invoice, one bill, two orders at two prices, two items, an issue, a return of it, one that names another item, and a write-off | a payment short and over, in another currency, two applications under one id, two credits of one invoice, a call raced and retried; an average that drops a fraction |
| `trading`, web | two visitors, `MaxArrivals = 4`, twelve forms, five days in two years | one key with two forms, a payment short, exact, against nothing and in a year that does not exist, an entry on an account another form adds |
| `trading`, desk | two clerks, four papers of one customer, three payments, `MaxAttempts = 2` | two plans over one reading, a payment that runs over, a credit note of the day and reference of an invoice |
| `trading`, clients | two operators, two companies in six forms, six requests | one tax code written two ways, arriving by an update, a client closed while its request is served |
| `period_close` | two operators, `MaxAttempts = 2`, `MaxEntries = 2`; two periods and two that may be added, three commands, two sets of assets and debts | a close raced, retried after each step, forced past a document, with and without provisions, posted into meanwhile, before a period that joins the calendar; entries into the result account and out of it, and one that cancels the provisions |
| `startup` | two copies, two releases of two statements, two accounts, `MaxMishaps = 4`; two rows, two migrations, `MaxTroubles = 3` | every step cut off, and the repair cut off again; a second copy at each point |
| refuting runs | the same, with one or two postings for the ledger's | the shortest disagreement |

`MCTrading` also evaluates `ControlsReserved` and `PaymentsInPlace`, two premises
of theorems below, for the commands of its instance.

Symmetry is declared only where no liveness is checked: the callers, visitors
and clerks of `trading`, the operators of `period_close`. `MCTrading` and
`MCStartup` hold several exercises side by side and a behaviour is one of them;
the others stay as they began, so the states add up and do not multiply.
`MCSessions` does so over `MCIdempotency`, `MCDocumentStore` and
`MCPostingLedger`; the same two sessions are the callers of both stores.
`sessions`, `trading`, `period_close` and the posting runs set
`CHECK_DEADLOCK FALSE`: every arrival is answered, or the calls their bound
allows have been made, and the model stops. `startup` never stops, nor does the
document store, whose calls are not counted: there a deadlock would leave a
caller unanswered and break `EveryTxAnswered`.

## Fairness

* `Idempotency`: weak fairness of each arrival's own steps. The Go scheduler
  runs a goroutine that can run, handlers return, and a step once enabled stays
  enabled (a closed channel stays closed; a claim needs only the mutex). Nothing
  is assumed of the clock, the sweep or of arrivals coming at all.
* `DocumentStore`, `PostingLedger`: strong fairness of each session's
  statements. A statement waiting for a lock is enabled again and again rather
  than continually, and InnoDB queues waiters and grants in turn. Nothing is
  assumed of callers, and a failure is never required to happen. `MCSessions`
  states the fairness of the three for the exercise at hand
  (`SessionsFairness`).

* `Startup`: weak fairness of a copy's next step, of the installer's end, and of
  an operator who dismisses a failure and starts the program again. The first two
  are the operating system's scheduling; the last is what the program's messages
  ask for, and without it nothing would resume. Mishaps are bounded and never
  required. `ResumesUnlessTorn` asks for books open on a whole chart, and
  excepts the three states no start repairs: a data directory whose installer was
  cut off, an `ALTER` that took effect before its version was recorded, and a
  chart of some accounts with nobody left to seed the others.

## What is proved

`tlapm` checks the following for every value of the constants, under the named
assumptions of the modules. Most give constants their shape: keys and hashes are
defined for arrivals, ids are natural numbers, drafts, payments, postings and
scripts are records of their fields, sentinels are not values. Those that say
more:

| Assumption | What justifies it |
|---|---|
| `ChartAssumption`, `BandsAssumption`, `FactsAssumption` | charts, policies, asset registers and receivables are finite; a policy's bands are what `BadDebtPolicy.Validate` admits |
| `AccountTypeAssumption` | every account has one of the five types `AccountType.Valid` admits (`domain/gl/account.go:26`); 911 is an expense account of the chart and 4212 is equity (`domain/gl/coa_tt133.go`) |
| `EntriesAssumption` | an entry posted balances: `gl.ValidatePostable` refuses any other |
| `OpeningAssumption` | the calendar on file is one `NewCalendar` admits |
| `SessionsAssumption` | finitely many callers are at work at once |
| `SeedAssumption` | the chart the web books start with is finite, and every parent in it an account of it (`domain/gl/coa_tt133.go`), the year they open is one `NewPeriod` admits, and the posting rules of TT133 name accounts of that chart |
| `MovesAssumption` | a call at the stock desk moves one item: `ReceiveStock` and `IssueStock` (`usecase/practice/client.go:318`, `:356`) each record one movement |
| `OpeningLogAssumption` | the stock on file at the start was moved at the desk: it names no entry and belongs to no open transaction |
| `MigrationsAssumption`, `AccountsAssumption` | a release embeds at least one migration, and its chart has an account |

`TotalsProofs`. A total is a recursion over an arbitrary choice, and a proof about
it is not an induction over data but over the natural numbers: for every n, the
sets of n elements have a sum, and one only (`SumsUpTo`, `SumsExist`,
`SumsAgree`), whatever order they are taken in. What the other proofs use follows:
adding, removing and splitting (`OverAdd`, `OverRemove`, `OverSplit`), two amounts
side by side (`OverPlus`, `OverMinus`), comparisons (`OverAtMost`, `OverPart`),
and sorting the amounts into heaps first (`OverParts`, `OverPairs`).

`IdempotencyProofs`. The inductive invariant `IInv` adds to type correctness and
`OneLeaderPerKey`: `HoldsNothingYet` (no response before one is due),
`NothingOnFile` (while a leader is with the handler or the store, no fresh
answer to its key is on file: the second look established it and only a leader
writes) and `RecordsAreTheirOwn`. From it follow `TypeCorrect`,
`LeaderUnique`, `AnswersBelong`, `AnsweredNotRun`, and `Implements`: each step
is a step of the contract or none of it. Without `NothingOnFile` the `Put` step
would overwrite an answer and not be the contract's `Perform`.

`DocumentStoreProofs`. `IInv` says, session by session, what a transaction has
read and written at each label (`Plan`), that it holds the row it decided from
(`Locked`), and that an allocation row hangs from a document that says something has been
allocated (`RowsAreBacked`). `OthersKeep` says when a step of one session leaves another's
part alone, so each action is proved for its own session and the rest follow.
From it: `TypeCorrect`, `DecidedCurrent`, `TakesNothingBack`, and `Implements`:
every commit is one operation of the book and every other step is a stutter.
`HeaderExplained` and `PaymentAccounted` add up rows. `Explained` says of each
document that its header is the sum of its rows and, what makes it inductive, that
one with nothing allocated has no rows at all, for that is what a void is decided
by. `Acknowledged` says that a payment answered for has left a row, which is what
keeps another application of it, under another id, from adding to it.

`PostingLedgerProofs`. `IInv` adds four things to type correctness. `Labelled`:
what a caller holds at each label, in particular how many numbers. `NumberRuns`:
every number taken is below its book's counter, except the one just read, which
the counter still stands at (`BelowCounter`); whoever has read a counter has it
to itself (`Exclusive`); no two numbers of a book are the same (`Distinct`) and
none is a voucher's (`Unused`, `Seated`). `KeyIsMine`: a caller that has inserted
its request key is alone with it. Without `BelowCounter` and `Exclusive` the
next number read need not be new; without `KeyIsMine` two commits could bring
the same key. From it: `TypeCorrect`, `NumbersOnce`, `OnePerRequest`. `DaysFreeze`
needs `Labelled` only: no step brings a caller past the lock on a locked day
(`LockAsked`), and a commit writes only days its caller is past the lock on
(`CommitPastTheLock`).

`PostingsWhole` has an invariant of its own, `WholeIInv`. The rows a caller has
inserted are, in their order, the first of its posting's movements, and all of
them when it records the document or commits (`RowsWritten`); an uncommitted
row belongs to a caller that is writing its movements (`OwnersMove`);
and the voucher ids of open transactions are each other's strangers and not on
file (`IdsApart`). The rows of several callers interleave in one log: the list
lemmas (`AmongAppend`, `AmongTwice`, `AmongChanged`) say that what an insert, a
commit or a rollback does to the log leaves the others' rows in their order.
Without `RowsWritten` a commit could bring half the movements, without `IdsApart`
those of two postings would be one entry's.

`OverlapSpoils` rests on both and on `SightIInv`. From its stock check on, a
caller's movements pass one after the other over what it saw (`Passes`: each issue
covered and costed as the replay costs it, each receipt well formed), the rows on
file are at least as many as those it saw, and as long as what it saw is what is on
file its own rows stand behind them in the log (`Sighted`). That last part is what
lets a commit put on file exactly what was checked: rows take their place in the
log when they are inserted and not when they are committed, so another's commit can
put a row before them. It does so only by adding a row to what is on file, which
then is not what was seen (`OnlyGrows`), and that is why the lengths are compared.
What a log comes to is a recursive function, and four facts about it suffice: one
movement more (`PositionAppend`), logs that are alike (`PositionAlike`), a movement
that is sound (`SoundReadable`), movements that pass (`PassesReadable`).

`PeriodCloseProofs`. The arithmetic comes first (`VoucherFacts`): a closing voucher
takes off the revenue, expense and result accounts exactly what they held
(`Clears`), and carries the profit and charges the provisions that its report
states (`Carries`), whatever was depreciated or provided for. `IInv` then says of each operator what it knows at each label
(`Placed`), that the entries it has prepared clear what it has read (`Prepared`),
and that one about to number the report or to lock has its voucher in the log, or
nothing to post (`Behind`); and of the books that every closing voucher clears what
stood before it (`ClosingsStand`), that a numbered report and the voucher it names
agree (`ReportsStand`), and that a locked period has its entries (`LocksStand`).
Without `Prepared` the voucher posted need not be the one the balances called for,
since others post between the reading and the post; without `Behind` an operator
could lock a period for which nobody has posted. From it: `PeriodClosedOnce`,
`PeriodsClosedInOrder`, `NumberedReports`, `CloseClears` and the types
(`CloseTypes`).

`ReportsAgree`, in the same module, needs one invariant more, `BooksBalance`:
every voucher on file balances over the chart, and a closing voucher leaves the
result account where it was and carries nothing unless something passed through
it (`Even`), which what an operator has prepared must be as well. Then the
reports are read back into the vouchers they were summed from: a column of a
report is a sum over lines, the lines of a voucher are what it puts on either
side of each account (`LinesAre`), so a column is a sum over accounts of sums
over vouchers, which is the same in the other order (`SumSwap`), and there each
voucher comes to nothing. That gives the trial balance (`TrialHolds`) and the
sheet (`SheetHolds`). A result standing on the sheet is split by the periods the
vouchers are dated in, and in each a closed one has nothing left
(`ResultHolds`, from `CloseClears`' lemma). The profit (`ProfitHolds`) is split
into what the close had read, what came late and the close's own voucher; the
last takes off exactly the first (`ClosedParts`), and what it takes off, where it
charged nothing, it has carried (`ChartSum`).

`StartupProofs`. For `Startup`, `StartupIInv`: one copy at most is past the guard
(`GuardHeld`), a copy that has started its server finds no other one (`ServerMine`),
and each label's copy has probed or done what the labels before it do
(`Provisioned`), among them that a schema at its version is not torn. From it
`BooksOpenOnRelease`. For `SchemaUpgrade`, `UpgradeIInv`: where the database stands at
each step of a run, statement by statement of a migration (`Standing`), that the
dump holds one state of the schema and not parts of two (`Dumped`), and where a row
is to be found at each step (`Saved`). `RunsEndWhole` needs the first two,
`RowsStayWithinReach` the third. What was cut off before (`scarred`) keeps only the
third, as the code does.

`TradingProofs` has three invariants, each resting on the one before.

`WarehouseIInv` is about goods. Folding the log again gives every position, and
what is left of an item, with what truncation has dropped on the way, is no more
than was paid for it (`Carried`). A saved receipt's lines have each a movement of
their own, and so has each line already recorded of a receipt not saved yet
(`LinesMoved`, `UnitsMoved`): without the second half the step that saves would
claim movements nobody counted. What was returned under an issue is no more than
what left under it (`IssuesBacked`). A bill on its way that warns of nothing is
for goods taken in (`BillBacked`), which stays true because the log only grows.
From it `WarehouseNeverOverstates` and `PapersAreBacked`. An item's position is a
recursive function over the log, and one lemma says what a movement more does
to it (`SignedNext` and those beside it).

`BookIInv` says where each voucher stands between its posting and the book. No id
is posted twice (`LedgerKept`). A document of the book is on one control account
and has its voucher (`DocumentsKept`), a row has the voucher of its payment
(`RowsKept`), and a flow that has posted and not yet told the book is alone with
its voucher, which the book does not know (`FlowsKept`): without that last part
another flow could tell the book of a voucher that was given up. The next one rests
on it.

`SubledgerIInv` weighs them. A document is worth what its lines debit the control
account (`DocumentsPriced`), a credit is on a document of the book
(`CreditsPriced`), a flow on its way will change the book by what its voucher
moved on the account (`FlowsPriced`), and the vouchers the book knows of come to
what is owed (`Balanced`). Without `FlowsPriced` the step that tells the book
would bring in a voucher of any amount. From it `SubledgerFollows`.

`SubledgerFollows` has two premises, stated in it, on what callers ask for.
`ControlsReserved`: no line of a bill or an order names 131 or 331.
`PaymentsInPlace`: a customer's payment does not name a supplier's bill, nor a
supplier's payment an invoice. The code enforces neither: a bill posted to 331 on both sides, or one
paid through `sales.Pay`, is taken (see below), and then the account and the book do
part. They are premises and not assumptions of the module because only this
theorem rests on them.

`PracticeProofs`, clients. `IInv` adds to `OneCompanyOneLedger` that every tax code on
file is in one written form, or the look for another holder of it would miss one
(`Entered`, `Unshared`); that whoever holds the registry's lock was found new
when it was taken and, since nobody writes until it is let go, still is
(`LockedIsNew`); and that a request in progress is of a client that is
registered, since none ever leaves (`ServesKnown`). From it: `LedgersKept`.

`PracticeProofs`, settlements. `SettlementIInv` says of a transaction that it has
written the part of its plan that no longer waits, that it shares the locks of those
documents (`Locked`), and that what the trigger found is still so (`Covered`) because
uncommitted rows of a document exclude every other reader of it (`AllApart`); and
of a plan that it pays whatever is still owed on older documents (`PaysOlder`),
which stays true because settlements only grow. From it `NeverOverSettled` and
`OldestFirstSettled`. The lemmas before it are about `PlanAllocation`: what each
place takes, for any order the papers may be in.

`PracticeProofs`, the web books. `WebIInv` is `BooksStand` and `KeysStand`. A form is
written whole under the mutex, so `BooksStand` goes write by write: the chart is a
forest, the years have no gap (`SetupStands`); an id is of one paper and was drawn
(`PapersStand`); there is one voucher to a paper or a manual entry, on accounts of
the chart and dated in a year, balanced, and worth what its paper says (`VouchersStand`);
settlements and credits are between papers on file and spend no payment twice
(`SettledStand`). That every id is below the counter is what makes the next one new.
`KeysStand` says where each key is: in flight once and without an answer, and one that
has posted is at its page, answered or among those whose page failed. Without it a
key could be taken a second time while its first voucher waits for its answer. The
pages come last. The list of documents is by rank, so each paper has its place and
each place its paper (`EveryPlaceTaken`); the trial balance groups lines by account,
and both of its sides come to the same because what is left of each voucher is
nothing (`OverNothing`); climbing from an account added below another meets the old
chart's climb, so a chart stays without a loop. From it: `BooksExplained`.

Sums over sequences and sets are written with `Totals`, climbs and positions as
recursive functions over the naturals, so that the modules proved about declare no
`RECURSIVE` operator.

## What is only model-checked

* Liveness, which is out of the prover's reach: `EveryArrivalAnswered`,
  `EveryTxAnswered`, `EveryCallAnswered`, `ResumesUnlessTorn`.
* That the exercises of `MCSessions`, `MCTrading` and `MCStartup` do the same
  beside one another: the theorems are about each specification by itself, which
  is how the exercises run.

## Inventory

| Component | State and operations | Hard behaviour | What makes it correct |
|---|---|---|---|
| `internal/idempotency` | record store, in-flight table; `Wrap`, `Sweep` | same key at once, expiry, panic, restart | performed once, answered to its own request |
| `internal/document` | documents, lines, allocations, credits; `Create`, `Apply`, `Void` | settlement at its boundaries | header agrees with rows |
| `adapter/mariadb/documentstore` | the same in five statements a call | overlap, lost answers, deadlock | behaves as the book |
| `usecase/ledger`, `postingrepo`, `glrepo` | vouchers, number counters, request keys; `Post`, `Save`, `NextNumber` | overlap, retries, failure at any statement | numbers once, whole postings, one entry per request |
| `domain/inventory`, `stockrepo` | movement log; `Record`, `Position` | check then act, rounding | every position replays |
| `period`, `periodstore`, `periodrepo` | periods, locks, closed months; `Add`, `Lock`, `Close`, `Reopen` | shutting under a posting | a locked period is still |
| `close` | closing entry, report, lock; `ClosePeriod` | eight steps, retries after a crash | the result is carried once and the report says what was done |
| `reports` | none; three statements over the ledger | what counts as a closing entry | they agree with each other |
| `trading` | invoices, orders, receipts, payments over a poster and a document book | post, then apply, nothing undone | every difference is a known voucher |
| `inventory` | movement log, positions, returns; `Record`, `RecordIssue`, `RecordReturn` | truncation, returns | cost out plus value left is at most cost in |
| `domain/document`, `documentrepo`, the desk's `Settle` | documents, allocations | check then act over two readings | nothing over-settled, oldest first |
| `web`, `web/books` | all books under one mutex | a write that succeeded and did not render, repeated forms | a retry under a kept answer does not post again |
| `client` | registry, charts, scoped rows | provisioning that fails, tax codes, a client closed meanwhile | one company, one ledger |
| `migrate` | schema, records, backups; `Migrate`, `Restore` | DDL commits by itself, cut off anywhere | after a run the schema is what the records say |
| `boot`, `dbhost`, `singleton`, `cmd/fingo` | data directory, server, schema, chart, settings | a start that stops half way, two copies | a later start completes, books open only whole |
| `posting`, `vat`, chart of `domain/gl` | rule sets, rates, accounts | overlapping windows, parents | one answer to each question |
| `voucher`, `voucherstore`, `partner`, `domain/*` | records and look-ups | | |
| `ui`, `appconfig`, `conn`, `sqlc`, `logger` | windows, wiring, generated code | | |

Components interact by direct calls. The web front end wraps its handlers in
the idempotency middleware; `RecordSale`, `close` and the entry form call
`ledger.Service.Post`, which asks the period guard, the chart, the closed
months and the number store, and hands the posting to `postingrepo`; that one
transaction calls `glrepo.SaveWithin` and `stockrepo.PositionWithin`. The
trading cycles call a poster and a `document.Repository` one after the other.
`boot.Ensure` drives `dbhost`, `db.Up` and `practice` in order.

The hazards of the code, each at its line and with the properties that watch
it, are listed in `PROJECT.json`.

## Plan

What is left to model: the choice of a valuation method by year, and `domain/tax`.

## Seen while modelling

What the code does that its documents leave open, or say otherwise, and that no
run refutes:

* An entry anybody posts through 911 is left out of profit and loss as if it
  closed something, and a close that has only provisions to post, and whose
  expense they cancel, touches 911 with nothing and is reported.
* `Settle` retried after its answer was lost spends the payment again on the
  papers still open. `OpenDocuments` returns every kind of paper, credit notes
  and purchase invoices among them.
* `sales.Pay` accepts a supplier's bill. Two credit notes of one invoice reverse
  its revenue twice. A void posts no reversal.
* Goods whose average has come down to zero cannot be issued at all
  (`inventory/cogs.go:394`). `RecordIssue` retried takes goods out twice.
* The web form creates VAT rates that are never active, so their windows are not
  compared (`web/books/reports.go:393`). `CreatePayment` takes any account of the
  chart and pays against receipts as well. A form may put an account under one
  that has postings. `NormalizeTaxID` keeps the hyphen, so a branch's code written
  with and without it is two.
* `migrate.Load` refuses the repository's own directory, whose numbering skips
  00006. A restore does not put triggers back; `practice.Open` does.
  `Result.Version` still counts the batch after a rollback has undone it.
* Only the lock is asked about a sale's cost before the sale is numbered; the other
  rules of the cost voucher are asked after, so a refused cost burns the sale's
  number (`usecase/ledger/service.go:171`, against the comment at its lines 154
  to 156, "refused before the sale has taken a number either").
* The entry form draws a new request key for each attempt, so an attempt whose
  answer was lost can be posted again. The reaper's `Start` and `Stop` race. Row
  ids are the application's id behind a prefix in `VARCHAR(36)`. A month closed
  after a posting loaded the closed months is posted into; closing a month is
  advisory.

## Not modelled

Formatting, layout, windows, wiring, generated queries, connection strings and
the settings file: nothing in them depends on an order of steps. `voucher` and
`voucherstore` repeat the number counters of the ledger and have no caller.
`partner` and most of `domain/*` are records with one write per operation, or none.
The triggers that forbid updates and deletes refuse what no code tries. The
statutory forms are layout over the trial balance.
