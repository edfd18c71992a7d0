------------------------------ MODULE Trading ------------------------------
(***************************************************************************)
(* The two cycles of internal/trading: sales (invoice, payment, credit     *)
(* note) and purchases (order, receipt, supplier invoice, payment), with   *)
(* the cost of goods that inventory.Ledger books beside them.              *)
(*                                                                         *)
(* The general ledger, the document book, the order book and the warehouse *)
(* are four separate seams: a flow posts its voucher in one step and       *)
(* writes the book in another, and may be cut off between the two.  The    *)
(* document book is DocumentBook, one atomic step an operation.            *)
(***************************************************************************)
EXTENDS Pricing, Warehouse, PostingRules, FiniteSets

CONSTANTS
    Docs,           \* ids of invoices, the client's own and its suppliers'
    Orders,         \* ids of purchase orders
    Partner,        \* document id -> whom it is with
    Commands,       \* what callers ask for
    Sessions,       \* callers at work at once
    NoDocument,     \* no document kept under an id
    NoOrder,        \* no order kept under an id
    MaxCalls        \* bound: calls a behaviour makes

SourceLine == [item : Items, quantity : Int, price : Int, rate : STRING,
               currency : STRING, account : STRING]
ArrivedLine == [item : Items, quantity : Int]

InvoiceCommand == [kind : {"invoice"}, id : Docs, lines : Seq(SourceLine)]
CreditCommand  == [kind : {"credit"}, id : STRING, doc : Docs]
PaymentCommand == [kind : {"payment", "supplier payment"}, id : STRING, doc : Docs,
                   amount : Int, currency : STRING]
OrderCommand   == [kind : {"order"}, id : Orders, lines : Seq(SourceLine)]
ReceiptCommand == [kind : {"receipt"}, id : STRING, order : Orders, lines : Seq(ArrivedLine)]
SupplierInvoiceCommand ==
    [kind : {"bill"}, id : Docs, order : Orders, lines : Seq(SourceLine)]
StockCommand ==
    [kind : {"issue", "write off"}, move : Moves, item : Items, quantity : Int]
        \cup [kind : {"return"}, move : Moves, of : Moves, item : Items, quantity : Int]

ASSUME CommandsAssumption ==
    Commands \subseteq InvoiceCommand \cup CreditCommand \cup PaymentCommand
        \cup OrderCommand \cup ReceiptCommand \cup SupplierInvoiceCommand
        \cup StockCommand

ASSUME SessionsAssumption == IsFiniteSet(Sessions)

\* A document as it is filed: document.Document, less what decides nothing here.
FiledDocument == [partner : {Partner[d] : d \in Docs}, rate : DOMAIN VATRates \cup {""},
                  total : Int, currency : STRING, allocated : Int,
                  status : {"open", "partially_paid", "paid", "void"}]

ASSUME NoDocumentAssumption == NoDocument \notin FiledDocument

VARIABLES
    ledger,         \* vouchers the general ledger holds
    documents, lines, allocations, credits, applications,   \* the document book
    orders,         \* purchase orders, by id
    receipts,       \* goods receipts, in the order they were saved
    stock,          \* the warehouse
    costs,          \* cost entries the warehouse has handed out
    call,           \* what each session is at
    calls           \* calls begun

book == <<documents, lines, allocations, credits, applications>>
vars == <<ledger, book, orders, receipts, stock, costs, call, calls>>

Book == INSTANCE DocumentBook WITH Drafts <- {}, Applications <- {}

\* The accounts of the sales cycle and of the cost of goods are the posting
\* rules' answers; those of the purchase cycle are its own configuration.
SalesAccounts ==
    [receivable |-> AccountFor(TT133Defaults, "debit", "ASSET"),
     revenue    |-> AccountFor(TT133Defaults, "credit", "REVENUE"),
     vatOutput  |-> AccountFor(TT133Defaults, "credit", "LIABILITY")]

CostAccounts ==
    [cost      |-> AccountFor(TT133Defaults, "debit", "EXPENSE"),
     inventory |-> AccountFor(TT133Defaults, "credit", "ASSET")]

PurchaseAccounts == [payable |-> "331", inventory |-> "156", vatInput |-> "1331", bank |-> "112"]

Idle == [pc |-> "idle"]

Init ==
    /\ ledger = {}
    /\ Book!Init
    /\ orders = [o \in Orders |-> NoOrder]
    /\ receipts = <<>>
    /\ stock = NewLedger
    /\ costs = {}
    /\ call = [s \in Sessions |-> Idle]
    /\ calls = 0

-----------------------------------------------------------------------------
(* Vouchers. *)

Debit(account, amount)  == [account |-> account, debit |-> amount, credit |-> 0]
Credit(account, amount) == [account |-> account, debit |-> 0, credit |-> amount]

\* Both vouchers leave out a line that would move nothing.
Moving(entries) ==
    [i \in {j \in DOMAIN entries : entries[j].debit + entries[j].credit > 0} |-> entries[i]]

Voucher(series, id, entries) == [id |-> <<series, id>>, entries |-> Moving(entries)]

\* Mutant: the receivable is booked without the tax on it.
SaleEntriesNet(source) ==
    <<Debit(SalesAccounts.receivable, SumOf(Base, source)),
      Credit(SalesAccounts.revenue, SumOf(Base, source)),
      Credit(SalesAccounts.vatOutput, SumOf(VAT, source))>>

SaleEntries(source) ==
    <<Debit(SalesAccounts.receivable, SumOf(LineTotal, source)),
      Credit(SalesAccounts.revenue, SumOf(Base, source)),
      Credit(SalesAccounts.vatOutput, SumOf(VAT, source))>>

\* Money in clears the receivable, money out the payable.
PaymentEntries(amount) ==
    <<Debit(PurchaseAccounts.bank, amount), Credit(SalesAccounts.receivable, amount)>>
SupplierPaymentEntries(amount) ==
    <<Debit(PurchaseAccounts.payable, amount), Credit(PurchaseAccounts.bank, amount)>>

\* What goods cost leaves the inventory, and a return puts it back.
CostEntries(amount) ==
    <<Debit(CostAccounts.cost, amount), Credit(CostAccounts.inventory, amount)>>
ReturnEntries(amount) ==
    <<Debit(CostAccounts.inventory, amount), Credit(CostAccounts.cost, amount)>>

OrderLines(order, item) == {i \in DOMAIN order.lines : order.lines[i].item = item}
Ordered(order, item)    == OrderLines(order, item) # {}
OrderLine(order, item)  ==
    order.lines[CHOOSE i \in OrderLines(order, item) : \A j \in OrderLines(order, item) : i <= j]
OrderPrice(order, item) == OrderLine(order, item).price

\* The account a purchased line lands on: its own, the order's, the default.
DebitAccount(line, order) ==
    IF line.account # "" THEN line.account
    ELSE IF OrderLine(order, line.item).account # "" THEN OrderLine(order, line.item).account
    ELSE PurchaseAccounts.inventory

PurchaseEntries(source, order) ==
    [i \in DOMAIN source |-> Debit(DebitAccount(source[i], order), Base(source[i]))]
        \o <<Debit(PurchaseAccounts.vatInput, SumOf(VAT, source)),
             Credit(PurchaseAccounts.payable, SumOf(LineTotal, source))>>

BookLine(e, currency) ==
    [account |-> e.account, debit |-> e.debit, credit |-> e.credit, currency |-> currency]

\* The invoice as the receivables book sees it: the voucher's three accounts.
ReceivableLines(source) ==
    [i \in 1 .. (IF SumOf(VAT, source) = 0 THEN 2 ELSE 3) |->
        BookLine(SaleEntries(source)[i], source[1].currency)]

\* The bill as the payables book sees it: a line for each item that is worth
\* something, the tax on its own, and what is owed.
PayableLines(source, order) ==
    LET entries == PurchaseEntries(source, order)
    IN  [i \in {j \in DOMAIN entries : entries[j].debit # 0 \/ j = Len(entries)} |->
            BookLine(entries[i], source[1].currency)]

\* The rate a document is filed under: its lines' own, if they agree.
SingleRate(source) ==
    IF \A i \in DOMAIN source : source[i].rate = source[1].rate THEN source[1].rate ELSE ""

Draft(id, source, recorded) ==
    [id |-> id, lines |-> recorded,
     document |-> [partner |-> Partner[id], rate |-> SingleRate(source), total |-> SumOf(LineTotal, source),
                   currency |-> source[1].currency, allocated |-> 0,
                   status |-> "open"]]

\* Mutant: the credit note is priced at what is still owed.
ReversalOutstanding(id) ==
    <<Credit(SalesAccounts.receivable, Book!Outstanding(documents[id])),
      Debit(SalesAccounts.revenue, Book!Outstanding(documents[id]))>>

\* Every side swapped, every amount carried across.
Reversal(id) ==
    [i \in DOMAIN lines[id] |->
        [account |-> lines[id][i].account,
         debit |-> lines[id][i].credit, credit |-> lines[id][i].debit]]

Reversed(id) == SumOf(LAMBDA line : line.debit, lines[id])

Application(id, doc, payment, amount) ==
    [id |-> id, doc |-> doc, payment |-> payment, amount |-> amount,
     currency |-> documents[doc].currency]

-----------------------------------------------------------------------------
(* A flow up to its posting: everything is checked, read and built. *)

Begin(s, voucher, then) ==
    /\ call[s] = Idle /\ calls < MaxCalls
    /\ call' = [call EXCEPT ![s] = [pc |-> "post", voucher |-> voucher, then |-> then]]
    /\ calls' = calls + 1

InvoiceSale(s, c) ==
    /\ c.kind = "invoice"
    /\ Priceable(c.lines)
    /\ Begin(s, Voucher("invoice", c.id, SaleEntries(c.lines)),
             [pc |-> "create", draft |-> Draft(c.id, c.lines, ReceivableLines(c.lines))])
    /\ UNCHANGED <<ledger, book, orders, receipts, stock, costs>>

ValidPayment(c) == c.amount > 0

\* The invoice is read before anything is posted: it exists, in this currency.
\* Its status is not looked at.
MayPay(c) ==
    /\ ValidPayment(c)
    /\ documents[c.doc] # NoDocument
    /\ documents[c.doc].currency = c.currency

Pay(s, c) ==
    /\ c.kind = "payment"
    /\ MayPay(c)
    /\ Begin(s, Voucher("payment", c.id, PaymentEntries(c.amount)),
             [pc |-> "apply",
              app |-> Application(<<"apply", c.id>>, c.doc, c.id, c.amount)])
    /\ UNCHANGED <<ledger, book, orders, receipts, stock, costs>>

\* The whole of the invoice, from what it recorded, whatever has been paid.
CreditSale(s, c) ==
    /\ c.kind = "credit"
    /\ lines[c.doc] # <<>> /\ Reversed(c.doc) > 0
    /\ Begin(s, Voucher("credit", c.id, Reversal(c.doc)),
             [pc |-> "apply",
              app |-> Application(<<"credit-apply", c.id>>, c.doc, c.id, Reversed(c.doc))])
    /\ UNCHANGED <<ledger, book, orders, receipts, stock, costs>>

\* Orders and receipts are kept by the order book.
KnownOrder(id) == orders[id] # NoOrder
ReceiptsOf(id) == {n \in DOMAIN receipts : receipts[n].order = id}

\* Units of an item on a sequence of lines.
Units(item, ls) == SumOf(LAMBDA l : IF l.item = item THEN l.quantity ELSE 0, ls)

\* The items of which an order, what arrived against it and a bill do not say
\* the same.
ThreeWayMatch(order, arrived, invoiced) ==
    LET received(item) == Total([n \in arrived |-> Units(item, receipts[n].lines)])
    IN  {item \in Items : ~(Units(item, order.lines) = received(item)
                                /\ received(item) = Units(item, invoiced))}

ValidBill(c) == c.lines # <<>> /\ \A i \in DOMAIN c.lines : ValidSource(c.lines[i])

\* A bill is matched against the order and the receipts, and a mismatch warns
\* and refuses nothing.
InvoicePurchase(s, c) ==
    /\ c.kind = "bill"
    /\ ValidBill(c) /\ KnownOrder(c.order)
    /\ Priceable(c.lines)
    /\ \A i \in DOMAIN c.lines : Ordered(orders[c.order], c.lines[i].item)
    /\ Begin(s, Voucher("purchase", c.id, PurchaseEntries(c.lines, orders[c.order])),
             [pc |-> "create",
              draft |-> Draft(c.id, c.lines, PayableLines(c.lines, orders[c.order])),
              order |-> c.order,
              warnings |-> ThreeWayMatch(orders[c.order], ReceiptsOf(c.order), c.lines)])
    /\ UNCHANGED <<ledger, book, orders, receipts, stock, costs>>

PaySupplier(s, c) ==
    /\ c.kind = "supplier payment"
    /\ MayPay(c)
    /\ Begin(s, Voucher("supplier-payment", c.id, SupplierPaymentEntries(c.amount)),
             [pc |-> "apply",
              app |-> Application(<<"supplier-apply", c.id>>, c.doc, c.id, c.amount)])
    /\ UNCHANGED <<ledger, book, orders, receipts, stock, costs>>

Move(c, direction) ==
    [id |-> c.move, item |-> c.item, direction |-> direction,
     quantity |-> c.quantity, cost |-> 0]

\* RecordIssue, and the sale that posts what it cost.  The revenue voucher that
\* PostSale hands over in the same transaction is the caller's own.
IssueGoods(s, c) ==
    LET entry == CostEntry(stock, Move(c, "out")) IN
    /\ c.kind = "issue"
    /\ CanRecordIssue(stock, Move(c, "out"))
    /\ stock' = Kept(stock, Move(c, "out"))
    /\ costs' = costs \cup {entry}
    /\ Begin(s, Voucher("cogs", c.move, CostEntries(entry.amount)),
             [pc |-> "done"])
    /\ UNCHANGED <<ledger, book, orders, receipts>>

\* RecordReturn: the movement's item is not compared with the issue's.
ReturnGoods(s, c) ==
    \E entry \in costs :
        LET amount == entry.unitCost * c.quantity
            move   == [Move(c, "in") EXCEPT !.cost = entry.unitCost]
        IN
        /\ c.kind = "return" /\ c.of = entry.move
        /\ CanReturn(stock, entry, move)
        /\ stock' = Return(stock, entry, move)
        /\ Begin(s, Voucher("cogs-return", c.move, ReturnEntries(amount)),
                 [pc |-> "done"])
        /\ UNCHANGED <<ledger, book, orders, receipts, costs>>

-----------------------------------------------------------------------------
(* Posting, and the book after it. *)

Posted(id) == \E voucher \in ledger : voucher.id = id

\* The ledger refuses a voucher id it holds.
Post(s) ==
    /\ call[s].pc = "post"
    /\ ~Posted(call[s].voucher.id)
    /\ ledger' = ledger \cup {call[s].voucher}
    /\ call' = [call EXCEPT ![s] = IF call[s].then.pc = "done" THEN Idle
                                   ELSE [call[s] EXCEPT !.pc = call[s].then.pc]]
    /\ UNCHANGED <<book, orders, receipts, stock, costs, calls>>

\* The voucher is kept and the answer is an error: the flow stops there.
PostAnswerLost(s) ==
    /\ call[s].pc = "post"
    /\ ~Posted(call[s].voucher.id)
    /\ ledger' = ledger \cup {call[s].voucher}
    /\ call' = [call EXCEPT ![s] = Idle]
    /\ UNCHANGED <<book, orders, receipts, stock, costs, calls>>

CreateDocument(s) ==
    /\ call[s].pc = "create"
    /\ Book!Create(call[s].then.draft)
    /\ call' = [call EXCEPT ![s] = Idle]
    /\ UNCHANGED <<ledger, orders, receipts, stock, costs, calls>>

ApplyPayment(s) ==
    /\ call[s].pc = "apply"
    /\ Book!Apply(call[s].then.app)
    /\ call' = [call EXCEPT ![s] = Idle]
    /\ UNCHANGED <<ledger, orders, receipts, stock, costs, calls>>

\* A refusal of the ledger or of a book, an error, a cancelled context: what
\* was done before it stays done.
GiveUp(s) ==
    /\ call[s].pc \in {"post", "create", "apply", "save"}
    /\ call' = [call EXCEPT ![s] = Idle]
    /\ UNCHANGED <<ledger, book, orders, receipts, stock, costs, calls>>

\* An operator withdraws a document nothing has been allocated to.
VoidDocument(id) ==
    /\ documents[id] # NoDocument /\ documents[id].status # "void"
    /\ Book!Void(id)
    /\ UNCHANGED <<ledger, orders, receipts, stock, costs, call, calls>>

-----------------------------------------------------------------------------
(* Orders and receipts: nothing is posted. *)

\* An order names an item once.
ValidOrder(c) ==
    /\ c.lines # <<>> /\ \A i \in DOMAIN c.lines : ValidSource(c.lines[i])
    /\ \A i, j \in DOMAIN c.lines : i # j => c.lines[i].item # c.lines[j].item

SaveOrder(c) == ~KnownOrder(c.id) /\ orders' = [orders EXCEPT ![c.id] = c]

OrderGoods(s, c) ==
    /\ c.kind = "order"
    /\ call[s] = Idle /\ calls < MaxCalls
    /\ ValidOrder(c) /\ Priceable(c.lines)
    /\ SaveOrder(c)
    /\ calls' = calls + 1
    /\ UNCHANGED <<ledger, book, receipts, stock, costs, call>>

ValidReceipt(c) == c.lines # <<>> /\ \A i \in DOMAIN c.lines : c.lines[i].quantity > 0

\* Every line is checked before anything moves.
ReceiveGoods(s, c) ==
    /\ c.kind = "receipt"
    /\ call[s] = Idle /\ calls < MaxCalls
    /\ ValidReceipt(c) /\ KnownOrder(c.order)
    /\ \A i \in DOMAIN c.lines :
          Ordered(orders[c.order], c.lines[i].item) /\ c.lines[i].item \in Items
    /\ call' = [call EXCEPT ![s] =
                    [pc |-> "record", receipt |-> c, at |-> 1,
                     prices |-> [i \in DOMAIN c.lines |->
                                    OrderPrice(orders[c.order], c.lines[i].item)]]]
    /\ calls' = calls + 1
    /\ UNCHANGED <<ledger, book, orders, receipts, stock, costs>>

Arrival(receipt, i, price) ==
    [id |-> <<receipt.id, i>>, item |-> receipt.lines[i].item, direction |-> "in",
     quantity |-> receipt.lines[i].quantity, cost |-> price]

\* One movement a line, each under the warehouse's own lock.
RecordLine(s) ==
    LET move == Arrival(call[s].receipt, call[s].at, call[s].prices[call[s].at]) IN
    /\ call[s].pc = "record"
    /\ stock' = Record(stock, move)
    /\ call' = [call EXCEPT ![s] =
                    IF call[s].at < Len(call[s].receipt.lines)
                    THEN [call[s] EXCEPT !.at = @ + 1]
                    ELSE [call[s] EXCEPT !.pc = "save"]]
    /\ UNCHANGED <<ledger, book, orders, receipts, costs, calls>>

\* The order book keeps every receipt it is handed, one it has seen included.
SaveReceipt(s) ==
    /\ call[s].pc = "save"
    /\ receipts' = Append(receipts, call[s].receipt)
    /\ call' = [call EXCEPT ![s] = Idle]
    /\ UNCHANGED <<ledger, book, orders, stock, costs, calls>>

\* Goods that leave without a sale: Ledger.Record of an issue.
WriteOff(c) ==
    /\ c.kind = "write off" /\ calls < MaxCalls
    /\ CanApply(stock, Move(c, "out"))
    /\ stock' = Record(stock, Move(c, "out"))
    /\ calls' = calls + 1
    /\ UNCHANGED <<ledger, book, orders, receipts, costs, call>>

-----------------------------------------------------------------------------

Flow(s, c) ==
    \/ InvoiceSale(s, c) \/ Pay(s, c) \/ CreditSale(s, c)
    \/ InvoicePurchase(s, c) \/ PaySupplier(s, c)
    \/ IssueGoods(s, c) \/ ReturnGoods(s, c)
    \/ OrderGoods(s, c) \/ ReceiveGoods(s, c)

Advance(s) ==
    \/ Post(s) \/ PostAnswerLost(s) \/ CreateDocument(s) \/ ApplyPayment(s)
    \/ GiveUp(s) \/ RecordLine(s) \/ SaveReceipt(s)

\* A step of callers who ask for these commands.
Asking(commands) ==
    \/ \E s \in Sessions : Advance(s) \/ \E c \in commands : Flow(s, c)
    \/ \E c \in commands : WriteOff(c)
    \/ \E id \in Docs : VoidDocument(id)

Next == Asking(Commands)

Spec == Init /\ [][Next]_vars

-----------------------------------------------------------------------------
(* Properties. *)

\* The type invariant: vouchers balance and carry one id each, a flow under way
\* is at one of its steps, and the warehouse holds no negative quantity.
TypeOK ==
    /\ \A v \in ledger : SumOf(LAMBDA e : e.debit - e.credit, v.entries) = 0
    /\ \A v, w \in ledger : v.id = w.id => v = w
    /\ \A s \in Sessions : call[s].pc \in {"idle", "post", "create", "apply", "record", "save"}
    /\ stock.valuations \in [Items -> [quantity : Nat, average : Nat]]
    /\ stock.returned \in [Moves -> Nat]
    /\ calls \in 0 .. MaxCalls

Balance(account, vouchers) ==
    Total([v \in vouchers |->
        SumOf(LAMBDA e : IF e.account = account THEN e.debit - e.credit ELSE 0, v.entries)])

\* The accounts a document was recorded on tell whose invoice it is.
OnAccount(account) ==
    {d \in Docs : \E i \in DOMAIN lines[d] : lines[d][i].account = account}

Receivable == SalesAccounts.receivable
Payables == PurchaseAccounts.payable
Controls == {Receivable, Payables}

Creating == [account \in Controls |-> IF account = Receivable THEN "invoice" ELSE "purchase"]

Rows == allocations \cup credits

\* The book holds what the voucher was posted for.
InBook(v) ==
    CASE v.id[1] = "invoice"          -> v.id[2] \in OnAccount(Receivable)
      [] v.id[1] = "purchase"         -> v.id[2] \in OnAccount(Payables)
      [] v.id[1] = "payment"          -> \E r \in Rows : r.id = <<"apply", v.id[2]>>
      [] v.id[1] = "credit"           -> \E r \in Rows : r.id = <<"credit-apply", v.id[2]>>
      [] v.id[1] = "supplier-payment" -> \E r \in Rows : r.id = <<"supplier-apply", v.id[2]>>
      [] OTHER                        -> FALSE

\* What callers keep to of their own accord, for nothing in the program holds
\* them to it: no line of a bill or an order names a control account, and a
\* payment names a document of its own cycle.
ControlsReserved ==
    \A c \in Commands : c.kind \in {"bill", "order"} =>
        \A i \in DOMAIN c.lines : c.lines[i].account \notin Controls

PaymentsInPlace ==
    \A c, e \in Commands :
        /\ c.kind = "payment" /\ e.kind = "bill" => c.doc # e.id
        /\ c.kind = "supplier payment" /\ e.kind = "invoice" => c.doc # e.id

\* What the book says is owed on an account: outstanding, less what partners
\* hold in credit.  Voiding a document posts nothing, so the ledger still
\* carries the whole of it.
Owed(account) ==
    Total([d \in OnAccount(account) |->
        IF documents[d].status = "void" THEN documents[d].total ELSE Book!Outstanding(documents[d])])
    - Total([r \in {c \in credits : c.doc \in OnAccount(account)} |-> r.amount])

\* trading.go: the sub-ledger is derived from the ledger.  Every document and
\* every application the book holds has its voucher, and to the last unit the
\* vouchers the book knows of are what the book says is owed, both ways round:
\* whatever was retried, raced, cut off, credited twice or voided, the only gap
\* between the two is a voucher the book has not heard of.
SubledgerFollowsLedger ==
    /\ \A account \in Controls : \A d \in OnAccount(account) :
          Posted(<<Creating[account], d>>)
    /\ \A r \in Rows : \E v \in ledger : InBook(v) /\ v.id[2] = r.payment
    /\ Balance(Receivable, {v \in ledger : InBook(v)}) = Owed(Receivable)
    /\ -Balance(Payables, {v \in ledger : InBook(v)}) = Owed(Payables)

\* The log folded again: the position, what was paid in and what went out.
Counted(acc, move) ==
    [position |-> Apply(acc.position, move),
     paid |-> acc.paid + IF move.direction = "in" THEN move.quantity * move.cost ELSE 0,
     left |-> acc.left + IF move.direction = "out" THEN move.quantity * acc.position.average ELSE 0]

Folded(item) ==
    LET folded[n \in 0 .. Len(stock.moves)] ==
            IF n = 0 THEN [position |-> Nothing, paid |-> 0, left |-> 0]
            ELSE IF stock.moves[n].item # item THEN folded[n - 1]
            ELSE Counted(folded[n - 1], stock.moves[n])
    IN  folded[Len(stock.moves)]

\* ledger.go, valuation.go: the positions are folded from the log and the log
\* alone gives them back, quantity for quantity; and the average only ever
\* drops what it cannot express, so goods that left and goods that stay never
\* cost more between them than was paid for them.
CarriedNeverAboveCost ==
    \A item \in Items :
        LET folded == Folded(item) IN
        /\ folded.position = stock.valuations[item]
        /\ Level(stock, item) = stock.valuations[item].quantity
        /\ Value(folded.position) + folded.left <= folded.paid

\* What the movements of a selection come to.
Quantity(moves) == Total([n \in moves |-> stock.moves[n].quantity])

Billing == {s \in Sessions : call[s].pc \in {"post", "create"}
                                /\ "warnings" \in DOMAIN call[s].then}

\* purchase.go, cogs.go: every receipt the order book shows was moved into the
\* warehouse line by line, as often as it was saved; a bill that warned of
\* nothing is for goods the warehouse took in; and what came back against an
\* issue never exceeds what left under it, over any run of returns.
WarehouseBacksPapers ==
    /\ \A n \in DOMAIN receipts : \A i \in DOMAIN receipts[n].lines :
          Cardinality({m \in DOMAIN stock.moves : stock.moves[m].id = <<receipts[n].id, i>>})
            >= Cardinality({k \in DOMAIN receipts : receipts[k].id = receipts[n].id
                                                     /\ i \in DOMAIN receipts[k].lines})
    /\ \A s \in Billing : \A item \in Items \ call[s].then.warnings :
          Quantity({m \in DOMAIN stock.moves :
                        stock.moves[m].item = item /\ stock.moves[m].direction = "in"})
            >= Units(item, orders[call[s].then.order].lines)
    /\ \A m \in Moves :
          stock.returned[m] <= Quantity({n \in DOMAIN stock.moves :
                                  stock.moves[n].id = m /\ stock.moves[n].direction = "out"})

\* A voucher posted for the book, with no flow left to tell the book.
Orphan(v) ==
    /\ v \in ledger /\ ~InBook(v)
    /\ \A s \in Sessions : call[s].pc \in {"create", "apply"} => call[s].voucher # v

\* sales.go:254-258 calls an invoice that reached the ledger and not the book
\* recoverable: a call that comes again with the voucher of one can go on to
\* write the row the first call did not.
RetryRecoversInvoice ==
    \A s \in Sessions :
        /\ call[s].pc = "post" /\ call[s].voucher.id[1] = "invoice"
        /\ Orphan(call[s].voucher)
        => ENABLED (Advance(s) /\ call'[s].pc = "create")

\* purchase.go:446-447 says replaying the same receipt writes the same movement
\* rather than a second one.
ReplayWritesNoSecondMovement ==
    \A i, j \in DOMAIN stock.moves :
        stock.moves[i].direction = "in" /\ i # j => stock.moves[i].id # stock.moves[j].id
=============================================================================
