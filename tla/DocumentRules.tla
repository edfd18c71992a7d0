--------------------------- MODULE DocumentRules ---------------------------
(***************************************************************************)
(* The rules of a single document: document.go, line.go, allocation.go.    *)
(* Pure functions both repositories call before they write.                *)
(*                                                                         *)
(* Amounts are integers beside a currency, as money.Money is.  Dates,      *)
(* document types, periods and VAT rates are carried by the program and    *)
(* decide nothing here, so they are left out.                              *)
(***************************************************************************)
EXTENDS Totals, Integers, Sequences, FiniteSets

CONSTANTS
    Docs,           \* document ids, the primary key of arap_documents
    Drafts,         \* the documents a caller may ask to create
    Applications,   \* the payments a caller may offer: document.Application
    NoDocument      \* what stands under an id nothing was created for

Currencies == {"VND", "USD"}
Statuses   == {"open", "partially_paid", "paid", "void"}

Document == [partner : STRING, total : Int, currency : Currencies,
             allocated : Int, status : Statuses]

Line == [debit : Int, credit : Int, currency : Currencies]

Allocation == [id : STRING, doc : Docs, payment : STRING, amount : Int]
Credit     == [id : STRING, doc : Docs, payment : STRING, partner : STRING,
               amount : Int]

ASSUME DocsAssumption == Docs \subseteq Nat
ASSUME DraftsAssumption ==
    Drafts \subseteq [id : Docs, document : Document, lines : Seq(Line)]
ASSUME ApplicationsAssumption ==
    Applications \subseteq [id : STRING, doc : Docs, payment : STRING,
                            amount : Int, currency : Currencies]
ASSUME NoDocumentAssumption == NoDocument \notin Document

StatusFor(total, allocated) ==
    CASE allocated <= 0     -> "open"
      [] allocated >= total /\ allocated > 0 -> "paid"
      [] OTHER              -> "partially_paid"

ValidDocument(d) ==
    /\ d.total > 0
    /\ 0 <= d.allocated /\ d.allocated <= d.total
    /\ d.status = "void" \/ d.status = StatusFor(d.total, d.allocated)

ValidLine(line, currency) ==
    /\ line.debit >= 0 /\ line.credit >= 0
    /\ (line.debit > 0) # (line.credit > 0)
    /\ line.currency = currency

ValidLines(ls, currency) ==
    /\ ls # <<>>
    /\ \A i \in DOMAIN ls : ValidLine(ls[i], currency)
    /\ Total([i \in DOMAIN ls |-> ls[i].debit]) = Total([i \in DOMAIN ls |-> ls[i].credit])

CheckNew(draft) ==
    /\ ValidDocument(draft.document)
    /\ draft.document.status = "open" /\ draft.document.allocated = 0
    /\ ValidLines(draft.lines, draft.document.currency)

Outstanding(d) ==
    IF d.status = "void" \/ d.allocated > d.total THEN 0
    ELSE d.total - d.allocated

\* Mutant: a void document settles like any other.
MaySettleVoid(d, app) ==
    ValidDocument(d) /\ app.amount > 0 /\ app.currency = d.currency

\* The error paths of Settle: everything that refuses a payment before the
\* book is looked at.
MaySettle(d, app) ==
    /\ ValidDocument(d)
    /\ app.amount > 0
    /\ app.currency = d.currency
    /\ d.status # "void"

\* Mutant: the payment is not capped at what is outstanding.
AppliedWhole(d, app) == app.amount

\* What the document can absorb, and no more.
Applied(d, app) ==
    IF Outstanding(d) < app.amount THEN Outstanding(d) ELSE app.amount

Credited(d, app) == app.amount - Applied(d, app)

\* Allocated and Status move together.
Settled(d, app) ==
    LET allocated == d.allocated + Applied(d, app)
    IN  [d EXCEPT !.allocated = allocated,
                  !.status    = StatusFor(d.total, allocated)]

\* Mutant: the row carries the payment, not what was applied of it.
WholeAllocation(d, app) ==
    IF Applied(d, app) > 0
    THEN {[id |-> app.id, doc |-> app.doc, payment |-> app.payment, amount |-> app.amount]}
    ELSE {}

\* The rows an application leaves: at most one of each kind.
AllocationRows(d, app) ==
    IF Applied(d, app) > 0
    THEN {[id |-> app.id, doc |-> app.doc, payment |-> app.payment,
           amount |-> Applied(d, app)]}
    ELSE {}

CreditRows(d, app) ==
    IF Credited(d, app) > 0
    THEN {[id |-> app.id, doc |-> app.doc, payment |-> app.payment,
           partner |-> d.partner, amount |-> Credited(d, app)]}
    ELSE {}
=============================================================================
