--------------------------- MODULE MCDocumentStore ---------------------------
(***************************************************************************)
(* Two callers over two invoices.  The application ids are the ones the    *)
(* sales and purchase cycles derive, "apply-" and the payment: the same    *)
(* for every document a payment is offered to.                             *)
(***************************************************************************)
EXTENDS DocumentStore

CONSTANTS s1, s2

MCSessions == {s1, s2}
MCDocs     == {1, 2}

Side1(debit, credit) == [debit |-> debit, credit |-> credit, currency |-> "VND"]

Invoice(id, total, ls) ==
    [id |-> id, lines |-> ls,
     document |-> [partner |-> "customer", total |-> total, currency |-> "VND",
                   allocated |-> 0, status |-> "open"]]

\* The last one does not balance, and is refused.
MCDrafts ==
    {Invoice(1, 2, <<Side1(2, 0), Side1(0, 2)>>),
     Invoice(2, 1, <<Side1(1, 0), Side1(0, 1)>>),
     Invoice(2, 1, <<Side1(1, 0)>>)}

Offer(doc, payment, amount, currency) ==
    [id |-> "apply-" \o payment, doc |-> doc, payment |-> payment,
     amount |-> amount, currency |-> currency]

\* A part, an overpayment and the same payment again with another amount on
\* the first invoice; one payment split over both; a wrong currency; nothing.
MCApplications ==
    {Offer(1, "p", 1, "VND"), Offer(1, "p", 3, "VND"), Offer(1, "q", 2, "VND"),
     Offer(2, "p", 1, "VND"), Offer(1, "q", 1, "USD")}
=============================================================================
