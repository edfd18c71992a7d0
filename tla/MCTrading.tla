----------------------------- MODULE MCTrading -----------------------------
(***************************************************************************)
(* The places a sale is entered and paid, checked in one run: the sales    *)
(* cycle (two callers, one customer invoice), the purchase cycle with the  *)
(* warehouse (two items bought on two orders at two prices, one bill), the *)
(* web interface over books of its own (two browsers), the practice desk's *)
(* settlements (two clerks, a credit note among the papers), or the        *)
(* practice's own registry of clients.  A behaviour exercises one of them. *)
(***************************************************************************)
EXTENDS Trading, WebPages, Settlement, ClientScope, TLC

CONSTANTS s1, s2, v1, v2, c1, c2

VARIABLE exercise

MCSessions == {s1, s2}
MCDocs     == {"7", "8"}
MCOrders   == {"o", "n"}
MCItems    == {"rice", "tea"}
MCMoves    == {<<"i", 0>>, <<"b", 0>>, <<"w", 0>>}
MCPartner  == [d \in MCDocs |-> IF d = "7" THEN "customer" ELSE "supplier"]
MCVATRates == [ten |-> 1000, zero |-> 0]

Line(quantity, price, rate) ==
    [item |-> "rice", quantity |-> quantity, price |-> price, rate |-> rate,
     currency |-> "VND", account |-> ""]

\* Two prices for one item, so the average has something to drop.
Ordering(id, price) ==
    [kind |-> "order", id |-> id,
     lines |-> <<Line(2, price, "zero"), [Line(1, 2, "ten") EXCEPT !.item = "tea"]>>]
Arriving(id, order, quantity) ==
    [kind |-> "receipt", id |-> id, order |-> order,
     lines |-> <<[item |-> "rice", quantity |-> quantity], [item |-> "tea", quantity |-> 1]>>]

SalesCommands ==
    {[kind |-> "invoice", id |-> "7", lines |-> <<Line(1, 5, "ten")>>],
     [kind |-> "payment", id |-> "p", doc |-> "7", amount |-> 2, currency |-> "VND"],
     [kind |-> "payment", id |-> "p", doc |-> "7", amount |-> 7, currency |-> "VND"],
     [kind |-> "payment", id |-> "q", doc |-> "7", amount |-> 2, currency |-> "USD"],
     [kind |-> "credit", id |-> "c", doc |-> "7"],
     [kind |-> "credit", id |-> "p", doc |-> "7"]}

PurchaseCommands ==
    {Ordering("o", 1), Ordering("n", 2), Arriving("r", "o", 2), Arriving("t", "n", 1),
     [kind |-> "bill", id |-> "8", order |-> "o", lines |-> <<Line(2, 3, "ten"), [Line(1, 2, "ten") EXCEPT !.item = "tea"]>>],
     [kind |-> "supplier payment", id |-> "p", doc |-> "8", amount |-> 3, currency |-> "VND"]}

StockCommands ==
    {[kind |-> "issue", move |-> <<"i", 0>>, item |-> "rice", quantity |-> 2],
     [kind |-> "return", move |-> <<"b", 0>>, of |-> <<"i", 0>>, item |-> "rice", quantity |-> 1],
     [kind |-> "return", move |-> <<"b", 0>>, of |-> <<"i", 0>>, item |-> "tea", quantity |-> 1],
     [kind |-> "write off", move |-> <<"w", 0>>, item |-> "rice", quantity |-> 1]}

MCCommands == SalesCommands \cup PurchaseCommands \cup StockCommands

\* The callers here are of the kind the theorems on the sub-ledger speak of.
ASSUME CallersAssumption == ControlsReserved /\ PaymentsInPlace

-----------------------------------------------------------------------------
(* The web: days 1 to 4 are the year, 5 and 6 the next.                    *)

MCVisitors == {v1, v2}

Standing(parent, type) == [parent |-> parent, type |-> type, nature |-> "DEBIT", active |-> TRUE]
MCChart ==
    [code \in {"111", "1111", "131", "156", "33311", "511", "5111", "632"} |->
        CASE code = "1111" -> Standing("111", "ASSET")
          [] code = "5111" -> Standing("511", "REVENUE")
          [] code = "511"  -> Standing("", "REVENUE")
          [] code = "632"  -> Standing("", "EXPENSE")
          [] code = "33311" -> Standing("", "LIABILITY")
          [] OTHER -> Standing("", "ASSET")]
MCNumericCodes == DOMAIN MCChart \cup {"1112", "3311"}
MCCash == {"111", "1111", "1112"}
MCSuppliers == {"3311"}
MCYear == [id |-> "FY1", first |-> 1, last |-> 4]

Submit(key, form) == [key |-> key, form |-> form]
Sold(rate) == [kind |-> "invoice", customer |-> "An", day |-> 2, net |-> 10, vatRate |-> rate]
Paid(day, amount, against) ==
    [kind |-> "payment", customer |-> "An", day |-> day, amount |-> amount, account |-> "1111",
     against |-> against]
Entry(account, amount) ==
    [kind |-> "journal", day |-> 3,
     lines |-> <<[account |-> account, side |-> "debit", amount |-> 2],
                 [account |-> "131", side |-> "credit", amount |-> amount],
                 [account |-> "", side |-> "", amount |-> 0]>>]
Under(code, parent) ==
    [kind |-> "account", code |-> code, name |-> "n", parent |-> parent, type |-> "ASSET",
     nature |-> "DEBIT"]

\* An invoice, and another under the same key; payments short, exact, over,
\* against a receipt, against nothing and next year; an entry that does not
\* balance, and one on an account that another form adds; a year that joins and
\* one that does not; a rate whose window overlaps, and an invoice under it.
MCRequests ==
    {Submit("a", Sold("VAT10")), Submit("a", Sold("")),
     Submit("c", Paid(3, 11, 1)), Submit("d", Paid(3, 4, 0)), Submit("e", Paid(5, 4, 1)),
     Submit("g", Entry("1112", 2)), Submit("h", Entry("1111", 1)),
     Submit("j", Under("1112", "111")),
     Submit("m", [kind |-> "period", id |-> "FY2", first |-> 5, last |-> 6]),
     Submit("n", [kind |-> "period", id |-> "FY2", first |-> 4, last |-> 6]),
     Submit("o", [kind |-> "rate", id |-> "VAT8", rate |-> 800, first |-> 2, last |-> 3]),
     Submit("p", Sold("VAT8"))}

-----------------------------------------------------------------------------
(* The desk: four papers of one customer, two of one day and reference and  *)
(* one that repeats a reference, and payments that fall short of a paper,   *)
(* run over into the next one and pay for everything.                       *)

MCClerks == {c1, c2}

PaperOf(kind, reference, day, amount) ==
    [partner |-> "An", kind |-> kind, reference |-> reference, day |-> day, amount |-> amount]
MCPapers ==
    {PaperOf("sales invoice", 1, 2, 3), PaperOf("sales invoice", 2, 1, 2), PaperOf("credit note", 1, 2, 2),
     PaperOf("sales invoice", 2, 4, 5)}
Paying(voucher, amount) == [partner |-> "An", voucher |-> voucher, amount |-> amount]
MCReceipts == {Paying("p", 1), Paying("q", 4), Paying("r", 9)}

-----------------------------------------------------------------------------
(* The registry: two companies, one tax code written two ways or not yet to *)
(* hand, and requests for either, one that names the other's row.          *)

Company(id, code, written) ==
    [id |-> id, name |-> id, tax |-> [code |-> code, written |-> written], active |-> TRUE]
MCForms ==
    {Company("an", "0101", "bare"), Company("an", "", "bare"), Company("bo", "0101", "spaced"),
     Company("bo", "", "bare"), Company("bo", "0202", "bare"), Company("", "0303", "bare")}
Asked(client, op, owner) ==
    [client |-> client, op |-> op, id |-> "x", owner |-> owner, number |-> "1"]
MCCalls ==
    {Asked("an", "put", ""), Asked("an", "put", "bo"), Asked("bo", "put", "bo"), Asked("an", "delete", ""),
     Asked("bo", "read", ""), Asked("", "read", "")}

-----------------------------------------------------------------------------

Sell(A) == exercise = "sales" /\ A /\ UNCHANGED <<webVars, settlementVars, clientVars, exercise>>
Buy(A) == exercise = "purchases" /\ A /\ UNCHANGED <<webVars, settlementVars, clientVars, exercise>>
Browse(A) == exercise = "web" /\ A /\ UNCHANGED <<vars, settlementVars, clientVars, exercise>>
Settle(A) == exercise = "desk" /\ A /\ UNCHANGED <<vars, webVars, clientVars, exercise>>
Serve(A) == exercise = "clients" /\ A /\ UNCHANGED <<vars, webVars, settlementVars, exercise>>

MCInit ==
    /\ Init /\ WebInit /\ SettlementInit /\ ClientInit
    /\ exercise \in {"sales", "purchases", "web", "desk", "clients"}
MCNext ==
    \/ Sell(Asking(SalesCommands))
    \/ Buy(Asking(Commands \ SalesCommands))
    \/ Browse(WebNext)
    \/ Settle(SettlementNext)
    \/ Serve(ClientNext)
MCSpec == MCInit /\ [][MCNext]_<<vars, webVars, settlementVars, clientVars, exercise>>

\* Sessions are interchangeable, and so are browsers and clerks; no liveness is
\* checked.
Symmetry == Permutations(MCSessions) \cup Permutations(MCVisitors) \cup Permutations(MCClerks)
=============================================================================
