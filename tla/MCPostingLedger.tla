--------------------------- MODULE MCPostingLedger ---------------------------
(***************************************************************************)
(* Two callers, two days, one item with three units worth ten on hand: an  *)
(* average that does not divide.  One book is in use, one has no row yet.  *)
(***************************************************************************)
EXTENDS PostingLedger

CONSTANTS c1, c2, d1, d2

MCCallers == {c1, c2}
MCDays    == {d1, d2}
MCLockable == {d2}
MCClosable == {d1}
MCBooks   == {"HD", "PK"}

MCOpeningLog == <<[item |-> "rice", kind |-> "receipt", quantity |-> 3, cost |-> 10,
                   voucher |-> None, owner |-> None]>>

MCOpeningSeq == [b \in MCBooks |-> IF b = "HD" THEN 0 ELSE 4]

V(id, book, day, valid) == [id |-> id, book |-> book, day |-> day, valid |-> valid]

Take(quantity) == [item |-> "rice", quantity |-> quantity]

Posting(voucher, cost, key, document, issues, receipts) ==
    [op |-> "post", voucher |-> voucher, cost |-> cost, key |-> key,
     document |-> document, issues |-> issues, receipts |-> receipts]

\* A sale of two units with its cost in a book of its own and on another day;
\* the same request again under another voucher id; a purchase; a sale with
\* the same item on two lines; an entry whose document is refused, and one
\* whose cost voucher does not balance.
Sale     == Posting(V("sale", "HD", d1, TRUE), V("cost", "PK", d2, TRUE), "request",
                    "invoice", <<Take(2)>>, <<>>)
Again    == Posting(V("again", "HD", d2, TRUE), None, "request", None, <<Take(2)>>, <<>>)
Purchase == Posting(V("buy", "PK", d1, TRUE), None, None, None, <<>>,
                    <<[item |-> "rice", quantity |-> 1, cost |-> 5]>>)
TwoLines == Posting(V("two", "HD", d2, TRUE), None, None, None, <<Take(1), Take(1)>>, <<>>)
NoInvoice == Posting(V("bare", "HD", d1, TRUE), None, None, "invalid", <<Take(3)>>, <<>>)
Broken   == Posting(V("broken", "HD", d1, TRUE), V("unbalanced", "PK", d1, FALSE), None, None,
                    <<>>, <<>>)

Move(issues, receipts) ==
    [op |-> "move", voucher |-> [id |-> None], issues |-> issues, receipts |-> receipts]

MCPostings == {Sale, Again, Purchase, TwoLines, NoInvoice, Broken}
MCMoves    == {Move(<<Take(1)>>, <<>>),
               Move(<<>>, <<[item |-> "rice", quantity |-> 1, cost |-> 5]>>)}

\* For the runs that refute: two sales that cannot both be served, and one
\* sale with the same item on two of its lines.
Rival     == Posting(V("rival", "HD", d2, TRUE), None, None, None, <<Take(2)>>, <<>>)
TwoSales  == {Sale, Rival}
LineSales == {TwoLines}
NoMoves   == {}
=============================================================================
