----------------------------- MODULE Warehouse -----------------------------
(***************************************************************************)
(* The stock ledger of internal/inventory: the log of movements, the       *)
(* moving average each item stands at, and what has come back against each *)
(* issue.  Every operation holds the ledger's mutex, so each is one step.  *)
(***************************************************************************)
EXTENDS Totals, Integers, Sequences

CONSTANTS
    Items,          \* what the warehouse keeps
    Moves           \* movement ids

\* Nothing on hand, at no rate.
Nothing == [quantity |-> 0, average |-> 0]

NewLedger == [moves      |-> <<>>,
              valuations |-> [item \in Items |-> Nothing],
              returned   |-> [move \in Moves |-> 0]]

\* Mutant: the average is rounded up, and the holding is carried above cost.
AverageUp(v, quantity, cost) ==
    LET paid == v.quantity * v.average + quantity * cost
        held == v.quantity + quantity
    IN  (paid + held - 1) \div held

\* weightedAverage, truncated.
Average(v, quantity, cost) ==
    (v.quantity * v.average + quantity * cost) \div (v.quantity + quantity)

Receive(v, quantity, cost) ==
    [quantity |-> v.quantity + quantity, average |-> Average(v, quantity, cost)]

\* An empty holding is left at no rate.
Issue(v, quantity) ==
    IF v.quantity = quantity THEN Nothing
    ELSE [v EXCEPT !.quantity = @ - quantity]

Value(v) == v.quantity * v.average

ValidMove(move) == move.item \in Items /\ move.quantity > 0 /\ move.cost >= 0

\* Valuation.Apply: what refuses a movement, and where it leaves the item.
CanApply(stock, move) ==
    /\ ValidMove(move)
    /\ move.direction = "out" => move.quantity <= stock.valuations[move.item].quantity

Apply(v, move) ==
    IF move.direction = "in" THEN Receive(v, move.quantity, move.cost)
    ELSE Issue(v, move.quantity)

Kept(stock, move) ==
    [moves      |-> Append(stock.moves, move),
     valuations |-> [stock.valuations EXCEPT ![move.item] = Apply(@, move)],
     returned   |-> stock.returned]

\* Ledger.Record.  An issue is logged at the average left standing, which is
\* nothing when the whole holding goes.  Movement ids are not compared.
Record(stock, move) ==
    LET next == Apply(stock.valuations[move.item], move)
    IN  Kept(stock, IF move.direction = "out" THEN [move EXCEPT !.cost = next.average]
                    ELSE move)

\* What an issue costs: the quantity at the average standing when it leaves.
IssueCost(stock, move) == move.quantity * stock.valuations[move.item].average

\* RecordIssue: nothing is written for an entry that would move nothing.
CanRecordIssue(stock, move) ==
    /\ move.direction = "out"
    /\ CanApply(stock, move)
    /\ IssueCost(stock, move) > 0

\* The cost entry of an issue, and what a return of it is sized from.
CostEntry(stock, move) ==
    [move |-> move.id, item |-> move.item, quantity |-> move.quantity,
     unitCost |-> stock.valuations[move.item].average,
     amount |-> IssueCost(stock, move)]

\* Mutant: each return is measured against the issue and not against what is left.
CanReturnEach(stock, entry, move) ==
    /\ move.direction = "in" /\ ValidMove(move)
    /\ move.quantity <= entry.quantity
    /\ entry.unitCost > 0

\* RecordReturn: what has come back together never exceeds what went out.
CanReturn(stock, entry, move) ==
    /\ move.direction = "in" /\ ValidMove(move)
    /\ move.quantity <= entry.quantity - stock.returned[entry.move]
    /\ entry.unitCost > 0

\* Goods come back at the cost they left at, whatever the average is now.
Return(stock, entry, move) ==
    [Kept(stock, [move EXCEPT !.cost = entry.unitCost])
        EXCEPT !.returned[entry.move] = @ + move.quantity]

Level(stock, item) ==
    LET moved(move) == IF move.item # item THEN 0
                       ELSE IF move.direction = "in" THEN move.quantity
                       ELSE -move.quantity
    IN  Total([n \in DOMAIN stock.moves |-> moved(stock.moves[n])])
=============================================================================
