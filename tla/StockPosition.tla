---------------------------- MODULE StockPosition ----------------------------
(***************************************************************************)
(* A stock position under the moving average (domain/inventory): what is   *)
(* on hand and what it is worth, rebuilt from the log of movements.        *)
(* Quantities and amounts are whole numbers; an issue is costed in whole   *)
(* dong, rounded half up.                                                  *)
(***************************************************************************)
EXTENDS Integers, Sequences

\* readable is FALSE where the program returns an error instead of a position.
Empty == [readable |-> TRUE, quantity |-> 0, value |-> 0]

\* money.Dong of a non-negative fraction.
Dong(numerator, denominator) == (2 * numerator + denominator) \div (2 * denominator)

\* The whole holding takes the whole value, so nothing is left in an empty item.
CostOf(position, quantity) ==
    IF quantity = position.quantity THEN position.value
    ELSE Dong(position.value * quantity, position.quantity)

CanIssue(position, quantity) ==
    position.readable /\ 0 < quantity /\ quantity <= position.quantity

Issue(position, quantity) ==
    [position EXCEPT !.quantity = @ - quantity,
                     !.value = IF quantity = position.quantity THEN 0
                               ELSE @ - CostOf(position, quantity)]

CanReceive(position, quantity, cost) ==
    position.readable /\ quantity > 0 /\ cost >= 0

Receive(position, quantity, cost) ==
    [position EXCEPT !.quantity = @ + quantity, !.value = @ + cost]

Unreadable(position) == [position EXCEPT !.readable = FALSE]

\* One movement of the log.  An issue is costed again, and one whose recorded
\* cost differs makes the log unreadable.
Replayed(position, m) ==
    CASE m.kind = "receipt" /\ CanReceive(position, m.quantity, m.cost) ->
            Receive(position, m.quantity, m.cost)
      [] m.kind = "issue" /\ CanIssue(position, m.quantity)
           /\ (m.cost <= 0 \/ m.cost = CostOf(position, m.quantity)) ->
            Issue(position, m.quantity)
      [] OTHER -> Unreadable(position)

\* The positions of one item, after each movement of a log that holds several.
Replay(movements, item) ==
    LET at[n \in 0 .. Len(movements)] ==
            IF n = 0 THEN Empty
            ELSE IF movements[n].item # item THEN at[n - 1]
            ELSE Replayed(at[n - 1], movements[n])
    IN  at

\* Where the log leaves it.
PositionIn(movements, item) == Replay(movements, item)[Len(movements)]
=============================================================================
