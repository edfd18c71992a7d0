----------------------------- MODULE VatRegistry -----------------------------
(***************************************************************************)
(* The VAT rate table of internal/vat: rows that are added and never       *)
(* changed, and what a row charges.  Days are integers; amounts are whole  *)
(* minor units.                                                            *)
(***************************************************************************)
EXTENDS Integers

Whole == 10000

\* A row that declares no end: days count from 1.
Unended == 0

Magnitude(n) == IF n < 0 THEN -n ELSE n

\* vat.taxOn: rounded half away from zero, whatever the sign.
TaxOn(net, rate) ==
    LET product == Magnitude(net * rate)
        rounded == (2 * product + Whole) \div (2 * Whole)
    IN  IF net < 0 THEN -rounded ELSE rounded

ValidRate(row) ==
    /\ row.id # ""
    /\ row.rate \in 0 .. Whole
    /\ row.last # Unended => row.last > row.first

\* admits: an active row comes after every active row, and after its end if it
\* declared one.
Admits(rows, row) ==
    \A held \in {r \in rows : r.active} :
        /\ row.first > held.first
        /\ held.last # Unended => row.first > held.last

KnownRate(rows, id) == \E r \in rows : r.id = id

CanCreateRate(rows, row) ==
    /\ ValidRate(row)
    /\ ~KnownRate(rows, row.id)
    /\ row.active => Admits(rows, row)

\* Registry.Charge: by the row's id, active or not, whatever the day.
ChargeOn(rows, id, net) == TaxOn(net, (CHOOSE r \in rows : r.id = id).rate)
=============================================================================
