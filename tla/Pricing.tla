------------------------------ MODULE Pricing ------------------------------
(***************************************************************************)
(* What a document comes to: trading/pricing.go over the VAT rate rows of  *)
(* internal/vat.  Amounts are whole minor units of one currency.           *)
(***************************************************************************)
EXTENDS Totals, VatRegistry, Sequences

CONSTANTS
    VATRates,       \* rate row id -> basis points: the rows of vat.Registry
    MaxAmount       \* math.MaxInt64 in the program

ASSUME RatesAssumption == VATRates \in [DOMAIN VATRates -> 0 .. Whole]
ASSUME MaxAmountAssumption == MaxAmount \in Nat

Base(line)      == line.price * line.quantity
VAT(line)       == TaxOn(Base(line), VATRates[line.rate])
LineTotal(line) == Base(line) + VAT(line)

SumOf(Amount(_), source) ==
    Total([i \in DOMAIN source |-> Amount(source[i])])

\* A line that says what is bought, how much of it and at which rate row.
ValidSource(line) == line.quantity > 0 /\ line.price >= 0

\* priceLines answers: every product can be held, every rate row is known, one
\* currency throughout, and the document is worth more than nothing.
Priceable(source) ==
    /\ source # <<>>
    /\ \A i \in DOMAIN source :
          /\ ValidSource(source[i])
          /\ Base(source[i]) <= MaxAmount
          /\ source[i].rate \in DOMAIN VATRates
          /\ source[i].currency = source[1].currency
    /\ SumOf(LineTotal, source) > 0
=============================================================================
