------------------------------- MODULE Totals -------------------------------
(***************************************************************************)
(* The one sum of the modules: what the amounts of a function with a       *)
(* finite domain come to.  The program adds them up in a loop over a slice *)
(* or a query's rows; the order makes no difference (TotalsProofs).        *)
(***************************************************************************)
EXTENDS Functions

Total(amounts) == SumFunction(amounts)
=============================================================================
