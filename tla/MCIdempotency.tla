---------------------------- MODULE MCIdempotency ----------------------------
(***************************************************************************)
(* Three arrivals of one key, the third of them asking for something else. *)
(***************************************************************************)
EXTENDS Idempotency

CONSTANTS r1, r2, r3, k1

MCArrivals == {r1, r2, r3}
MCKeys     == {k1}
MCKeyOf    == [r \in MCArrivals |-> k1]
MCHashOf   == [r \in MCArrivals |-> IF r = r3 THEN "credit" ELSE "invoice"]
=============================================================================
