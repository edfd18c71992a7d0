---------------------------- MODULE MCPeriodClose ----------------------------
(***************************************************************************)
(* Two operators and a desk over January and February, with a December     *)
(* before them that may be added; months of thirty days.                   *)
(***************************************************************************)
EXTENDS Reports, TLC

MCAccounts == {"111", "5111", "6422", "911", "4212", "2141", "2293"}
MCAccountType == [a \in MCAccounts |->
    CASE a = "5111" -> "revenue" [] a \in {"6422", "911"} -> "expense"
      [] a = "4212" -> "equity" [] OTHER -> "asset"]
MCFallback == [depreciation |-> "6422", accumulated |-> "2141",
               badDebt |-> "6422", provision |-> "2293"]
MCBands == <<[name |-> "current", from |-> 0, percent |-> 0],
             [name |-> "1-30 days", from |-> 1, percent |-> 10],
             [name |-> "over 30 days", from |-> 31, percent |-> 50]>>

MCOpening   == {[id |-> "jan", first |-> 0, last |-> 29], [id |-> "feb", first |-> 30, last |-> 59]}
\* December joins the calendar; April would leave March uncovered.
MCAdditions == {[id |-> "dec", first |-> -30, last |-> -1], [id |-> "apr", first |-> 90, last |-> 119]}

\* January forced past its open invoice and January waiting for it, under two
\* ids, and February under an id January may have taken.
MCCommands == {[period |-> "jan", voucher |-> "k1", force |-> TRUE],
               [period |-> "jan", voucher |-> "k2", force |-> FALSE],
               [period |-> "feb", voucher |-> "k2", force |-> FALSE]}

Nothing == [assets |-> {}, receivables |-> {}]
\* A machine with a month of its life left, a desk too cheap for its life, and
\* debts not yet due, newly due and old.
Machine == [id |-> "machine", cost |-> 100, residual |-> 10, life |-> 4, accumulated |-> 75,
            expense |-> "", accumulation |-> ""]
Cheap   == [id |-> "cheap", cost |-> 5, residual |-> 2, life |-> 12, accumulated |-> 0,
            expense |-> "6422", accumulation |-> "2141"]
Debts   == {[id |-> "a", due |-> 40, amount |-> 70], [id |-> "b", due |-> 20, amount |-> 30],
            [id |-> "c", due |-> -5, amount |-> 41], [id |-> "d", due |-> -5, amount |-> -8]}
\* A van depreciated into an expense account, which no close may do.
Van     == [Machine EXCEPT !.id = "van", !.accumulation = "5111"]

FactsOf(january, february) == [id \in {"dec", "jan", "feb", "apr"} |->
    CASE id = "jan" -> january [] id = "feb" -> february [] OTHER -> Nothing]
MCFactSets == {FactsOf(Nothing, Nothing),
               FactsOf([assets |-> {Machine, Cheap}, receivables |-> Debts],
                       [assets |-> {Van}, receivables |-> {}])}

Entry(day, debit, credit, amount) ==
    [day |-> day, lines |-> [a \in MCAccounts |->
        CASE a = debit -> amount [] a = credit -> -amount [] OTHER -> 0]]
\* What January provides for is 39, so that its first entry may cancel it.
MCEntries == {Entry(29, "111", "6422", 39),      \* an expense paid back on the closing day
              Entry(5, "6422", "111", 39),       \* and the reversal of that
              Entry(5, "911", "111", 5),         \* somebody posts to the result account,
              Entry(6, "5111", "911", 5),        \* and out of it again
              Entry(35, "111", "5111", 10)}      \* a sale of February's
MCDocuments == {[id |-> "inv", period |-> "jan"]}

Symmetry == Permutations(Operators)
===============================================================================
