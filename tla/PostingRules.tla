----------------------------- MODULE PostingRules -----------------------------
(***************************************************************************)
(* internal/posting: which account answers a posting decision, checked     *)
(* once when the rules are loaded.                                         *)
(***************************************************************************)
AccountTypes == {"ASSET", "LIABILITY", "EQUITY", "REVENUE", "EXPENSE"}

Decision(side, type) == [document |-> "sales invoice", side |-> side, type |-> type]

\* Every decision the engine makes.
Requirements ==
    {Decision("debit", "ASSET"), Decision("credit", "REVENUE"), Decision("credit", "LIABILITY"),
     Decision("debit", "EXPENSE"), Decision("credit", "ASSET")}

Rule(side, type, account) == [key |-> Decision(side, type), account |-> account]

TT133Defaults ==
    {Rule("debit", "ASSET", "131"), Rule("credit", "REVENUE", "5111"),
     Rule("credit", "LIABILITY", "33311"), Rule("debit", "EXPENSE", "632"),
     Rule("credit", "ASSET", "156")}

ValidRule(rule) ==
    rule.key.side \in {"debit", "credit"} /\ rule.key.type \in AccountTypes /\ rule.account # ""

\* LoadFor: no decision is answered twice differently, none required is left
\* unanswered.
Loadable(rules, required) ==
    /\ \A r \in rules : ValidRule(r)
    /\ \A r, s \in rules : r.key = s.key => r.account = s.account
    /\ required \subseteq {r.key : r \in rules}

\* RuleSet.Resolve, of a set that was loaded.
AccountFor(rules, side, type) == (CHOOSE r \in rules : r.key = Decision(side, type)).account

ASSUME RulesLoad == Loadable(TT133Defaults, Requirements)
===============================================================================
