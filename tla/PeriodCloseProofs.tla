-------------------------- MODULE PeriodCloseProofs --------------------------
(***************************************************************************)
(* Proofs about closing a period, for any number of operators, periods,    *)
(* accounts, entries and attempts: what a close posts clears exactly what  *)
(* it had read, one set of entries is posted for a period, what a report   *)
(* states is what its entries did, and periods are locked in order.  Every *)
(* voucher balances, so the reports of the books agree with each other and *)
(* with what the closes did.                                               *)
(***************************************************************************)
EXTENDS Reports, TotalsProofs, SequenceTheorems

-----------------------------------------------------------------------------
(* Movements over a log.                                                   *)

\* What each voucher of a log put on an account.
On(l, a) == [i \in DOMAIN l |-> l[i].lines[a]]

\* The vouchers of a period among given ones.
Dated(l, p, I) == {i \in I : Covers(p, l[i].day)}

\* An account's movement over them, for any log.
Movement(l, p, I, a) == Over(On(l, a), Dated(l, p, I))

\* A movement over the log is a sum over its vouchers.
LEMMA MovedOver ==
    ASSUME NEW p, NEW I \in SUBSET DOMAIN log, NEW a
    PROVE  Moved(p, I, a) = Movement(log, p, I, a)
<1>1. [i \in {j \in I : Covers(p, log[j].day)} |-> log[i].lines[a]]
        = [i \in Dated(log, p, I) |-> On(log, a)[i]]
  BY DEF Dated, On
<1> QED
  BY <1>1 DEF Moved, Movement, Over

-----------------------------------------------------------------------------
(* What a close provides and posts.                                        *)

\* The accounts a provision accumulates on.
Accumulating == Accounts \ (ProfitAndLoss \cup {Retained})

\* Charges as a close may make them.
Sound(charges) ==
    /\ IsFiniteSet(charges)
    /\ \A c \in charges : c.amount \in Int /\ ValidPair(c.expense, c.accumulation)

\* The quotient of integers is one.
LEMMA DivInt == \A m \in Int : \A n \in Int : n > 0 => m \div n \in Int
OBVIOUS

\* What an asset is depreciated by is a whole amount.
LEMMA DepreciationInt ==
    ASSUME NEW a \in Asset, ValidAsset(a), NEW p \in Period
    PROVE  DepreciationFor(a, MonthsSpanned(p)) \in Int
<1>1. MonthsSpanned(p) \in Int
  <2>1. p.last \in Int /\ p.first \in Int /\ MonthDays \in Int /\ MonthDays > 0
    BY MonthDaysAssumption DEF Period
  <2>2. p.last \div MonthDays \in Int /\ p.first \div MonthDays \in Int
    BY <2>1, DivInt
  <2> QED
    BY <2>2 DEF MonthsSpanned
<1>0. a.cost \in Int /\ a.residual \in Int /\ a.life \in Int /\ a.accumulated \in Int
  BY DEF Asset
<1>2. MonthlyRate(a) \in Int
  <2>1. (a.cost - a.residual) \in Int /\ a.life \in Int /\ a.life > 0
    BY <1>0 DEF ValidAsset
  <2>2. (a.cost - a.residual) \div a.life \in Int
    BY <2>1, DivInt
  <2> QED
    BY <2>2 DEF MonthlyRate
<1>3. MonthlyRate(a) * MonthsSpanned(p) \in Int
  BY <1>1, <1>2
<1>4. a.cost - a.residual - a.accumulated \in Int
  BY <1>0
<1>5. 0 \in Int
  OBVIOUS
<1> QED
  BY <1>3, <1>4, <1>5, Zenon DEF DepreciationFor

\* So is what a band of what is owed is provided for.
LEMMA BadDebtInt ==
    ASSUME NEW receivables \in SUBSET Receivable, IsFiniteSet(receivables), NEW asOf,
           NEW i \in DOMAIN Bands
    PROVE  BadDebtFor(receivables, asOf, i) \in Int
<1> DEFINE amount == [r \in receivables |-> r.amount]
           aged == {r \in receivables : r.amount > 0 /\ BandIndex(DaysOverdue(r.due, asOf)) = i}
<1>1. IsFiniteSet(aged) /\ \A r \in aged : amount[r] \in Int
  BY FS_Subset DEF Receivable
<1>2. Aged(receivables, asOf, i) = Over(amount, aged)
  <2>1. [r \in aged |-> r.amount] = [r \in aged |-> amount[r]]
    OBVIOUS
  <2> QED
    BY <2>1 DEF Aged, Over
<1> HIDE DEF amount, aged
<1>3. Aged(receivables, asOf, i) \in Int
  BY <1>1, <1>2, OverInt
<1>4. Bands[i].percent \in 0 .. 100
  BY BandsAssumption, Zenon
<1>5. Aged(receivables, asOf, i) * Bands[i].percent \in Int
  BY <1>3, <1>4
<1> QED
  BY <1>5, DivInt DEF BadDebtFor

\* The amount of a charge.
LEMMA ChargeAmount ==
    \A what, expense, accumulation, amount : Charge(what, expense, accumulation, amount).amount = amount
BY DEF Charge

\* What is provided for a period is sound.
LEMMA ProvidedSound ==
    ASSUME NEW p \in Period, NEW held \in [assets : SUBSET Asset, receivables : SUBSET Receivable],
           IsFiniteSet(held.assets), IsFiniteSet(held.receivables), CanProvide(p, held)
    PROVE  Sound(Provided(p, held))
<1>1. IsFiniteSet(Depreciations(p, held.assets))
  <2> DEFINE e == [a \in held.assets |->
                     Charge(<<"asset", a.id>>, IF a.expense = "" THEN Fallback.depreciation ELSE a.expense,
                            IF a.accumulation = "" THEN Fallback.accumulated ELSE a.accumulation,
                            DepreciationFor(a, MonthsSpanned(p)))]
  <2>1. IsFiniteSet({e[a] : a \in held.assets})
    <3> HIDE DEF e
    <3> QED BY ImageFinite
  <2>2. Depreciations(p, held.assets) = {e[a] : a \in held.assets}
    BY Zenon DEF Depreciations
  <2> QED
    BY <2>1, <2>2
<1>2. IsFiniteSet(BadDebts(p, held.receivables))
  <2> DEFINE e == [i \in DOMAIN Bands |->
                     Charge(<<"band", Bands[i].name>>, Fallback.badDebt, Fallback.provision,
                            BadDebtFor(held.receivables, p.last, i))]
  <2>1. IsFiniteSet({e[i] : i \in DOMAIN Bands})
    <3> HIDE DEF e
    <3> QED BY BandsAssumption, ImageFinite
  <2>2. BadDebts(p, held.receivables) = {e[i] : i \in DOMAIN Bands}
    BY Zenon DEF BadDebts
  <2> QED
    BY <2>1, <2>2
<1>3. IsFiniteSet(Provided(p, held))
  BY <1>1, <1>2, FS_Subset, FS_Union DEF Provided
<1>4. \A c \in Depreciations(p, held.assets) : c.amount \in Int
  <2>1. \A a \in held.assets : DepreciationFor(a, MonthsSpanned(p)) \in Int
    BY DepreciationInt DEF CanProvide
  <2>2. ASSUME NEW c \in Depreciations(p, held.assets) PROVE c.amount \in Int
    <3>1. PICK a \in held.assets : \E what, expense, accumulation :
             c = Charge(what, expense, accumulation, DepreciationFor(a, MonthsSpanned(p)))
      BY Zenon DEF Depreciations
    <3> QED
      BY <2>1, <3>1, ChargeAmount
  <2> QED
    BY <2>2
<1>5. \A c \in BadDebts(p, held.receivables) : c.amount \in Int
  BY BadDebtInt DEF BadDebts, Charge
<1> QED
  BY <1>3, <1>4, <1>5 DEF Sound, Provided, CanProvide

\* What some of a set of sound charges come to.
LEMMA ChargedOver ==
    ASSUME NEW charges, Sound(charges), NEW S \in SUBSET charges
    PROVE  /\ Charged(S) = Over([c \in charges |-> c.amount], S)
           /\ Charged(S) \in Int
           /\ S = {} => Charged(S) = 0
<1> DEFINE amount == [c \in charges |-> c.amount]
<1>1. Charged(S) = Over(amount, S)
  <2>1. [c \in S |-> c.amount] = [c \in S |-> amount[c]]
    OBVIOUS
  <2> QED
    BY <2>1 DEF Charged, Over
<1>2. IsFiniteSet(S) /\ \A c \in S : amount[c] \in Int
  BY FS_Subset DEF Sound
<1> HIDE DEF amount
<1>3. Over(amount, S) \in Int
  BY <1>2, OverInt
<1>4. S = {} => Over(amount, S) = 0
  BY OverEmpty
<1> QED
  BY <1>1, <1>3, <1>4 DEF amount

\* Charges go from expense accounts that a close clears to accounts that it
\* leaves alone.
LEMMA ChargedSides ==
    ASSUME NEW charges, Sound(charges), NEW a \in Accounts
    PROVE  /\ Charged({c \in charges : c.expense = a}) \in Int
           /\ Charged({c \in charges : c.accumulation = a}) \in Int
           /\ AccountType[a] # "expense" \/ a \in {Result, Retained} =>
                 Charged({c \in charges : c.expense = a}) = 0
           /\ a \in ProfitAndLoss \cup {Retained} =>
                 Charged({c \in charges : c.accumulation = a}) = 0
<1> DEFINE spent == {c \in charges : c.expense = a}
           kept  == {c \in charges : c.accumulation = a}
<1>1. spent \in SUBSET charges /\ kept \in SUBSET charges
  OBVIOUS
<1>2. AccountType[a] # "expense" \/ a \in {Result, Retained} => spent = {}
  BY DEF Sound, ValidPair
<1>3. a \in ProfitAndLoss \cup {Retained} => kept = {}
  BY DEF Sound, ValidPair
<1> HIDE DEF spent, kept
<1>4. /\ Charged(spent) \in Int /\ Charged(kept) \in Int
      /\ spent = {} => Charged(spent) = 0
      /\ kept = {} => Charged(kept) = 0
  BY <1>1, ChargedOver
<1> QED
  BY <1>2, <1>3, <1>4 DEF spent, kept

\* Lines that carry a profit and charge an amount for provisions.
Carries(lines, profit, provided) ==
    lines[Retained] = -profit /\ Over(lines, Accumulating) = -provided

\* Whatever the balances are, their sum is an integer.
LEMMA ProfitInt ==
    ASSUME NEW b \in [ProfitAndLoss -> Int]
    PROVE  NetProfit(b) \in Int /\ ThroughResult(b) \in Nat
<1>1. IsFiniteSet(ProfitAndLoss) /\ DOMAIN b = ProfitAndLoss
  BY ChartAssumption, FS_Subset DEF ProfitAndLoss
<1>2. ASSUME NEW type PROVE Of(b, type) \in Int
  <2> DEFINE S == {a \in DOMAIN b : AccountType[a] = type}
  <2>1. IsFiniteSet(S) /\ \A a \in S : b[a] \in Int
    BY <1>1, FS_Subset
  <2>2. Of(b, type) = Over(b, S)
    BY DEF Of, Over
  <2> QED
    BY <2>1, <2>2, OverInt
<1>3. NetProfit(b) \in Int
  BY <1>2 DEF NetProfit
<1>4. ThroughResult(b) \in Nat
  <2> DEFINE effect(a) == IF AccountType[a] = "revenue" THEN b[a] ELSE -b[a]
             all == [a \in ProfitAndLoss |-> effect(a)]
             up == {a \in DOMAIN b : effect(a) > 0}
             down == {a \in DOMAIN b : effect(a) < 0}
             credits == Total([a \in up |-> effect(a)])
             debits == -Total([a \in down |-> effect(a)])
  <2>1. \A a \in ProfitAndLoss : effect(a) \in Int
    OBVIOUS
  <2>2. [a \in up |-> effect(a)] = [a \in up |-> all[a]] /\ [a \in down |-> effect(a)] = [a \in down |-> all[a]]
    BY <1>1
  <2>3. Total([a \in up |-> effect(a)]) = Over(all, up) /\ Total([a \in down |-> effect(a)]) = Over(all, down)
    BY <2>2 DEF Over
  <2>4. /\ IsFiniteSet(up) /\ IsFiniteSet(down)
        /\ \A a \in up : all[a] \in Nat
        /\ \A a \in down : all[a] \in Int
    BY <1>1, <2>1, FS_Subset
  <2>5. ThroughResult(b) = IF debits > credits THEN debits ELSE credits
    BY DEF ThroughResult
  <2> HIDE DEF all, up, down, effect
  <2>6. Over(all, up) \in Nat /\ Over(all, down) \in Int
    BY <2>4, OverNat, OverInt
  <2>7. credits \in Nat /\ debits \in Int
    BY <2>3, <2>6
  <2> HIDE DEF credits, debits
  <2> QED
    BY <2>5, <2>7
<1> QED
  BY <1>3, <1>4

\* The entries of a close take off the revenue and expense accounts what their
\* balances say, carry the profit with the provisions in it, and charge the
\* provisions.
LEMMA VoucherFacts ==
    ASSUME NEW held \in [ProfitAndLoss -> Int], NEW charges, Sound(charges),
           CanClear(WithProvisions(held, charges))
    PROVE  LET v == ClosingVoucher(held, charges)
               b == WithProvisions(held, charges)
           IN  /\ v \in Movements /\ b \in [ProfitAndLoss -> Int]
               /\ \A a \in ProfitAndLoss :
                     v[a] = IF AccountType[a] = "revenue" THEN held[a] ELSE -held[a]
               /\ Carries(v, NetProfit(b), Charged(charges))
               /\ Charged(charges) \in Int
<1> DEFINE v == ClosingVoucher(held, charges)
           b == WithProvisions(held, charges)
           spent(a) == Charged({c \in charges : c.expense = a})
           kept(a) == Charged({c \in charges : c.accumulation = a})
<1>1. \A a \in Accounts :
         /\ spent(a) \in Int /\ kept(a) \in Int
         /\ AccountType[a] # "expense" \/ a \in {Result, Retained} => spent(a) = 0
         /\ a \in ProfitAndLoss \cup {Retained} => kept(a) = 0
  BY ChargedSides
<1>2. /\ DOMAIN b = ProfitAndLoss
      /\ \A a \in ProfitAndLoss : b[a] = held[a] + spent(a)
  BY DEF WithProvisions
<1>3. /\ ProfitAndLoss \subseteq Accounts /\ Result \in ProfitAndLoss
      /\ Retained \in Accounts /\ Retained \notin ProfitAndLoss
      /\ Accumulating \subseteq Accounts /\ Accumulating \cap (ProfitAndLoss \cup {Retained, Result}) = {}
      /\ \A a \in ProfitAndLoss : AccountType[a] = "revenue" \/ AccountType[a] = "expense"
  BY ClosingAccountsAssumption, AccountTypeAssumption DEF ProfitAndLoss, Accumulating
<1>4. b \in [ProfitAndLoss -> Int]
  <2>1. ASSUME NEW a \in ProfitAndLoss PROVE b[a] \in Int
    <3>1. spent(a) \in Int /\ held[a] \in Int /\ b[a] = held[a] + spent(a)
      BY <1>1, <1>2, <1>3
    <3> HIDE DEF b, spent
    <3> QED
      BY <3>1
  <2>2. b = [a \in ProfitAndLoss |-> b[a]]
    BY DEF WithProvisions
  <2> HIDE DEF b
  <2> QED
    BY <2>1, <2>2
<1>5. NetProfit(b) \in Int
  BY <1>4, ProfitInt
<1>6. /\ v = [a \in Accounts |-> Closing(b)[a] + spent(a) - kept(a)]
      /\ \A a \in Accounts : v[a] = Closing(b)[a] + spent(a) - kept(a)
  BY DEF ClosingVoucher
<1>7. /\ Closing(b)[Result] = 0 /\ Closing(b)[Retained] = -NetProfit(b)
      /\ \A a \in ProfitAndLoss \ {Result} :
            Closing(b)[a] = IF AccountType[a] = "revenue" THEN b[a] ELSE -b[a]
      /\ \A a \in Accumulating : Closing(b)[a] = 0
  <2> HIDE DEF b
  <2> QED
    BY <1>3, ClosingAccountsAssumption DEF Closing
<1>8. b[Result] = 0
  BY DEF CanClear
<1> HIDE DEF b, v, spent, kept
<1>9. \A a \in ProfitAndLoss : v[a] = IF AccountType[a] = "revenue" THEN held[a] ELSE -held[a]
  <2>1. v[Result] = 0 /\ held[Result] = 0 /\ AccountType[Result] = "expense"
    BY <1>1, <1>2, <1>3, <1>6, <1>7, <1>8, AccountTypeAssumption
  <2>2. ASSUME NEW a \in ProfitAndLoss \ {Result}
        PROVE  v[a] = IF AccountType[a] = "revenue" THEN held[a] ELSE -held[a]
    <3>1. /\ v[a] = Closing(b)[a] + spent(a) - kept(a) /\ b[a] = held[a] + spent(a)
          /\ kept(a) = 0 /\ spent(a) \in Int /\ held[a] \in Int
      BY <1>1, <1>2, <1>3, <1>6
    <3>2. CASE AccountType[a] = "revenue"
      BY <1>1, <1>3, <1>7, <3>1, <3>2
    <3>3. CASE AccountType[a] # "revenue"
      BY <1>7, <3>1, <3>3
    <3> QED
      BY <3>2, <3>3
  <2> QED
    BY <2>1, <2>2
<1>10. v[Retained] = -NetProfit(b)
  BY <1>1, <1>3, <1>5, <1>6, <1>7
<1>11. \A a \in Accumulating : v[a] = -kept(a) /\ kept(a) \in Int
  <2> TAKE a \in Accumulating
  <2>1. a \in Accounts /\ a # Retained /\ a \notin ProfitAndLoss
    BY <1>3
  <2>2. spent(a) = 0
    BY <1>1, <2>1 DEF ProfitAndLoss
  <2> QED
    BY <1>1, <1>6, <1>7, <2>1, <2>2
<1>12. v \in Movements
  <2>1. \A a \in Accounts : v[a] \in Int
    <3>1. \A a \in Accounts : a \in ProfitAndLoss \/ a = Retained \/ a \in Accumulating
      BY DEF Accumulating
    <3> QED
      BY <1>5, <1>9, <1>10, <1>11, <3>1
  <2>2. v = [a \in Accounts |-> v[a]]
    BY <1>6
  <2> QED
    BY <2>1, <2>2 DEF Movements
<1>13. Over(v, Accumulating) = -Charged(charges) /\ Charged(charges) \in Int
  <2> DEFINE amount == [c \in charges |-> c.amount]
             to == [c \in charges |-> c.accumulation]
             on == [a \in Accumulating |-> kept(a)]
  <2>1. IsFiniteSet(Accumulating)
    BY ChartAssumption, FS_Subset DEF Accumulating
  <2>2. IsFiniteSet(charges) /\ \A c \in charges : amount[c] \in Int /\ to[c] \in Accumulating
    BY ChartAssumption DEF Sound, ValidPair, Accumulating
  <2>3. \A a \in Accumulating : on[a] = Over(amount, {c \in charges : to[c] = a})
    <3> TAKE a \in Accumulating
    <3>1. {c \in charges : to[c] = a} = {c \in charges : c.accumulation = a}
      OBVIOUS
    <3>2. Charged({c \in charges : c.accumulation = a}) = Over(amount, {c \in charges : c.accumulation = a})
      BY ChargedOver
    <3> QED
      BY <3>1, <3>2 DEF kept
  <2>4. \A a \in Accumulating : on[a] \in Int /\ v[a] = -on[a]
    BY <1>11
  <2>5. Charged(charges) = Over(amount, charges) /\ Charged(charges) \in Int
    BY ChargedOver
  <2> HIDE DEF amount, to, on
  <2>6. Over(on, Accumulating) = Over(amount, charges)
    BY <2>1, <2>2, <2>3, OverKinds
  <2>7. Over(v, Accumulating) = -Over(on, Accumulating)
    BY <2>1, <2>4, OverMinus
  <2> QED
    BY <2>5, <2>6, <2>7
<1> QED
  BY <1>4, <1>9, <1>10, <1>12, <1>13 DEF Carries, v, b

-----------------------------------------------------------------------------
(* The inductive invariant.                                                *)

Voucher == [id : VoucherIds \cup {"entry"}, key : PeriodIds \cup {None}, day : Int,
            lines : Movements, through : Nat, read : Nat]

Labels == {"idle", "calendar", "documents", "balances", "report", "save", "post", "write",
           "number", "lock"}

Attempt == [period : PeriodIds \cup {None}, voucher : VoucherIds \cup {None}, force : BOOLEAN,
            seen : SUBSET Period, open : SUBSET OpenDocuments, held : [ProfitAndLoss -> Int],
            read : Nat, lines : Movements, through : Nat, profit : Int, provided : Int,
            recorded : BOOLEAN]

\* Every variable keeps its type, those TypeOK leaves to the run included, and
\* no period ends before it starts.
Types ==
    /\ TypeOK
    /\ \A p \in periods : ValidPeriod(p)
    /\ facts \in FactSets
    /\ attempt \in [Operators -> Attempt]
    /\ closer \in [PeriodIds -> [read : Nat, seen : SUBSET Period] \cup {None}]

\* Lines that take off the revenue and expense accounts what the vouchers of a
\* period among the first n had put there.
Clears(l, p, n, lines) == \A a \in ProfitAndLoss : lines[a] = -Movement(l, p, 1 .. n, a)

\* One set of closing entries for a period, dated its last day, and made from
\* what was posted before them.
ClosingsStand ==
    /\ ClosedOnce
    /\ \A i \in DOMAIN log : log[i].key # None =>
        /\ log[i].read < i
        /\ \E p \in periods :
            p.id = log[i].key /\ p.last = log[i].day /\ Clears(log, p, log[i].read, log[i].lines)

\* An operator at work was asked to close a period, and once it has read the
\* calendar knows it and the ones before.
Placed(o) ==
    /\ pc[o] # "idle" => attempt[o].voucher \in VoucherIds /\ attempt[o].period \in PeriodIds
    /\ pc[o] \notin {"idle", "calendar"} =>
        /\ attempt[o].seen \subseteq periods
        /\ The(o) \in attempt[o].seen /\ The(o).id = attempt[o].period
        /\ \A q \in Before(attempt[o].seen, The(o)) : q.id \in locked

\* An operator that has read the balances has entries that clear them.
Prepared(o) ==
    pc[o] \notin {"idle", "calendar", "documents", "balances"} =>
        /\ attempt[o].read <= Len(log)
        /\ Clears(log, The(o), attempt[o].read, attempt[o].lines)
        /\ Carries(attempt[o].lines, attempt[o].profit, attempt[o].provided)

\* An operator about to write the number has posted its entries; one about to
\* lock the period has nothing to post, or somebody has posted.
Behind(o) ==
    /\ pc[o] = "number" =>
        \E i \in DOMAIN log : /\ log[i].key = attempt[o].period /\ log[i].id = attempt[o].voucher
                              /\ log[i].lines = attempt[o].lines
    /\ pc[o] = "lock" => KeyTaken(attempt[o].period) \/ Empty(attempt[o].lines)

\* A numbered report states what the entries it names did.
ReportsStand ==
    \A id \in PeriodIds : reports[id] # None /\ reports[id].numbered =>
        \E i \in DOMAIN log : /\ log[i].key = id /\ log[i].id = reports[id].voucher
                              /\ Carries(log[i].lines, reports[id].profit, reports[id].provided)

\* A locked period has its entries, or needed none, and is locked in order.
LocksStand ==
    \A p \in periods : p.id \in locked =>
        /\ closer[p.id] \in [read : Nat, seen : SUBSET Period] /\ closer[p.id].read <= Len(log)
        /\ KeyTaken(p.id) \/ \A a \in ProfitAndLoss : Movement(log, p, 1 .. closer[p.id].read, a) = 0
        /\ \A q \in Before(closer[p.id].seen, p) : q.id \in locked

IInv ==
    /\ Types /\ ClosingsStand /\ ReportsStand /\ LocksStand
    /\ \A o \in Operators : Placed(o) /\ Prepared(o) /\ Behind(o)
-----------------------------------------------------------------------------
(* Types.                                                                  *)

\* An operator that knows nothing yet.
LEMMA IdleType == Idle \in Attempt
<1>1. Blank \in Movements /\ [a \in ProfitAndLoss |-> 0] \in [ProfitAndLoss -> Int]
  BY DEF Blank, Movements
<1> QED
  BY <1>1 DEF Idle, Attempt

\* The start has the types.
LEMMA InitTypes == Init => Types
<1> SUFFICES ASSUME Init PROVE Types
  OBVIOUS
<1>1. periods = Opening /\ Sequence(periods) /\ locked = {} /\ \A p \in periods : ValidPeriod(p)
  BY OpeningAssumption DEF Init
<1>2. attempt \in [Operators -> Attempt]
  BY IdleType DEF Init
<1>3. attempts \in 0 .. MaxAttempts
  BY BoundsAssumption DEF Init
<1> QED
  BY <1>1, <1>2, <1>3 DEF Init, Types, TypeOK

\* Starting over.
LEMMA StopTypes ==
    ASSUME Types, NEW o \in Operators, Stop(o)
    PROVE  /\ attempt' \in [Operators -> Attempt]
           /\ pc' \in [Operators -> Labels]
BY IdleType DEF Types, TypeOK, Stop, Goto, Labels

\* The fields of an attempt, as the operator fills them in.
LEMMA AttemptFields ==
    ASSUME NEW a \in Attempt
    PROVE  /\ \A p \in PeriodIds, v \in VoucherIds, f \in BOOLEAN :
                 [a EXCEPT !.period = p, !.voucher = v, !.force = f] \in Attempt
           /\ \A s \in SUBSET Period : [a EXCEPT !.seen = s] \in Attempt
           /\ \A d \in SUBSET OpenDocuments : [a EXCEPT !.open = d] \in Attempt
           /\ \A r \in BOOLEAN : [a EXCEPT !.recorded = r] \in Attempt
           /\ \A h \in [ProfitAndLoss -> Int], n \in Nat, l \in Movements, t \in Nat, f \in Int, g \in Int :
                 [a EXCEPT !.held = h, !.read = n, !.lines = l, !.through = t, !.profit = f,
                           !.provided = g] \in Attempt
BY ZenonT(60) DEF Attempt

\* A revenue or expense account's movement is an integer.
LEMMA MovementInt ==
    ASSUME NEW l \in Seq(Voucher), NEW p, NEW I \in SUBSET DOMAIN l, NEW a \in Accounts
    PROVE  IsFiniteSet(Dated(l, p, I)) /\ Movement(l, p, I, a) \in Int
<1>1. IsFiniteSet(DOMAIN l)
  BY FS_Interval
<1>2. IsFiniteSet(Dated(l, p, I)) /\ Dated(l, p, I) \subseteq DOMAIN l
  BY <1>1, FS_Subset DEF Dated
<1>3. \A i \in DOMAIN l : On(l, a)[i] \in Int
  <2> TAKE i \in DOMAIN l
  <2>1. l[i] \in Voucher
    OBVIOUS
  <2>2. l[i].lines \in Movements
    BY <2>1 DEF Voucher
  <2>3. l[i].lines[a] \in Int
    BY <2>2 DEF Movements
  <2> QED
    BY <2>3 DEF On
<1> QED
  BY <1>2, <1>3, OverInt DEF Movement

\* The balances of a period, each in its account's own sense.
LEMMA BalancesFacts ==
    ASSUME Types, NEW p
    PROVE  /\ Balances(p) \in [ProfitAndLoss -> Int]
           /\ \A a \in ProfitAndLoss :
                 Balances(p)[a] = IF AccountType[a] = "revenue" THEN -Movement(log, p, DOMAIN log, a)
                                  ELSE Movement(log, p, DOMAIN log, a)
<1>1. log \in Seq(Voucher)
  BY DEF Types, TypeOK, Voucher
<1>2. \A a \in ProfitAndLoss : /\ Moved(p, DOMAIN log, a) = Movement(log, p, DOMAIN log, a)
                               /\ Movement(log, p, DOMAIN log, a) \in Int
  BY <1>1, MovedOver, MovementInt DEF ProfitAndLoss
<1> QED
  BY <1>2 DEF Balances

-----------------------------------------------------------------------------
(* Books that grow.                                                        *)

\* Nothing is taken away: periods are added, locked periods stay locked, and a
\* voucher is appended at most.
Grows ==
    /\ periods \subseteq periods' /\ locked \subseteq locked'
    /\ log' = log \/ \E v \in Voucher : log' = Append(log, v)

\* A log that grows keeps its vouchers in their places.
LEMMA LogGrows ==
    ASSUME Types, Grows
    PROVE  /\ log \in Seq(Voucher) /\ log' \in Seq(Voucher)
           /\ Len(log) \in Nat /\ Len(log') \in Nat /\ Len(log) <= Len(log')
           /\ DOMAIN log = 1 .. Len(log) /\ DOMAIN log' = 1 .. Len(log')
           /\ \A i \in DOMAIN log : i \in DOMAIN log' /\ log'[i] = log[i]
<1>1. log \in Seq(Voucher)
  BY DEF Types, TypeOK, Voucher
<1>2. CASE log' = log
  BY <1>1, <1>2
<1>3. CASE \E v \in Voucher : log' = Append(log, v)
  <2>1. PICK v \in Voucher : log' = Append(log, v)
    BY <1>3
  <2> QED
    BY <1>1, <2>1, AppendProperties
<1> QED
  BY <1>2, <1>3 DEF Grows

\* What was moved by vouchers on file stays.
LEMMA MovementKept ==
    ASSUME Types, Grows, NEW p, NEW n \in Nat, n <= Len(log), NEW a
    PROVE  Movement(log', p, 1 .. n, a) = Movement(log, p, 1 .. n, a)
<1>1. \A i \in 1 .. n : i \in DOMAIN log /\ i \in DOMAIN log' /\ log'[i] = log[i]
  BY LogGrows
<1>2. Dated(log', p, 1 .. n) = Dated(log, p, 1 .. n)
  BY <1>1 DEF Dated
<1>3. Alike(On(log', a), On(log, a), Dated(log, p, 1 .. n))
  BY <1>1 DEF Alike, On, Dated
<1>4. Over(On(log', a), Dated(log, p, 1 .. n)) = Over(On(log, a), Dated(log, p, 1 .. n))
  BY <1>3, OverSame
<1> QED
  BY <1>2, <1>4 DEF Movement

\* And lines that cleared it still do.
LEMMA ClearsKept ==
    ASSUME Types, Grows, NEW p, NEW n \in Nat, n <= Len(log), NEW lines, Clears(log, p, n, lines)
    PROVE  Clears(log', p, n, lines)
BY MovementKept DEF Clears

\* A key that is taken stays taken.
LEMMA KeyStaysTaken ==
    ASSUME Types, Grows, NEW key, KeyTaken(key)
    PROVE  KeyTaken(key)'
<1>1. PICK i \in DOMAIN log : log[i].key = key
  BY DEF KeyTaken, Posted
<1>2. i \in DOMAIN log' /\ log'[i] = log[i]
  BY LogGrows
<1> QED
  BY <1>1, <1>2 DEF KeyTaken, Posted

\* What an operator knows stays true while others work.
LEMMA OperatorKept ==
    ASSUME Types, Grows, NEW o \in Operators, pc'[o] = pc[o], attempt'[o] = attempt[o],
           Placed(o), Prepared(o), Behind(o)
    PROVE  Placed(o)' /\ Prepared(o)' /\ Behind(o)'
<1>1. The(o)' = The(o)
  BY DEF The
<1>2. Placed(o)'
  BY <1>1 DEF Placed, Grows
<1>3. Prepared(o)'
  <2>1. attempt[o].read \in Nat
    BY DEF Types, Attempt
  <2>2. SUFFICES ASSUME pc[o] \notin {"idle", "calendar", "documents", "balances"}
                 PROVE  /\ attempt[o].read <= Len(log')
                        /\ Clears(log', The(o), attempt[o].read, attempt[o].lines)
                        /\ Carries(attempt[o].lines, attempt[o].profit, attempt[o].provided)
    BY <1>1 DEF Prepared
  <2>3. /\ attempt[o].read <= Len(log)
        /\ Clears(log, The(o), attempt[o].read, attempt[o].lines)
        /\ Carries(attempt[o].lines, attempt[o].profit, attempt[o].provided)
    BY <2>2 DEF Prepared
  <2> QED
    BY <2>1, <2>3, ClearsKept, LogGrows
<1>4. Behind(o)'
  <2>1. \A i \in DOMAIN log : i \in DOMAIN log' /\ log'[i] = log[i]
    BY LogGrows
  <2>2. KeyTaken(attempt[o].period) => KeyTaken(attempt[o].period)'
    BY KeyStaysTaken
  <2> QED
    BY <2>1, <2>2 DEF Behind
<1> QED
  BY <1>2, <1>3, <1>4

\* Reports and locks stand on vouchers that stay.
LEMMA StandingKept ==
    ASSUME Types, Grows, locked' = locked, periods' = periods, closer' = closer,
           ReportsStand, LocksStand
    PROVE  /\ reports' = reports => ReportsStand'
           /\ LocksStand'
<1>1. \A i \in DOMAIN log : i \in DOMAIN log' /\ log'[i] = log[i]
  BY LogGrows
<1>2. reports' = reports => ReportsStand'
  BY <1>1 DEF ReportsStand
<1>3. LocksStand'
  <2> SUFFICES ASSUME NEW p \in periods, p.id \in locked
               PROVE  /\ closer[p.id] \in [read : Nat, seen : SUBSET Period]
                      /\ closer[p.id].read <= Len(log')
                      /\ \/ KeyTaken(p.id)'
                         \/ \A a \in ProfitAndLoss : Movement(log', p, 1 .. closer[p.id].read, a) = 0
                      /\ \A q \in Before(closer[p.id].seen, p) : q.id \in locked
    BY DEF LocksStand
  <2>1. /\ closer[p.id] \in [read : Nat, seen : SUBSET Period] /\ closer[p.id].read <= Len(log)
        /\ KeyTaken(p.id) \/ \A a \in ProfitAndLoss : Movement(log, p, 1 .. closer[p.id].read, a) = 0
        /\ \A q \in Before(closer[p.id].seen, p) : q.id \in locked
    BY DEF LocksStand
  <2>2. closer[p.id].read \in Nat /\ closer[p.id].read <= Len(log')
    BY <2>1, LogGrows
  <2>3. \A a \in ProfitAndLoss :
           Movement(log', p, 1 .. closer[p.id].read, a) = Movement(log, p, 1 .. closer[p.id].read, a)
    BY <2>1, <2>2, MovementKept
  <2>4. KeyTaken(p.id) => KeyTaken(p.id)'
    BY KeyStaysTaken
  <2> QED
    BY <2>1, <2>2, <2>3, <2>4
<1> QED
  BY <1>2, <1>3

\* The closings on file stand as long as no voucher but theirs comes in.
LEMMA ClosingsKept ==
    ASSUME Types, Grows, ClosingsStand, ClosedOnce',
           \A i \in DOMAIN log' \ DOMAIN log : log'[i].key # None =>
              /\ log'[i].read < i
              /\ \E p \in periods' : /\ p.id = log'[i].key /\ p.last = log'[i].day
                                     /\ Clears(log', p, log'[i].read, log'[i].lines)
    PROVE  ClosingsStand'
<1> SUFFICES ASSUME NEW i \in DOMAIN log, log[i].key # None
             PROVE  /\ log[i].read < i
                    /\ \E p \in periods' : /\ p.id = log[i].key /\ p.last = log[i].day
                                           /\ Clears(log', p, log[i].read, log[i].lines)
  BY LogGrows DEF ClosingsStand
<1>1. PICK p \in periods : p.id = log[i].key /\ p.last = log[i].day /\ Clears(log, p, log[i].read, log[i].lines)
  BY DEF ClosingsStand
<1>2. log[i].read < i
  BY DEF ClosingsStand
<1>3. log[i].read \in Nat /\ log[i].read <= Len(log)
  <2>1. log[i] \in Voucher /\ i \in 1 .. Len(log)
    BY LogGrows
  <2> QED
    BY <1>2, <2>1, LogGrows DEF Voucher
<1>4. Clears(log', p, log[i].read, log[i].lines)
  BY <1>1, <1>3, ClearsKept
<1> QED
  BY <1>1, <1>2, <1>4 DEF Grows

\* What one operator does leaves what the others know.
LEMMA OperatorSteps ==
    ASSUME IInv, Grows, NEW o \in Operators,
           \A q \in Operators \ {o} : pc'[q] = pc[q] /\ attempt'[q] = attempt[q],
           Placed(o)', Prepared(o)', Behind(o)'
    PROVE  \A q \in Operators : Placed(q)' /\ Prepared(q)' /\ Behind(q)'
<1> TAKE q \in Operators
<1>1. CASE q = o
  BY <1>1
<1>2. CASE q # o
  BY <1>2, OperatorKept DEF IInv
<1> QED
  BY <1>1, <1>2

-----------------------------------------------------------------------------
(* Steps that leave the books.                                             *)

\* A step that only moves an operator on keeps the types.
LEMMA WorkTypes ==
    ASSUME Types, UNCHANGED <<books, desk, closer>>, attempts' \in 0 .. MaxAttempts,
           pc' \in [Operators -> Labels], attempt' \in [Operators -> Attempt]
    PROVE  Types'
BY DEF Types, TypeOK, Labels, books

\* And everything the books say.
LEMMA WorkKeeps ==
    ASSUME IInv, UNCHANGED <<books, desk, closer>>, attempts' \in 0 .. MaxAttempts,
           NEW o \in Operators,
           pc' \in [Operators -> Labels], attempt' \in [Operators -> Attempt],
           \A q \in Operators \ {o} : pc'[q] = pc[q] /\ attempt'[q] = attempt[q],
           Placed(o)', Prepared(o)', Behind(o)'
    PROVE  IInv'
<1>1. Types'
  BY WorkTypes DEF IInv
<1>2. Grows /\ periods' = periods /\ locked' = locked /\ log' = log /\ reports' = reports /\ closer' = closer
  BY DEF Grows, books
<1>3. ReportsStand' /\ LocksStand'
  BY <1>2, StandingKept DEF IInv
<1>4. ClosingsStand'
  BY <1>2 DEF IInv, ClosingsStand, ClosedOnce
<1>5. \A q \in Operators : Placed(q)' /\ Prepared(q)' /\ Behind(q)'
  BY <1>2, OperatorSteps
<1> QED
  BY <1>1, <1>3, <1>4, <1>5 DEF IInv

\* A step that starts an operator over.
LEMMA StopKeeps ==
    ASSUME IInv, UNCHANGED <<books, desk, closer>>, attempts' = attempts, NEW o \in Operators, Stop(o)
    PROVE  IInv'
<1>1. attempt' \in [Operators -> Attempt] /\ pc' \in [Operators -> Labels]
  BY StopTypes DEF IInv
<1>2. attempts' \in 0 .. MaxAttempts
  BY DEF IInv, Types, TypeOK
<1>3. /\ pc'[o] = "idle"
      /\ \A q \in Operators \ {o} : pc'[q] = pc[q] /\ attempt'[q] = attempt[q]
  BY DEF IInv, Types, TypeOK, Stop, Goto
<1>4. Placed(o)' /\ Prepared(o)' /\ Behind(o)'
  BY <1>3 DEF Placed, Prepared, Behind
<1> QED
  BY <1>1, <1>2, <1>3, <1>4, WorkKeeps

\* What the types say of an operator's place.
LEMMA OperatorTypes ==
    ASSUME Types, NEW o \in Operators
    PROVE  /\ pc \in [Operators -> Labels] /\ attempt \in [Operators -> Attempt]
           /\ attempt[o] \in Attempt /\ attempts \in 0 .. MaxAttempts
BY DEF Types, TypeOK, Labels

\* An operator takes up a period.
LEMMA BeginKeeps == ASSUME IInv, NEW o \in Operators, Begin(o) PROVE IInv'
<1>0. /\ pc \in [Operators -> Labels] /\ attempt \in [Operators -> Attempt]
      /\ attempt[o] \in Attempt /\ attempts \in 0 .. MaxAttempts
  BY OperatorTypes DEF IInv
<1>1. PICK c \in Commands : attempt' = [attempt EXCEPT ![o].period = c.period, ![o].voucher = c.voucher,
                                                      ![o].force = c.force]
  BY DEF Begin
<1>2. c.period \in PeriodIds /\ c.voucher \in VoucherIds /\ c.force \in BOOLEAN
  BY CommandsAssumption DEF Command
<1>3. /\ attempt' = [attempt EXCEPT ![o] = [@ EXCEPT !.period = c.period, !.voucher = c.voucher,
                                                    !.force = c.force]]
      /\ attempt' \in [Operators -> Attempt]
  BY <1>0, <1>1, <1>2, AttemptFields
<1>4. pc' \in [Operators -> Labels] /\ pc'[o] = "calendar"
  BY <1>0 DEF Begin, Goto, Labels
<1>5. \A q \in Operators \ {o} : pc'[q] = pc[q] /\ attempt'[q] = attempt[q]
  BY <1>0, <1>1 DEF Begin, Goto
<1>6. attempts' \in 0 .. MaxAttempts /\ UNCHANGED <<books, desk, closer>>
  BY <1>0, BoundsAssumption DEF Begin
<1>7. Placed(o)' /\ Prepared(o)' /\ Behind(o)'
  <2>1. attempt'[o].voucher \in VoucherIds /\ attempt'[o].period \in PeriodIds
    BY <1>0, <1>1, <1>2 DEF Attempt
  <2> QED
    BY <1>4, <2>1 DEF Placed, Prepared, Behind
<1> QED
  BY <1>3, <1>4, <1>5, <1>6, <1>7, WorkKeeps

\* It reads the calendar, and is turned away or goes on.
LEMMA ReadCalendarKeeps == ASSUME IInv, NEW o \in Operators, ReadCalendar(o) PROVE IInv'
<1>0. /\ pc \in [Operators -> Labels] /\ attempt \in [Operators -> Attempt]
      /\ attempt[o] \in Attempt /\ attempts \in 0 .. MaxAttempts
  BY OperatorTypes DEF IInv
<1>1. UNCHANGED <<books, desk, closer>> /\ attempts' = attempts
  BY DEF ReadCalendar
<1>2. CASE Stop(o)
  BY <1>1, <1>2, StopKeeps
<1>3. CASE /\ \E p \in periods : p.id = attempt[o].period
           /\ MayClose(periods, locked, attempt[o].period)
           /\ attempt' = [attempt EXCEPT ![o].seen = periods] /\ Goto(o, "documents")
  <2>1. periods \in SUBSET Period
    BY OpeningAssumption DEF IInv, Types, TypeOK
  <2>2. attempt' = [attempt EXCEPT ![o] = [@ EXCEPT !.seen = periods]] /\ attempt' \in [Operators -> Attempt]
    BY <1>0, <1>3, <2>1, AttemptFields
  <2>3. pc' \in [Operators -> Labels] /\ pc'[o] = "documents"
    BY <1>0, <1>3 DEF Goto, Labels
  <2>4. \A q \in Operators \ {o} : pc'[q] = pc[q] /\ attempt'[q] = attempt[q]
    BY <1>0, <1>3 DEF Goto
  <2>5. attempt'[o].seen = periods /\ attempt'[o].period = attempt[o].period
        /\ attempt'[o].voucher = attempt[o].voucher
    BY <1>0, <1>3
  <2>6. The(o)' \in periods /\ The(o)'.id = attempt[o].period
    BY <1>3, <2>5 DEF The
  <2>7. \A q \in Before(periods, The(o)') : q.id \in locked
    BY <1>3, <2>6 DEF MayClose
  <2>8. attempt[o].voucher \in VoucherIds /\ attempt[o].period \in PeriodIds
    BY DEF IInv, Placed, ReadCalendar
  <2>9. Placed(o)' /\ Prepared(o)' /\ Behind(o)'
    BY <1>1, <2>3, <2>5, <2>6, <2>7, <2>8 DEF Placed, Prepared, Behind, books
  <2> QED
    BY <1>0, <1>1, <2>2, <2>3, <2>4, <2>9, WorkKeeps
<1> QED
  BY <1>2, <1>3 DEF ReadCalendar

\* An operator keeps its place while it keeps what it was asked and has seen.
LEMMA PlaceKept ==
    ASSUME NEW o, Placed(o), pc[o] \notin {"idle", "calendar"},
           attempt'[o].period = attempt[o].period, attempt'[o].voucher = attempt[o].voucher,
           attempt'[o].seen = attempt[o].seen, periods \subseteq periods', locked \subseteq locked'
    PROVE  Placed(o)' /\ The(o)' = The(o)
<1>1. The(o)' = The(o)
  BY DEF The
<1> QED
  BY <1>1 DEF Placed

\* It reads the documents still open.
LEMMA ReadDocumentsKeeps == ASSUME IInv, NEW o \in Operators, ReadDocuments(o) PROVE IInv'
<1>0. /\ pc \in [Operators -> Labels] /\ attempt \in [Operators -> Attempt]
      /\ attempt[o] \in Attempt /\ attempts \in 0 .. MaxAttempts
  BY OperatorTypes DEF IInv
<1>1. UNCHANGED <<books, desk, closer>> /\ attempts' = attempts /\ pc[o] = "documents"
  BY DEF ReadDocuments
<1>2. CASE Stop(o)
  BY <1>1, <1>2, StopKeeps
<1>3. CASE /\ attempt' = [attempt EXCEPT ![o].open = {d \in unsettled : d.period = attempt[o].period}]
           /\ Goto(o, "balances")
  <2> DEFINE open == {d \in unsettled : d.period = attempt[o].period}
  <2>1. open \in SUBSET OpenDocuments
    BY DEF IInv, Types, TypeOK
  <2> HIDE DEF open
  <2>2. attempt' = [attempt EXCEPT ![o] = [@ EXCEPT !.open = open]] /\ attempt' \in [Operators -> Attempt]
    BY <1>0, <1>3, <2>1, AttemptFields DEF open
  <2>3. pc' \in [Operators -> Labels] /\ pc'[o] = "balances"
    BY <1>0, <1>3 DEF Goto, Labels
  <2>4. \A q \in Operators \ {o} : pc'[q] = pc[q] /\ attempt'[q] = attempt[q]
    BY <1>0, <1>3 DEF Goto
  <2>5. /\ attempt'[o].period = attempt[o].period /\ attempt'[o].voucher = attempt[o].voucher
        /\ attempt'[o].seen = attempt[o].seen
    BY <1>0, <2>2 DEF Attempt
  <2>6. Placed(o)'
    BY <1>1, <2>5, PlaceKept DEF IInv, books
  <2>7. Prepared(o)' /\ Behind(o)'
    BY <2>3 DEF Prepared, Behind
  <2> QED
    BY <1>0, <1>1, <2>2, <2>3, <2>4, <2>6, <2>7, WorkKeeps
<1> QED
  BY <1>2, <1>3 DEF ReadDocuments

\* The entries an operator prepares clear what the log moved, and carry the
\* profit and the provisions it will report.
LEMMA EntriesPrepared ==
    ASSUME IInv, NEW o \in Operators, Placed(o), pc[o] \notin {"idle", "calendar"},
           CanProvide(The(o), facts[The(o).id]),
           CanClear(WithProvisions(Balances(The(o)), Provided(The(o), facts[The(o).id])))
    PROVE  LET p == The(o)
               held == Balances(p)
               charges == Provided(p, facts[p.id])
               lines == ClosingVoucher(held, charges)
               b == WithProvisions(held, charges)
           IN  /\ held \in [ProfitAndLoss -> Int] /\ lines \in Movements
               /\ ThroughResult(b) \in Nat /\ NetProfit(b) \in Int /\ Charged(charges) \in Int
               /\ Clears(log, p, Len(log), lines)
               /\ Carries(lines, NetProfit(b), Charged(charges))
<1> DEFINE p == The(o)
           held == Balances(p)
           given == facts[p.id]
           charges == Provided(p, given)
           lines == ClosingVoucher(held, charges)
           b == WithProvisions(held, charges)
<1>1. p \in Period /\ p.id \in PeriodIds
  <2>1. attempt[o].seen \in SUBSET Period
    BY DEF IInv, Types, Attempt
  <2> QED
    BY <2>1 DEF Placed
<1>2. /\ given \in [assets : SUBSET Asset, receivables : SUBSET Receivable]
      /\ IsFiniteSet(given.assets) /\ IsFiniteSet(given.receivables)
  <2>1. facts \in FactSets
    BY DEF IInv, Types
  <2> QED
    BY <1>1, <2>1, FactsAssumption
<1>3. /\ held \in [ProfitAndLoss -> Int]
      /\ \A a \in ProfitAndLoss :
            held[a] = IF AccountType[a] = "revenue" THEN -Movement(log, p, DOMAIN log, a)
                      ELSE Movement(log, p, DOMAIN log, a)
  BY BalancesFacts DEF IInv
<1>4. CanProvide(p, given) /\ CanClear(b)
  OBVIOUS
<1> HIDE DEF p, held, given
<1>5. Sound(charges)
  BY <1>1, <1>2, <1>4, ProvidedSound
<1> HIDE DEF charges
<1>6. /\ lines \in Movements /\ b \in [ProfitAndLoss -> Int]
      /\ \A a \in ProfitAndLoss :
            lines[a] = IF AccountType[a] = "revenue" THEN held[a] ELSE -held[a]
      /\ Carries(lines, NetProfit(b), Charged(charges))
      /\ Charged(charges) \in Int
  BY <1>3, <1>4, <1>5, VoucherFacts
<1> HIDE DEF lines, b
<1>7. ThroughResult(b) \in Nat /\ NetProfit(b) \in Int
  BY <1>6, ProfitInt
<1>8. log \in Seq(Voucher) /\ DOMAIN log = 1 .. Len(log)
  BY DEF IInv, Types, TypeOK, Voucher
<1>9. Clears(log, p, Len(log), lines)
  <2> SUFFICES ASSUME NEW a \in ProfitAndLoss PROVE lines[a] = -Movement(log, p, 1 .. Len(log), a)
    BY DEF Clears
  <2>1. Movement(log, p, DOMAIN log, a) \in Int /\ Movement(log, p, DOMAIN log, a) = Movement(log, p, 1 .. Len(log), a)
    BY <1>8, MovementInt DEF ProfitAndLoss
  <2> HIDE <1>8
  <2> QED
    BY <1>3, <1>6, <2>1
<1> QED
  BY <1>3, <1>6, <1>7, <1>9 DEF p, held, charges, lines, b, given

\* It reads the balances the closing entries are made from.
LEMMA ReadBalancesKeeps == ASSUME IInv, NEW o \in Operators, ReadBalances(o) PROVE IInv'
<1>0. /\ pc \in [Operators -> Labels] /\ attempt \in [Operators -> Attempt]
      /\ attempt[o] \in Attempt /\ attempts \in 0 .. MaxAttempts
  BY OperatorTypes DEF IInv
<1>1. UNCHANGED <<books, desk, closer>> /\ attempts' = attempts /\ pc[o] = "balances"
  BY DEF ReadBalances
<1> DEFINE p == The(o)
           held == Balances(p)
           charges == Provided(p, facts[p.id])
           b == WithProvisions(held, charges)
           lines == ClosingVoucher(held, charges)
           through == ThroughResult(b)
           profit == NetProfit(b)
           provided == Charged(charges)
<1>2. CASE Stop(o)
  BY <1>1, <1>2, StopKeeps
<1>3. CASE /\ CanProvide(p, facts[p.id]) /\ CanClear(b)
           /\ attempt' = [attempt EXCEPT ![o].held = held, ![o].read = Len(log), ![o].lines = lines,
                                         ![o].through = through, ![o].profit = profit,
                                         ![o].provided = provided]
           /\ Goto(o, "report")
  <2>1. /\ held \in [ProfitAndLoss -> Int] /\ lines \in Movements
        /\ through \in Nat /\ profit \in Int /\ provided \in Int
        /\ Clears(log, p, Len(log), lines) /\ Carries(lines, profit, provided)
    BY <1>1, <1>3, EntriesPrepared DEF IInv
  <2>2. Len(log) \in Nat
    BY DEF IInv, Types, TypeOK
  <2> HIDE DEF held, lines, through, profit, provided
  <2>3. /\ attempt' = [attempt EXCEPT ![o] = [@ EXCEPT !.held = held, !.read = Len(log), !.lines = lines,
                          !.through = through, !.profit = profit, !.provided = provided]]
        /\ attempt' \in [Operators -> Attempt]
    BY <1>0, <1>3, <2>1, <2>2, AttemptFields, ZenonT(60)
  <2>4. pc' \in [Operators -> Labels] /\ pc'[o] = "report"
    BY <1>0, <1>3 DEF Goto, Labels
  <2>5. \A q \in Operators \ {o} : pc'[q] = pc[q] /\ attempt'[q] = attempt[q]
    BY <1>0, <1>3 DEF Goto
  <2>6. /\ attempt'[o].period = attempt[o].period /\ attempt'[o].voucher = attempt[o].voucher
        /\ attempt'[o].seen = attempt[o].seen /\ attempt'[o].read = Len(log)
        /\ attempt'[o].lines = lines /\ attempt'[o].profit = profit /\ attempt'[o].provided = provided
    BY <1>0, <2>3 DEF Attempt
  <2>7. Placed(o)' /\ The(o)' = p
    BY <1>1, <2>6, PlaceKept DEF IInv, books
  <2>8. Prepared(o)'
    BY <1>1, <2>1, <2>2, <2>6, <2>7 DEF Prepared, books
  <2>9. Behind(o)'
    BY <2>4 DEF Behind
  <2> QED
    BY <1>0, <1>1, <2>3, <2>4, <2>5, <2>7, <2>8, <2>9, WorkKeeps
<1> QED
  BY <1>2, <1>3 DEF ReadBalances

\* An operator stays prepared while it keeps what it prepared.
LEMMA PreparedKept ==
    ASSUME Types, Grows, NEW o \in Operators, Prepared(o),
           pc[o] \notin {"idle", "calendar", "documents", "balances"}, The(o)' = The(o),
           attempt'[o].read = attempt[o].read, attempt'[o].lines = attempt[o].lines,
           attempt'[o].profit = attempt[o].profit, attempt'[o].provided = attempt[o].provided
    PROVE  Prepared(o)'
<1>1. attempt[o].read \in Nat
  BY DEF Types, Attempt
<1>2. Clears(log', The(o), attempt[o].read, attempt[o].lines) /\ attempt[o].read <= Len(log')
  BY <1>1, ClearsKept, LogGrows DEF Prepared
<1> QED
  BY <1>2 DEF Prepared

\* It reads the report on file: an earlier attempt's stays.
LEMMA ReadReportKeeps == ASSUME IInv, NEW o \in Operators, ReadReport(o) PROVE IInv'
<1>0. /\ pc \in [Operators -> Labels] /\ attempt \in [Operators -> Attempt]
      /\ attempt[o] \in Attempt /\ attempts \in 0 .. MaxAttempts
  BY OperatorTypes DEF IInv
<1> DEFINE recorded == reports[attempt[o].period] # None
           next == CASE ~recorded -> "save" [] recorded /\ Empty(attempt[o].lines) -> "lock"
                     [] OTHER -> "post"
<1>1. /\ UNCHANGED <<books, desk, closer>> /\ attempts' = attempts /\ pc[o] = "report"
      /\ attempt' = [attempt EXCEPT ![o].recorded = recorded] /\ Goto(o, next)
  BY DEF ReadReport
<1>2. /\ recorded \in BOOLEAN /\ next \in {"save", "lock", "post"}
      /\ next = "lock" => Empty(attempt[o].lines)
  OBVIOUS
<1> HIDE DEF recorded, next
<1>3. attempt' = [attempt EXCEPT ![o] = [@ EXCEPT !.recorded = recorded]] /\ attempt' \in [Operators -> Attempt]
  BY <1>0, <1>1, <1>2, AttemptFields
<1>4. pc' \in [Operators -> Labels] /\ pc'[o] = next
  BY <1>0, <1>1, <1>2 DEF Goto, Labels
<1>5. \A q \in Operators \ {o} : pc'[q] = pc[q] /\ attempt'[q] = attempt[q]
  BY <1>0, <1>1 DEF Goto
<1>6. /\ attempt'[o].period = attempt[o].period /\ attempt'[o].voucher = attempt[o].voucher
      /\ attempt'[o].seen = attempt[o].seen /\ attempt'[o].read = attempt[o].read
      /\ attempt'[o].lines = attempt[o].lines /\ attempt'[o].profit = attempt[o].profit
      /\ attempt'[o].provided = attempt[o].provided
  BY <1>0, <1>3 DEF Attempt
<1>7. Placed(o)' /\ The(o)' = The(o)
  BY <1>1, <1>6, PlaceKept DEF IInv, books
<1>8. Prepared(o)'
  BY <1>1, <1>6, <1>7, PreparedKept DEF IInv, Grows, books
<1>9. Behind(o)'
  BY <1>2, <1>4, <1>6 DEF Behind
<1> QED
  BY <1>0, <1>1, <1>3, <1>4, <1>5, <1>7, <1>8, <1>9, WorkKeeps

\* The poster asks the lock for the closing date.
LEMMA CheckLockedKeeps == ASSUME IInv, NEW o \in Operators, CheckLocked(o) PROVE IInv'
<1>0. /\ pc \in [Operators -> Labels] /\ attempt \in [Operators -> Attempt]
      /\ attempt[o] \in Attempt /\ attempts \in 0 .. MaxAttempts
  BY OperatorTypes DEF IInv
<1>1. UNCHANGED <<books, desk, closer>> /\ attempts' = attempts /\ pc[o] = "post"
  BY DEF CheckLocked
<1>2. CASE Stop(o)
  BY <1>1, <1>2, StopKeeps
<1>3. CASE Goto(o, "write") /\ UNCHANGED attempt
  <2>1. pc' \in [Operators -> Labels] /\ pc'[o] = "write"
    BY <1>0, <1>3 DEF Goto, Labels
  <2>2. \A q \in Operators \ {o} : pc'[q] = pc[q] /\ attempt'[q] = attempt[q]
    BY <1>0, <1>3 DEF Goto
  <2>3. Placed(o)' /\ The(o)' = The(o)
    BY <1>1, <1>3, PlaceKept DEF IInv, books
  <2>4. Prepared(o)'
    BY <1>1, <1>3, <2>3, PreparedKept DEF IInv, Grows, books
  <2>5. Behind(o)'
    BY <2>1 DEF Behind
  <2> QED
    BY <1>0, <1>1, <1>3, <2>1, <2>2, <2>3, <2>4, <2>5, WorkKeeps
<1> QED
  BY <1>2, <1>3 DEF CheckLocked

\* A statement fails, or the program stops.
LEMMA FailKeeps == ASSUME IInv, NEW o \in Operators, Fail(o) PROVE IInv'
BY StopKeeps DEF Fail

-----------------------------------------------------------------------------
(* Steps that change the books.                                            *)

\* A report written over the one on file keeps the types and every report.
LEMMA RecordKeeps ==
    ASSUME IInv, NEW o \in Operators, NEW report \in Report, Placed(o), pc[o] # "idle",
           Record(o, report), NEW next \in Labels, Goto(o, next),
           UNCHANGED <<periods, locked, log, unsettled, facts, desk, attempt, closer, attempts>>,
           report.numbered =>
              \E i \in DOMAIN log : /\ log[i].key = attempt[o].period /\ log[i].id = report.voucher
                                    /\ Carries(log[i].lines, report.profit, report.provided),
           Placed(o)', Prepared(o)', Behind(o)'
    PROVE  IInv'
<1>0. /\ pc \in [Operators -> Labels] /\ attempt \in [Operators -> Attempt]
      /\ attempt[o] \in Attempt /\ attempts \in 0 .. MaxAttempts
  BY OperatorTypes DEF IInv
<1>1. attempt[o].period \in PeriodIds /\ reports \in [PeriodIds -> Report \cup {None}]
  BY DEF Placed, IInv, Types, TypeOK
<1>2. /\ reports' \in [PeriodIds -> Report \cup {None}]
      /\ reports'[attempt[o].period] = report
      /\ \A id \in PeriodIds : id # attempt[o].period => reports'[id] = reports[id]
  BY <1>1 DEF Record
<1>3. pc' \in [Operators -> Labels]
  BY <1>0 DEF Goto
<1>4. Types'
  BY <1>2, <1>3 DEF IInv, Types, TypeOK, Labels
<1>5. Grows
  BY DEF Grows
<1>6. LocksStand'
  BY <1>5, StandingKept DEF IInv
<1>7. ReportsStand'
  BY <1>2 DEF IInv, ReportsStand
<1>8. ClosingsStand'
  BY DEF IInv, ClosingsStand, ClosedOnce
<1>9. \A q \in Operators \ {o} : pc'[q] = pc[q] /\ attempt'[q] = attempt[q]
  BY <1>0 DEF Goto
<1>10. \A q \in Operators : Placed(q)' /\ Prepared(q)' /\ Behind(q)'
  BY <1>5, <1>9, OperatorSteps
<1> QED
  BY <1>4, <1>6, <1>7, <1>8, <1>10 DEF IInv

\* The snapshot of an attempt.
LEMMA SnapshotFacts ==
    ASSUME Types, NEW o \in Operators, Placed(o), pc[o] # "idle"
    PROVE  /\ Snapshot(o) \in Report /\ ~Snapshot(o).numbered
           /\ [Snapshot(o) EXCEPT !.numbered = TRUE] \in Report
           /\ [Snapshot(o) EXCEPT !.numbered = TRUE].voucher = attempt[o].voucher
           /\ [Snapshot(o) EXCEPT !.numbered = TRUE].profit = attempt[o].profit
           /\ [Snapshot(o) EXCEPT !.numbered = TRUE].provided = attempt[o].provided
<1>1. /\ attempt[o].voucher \in VoucherIds /\ attempt[o].profit \in Int /\ attempt[o].provided \in Int
      /\ attempt[o].force \in BOOLEAN /\ attempt[o].open \in SUBSET OpenDocuments
  BY DEF Placed, Types, Attempt
<1> QED
  BY <1>1 DEF Snapshot, Report

\* The report is saved.
LEMMA SaveReportKeeps == ASSUME IInv, NEW o \in Operators, SaveReport(o) PROVE IInv'
<1> DEFINE next == IF Empty(attempt[o].lines) THEN "lock" ELSE "post"
<1>0. pc \in [Operators -> Labels]
  BY OperatorTypes DEF IInv
<1>1. /\ pc[o] = "save" /\ Record(o, Snapshot(o)) /\ Goto(o, next)
      /\ UNCHANGED <<periods, locked, log, unsettled, facts, desk, attempt, closer, attempts>>
  BY DEF SaveReport
<1>2. next \in {"lock", "post"} /\ (next = "lock" => Empty(attempt[o].lines))
  OBVIOUS
<1> HIDE DEF next
<1>3. next \in Labels /\ pc'[o] = next
  BY <1>0, <1>1, <1>2 DEF Goto, Labels
<1>4. Placed(o)' /\ The(o)' = The(o)
  BY <1>1, PlaceKept DEF IInv
<1>5. Prepared(o)'
  BY <1>1, <1>4, PreparedKept DEF IInv, Grows
<1>6. Behind(o)'
  BY <1>1, <1>2, <1>3 DEF Behind
<1>7. Snapshot(o) \in Report /\ ~Snapshot(o).numbered
  BY <1>1, SnapshotFacts DEF IInv
<1> QED
  BY <1>1, <1>3, <1>4, <1>5, <1>6, <1>7, RecordKeeps DEF IInv

\* The report is numbered.
LEMMA SaveNumberKeeps == ASSUME IInv, NEW o \in Operators, SaveNumber(o) PROVE IInv'
<1> DEFINE report == [Snapshot(o) EXCEPT !.numbered = TRUE]
<1>0. pc \in [Operators -> Labels]
  BY OperatorTypes DEF IInv
<1>1. /\ pc[o] = "number" /\ Record(o, report) /\ Goto(o, "lock")
      /\ UNCHANGED <<periods, locked, log, unsettled, facts, desk, attempt, closer, attempts>>
  BY DEF SaveNumber
<1>2. /\ report \in Report /\ report.voucher = attempt[o].voucher
      /\ report.profit = attempt[o].profit /\ report.provided = attempt[o].provided
  BY <1>1, SnapshotFacts DEF IInv
<1> HIDE DEF report
<1>3. "lock" \in Labels /\ pc'[o] = "lock"
  BY <1>0, <1>1 DEF Goto, Labels
<1>4. Placed(o)' /\ The(o)' = The(o)
  BY <1>1, PlaceKept DEF IInv
<1>5. Prepared(o)'
  BY <1>1, <1>4, PreparedKept DEF IInv, Grows
<1>6. PICK i \in DOMAIN log : /\ log[i].key = attempt[o].period /\ log[i].id = attempt[o].voucher
                              /\ log[i].lines = attempt[o].lines
  BY <1>1 DEF IInv, Behind
<1>7. Carries(log[i].lines, report.profit, report.provided)
  BY <1>1, <1>2, <1>6 DEF IInv, Prepared
<1>8. Behind(o)'
  BY <1>1, <1>3, <1>6 DEF Behind, KeyTaken, Posted
<1> QED
  BY <1>1, <1>2, <1>3, <1>4, <1>5, <1>6, <1>7, <1>8, RecordKeeps DEF IInv

\* A voucher that comes in as the desk's, or as the first closing of a period,
\* leaves the books standing.
LEMMA AppendStands ==
    ASSUME IInv, NEW v \in Voucher, log' = Append(log, v), UNCHANGED <<periods, locked, reports, closer>>,
           v.key # None =>
              /\ ~KeyTaken(v.key) /\ v.read <= Len(log)
              /\ \E p \in periods : p.id = v.key /\ p.last = v.day /\ Clears(log, p, v.read, v.lines)
    PROVE  Grows /\ log' \in Seq(Voucher) /\ ClosingsStand' /\ ReportsStand' /\ LocksStand'
<1>1. Types /\ Grows
  BY DEF IInv, Grows
<1>2. /\ log \in Seq(Voucher) /\ log' \in Seq(Voucher) /\ Len(log) \in Nat
      /\ DOMAIN log = 1 .. Len(log) /\ DOMAIN log' = 1 .. Len(log) + 1
      /\ \A i \in DOMAIN log : log'[i] = log[i]
      /\ log'[Len(log) + 1] = v
  BY <1>1, AppendProperties, LogGrows
<1>3. v.read \in Nat
  BY DEF Voucher
<1>4. ClosedOnce'
  <2>1. SUFFICES ASSUME NEW i \in DOMAIN log', NEW j \in DOMAIN log',
                        log'[i].key # None, log'[i].key = log'[j].key
                 PROVE  i = j
    BY DEF ClosedOnce
  <2>2. \A k \in DOMAIN log : log'[k].key # None => log'[k].key # v.key
    BY <1>2 DEF KeyTaken, Posted
  <2>3. CASE i \in DOMAIN log /\ j \in DOMAIN log
    BY <1>2, <2>1, <2>3 DEF IInv, ClosingsStand, ClosedOnce
  <2>4. CASE i \notin DOMAIN log \/ j \notin DOMAIN log
    BY <1>2, <2>1, <2>2, <2>4
  <2> QED
    BY <2>3, <2>4
<1>5. ASSUME NEW i \in DOMAIN log' \ DOMAIN log, log'[i].key # None
      PROVE  /\ log'[i].read < i
             /\ \E p \in periods' : /\ p.id = log'[i].key /\ p.last = log'[i].day
                                    /\ Clears(log', p, log'[i].read, log'[i].lines)
  <2>1. i = Len(log) + 1 /\ log'[i] = v
    BY <1>2
  <2>2. PICK p \in periods : p.id = v.key /\ p.last = v.day /\ Clears(log, p, v.read, v.lines)
    BY <1>5, <2>1
  <2>3. v.read <= Len(log)
    BY <1>5, <2>1
  <2>4. Clears(log', p, v.read, v.lines)
    BY <1>1, <1>3, <2>2, <2>3, ClearsKept
  <2> QED
    BY <1>2, <1>3, <2>1, <2>2, <2>3, <2>4
<1>6. ClosingsStand'
  BY <1>1, <1>4, <1>5, ClosingsKept DEF IInv
<1>7. ReportsStand' /\ LocksStand'
  BY <1>1, StandingKept DEF IInv
<1> QED
  BY <1>1, <1>2, <1>6, <1>7

\* The closing entries are posted.
LEMMA PostEntriesKeeps == ASSUME IInv, NEW o \in Operators, PostEntries(o) PROVE IInv'
<1>0. /\ pc \in [Operators -> Labels] /\ attempt \in [Operators -> Attempt] /\ attempt[o] \in Attempt
  BY OperatorTypes DEF IInv
<1>1. /\ pc[o] = "write"
      /\ UNCHANGED <<periods, locked, reports, unsettled, facts, desk, closer, attempts>>
  BY DEF PostEntries
<1>2. CASE Stop(o) /\ UNCHANGED log
  BY <1>1, <1>2, StopKeeps DEF books
<1>3. CASE /\ Duplicate(attempt[o].voucher, attempt[o].period)
           /\ Goto(o, "lock") /\ UNCHANGED <<log, attempt>>
  <2>1. pc' \in [Operators -> Labels] /\ pc'[o] = "lock"
    BY <1>0, <1>3 DEF Goto, Labels
  <2>2. \A q \in Operators \ {o} : pc'[q] = pc[q] /\ attempt'[q] = attempt[q]
    BY <1>0, <1>3 DEF Goto
  <2>3. Placed(o)' /\ The(o)' = The(o)
    BY <1>1, <1>3, PlaceKept DEF IInv
  <2>4. Prepared(o)'
    BY <1>1, <1>3, <2>3, PreparedKept DEF IInv, Grows
  <2>5. Behind(o)'
    BY <1>3, <2>1 DEF Behind, Duplicate, KeyTaken, Posted
  <2>6. attempts' \in 0 .. MaxAttempts
    BY <1>1 DEF IInv, Types, TypeOK
  <2> QED
    BY <1>0, <1>1, <1>3, <2>1, <2>2, <2>3, <2>4, <2>5, <2>6, WorkKeeps DEF books
<1>4. CASE /\ Written(attempt[o].voucher, attempt[o].period)
           /\ log' = Append(log, [id |-> attempt[o].voucher, key |-> attempt[o].period,
                                  day |-> The(o).last, lines |-> attempt[o].lines,
                                  through |-> attempt[o].through, read |-> attempt[o].read])
           /\ Goto(o, "number") /\ UNCHANGED attempt
  <2> DEFINE v == [id |-> attempt[o].voucher, key |-> attempt[o].period, day |-> The(o).last,
                   lines |-> attempt[o].lines, through |-> attempt[o].through, read |-> attempt[o].read]
  <2>1. /\ attempt[o].voucher \in VoucherIds /\ attempt[o].period \in PeriodIds
        /\ The(o) \in periods /\ The(o).id = attempt[o].period /\ The(o) \in Period
    BY <1>0, <1>1 DEF IInv, Placed, Attempt
  <2>2. /\ attempt[o].lines \in Movements /\ attempt[o].through \in Nat /\ attempt[o].read \in Nat
        /\ The(o).last \in Int
    BY <1>0, <2>1 DEF Attempt, Period
  <2>3. v \in Voucher
    BY <2>1, <2>2 DEF Voucher
  <2>4. ~KeyTaken(v.key) /\ v.read <= Len(log) /\ Clears(log, The(o), v.read, v.lines)
    BY <1>1, <1>4 DEF Written, IInv, Prepared
  <2>5. The(o).id = v.key /\ The(o).last = v.day
    BY <2>1
  <2>6. log' = Append(log, v) /\ v.key = attempt[o].period /\ v.id = attempt[o].voucher
        /\ v.lines = attempt[o].lines
    BY <1>4
  <2> HIDE DEF v
  <2>7. Grows /\ log' \in Seq(Voucher) /\ ClosingsStand' /\ ReportsStand' /\ LocksStand'
    BY <1>1, <2>1, <2>3, <2>4, <2>5, <2>6, AppendStands
  <2>8. pc' \in [Operators -> Labels] /\ pc'[o] = "number"
    BY <1>0, <1>4 DEF Goto, Labels
  <2>9. \A q \in Operators \ {o} : pc'[q] = pc[q] /\ attempt'[q] = attempt[q]
    BY <1>0, <1>4 DEF Goto
  <2>10. Types'
    BY <1>1, <1>4, <2>7, <2>8 DEF IInv, Types, TypeOK, Labels, Voucher
  <2>11. Placed(o)' /\ The(o)' = The(o)
    BY <1>1, <1>4, PlaceKept DEF IInv
  <2>12. Prepared(o)'
    BY <1>1, <1>4, <2>7, <2>11, PreparedKept DEF IInv
  <2>13. Behind(o)'
    <3>1. Len(log) + 1 \in DOMAIN log' /\ log'[Len(log) + 1] = v
      <4>1. log \in Seq(Voucher)
        BY DEF IInv, Types, TypeOK, Voucher
      <4> QED
        BY <2>3, <2>6, <4>1, AppendProperties
    <3> QED
      BY <1>4, <2>6, <2>8, <3>1 DEF Behind
  <2>14. \A q \in Operators : Placed(q)' /\ Prepared(q)' /\ Behind(q)'
    BY <2>7, <2>9, <2>11, <2>12, <2>13, OperatorSteps
  <2> QED
    BY <2>7, <2>10, <2>14 DEF IInv
<1> QED
  BY <1>2, <1>3, <1>4 DEF PostEntries

\* The period is locked: it is closed.
LEMMA LockKeeps == ASSUME IInv, NEW o \in Operators, Lock(o) PROVE IInv'
<1>0. /\ pc \in [Operators -> Labels] /\ attempt \in [Operators -> Attempt] /\ attempt[o] \in Attempt
  BY OperatorTypes DEF IInv
<1>1. /\ pc[o] = "lock" /\ Stop(o)
      /\ UNCHANGED <<periods, log, reports, unsettled, facts, desk, attempts>>
  BY DEF Lock
<1>2. CASE attempt[o].period \in locked /\ UNCHANGED <<locked, closer>>
  BY <1>1, <1>2, StopKeeps DEF books
<1>3. CASE /\ attempt[o].period \notin locked /\ locked' = locked \cup {attempt[o].period}
           /\ closer' = [closer EXCEPT ![attempt[o].period] = [read |-> attempt[o].read, seen |-> attempt[o].seen]]
  <2> DEFINE mine == [read |-> attempt[o].read, seen |-> attempt[o].seen]
  <2>1. /\ attempt[o].period \in PeriodIds /\ The(o) \in periods /\ The(o).id = attempt[o].period
        /\ \A q \in Before(attempt[o].seen, The(o)) : q.id \in locked
    BY <1>1 DEF IInv, Placed
  <2>2. mine \in [read : Nat, seen : SUBSET Period]
    BY <1>0 DEF Attempt
  <2>3. /\ closer \in [PeriodIds -> [read : Nat, seen : SUBSET Period] \cup {None}]
        /\ Sequence(periods) /\ locked \subseteq {p.id : p \in periods}
    BY DEF IInv, Types, TypeOK
  <2>4. /\ closer' \in [PeriodIds -> [read : Nat, seen : SUBSET Period] \cup {None}]
        /\ closer'[attempt[o].period] = mine
        /\ \A id \in PeriodIds : id # attempt[o].period => closer'[id] = closer[id]
    BY <1>3, <2>1, <2>2, <2>3
  <2>5. attempt' \in [Operators -> Attempt] /\ pc' \in [Operators -> Labels]
    BY <1>1, StopTypes DEF IInv
  <2>6. locked' \subseteq {p.id : p \in periods}
    BY <1>3, <2>1, <2>3
  <2>7. Types'
    BY <1>1, <2>4, <2>5, <2>6 DEF IInv, Types, TypeOK, Labels
  <2>8. Grows
    BY <1>1, <1>3 DEF Grows
  <2>9. ClosingsStand' /\ ReportsStand'
    BY <1>1 DEF IInv, ClosingsStand, ClosedOnce, ReportsStand
  <2>10. LocksStand'
    <3> SUFFICES ASSUME NEW p \in periods, p.id \in locked'
                 PROVE  /\ closer'[p.id] \in [read : Nat, seen : SUBSET Period] /\ closer'[p.id].read <= Len(log)
                        /\ \/ KeyTaken(p.id)'
                           \/ \A a \in ProfitAndLoss : Movement(log, p, 1 .. closer'[p.id].read, a) = 0
                        /\ \A q \in Before(closer'[p.id].seen, p) : q.id \in locked'
      BY <1>1 DEF LocksStand
    <3>1. KeyTaken(p.id)' <=> KeyTaken(p.id)
      BY <1>1 DEF KeyTaken, Posted
    <3>2. CASE p.id = attempt[o].period
      <4>1. p = The(o)
        BY <2>1, <2>3, <3>2 DEF Sequence
      <4>2. closer'[p.id] = mine /\ mine.read = attempt[o].read /\ mine.seen = attempt[o].seen
        BY <2>4, <3>2
      <4>3. attempt[o].read \in Nat /\ attempt[o].read <= Len(log) /\ Clears(log, p, attempt[o].read, attempt[o].lines)
        BY <1>0, <1>1, <4>1 DEF IInv, Prepared, Attempt
      <4>4. Empty(attempt[o].lines) => \A a \in ProfitAndLoss : Movement(log, p, 1 .. attempt[o].read, a) = 0
        <5> SUFFICES ASSUME Empty(attempt[o].lines), NEW a \in ProfitAndLoss
                     PROVE  Movement(log, p, 1 .. attempt[o].read, a) = 0
          OBVIOUS
        <5>1. a \in Accounts /\ attempt[o].lines[a] = 0
          BY DEF Empty, Blank, ProfitAndLoss
        <5>2. log \in Seq(Voucher) /\ 1 .. attempt[o].read \in SUBSET DOMAIN log
          BY <2>8, <4>3, LogGrows DEF IInv
        <5>3. Movement(log, p, 1 .. attempt[o].read, a) \in Int
          BY <5>1, <5>2, MovementInt
        <5>4. attempt[o].lines[a] = -Movement(log, p, 1 .. attempt[o].read, a)
          BY <4>3 DEF Clears
        <5> QED
          BY <5>1, <5>3, <5>4
      <4>5. KeyTaken(p.id) \/ Empty(attempt[o].lines)
        BY <1>1, <3>2 DEF IInv, Behind
      <4> QED
        BY <1>3, <2>1, <2>2, <3>1, <4>1, <4>2, <4>3, <4>4, <4>5
    <3>3. CASE p.id # attempt[o].period
      <4>1. p.id \in locked /\ p.id \in PeriodIds
        BY <1>3, <3>3 DEF IInv, Types, TypeOK, PeriodIds
      <4>2. closer'[p.id] = closer[p.id]
        BY <2>4, <3>3, <4>1
      <4> QED
        BY <1>3, <3>1, <4>1, <4>2 DEF IInv, LocksStand
    <3> QED
      BY <3>2, <3>3
  <2>11. /\ pc'[o] = "idle"
         /\ \A q \in Operators \ {o} : pc'[q] = pc[q] /\ attempt'[q] = attempt[q]
    BY <1>0, <1>1 DEF Stop, Goto
  <2>12. Placed(o)' /\ Prepared(o)' /\ Behind(o)'
    BY <2>11 DEF Placed, Prepared, Behind
  <2>13. \A q \in Operators : Placed(q)' /\ Prepared(q)' /\ Behind(q)'
    BY <2>8, <2>11, <2>12, OperatorSteps
  <2> QED
    BY <2>7, <2>9, <2>10, <2>13 DEF IInv
<1> QED
  BY <1>2, <1>3 DEF Lock

\* A step of somebody else's keeps what the operators know.
LEMMA OthersKeep ==
    ASSUME IInv, Types', Grows, UNCHANGED <<pc, attempt>>, ClosingsStand', ReportsStand', LocksStand'
    PROVE  IInv'
<1>1. \A o \in Operators : Placed(o)' /\ Prepared(o)' /\ Behind(o)'
  BY OperatorKept DEF IInv
<1> QED
  BY <1>1 DEF IInv

\* The desk asks the lock about an entry.
LEMMA DeskAsksKeeps == ASSUME IInv, NEW e \in Entries, DeskAsks(e) PROVE IInv'
<1>1. /\ desk' = e /\ UNCHANGED <<periods, locked, log, reports, unsettled, facts, pc, attempt, closer, attempts>>
  BY DEF DeskAsks, books
<1>2. Types'
  BY <1>1 DEF IInv, Types, TypeOK
<1>3. Grows
  BY <1>1 DEF Grows
<1>4. ClosingsStand' /\ ReportsStand' /\ LocksStand'
  <2>1. ClosingsStand'
    BY <1>1 DEF IInv, ClosingsStand, ClosedOnce
  <2> QED
    BY <1>1, <1>3, <2>1, StandingKept DEF IInv
<1> QED
  BY <1>1, <1>2, <1>3, <1>4, OthersKeep

\* The desk writes an entry it was let through with.
LEMMA DeskWritesKeeps == ASSUME IInv, DeskWrites PROVE IInv'
<1>1. /\ desk # None /\ desk' = None
      /\ UNCHANGED <<periods, locked, reports, unsettled, facts, pc, attempt, closer, attempts>>
  BY DEF DeskWrites
<1>2. CASE UNCHANGED log
  <2>1. Types'
    BY <1>1, <1>2 DEF IInv, Types, TypeOK
  <2>2. Grows
    BY <1>1, <1>2 DEF Grows
  <2>3. ClosingsStand'
    BY <1>1, <1>2 DEF IInv, ClosingsStand, ClosedOnce
  <2>4. ReportsStand' /\ LocksStand'
    BY <1>1, <2>2, StandingKept DEF IInv
  <2> QED
    BY <1>1, <2>1, <2>2, <2>3, <2>4, OthersKeep
<1>3. CASE log' = Append(log, [id |-> "entry", key |-> None, day |-> desk.day, lines |-> desk.lines,
                              through |-> 0, read |-> 0])
  <2> DEFINE v == [id |-> "entry", key |-> None, day |-> desk.day, lines |-> desk.lines,
                   through |-> 0, read |-> 0]
  <2>1. desk \in [day : Int, lines : Movements]
    BY <1>1, EntriesAssumption DEF IInv, Types, TypeOK
  <2>2. v \in Voucher /\ v.key = None
    BY <2>1 DEF Voucher
  <2>3. log' = Append(log, v)
    BY <1>3
  <2> HIDE DEF v
  <2>4. Grows /\ log' \in Seq(Voucher) /\ ClosingsStand' /\ ReportsStand' /\ LocksStand'
    BY <1>1, <2>2, <2>3, AppendStands
  <2>5. Types'
    BY <1>1, <2>4 DEF IInv, Types, TypeOK, Voucher
  <2> QED
    BY <1>1, <2>4, <2>5, OthersKeep
<1> QED
  BY <1>2, <1>3 DEF DeskWrites

\* A period is added to the calendar.
LEMMA CreatePeriodKeeps == ASSUME IInv, NEW p \in Additions \ periods, CreatePeriod(p) PROVE IInv'
<1>1. /\ periods' = periods \cup {p} /\ ValidPeriod(p) /\ Sequence(periods')
      /\ UNCHANGED <<locked, log, reports, unsettled, facts, desk, pc, attempt, closer, attempts>>
  BY DEF CreatePeriod, CanAdd
<1>2. Types'
  BY <1>1 DEF IInv, Types, TypeOK
<1>3. Grows
  BY <1>1 DEF Grows
<1>4. ClosingsStand'
  <2>1. ClosedOnce'
    BY <1>1 DEF IInv, ClosingsStand, ClosedOnce
  <2> QED
    BY <1>1, <1>3, <2>1, ClosingsKept DEF IInv
<1>5. ReportsStand'
  BY <1>1 DEF IInv, ReportsStand
<1>6. LocksStand'
  <2>1. p.id \notin locked
    <3> SUFFICES ASSUME p.id \in locked PROVE FALSE
      OBVIOUS
    <3>1. PICK q \in periods : q.id = p.id
      BY DEF IInv, Types, TypeOK
    <3> QED
      BY <1>1, <3>1 DEF Sequence
  <2>2. \A id : KeyTaken(id)' <=> KeyTaken(id)
    BY <1>1 DEF KeyTaken, Posted
  <2> QED
    BY <1>1, <2>1, <2>2 DEF IInv, LocksStand
<1> QED
  BY <1>1, <1>2, <1>3, <1>4, <1>5, <1>6, OthersKeep

\* An open document is settled.
LEMMA SettleKeeps == ASSUME IInv, NEW d \in OpenDocuments, Settle(d) PROVE IInv'
<1>1. /\ unsettled' \subseteq unsettled
      /\ UNCHANGED <<periods, locked, log, reports, facts, desk, pc, attempt, closer, attempts>>
  BY DEF Settle
<1>2. Types'
  BY <1>1 DEF IInv, Types, TypeOK
<1>3. Grows
  BY <1>1 DEF Grows
<1>4. ClosingsStand'
  BY <1>1 DEF IInv, ClosingsStand, ClosedOnce
<1>5. ReportsStand' /\ LocksStand'
  BY <1>1, <1>3, StandingKept DEF IInv
<1> QED
  BY <1>1, <1>2, <1>3, <1>4, <1>5, OthersKeep

-----------------------------------------------------------------------------
(* The theorems.                                                           *)

\* The invariant holds when the model starts.
LEMMA InitStands == Init => IInv
<1> SUFFICES ASSUME Init PROVE IInv
  OBVIOUS
<1>1. Types
  BY InitTypes
<1>2. DOMAIN log = {} /\ locked = {} /\ \A id \in PeriodIds : reports[id] = None
  BY DEF Init
<1>3. \A o \in Operators : pc[o] = "idle"
  BY DEF Init
<1>4. ClosingsStand /\ ReportsStand /\ LocksStand
  BY <1>2 DEF ClosingsStand, ClosedOnce, ReportsStand, LocksStand
<1>5. \A o \in Operators : Placed(o) /\ Prepared(o) /\ Behind(o)
  BY <1>3 DEF Placed, Prepared, Behind
<1> QED
  BY <1>1, <1>4, <1>5 DEF IInv

\* Every step of the close keeps the invariant.
LEMMA NextKeeps == IInv /\ [Next]_vars => IInv'
<1> SUFFICES ASSUME IInv, [Next]_vars PROVE IInv'
  OBVIOUS
<1>1. ASSUME NEW o \in Operators,
             \/ Begin(o) \/ ReadCalendar(o) \/ ReadDocuments(o) \/ ReadBalances(o) \/ ReadReport(o)
             \/ SaveReport(o) \/ CheckLocked(o) \/ PostEntries(o) \/ SaveNumber(o) \/ Lock(o)
             \/ Fail(o)
      PROVE  IInv'
  BY <1>1, BeginKeeps, ReadCalendarKeeps, ReadDocumentsKeeps, ReadBalancesKeeps, ReadReportKeeps,
     SaveReportKeeps, CheckLockedKeeps, PostEntriesKeeps, SaveNumberKeeps, LockKeeps, FailKeeps
<1>2. ASSUME NEW e \in Entries, DeskAsks(e) PROVE IInv'
  BY <1>2, DeskAsksKeeps
<1>3. ASSUME DeskWrites PROVE IInv'
  BY <1>3, DeskWritesKeeps
<1>4. ASSUME NEW p \in Additions \ periods, CreatePeriod(p) PROVE IInv'
  BY <1>4, CreatePeriodKeeps
<1>5. ASSUME NEW d \in OpenDocuments, Settle(d) PROVE IInv'
  BY <1>5, SettleKeeps
<1>6. CASE UNCHANGED vars
  <2>1. UNCHANGED <<periods, locked, log, reports, unsettled, facts, desk, pc, attempt, closer, attempts>>
    BY <1>6 DEF vars, books
  <2>2. Types'
    BY <2>1 DEF IInv, Types, TypeOK
  <2>3. Grows
    BY <2>1 DEF Grows
  <2>4. ClosingsStand'
    BY <2>1 DEF IInv, ClosingsStand, ClosedOnce
  <2>5. ReportsStand' /\ LocksStand'
    BY <2>1, <2>3, StandingKept DEF IInv
  <2> QED
    BY <2>1, <2>2, <2>3, <2>4, <2>5, OthersKeep
<1> QED
  BY <1>1, <1>2, <1>3, <1>4, <1>5, <1>6 DEF Next

\* Closing a period keeps, through every step of every operator, what the
\* theorems below rest on: where each operator stands in the calendar it read,
\* what its entries clear, and which entries are behind each report and lock.
THEOREM CloseInvariant == Spec => []IInv
BY InitStands, NextKeeps, PTL DEF Spec

\* Every variable of a close keeps its type, the calendar stays a sequence.
THEOREM CloseTypes == Spec => []TypeOK
<1>1. IInv => TypeOK
  BY DEF IInv, Types
<1> QED
  BY <1>1, CloseInvariant, PTL

\* However many closes race or are retried, a period gets one set of entries.
THEOREM PeriodClosedOnce == Spec => []ClosedOnce
<1>1. IInv => ClosedOnce
  BY DEF IInv, ClosingsStand
<1> QED
  BY <1>1, CloseInvariant, PTL

\* A period is locked behind those that come before it.
THEOREM PeriodsClosedInOrder == Spec => []ClosedInOrder
<1>1. IInv => ClosedInOrder
  BY DEF IInv, LocksStand, ClosedInOrder
<1> QED
  BY <1>1, CloseInvariant, PTL

\* The closing entries of a period: one voucher at most.
LEMMA OneClosing ==
    ASSUME IInv, NEW id \in PeriodIds, NEW i \in DOMAIN log, log[i].key = id
    PROVE  Closings(id) = {i}
BY NoneAssumption DEF IInv, ClosingsStand, ClosedOnce, Closings

\* The one set of closing entries of a period carried and charged what it says.
LEMMA CloseDid ==
    ASSUME IInv, NEW id \in PeriodIds, NEW c \in DOMAIN log, Closings(id) = {c}
    PROVE  /\ Carried(id) = -log[c].lines[Retained]
           /\ ChargedBy(id) = -Over(log[c].lines, Accumulating)
<1>1. log[c].lines[Retained] \in Int /\ \A a \in Accumulating : log[c].lines[a] \in Int
  <2>1. log \in Seq(Voucher)
    BY DEF IInv, Types, TypeOK, Voucher
  <2>2. log[c] \in Voucher
    BY <2>1
  <2> QED
    BY <2>2, ClosingAccountsAssumption DEF Voucher, Movements, Accumulating
<1>2. Carried(id) = -log[c].lines[Retained]
  <2> DEFINE f == [j \in Closings(id) |-> log[j].lines[Retained]]
  <2>1. f[c] = log[c].lines[Retained] /\ f[c] \in Int /\ f = [j \in {c} |-> f[j]]
    BY <1>1
  <2>2. Carried(id) = -Total(f)
    BY DEF Carried
  <2> HIDE DEF f
  <2>3. Over(f, {c}) = f[c]
    BY <2>1, OverOne
  <2>4. Total(f) = Over(f, {c})
    BY <2>1 DEF Over
  <2> QED
    BY <2>1, <2>2, <2>3, <2>4
<1>3. ChargedBy(id) = -Over(log[c].lines, Accumulating)
  <2> DEFINE at == [a \in Accumulating |-> <<c, a>>]
             g == [ia \in Closings(id) \X Accumulating |-> log[ia[1]].lines[ia[2]]]
             pairs == {at[a] : a \in Accumulating}
             lines == log[c].lines
  <2>1. ChargedBy(id) = -Total(g)
    BY DEF ChargedBy, Accumulating
  <2>2. pairs = Closings(id) \X Accumulating
    OBVIOUS
  <2>3. g = [ia \in pairs |-> g[ia]]
    BY <2>2
  <2>4. \A a \in Accumulating : lines[a] \in Int /\ g[at[a]] = lines[a]
    BY <1>1
  <2>5. \A a, b \in Accumulating : at[a] = at[b] => a = b
    OBVIOUS
  <2>6. IsFiniteSet(Accumulating)
    BY ChartAssumption, FS_Subset DEF Accumulating
  <2> HIDE DEF g, at, lines
  <2>7. Over(g, pairs) = Over(lines, Accumulating)
    BY <2>4, <2>5, <2>6, OverNamed
  <2> HIDE DEF pairs
  <2>8. Total(g) = Over(g, pairs)
    BY <2>3 DEF Over
  <2> QED
    BY <2>1, <2>7, <2>8 DEF lines
<1> QED
  BY <1>2, <1>3

\* What a numbered report states is what its entries carried and charged.
LEMMA ReportHolds == IInv => NumberedReportIsTrue
<1> SUFFICES ASSUME IInv, NEW id \in PeriodIds, reports[id] # None, reports[id].numbered
             PROVE  /\ \E i \in Closings(id) : log[i].id = reports[id].voucher
                    /\ Carried(id) = reports[id].profit
                    /\ ChargedBy(id) = reports[id].provided
  BY DEF NumberedReportIsTrue
<1>1. PICK i \in DOMAIN log : /\ log[i].key = id /\ log[i].id = reports[id].voucher
                              /\ Carries(log[i].lines, reports[id].profit, reports[id].provided)
  BY DEF IInv, ReportsStand
<1>2. Closings(id) = {i}
  BY <1>1, OneClosing
<1>3. reports[id].profit \in Int /\ reports[id].provided \in Int
  BY DEF IInv, Types, TypeOK, Report
<1>4. Carried(id) = -log[i].lines[Retained] /\ ChargedBy(id) = -Over(log[i].lines, Accumulating)
  BY <1>2, CloseDid
<1> QED
  BY <1>1, <1>2, <1>3, <1>4 DEF Carries

\* Entries of another period's close are dated outside a period.
LEMMA ClosingsApart ==
    ASSUME IInv, NEW p \in periods, NEW i \in DOMAIN log, log[i].key # None, Covers(p, log[i].day)
    PROVE  log[i].key = p.id
<1>1. PICK q \in periods : q.id = log[i].key /\ q.last = log[i].day
  BY DEF IInv, ClosingsStand
<1>2. ValidPeriod(q) /\ Sequence(periods) /\ p \in Period /\ q \in Period
  BY OpeningAssumption DEF IInv, Types, TypeOK
<1>3. p.first \in Int /\ p.last \in Int /\ q.first \in Int /\ q.last \in Int /\ q.first <= q.last
  BY <1>2 DEF ValidPeriod, Period
<1>4. p # q => p.last < q.first \/ q.last < p.first
  BY <1>2 DEF Sequence
<1>5. p.first <= q.last /\ q.last <= p.last
  BY <1>1 DEF Covers
<1>6. p = q
  BY <1>3, <1>4, <1>5
<1> QED
  BY <1>1, <1>6

\* The vouchers of a period are those a close had read, its own, and the late
\* entries; what it read and its own leave nothing, so the late entries stand.
LEMMA LateStand ==
    ASSUME IInv, NEW p \in periods, NEW n \in Nat, n <= Len(log), NEW a \in ProfitAndLoss,
           NEW C \in SUBSET DOMAIN log,
           \A i \in C : i > n /\ log[i].key # None /\ Covers(p, log[i].day),
           \A i \in DOMAIN log : i > n /\ log[i].key # None /\ Covers(p, log[i].day) => i \in C,
           Over(On(log, a), C) = -Movement(log, p, 1 .. n, a)
    PROVE  Moved(p, DOMAIN log, a) = Moved(p, {i \in DOMAIN log : log[i].key = None /\ i > n}, a)
<1> DEFINE f == On(log, a)
           seen == Dated(log, p, 1 .. n)
           late == {i \in DOMAIN log : log[i].key = None /\ i > n}
           stands == Dated(log, p, late)
           all == Dated(log, p, DOMAIN log)
           gone == seen \cup C
<1>1. /\ log \in Seq(Voucher) /\ DOMAIN log = 1 .. Len(log) /\ Len(log) \in Nat
      /\ a \in Accounts
  BY DEF IInv, Types, TypeOK, Voucher, ProfitAndLoss
<1>2. IsFiniteSet(all) /\ \A i \in all : f[i] \in Int
  <2>1. IsFiniteSet(all)
    BY <1>1, MovementInt
  <2>2. \A i \in DOMAIN log : f[i] \in Int
    <3> TAKE i \in DOMAIN log
    <3>1. log[i] \in Voucher
      BY <1>1
    <3>2. log[i].lines \in Movements
      BY <3>1 DEF Voucher
    <3>3. log[i].lines[a] \in Int
      BY <1>1, <3>2 DEF Movements
    <3> QED
      BY <3>3 DEF On
  <2> QED
    BY <2>1, <2>2 DEF Dated
<1>3. /\ seen \subseteq all /\ C \subseteq all /\ stands \subseteq all
      /\ seen \cap C = {} /\ gone \cap stands = {} /\ gone \cup stands = all
  BY <1>1 DEF Dated
<1>4. Moved(p, DOMAIN log, a) = Over(f, all) /\ Moved(p, late, a) = Over(f, stands)
  BY MovedOver DEF Movement
<1>5. Over(f, C) = -Over(f, seen)
  BY DEF Movement
<1> HIDE DEF f, seen, late, stands, all
<1>6. /\ IsFiniteSet(seen) /\ IsFiniteSet(C) /\ IsFiniteSet(stands)
      /\ \A i \in seen \cup C : f[i] \in Int
  BY <1>2, <1>3, FS_Subset
<1>7. Over(f, gone) = Over(f, seen) + Over(f, C) /\ IsFiniteSet(gone)
  BY <1>3, <1>6, OverSplit, FS_Union
<1>8. Over(f, seen) \in Int
  BY <1>6, OverInt
<1> HIDE DEF gone
<1>9. Over(f, gone) = 0
  BY <1>5, <1>7, <1>8
<1>10. \A i \in gone \cup stands : f[i] \in Int
  BY <1>2, <1>3
<1>11. Over(f, gone \cup stands) = Over(f, gone) + Over(f, stands)
  BY <1>3, <1>6, <1>7, <1>10, OverSplit
<1>12. Over(f, stands) \in Int
  BY <1>6, <1>10, OverInt
<1>13. Over(f, all) = Over(f, stands)
  <2>1. Over(f, gone \cup stands) = Over(f, stands)
    BY <1>9, <1>11, <1>12
  <2> QED
    BY <1>3, <2>1
<1> QED
  BY <1>4, <1>13 DEF late

\* Whether its close posted or had nothing to post, only late entries stand.
LEMMA OnlyLateHolds == IInv => OnlyLateEntriesStand
<1> SUFFICES ASSUME IInv, NEW p \in periods, Closings(p.id) # {} \/ p.id \in locked, NEW a \in ProfitAndLoss
             PROVE  Moved(p, DOMAIN log, a)
                      = Moved(p, {i \in DOMAIN log : log[i].key = None /\ i > Since(p.id)}, a)
  BY DEF OnlyLateEntriesStand
<1>1. /\ p.id \in PeriodIds /\ p.id # None /\ p \in Period /\ ValidPeriod(p) /\ Sequence(periods)
      /\ log \in Seq(Voucher) /\ DOMAIN log = 1 .. Len(log) /\ a \in Accounts
  BY OpeningAssumption, NoneAssumption DEF IInv, Types, TypeOK, PeriodIds, Voucher, ProfitAndLoss
<1>2. CASE Closings(p.id) # {}
  <2>1. PICK c \in DOMAIN log : log[c].key = p.id
    BY <1>2 DEF Closings
  <2>2. Closings(p.id) = {c}
    BY <1>1, <2>1, OneClosing
  <2>3. Since(p.id) = log[c].read
    BY <2>2 DEF Since
  <2>4. PICK q \in periods : q.id = p.id /\ q.last = log[c].day /\ Clears(log, q, log[c].read, log[c].lines)
    BY <1>1, <2>1 DEF IInv, ClosingsStand
  <2>5. q = p
    BY <1>1, <2>4 DEF Sequence
  <2>6. log[c].read < c /\ log[c].read \in Nat /\ log[c].read <= Len(log)
    <3>1. log[c] \in Voucher /\ log[c].read < c
      BY <1>1, <2>1 DEF IInv, ClosingsStand
    <3> QED
      BY <1>1, <3>1 DEF Voucher
  <2>7. Covers(p, log[c].day)
    <3>1. p.first \in Int /\ p.last \in Int /\ p.first <= p.last
      BY <1>1 DEF ValidPeriod, Period
    <3>2. log[c].day = p.last
      BY <2>4, <2>5
    <3> QED
      BY <3>1, <3>2 DEF Covers
  <2>8. On(log, a)[c] = -Movement(log, p, 1 .. log[c].read, a) /\ On(log, a)[c] \in Int
    <3>1. On(log, a)[c] = -Movement(log, p, 1 .. log[c].read, a)
      BY <2>4, <2>5 DEF On, Clears
    <3>2. 1 .. log[c].read \in SUBSET DOMAIN log
      BY <1>1, <2>6
    <3>3. Movement(log, p, 1 .. log[c].read, a) \in Int
      BY <1>1, <3>2, MovementInt
    <3> QED
      BY <3>1, <3>3
  <2>9. Over(On(log, a), {c}) = -Movement(log, p, 1 .. log[c].read, a)
    BY <2>8, OverOne
  <2>10. \A i \in DOMAIN log : log[i].key # None /\ Covers(p, log[i].day) => i \in {c}
    BY <2>2, ClosingsApart DEF Closings
  <2>11. \A i \in {c} : i > log[c].read /\ log[i].key # None /\ Covers(p, log[i].day)
    BY <1>1, <2>1, <2>6, <2>7
  <2> DEFINE C == {c}
  <2>12. /\ C \in SUBSET DOMAIN log
         /\ \A i \in C : i > log[c].read /\ log[i].key # None /\ Covers(p, log[i].day)
         /\ \A i \in DOMAIN log : i > log[c].read /\ log[i].key # None /\ Covers(p, log[i].day) => i \in C
         /\ Over(On(log, a), C) = -Movement(log, p, 1 .. log[c].read, a)
    BY <2>9, <2>10, <2>11
  <2> HIDE DEF C
  <2> QED
    BY <2>3, <2>6, <2>12, LateStand
<1>3. CASE Closings(p.id) = {}
  <2>1. p.id \in locked /\ Since(p.id) = closer[p.id].read
    BY <1>3 DEF Since
  <2>2. ~KeyTaken(p.id)
    BY <1>3 DEF KeyTaken, Posted, Closings
  <2>3. /\ closer[p.id].read \in Nat /\ closer[p.id].read <= Len(log)
        /\ Movement(log, p, 1 .. closer[p.id].read, a) = 0
    BY <2>1, <2>2 DEF IInv, LocksStand
  <2> DEFINE C == {}
  <2>4. Over(On(log, a), C) = -Movement(log, p, 1 .. closer[p.id].read, a)
    BY <2>3, OverEmpty
  <2>5. \A i \in DOMAIN log : log[i].key # None /\ Covers(p, log[i].day) => i \in C
    BY <1>3, ClosingsApart DEF Closings
  <2>6. C \in SUBSET DOMAIN log /\ \A i \in C : FALSE
    OBVIOUS
  <2> HIDE DEF C
  <2> QED
    BY <2>1, <2>3, <2>4, <2>5, <2>6, LateStand
<1> QED
  BY <1>2, <1>3

\* A numbered report gives the profit that retained earnings received and the
\* provisions that were charged, whoever else was closing the period.
THEOREM NumberedReports == Spec => []NumberedReportIsTrue
BY ReportHolds, CloseInvariant, PTL

\* Whatever was posted, in whatever order, a closed period's revenue, expense
\* and result accounts hold nothing but what came after its balances were read.
THEOREM CloseClears == Spec => []OnlyLateEntriesStand
BY OnlyLateHolds, CloseInvariant, PTL

-----------------------------------------------------------------------------
(* Vouchers that balance.                                                  *)

Revenues == {a \in Accounts : AccountType[a] = "revenue"}
Expenses == {a \in Accounts : AccountType[a] = "expense"}

\* The profit and loss accounts are of two kinds, and with retained earnings and
\* the accounts a provision accumulates on they are the chart.
LEMMA ChartParts ==
    /\ IsFiniteSet(Revenues) /\ IsFiniteSet(Expenses) /\ IsFiniteSet(ProfitAndLoss)
    /\ IsFiniteSet(Accumulating)
    /\ ProfitAndLoss = Revenues \cup Expenses /\ Revenues \cap Expenses = {}
    /\ Accounts = ProfitAndLoss \cup (Accumulating \cup {Retained})
    /\ Retained \notin ProfitAndLoss /\ Retained \notin Accumulating
    /\ ProfitAndLoss \cap Accumulating = {}
<1>1. /\ Revenues \in SUBSET Accounts /\ Expenses \in SUBSET Accounts
      /\ ProfitAndLoss \in SUBSET Accounts /\ Accumulating \in SUBSET Accounts
  BY DEF Revenues, Expenses, ProfitAndLoss, Accumulating
<1>2. ProfitAndLoss = Revenues \cup Expenses /\ Revenues \cap Expenses = {}
  BY DEF Revenues, Expenses, ProfitAndLoss
<1>3. Retained \in Accounts /\ Retained \notin ProfitAndLoss
  BY ClosingAccountsAssumption, AccountTypeAssumption DEF ProfitAndLoss
<1> QED
  BY <1>1, <1>2, <1>3, ChartAssumption, FS_Subset DEF Accumulating

\* What lines come to over the whole chart.
LEMMA ChartSum ==
    ASSUME NEW v \in Movements
    PROVE  /\ Over(v, ProfitAndLoss) \in Int /\ Over(v, Accumulating) \in Int /\ v[Retained] \in Int
           /\ Over(v, Accounts) = Over(v, ProfitAndLoss) + Over(v, Accumulating) + v[Retained]
<1>1. \A a \in Accounts : v[a] \in Int
  BY DEF Movements
<1>2. /\ \A a \in ProfitAndLoss : v[a] \in Int
      /\ \A a \in Accumulating : v[a] \in Int
      /\ v[Retained] \in Int
  BY <1>1, ChartParts
<1>3. Over(v, ProfitAndLoss) \in Int /\ Over(v, Accumulating) \in Int
  BY <1>2, ChartParts, OverInt
<1>4. IsFiniteSet(Accumulating \cup {Retained})
  BY ChartParts, FS_AddElement
<1>5. Over(v, Accumulating \cup {Retained}) = Over(v, Accumulating) + v[Retained]
  BY <1>2, ChartParts, OverAdd
<1>6. Over(v, ProfitAndLoss \cup (Accumulating \cup {Retained}))
        = Over(v, ProfitAndLoss) + Over(v, Accumulating \cup {Retained})
  BY <1>2, <1>4, ChartParts, OverSplit
<1> QED
  BY <1>2, <1>3, <1>5, <1>6, ChartParts

\* A profit is what the revenue accounts hold less what the expense accounts do.
LEMMA ProfitOver ==
    ASSUME NEW b \in [ProfitAndLoss -> Int]
    PROVE  /\ Over(b, Revenues) \in Int /\ Over(b, Expenses) \in Int
           /\ NetProfit(b) = Over(b, Revenues) - Over(b, Expenses)
<1>1. /\ {a \in DOMAIN b : AccountType[a] = "revenue"} = Revenues
      /\ {a \in DOMAIN b : AccountType[a] = "expense"} = Expenses
  BY DEF ProfitAndLoss, Revenues, Expenses
<1>2. Of(b, "revenue") = Over(b, Revenues) /\ Of(b, "expense") = Over(b, Expenses)
  BY <1>1 DEF Of, Over
<1>3. (\A a \in Revenues : b[a] \in Int) /\ (\A a \in Expenses : b[a] \in Int)
  BY ChartParts
<1>4. Over(b, Revenues) \in Int /\ Over(b, Expenses) \in Int
  BY <1>3, ChartParts, OverInt
<1> QED
  BY <1>2, <1>4 DEF NetProfit

\* When nothing passes through the result account there is no profit.
LEMMA NoneThrough ==
    ASSUME NEW b \in [ProfitAndLoss -> Int], ThroughResult(b) = 0
    PROVE  NetProfit(b) = 0
<1> DEFINE effect(a) == IF AccountType[a] = "revenue" THEN b[a] ELSE -b[a]
           all == [a \in ProfitAndLoss |-> effect(a)]
           less == [a \in ProfitAndLoss |-> -effect(a)]
           up == {a \in DOMAIN b : effect(a) > 0}
           down == {a \in DOMAIN b : effect(a) < 0}
<1>1. DOMAIN b = ProfitAndLoss /\ \A a \in ProfitAndLoss : effect(a) \in Int /\ all[a] = effect(a) /\ less[a] = -effect(a)
  OBVIOUS
<1>2. [a \in up |-> effect(a)] = [a \in up |-> all[a]] /\ [a \in down |-> effect(a)] = [a \in down |-> all[a]]
  BY <1>1
<1>3. Total([a \in up |-> effect(a)]) = Over(all, up) /\ Total([a \in down |-> effect(a)]) = Over(all, down)
  BY <1>2 DEF Over
<1>4. ThroughResult(b) = IF -Total([a \in down |-> effect(a)]) > Total([a \in up |-> effect(a)])
                         THEN -Total([a \in down |-> effect(a)]) ELSE Total([a \in up |-> effect(a)])
  BY DEF ThroughResult
<1>5. /\ IsFiniteSet(up) /\ IsFiniteSet(down)
      /\ \A a \in up : a \in ProfitAndLoss /\ all[a] \in Nat /\ all[a] > 0
      /\ \A a \in down : all[a] \in Int /\ less[a] = -all[a] /\ less[a] \in Nat /\ less[a] > 0
      /\ \A a \in ProfitAndLoss : a \notin up /\ a \notin down => effect(a) = 0
  BY <1>1, ChartParts, FS_Subset
<1>6. \A a \in ProfitAndLoss : effect(a) = 0 => b[a] = 0
  <2>1. \A a \in ProfitAndLoss : b[a] \in Int
    OBVIOUS
  <2> QED
    BY <2>1
<1> HIDE DEF all, less, up, down, effect
<1>7. Over(all, up) \in Nat /\ Over(less, down) \in Nat /\ Over(less, down) = -Over(all, down) /\ Over(all, down) \in Int
  BY <1>5, OverNat, OverMinus, OverInt
<1>8. Over(all, up) = 0 /\ Over(less, down) = 0
  BY <1>3, <1>4, <1>7
<1>9. ASSUME NEW a \in up PROVE FALSE
  <2>1. {a} \in SUBSET up /\ all[a] \in Int
    BY <1>5
  <2>2. Over(all, {a}) = all[a]
    BY <2>1, OverOne
  <2>3. Over(all, {a}) <= Over(all, up)
    BY <1>5, <2>1, OverPart
  <2> QED
    BY <1>5, <1>8, <2>1, <2>2, <2>3
<1>10. ASSUME NEW a \in down PROVE FALSE
  <2>1. {a} \in SUBSET down /\ less[a] \in Int
    BY <1>5
  <2>2. Over(less, {a}) = less[a]
    BY <2>1, OverOne
  <2>3. Over(less, {a}) <= Over(less, down)
    BY <1>5, <2>1, OverPart
  <2> QED
    BY <1>5, <1>8, <2>1, <2>2, <2>3
<1>11. (\A a \in Revenues : b[a] = 0) /\ (\A a \in Expenses : b[a] = 0)
  BY <1>5, <1>6, <1>9, <1>10, ChartParts
<1>12. Over(b, Revenues) = 0 /\ Over(b, Expenses) = 0
  BY <1>11, ChartParts, OverZero
<1> QED
  BY <1>12, ProfitOver

\* Lines that balance and leave the result account where it was, and carry
\* nothing when nothing passes through it.
Even(lines, through) ==
    Over(lines, Accounts) = 0 /\ lines[Result] = 0 /\ (through = 0 => lines[Retained] = 0)

\* Every charge is spent on one of the expense accounts.
LEMMA SpentOver ==
    ASSUME NEW charges, Sound(charges)
    PROVE  Over([a \in Expenses |-> Charged({c \in charges : c.expense = a})], Expenses) = Charged(charges)
<1> DEFINE amount == [c \in charges |-> c.amount]
           from == [c \in charges |-> c.expense]
           part == [a \in Expenses |-> {c \in charges : c.expense = a}]
           on == [a \in Expenses |-> Charged(part[a])]
<1>1. IsFiniteSet(charges) /\ \A c \in charges : amount[c] \in Int /\ from[c] \in Expenses
  BY ChartAssumption DEF Sound, ValidPair, Expenses
<1>2. \A a \in Expenses : part[a] \in SUBSET charges /\ \A c \in charges : c \in part[a] <=> from[c] = a
  OBVIOUS
<1>3. \A a \in Expenses : on[a] = Over(amount, part[a])
  BY <1>2, ChargedOver
<1>4. Charged(charges) = Over(amount, charges)
  BY ChargedOver
<1>5. IsFiniteSet(Expenses)
  BY ChartParts
<1> HIDE DEF amount, from, part, on
<1>6. Over(on, Expenses) = Over(amount, charges)
  BY <1>1, <1>2, <1>3, <1>5, OverParts
<1>7. on = [a \in Expenses |-> Charged({c \in charges : c.expense = a})]
  BY DEF on, part
<1> QED
  BY <1>4, <1>6, <1>7

\* The entries of a close are such.
LEMMA ClosingEven ==
    ASSUME NEW held \in [ProfitAndLoss -> Int], NEW charges, Sound(charges),
           CanClear(WithProvisions(held, charges))
    PROVE  Even(ClosingVoucher(held, charges), ThroughResult(WithProvisions(held, charges)))
<1> DEFINE v == ClosingVoucher(held, charges)
           b == WithProvisions(held, charges)
           spent(a) == Charged({c \in charges : c.expense = a})
           on == [a \in Expenses |-> spent(a)]
<1>1. /\ v \in Movements /\ b \in [ProfitAndLoss -> Int]
      /\ \A a \in ProfitAndLoss : v[a] = IF AccountType[a] = "revenue" THEN held[a] ELSE -held[a]
      /\ v[Retained] = -NetProfit(b) /\ Over(v, Accumulating) = -Charged(charges)
      /\ Charged(charges) \in Int
  BY VoucherFacts DEF Carries
<1>2. \A a \in Accounts : spent(a) \in Int /\ (AccountType[a] # "expense" \/ a \in {Result, Retained} => spent(a) = 0)
  BY ChargedSides
<1>3. \A a \in ProfitAndLoss : b[a] = held[a] + spent(a) /\ held[a] \in Int
  BY DEF WithProvisions
<1>4. \A a \in Revenues : a \in Accounts /\ a \in ProfitAndLoss /\ AccountType[a] = "revenue"
  BY DEF Revenues, ProfitAndLoss
<1>5. \A a \in Expenses : a \in Accounts /\ a \in ProfitAndLoss /\ AccountType[a] = "expense"
  BY DEF Expenses, ProfitAndLoss
<1>6. \A a \in Revenues : b[a] = held[a] /\ v[a] = held[a]
  <2> TAKE a \in Revenues
  <2>1. spent(a) = 0 /\ b[a] = held[a] + spent(a) /\ held[a] \in Int
    BY <1>2, <1>3, <1>4
  <2>2. v[a] = held[a]
    BY <1>1, <1>4
  <2> HIDE DEF spent, b
  <2> QED
    BY <2>1, <2>2
<1>7. \A a \in Expenses : held[a] \in Int /\ on[a] \in Int /\ b[a] = held[a] + on[a] /\ v[a] = -held[a]
  BY <1>1, <1>2, <1>3, <1>5
<1>8. Over(on, Expenses) = Charged(charges)
  BY SpentOver
<1>9. Result \in ProfitAndLoss /\ AccountType[Result] = "expense" /\ v[Result] = 0
  <2>1. Result \in ProfitAndLoss /\ AccountType[Result] = "expense" /\ Result \in Accounts
    BY ClosingAccountsAssumption, AccountTypeAssumption DEF ProfitAndLoss
  <2>2. b[Result] = 0 /\ spent(Result) = 0
    BY <1>2, <2>1 DEF CanClear
  <2> QED
    BY <1>1, <1>3, <2>1, <2>2
<1> HIDE DEF v, b, on, spent
<1>10. Over(b, Revenues) = Over(held, Revenues) /\ Over(v, Revenues) = Over(held, Revenues)
  BY <1>6, OverSame DEF Alike
<1>11. Over(b, Expenses) = Over(held, Expenses) + Charged(charges)
  BY <1>7, <1>8, ChartParts, OverPlus
<1>12. Over(v, Expenses) = -Over(held, Expenses)
  BY <1>7, ChartParts, OverMinus
<1>13. Over(v, ProfitAndLoss) = Over(v, Revenues) + Over(v, Expenses)
  <2>1. \A a \in Revenues \cup Expenses : v[a] \in Int
    BY <1>1, ChartParts DEF Movements
  <2> QED
    BY <2>1, ChartParts, OverSplit
<1>14. /\ NetProfit(b) = Over(b, Revenues) - Over(b, Expenses)
       /\ Over(held, Revenues) \in Int /\ Over(held, Expenses) \in Int
  BY <1>1, ProfitOver
<1>15. Over(v, Accounts) = 0
  <2>1. Over(v, Accounts) = Over(v, ProfitAndLoss) + Over(v, Accumulating) + v[Retained]
    BY <1>1, ChartSum
  <2> QED
    BY <1>1, <1>10, <1>11, <1>12, <1>13, <1>14, <2>1
<1>16. ThroughResult(b) = 0 => v[Retained] = 0
  BY <1>1, NoneThrough
<1> QED
  BY <1>9, <1>15, <1>16 DEF Even, v, b

\* A voucher balances; one of the desk's passes nothing through the result
\* account besides its lines, one of a close is as ClosingEven says.
Balanced(v) ==
    /\ Over(v.lines, Accounts) = 0
    /\ v.key = None => v.through = 0
    /\ v.key # None => Even(v.lines, v.through)

Early == {"idle", "calendar", "documents", "balances"}

\* Every voucher balances, on file and about to be.
BooksBalance ==
    /\ \A i \in DOMAIN log : Balanced(log[i])
    /\ \A o \in Operators : pc[o] \notin Early => Even(attempt[o].lines, attempt[o].through)

\* Appending one that balances.
LEMMA AppendBalances ==
    ASSUME Types, BooksBalance, NEW v \in Voucher, Balanced(v), log' = Append(log, v)
    PROVE  \A i \in DOMAIN log' : Balanced(log'[i])
<1>1. log \in Seq(Voucher)
  BY DEF Types, TypeOK, Voucher
<1>2. /\ DOMAIN log' = 1 .. Len(log) + 1 /\ DOMAIN log = 1 .. Len(log) /\ Len(log) \in Nat
      /\ log'[Len(log) + 1] = v /\ \A i \in 1 .. Len(log) : log'[i] = log[i]
  BY <1>1, AppendProperties
<1> QED
  BY <1>2 DEF BooksBalance

\* A step of one operator.
LEMMA OperatorBalances ==
    ASSUME BooksBalance, NEW o \in Operators,
           \A i \in DOMAIN log' : Balanced(log'[i]),
           \A q \in Operators \ {o} : pc'[q] = pc[q] /\ attempt'[q] = attempt[q],
           pc'[o] \notin Early => Even(attempt'[o].lines, attempt'[o].through)
    PROVE  BooksBalance'
BY DEF BooksBalance

\* What an operator prepares from the balances is even.
LEMMA ReadBalancesBalances ==
    ASSUME IInv, BooksBalance, NEW o \in Operators, ReadBalances(o)
    PROVE  BooksBalance'
<1>0. /\ pc \in [Operators -> Labels] /\ attempt \in [Operators -> Attempt] /\ attempt[o] \in Attempt
  BY OperatorTypes DEF IInv
<1>1. UNCHANGED log /\ pc[o] = "balances"
  BY DEF ReadBalances, books
<1> DEFINE p == The(o)
           held == Balances(p)
           charges == Provided(p, facts[p.id])
           b == WithProvisions(held, charges)
           lines == ClosingVoucher(held, charges)
           through == ThroughResult(b)
           profit == NetProfit(b)
           provided == Charged(charges)
<1>2. CASE Stop(o)
  <2>1. pc'[o] = "idle" /\ \A q \in Operators \ {o} : pc'[q] = pc[q] /\ attempt'[q] = attempt[q]
    BY <1>0, <1>2 DEF Stop, Goto
  <2> QED
    BY <1>1, <2>1, OperatorBalances DEF BooksBalance, Early
<1>3. CASE /\ CanProvide(p, facts[p.id]) /\ CanClear(b)
           /\ attempt' = [attempt EXCEPT ![o].held = held, ![o].read = Len(log), ![o].lines = lines,
                                         ![o].through = through, ![o].profit = profit,
                                         ![o].provided = provided]
           /\ Goto(o, "report")
  <2>1. Even(lines, through)
    <3>1. p \in Period /\ p.id \in PeriodIds
      <4>1. attempt[o].seen \in SUBSET Period /\ attempt[o].period \in PeriodIds
        BY <1>0, <1>1 DEF IInv, Attempt, Placed
      <4> QED
        BY <1>1, <4>1 DEF IInv, Placed
    <3>2. /\ facts[p.id] \in [assets : SUBSET Asset, receivables : SUBSET Receivable]
          /\ IsFiniteSet(facts[p.id].assets) /\ IsFiniteSet(facts[p.id].receivables)
      BY <3>1, FactsAssumption DEF IInv, Types
    <3>3. held \in [ProfitAndLoss -> Int]
      BY BalancesFacts DEF IInv
    <3> HIDE DEF p, held
    <3>4. Sound(charges)
      BY <1>3, <3>1, <3>2, ProvidedSound
    <3> QED
      BY <1>3, <3>3, <3>4, ClosingEven
  <2> HIDE DEF held, lines, through, profit, provided
  <2>2. attempt'[o].lines = lines /\ attempt'[o].through = through
    BY <1>0, <1>3 DEF Attempt
  <2>3. \A q \in Operators \ {o} : pc'[q] = pc[q] /\ attempt'[q] = attempt[q]
    BY <1>0, <1>3 DEF Goto
  <2> QED
    BY <1>1, <2>1, <2>2, <2>3, OperatorBalances DEF BooksBalance
<1> QED
  BY <1>2, <1>3 DEF ReadBalances

\* What it posts it had prepared.
LEMMA PostEntriesBalances ==
    ASSUME IInv, BooksBalance, NEW o \in Operators, PostEntries(o)
    PROVE  BooksBalance'
<1>0. /\ pc \in [Operators -> Labels] /\ attempt \in [Operators -> Attempt] /\ attempt[o] \in Attempt
  BY OperatorTypes DEF IInv
<1>1. pc[o] = "write" /\ Even(attempt[o].lines, attempt[o].through)
  BY DEF PostEntries, BooksBalance, Early
<1>2. \A q \in Operators \ {o} : pc'[q] = pc[q] /\ attempt'[q] = attempt[q]
  BY <1>0 DEF PostEntries, Stop, Goto
<1>3. pc'[o] = "idle" \/ attempt' = attempt
  BY <1>0 DEF PostEntries, Stop, Goto
<1>4. CASE UNCHANGED log
  BY <1>1, <1>2, <1>3, <1>4, OperatorBalances DEF BooksBalance, Early
<1>5. CASE log' = Append(log, [id |-> attempt[o].voucher, key |-> attempt[o].period,
                              day |-> The(o).last, lines |-> attempt[o].lines,
                              through |-> attempt[o].through, read |-> attempt[o].read])
  <2> DEFINE v == [id |-> attempt[o].voucher, key |-> attempt[o].period, day |-> The(o).last,
                   lines |-> attempt[o].lines, through |-> attempt[o].through, read |-> attempt[o].read]
  <2>1. /\ attempt[o].voucher \in VoucherIds /\ attempt[o].period \in PeriodIds
        /\ The(o) \in attempt[o].seen /\ attempt[o].seen \subseteq Period
    BY <1>0, <1>1 DEF IInv, Placed, Attempt
  <2>2. v \in Voucher /\ v.key # None /\ v.lines = attempt[o].lines /\ v.through = attempt[o].through
    BY <1>0, <2>1, NoneAssumption DEF Voucher, Attempt, Period
  <2>3. log' = Append(log, v)
    BY <1>5
  <2> HIDE DEF v
  <2>4. Balanced(v)
    BY <1>1, <2>2 DEF Balanced, Even
  <2>5. \A i \in DOMAIN log' : Balanced(log'[i])
    BY <2>2, <2>3, <2>4, AppendBalances DEF IInv
  <2> QED
    BY <1>1, <1>2, <1>3, <2>5, OperatorBalances DEF Early
<1> QED
  BY <1>4, <1>5 DEF PostEntries

\* Its other steps keep what it prepared, or leave off.
LEMMA WorkBalances ==
    ASSUME IInv, BooksBalance, NEW o \in Operators,
           \/ Begin(o) \/ ReadCalendar(o) \/ ReadDocuments(o) \/ ReadReport(o)
           \/ SaveReport(o) \/ CheckLocked(o) \/ SaveNumber(o) \/ Lock(o) \/ Fail(o)
    PROVE  BooksBalance'
<1>0. /\ pc \in [Operators -> Labels] /\ attempt \in [Operators -> Attempt] /\ attempt[o] \in Attempt
  BY OperatorTypes DEF IInv
<1>1. UNCHANGED log
  <2>1. Begin(o) => UNCHANGED books
    BY Zenon DEF Begin
  <2>2. ReadCalendar(o) \/ ReadDocuments(o) \/ ReadReport(o) => UNCHANGED books
    BY Zenon DEF ReadCalendar, ReadDocuments, ReadReport
  <2>3. SaveReport(o) \/ CheckLocked(o) \/ SaveNumber(o) \/ Lock(o) \/ Fail(o) => UNCHANGED log
    BY DEF SaveReport, CheckLocked, SaveNumber, Lock, Fail, books
  <2> QED
    BY <2>1, <2>2, <2>3 DEF books
<1>2. CASE Begin(o) \/ ReadCalendar(o) \/ ReadDocuments(o) \/ Lock(o) \/ Fail(o)
  <2>1. ASSUME Stop(o) PROVE pc'[o] \in Early /\ \A q \in Operators \ {o} : pc'[q] = pc[q] /\ attempt'[q] = attempt[q]
    BY <1>0, <2>1 DEF Stop, Goto, Early
  <2>2. ASSUME Begin(o) PROVE pc'[o] \in Early /\ \A q \in Operators \ {o} : pc'[q] = pc[q] /\ attempt'[q] = attempt[q]
    <3>1. PICK c \in Commands : attempt' = [attempt EXCEPT ![o].period = c.period, ![o].voucher = c.voucher,
                                                          ![o].force = c.force]
      BY <2>2, Zenon DEF Begin
    <3>2. \A q \in Operators \ {o} : attempt'[q] = attempt[q]
      BY <1>0, <3>1
    <3>3. pc' = [pc EXCEPT ![o] = "calendar"]
      BY <2>2, Zenon DEF Begin, Goto
    <3> QED
      BY <1>0, <3>2, <3>3 DEF Early
  <2>3. ASSUME ReadCalendar(o) PROVE pc'[o] \in Early /\ \A q \in Operators \ {o} : pc'[q] = pc[q] /\ attempt'[q] = attempt[q]
    <3>1. CASE attempt' = [attempt EXCEPT ![o].seen = periods] /\ Goto(o, "documents")
      BY <1>0, <3>1 DEF Goto, Early
    <3> QED
      BY <2>1, <2>3, <3>1 DEF ReadCalendar
  <2>4. ASSUME ReadDocuments(o) PROVE pc'[o] \in Early /\ \A q \in Operators \ {o} : pc'[q] = pc[q] /\ attempt'[q] = attempt[q]
    <3> DEFINE open == {d \in unsettled : d.period = attempt[o].period}
    <3>1. CASE attempt' = [attempt EXCEPT ![o].open = open] /\ Goto(o, "balances")
      BY <1>0, <3>1 DEF Goto, Early
    <3> QED
      BY <2>1, <2>4, <3>1 DEF ReadDocuments
  <2>5. Lock(o) \/ Fail(o) => Stop(o)
    BY DEF Lock, Fail
  <2>6. pc'[o] \in Early /\ \A q \in Operators \ {o} : pc'[q] = pc[q] /\ attempt'[q] = attempt[q]
    BY <1>2, <2>1, <2>2, <2>3, <2>4, <2>5
  <2> QED
    BY <1>1, <2>6, OperatorBalances DEF BooksBalance
<1>3. CASE ReadReport(o)
  <2>1. /\ pc[o] = "report" /\ \A q \in Operators \ {o} : pc'[q] = pc[q] /\ attempt'[q] = attempt[q]
        /\ attempt'[o].lines = attempt[o].lines /\ attempt'[o].through = attempt[o].through
    BY <1>0, <1>3 DEF ReadReport, Goto, Attempt
  <2> QED
    BY <1>1, <2>1, OperatorBalances DEF BooksBalance, Early
<1>4. CASE SaveReport(o) \/ CheckLocked(o) \/ SaveNumber(o)
  <2>1. pc[o] \notin Early /\ (pc'[o] = "idle" \/ attempt' = attempt)
    BY <1>0, <1>4 DEF SaveReport, CheckLocked, SaveNumber, Stop, Goto, Early
  <2>2. \A q \in Operators \ {o} : pc'[q] = pc[q] /\ attempt'[q] = attempt[q]
    BY <1>0, <1>4 DEF SaveReport, CheckLocked, SaveNumber, Stop, Goto
  <2>3. "idle" \in Early
    BY DEF Early
  <2> QED
    BY <1>1, <2>1, <2>2, <2>3, OperatorBalances DEF BooksBalance
<1> QED
  BY <1>2, <1>3, <1>4

\* The desk posts entries that balance.
LEMMA DeskBalances ==
    ASSUME IInv, BooksBalance, DeskWrites
    PROVE  BooksBalance'
<1>1. UNCHANGED <<pc, attempt>> /\ desk \in Entries
  BY DEF DeskWrites, IInv, Types, TypeOK
<1>2. CASE UNCHANGED log
  BY <1>1, <1>2 DEF BooksBalance
<1>3. CASE log' = Append(log, [id |-> "entry", key |-> None, day |-> desk.day, lines |-> desk.lines,
                              through |-> 0, read |-> 0])
  <2> DEFINE v == [id |-> "entry", key |-> None, day |-> desk.day, lines |-> desk.lines,
                   through |-> 0, read |-> 0]
  <2>1. desk \in [day : Int, lines : Movements] /\ Total(desk.lines) = 0
    BY <1>1, EntriesAssumption
  <2>2. Over(desk.lines, Accounts) = 0
    <3>1. desk.lines = [a \in Accounts |-> desk.lines[a]]
      BY <2>1 DEF Movements
    <3> QED
      BY <2>1, <3>1 DEF Over
  <2>3. v \in Voucher /\ Balanced(v)
    BY <2>1, <2>2 DEF Voucher, Balanced
  <2>4. log' = Append(log, v)
    BY <1>3
  <2> HIDE DEF v
  <2> QED
    BY <1>1, <2>3, <2>4, AppendBalances DEF IInv, BooksBalance
<1> QED
  BY <1>2, <1>3 DEF DeskWrites

\* So every voucher ever on file balances.
LEMMA NextBalances == IInv /\ BooksBalance /\ [Next]_vars => BooksBalance'
<1> SUFFICES ASSUME IInv, BooksBalance, [Next]_vars PROVE BooksBalance'
  OBVIOUS
<1>1. ASSUME NEW o \in Operators,
             \/ Begin(o) \/ ReadCalendar(o) \/ ReadDocuments(o) \/ ReadBalances(o) \/ ReadReport(o)
             \/ SaveReport(o) \/ CheckLocked(o) \/ PostEntries(o) \/ SaveNumber(o) \/ Lock(o)
             \/ Fail(o)
      PROVE  BooksBalance'
  BY <1>1, WorkBalances, ReadBalancesBalances, PostEntriesBalances
<1>2. CASE \/ \E e \in Entries : DeskAsks(e)
           \/ \E p \in Additions \ periods : CreatePeriod(p)
           \/ \E d \in OpenDocuments : Settle(d)
           \/ UNCHANGED vars
  <2>1. UNCHANGED <<log, pc, attempt>>
    BY <1>2 DEF DeskAsks, CreatePeriod, Settle, vars, books
  <2> QED
    BY <2>1 DEF BooksBalance
<1> QED
  BY <1>1, <1>2, DeskBalances DEF Next

\* The books balance, whoever posts.
LEMMA BooksInvariant == Spec => [](IInv /\ BooksBalance)
<1>1. Init => BooksBalance
  BY DEF Init, BooksBalance, Early
<1> QED
  BY <1>1, NextBalances, CloseInvariant, PTL DEF Spec

-----------------------------------------------------------------------------
(* The lines of the books.                                                 *)

\* What a voucher puts on one side of an account.
Put(i, a, side) ==
    LET net == log[i].lines[a] IN
    (IF a = Result THEN log[i].through ELSE 0)
        + (IF side = "debit" THEN IF net > 0 THEN net ELSE 0 ELSE IF net < 0 THEN -net ELSE 0)

Puts(a, side) == [i \in DOMAIN log |-> Put(i, a, side)]

\* What is known of a voucher on file.
LEMMA VoucherTypes ==
    ASSUME IInv, BooksBalance, NEW i \in DOMAIN log
    PROVE  /\ log[i].lines \in Movements /\ log[i].through \in Nat /\ log[i].read \in Nat
           /\ log[i].day \in Int /\ log[i].key \in PeriodIds \cup {None}
           /\ log[i].through # 0 => log[i].lines[Result] = 0
           /\ \A a \in Accounts : log[i].lines[a] \in Int
           /\ IsFiniteSet(DOMAIN log) /\ DOMAIN log = 1 .. Len(log) /\ Len(log) \in Nat
<1>1. log \in Seq(Voucher)
  BY DEF IInv, Types, TypeOK, Voucher
<1>2. log[i] \in Voucher
  BY <1>1
<1>3. log[i].through # 0 => log[i].lines[Result] = 0
  BY DEF BooksBalance, Balanced, Even
<1>4. DOMAIN log = 1 .. Len(log) /\ Len(log) \in Nat
  BY <1>1
<1>5. IsFiniteSet(DOMAIN log)
  BY <1>4, FS_Interval
<1> QED
  BY <1>2, <1>3, <1>4, <1>5 DEF Voucher, Movements

\* It is no negative amount, and the two sides differ by the net.
LEMMA PutFacts ==
    ASSUME IInv, BooksBalance, NEW i \in DOMAIN log, NEW a \in Accounts
    PROVE  /\ \A side : Put(i, a, side) \in Nat
           /\ Put(i, a, "debit") = log[i].lines[a] + Put(i, a, "credit")
<1>1. log[i].through \in Nat /\ log[i].lines[a] \in Int
  BY VoucherTypes
<1> QED
  BY <1>1 DEF Put

\* The fields of a line.
LEMMA LineFields ==
    \A i, a, side, amount :
        LET l == Line(i, a, side, amount) IN
        l.voucher = i /\ l.day = log[i].day /\ l.account = a /\ l.side = side /\ l.amount = amount
BY DEF Line

\* The lines of a voucher are what it puts on the sides of the accounts.
LEMMA LinesAre ==
    ASSUME IInv, BooksBalance, NEW i \in DOMAIN log
    PROVE  LinesOf(i) = {Line(i, as[1], as[2], Put(i, as[1], as[2])) :
                            as \in {bs \in Accounts \X Sides : Put(i, bs[1], bs[2]) # 0}}
<1> DEFINE net == log[i].lines
           through == log[i].through
           placed == {bs \in Accounts \X Sides : Put(i, bs[1], bs[2]) # 0}
           side(a) == IF net[a] > 0 THEN "debit" ELSE "credit"
           size(a) == IF net[a] > 0 THEN net[a] ELSE -net[a]
<1>1. /\ through \in Nat /\ (through # 0 => net[Result] = 0)
      /\ \A a \in Accounts : net[a] \in Int
  BY VoucherTypes
<1>2. Result \in Accounts /\ Sides = {"debit", "credit"}
  BY ClosingAccountsAssumption DEF Sides
<1>3. \A l : l \in LinesOf(i) <=>
          \/ \E a \in Accounts : net[a] # 0 /\ l = Line(i, a, side(a), size(a))
          \/ through # 0 /\ \E s \in Sides : l = Line(i, Result, s, through)
  BY DEF LinesOf
<1>4. ASSUME NEW a \in Accounts, net[a] # 0
      PROVE  <<a, side(a)>> \in placed /\ Put(i, a, side(a)) = size(a)
  <2>1. side(a) \in Sides /\ (a = Result => through = 0) /\ net[a] \in Int /\ through \in Nat
    BY <1>1, <1>2, <1>4
  <2>2. Put(i, a, side(a)) = size(a) /\ size(a) # 0
    BY <1>4, <2>1 DEF Put
  <2> QED
    BY <2>1, <2>2
<1>5. ASSUME NEW s \in Sides, through # 0
      PROVE  <<Result, s>> \in placed /\ Put(i, Result, s) = through
  <2>1. net[Result] = 0 /\ through \in Nat
    BY <1>1, <1>5
  <2>2. Put(i, Result, s) = through
    BY <2>1 DEF Put
  <2> QED
    BY <1>2, <1>5, <2>2
<1>6. ASSUME NEW a \in Accounts, NEW s \in Sides, Put(i, a, s) # 0
      PROVE  \/ net[a] # 0 /\ s = side(a) /\ Put(i, a, s) = size(a)
             \/ a = Result /\ through # 0 /\ Put(i, a, s) = through
  <2>1. net[a] \in Int /\ through \in Nat /\ (s = "debit" \/ s = "credit")
    BY <1>1, <1>2
  <2>2. CASE a = Result /\ through # 0
    BY <1>5, <2>2
  <2>3. CASE a # Result \/ through = 0
    BY <1>6, <2>1, <2>3 DEF Put
  <2> QED
    BY <2>2, <2>3
<1> HIDE DEF net, through, side, size
<1>7. ASSUME NEW l \in LinesOf(i)
      PROVE  \E as \in placed : l = Line(i, as[1], as[2], Put(i, as[1], as[2]))
  <2>1. CASE \E a \in Accounts : net[a] # 0 /\ l = Line(i, a, side(a), size(a))
    <3>1. PICK a \in Accounts : net[a] # 0 /\ l = Line(i, a, side(a), size(a))
      BY <2>1
    <3>2. <<a, side(a)>> \in placed /\ Put(i, a, side(a)) = size(a)
      BY <1>4, <3>1
    <3> QED
      BY <3>1, <3>2
  <2>2. CASE through # 0 /\ \E s \in Sides : l = Line(i, Result, s, through)
    <3>1. PICK s \in Sides : l = Line(i, Result, s, through)
      BY <2>2
    <3>2. <<Result, s>> \in placed /\ Put(i, Result, s) = through
      BY <1>5, <2>2
    <3> QED
      BY <3>1, <3>2
  <2> QED
    BY <1>3, <2>1, <2>2
<1>8. ASSUME NEW as \in placed
      PROVE  Line(i, as[1], as[2], Put(i, as[1], as[2])) \in LinesOf(i)
  <2>1. as[1] \in Accounts /\ as[2] \in Sides /\ Put(i, as[1], as[2]) # 0
    OBVIOUS
  <2> HIDE DEF placed
  <2>2. CASE net[as[1]] # 0 /\ as[2] = side(as[1]) /\ Put(i, as[1], as[2]) = size(as[1])
    BY <1>3, <2>1, <2>2
  <2>3. CASE as[1] = Result /\ through # 0 /\ Put(i, as[1], as[2]) = through
    BY <1>3, <2>1, <2>3
  <2> QED
    BY <1>6, <2>1, <2>2, <2>3
<1> HIDE DEF placed
<1>9. LinesOf(i) = {Line(i, as[1], as[2], Put(i, as[1], as[2])) : as \in placed}
  BY <1>7, <1>8
<1> QED
  BY <1>9 DEF placed

\* The lines of vouchers.
LinesFrom(I) == UNION {LinesOf(i) : i \in I}

\* What lines put on one side of an account is what their vouchers do.
LEMMA SideSum ==
    ASSUME IInv, BooksBalance, NEW I \in SUBSET DOMAIN log, NEW a \in Accounts, NEW side \in Sides
    PROVE  Total([l \in {k \in LinesFrom(I) : k.account = a /\ k.side = side} |-> l.amount])
             = Over(Puts(a, side), I)
<1> DEFINE S == {k \in LinesFrom(I) : k.account = a /\ k.side = side}
           amount == [l \in S |-> l.amount]
           moved == {i \in I : Put(i, a, side) # 0}
           at == [i \in moved |-> Line(i, a, side, Put(i, a, side))]
<1>1. \A i \in I : i \in DOMAIN log /\ Puts(a, side)[i] = Put(i, a, side) /\ Put(i, a, side) \in Int
  BY PutFacts DEF Puts
<1>2. IsFiniteSet(I) /\ IsFiniteSet(moved)
  <2>1. CASE I = {}
    BY <2>1, FS_EmptySet
  <2>2. CASE I # {}
    BY <2>2, VoucherTypes, FS_Subset
  <2> QED
    BY <2>1, <2>2
<1>3. \A i \in moved : at[i] \in S /\ amount[at[i]] = Put(i, a, side) /\ at[i].voucher = i
  <2> TAKE i \in moved
  <2>1. i \in I /\ i \in DOMAIN log /\ Put(i, a, side) # 0 /\ at[i] = Line(i, a, side, Put(i, a, side))
    BY <1>1
  <2>2. at[i] \in LinesOf(i)
    <3>1. <<a, side>> \in {bs \in Accounts \X Sides : Put(i, bs[1], bs[2]) # 0}
      BY <2>1
    <3> QED
      BY <2>1, <3>1, LinesAre
  <2>3. at[i].account = a /\ at[i].side = side /\ at[i].amount = Put(i, a, side) /\ at[i].voucher = i
    BY <2>1, LineFields
  <2>4. at[i] \in S
    BY <2>1, <2>2, <2>3 DEF LinesFrom
  <2> QED
    BY <2>3, <2>4
<1>4. \A l \in S : \E i \in moved : l = at[i]
  <2> TAKE l \in S
  <2>1. PICK i \in I : l \in LinesOf(i)
    BY DEF LinesFrom
  <2>2. PICK bs \in {cs \in Accounts \X Sides : Put(i, cs[1], cs[2]) # 0} :
           l = Line(i, bs[1], bs[2], Put(i, bs[1], bs[2]))
    BY <1>1, <2>1, LinesAre
  <2>3. bs[1] = a /\ bs[2] = side
    BY <2>2, LineFields
  <2> QED
    BY <2>2, <2>3
<1>5. S = {at[i] : i \in moved}
  BY <1>3, <1>4, ZenonT(60)
<1>6. \A i \in moved : Puts(a, side)[i] \in Int /\ amount[at[i]] = Puts(a, side)[i]
  BY <1>1, <1>3
<1>7. \A i, j \in moved : at[i] = at[j] => i = j
  BY <1>3
<1>8. moved \in SUBSET I /\ \A i \in I \ moved : Puts(a, side)[i] = 0
  BY <1>1
<1>9. Total(amount) = Over(amount, S)
  BY DEF Over
<1> HIDE DEF S, amount, moved, at
<1>10. Over(amount, S) = Over(Puts(a, side), moved)
  BY <1>2, <1>5, <1>6, <1>7, OverNamed
<1>11. Over(Puts(a, side), I) = Over(Puts(a, side), moved)
  BY <1>1, <1>2, <1>8, OverCounted
<1> QED
  BY <1>9, <1>10, <1>11 DEF amount, S

-----------------------------------------------------------------------------
(* Movements.                                                              *)

\* Any vouchers on file are finitely many.
LEMMA LogFinite ==
    ASSUME IInv, NEW I \in SUBSET DOMAIN log
    PROVE  IsFiniteSet(I)
<1>1. log \in Seq(Voucher)
  BY DEF IInv, Types, TypeOK, Voucher
<1>2. DOMAIN log = 1 .. Len(log) /\ Len(log) \in Nat
  BY <1>1
<1>3. IsFiniteSet(1 .. Len(log))
  BY <1>2, FS_Interval
<1> QED
  BY <1>2, <1>3, FS_Subset

\* What vouchers put on an account, side by side and net.
LEMMA NetOver ==
    ASSUME IInv, BooksBalance, NEW I \in SUBSET DOMAIN log, NEW a \in Accounts
    PROVE  /\ Over(Puts(a, "debit"), I) \in Nat /\ Over(Puts(a, "credit"), I) \in Nat
           /\ Over(On(log, a), I) \in Int
           /\ Over(Puts(a, "debit"), I) - Over(Puts(a, "credit"), I) = Over(On(log, a), I)
<1>1. IsFiniteSet(I)
  BY LogFinite
<1>2. \A i \in I : On(log, a)[i] \in Int
  BY VoucherTypes DEF On
<1>3. \A i \in I : /\ Puts(a, "debit")[i] \in Nat /\ Puts(a, "credit")[i] \in Nat
                   /\ Puts(a, "debit")[i] = On(log, a)[i] + Puts(a, "credit")[i]
  BY PutFacts DEF Puts, On
<1>4. Over(Puts(a, "debit"), I) = Over(On(log, a), I) + Over(Puts(a, "credit"), I)
  BY <1>1, <1>2, <1>3, OverPlus
<1>5. /\ Over(Puts(a, "debit"), I) \in Nat /\ Over(Puts(a, "credit"), I) \in Nat
      /\ Over(On(log, a), I) \in Int
  BY <1>1, <1>2, <1>3, OverNat, OverInt
<1> QED
  BY <1>4, <1>5

\* The vouchers of movements and those among them from before a day.
Read(I, X) == {i \in I : i \notin X}
Past(I, X, from) == {i \in Read(I, X) : from # Ever /\ log[i].day < from}
Present(I, X, from) == Read(I, X) \ Past(I, X, from)

\* The movements of the lines of vouchers, account by account: what the vouchers
\* read had put there, and nothing on an account that is left out.
LEMMA MovementsFacts ==
    ASSUME IInv, BooksBalance, NEW I \in SUBSET DOMAIN log, NEW from, NEW X
    PROVE  LET found == MovementsIn(LinesFrom(I), from, X) IN
           /\ DOMAIN found \in SUBSET Accounts
           /\ \A a \in Accounts \ DOMAIN found : \A i \in Read(I, X) : log[i].lines[a] = 0
           /\ \A a \in DOMAIN found : \A s \in Sides :
                 /\ found[a].opening[s] = Over(Puts(a, s), Past(I, X, from))
                 /\ found[a].period[s] = Over(Puts(a, s), Present(I, X, from))
<1> DEFINE lines == LinesFrom(I)
           read == {l \in lines : l.voucher \notin X}
           opening == {l \in read : from # Ever /\ l.day < from}
           on(S, a, side) == Total([l \in {k \in S : k.account = a /\ k.side = side} |-> l.amount])
           touched == {l.account : l \in read}
           found == MovementsIn(lines, from, X)
<1>1. \A i \in I : \A l \in LinesOf(i) : l.voucher = i /\ l.day = log[i].day /\ l.account \in Accounts
  <2> TAKE i \in I
  <2> TAKE l \in LinesOf(i)
  <2>1. PICK bs \in {cs \in Accounts \X Sides : Put(i, cs[1], cs[2]) # 0} :
           l = Line(i, bs[1], bs[2], Put(i, bs[1], bs[2]))
    BY LinesAre
  <2> QED
    BY <2>1, LineFields
<1>2. /\ read = LinesFrom(Read(I, X))
      /\ opening = LinesFrom(Past(I, X, from))
      /\ read \ opening = LinesFrom(Present(I, X, from))
  <2>1. read = LinesFrom(Read(I, X))
    BY <1>1 DEF LinesFrom, Read
  <2>2. opening = LinesFrom(Past(I, X, from))
    BY <1>1, <2>1 DEF LinesFrom, Past, Read
  <2>3. read \ opening = LinesFrom(Present(I, X, from))
    BY <1>1, <2>1, <2>2 DEF LinesFrom, Past, Present, Read
  <2> QED
    BY <2>1, <2>2, <2>3
<1>3. touched \in SUBSET Accounts
  BY <1>1 DEF LinesFrom
<1>4. /\ DOMAIN found = touched
      /\ \A a \in touched : \A s \in Sides :
            found[a].opening[s] = on(opening, a, s) /\ found[a].period[s] = on(read \ opening, a, s)
  BY DEF MovementsIn
<1>5. Past(I, X, from) \in SUBSET DOMAIN log /\ Present(I, X, from) \in SUBSET DOMAIN log
  BY DEF Past, Present, Read
<1>6. \A a \in touched : \A s \in Sides :
         /\ on(opening, a, s) = Over(Puts(a, s), Past(I, X, from))
         /\ on(read \ opening, a, s) = Over(Puts(a, s), Present(I, X, from))
  BY <1>2, <1>3, <1>5, SideSum
<1>7. \A a \in Accounts \ touched : \A i \in Read(I, X) : log[i].lines[a] = 0
  <2> SUFFICES ASSUME NEW a \in Accounts, NEW i \in Read(I, X), log[i].lines[a] # 0
               PROVE  a \in touched
    OBVIOUS
  <2>1. i \in DOMAIN log /\ log[i].lines[a] \in Int /\ log[i].through \in Nat
    BY VoucherTypes DEF Read
  <2>2. PICK s \in Sides : Put(i, a, s) # 0
    <3>1. "debit" \in Sides /\ "credit" \in Sides
      BY DEF Sides
    <3> QED
      BY <2>1, <3>1, PutFacts
  <2>3. <<a, s>> \in {cs \in Accounts \X Sides : Put(i, cs[1], cs[2]) # 0}
    BY <2>2
  <2>4. Line(i, a, s, Put(i, a, s)) \in LinesOf(i)
    BY <2>1, <2>3, LinesAre
  <2>5. Line(i, a, s, Put(i, a, s)) \in read
    BY <1>2, <2>4 DEF LinesFrom
  <2> QED
    BY <2>5, LineFields
<1> QED
  BY <1>3, <1>4, <1>6, <1>7

\* What accounts hold of vouchers is what the vouchers put on them.
LEMMA SumSwap ==
    ASSUME IInv, BooksBalance, NEW I \in SUBSET DOMAIN log, NEW A \in SUBSET Accounts
    PROVE  Over([a \in A |-> Over(On(log, a), I)], A) = Over([i \in I |-> Over(log[i].lines, A)], I)
<1> DEFINE held(J) == [a \in A |-> Over(On(log, a), J)]
           put == [i \in I |-> Over(log[i].lines, A)]
           Good == {J \in SUBSET I : Over(held(J), A) = Over(put, J)}
<1>0. IsFiniteSet(A) /\ IsFiniteSet(I)
  BY ChartAssumption, LogFinite, FS_Subset
<1>1. {} \in Good
  <2>1. \A a \in A : held({})[a] = 0
    BY OverEmpty
  <2>2. Over(held({}), A) = 0
    BY <1>0, <2>1, OverZero
  <2> QED
    BY <2>2, OverEmpty
<1>2. ASSUME NEW J \in SUBSET I, NEW i \in I \ J, J \in Good
      PROVE  J \cup {i} \in Good
  <2> DEFINE lines == log[i].lines
             K == J \cup {i}
  <2>1. /\ IsFiniteSet(J) /\ J \in SUBSET DOMAIN log /\ i \in DOMAIN log
        /\ K \in SUBSET I /\ K \in SUBSET DOMAIN log
    BY <1>0, FS_Subset
  <2>2. \A a \in A : lines[a] \in Int
    BY <2>1, VoucherTypes
  <2>3. \A a \in A : held(J)[a] \in Int /\ held(K)[a] = held(J)[a] + lines[a]
    <3> TAKE a \in A
    <3>1. \A j \in J \cup {i} : On(log, a)[j] \in Int
      BY <2>1, VoucherTypes DEF On
    <3>2. On(log, a)[i] = lines[a] /\ i \notin J
      BY <2>1 DEF On
    <3> HIDE DEF lines
    <3>3. Over(On(log, a), J \cup {i}) = Over(On(log, a), J) + lines[a]
      BY <2>1, <3>1, <3>2, OverAdd
    <3>4. Over(On(log, a), J) \in Int
      BY <2>1, <3>1, OverInt
    <3> QED
      BY <3>3, <3>4
  <2>4. Over(held(J), A) = Over(put, J)
    BY <1>2
  <2>5. put[i] = Over(lines, A)
    OBVIOUS
  <2>6. \A j \in J \cup {i} : put[j] \in Int
    <3> TAKE j \in J \cup {i}
    <3>1. j \in DOMAIN log /\ \A a \in A : log[j].lines[a] \in Int
      BY <2>1, VoucherTypes
    <3>2. Over(log[j].lines, A) \in Int
      BY <1>0, <3>1, OverInt
    <3> QED
      BY <3>2
  <2> DEFINE before == held(J)
             after == held(K)
  <2>7. \A a \in A : before[a] \in Int /\ lines[a] \in Int /\ after[a] = before[a] + lines[a]
    BY <2>2, <2>3
  <2>8. Over(before, A) = Over(put, J)
    BY <2>4
  <2> HIDE DEF before, after, put, lines
  <2>9. Over(after, A) = Over(before, A) + Over(lines, A)
    BY <1>0, <2>7, OverPlus
  <2>10. Over(put, J \cup {i}) = Over(put, J) + put[i]
    BY <2>1, <2>6, OverAdd
  <2>11. Over(after, A) = Over(put, K)
    BY <2>5, <2>8, <2>9, <2>10
  <2> QED
    BY <2>1, <2>11 DEF after
<1> HIDE DEF Good
<1>3. I \in Good
  BY <1>0, <1>1, <1>2, BySubsets
<1> QED
  BY <1>3 DEF Good

-----------------------------------------------------------------------------
(* The trial balance and the balance sheet.                                *)

\* What accounts hold of vouchers.
Held(I) == [a \in Accounts |-> Over(On(log, a), I)]

\* The vouchers dated up to a day.
UpTo(day) == {i \in DOMAIN log : log[i].day <= day}

\* Together the accounts hold nothing.
LEMMA ChartEven ==
    ASSUME IInv, BooksBalance, NEW I \in SUBSET DOMAIN log
    PROVE  Over(Held(I), Accounts) = 0
<1> DEFINE put == [i \in I |-> Over(log[i].lines, Accounts)]
<1>1. Over(Held(I), Accounts) = Over(put, I)
  BY SumSwap DEF Held
<1>2. \A i \in I : put[i] = 0
  BY DEF BooksBalance, Balanced
<1>3. IsFiniteSet(I)
  BY LogFinite
<1> HIDE DEF put
<1> QED
  BY <1>1, <1>2, <1>3, OverZero

\* Accounts that vouchers did not touch count for nothing.
LEMMA HeldTouched ==
    ASSUME IInv, BooksBalance, NEW I \in SUBSET DOMAIN log, NEW A \in SUBSET Accounts, NEW T \in SUBSET A,
           \A a \in A \ T : \A i \in I : log[i].lines[a] = 0
    PROVE  /\ IsFiniteSet(A) /\ IsFiniteSet(T) /\ \A a \in A : Held(I)[a] \in Int
           /\ Over(Held(I), A) = Over(Held(I), T)
<1>1. IsFiniteSet(A) /\ IsFiniteSet(T)
  BY ChartAssumption, FS_Subset
<1>2. \A a \in A : Held(I)[a] \in Int
  BY NetOver DEF Held
<1>3. \A a \in A \ T : Held(I)[a] = 0
  <2> TAKE a \in A \ T
  <2>1. \A i \in I : On(log, a)[i] = 0
    BY DEF On
  <2>2. Over(On(log, a), I) = 0
    BY <2>1, LogFinite, OverZero
  <2> QED
    BY <2>2 DEF Held
<1> QED
  BY <1>1, <1>2, <1>3, OverCounted

\* Two columns whose rows differ by what the accounts hold come to the same.
LEMMA ColumnsMeet ==
    ASSUME IInv, BooksBalance, NEW I \in SUBSET DOMAIN log, NEW T \in SUBSET Accounts,
           \A a \in Accounts \ T : \A i \in I : log[i].lines[a] = 0,
           NEW debit, NEW credit,
           \A a \in T : debit[a] \in Int /\ credit[a] \in Int /\ debit[a] - credit[a] = Held(I)[a]
    PROVE  Over(debit, T) = Over(credit, T)
<1>1. IsFiniteSet(T) /\ (\A a \in T : Held(I)[a] \in Int) /\ Over(Held(I), T) = 0
  BY HeldTouched, ChartEven
<1>2. \A a \in T : credit[a] \in Int /\ Held(I)[a] \in Int /\ debit[a] = credit[a] + Held(I)[a]
  BY <1>1
<1>3. Over(debit, T) = Over(credit, T) + Over(Held(I), T)
  BY <1>1, <1>2, OverPlus
<1>4. Over(credit, T) \in Int
  BY <1>1, <1>2, OverInt
<1> QED
  BY <1>1, <1>3, <1>4

\* A balance stands on one side and keeps its amount.
LEMMA NettedFacts ==
    ASSUME NEW sides, sides["debit"] \in Int, sides["credit"] \in Int
    PROVE  /\ Netted(sides)["debit"] \in Int /\ Netted(sides)["credit"] \in Int
           /\ Netted(sides)["debit"] - Netted(sides)["credit"] = sides["debit"] - sides["credit"]
<1> DEFINE net == sides["debit"] - sides["credit"]
<1>1. net \in Int
  OBVIOUS
<1>2. Netted(sides)["debit"] = (IF net < 0 THEN 0 ELSE net) /\ Netted(sides)["credit"] = (IF net < 0 THEN -net ELSE 0)
  BY DEF Netted
<1> HIDE DEF net
<1>3. Netted(sides)["debit"] \in Int /\ Netted(sides)["credit"] \in Int /\ Netted(sides)["debit"] - Netted(sides)["credit"] = net
  BY <1>1, <1>2
<1> QED
  BY <1>3 DEF net

\* What vouchers put on an account before and after a day they put on it.
LEMMA HeldParts ==
    ASSUME IInv, BooksBalance, NEW I \in SUBSET DOMAIN log, NEW X, NEW from, NEW a \in Accounts
    PROVE  /\ Read(I, X) \in SUBSET DOMAIN log
           /\ Past(I, X, from) \in SUBSET DOMAIN log /\ Present(I, X, from) \in SUBSET DOMAIN log
           /\ Held(Read(I, X))[a] = Held(Past(I, X, from))[a] + Held(Present(I, X, from))[a]
<1>1. /\ Read(I, X) \in SUBSET DOMAIN log
      /\ Past(I, X, from) \in SUBSET DOMAIN log /\ Present(I, X, from) \in SUBSET DOMAIN log
      /\ Past(I, X, from) \cup Present(I, X, from) = Read(I, X)
      /\ Past(I, X, from) \cap Present(I, X, from) = {}
  BY DEF Read, Past, Present
<1>2. \A i \in Past(I, X, from) \cup Present(I, X, from) : On(log, a)[i] \in Int
  BY <1>1, VoucherTypes DEF On
<1>3. IsFiniteSet(Past(I, X, from)) /\ IsFiniteSet(Present(I, X, from))
  BY <1>1, LogFinite
<1>4. Over(On(log, a), Past(I, X, from) \cup Present(I, X, from))
        = Over(On(log, a), Past(I, X, from)) + Over(On(log, a), Present(I, X, from))
  BY <1>1, <1>2, <1>3, OverSplit
<1> QED
  BY <1>1, <1>4 DEF Held

\* The debits of a trial balance are its credits, column by column.
LEMMA TrialHolds ==
    ASSUME IInv, BooksBalance, NEW p
    PROVE  TrialBalanced(TrialBalance(p))
<1> DEFINE I == UpTo(p.last)
           found == MovementsIn(LinesFrom(I), p.first, {})
           T == DOMAIN found
           row == [a \in T |-> TrialBalanceRow(found[a])]
           past == Past(I, {}, p.first)
           present == Present(I, {}, p.first)
           t == TrialBalance(p)
           column(c) == [s \in Sides |-> Total([a \in T |-> row[a][c][s]])]
<1>1. I \in SUBSET DOMAIN log /\ Read(I, {}) = I /\ Lines(Ever, p.last) = LinesFrom(I)
  BY DEF UpTo, Read, Lines, LinesFrom
<1>2. t.opening = column("opening") /\ t.period = column("period") /\ t.closing = column("closing")
  BY <1>1 DEF TrialBalance
<1>3. /\ T \in SUBSET Accounts
      /\ \A a \in Accounts \ T : \A i \in I : log[i].lines[a] = 0
      /\ \A a \in T : \A s \in Sides :
            found[a].opening[s] = Over(Puts(a, s), past) /\ found[a].period[s] = Over(Puts(a, s), present)
  BY <1>1, MovementsFacts
<1>4. "debit" \in Sides /\ "credit" \in Sides
  BY DEF Sides
<1>5. past \in SUBSET I /\ present \in SUBSET I
  BY <1>1 DEF Past, Present
<1> HIDE DEF found, I, past, present
<1>6. \A a \in T :
         /\ row[a]["opening"] = Netted(found[a].opening) /\ row[a]["period"] = found[a].period
         /\ row[a]["closing"] = Netted([s \in Sides |-> found[a].opening[s] + found[a].period[s]])
  BY DEF TrialBalanceRow
<1>7. \A a \in T :
         /\ found[a].opening["debit"] \in Int /\ found[a].opening["credit"] \in Int
         /\ found[a].period["debit"] \in Int /\ found[a].period["credit"] \in Int
         /\ found[a].opening["debit"] - found[a].opening["credit"] = Held(past)[a]
         /\ found[a].period["debit"] - found[a].period["credit"] = Held(present)[a]
         /\ Held(past)[a] \in Int /\ Held(present)[a] \in Int
         /\ Held(I)[a] = Held(past)[a] + Held(present)[a]
  <2> TAKE a \in T
  <2>1. a \in Accounts /\ past \in SUBSET DOMAIN log /\ present \in SUBSET DOMAIN log
    BY <1>1, <1>3, <1>5
  <2>2. /\ found[a].opening["debit"] = Over(Puts(a, "debit"), past)
        /\ found[a].opening["credit"] = Over(Puts(a, "credit"), past)
        /\ found[a].period["debit"] = Over(Puts(a, "debit"), present)
        /\ found[a].period["credit"] = Over(Puts(a, "credit"), present)
    BY <1>3, <1>4
  <2>3. Held(past)[a] = Over(On(log, a), past) /\ Held(present)[a] = Over(On(log, a), present)
    BY <2>1 DEF Held
  <2>4. Held(I)[a] = Held(past)[a] + Held(present)[a]
    BY <1>1, <2>1, HeldParts DEF past, present
  <2> QED
    BY <2>1, <2>2, <2>3, <2>4, NetOver
<1>8. ASSUME NEW c \in {"opening", "period", "closing"}
      PROVE  column(c)["debit"] = column(c)["credit"]
  <2> DEFINE debit == [a \in T |-> row[a][c]["debit"]]
             credit == [a \in T |-> row[a][c]["credit"]]
             J == IF c = "opening" THEN past ELSE IF c = "period" THEN present ELSE I
  <2>1. J \in SUBSET DOMAIN log /\ \A a \in Accounts \ T : \A i \in J : log[i].lines[a] = 0
    BY <1>1, <1>3, <1>5
  <2>2. ASSUME NEW a \in T
        PROVE  debit[a] \in Int /\ credit[a] \in Int /\ debit[a] - credit[a] = Held(J)[a]
    <3>1. CASE c = "opening"
      <4> DEFINE before == found[a].opening
      <4>1. debit[a] = Netted(before)["debit"] /\ credit[a] = Netted(before)["credit"] /\ J = past
        BY <1>6, <3>1
      <4>2. /\ before["debit"] \in Int /\ before["credit"] \in Int
            /\ before["debit"] - before["credit"] = Held(past)[a]
        BY <1>7
      <4> HIDE DEF before, J, debit, credit
      <4> QED
        BY <4>1, <4>2, NettedFacts
    <3>2. CASE c = "period"
      BY <1>6, <1>7, <3>2
    <3>3. CASE c = "closing"
      <4> DEFINE closed == [s \in Sides |-> found[a].opening[s] + found[a].period[s]]
      <4>1. /\ closed["debit"] = found[a].opening["debit"] + found[a].period["debit"]
            /\ closed["credit"] = found[a].opening["credit"] + found[a].period["credit"]
        BY <1>4
      <4>2. debit[a] = Netted(closed)["debit"] /\ credit[a] = Netted(closed)["credit"]
        BY <1>6, <3>3
      <4> HIDE DEF closed
      <4>3. /\ closed["debit"] \in Int /\ closed["credit"] \in Int
            /\ closed["debit"] - closed["credit"] = Held(I)[a]
        BY <1>7, <4>1
      <4>4. J = I
        BY <3>3
      <4> HIDE DEF J, debit, credit
      <4> QED
        BY <4>2, <4>3, <4>4, NettedFacts
    <3> QED
      BY <3>1, <3>2, <3>3
  <2>3. Total(debit) = Over(debit, T) /\ Total(credit) = Over(credit, T)
    BY DEF Over
  <2>4. column(c)["debit"] = Total(debit) /\ column(c)["credit"] = Total(credit)
    BY <1>4
  <2> HIDE DEF debit, credit, J, T
  <2>5. Over(debit, T) = Over(credit, T)
    BY <1>3, <2>1, <2>2, ColumnsMeet
  <2> QED
    BY <2>3, <2>4, <2>5
<1> QED
  BY <1>2, <1>8 DEF TrialBalanced

\* The accounts of some types.
Typed(types) == {a \in Accounts : AccountType[a] \in types}

\* A sheet adds up what the accounts of each type hold of everything up to the
\* end of the period.
LEMMA SheetFacts ==
    ASSUME IInv, BooksBalance, NEW p
    PROVE  LET sheet == BalanceSheet(p)
               total(types) == Over(Held(UpTo(p.last)), Typed(types))
           IN  /\ sheet.assets = total({"asset"}) /\ sheet.liabilities = -total({"liability"})
               /\ sheet.result = -total({"revenue", "expense"})
               /\ sheet.equity = sheet.result - total({"equity"})
<1> DEFINE I == UpTo(p.last)
           found == MovementsIn(LinesFrom(I), Ever, {})
           T == DOMAIN found
           standing(a) == found[a].period["debit"] - found[a].period["credit"]
           section(types) == {a \in T : AccountType[a] \in types}
           total(types) == Total([a \in section(types) |-> standing(a)])
<1>1. /\ I \in SUBSET DOMAIN log /\ Read(I, {}) = I /\ Past(I, {}, Ever) = {} /\ Present(I, {}, Ever) = I
      /\ Lines(Ever, p.last) = LinesFrom(I)
  BY DEF UpTo, Read, Past, Present, Lines, LinesFrom
<1>2. /\ T \in SUBSET Accounts
      /\ \A a \in Accounts \ T : \A i \in I : log[i].lines[a] = 0
      /\ \A a \in T : \A s \in Sides : found[a].period[s] = Over(Puts(a, s), I)
  BY <1>1, MovementsFacts
<1>3. /\ BalanceSheet(p).assets = total({"asset"}) /\ BalanceSheet(p).liabilities = -total({"liability"})
      /\ BalanceSheet(p).result = -total({"revenue", "expense"})
      /\ BalanceSheet(p).equity = BalanceSheet(p).result - total({"equity"})
  BY <1>1 DEF BalanceSheet
<1>4. \A a \in T : standing(a) = Held(I)[a]
  <2> TAKE a \in T
  <2>1. a \in Accounts /\ found[a].period["debit"] = Over(Puts(a, "debit"), I)
                       /\ found[a].period["credit"] = Over(Puts(a, "credit"), I)
    BY <1>2 DEF Sides
  <2> QED
    BY <1>1, <2>1, NetOver DEF Held
<1>5. ASSUME NEW types PROVE total(types) = Over(Held(I), Typed(types))
  <2>1. total(types) = Over(Held(I), section(types))
    <3>1. [a \in section(types) |-> standing(a)] = [a \in section(types) |-> Held(I)[a]]
      BY <1>4
    <3> HIDE DEF standing
    <3> QED
      BY <3>1 DEF Over
  <2>2. /\ Typed(types) \in SUBSET Accounts /\ section(types) \in SUBSET Typed(types)
        /\ \A a \in Typed(types) \ section(types) : \A i \in I : log[i].lines[a] = 0
    BY <1>2 DEF Typed
  <2> HIDE DEF I, section, total
  <2>3. Over(Held(I), Typed(types)) = Over(Held(I), section(types))
    BY <1>1, <2>2, HeldTouched
  <2> QED
    BY <2>1, <2>3
<1> HIDE DEF total, I
<1> QED
  BY <1>3, <1>5 DEF I

\* The types divide the chart.
LEMMA TypedParts ==
    /\ Accounts = Typed({"asset"}) \cup (Typed({"liability"}) \cup (Typed({"equity"}) \cup Typed({"revenue", "expense"})))
    /\ Typed({"asset"}) \cap (Typed({"liability"}) \cup (Typed({"equity"}) \cup Typed({"revenue", "expense"}))) = {}
    /\ Typed({"liability"}) \cap (Typed({"equity"}) \cup Typed({"revenue", "expense"})) = {}
    /\ Typed({"equity"}) \cap Typed({"revenue", "expense"}) = {}
    /\ \A types : Typed(types) \in SUBSET Accounts /\ IsFiniteSet(Typed(types))
    /\ Typed({"revenue", "expense"}) = ProfitAndLoss
<1>1. \A a \in Accounts : AccountType[a] \in {"asset", "liability", "equity", "revenue", "expense"}
  BY AccountTypeAssumption
<1>2. \A types : Typed(types) \in SUBSET Accounts
  BY DEF Typed
<1>3. \A types : IsFiniteSet(Typed(types))
  BY <1>2, ChartAssumption, FS_Subset
<1>4. \A types, others : types \cap others = {} => Typed(types) \cap Typed(others) = {}
  BY DEF Typed
<1>5. Accounts = Typed({"asset"}) \cup (Typed({"liability"}) \cup (Typed({"equity"}) \cup Typed({"revenue", "expense"})))
  BY <1>1 DEF Typed
<1>6. /\ Typed({"asset"}) \cap Typed({"liability"}) = {}
      /\ Typed({"asset"}) \cap Typed({"equity"}) = {}
      /\ Typed({"asset"}) \cap Typed({"revenue", "expense"}) = {}
      /\ Typed({"liability"}) \cap Typed({"equity"}) = {}
      /\ Typed({"liability"}) \cap Typed({"revenue", "expense"}) = {}
      /\ Typed({"equity"}) \cap Typed({"revenue", "expense"}) = {}
  BY <1>4
<1>7. Typed({"revenue", "expense"}) = ProfitAndLoss
  BY DEF Typed, ProfitAndLoss
<1> QED
  BY <1>2, <1>3, <1>5, <1>6, <1>7

\* A balance sheet balances.
LEMMA SheetHolds ==
    ASSUME IInv, BooksBalance, NEW p
    PROVE  SheetBalanced(BalanceSheet(p))
<1> DEFINE f == Held(UpTo(p.last))
           A == Typed({"asset"})
           L == Typed({"liability"})
           E == Typed({"equity"})
           R == Typed({"revenue", "expense"})
<1>1. UpTo(p.last) \in SUBSET DOMAIN log
  BY DEF UpTo
<1>2. \A a \in Accounts : f[a] \in Int
  BY <1>1, NetOver DEF Held
<1>3. Over(f, Accounts) = 0
  BY <1>1, ChartEven
<1>4. /\ BalanceSheet(p).assets = Over(f, A) /\ BalanceSheet(p).liabilities = -Over(f, L)
      /\ BalanceSheet(p).result = -Over(f, R)
      /\ BalanceSheet(p).equity = BalanceSheet(p).result - Over(f, E)
  BY SheetFacts
<1>5. /\ Accounts = A \cup (L \cup (E \cup R)) /\ A \cap (L \cup (E \cup R)) = {}
      /\ L \cap (E \cup R) = {} /\ E \cap R = {}
      /\ IsFiniteSet(A) /\ IsFiniteSet(L) /\ IsFiniteSet(E) /\ IsFiniteSet(R)
  BY TypedParts
<1> HIDE DEF f, A, L, E, R
<1>6. IsFiniteSet(E \cup R) /\ IsFiniteSet(L \cup (E \cup R))
  BY <1>5, FS_Union
<1>7. /\ \A a \in A : f[a] \in Int
      /\ \A a \in L : f[a] \in Int
      /\ \A a \in E : f[a] \in Int
      /\ \A a \in R : f[a] \in Int
  BY <1>2, <1>5
<1>8. Over(f, E \cup R) = Over(f, E) + Over(f, R)
  BY <1>5, <1>7, OverSplit
<1>9. Over(f, L \cup (E \cup R)) = Over(f, L) + Over(f, E \cup R)
  BY <1>5, <1>6, <1>7, OverSplit
<1>10. Over(f, A \cup (L \cup (E \cup R))) = Over(f, A) + Over(f, L \cup (E \cup R))
  BY <1>5, <1>6, <1>7, OverSplit
<1>11. Over(f, A) \in Int /\ Over(f, L) \in Int /\ Over(f, E) \in Int /\ Over(f, R) \in Int
  BY <1>5, <1>7, OverInt
<1>12. Over(f, A) + Over(f, L) + Over(f, E) + Over(f, R) = 0
  <2>1. Over(f, A \cup (L \cup (E \cup R))) = 0
    BY <1>3, <1>5
  <2> QED
    BY <1>8, <1>9, <1>10, <1>11, <2>1
<1> QED
  BY <1>4, <1>11, <1>12 DEF SheetBalanced

\* A period has a first and a last day.
LEMMA PeriodDays ==
    ASSUME NEW p \in Period
    PROVE  p.first \in Int /\ p.last \in Int /\ (ValidPeriod(p) => p.first <= p.last)
<1>1. p.first \in Int /\ p.last \in Int
  BY DEF Period
<1>2. ValidPeriod(p) => p.first <= p.last
  BY Zenon DEF ValidPeriod
<1> QED
  BY <1>1, <1>2

\* A day belongs to one period, and periods that begin before another's end do
\* not end after it.
LEMMA PeriodsApart ==
    ASSUME IInv, NEW p \in periods, NEW q \in periods, NEW day \in Int, Covers(q, day)
    PROVE  /\ Covers(p, day) => p = q
           /\ day <= p.last => q.last <= p.last
           /\ Covers(q, q.last) /\ q.first \in Int /\ q.last \in Int /\ q.id \in PeriodIds
<1>1. p \in Period /\ q \in Period /\ ValidPeriod(p) /\ ValidPeriod(q) /\ q.id \in PeriodIds
  BY OpeningAssumption DEF IInv, Types, TypeOK, PeriodIds
<1>2. p # q => p.last < q.first \/ q.last < p.first
  BY DEF IInv, Types, TypeOK, Sequence
<1>3. /\ p.first \in Int /\ p.last \in Int /\ q.first \in Int /\ q.last \in Int
      /\ p.first <= p.last /\ q.first <= q.last
  BY <1>1, PeriodDays
<1> QED
  BY <1>1, <1>2, <1>3 DEF Covers

\* Once every entry up to a day has been carried, nothing stands as result.
LEMMA ResultHolds ==
    ASSUME IInv, BooksBalance, NEW p \in periods,
           \A i \in DOMAIN log : log[i].key = None /\ log[i].day <= p.last =>
              \E q \in periods : Covers(q, log[i].day) /\ Closings(q.id) # {} /\ i <= Since(q.id)
    PROVE  BalanceSheet(p).result = 0
<1> DEFINE I == UpTo(p.last)
<1>1. I \in SUBSET DOMAIN log /\ IsFiniteSet(I)
  BY LogFinite DEF UpTo
<1> DEFINE Done(i, q) == /\ Covers(q, log[i].day) /\ Closings(q.id) # {}
                         /\ log[i].key = None => i <= Since(q.id)
<1>2. \A i \in I : \E q \in periods : Done(i, q)
  <2> TAKE i \in I
  <2>1. i \in DOMAIN log /\ log[i].day <= p.last
    BY DEF UpTo
  <2>2. CASE log[i].key = None
    BY <2>1, <2>2
  <2>3. CASE log[i].key # None
    <3>1. PICK q \in periods : q.id = log[i].key /\ q.last = log[i].day
      BY <2>1, <2>3 DEF IInv, ClosingsStand
    <3>2. q \in Period /\ ValidPeriod(q)
      BY OpeningAssumption DEF IInv, Types, TypeOK
    <3>3. Covers(q, log[i].day)
      BY <3>1, <3>2, PeriodDays DEF Covers
    <3>4. i \in Closings(q.id)
      BY <2>1, <3>1 DEF Closings
    <3> QED
      BY <2>3, <3>3, <3>4
  <2> QED
    BY <2>2, <2>3
<1>3. ASSUME NEW a \in ProfitAndLoss
      PROVE  Over(On(log, a), I) = 0
  <2> DEFINE f == On(log, a)
             k == [i \in I |-> CHOOSE q \in periods : Covers(q, log[i].day)]
             K == {k[i] : i \in I}
             part == [q \in K |-> {i \in I : k[i] = q}]
             g == [q \in K |-> Over(f, part[q])]
  <2>0. a \in Accounts
    BY DEF ProfitAndLoss
  <2>1. \A i \in I : f[i] \in Int
    BY <1>1, <2>0, VoucherTypes DEF On
  <2>2. \A i \in I : k[i] \in periods /\ Covers(k[i], log[i].day) /\ k[i] \in K
    <3> TAKE i \in I
    <3>1. \E q \in periods : Covers(q, log[i].day)
      BY <1>2
    <3>2. k[i] = CHOOSE q \in periods : Covers(q, log[i].day)
      OBVIOUS
    <3> QED
      BY <3>1, <3>2
  <2>3. IsFiniteSet(K)
    <3> HIDE DEF k
    <3> QED BY <1>1, ImageFinite
  <2>4. ASSUME NEW q \in K PROVE Over(f, {i \in I : k[i] = q}) = 0
    <3>1. PICK j \in I : q = k[j]
      OBVIOUS
    <3>2. j \in DOMAIN log /\ log[j].day \in Int /\ log[j].day <= p.last
      BY <1>1, VoucherTypes DEF UpTo
    <3>3. q \in periods /\ Covers(q, log[j].day) /\ q.last \in Int /\ q.last <= p.last
      BY <2>2, <3>1, <3>2, PeriodsApart
    <3>4. Closings(q.id) # {}
      <4>1. PICK r \in periods : Done(j, r)
        BY <1>2
      <4>2. r = q
        BY <3>2, <3>3, <4>1, PeriodsApart
      <4> QED
        BY <4>1, <4>2
    <3>5. {i \in I : k[i] = q} = Dated(log, q, DOMAIN log)
      <4>1. ASSUME NEW i \in I, k[i] = q PROVE i \in Dated(log, q, DOMAIN log)
        BY <1>1, <2>2, <4>1 DEF Dated
      <4>2. ASSUME NEW i \in Dated(log, q, DOMAIN log) PROVE i \in I /\ k[i] = q
        <5>1. i \in DOMAIN log /\ Covers(q, log[i].day) /\ log[i].day \in Int
          BY VoucherTypes DEF Dated
        <5>2. p.last \in Int
          BY OpeningAssumption DEF IInv, Types, TypeOK, Period
        <5>3. i \in I
          BY <3>3, <5>1, <5>2 DEF UpTo, Covers
        <5>4. k[i] \in periods /\ Covers(k[i], log[i].day)
          BY <2>2, <5>3
        <5>5. k[i] = q
          BY <3>3, <5>1, <5>4, PeriodsApart
        <5> QED
          BY <5>3, <5>5
      <4> QED
        BY <4>1, <4>2 DEF Dated
    <3> DEFINE late == {i \in DOMAIN log : log[i].key = None /\ i > Since(q.id)}
    <3>6. Moved(q, DOMAIN log, a) = Moved(q, late, a)
      BY <3>3, <3>4, OnlyLateHolds DEF OnlyLateEntriesStand
    <3>7. Moved(q, DOMAIN log, a) = Over(f, Dated(log, q, DOMAIN log)) /\ Moved(q, late, a) = Over(f, Dated(log, q, late))
      BY MovedOver DEF Movement
    <3>8. ASSUME NEW i \in Dated(log, q, late) PROVE FALSE
      <4>1. i \in Dated(log, q, DOMAIN log) /\ i \in DOMAIN log /\ log[i].key = None /\ i > Since(q.id)
        BY DEF Dated
      <4>2. i \in I
        BY <3>5, <4>1
      <4>3. PICK r \in periods : Done(i, r)
        BY <1>2, <4>2
      <4>4. r = q
        BY <3>3, <4>1, <4>3, PeriodsApart, VoucherTypes DEF Dated
      <4>5. PICK c \in DOMAIN log : log[c].key = q.id
        BY <3>4 DEF Closings
      <4>6. q.id \in PeriodIds /\ Closings(q.id) = {c}
        BY <3>2, <3>3, <4>5, PeriodsApart, OneClosing
      <4>7. Since(q.id) \in Nat /\ i \in Nat
        BY <4>1, <4>5, <4>6, VoucherTypes DEF Since
      <4> QED
        BY <4>1, <4>3, <4>4, <4>7
    <3>9. Dated(log, q, late) = {}
      BY <3>8
    <3> HIDE DEF f, late
    <3> QED
      BY <3>5, <3>6, <3>7, <3>9, OverEmpty
  <2>5. \A q \in K : /\ part[q] \in SUBSET I /\ \A i \in I : i \in part[q] <=> k[i] = q
                    /\ g[q] = Over(f, part[q]) /\ g[q] = 0
    BY <2>4
  <2>6. \A i \in I : k[i] \in K
    BY <2>2
  <2> HIDE DEF f, k, K, part, g, I
  <2>7. Over(g, K) = Over(f, I)
    BY <1>1, <2>1, <2>3, <2>5, <2>6, OverParts
  <2>8. Over(g, K) = 0
    BY <2>3, <2>5, OverZero
  <2> QED
    BY <2>7, <2>8 DEF f
<1>4. \A a \in ProfitAndLoss : Held(I)[a] = 0
  BY <1>3 DEF Held, ProfitAndLoss
<1>5. Over(Held(I), ProfitAndLoss) = 0
  BY <1>4, ChartParts, OverZero
<1> QED
  BY <1>5, SheetFacts, TypedParts

-----------------------------------------------------------------------------
(* Profit and loss.                                                        *)

\* What each voucher put on the profit and loss accounts, and what vouchers did.
Earning == [i \in DOMAIN log |-> Over(log[i].lines, ProfitAndLoss)]
Spent(I) == Over(Earning, I)

\* The profit of vouchers, voucher by voucher and account by account.
LEMMA SpentFacts ==
    ASSUME IInv, BooksBalance, NEW I \in SUBSET DOMAIN log
    PROVE  /\ Spent(I) \in Int
           /\ ProfitOf(I) = -Spent(I)
           /\ Over(Held(I), ProfitAndLoss) = Spent(I)
<1> DEFINE g == [ia \in I \X ProfitAndLoss |-> log[ia[1]].lines[ia[2]]]
           S == I \X ProfitAndLoss
           put == [i \in I |-> Over(log[i].lines, ProfitAndLoss)]
<1>1. IsFiniteSet(I) /\ IsFiniteSet(ProfitAndLoss) /\ ProfitAndLoss \in SUBSET Accounts
  BY LogFinite, ChartParts DEF ProfitAndLoss
<1>2. \A i \in I : i \in DOMAIN log /\ \A a \in ProfitAndLoss : log[i].lines[a] \in Int
  BY <1>1, VoucherTypes
<1>3. \A i \in I : Earning[i] = put[i] /\ put[i] \in Int
  <2> TAKE i \in I
  <2>1. Over(log[i].lines, ProfitAndLoss) \in Int
    BY <1>1, <1>2, OverInt
  <2> QED
    BY <1>2, <2>1 DEF Earning
<1>4. Spent(I) = Over(put, I)
  <2> HIDE DEF put
  <2> QED
    BY <1>3, OverSame DEF Spent, Alike
<1>5. Spent(I) \in Int
  <2> HIDE DEF put
  <2> QED
    BY <1>1, <1>3, <1>4, OverInt
<1>6. Over(Held(I), ProfitAndLoss) = Over(put, I)
  <2> DEFINE held == [a \in ProfitAndLoss |-> Over(On(log, a), I)]
  <2>1. Over(held, ProfitAndLoss) = Over(put, I)
    BY <1>1, SumSwap
  <2>2. Alike(Held(I), held, ProfitAndLoss)
    BY <1>1 DEF Alike, Held
  <2> HIDE DEF held, put
  <2>3. Over(Held(I), ProfitAndLoss) = Over(held, ProfitAndLoss)
    BY <2>2, OverSame
  <2> QED
    BY <2>1, <2>3
<1>7. Over(g, S) = Over(put, I)
  <2> DEFINE row == [i \in I |-> log[i].lines]
  <2>1. \A i \in I : \A a \in ProfitAndLoss : g[<<i, a>>] = row[i][a] /\ row[i][a] \in Int
    BY <1>2
  <2>2. \A i \in I : put[i] = Over(row[i], ProfitAndLoss)
    OBVIOUS
  <2>3. IsFiniteSet(I) /\ IsFiniteSet(ProfitAndLoss)
    BY <1>1
  <2> HIDE DEF g, put, row
  <2>4. ASSUME NEW f, NEW e, \A i \in I : \A a \in ProfitAndLoss : f[<<i, a>>] = row[i][a] /\ row[i][a] \in Int,
               \A i \in I : e[i] = Over(row[i], ProfitAndLoss)
        PROVE  Over(f, I \X ProfitAndLoss) = Over(e, I)
    BY ONLY <2>3, <2>4, OverPairs, SMTT(30)
  <2> QED
    BY <2>1, <2>2, <2>4, ZenonT(30)
<1>8. ProfitOf(I) = -Over(g, S)
  <2>1. g = [ia \in S |-> g[ia]] /\ ProfitOf(I) = -Total(g)
    BY DEF ProfitOf
  <2> HIDE DEF g, S
  <2> QED
    BY <2>1 DEF Over
<1> HIDE DEF g, S, put
<1> QED
  BY <1>4, <1>5, <1>6, <1>7, <1>8

\* Vouchers apart add up.
LEMMA SpentSplit ==
    ASSUME IInv, BooksBalance, NEW I \in SUBSET DOMAIN log, NEW J \in SUBSET DOMAIN log, I \cap J = {}
    PROVE  /\ Spent(I) \in Int /\ Spent(J) \in Int
           /\ Spent(I \cup J) = Spent(I) + Spent(J)
<1>1. IsFiniteSet(I) /\ IsFiniteSet(J)
  BY LogFinite
<1>2. \A i \in I \cup J : Earning[i] \in Int
  <2> TAKE i \in I \cup J
  <2>1. i \in DOMAIN log /\ \A a \in ProfitAndLoss : log[i].lines[a] \in Int
    BY VoucherTypes DEF ProfitAndLoss
  <2>2. Over(log[i].lines, ProfitAndLoss) \in Int
    BY <2>1, ChartParts, OverInt
  <2> QED
    BY <2>1, <2>2 DEF Earning
<1>3. Over(Earning, I \cup J) = Over(Earning, I) + Over(Earning, J)
  BY <1>1, <1>2, OverSplit
<1> QED
  BY <1>3, SpentFacts DEF Spent

\* The report leaves out what it takes for closing entries, and nets the rest.
LEMMA ReportNets ==
    ASSUME IInv, BooksBalance, NEW p \in periods
    PROVE  ProfitAndLossReport(p).net = -Spent({i \in Dated(log, p, DOMAIN log) : ~LeftOut(i)})
<1> DEFINE I == Dated(log, p, DOMAIN log)
           K == {i \in I : ~LeftOut(i)}
           lines == Lines(p.first, p.last)
           excluded == ClosingVouchers(lines)
           found == MovementsIn(lines, p.first, excluded)
           T == DOMAIN found
           section(type) == {b \in T : AccountType[b] = type}
           rows(type) == [a \in section(type) |-> Earned(found[a], type)]
<1>0. p \in Period /\ p.first \in Int /\ p.first # Ever
  BY OpeningAssumption, PeriodDays, NoneAssumption DEF IInv, Types, TypeOK, Ever
<1>1. I \in SUBSET DOMAIN log /\ K \in SUBSET DOMAIN log /\ lines = LinesFrom(I)
  BY <1>0 DEF Dated, Lines, LinesFrom, Covers
<1>2. ASSUME NEW i \in I PROVE i \in excluded <=> LeftOut(i)
  <2>1. i \in DOMAIN log /\ log[i].lines[Result] \in Int /\ log[i].through \in Nat /\ Result \in Accounts
    BY <1>1, VoucherTypes, ClosingAccountsAssumption
  <2>2. LeftOut(i) <=> \E s \in Sides : Put(i, Result, s) # 0
    <3>1. Sides = {"debit", "credit"}
      BY DEF Sides
    <3>2. /\ Put(i, Result, "debit") = log[i].through + (IF log[i].lines[Result] > 0 THEN log[i].lines[Result] ELSE 0)
          /\ Put(i, Result, "credit") = log[i].through + (IF log[i].lines[Result] < 0 THEN -log[i].lines[Result] ELSE 0)
      BY DEF Put
    <3> QED
      BY <2>1, <3>1, <3>2 DEF LeftOut
  <2>3. ASSUME NEW s \in Sides, Put(i, Result, s) # 0 PROVE i \in excluded
    <3>1. <<Result, s>> \in {cs \in Accounts \X Sides : Put(i, cs[1], cs[2]) # 0}
      BY <2>1, <2>3
    <3>2. Line(i, Result, s, Put(i, Result, s)) \in LinesOf(i)
      BY <2>1, <3>1, LinesAre
    <3>3. Line(i, Result, s, Put(i, Result, s)) \in lines
      BY <1>1, <3>2 DEF LinesFrom
    <3> HIDE DEF lines
    <3> QED
      BY <3>3, LineFields DEF ClosingVouchers
  <2>4. ASSUME i \in excluded PROVE \E s \in Sides : Put(i, Result, s) # 0
    <3>1. PICK l \in lines : l.voucher = i /\ l.account = Result
      BY <2>4 DEF ClosingVouchers
    <3>2. PICK j \in I : l \in LinesOf(j)
      BY <1>1, <3>1 DEF LinesFrom
    <3>3. PICK bs \in {cs \in Accounts \X Sides : Put(j, cs[1], cs[2]) # 0} :
             l = Line(j, bs[1], bs[2], Put(j, bs[1], bs[2]))
      BY <1>1, <3>2, LinesAre
    <3>4. j = i /\ bs[1] = Result
      BY <3>1, <3>3, LineFields
    <3> QED
      BY <3>3, <3>4
  <2> QED
    BY <2>2, <2>3, <2>4
<1>3. Read(I, excluded) = K /\ Past(I, excluded, p.first) = {} /\ Present(I, excluded, p.first) = K
  <2>1. Read(I, excluded) = K
    BY <1>2 DEF Read
  <2>2. \A i \in I : ~(log[i].day < p.first)
    <3> TAKE i \in I
    <3>1. log[i].day \in Int /\ p.first <= log[i].day
      BY VoucherTypes DEF Dated, Covers
    <3> QED
      BY <1>0, <3>1
  <2>3. K \in SUBSET I
    OBVIOUS
  <2> HIDE DEF K, I
  <2> QED
    BY <2>1, <2>2, <2>3 DEF Past, Present
<1>4. /\ T \in SUBSET Accounts
      /\ \A a \in Accounts \ T : \A i \in K : log[i].lines[a] = 0
      /\ \A a \in T : \A s \in Sides : found[a].period[s] = Over(Puts(a, s), K)
  <2> HIDE DEF K, I, excluded
  <2> QED
    BY <1>1, <1>3, MovementsFacts
<1>5. ProfitAndLossReport(p).net = Total(rows("revenue")) - Total(rows("expense"))
  BY DEF ProfitAndLossReport
<1> HIDE DEF found, K, I, excluded, lines
<1>6. ASSUME NEW a \in T
      PROVE  Earned(found[a], "revenue") = -Held(K)[a] /\ Earned(found[a], "expense") = Held(K)[a] /\ Held(K)[a] \in Int
  <2>1. a \in Accounts /\ found[a].period["debit"] = Over(Puts(a, "debit"), K)
                       /\ found[a].period["credit"] = Over(Puts(a, "credit"), K)
    BY <1>4 DEF Sides
  <2>2. Held(K)[a] = Over(On(log, a), K)
    BY <2>1 DEF Held
  <2> QED
    BY <1>1, <2>1, <2>2, NetOver DEF Earned
<1>7. /\ section("revenue") \in SUBSET Revenues /\ section("expense") \in SUBSET Expenses
      /\ Revenues \in SUBSET Accounts /\ Expenses \in SUBSET Accounts
      /\ \A a \in Revenues \ section("revenue") : \A i \in K : log[i].lines[a] = 0
      /\ \A a \in Expenses \ section("expense") : \A i \in K : log[i].lines[a] = 0
      /\ section("revenue") \in SUBSET T /\ section("expense") \in SUBSET T
  BY <1>4 DEF Revenues, Expenses
<1>8. Total(rows("revenue")) = Over(rows("revenue"), section("revenue"))
      /\ Total(rows("expense")) = Over(rows("expense"), section("expense"))
  BY DEF Over
<1>9. /\ \A a \in section("revenue") : Held(K)[a] \in Int /\ rows("revenue")[a] = -Held(K)[a]
      /\ \A a \in section("expense") : rows("expense")[a] = Held(K)[a]
  BY <1>6, <1>7
<1> HIDE DEF rows, section, T
<1>10. /\ IsFiniteSet(section("revenue")) /\ Over(Held(K), Revenues) = Over(Held(K), section("revenue"))
       /\ Over(Held(K), Expenses) = Over(Held(K), section("expense"))
  BY <1>1, <1>7, HeldTouched
<1>11. Over(rows("revenue"), section("revenue")) = -Over(Held(K), section("revenue"))
  BY <1>9, <1>10, OverMinus
<1>12. Over(rows("expense"), section("expense")) = Over(Held(K), section("expense"))
  BY <1>9, OverSame DEF Alike
<1>13. Over(Held(K), ProfitAndLoss) = Over(Held(K), Revenues) + Over(Held(K), Expenses)
       /\ Over(Held(K), Revenues) \in Int /\ Over(Held(K), Expenses) \in Int
  <2>1. \A a \in Revenues \cup Expenses : Held(K)[a] \in Int
    BY <1>1, <1>7, NetOver DEF Held
  <2>2. Over(Held(K), Revenues \cup Expenses) = Over(Held(K), Revenues) + Over(Held(K), Expenses)
    BY <2>1, ChartParts, OverSplit
  <2>3. Over(Held(K), Revenues) \in Int /\ Over(Held(K), Expenses) \in Int
    BY <2>1, ChartParts, OverInt
  <2> QED
    BY <2>2, <2>3, ChartParts
<1>14. Over(Held(K), ProfitAndLoss) = Spent(K)
  BY <1>1, SpentFacts
<1>15. ProfitAndLossReport(p).net = -Spent(K)
  BY <1>5, <1>8, <1>10, <1>11, <1>12, <1>13, <1>14
<1> QED
  BY <1>15 DEF K, I

\* The vouchers of a closed period are those of the desk and its entries, and
\* these took off what the early ones had put there.
LEMMA ClosedParts ==
    ASSUME IInv, BooksBalance, NEW p \in periods, NEW c \in DOMAIN log, log[c].key = p.id
    PROVE  /\ p.id \in PeriodIds /\ Closings(p.id) = {c}
           /\ Dated(log, p, DOMAIN log) = DeskIn(p) \cup {c} /\ c \notin DeskIn(p)
           /\ Earning[c] = -Spent(EarlyIn(p))
<1>1. /\ p.id \in PeriodIds /\ p.id # None /\ p \in Period /\ ValidPeriod(p) /\ Sequence(periods)
  BY OpeningAssumption, NoneAssumption DEF IInv, Types, TypeOK, PeriodIds
<1>2. Closings(p.id) = {c} /\ Since(p.id) = log[c].read
  <2>1. Closings(p.id) = {c}
    BY <1>1, OneClosing
  <2> QED
    BY <2>1 DEF Since
<1>3. /\ log[c].read < c /\ p.last = log[c].day /\ Clears(log, p, log[c].read, log[c].lines)
  BY <1>1 DEF IInv, ClosingsStand, Sequence
<1>4. Covers(p, log[c].day)
  BY <1>1, <1>3, PeriodDays DEF Covers
<1>5. /\ log[c].read \in Nat /\ DOMAIN log = 1 .. Len(log) /\ Len(log) \in Nat /\ log[c].lines \in Movements
      /\ \A i \in DOMAIN log : i \in Int
  BY VoucherTypes
<1>6. \A i \in DOMAIN log : log[i].key # None /\ Covers(p, log[i].day) => i = c
  BY <1>2, ClosingsApart DEF Closings
<1>7. Dated(log, p, DOMAIN log) = DeskIn(p) \cup {c} /\ c \notin DeskIn(p)
  BY <1>1, <1>4, <1>6 DEF Dated, DeskIn
<1>8. Dated(log, p, 1 .. log[c].read) = EarlyIn(p)
  <2>1. \A i : i \in 1 .. log[c].read <=> i \in DOMAIN log /\ i <= log[c].read
    BY <1>3, <1>5
  <2>2. \A i \in DOMAIN log : i <= log[c].read => i # c
    BY <1>3, <1>5
  <2> QED
    BY <1>2, <1>6, <2>1, <2>2 DEF Dated, EarlyIn, DeskIn
<1>9. EarlyIn(p) \in SUBSET DOMAIN log
  BY DEF EarlyIn, DeskIn
<1>10. \A a \in ProfitAndLoss : log[c].lines[a] = -Held(EarlyIn(p))[a] /\ Held(EarlyIn(p))[a] \in Int
  <2> TAKE a \in ProfitAndLoss
  <2>1. a \in Accounts
    BY DEF ProfitAndLoss
  <2>2. Held(EarlyIn(p))[a] = Over(On(log, a), EarlyIn(p)) /\ Over(On(log, a), EarlyIn(p)) \in Int
    BY <1>9, <2>1, NetOver DEF Held
  <2> QED
    BY <1>3, <1>8, <2>2 DEF Clears, Movement
<1>11. Over(log[c].lines, ProfitAndLoss) = -Over(Held(EarlyIn(p)), ProfitAndLoss)
  BY <1>10, ChartParts, OverMinus
<1>12. Earning[c] = -Spent(EarlyIn(p))
  BY <1>9, <1>11, SpentFacts DEF Earning
<1> QED
  BY <1>1, <1>2, <1>7, <1>12

\* The profit reported of a period whose close charged nothing is what that
\* close carried, and what came late.
LEMMA ProfitHolds ==
    ASSUME IInv, BooksBalance, NEW p \in periods, Closed(p), ChargedBy(p.id) = 0
    PROVE  ReportsCarried(p)
<1>1. PICK c \in DOMAIN log : log[c].key = p.id
  BY DEF Closed, Closings
<1> DEFINE early == EarlyIn(p)
           late == LateIn(p)
           own == {i \in {c} : ~LeftOut(i)}
           rest == late \cup own
           reported == {i \in Dated(log, p, DOMAIN log) : ~LeftOut(i)}
           lines == log[c].lines
<1>2. /\ p.id \in PeriodIds /\ Closings(p.id) = {c}
      /\ Dated(log, p, DOMAIN log) = DeskIn(p) \cup {c} /\ c \notin DeskIn(p)
      /\ Earning[c] = -Spent(early)
  BY <1>1, ClosedParts
<1>3. /\ early \in SUBSET DeskIn(p) /\ late = DeskIn(p) \ early
      /\ DeskIn(p) \in SUBSET DOMAIN log /\ \A i \in DeskIn(p) : ~LeftOut(i)
  BY DEF EarlyIn, LateIn, DeskIn, Closed
<1>4. /\ reported = early \cup rest /\ early \cap rest = {} /\ late \cap own = {}
      /\ early \in SUBSET DOMAIN log /\ late \in SUBSET DOMAIN log
      /\ own \in SUBSET DOMAIN log /\ rest \in SUBSET DOMAIN log
  BY <1>2, <1>3
<1>5. ProfitAndLossReport(p).net = -Spent(reported)
  BY ReportNets
<1>6. (LeftOut(c) => own = {}) /\ (~LeftOut(c) => own = {c})
  OBVIOUS
<1>7. rest = late \cup own
  OBVIOUS
<1>8. /\ Carried(p.id) = -lines[Retained] /\ ChargedBy(p.id) = -Over(lines, Accumulating)
  BY <1>2, CloseDid
<1>9. /\ lines \in Movements /\ log[c].through \in Nat /\ Even(lines, log[c].through)
  BY <1>1, <1>2, VoucherTypes, NoneAssumption DEF BooksBalance, Balanced, PeriodIds
<1>10. Earning[c] = Over(lines, ProfitAndLoss)
  BY DEF Earning
<1>11. LateIn(p) = late /\ ProfitOf(late) = -Spent(late)
  BY <1>4, SpentFacts
<1>12. ~LeftOut(c) => lines[Retained] = 0
  BY <1>9 DEF LeftOut, Even
<1> HIDE DEF early, late, own, rest, reported, lines
<1>13. /\ Over(lines, ProfitAndLoss) \in Int /\ Over(lines, Accumulating) \in Int /\ lines[Retained] \in Int
       /\ Over(lines, ProfitAndLoss) + Over(lines, Accumulating) + lines[Retained] = 0
  BY <1>9, ChartSum DEF Even
<1>14. Carried(p.id) = -Spent(early) /\ Spent(early) = lines[Retained]
  <2>1. Over(lines, ProfitAndLoss) = -lines[Retained]
    BY <1>8, <1>13
  <2>2. Spent(early) \in Int
    BY <1>4, SpentSplit
  <2>3. -Spent(early) = -lines[Retained]
    BY <1>2, <1>10, <2>1
  <2>4. \A x, y \in Int : -x = -y => x = y
    OBVIOUS
  <2>5. Spent(early) = lines[Retained]
    BY <1>13, <2>2, <2>3, <2>4
  <2> QED
    BY <1>8, <2>5
<1>15. Spent(reported) = Spent(early) + Spent(rest)
  BY <1>4, SpentSplit
<1>16. Spent(rest) = Spent(late) + Spent(own) /\ Spent(late) \in Int
  BY <1>4, <1>7, SpentSplit
<1>17. Spent(own) = 0
  <2>1. CASE LeftOut(c)
    BY <1>6, <2>1, OverEmpty DEF Spent
  <2>2. CASE ~LeftOut(c)
    <3>1. Earning[c] = 0
      BY <1>8, <1>10, <1>12, <1>13, <2>2
    <3> QED
      BY <1>6, <2>2, <3>1, OverOne DEF Spent
  <2> QED BY <2>1, <2>2
<1> QED
  BY <1>5, <1>11, <1>13, <1>14, <1>15, <1>16, <1>17 DEF ReportsCarried

\* Wherever closes and desk have stopped, the trial balance, the profit and
\* loss and the sheet agree with each other and with what the closes did.
THEOREM ReportsAgree == Spec => []StatementsAgree
<1>1. IInv /\ BooksBalance => StatementsAgree
  <2> SUFFICES ASSUME IInv, BooksBalance, NEW p \in periods
               PROVE  /\ TrialBalanced(TrialBalance(p))
                      /\ SheetBalanced(BalanceSheet(p))
                      /\ Closed(p) /\ ChargedBy(p.id) = 0 => ReportsCarried(p)
                      /\ (\A i \in DOMAIN log : log[i].key = None /\ log[i].day <= p.last =>
                              \E q \in periods : Covers(q, log[i].day) /\ Closings(q.id) # {} /\ i <= Since(q.id))
                          => BalanceSheet(p).result = 0
    BY Zenon DEF StatementsAgree
  <2>1. TrialBalanced(TrialBalance(p))
    BY TrialHolds
  <2>2. SheetBalanced(BalanceSheet(p))
    BY SheetHolds
  <2>3. Closed(p) /\ ChargedBy(p.id) = 0 => ReportsCarried(p)
    BY ProfitHolds
  <2> QED
    BY <2>1, <2>2, <2>3, ResultHolds
<1> QED
  BY <1>1, BooksInvariant, PTL
=============================================================================
