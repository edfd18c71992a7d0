---------------------------- MODULE TradingProofs ----------------------------
(***************************************************************************)
(* Theorems about the sales and the purchase cycle.                        *)
(***************************************************************************)
EXTENDS Trading, TotalsProofs, SequenceTheorems

-----------------------------------------------------------------------------
(* What is asked for.                                                      *)

\* A command's kind tells its form.
LEMMA CommandForms ==
    ASSUME NEW c \in Commands
    PROVE  /\ c.kind = "invoice" => c \in InvoiceCommand
           /\ c.kind = "credit" => c \in CreditCommand
           /\ c.kind \in {"payment", "supplier payment"} => c \in PaymentCommand
           /\ c.kind = "order" => c \in OrderCommand
           /\ c.kind = "receipt" => c \in ReceiptCommand
           /\ c.kind = "bill" => c \in SupplierInvoiceCommand
           /\ c.kind \in {"issue", "write off", "return"} => c \in StockCommand
BY CommandsAssumption
   DEF InvoiceCommand, CreditCommand, PaymentCommand, OrderCommand, ReceiptCommand,
       SupplierInvoiceCommand, StockCommand

-----------------------------------------------------------------------------
(* Sums that grow by one.                                                  *)

\* A sum over positions, and one position more.
LEMMA OverNext ==
    ASSUME NEW n \in Nat, NEW f, NEW g, Alike(f, g, 1 .. n), \A i \in 1 .. n + 1 : g[i] \in Int
    PROVE  Over(g, 1 .. n + 1) = Over(f, 1 .. n) + g[n + 1]
<1> DEFINE S == 1 .. n
<1>1. n + 1 \notin S /\ S \cup {n + 1} = 1 .. n + 1
    OBVIOUS
<1>2. IsFiniteSet(S)
    BY FS_Interval
<1>4. Over(g, S \cup {n + 1}) = Over(g, S) + g[n + 1]
  <2> HIDE DEF S
  <2> QED BY <1>1, <1>2, OverAdd
<1>3. Over(f, 1 .. n) = Over(g, 1 .. n)
    BY OverSame
<1> QED BY <1>1, <1>3, <1>4

-----------------------------------------------------------------------------
(* The stock log.                                                          *)

MoveIds == Moves \cup (STRING \X Nat)

Movement == [id : MoveIds, item : Items, direction : {"in", "out"}, quantity : Nat \ {0}, cost : Nat]
Holding  == [quantity : Nat, average : Nat]

\* The ledger of the warehouse holds valid movements and what each item stands at.
StockTypes(s) ==
    /\ s = [moves |-> s.moves, valuations |-> s.valuations, returned |-> s.returned]
    /\ s.moves \in Seq(Movement)
    /\ s.valuations \in [Items -> Holding]
    /\ s.returned \in [Moves -> Nat]

\* A movement the ledger lets in.
Fits(s, move) ==
    move \in Movement /\ (move.direction = "out" => move.quantity <= s.valuations[move.item].quantity)

\* A log and one movement more.
LEMMA LogGrows ==
    ASSUME NEW moves \in Seq(Movement), NEW move \in Movement
    PROVE  /\ Append(moves, move) \in Seq(Movement)
           /\ Len(moves) \in Nat
           /\ Len(Append(moves, move)) = Len(moves) + 1
           /\ DOMAIN moves = 1 .. Len(moves)
           /\ DOMAIN Append(moves, move) = 1 .. Len(moves) + 1
           /\ \A n \in 1 .. Len(moves) : Append(moves, move)[n] = moves[n] /\ moves[n] \in Movement
           /\ Append(moves, move)[Len(moves) + 1] = move
BY AppendProperties, ElementOfSeq, LenProperties

\* A whole part of an amount does not exceed it.
LEMMA WholePart ==
    ASSUME NEW x \in Nat, NEW n \in Nat \ {0}
    PROVE  x \div n \in Nat /\ (x \div n) * n <= x
<1>1. x \div n \in Int /\ x % n \in 0 .. n - 1 /\ x = n * (x \div n) + (x % n)
    OBVIOUS
<1>2. x \div n >= 0
    BY <1>1
<1> QED BY <1>1, <1>2

\* Goods come in at what was paid or less.
LEMMA ReceivedHolding ==
    ASSUME NEW v \in Holding, NEW n \in Nat \ {0}, NEW c \in Nat
    PROVE  Receive(v, n, c) \in Holding /\ Value(Receive(v, n, c)) <= Value(v) + n * c
<1> DEFINE paid == v.quantity * v.average + n * c
           held == v.quantity + n
<1>1. paid \in Nat /\ held \in Nat \ {0}
    BY DEF Holding
<1> HIDE DEF paid, held
<1>2. paid \div held \in Nat /\ (paid \div held) * held <= paid
    BY <1>1, WholePart
<1>3. Receive(v, n, c) = [quantity |-> held, average |-> paid \div held]
    BY DEF Receive, Average, paid, held
<1>4. Value(Receive(v, n, c)) = held * (paid \div held)
    BY <1>3 DEF Value
<1>5. held * (paid \div held) = (paid \div held) * held
    BY <1>1, <1>2
<1> QED BY <1>1, <1>2, <1>3, <1>4, <1>5 DEF Holding, Value, paid

\* Goods leave at what they stand at.
LEMMA IssuedHolding ==
    ASSUME NEW v \in Holding, NEW n \in Nat \ {0}, n <= v.quantity
    PROVE  Issue(v, n) \in Holding /\ Value(Issue(v, n)) + n * v.average = Value(v)
<1>1. CASE v.quantity = n
    BY <1>1 DEF Issue, Holding, Value, Nothing
<1>2. CASE v.quantity # n
  <2>1. Issue(v, n) = [quantity |-> v.quantity - n, average |-> v.average]
    BY <1>2 DEF Issue, Holding
  <2>2. v.quantity - n \in Nat /\ v.average \in Nat /\ v.quantity \in Nat
    BY DEF Holding
  <2>3. (v.quantity - n) * v.average + n * v.average = v.quantity * v.average
    BY <2>2
  <2> QED BY <2>1, <2>2, <2>3 DEF Holding, Value
<1> QED BY <1>1, <1>2

LEMMA AppliedHolding ==
    ASSUME NEW s, StockTypes(s), NEW move, Fits(s, move)
    PROVE  Apply(s.valuations[move.item], move) \in Holding
<1>1. s.valuations[move.item] \in Holding
    BY DEF StockTypes, Fits, Movement
<1> QED BY <1>1, ReceivedHolding, IssuedHolding DEF Apply, Fits, Movement

-----------------------------------------------------------------------------
(* The log folded again.                                                   *)

Start == [position |-> Nothing, paid |-> 0, left |-> 0]

\* What folding a log says of an item, movement by movement.
Folds(item, moves, g) ==
    g = [n \in 0 .. Len(moves) |->
            IF n = 0 THEN Start
            ELSE IF moves[n].item # item THEN g[n - 1] ELSE Counted(g[n - 1], moves[n])]

FoldOf(item, moves) == (CHOOSE g : Folds(item, moves, g))[Len(moves)]

\* A log that folds still does with one movement more.
LEMMA FoldsOn ==
    ASSUME NEW item, NEW moves \in Seq(Movement), NEW move \in Movement,
           NEW g, Folds(item, moves, g)
    PROVE  Folds(item, Append(moves, move),
                 [n \in 0 .. Len(moves) + 1 |->
                    IF n <= Len(moves) THEN g[n]
                    ELSE IF move.item # item THEN g[n - 1] ELSE Counted(g[n - 1], move)])
<1> DEFINE more == Append(moves, move)
           len == Len(moves)
           h == [n \in 0 .. len + 1 |->
                    IF n <= len THEN g[n]
                    ELSE IF move.item # item THEN g[n - 1] ELSE Counted(g[n - 1], move)]
<1>1. /\ len \in Nat /\ Len(more) = len + 1 /\ more[len + 1] = move
      /\ \A n \in 1 .. len : more[n] = moves[n]
    BY LogGrows
<1>2. \A n \in 0 .. len :
        g[n] = IF n = 0 THEN Start
               ELSE IF moves[n].item # item THEN g[n - 1] ELSE Counted(g[n - 1], moves[n])
    BY DEF Folds
<1> HIDE DEF more, len
<1>3. ASSUME NEW n \in 0 .. len + 1
      PROVE  h[n] = IF n = 0 THEN Start
                    ELSE IF more[n].item # item THEN h[n - 1] ELSE Counted(h[n - 1], more[n])
  <2>1. CASE n = 0
    BY <1>1, <1>2, <2>1
  <2>2. CASE n \in 1 .. len
    <3>1. h[n] = g[n] /\ h[n - 1] = g[n - 1] /\ more[n] = moves[n] /\ n # 0 /\ n \in 0 .. len
        BY <1>1, <2>2
    <3> QED BY <1>2, <3>1
  <2>3. CASE n = len + 1
    <3>1. h[n - 1] = g[n - 1] /\ n # 0 /\ ~(n <= len)
        BY <1>1, <2>3
    <3> QED BY <1>1, <2>3, <3>1
  <2> QED BY <1>1, <2>1, <2>2, <2>3
<1>4. h = [n \in 0 .. len + 1 |->
            IF n = 0 THEN Start
            ELSE IF more[n].item # item THEN h[n - 1] ELSE Counted(h[n - 1], more[n])]
  <2> HIDE DEF h
  <2>1. h = [n \in 0 .. len + 1 |-> h[n]]
    BY DEF h
  <2> QED BY <1>3, <2>1
<1> HIDE DEF h
<1>5. Folds(item, more, h)
    BY <1>1, <1>4 DEF Folds
<1> QED BY <1>5 DEF more, len, h

\* Every log folds.
LEMMA FoldsExist ==
    ASSUME NEW item, NEW moves \in Seq(Movement)
    PROVE  \E g : Folds(item, moves, g)
<1> DEFINE Start0 == [n \in 0 .. 0 |-> Start]
           Bad == {n \in Nat : \E log \in Seq(Movement) : Len(log) = n /\ ~\E g : Folds(item, log, g)}
<1>1. SUFFICES ASSUME Bad # {} PROVE FALSE
    BY LenProperties
<1>2. PICK n \in Bad : \A m \in Bad : ~(m < n)
  <2> HIDE DEF Bad
  <2>1. Bad \in SUBSET Nat
    BY DEF Bad
  <2> QED BY <1>1, <2>1, LeastNumber
<1>3. PICK log \in Seq(Movement) : Len(log) = n /\ ~\E g : Folds(item, log, g)
    OBVIOUS
<1>4. CASE n = 0
  <2>1. Folds(item, log, [k \in 0 .. 0 |-> Start])
    BY <1>3, <1>4 DEF Folds
  <2> QED BY <1>3, <2>1
<1>5. CASE n # 0
  <2>1. PICK front \in Seq(Movement), last \in Movement : log = Append(front, last)
    <3>1. log # <<>>
      BY <1>3, <1>5
    <3> QED BY <3>1, SequenceEmptyOrAppend
  <2>2. Len(front) \in Nat /\ Len(front) + 1 = n
    BY <1>3, <2>1, LogGrows
  <2>3. Len(front) \notin Bad
    <3> HIDE DEF Bad
    <3> QED BY <1>2, <2>2
  <2>4. PICK g : Folds(item, front, g)
    BY <2>2, <2>3
  <2>5. \E h : Folds(item, log, h)
    BY <2>1, <2>4, FoldsOn
  <2> QED BY <1>3, <2>5
<1> QED BY <1>4, <1>5

\* And in one way.
LEMMA FoldsAgree ==
    ASSUME NEW item, NEW moves, Len(moves) \in Nat,
           NEW g, Folds(item, moves, g), NEW h, Folds(item, moves, h)
    PROVE  \A n \in 0 .. Len(moves) : g[n] = h[n]
<1> DEFINE Bad == {n \in 0 .. Len(moves) : g[n] # h[n]}
<1>1. SUFFICES ASSUME Bad # {} PROVE FALSE
    OBVIOUS
<1>2. PICK n \in Bad : \A m \in Bad : ~(m < n)
  <2> HIDE DEF Bad
  <2>1. Bad \in SUBSET Nat
    BY DEF Bad
  <2> QED BY <1>1, <2>1, LeastNumber
<1>3. n \in 0 .. Len(moves) /\ g[n] # h[n]
    OBVIOUS
<1>4. /\ g[n] = IF n = 0 THEN Start
                ELSE IF moves[n].item # item THEN g[n - 1] ELSE Counted(g[n - 1], moves[n])
      /\ h[n] = IF n = 0 THEN Start
                ELSE IF moves[n].item # item THEN h[n - 1] ELSE Counted(h[n - 1], moves[n])
    BY <1>3 DEF Folds
<1>5. n # 0
    BY <1>3, <1>4
<1>6. n - 1 \in 0 .. Len(moves) /\ n - 1 < n
    BY <1>3, <1>5
<1>7. n - 1 \notin Bad
  <2> HIDE DEF Bad
  <2> QED BY <1>2, <1>6
<1> QED BY <1>3, <1>4, <1>6, <1>7

\* A fold is its solution, wherever it comes from.
LEMMA FoldIs ==
    ASSUME NEW item, NEW moves \in Seq(Movement), NEW g, Folds(item, moves, g)
    PROVE  FoldOf(item, moves) = g[Len(moves)]
<1> DEFINE it == CHOOSE h : Folds(item, moves, h)
<1>1. Folds(item, moves, it)
    OBVIOUS
<1>2. Len(moves) \in Nat /\ Len(moves) \in 0 .. Len(moves)
    BY LenProperties
<1> HIDE DEF it
<1>3. it[Len(moves)] = g[Len(moves)]
    BY <1>1, <1>2, FoldsAgree
<1> QED BY <1>3 DEF FoldOf, it

\* Nothing folded.
LEMMA FoldNothing ==
    ASSUME NEW item PROVE FoldOf(item, <<>>) = Start
<1>1. <<>> \in Seq(Movement) /\ Len(<<>>) = 0
    OBVIOUS
<1>2. Folds(item, <<>>, [k \in 0 .. 0 |-> Start])
    BY <1>1 DEF Folds
<1>3. FoldOf(item, <<>>) = [k \in 0 .. 0 |-> Start][0]
    BY <1>1, <1>2, FoldIs
<1> QED BY <1>3

\* One movement more counts where it is of the item.
LEMMA FoldNext ==
    ASSUME NEW item, NEW moves \in Seq(Movement), NEW move \in Movement
    PROVE  FoldOf(item, Append(moves, move)) =
            IF move.item # item THEN FoldOf(item, moves) ELSE Counted(FoldOf(item, moves), move)
<1> DEFINE more == Append(moves, move)
           len == Len(moves)
<1>1. more \in Seq(Movement) /\ len \in Nat /\ Len(more) = len + 1
    BY LogGrows
<1>2. PICK g : Folds(item, moves, g)
    BY FoldsExist
<1> DEFINE h == [n \in 0 .. len + 1 |->
                    IF n <= len THEN g[n]
                    ELSE IF move.item # item THEN g[n - 1] ELSE Counted(g[n - 1], move)]
<1>3. Folds(item, more, h)
    BY <1>2, FoldsOn
<1>4. FoldOf(item, moves) = g[len]
    BY <1>2, FoldIs
<1> HIDE DEF more, len
<1>5. h[len + 1] = IF move.item # item THEN g[len] ELSE Counted(g[len], move)
    BY <1>1
<1> HIDE DEF h
<1>6. FoldOf(item, more) = h[Len(more)]
    BY <1>1, <1>3, FoldIs
<1> QED BY <1>1, <1>4, <1>5, <1>6 DEF more

-----------------------------------------------------------------------------
(* What every movement the ledger lets in leaves true.                     *)

\* What a log moved of an item, in and out.
Signed(item, moves) ==
    [n \in DOMAIN moves |->
        IF moves[n].item # item THEN 0
        ELSE IF moves[n].direction = "in" THEN moves[n].quantity ELSE -moves[n].quantity]

\* The log gives back where every item stands, and no more than was paid.
CarriedAt(s, item) ==
    LET folded == FoldOf(item, s.moves) IN
    /\ folded.position = s.valuations[item]
    /\ folded.paid \in Nat /\ folded.left \in Nat
    /\ Over(Signed(item, s.moves), DOMAIN s.moves) = s.valuations[item].quantity
    /\ Value(s.valuations[item]) + folded.left <= folded.paid

Carried(s) == \A item \in Items : CarriedAt(s, item)

\* The level of an item, and one movement more.
LEMMA SignedNext ==
    ASSUME NEW item, NEW moves \in Seq(Movement), NEW move \in Movement
    PROVE  Over(Signed(item, Append(moves, move)), DOMAIN Append(moves, move))
            = Over(Signed(item, moves), DOMAIN moves)
                + (IF move.item # item THEN 0
                   ELSE IF move.direction = "in" THEN move.quantity ELSE -move.quantity)
<1> DEFINE more == Append(moves, move)
           len == Len(moves)
           f == Signed(item, moves)
           g == Signed(item, more)
<1>1. /\ len \in Nat /\ DOMAIN moves = 1 .. len /\ DOMAIN more = 1 .. len + 1
      /\ \A n \in 1 .. len : more[n] = moves[n] /\ moves[n] \in Movement
      /\ more[len + 1] = move
    BY LogGrows
<1> HIDE DEF more, len
<1>2. Alike(f, g, 1 .. len)
    BY <1>1 DEF Alike, Signed
<1>3. \A n \in 1 .. len + 1 : more[n] \in Movement
  <2> TAKE n \in 1 .. len + 1
  <2>1. n \in 1 .. len \/ n = len + 1
    BY <1>1
  <2> QED BY <1>1, <2>1
<1>4. \A n \in 1 .. len + 1 : g[n] \in Int
    BY <1>1, <1>3 DEF Signed, Movement
<1>5. g[len + 1] = IF move.item # item THEN 0
                   ELSE IF move.direction = "in" THEN move.quantity ELSE -move.quantity
    BY <1>1 DEF Signed
<1> HIDE DEF f, g
<1>6. Over(g, 1 .. len + 1) = Over(f, 1 .. len) + g[len + 1]
    BY <1>1, <1>2, <1>4, OverNext
<1> QED BY <1>1, <1>5, <1>6 DEF f, g, more

\* A movement kept.
LEMMA KeptIs ==
    ASSUME NEW s, StockTypes(s), NEW move, Fits(s, move)
    PROVE  /\ Kept(s, move).moves = Append(s.moves, move)
           /\ Kept(s, move).returned = s.returned
           /\ \A item \in Items :
                Kept(s, move).valuations[item] =
                    IF item = move.item THEN Apply(s.valuations[item], move) ELSE s.valuations[item]
           /\ StockTypes(Kept(s, move))
<1>1. /\ move \in Movement /\ move.item \in Items
      /\ Apply(s.valuations[move.item], move) \in Holding
    BY AppliedHolding DEF Fits, Movement
<1>2. Append(s.moves, move) \in Seq(Movement)
    BY <1>1, LogGrows DEF StockTypes
<1>3. Kept(s, move) =
        [moves |-> Append(s.moves, move),
         valuations |-> [s.valuations EXCEPT ![move.item] = Apply(s.valuations[move.item], move)],
         returned |-> s.returned]
    BY DEF Kept
<1>4. [s.valuations EXCEPT ![move.item] = Apply(s.valuations[move.item], move)] \in [Items -> Holding]
    BY <1>1 DEF StockTypes
<1> QED BY <1>1, <1>2, <1>3, <1>4 DEF StockTypes

\* Whatever is let in, nothing is carried above what was paid.
LEMMA KeptCarries ==
    ASSUME NEW s, StockTypes(s), Carried(s), NEW move, Fits(s, move)
    PROVE  Carried(Kept(s, move))
<1> DEFINE t == Kept(s, move)
<1>1. /\ t.moves = Append(s.moves, move)
      /\ \A item \in Items :
            t.valuations[item] = IF item = move.item THEN Apply(s.valuations[item], move)
                                 ELSE s.valuations[item]
    BY KeptIs
<1>2. s.moves \in Seq(Movement) /\ move \in Movement
    BY DEF StockTypes, Fits
<1> HIDE DEF t
<1>3. ASSUME NEW item \in Items PROVE CarriedAt(t, item)
  <2> DEFINE before == FoldOf(item, s.moves)
             after == FoldOf(item, t.moves)
             v == s.valuations[item]
             old == Over(Signed(item, s.moves), DOMAIN s.moves)
             new == Over(Signed(item, t.moves), DOMAIN t.moves)
  <2>1. /\ before.position = v /\ before.paid \in Nat /\ before.left \in Nat
        /\ old = v.quantity /\ Value(v) + before.left <= before.paid
      BY DEF Carried, CarriedAt
  <2>2. v \in Holding
      BY DEF StockTypes
  <2>3. after = IF move.item # item THEN before ELSE Counted(before, move)
      BY <1>1, <1>2, FoldNext
  <2>4. new = old + (IF move.item # item THEN 0
                     ELSE IF move.direction = "in" THEN move.quantity ELSE -move.quantity)
      BY <1>1, <1>2, SignedNext
  <2>5. CarriedAt(t, item) <=>
            /\ after.position = t.valuations[item]
            /\ after.paid \in Nat /\ after.left \in Nat
            /\ new = t.valuations[item].quantity
            /\ Value(t.valuations[item]) + after.left <= after.paid
      BY DEF CarriedAt
  <2> HIDE DEF before, after, v, old, new
  <2>6. CASE move.item # item
    <3>1. after = before /\ new = old /\ t.valuations[item] = v
      BY <1>1, <2>1, <2>2, <2>3, <2>4, <2>6 DEF v, Holding
    <3> QED BY <2>1, <2>5, <3>1
  <2>7. CASE move.item = item /\ move.direction = "in"
    <3>1. move.quantity \in Nat \ {0} /\ move.cost \in Nat
      BY <1>2 DEF Movement
    <3>2. t.valuations[item] = Receive(v, move.quantity, move.cost)
      BY <1>1, <2>7 DEF Apply, v
    <3>3. after = [position |-> Receive(v, move.quantity, move.cost),
                   paid |-> before.paid + move.quantity * move.cost, left |-> before.left + 0]
      BY <2>1, <2>3, <2>7 DEF Counted, Apply
    <3>4. Value(Receive(v, move.quantity, move.cost)) <= Value(v) + move.quantity * move.cost
          /\ Receive(v, move.quantity, move.cost) \in Holding
      BY <2>2, <3>1, ReceivedHolding
    <3>5. new = Receive(v, move.quantity, move.cost).quantity
      BY <2>1, <2>2, <2>4, <2>7, <3>1 DEF Receive, Holding
    <3> DEFINE worth == move.quantity * move.cost
               value == Value(Receive(v, move.quantity, move.cost))
    <3>6. worth \in Nat /\ value \in Nat /\ Value(v) \in Nat
      BY <2>2, <3>1, <3>4 DEF Holding, Value
    <3>7. value <= Value(v) + worth
      BY <3>4
    <3>8. after.paid = before.paid + worth /\ after.left = before.left + 0
      BY <3>3
    <3> HIDE DEF worth, value
    <3>9. after.paid \in Nat /\ after.left \in Nat /\ value + after.left <= after.paid
      BY <2>1, <3>6, <3>7, <3>8
    <3> QED BY <2>5, <3>2, <3>3, <3>5, <3>9 DEF value
  <2>8. CASE move.item = item /\ move.direction = "out"
    <3>1. move.quantity \in Nat \ {0} /\ move.quantity <= v.quantity
      BY <1>2, <2>8 DEF Movement, Fits, v
    <3>2. t.valuations[item] = Issue(v, move.quantity)
      BY <1>1, <2>8 DEF Apply, v
    <3>3. after = [position |-> Issue(v, move.quantity),
                   paid |-> before.paid + 0, left |-> before.left + move.quantity * v.average]
      BY <2>1, <2>3, <2>8 DEF Counted, Apply
    <3>4. Value(Issue(v, move.quantity)) + move.quantity * v.average = Value(v)
          /\ Issue(v, move.quantity) \in Holding
      BY <2>2, <3>1, IssuedHolding
    <3>5. new = Issue(v, move.quantity).quantity
      BY <2>1, <2>2, <2>4, <2>8, <3>1 DEF Issue, Holding, Nothing
    <3> DEFINE worth == move.quantity * v.average
               value == Value(Issue(v, move.quantity))
    <3>6. worth \in Nat /\ value \in Nat /\ Value(v) \in Nat
      BY <2>2, <3>1, <3>4 DEF Holding, Value
    <3>7. value + worth = Value(v)
      BY <3>4
    <3>8. after.paid = before.paid + 0 /\ after.left = before.left + worth
      BY <3>3
    <3> HIDE DEF worth, value
    <3>9. after.paid \in Nat /\ after.left \in Nat /\ value + after.left <= after.paid
      BY <2>1, <3>6, <3>7, <3>8
    <3> QED BY <2>5, <3>2, <3>3, <3>5, <3>9 DEF value
  <2> QED BY <1>2, <2>6, <2>7, <2>8 DEF Movement
<1> QED BY <1>3 DEF Carried, t

\* A movement recorded is kept as the ledger prices it.
LEMMA RecordIs ==
    ASSUME NEW s, StockTypes(s), NEW move, Fits(s, move)
    PROVE  \E kept :
            /\ Record(s, move) = Kept(s, kept) /\ Fits(s, kept)
            /\ kept.id = move.id /\ kept.item = move.item
            /\ kept.direction = move.direction /\ kept.quantity = move.quantity
<1> DEFINE next == Apply(s.valuations[move.item], move)
           kept == IF move.direction = "out" THEN [move EXCEPT !.cost = next.average] ELSE move
<1>1. next \in Holding
    BY AppliedHolding
<1>2. Record(s, move) = Kept(s, kept)
    BY DEF Record
<1> HIDE DEF next
<1>3. /\ move.id \in MoveIds /\ move.item \in Items /\ move.direction \in {"in", "out"}
      /\ move.quantity \in Nat \ {0} /\ move.cost \in Nat
      /\ move = [id |-> move.id, item |-> move.item, direction |-> move.direction,
                 quantity |-> move.quantity, cost |-> move.cost]
    BY DEF Fits, Movement
<1>4. next.average \in Nat
    BY <1>1 DEF Holding
<1>5. /\ kept.id = move.id /\ kept.item = move.item /\ kept.direction = move.direction
      /\ kept.quantity = move.quantity /\ kept \in Movement
    BY <1>3, <1>4 DEF Movement
<1> HIDE DEF kept
<1>6. Fits(s, kept)
    BY <1>5 DEF Fits
<1> QED BY <1>2, <1>5, <1>6

\* What comes back is kept, and counted against what left.
LEMMA ReturnIs ==
    ASSUME NEW s, StockTypes(s), NEW move, NEW entry, entry.move \in Moves,
           Fits(s, [move EXCEPT !.cost = entry.unitCost]), move.quantity \in Nat
    PROVE  \E kept :
            /\ kept = [move EXCEPT !.cost = entry.unitCost] /\ Fits(s, kept)
            /\ Return(s, entry, move).moves = Kept(s, kept).moves
            /\ Return(s, entry, move).valuations = Kept(s, kept).valuations
            /\ \A m \in Moves :
                Return(s, entry, move).returned[m] =
                    s.returned[m] + (IF m = entry.move THEN move.quantity ELSE 0)
            /\ StockTypes(Return(s, entry, move))
<1> DEFINE kept == [move EXCEPT !.cost = entry.unitCost]
           t == Kept(s, kept)
           r == Return(s, entry, move)
<1> HIDE DEF kept
<1>1. Fits(s, kept)
    BY DEF kept
<1>2. StockTypes(t) /\ t.returned = s.returned
    BY <1>1, KeptIs
<1>3. r = [t EXCEPT !.returned = [t.returned EXCEPT ![entry.move] = t.returned[entry.move] + move.quantity]]
    BY DEF Return, kept
<1> HIDE DEF t, r
<1>4. t = [moves |-> t.moves, valuations |-> t.valuations, returned |-> t.returned]
    BY <1>2 DEF StockTypes
<1>5. r = [moves |-> t.moves, valuations |-> t.valuations,
           returned |-> [t.returned EXCEPT ![entry.move] = t.returned[entry.move] + move.quantity]]
    BY <1>3, <1>4
<1>6. t.returned \in [Moves -> Nat]
    BY <1>2 DEF StockTypes
<1>7. \A m \in Moves : r.returned[m] = t.returned[m] + (IF m = entry.move THEN move.quantity ELSE 0)
    BY <1>5, <1>6
<1>8. StockTypes(r)
    BY <1>2, <1>5, <1>6 DEF StockTypes
<1> QED BY <1>1, <1>2, <1>5, <1>7, <1>8 DEF kept, t, r

-----------------------------------------------------------------------------
(* Movements of a log that are picked out, counted and added up.           *)

Named(id, moves) == {m \in DOMAIN moves : moves[m].id = id}
Ins(item, moves) == {m \in DOMAIN moves : moves[m].item = item /\ moves[m].direction = "in"}
Outs(id, moves)  == {m \in DOMAIN moves : moves[m].id = id /\ moves[m].direction = "out"}

Quantities(moves) == [n \in DOMAIN moves |-> moves[n].quantity]

TakenIn(item, moves) == Over(Quantities(moves), Ins(item, moves))
LetOut(id, moves)    == Over(Quantities(moves), Outs(id, moves))

\* A selection of the movements of a log comes to a natural number.
LEMMA SelectionNat ==
    ASSUME NEW moves \in Seq(Movement), NEW sel \in SUBSET DOMAIN moves
    PROVE  Over(Quantities(moves), sel) \in Nat /\ IsFiniteSet(sel) /\ Cardinality(sel) \in Nat
<1>1. DOMAIN moves = 1 .. Len(moves) /\ Len(moves) \in Nat
    BY LenProperties
<1>2. IsFiniteSet(sel)
  <2>1. IsFiniteSet(1 .. Len(moves))
    BY <1>1, FS_Interval
  <2> QED BY <1>1, <2>1, FS_Subset
<1>3. \A n \in sel : Quantities(moves)[n] \in Nat
  <2> TAKE n \in sel
  <2>1. moves[n] \in Movement
    BY <1>1, ElementOfSeq
  <2> QED BY <2>1 DEF Quantities, Movement
<1> QED BY <1>2, <1>3, OverNat, FS_CardinalityType

\* A selection of a longer log, the new movement in it or not.
LEMMA SelectionNext ==
    ASSUME NEW moves \in Seq(Movement), NEW move \in Movement,
           NEW sel \in SUBSET DOMAIN moves
    PROVE  /\ Over(Quantities(moves), sel) \in Nat /\ Cardinality(sel) \in Nat
           /\ Over(Quantities(Append(moves, move)), sel) = Over(Quantities(moves), sel)
           /\ Over(Quantities(Append(moves, move)), sel \cup {Len(moves) + 1})
                = Over(Quantities(moves), sel) + move.quantity
           /\ Cardinality(sel \cup {Len(moves) + 1}) = Cardinality(sel) + 1
<1> DEFINE log == Append(moves, move)
           len == Len(moves)
           f == Quantities(moves)
           g == Quantities(log)
<1>1. /\ log \in Seq(Movement) /\ len \in Nat /\ DOMAIN moves = 1 .. len /\ DOMAIN log = 1 .. len + 1
      /\ \A n \in 1 .. len : log[n] = moves[n] /\ moves[n] \in Movement
      /\ log[len + 1] = move
    BY LogGrows
<1>2. Over(f, sel) \in Nat /\ IsFiniteSet(sel) /\ Cardinality(sel) \in Nat
    BY SelectionNat
<1> HIDE DEF log, len
<1>3. len + 1 \notin sel
    BY <1>1
<1>4. Alike(g, f, sel)
    BY <1>1 DEF Alike, Quantities
<1>5. Over(g, sel) = Over(f, sel)
    BY <1>4, OverSame
<1>6. Cardinality(sel \cup {len + 1}) = Cardinality(sel) + 1
    BY <1>2, <1>3, FS_AddElement
<1>7. \A n \in sel \cup {len + 1} : g[n] \in Int
    BY <1>1 DEF Quantities, Movement
<1>8. g[len + 1] = move.quantity
    BY <1>1 DEF Quantities
<1> HIDE DEF f, g
<1>9. Over(g, sel \cup {len + 1}) = Over(g, sel) + g[len + 1]
    BY <1>2, <1>3, <1>7, OverAdd
<1> QED BY <1>2, <1>5, <1>6, <1>8, <1>9 DEF f, g, log, len

\* What a movement more adds to each selection.
LEMMA SelectionsNext ==
    ASSUME NEW moves \in Seq(Movement), NEW move \in Movement
    PROVE  /\ \A id : Cardinality(Named(id, Append(moves, move)))
                        = Cardinality(Named(id, moves)) + (IF move.id = id THEN 1 ELSE 0)
           /\ \A item : TakenIn(item, Append(moves, move))
                        = TakenIn(item, moves)
                            + (IF move.item = item /\ move.direction = "in" THEN move.quantity ELSE 0)
           /\ \A id : LetOut(id, Append(moves, move))
                        = LetOut(id, moves)
                            + (IF move.id = id /\ move.direction = "out" THEN move.quantity ELSE 0)
<1> DEFINE log == Append(moves, move)
           len == Len(moves)
<1>1. /\ len \in Nat /\ DOMAIN moves = 1 .. len /\ DOMAIN log = 1 .. len + 1
      /\ \A n \in 1 .. len : log[n] = moves[n]
      /\ log[len + 1] = move
    BY LogGrows
<1>2. \A n \in 1 .. len + 1 : n \in 1 .. len \/ n = len + 1
    BY <1>1
<1>3. \A n \in 1 .. len : n \in 1 .. len + 1
    BY <1>1
<1>4. len + 1 \in 1 .. len + 1
    BY <1>1
<1> HIDE DEF log, len
<1>5. \A id : Named(id, log) = IF move.id = id THEN Named(id, moves) \cup {len + 1} ELSE Named(id, moves)
    BY <1>1, <1>2, <1>3, <1>4 DEF Named
<1>6. \A item : Ins(item, log) = IF move.item = item /\ move.direction = "in"
                                 THEN Ins(item, moves) \cup {len + 1} ELSE Ins(item, moves)
    BY <1>1, <1>2, <1>3, <1>4 DEF Ins
<1>7. \A id : Outs(id, log) = IF move.id = id /\ move.direction = "out"
                              THEN Outs(id, moves) \cup {len + 1} ELSE Outs(id, moves)
    BY <1>1, <1>2, <1>3, <1>4 DEF Outs
<1>8. \A id : Named(id, moves) \in SUBSET DOMAIN moves
    BY DEF Named
<1>9. \A item : Ins(item, moves) \in SUBSET DOMAIN moves
    BY DEF Ins
<1>10. \A id : Outs(id, moves) \in SUBSET DOMAIN moves
    BY DEF Outs
<1>11. ASSUME NEW id
       PROVE  Cardinality(Named(id, log)) = Cardinality(Named(id, moves)) + (IF move.id = id THEN 1 ELSE 0)
  <2> DEFINE sel == Named(id, moves)
  <2>1. sel \in SUBSET DOMAIN moves
    BY <1>8
  <2> HIDE DEF sel
  <2>2. /\ Over(Quantities(moves), sel) \in Nat /\ Cardinality(sel) \in Nat
        /\ Over(Quantities(log), sel) = Over(Quantities(moves), sel)
        /\ Over(Quantities(log), sel \cup {len + 1}) = Over(Quantities(moves), sel) + move.quantity
        /\ Cardinality(sel \cup {len + 1}) = Cardinality(sel) + 1
    BY <2>1, SelectionNext DEF log, len
  <2>3. Named(id, log) = IF move.id = id THEN sel \cup {len + 1} ELSE sel
    BY <1>5 DEF sel
  <2>4. Named(id, moves) = sel
    BY DEF sel
  <2> QED BY <2>2, <2>3, <2>4
<1>12. ASSUME NEW item
       PROVE  TakenIn(item, log) = TakenIn(item, moves)
                    + (IF move.item = item /\ move.direction = "in" THEN move.quantity ELSE 0)
  <2> DEFINE sel == Ins(item, moves)
  <2>1. sel \in SUBSET DOMAIN moves
    BY <1>9
  <2> HIDE DEF sel
  <2>2. /\ Over(Quantities(moves), sel) \in Nat /\ Cardinality(sel) \in Nat
        /\ Over(Quantities(log), sel) = Over(Quantities(moves), sel)
        /\ Over(Quantities(log), sel \cup {len + 1}) = Over(Quantities(moves), sel) + move.quantity
        /\ Cardinality(sel \cup {len + 1}) = Cardinality(sel) + 1
    BY <2>1, SelectionNext DEF log, len
  <2>3. Ins(item, log) = IF move.item = item /\ move.direction = "in" THEN sel \cup {len + 1} ELSE sel
    BY <1>6 DEF sel
  <2>4. TakenIn(item, moves) = Over(Quantities(moves), sel)
        /\ TakenIn(item, log) = Over(Quantities(log), Ins(item, log))
    BY DEF TakenIn, sel
  <2> QED BY <2>2, <2>3, <2>4
<1>13. ASSUME NEW id
       PROVE  LetOut(id, log) = LetOut(id, moves)
                    + (IF move.id = id /\ move.direction = "out" THEN move.quantity ELSE 0)
  <2> DEFINE sel == Outs(id, moves)
  <2>1. sel \in SUBSET DOMAIN moves
    BY <1>10
  <2> HIDE DEF sel
  <2>2. /\ Over(Quantities(moves), sel) \in Nat /\ Cardinality(sel) \in Nat
        /\ Over(Quantities(log), sel) = Over(Quantities(moves), sel)
        /\ Over(Quantities(log), sel \cup {len + 1}) = Over(Quantities(moves), sel) + move.quantity
        /\ Cardinality(sel \cup {len + 1}) = Cardinality(sel) + 1
    BY <2>1, SelectionNext DEF log, len
  <2>3. Outs(id, log) = IF move.id = id /\ move.direction = "out" THEN sel \cup {len + 1} ELSE sel
    BY <1>7 DEF sel
  <2>4. LetOut(id, moves) = Over(Quantities(moves), sel)
        /\ LetOut(id, log) = Over(Quantities(log), Outs(id, log))
    BY DEF LetOut, sel
  <2> QED BY <2>2, <2>3, <2>4
<1> QED BY <1>11, <1>12, <1>13 DEF log

LEMMA SelectionsNat ==
    ASSUME NEW moves \in Seq(Movement)
    PROVE  \A x : TakenIn(x, moves) \in Nat /\ LetOut(x, moves) \in Nat
                    /\ Cardinality(Named(x, moves)) \in Nat
<1> TAKE x
<1>1. /\ Named(x, moves) \in SUBSET DOMAIN moves /\ Ins(x, moves) \in SUBSET DOMAIN moves
      /\ Outs(x, moves) \in SUBSET DOMAIN moves
    BY DEF Named, Ins, Outs
<1> QED BY <1>1, SelectionNat DEF TakenIn, LetOut

\* One movement more and no selection comes to less.
LEMMA SelectionsGrow ==
    ASSUME NEW moves \in Seq(Movement), NEW move \in Movement
    PROVE  \A x : /\ TakenIn(x, moves) <= TakenIn(x, Append(moves, move))
                  /\ LetOut(x, moves) <= LetOut(x, Append(moves, move))
                  /\ Cardinality(Named(x, moves)) <= Cardinality(Named(x, Append(moves, move)))
<1> TAKE x
<1>1. TakenIn(x, moves) \in Nat /\ LetOut(x, moves) \in Nat /\ Cardinality(Named(x, moves)) \in Nat
    BY SelectionsNat
<1>2. move.quantity \in Nat
    BY DEF Movement
<1>3. TakenIn(x, Append(moves, move)) = TakenIn(x, moves)
            + (IF move.item = x /\ move.direction = "in" THEN move.quantity ELSE 0)
    BY SelectionsNext
<1>4. LetOut(x, Append(moves, move)) = LetOut(x, moves)
            + (IF move.id = x /\ move.direction = "out" THEN move.quantity ELSE 0)
    BY SelectionsNext
<1>5. Cardinality(Named(x, Append(moves, move))) = Cardinality(Named(x, moves)) + (IF move.id = x THEN 1 ELSE 0)
    BY SelectionsNext
<1> QED BY <1>1, <1>2, <1>3, <1>4, <1>5

-----------------------------------------------------------------------------
(* The warehouse and the papers about it.                                  *)

ValidOrders   == {c \in Commands : c.kind = "order" /\ ValidOrder(c)}
ValidReceipts == {c \in Commands : c.kind = "receipt" /\ ValidReceipt(c)}

CostRow == [move : Moves, item : Items, quantity : Nat \ {0}, unitCost : Nat, amount : Int]

\* A receipt under way: the price of every line, and the line it is at.
Recording(now) ==
    /\ now = [pc |-> now.pc, receipt |-> now.receipt, at |-> now.at, prices |-> now.prices]
    /\ now.receipt \in ValidReceipts
    /\ now.at \in 1 .. Len(now.receipt.lines)
    /\ now.prices \in [DOMAIN now.receipt.lines -> Nat]

\* A flow that posts: its voucher, and what it does after.
Posting(now) ==
    /\ now = [pc |-> now.pc, voucher |-> now.voucher, then |-> now.then]
    /\ now.then.pc \in {"create", "apply", "done"}

\* The lines of a receipt that the warehouse has.
Done(now) ==
    IF now.pc = "record" THEN 1 .. now.at - 1
    ELSE IF now.pc = "save" THEN DOMAIN now.receipt.lines
    ELSE {}

LineUnits(item, ls) == [i \in DOMAIN ls |-> IF ls[i].item = item THEN ls[i].quantity ELSE 0]

UnitsDone(item, now) == Over(LineUnits(item, now.receipt.lines), Done(now))

AtDesk(now) ==
    /\ now.pc \in {"record", "save"} => Recording(now)
    /\ now.pc \in {"post", "create", "apply"} => Posting(now)

OrderTypes ==
    /\ orders = [o \in Orders |-> orders[o]]
    /\ \A o \in Orders : orders[o] = NoOrder \/ orders[o] \in ValidOrders

DeskTypes == call = [s \in Sessions |-> call[s]]

PaperTypes ==
    /\ OrderTypes /\ DeskTypes
    /\ receipts \in Seq(ValidReceipts)
    /\ costs \subseteq CostRow
    /\ \A s \in Sessions : AtDesk(call[s])

\* What left under an issue is at least what its cost entries say, and what came
\* back is no more.
IssuesBacked ==
    /\ \A e \in costs : e.quantity <= LetOut(e.move, stock.moves)
    /\ \A m \in Moves : stock.returned[m] <= LetOut(m, stock.moves)

SavedAs(r, i)    == {k \in DOMAIN receipts : receipts[k].id = r /\ i \in DOMAIN receipts[k].lines}
RecordedAs(r, i) == {s \in Sessions : i \in Done(call[s]) /\ call[s].receipt.id = r}

\* Every receipt saved, and every line recorded of one that is not saved yet,
\* has a movement of its own.
LinesMoved ==
    \A r \in STRING : \A i \in Nat :
        Cardinality(Named(<<r, i>>, stock.moves)) >= Cardinality(SavedAs(r, i)) + Cardinality(RecordedAs(r, i))

Arrived(item)  == [k \in DOMAIN receipts |-> Units(item, receipts[k].lines)]
Arriving(item) == [s \in Sessions |-> UnitsDone(item, call[s])]

UnitsMoved ==
    \A item \in Items :
        TakenIn(item, stock.moves) >= Over(Arrived(item), DOMAIN receipts) + Over(Arriving(item), Sessions)

\* A bill that warns of nothing is for goods the warehouse took in.
Bills(now) == now.pc \in {"post", "create"} /\ "warnings" \in DOMAIN now.then

BillBacked(now) ==
    Bills(now) =>
        /\ now.then.order \in Orders /\ orders[now.then.order] # NoOrder
        /\ \A item \in Items \ now.then.warnings :
            TakenIn(item, stock.moves) >= Units(item, orders[now.then.order].lines)

WarehouseIInv ==
    /\ StockTypes(stock) /\ Carried(stock)
    /\ PaperTypes
    /\ IssuesBacked
    /\ LinesMoved /\ UnitsMoved
    /\ \A s \in Sessions : BillBacked(call[s])

\* A sequence of lines that all name a quantity comes to a natural number.
LEMMA UnitsNat ==
    ASSUME NEW c \in ValidReceipts, NEW item
    PROVE  /\ c.lines \in Seq(ArrivedLine) /\ DOMAIN c.lines = 1 .. Len(c.lines) /\ Len(c.lines) \in Nat
           /\ c.lines # <<>>
           /\ c.id \in STRING /\ c.order \in Orders
           /\ IsFiniteSet(DOMAIN c.lines)
           /\ \A i \in DOMAIN c.lines : c.lines[i] \in ArrivedLine /\ c.lines[i].quantity \in Nat \ {0}
           /\ \A i \in DOMAIN c.lines : LineUnits(item, c.lines)[i] \in Nat
           /\ Units(item, c.lines) = Over(LineUnits(item, c.lines), DOMAIN c.lines)
           /\ Units(item, c.lines) \in Nat
<1>1. c \in ReceiptCommand /\ ValidReceipt(c)
    BY CommandForms DEF ValidReceipts
<1>2. /\ c.lines \in Seq(ArrivedLine) /\ DOMAIN c.lines = 1 .. Len(c.lines) /\ Len(c.lines) \in Nat
      /\ c.id \in STRING /\ c.order \in Orders
    BY <1>1, LenProperties DEF ReceiptCommand
<1>3. IsFiniteSet(DOMAIN c.lines)
    BY <1>2, FS_Interval
<1>4. \A i \in DOMAIN c.lines : c.lines[i] \in ArrivedLine /\ c.lines[i].quantity \in Nat \ {0}
  <2> TAKE i \in DOMAIN c.lines
  <2>1. c.lines[i] \in ArrivedLine
    BY <1>2, ElementOfSeq
  <2>2. c.lines[i].quantity > 0
    BY <1>1 DEF ValidReceipt
  <2> QED BY <2>1, <2>2 DEF ArrivedLine
<1>5. \A i \in DOMAIN c.lines : LineUnits(item, c.lines)[i] \in Nat
    BY <1>4 DEF LineUnits
<1>6. Units(item, c.lines) = Over(LineUnits(item, c.lines), DOMAIN c.lines)
    BY DEF Units, SumOf, Over, LineUnits
<1>7. Over(LineUnits(item, c.lines), DOMAIN c.lines) \in Nat
    BY <1>3, <1>5, OverNat
<1>8. c.lines # <<>>
    BY <1>1 DEF ValidReceipt
<1> QED BY <1>2, <1>3, <1>4, <1>5, <1>6, <1>7, <1>8

\* What the warehouse has of a receipt under way.
LEMMA DoneFacts ==
    ASSUME NEW now, AtDesk(now), NEW item
    PROVE  /\ IsFiniteSet(Done(now)) /\ Done(now) \subseteq Nat
           /\ UnitsDone(item, now) \in Nat
           /\ Done(now) = {} => UnitsDone(item, now) = 0
<1>1. CASE now.pc \in {"record", "save"}
  <2>1. /\ now.receipt \in ValidReceipts
        /\ now.at \in 1 .. Len(now.receipt.lines)
      BY <1>1 DEF AtDesk, Recording
  <2> DEFINE ls == now.receipt.lines
  <2>2. /\ DOMAIN ls = 1 .. Len(ls) /\ Len(ls) \in Nat /\ IsFiniteSet(DOMAIN ls)
        /\ \A i \in DOMAIN ls : LineUnits(item, ls)[i] \in Nat
      BY <2>1, UnitsNat
  <2>3. Done(now) \in SUBSET DOMAIN ls
      BY <1>1, <2>1, <2>2 DEF Done
  <2>4. IsFiniteSet(Done(now))
      BY <2>2, <2>3, FS_Subset
  <2>5. \A i \in Done(now) : LineUnits(item, ls)[i] \in Nat
      BY <2>2, <2>3
  <2>6. Over(LineUnits(item, ls), Done(now)) \in Nat
    <3> DEFINE f == LineUnits(item, ls)
               some == Done(now)
    <3>1. IsFiniteSet(some) /\ \A i \in some : f[i] \in Nat
      BY <2>4, <2>5
    <3> HIDE DEF f, some
    <3>2. Over(f, some) \in Nat
      BY <3>1, OverNat
    <3> QED BY <3>2 DEF f, some
  <2>7. Done(now) \subseteq Nat
      BY <2>2, <2>3
  <2>8. Done(now) = {} => UnitsDone(item, now) = 0
      BY OverEmpty DEF UnitsDone
  <2> QED BY <2>4, <2>6, <2>7, <2>8 DEF UnitsDone, ls
<1>2. CASE now.pc \notin {"record", "save"}
    BY <1>2, OverEmpty, FS_EmptySet DEF Done, UnitsDone
<1> QED BY <1>1, <1>2

\* The same amounts but for one.
LEMMA OverBut ==
    ASSUME NEW f, NEW g, NEW S, IsFiniteSet(S), \A x \in S : f[x] \in Int /\ g[x] \in Int,
           NEW y \in S, \A x \in S \ {y} : g[x] = f[x]
    PROVE  Over(g, S) = Over(f, S) + g[y] - f[y]
<1> DEFINE rest == S \ {y}
<1>1. Over(f, S) = f[y] + Over(f, rest) /\ Over(g, S) = g[y] + Over(g, rest)
    BY OverRemove
<1>2. Alike(g, f, rest)
    BY DEF Alike
<1>3. IsFiniteSet(rest) /\ \A x \in rest : f[x] \in Int
    BY FS_Subset
<1> HIDE DEF rest
<1>4. Over(g, rest) = Over(f, rest) /\ Over(f, rest) \in Int
    BY <1>2, <1>3, OverSame, OverInt
<1> QED BY <1>1, <1>4

\* The units of a receipt, one line more of it moved.
LEMMA DoneNext ==
    ASSUME NEW now, Recording(now), now.pc = "record", NEW then,
           then.receipt = now.receipt,
           \/ now.at < Len(now.receipt.lines) /\ then.pc = "record" /\ then.at = now.at + 1
           \/ ~(now.at < Len(now.receipt.lines)) /\ then.pc = "save",
           NEW item
    PROVE  /\ now.at \in DOMAIN now.receipt.lines /\ now.at \notin Done(now)
           /\ Done(then) = Done(now) \cup {now.at}
           /\ UnitsDone(item, then) = UnitsDone(item, now) + LineUnits(item, now.receipt.lines)[now.at]
<1> DEFINE ls == now.receipt.lines
           f == LineUnits(item, ls)
<1>1. now.receipt \in ValidReceipts /\ now.at \in 1 .. Len(ls)
    BY DEF Recording
<1>2. /\ DOMAIN ls = 1 .. Len(ls) /\ Len(ls) \in Nat /\ IsFiniteSet(DOMAIN ls)
      /\ \A i \in DOMAIN ls : f[i] \in Nat
    BY <1>1, UnitsNat
<1> HIDE DEF f
<1>3. Done(now) = 1 .. now.at - 1
    BY DEF Done
<1>4. Done(then) = 1 .. now.at
    BY <1>1, <1>2 DEF Done
<1>5. now.at \in DOMAIN ls /\ now.at \notin 1 .. now.at - 1 /\ 1 .. now.at = (1 .. now.at - 1) \cup {now.at}
    BY <1>1, <1>2
<1> DEFINE done == Done(now)
<1>6. IsFiniteSet(done) /\ \A i \in done \cup {now.at} : f[i] \in Int
  <2>1. \A i \in 1 .. now.at : i \in DOMAIN ls
    BY <1>1, <1>2
  <2> QED BY <1>2, <1>3, <1>5, <2>1, FS_Subset
<1> DEFINE at == now.at
<1>7. at \notin done
    BY <1>3, <1>5
<1> HIDE DEF done, at
<1>8. Over(f, done \cup {at}) = Over(f, done) + f[at]
    BY <1>6, <1>7, OverAdd DEF at
<1> QED BY <1>3, <1>4, <1>5, <1>8 DEF UnitsDone, f, done, at

\* No selection comes to less than it did.
Grown == \A x : /\ TakenIn(x, stock.moves) <= TakenIn(x, stock'.moves)
                /\ LetOut(x, stock.moves) <= LetOut(x, stock'.moves)
                /\ Cardinality(Named(x, stock.moves)) <= Cardinality(Named(x, stock'.moves))

\* Steps that save no receipt and record no line of one: what is under way is
\* what was, or there is none of it.
LEMMA PapersStand ==
    ASSUME PaperTypes, PaperTypes', StockTypes(stock), StockTypes(stock'), LinesMoved, UnitsMoved,
           Grown, UNCHANGED receipts,
           \A s \in Sessions : call'[s] = call[s] \/ Done(call'[s]) = {}
    PROVE  LinesMoved' /\ UnitsMoved'
<1>1. \A s \in Sessions : AtDesk(call[s]) /\ AtDesk(call'[s])
    BY DEF PaperTypes
<1>2. \A x : /\ TakenIn(x, stock.moves) \in Nat /\ TakenIn(x, stock'.moves) \in Nat
             /\ Cardinality(Named(x, stock.moves)) \in Nat /\ Cardinality(Named(x, stock'.moves)) \in Nat
    BY SelectionsNat DEF StockTypes
<1>3. ASSUME NEW r \in STRING, NEW i \in Nat
      PROVE  Cardinality(Named(<<r, i>>, stock'.moves)) >= Cardinality(SavedAs(r, i)') + Cardinality(RecordedAs(r, i)')
  <2>1. SavedAs(r, i)' = SavedAs(r, i)
    BY DEF SavedAs
  <2>2. RecordedAs(r, i)' \subseteq RecordedAs(r, i)
    BY DEF RecordedAs, Done
  <2>3. RecordedAs(r, i) \subseteq Sessions
    BY DEF RecordedAs
  <2>4. IsFiniteSet(RecordedAs(r, i))
    BY <2>3, SessionsAssumption, FS_Subset
  <2>5. /\ Cardinality(RecordedAs(r, i)') <= Cardinality(RecordedAs(r, i))
        /\ Cardinality(RecordedAs(r, i)') \in Nat /\ Cardinality(RecordedAs(r, i)) \in Nat
    BY <2>2, <2>4, FS_Subset, FS_CardinalityType
  <2>6. SavedAs(r, i) \subseteq DOMAIN receipts /\ DOMAIN receipts = 1 .. Len(receipts) /\ Len(receipts) \in Nat
    BY LenProperties DEF SavedAs, PaperTypes
  <2>7. Cardinality(SavedAs(r, i)) \in Nat
    <3>1. IsFiniteSet(1 .. Len(receipts))
      BY <2>6, FS_Interval
    <3> QED BY <2>6, <3>1, FS_Subset, FS_CardinalityType
  <2>8. Cardinality(Named(<<r, i>>, stock.moves)) >= Cardinality(SavedAs(r, i)) + Cardinality(RecordedAs(r, i))
    BY DEF LinesMoved
  <2>9. Cardinality(Named(<<r, i>>, stock.moves)) <= Cardinality(Named(<<r, i>>, stock'.moves))
    BY DEF Grown
  <2> QED BY <1>2, <2>1, <2>5, <2>7, <2>8, <2>9
<1>4. ASSUME NEW item \in Items
      PROVE  TakenIn(item, stock'.moves) >= Over(Arrived(item)', DOMAIN receipts') + Over(Arriving(item)', Sessions)
  <2>1. Arrived(item)' = Arrived(item)
    BY DEF Arrived
  <2> DEFINE f == Arriving(item)
             g == Arriving(item)'
  <2>2. \A s \in Sessions : f[s] \in Nat /\ g[s] \in Nat /\ g[s] <= f[s]
    BY <1>1, DoneFacts DEF Arriving
  <2> HIDE DEF f, g
  <2>3. Over(g, Sessions) <= Over(f, Sessions) /\ Over(f, Sessions) \in Nat /\ Over(g, Sessions) \in Nat
    BY <2>2, SessionsAssumption, OverAtMost, OverNat
  <2>4. Over(Arrived(item), DOMAIN receipts) \in Nat
    <3>1. DOMAIN receipts = 1 .. Len(receipts) /\ Len(receipts) \in Nat
      BY LenProperties DEF PaperTypes
    <3>2. IsFiniteSet(DOMAIN receipts)
      BY <3>1, FS_Interval
    <3>3. \A k \in DOMAIN receipts : Arrived(item)[k] \in Nat
      BY <3>1, ElementOfSeq, UnitsNat DEF Arrived, PaperTypes
    <3> QED BY <3>2, <3>3, OverNat
  <2>5. TakenIn(item, stock.moves) >= Over(Arrived(item), DOMAIN receipts) + Over(f, Sessions)
    BY DEF UnitsMoved, f
  <2>6. TakenIn(item, stock.moves) <= TakenIn(item, stock'.moves)
    BY DEF Grown
  <2> QED BY <1>2, <2>1, <2>3, <2>4, <2>5, <2>6 DEF g
<1> QED BY <1>3, <1>4 DEF LinesMoved, UnitsMoved

\* Bills that were backed are, while orders stand and the warehouse only grows.
LEMMA BillsStand ==
    ASSUME \A s \in Sessions : BillBacked(call[s]), Grown,
           StockTypes(stock), StockTypes(stock'), \A o \in Orders : orders[o] # NoOrder => orders'[o] = orders[o],
           \A o \in Orders : \A item \in Items :
                orders[o] # NoOrder => Units(item, orders[o].lines) \in Int,
           \A s \in Sessions :
                Bills(call'[s]) => Bills(call[s]) /\ call'[s].then = call[s].then
    PROVE  (\A s \in Sessions : BillBacked(call[s]))'
<1> SUFFICES ASSUME NEW s \in Sessions, Bills(call'[s])
             PROVE  /\ call'[s].then.order \in Orders /\ orders'[call'[s].then.order] # NoOrder
                    /\ \A item \in Items \ call'[s].then.warnings :
                        TakenIn(item, stock'.moves) >= Units(item, orders'[call'[s].then.order].lines)
    BY DEF BillBacked, Bills
<1> DEFINE then == call[s].then
<1>1. Bills(call[s]) /\ call'[s].then = then
    OBVIOUS
<1>2. /\ then.order \in Orders /\ orders[then.order] # NoOrder
      /\ \A item \in Items \ then.warnings : TakenIn(item, stock.moves) >= Units(item, orders[then.order].lines)
    BY <1>1 DEF BillBacked
<1>3. orders'[then.order] = orders[then.order]
    BY <1>2
<1> HIDE DEF then
<1>4. ASSUME NEW item \in Items \ then.warnings
      PROVE  TakenIn(item, stock'.moves) >= Units(item, orders[then.order].lines)
  <2>1. TakenIn(item, stock.moves) \in Nat /\ TakenIn(item, stock'.moves) \in Nat
    BY SelectionsNat DEF StockTypes
  <2>2. TakenIn(item, stock.moves) <= TakenIn(item, stock'.moves)
    BY DEF Grown
  <2>3. Units(item, orders[then.order].lines) \in Int
    BY <1>2
  <2> QED BY <1>2, <2>1, <2>2, <2>3
<1> QED BY <1>1, <1>2, <1>3, <1>4

\* An order's lines are goods, at prices that are not negative.
LEMMA OrderFacts ==
    ASSUME NEW c \in ValidOrders
    PROVE  /\ c.lines \in Seq(SourceLine) /\ DOMAIN c.lines = 1 .. Len(c.lines) /\ Len(c.lines) \in Nat
           /\ \A i \in DOMAIN c.lines : /\ c.lines[i] \in SourceLine
                                       /\ c.lines[i].quantity \in Nat \ {0} /\ c.lines[i].price \in Nat
           /\ \A item : Units(item, c.lines) \in Nat
<1>1. c \in OrderCommand /\ ValidOrder(c)
    BY CommandForms DEF ValidOrders
<1>2. c.lines \in Seq(SourceLine) /\ DOMAIN c.lines = 1 .. Len(c.lines) /\ Len(c.lines) \in Nat
    BY <1>1, LenProperties DEF OrderCommand
<1>3. \A i \in DOMAIN c.lines : /\ c.lines[i] \in SourceLine
                                /\ c.lines[i].quantity \in Nat \ {0} /\ c.lines[i].price \in Nat
  <2> TAKE i \in DOMAIN c.lines
  <2>1. c.lines[i] \in SourceLine
    BY <1>2, ElementOfSeq
  <2>2. c.lines[i].quantity > 0 /\ c.lines[i].price >= 0
    BY <1>1 DEF ValidOrder, ValidSource
  <2> QED BY <2>1, <2>2 DEF SourceLine
<1>4. ASSUME NEW item PROVE Units(item, c.lines) \in Nat
  <2> DEFINE f == LineUnits(item, c.lines)
             all == DOMAIN c.lines
  <2>1. Units(item, c.lines) = Over(f, all)
    BY DEF Units, SumOf, Over, LineUnits
  <2>2. IsFiniteSet(all)
    BY <1>2, FS_Interval
  <2>3. \A i \in all : f[i] \in Nat
    BY <1>3 DEF LineUnits
  <2> HIDE DEF f, all
  <2> QED BY <2>1, <2>2, <2>3, OverNat
<1> QED BY <1>2, <1>3, <1>4

\* Steps of a session that leave the warehouse and its papers alone.
LEMMA DeskStep ==
    ASSUME WarehouseIInv, NEW s \in Sessions, NEW now,
           call' = [call EXCEPT ![s] = now], UNCHANGED <<orders, receipts, stock, costs>>,
           AtDesk(now), Done(now) = {}, BillBacked(now)
    PROVE  WarehouseIInv'
<1> USE DEF WarehouseIInv
<1>1. call'[s] = now /\ \A t \in Sessions : t # s => call'[t] = call[t]
    BY DEF PaperTypes, DeskTypes
<1>2. PaperTypes'
  <2>1. OrderTypes' /\ DeskTypes'
    BY DEF PaperTypes, OrderTypes, DeskTypes
  <2>2. \A t \in Sessions : AtDesk(call'[t])
    BY <1>1 DEF PaperTypes
  <2> QED BY <2>1, <2>2 DEF PaperTypes
<1>3. StockTypes(stock') /\ Carried(stock')
    OBVIOUS
<1>4. Grown
  <2>1. stock' = stock /\ stock.moves \in Seq(Movement)
    BY DEF StockTypes
  <2> QED BY <2>1, SelectionsNat DEF Grown
<1>5. LinesMoved' /\ UnitsMoved'
    BY <1>1, <1>2, <1>3, <1>4, PapersStand
<1>6. IssuesBacked'
    BY DEF IssuesBacked
<1>7. \A t \in Sessions : BillBacked(call'[t])
    BY <1>1
<1>8. (\A t \in Sessions : BillBacked(call[t]))'
    BY <1>7 DEF BillBacked, Bills
<1> QED BY <1>2, <1>3, <1>5, <1>6, <1>8 DEF StockTypes, Carried

\* A movement let in keeps the ledger's own promises.
LEMMA StockStep ==
    ASSUME StockTypes(stock), Carried(stock), NEW move, Fits(stock, move), StockTypes(stock'),
           stock'.moves = Kept(stock, move).moves, stock'.valuations = Kept(stock, move).valuations
    PROVE  /\ Carried(stock') /\ Grown
           /\ stock'.moves = Append(stock.moves, move)
           /\ stock.moves \in Seq(Movement) /\ move \in Movement
<1>1. stock.moves \in Seq(Movement) /\ move \in Movement
    BY DEF StockTypes, Fits
<1>2. stock'.moves = Append(stock.moves, move)
    BY KeptIs
<1>3. Carried(Kept(stock, move))
    BY KeptCarries
<1>4. Carried(stock')
    BY <1>3 DEF Carried, CarriedAt
<1>5. Grown
    BY <1>1, <1>2, SelectionsGrow DEF Grown
<1> QED BY <1>1, <1>2, <1>4, <1>5

\* Every order's units are a natural number.
LEMMA OrderedUnits ==
    ASSUME PaperTypes, NEW o \in Orders, orders[o] # NoOrder, NEW item
    PROVE  Units(item, orders[o].lines) \in Nat
<1>1. orders[o] \in ValidOrders
    BY DEF PaperTypes, OrderTypes
<1> QED BY <1>1, OrderFacts

\* Goods that move for another reason than a receipt.
LEMMA GoodsStep ==
    ASSUME WarehouseIInv, NEW move, Fits(stock, move), StockTypes(stock'),
           stock'.moves = Kept(stock, move).moves, stock'.valuations = Kept(stock, move).valuations,
           UNCHANGED <<orders, receipts>>, costs' \subseteq CostRow, IssuesBacked', DeskTypes',
           \A t \in Sessions : AtDesk(call'[t]),
           \A t \in Sessions : call'[t] # call[t] => Done(call'[t]) = {} /\ ~Bills(call'[t])
    PROVE  WarehouseIInv'
<1> USE DEF WarehouseIInv
<1>1. /\ Carried(stock') /\ Grown
      /\ stock'.moves = Append(stock.moves, move)
      /\ stock.moves \in Seq(Movement) /\ move \in Movement
    BY StockStep
<1>2. PaperTypes'
    BY DEF PaperTypes, OrderTypes
<1>3. LinesMoved' /\ UnitsMoved'
    BY <1>1, <1>2, PapersStand
<1>4. (\A t \in Sessions : BillBacked(call[t]))'
  <2>1. \A o \in Orders : orders[o] # NoOrder => orders'[o] = orders[o]
    OBVIOUS
  <2>2. \A o \in Orders : \A item \in Items : orders[o] # NoOrder => Units(item, orders[o].lines) \in Int
    BY OrderedUnits
  <2>3. ASSUME NEW t \in Sessions
        PROVE  Bills(call'[t]) => Bills(call[t]) /\ call'[t].then = call[t].then
    <3>1. CASE call'[t] = call[t]
      BY <3>1 DEF Bills
    <3>2. CASE call'[t] # call[t]
      BY <3>2
    <3> QED BY <3>1, <3>2
  <2> QED BY <1>1, <2>1, <2>2, <2>3, BillsStand
<1> QED BY <1>1, <1>2, <1>3, <1>4 DEF StockTypes, Carried

\* What came back stays within what left, while nothing else comes back.
LEMMA IssuesStand ==
    ASSUME IssuesBacked, Grown, PaperTypes, StockTypes(stock), StockTypes(stock'),
           stock'.returned = stock.returned, UNCHANGED costs
    PROVE  IssuesBacked'
<1>1. \A m : LetOut(m, stock.moves) \in Nat /\ LetOut(m, stock'.moves) \in Nat
              /\ LetOut(m, stock.moves) <= LetOut(m, stock'.moves)
    BY SelectionsNat DEF Grown, StockTypes
<1>2. ASSUME NEW e \in costs PROVE e.quantity <= LetOut(e.move, stock'.moves)
  <2>1. e.quantity \in Nat
    BY DEF PaperTypes, CostRow
  <2>2. e.quantity <= LetOut(e.move, stock.moves)
    BY DEF IssuesBacked
  <2> QED BY <1>1, <2>1, <2>2
<1>3. ASSUME NEW m \in Moves PROVE stock'.returned[m] <= LetOut(m, stock'.moves)
  <2>1. stock.returned[m] \in Nat /\ stock.returned[m] <= LetOut(m, stock.moves)
    BY DEF IssuesBacked, StockTypes
  <2> QED BY <1>1, <2>1
<1> QED BY <1>2, <1>3 DEF IssuesBacked

-----------------------------------------------------------------------------
(* Goods that leave and come back.                                         *)

LEMMA IssueGoodsKeeps ==
    ASSUME WarehouseIInv, NEW s \in Sessions, NEW c \in Commands, IssueGoods(s, c)
    PROVE  WarehouseIInv'
<1> DEFINE move == Move(c, "out")
           entry == CostEntry(stock, move)
           now == [pc |-> "post", voucher |-> Voucher("cogs", c.move, CostEntries(entry.amount)),
                   then |-> [pc |-> "done"]]
<1>0. StockTypes(stock) /\ Carried(stock) /\ PaperTypes /\ IssuesBacked
    BY DEF WarehouseIInv
<1>1. c.kind = "issue" /\ CanRecordIssue(stock, move) /\ stock' = Kept(stock, move)
      /\ costs' = costs \cup {entry} /\ call' = [call EXCEPT ![s] = now]
      /\ UNCHANGED <<orders, receipts>>
    BY DEF IssueGoods, Begin
<1>2. c.move \in Moves /\ c.item \in Items /\ c.quantity \in Int
    BY <1>1, CommandForms DEF StockCommand
<1>3. /\ move.id = c.move /\ move.item = c.item /\ move.direction = "out"
      /\ move.quantity = c.quantity /\ move.cost = 0
      /\ move = [id |-> c.move, item |-> c.item, direction |-> "out", quantity |-> c.quantity, cost |-> 0]
    BY DEF Move
<1>4. c.quantity > 0 /\ c.quantity <= stock.valuations[c.item].quantity
    BY <1>1, <1>3 DEF CanRecordIssue, CanApply, ValidMove
<1>5. Fits(stock, move)
    BY <1>2, <1>3, <1>4 DEF Fits, Movement, MoveIds
<1>6. stock.valuations[c.item] \in Holding
    BY <1>0, <1>2 DEF StockTypes
<1>7. entry = [move |-> c.move, item |-> c.item, quantity |-> c.quantity,
               unitCost |-> stock.valuations[c.item].average,
               amount |-> c.quantity * stock.valuations[c.item].average]
    BY <1>3 DEF CostEntry, IssueCost
<1> HIDE DEF move
<1>8. entry \in CostRow
    BY <1>2, <1>4, <1>6, <1>7 DEF CostRow, Holding
<1> HIDE DEF entry
<1>9. StockTypes(stock')
    BY <1>0, <1>1, <1>5, KeptIs
<1>10. /\ Grown /\ stock'.moves = Append(stock.moves, move)
       /\ stock.moves \in Seq(Movement) /\ move \in Movement
    BY <1>0, <1>1, <1>5, <1>9, StockStep
<1>11. IssuesBacked'
  <2>1. \A m : LetOut(m, stock.moves) \in Nat /\ LetOut(m, stock'.moves) \in Nat
                /\ LetOut(m, stock.moves) <= LetOut(m, stock'.moves)
    BY <1>9, <1>10, SelectionsNat DEF Grown, StockTypes
  <2>2. LetOut(c.move, stock'.moves) = LetOut(c.move, stock.moves) + c.quantity
    BY <1>3, <1>10, SelectionsNext
  <2>3. entry.quantity <= LetOut(entry.move, stock'.moves)
    BY <1>2, <1>7, <2>1, <2>2
  <2>4. ASSUME NEW e \in costs PROVE e.quantity <= LetOut(e.move, stock'.moves)
    <3>1. e.quantity \in Nat
      BY <1>0 DEF PaperTypes, CostRow
    <3>2. e.quantity <= LetOut(e.move, stock.moves)
      BY <1>0 DEF IssuesBacked
    <3> QED BY <2>1, <3>1, <3>2
  <2>5. stock'.returned = stock.returned
    BY <1>0, <1>1, <1>5, KeptIs
  <2>6. ASSUME NEW m \in Moves PROVE stock'.returned[m] <= LetOut(m, stock'.moves)
    <3>1. stock.returned[m] \in Nat /\ stock.returned[m] <= LetOut(m, stock.moves)
      BY <1>0 DEF IssuesBacked, StockTypes
    <3> QED BY <2>1, <2>5, <3>1
  <2> QED BY <1>1, <2>3, <2>4, <2>6 DEF IssuesBacked
<1>12. call'[s] = now /\ \A t \in Sessions : t # s => call'[t] = call[t]
    BY <1>0, <1>1 DEF PaperTypes, DeskTypes
<1>13. AtDesk(now) /\ Done(now) = {} /\ ~Bills(now)
    BY DEF AtDesk, Done, Bills, Posting
<1> HIDE DEF now
<1>14. DeskTypes'
    BY <1>0, <1>1 DEF PaperTypes, DeskTypes
<1>15. costs' \subseteq CostRow
    BY <1>0, <1>1, <1>8 DEF PaperTypes
<1>16. ASSUME NEW t \in Sessions
       PROVE  AtDesk(call'[t]) /\ (call'[t] # call[t] => Done(call'[t]) = {} /\ ~Bills(call'[t]))
  <2>1. CASE t = s
    BY <1>12, <1>13, <2>1
  <2>2. CASE t # s
    BY <1>0, <1>12, <2>2 DEF PaperTypes
  <2> QED BY <2>1, <2>2
<1> QED BY <1>1, <1>5, <1>9, <1>11, <1>14, <1>15, <1>16, GoodsStep

LEMMA ReturnGoodsKeeps ==
    ASSUME WarehouseIInv, NEW s \in Sessions, NEW c \in Commands, ReturnGoods(s, c)
    PROVE  WarehouseIInv'
<1>0. StockTypes(stock) /\ Carried(stock) /\ PaperTypes /\ IssuesBacked
    BY DEF WarehouseIInv
<1>1. PICK entry \in costs :
        /\ c.kind = "return" /\ c.of = entry.move
        /\ CanReturn(stock, entry, [Move(c, "in") EXCEPT !.cost = entry.unitCost])
        /\ stock' = Return(stock, entry, [Move(c, "in") EXCEPT !.cost = entry.unitCost])
        /\ Begin(s, Voucher("cogs-return", c.move, ReturnEntries(entry.unitCost * c.quantity)),
                 [pc |-> "done"])
        /\ UNCHANGED <<orders, receipts, costs>>
    BY DEF ReturnGoods
<1> DEFINE move == [Move(c, "in") EXCEPT !.cost = entry.unitCost]
           now == [pc |-> "post",
                   voucher |-> Voucher("cogs-return", c.move, ReturnEntries(entry.unitCost * c.quantity)),
                   then |-> [pc |-> "done"]]
<1>2. c.move \in Moves /\ c.item \in Items /\ c.quantity \in Int
    BY <1>1, CommandForms DEF StockCommand
<1>3. entry \in CostRow
    BY <1>0, <1>1 DEF PaperTypes
<1>4. move = [id |-> c.move, item |-> c.item, direction |-> "in", quantity |-> c.quantity,
              cost |-> entry.unitCost]
    BY DEF Move
<1>5. CanReturn(stock, entry, move) /\ stock' = Return(stock, entry, move)
    BY <1>1
<1>6. call' = [call EXCEPT ![s] = now]
    BY <1>1 DEF Begin
<1>7. AtDesk(now) /\ Done(now) = {} /\ ~Bills(now)
    BY DEF AtDesk, Done, Bills, Posting
<1> HIDE DEF move, now
<1>8. /\ c.quantity > 0 /\ c.quantity <= entry.quantity - stock.returned[entry.move]
      /\ move.quantity = c.quantity
    BY <1>4, <1>5 DEF CanReturn, ValidMove
<1>9. [move EXCEPT !.cost = entry.unitCost] = move
    BY <1>4
<1>10. Fits(stock, move)
    BY <1>2, <1>3, <1>4, <1>8 DEF Fits, Movement, MoveIds, CostRow
<1>11. /\ stock'.moves = Kept(stock, move).moves /\ stock'.valuations = Kept(stock, move).valuations
       /\ \A m \in Moves :
            stock'.returned[m] = stock.returned[m] + (IF m = entry.move THEN c.quantity ELSE 0)
       /\ StockTypes(stock')
  <2>1. entry.move \in Moves /\ move.quantity \in Nat
    BY <1>2, <1>3, <1>8 DEF CostRow
  <2> QED BY <1>0, <1>5, <1>8, <1>9, <1>10, <2>1, ReturnIs
<1>12. /\ Grown /\ stock'.moves = Append(stock.moves, move)
       /\ stock.moves \in Seq(Movement) /\ move \in Movement
    BY <1>0, <1>10, <1>11, StockStep
<1>13. IssuesBacked'
  <2>1. \A m : LetOut(m, stock.moves) \in Nat /\ LetOut(m, stock'.moves) \in Nat
                /\ LetOut(m, stock.moves) <= LetOut(m, stock'.moves)
    BY <1>11, <1>12, SelectionsNat DEF Grown, StockTypes
  <2>2. ASSUME NEW e \in costs PROVE e.quantity <= LetOut(e.move, stock'.moves)
    <3>1. e.quantity \in Nat
      BY <1>0 DEF PaperTypes, CostRow
    <3>2. e.quantity <= LetOut(e.move, stock.moves)
      BY <1>0 DEF IssuesBacked
    <3> QED BY <2>1, <3>1, <3>2
  <2>3. ASSUME NEW m \in Moves PROVE stock'.returned[m] <= LetOut(m, stock'.moves)
    <3>1. stock.returned[m] \in Nat /\ stock.returned[m] <= LetOut(m, stock.moves)
      BY <1>0 DEF IssuesBacked, StockTypes
    <3>2. CASE m = entry.move
      <4>1. entry.quantity \in Nat /\ entry.quantity <= LetOut(m, stock'.moves)
        BY <1>1, <1>3, <2>2, <3>2 DEF CostRow
      <4>2. stock'.returned[m] = stock.returned[m] + c.quantity
        BY <1>11, <3>2
      <4>3. c.quantity <= entry.quantity - stock.returned[m]
        BY <1>8, <3>2
      <4> QED BY <1>2, <2>1, <3>1, <4>1, <4>2, <4>3
    <3>3. CASE m # entry.move
      <4>1. stock'.returned[m] = stock.returned[m] + 0
        BY <1>11, <3>3
      <4> QED BY <2>1, <3>1, <4>1
    <3> QED BY <3>2, <3>3
  <2> QED BY <1>1, <2>2, <2>3 DEF IssuesBacked
<1>14. call'[s] = now /\ \A t \in Sessions : t # s => call'[t] = call[t]
    BY <1>0, <1>6 DEF PaperTypes, DeskTypes
<1>15. DeskTypes'
    BY <1>0, <1>6 DEF PaperTypes, DeskTypes
<1>16. ASSUME NEW t \in Sessions
       PROVE  AtDesk(call'[t]) /\ (call'[t] # call[t] => Done(call'[t]) = {} /\ ~Bills(call'[t]))
  <2>1. CASE t = s
    BY <1>7, <1>14, <2>1
  <2>2. CASE t # s
    BY <1>0, <1>14, <2>2 DEF PaperTypes
  <2> QED BY <2>1, <2>2
<1>17. costs' \subseteq CostRow
    BY <1>0, <1>1 DEF PaperTypes
<1> QED BY <1>1, <1>10, <1>11, <1>13, <1>15, <1>16, <1>17, GoodsStep

LEMMA WriteOffKeeps ==
    ASSUME WarehouseIInv, NEW c \in Commands, WriteOff(c)
    PROVE  WarehouseIInv'
<1> DEFINE move == Move(c, "out")
<1>0. StockTypes(stock) /\ Carried(stock) /\ PaperTypes /\ IssuesBacked
    BY DEF WarehouseIInv
<1>1. c.kind = "write off" /\ CanApply(stock, move) /\ stock' = Record(stock, move)
      /\ UNCHANGED <<orders, receipts, costs, call>>
    BY DEF WriteOff
<1>2. c.move \in Moves /\ c.item \in Items /\ c.quantity \in Int
    BY <1>1, CommandForms DEF StockCommand
<1>3. move = [id |-> c.move, item |-> c.item, direction |-> "out", quantity |-> c.quantity, cost |-> 0]
    BY DEF Move
<1> HIDE DEF move
<1>4. c.quantity > 0 /\ c.quantity <= stock.valuations[c.item].quantity
    BY <1>1, <1>3 DEF CanApply, ValidMove
<1>5. Fits(stock, move)
    BY <1>2, <1>3, <1>4 DEF Fits, Movement, MoveIds
<1>6. PICK kept : Record(stock, move) = Kept(stock, kept) /\ Fits(stock, kept)
    BY <1>0, <1>5, RecordIs
<1>7. stock' = Kept(stock, kept) /\ StockTypes(stock') /\ stock'.returned = stock.returned
  <2>1. StockTypes(Kept(stock, kept)) /\ Kept(stock, kept).returned = stock.returned
    BY <1>0, <1>6, KeptIs
  <2>2. stock' = Kept(stock, kept)
    BY <1>1, <1>6
  <2> QED BY <2>1, <2>2
<1>8. /\ Grown /\ stock'.moves = Append(stock.moves, kept)
      /\ stock.moves \in Seq(Movement) /\ kept \in Movement
    BY <1>0, <1>6, <1>7, StockStep
<1>9. IssuesBacked'
    BY <1>0, <1>1, <1>7, <1>8, IssuesStand
<1>10. costs' \subseteq CostRow /\ DeskTypes'
    BY <1>0, <1>1 DEF PaperTypes, DeskTypes
<1>11. \A t \in Sessions : AtDesk(call'[t])
    BY <1>0, <1>1 DEF PaperTypes
<1> QED BY <1>1, <1>6, <1>7, <1>9, <1>10, <1>11, GoodsStep

-----------------------------------------------------------------------------
(* Goods that arrive.                                                      *)

\* What is under way at one session only.
LEMMA CallBut ==
    ASSUME DeskTypes, NEW s \in Sessions, NEW now, call' = [call EXCEPT ![s] = now]
    PROVE  call'[s] = now /\ (\A t \in Sessions : t # s => call'[t] = call[t]) /\ DeskTypes'
BY DEF DeskTypes

\* The papers saved and recorded are counted.
LEMMA PapersCount ==
    ASSUME PaperTypes, NEW r, NEW i
    PROVE  /\ IsFiniteSet(RecordedAs(r, i)) /\ Cardinality(RecordedAs(r, i)) \in Nat
           /\ IsFiniteSet(SavedAs(r, i)) /\ Cardinality(SavedAs(r, i)) \in Nat
<1>1. RecordedAs(r, i) \subseteq Sessions
    BY DEF RecordedAs
<1>2. SavedAs(r, i) \subseteq DOMAIN receipts /\ DOMAIN receipts = 1 .. Len(receipts) /\ Len(receipts) \in Nat
    BY LenProperties DEF SavedAs, PaperTypes
<1>3. IsFiniteSet(1 .. Len(receipts))
    BY <1>2, FS_Interval
<1> QED BY <1>1, <1>2, <1>3, SessionsAssumption, FS_Subset, FS_CardinalityType

\* And so are the units on them.
LEMMA PapersSum ==
    ASSUME PaperTypes, NEW item
    PROVE  /\ IsFiniteSet(DOMAIN receipts) /\ IsFiniteSet(Sessions)
           /\ \A k \in DOMAIN receipts : receipts[k] \in ValidReceipts /\ Arrived(item)[k] \in Nat
           /\ \A s \in Sessions : Arriving(item)[s] \in Nat
           /\ Over(Arrived(item), DOMAIN receipts) \in Nat
           /\ Over(Arriving(item), Sessions) \in Nat
<1> DEFINE f == Arrived(item)
           g == Arriving(item)
<1>1. DOMAIN receipts = 1 .. Len(receipts) /\ Len(receipts) \in Nat
    BY LenProperties DEF PaperTypes
<1>2. IsFiniteSet(DOMAIN receipts)
    BY <1>1, FS_Interval
<1>3. \A k \in DOMAIN receipts : receipts[k] \in ValidReceipts
    BY <1>1, ElementOfSeq DEF PaperTypes
<1>4. \A k \in DOMAIN receipts : f[k] \in Nat
    BY <1>3, UnitsNat DEF Arrived
<1>5. \A s \in Sessions : g[s] \in Nat
    BY DoneFacts DEF Arriving, PaperTypes
<1> HIDE DEF f, g
<1>6. Over(f, DOMAIN receipts) \in Nat /\ Over(g, Sessions) \in Nat
    BY <1>2, <1>4, <1>5, SessionsAssumption, OverNat
<1> QED BY <1>2, <1>3, <1>4, <1>5, <1>6, SessionsAssumption DEF f, g

LEMMA RecordLineKeeps ==
    ASSUME WarehouseIInv, NEW s \in Sessions, RecordLine(s)
    PROVE  WarehouseIInv'
<1> DEFINE now == call[s]
           then == IF now.at < Len(now.receipt.lines) THEN [now EXCEPT !.at = @ + 1]
                   ELSE [now EXCEPT !.pc = "save"]
           line == now.receipt.lines[now.at]
           move == Arrival(now.receipt, now.at, now.prices[now.at])
<1>0. StockTypes(stock) /\ Carried(stock) /\ PaperTypes /\ IssuesBacked /\ DeskTypes
    BY DEF WarehouseIInv, PaperTypes
<1>1. now.pc = "record" /\ stock' = Record(stock, move) /\ call' = [call EXCEPT ![s] = then]
      /\ UNCHANGED <<orders, receipts, costs>>
    BY DEF RecordLine
<1>2. Recording(now)
    BY <1>0, <1>1 DEF PaperTypes, AtDesk
<1>3. call'[s] = then /\ (\A t \in Sessions : t # s => call'[t] = call[t]) /\ DeskTypes'
  <2> HIDE DEF then
  <2> QED BY <1>0, <1>1, CallBut
<1> HIDE DEF now
<1>4. /\ now = [pc |-> now.pc, receipt |-> now.receipt, at |-> now.at, prices |-> now.prices]
      /\ now.receipt \in ValidReceipts /\ now.at \in 1 .. Len(now.receipt.lines)
      /\ now.prices \in [DOMAIN now.receipt.lines -> Nat]
    BY <1>2 DEF Recording
<1>5. /\ DOMAIN now.receipt.lines = 1 .. Len(now.receipt.lines) /\ Len(now.receipt.lines) \in Nat
      /\ now.receipt.id \in STRING
      /\ line \in ArrivedLine /\ line.quantity \in Nat \ {0}
    BY <1>4, UnitsNat
<1>6. then = IF now.at < Len(now.receipt.lines)
             THEN [pc |-> now.pc, receipt |-> now.receipt, at |-> now.at + 1, prices |-> now.prices]
             ELSE [pc |-> "save", receipt |-> now.receipt, at |-> now.at, prices |-> now.prices]
    BY <1>4
<1>7. /\ then.receipt = now.receipt
      /\ \/ now.at < Len(now.receipt.lines) /\ then.pc = "record" /\ then.at = now.at + 1
         \/ ~(now.at < Len(now.receipt.lines)) /\ then.pc = "save"
    BY <1>1, <1>6
<1>8. Recording(then) /\ AtDesk(then) /\ ~Bills(then)
  <2>1. then = [pc |-> then.pc, receipt |-> now.receipt, at |-> then.at, prices |-> now.prices]
    BY <1>6
  <2>2. then.at \in 1 .. Len(now.receipt.lines)
    <3>1. (then.at = now.at + 1 /\ now.at < Len(now.receipt.lines)) \/ then.at = now.at
      BY <1>6
    <3> HIDE DEF then
    <3> QED BY <1>4, <1>5, <3>1
  <2> HIDE DEF then
  <2>3. then.receipt = now.receipt /\ then.prices = now.prices
    BY <2>1
  <2>4. Recording(then)
    BY <1>4, <2>1, <2>2, <2>3 DEF Recording
  <2> QED BY <1>7, <2>4 DEF AtDesk, Bills
<1>9. move = [id |-> <<now.receipt.id, now.at>>, item |-> line.item, direction |-> "in",
              quantity |-> line.quantity, cost |-> now.prices[now.at]]
    BY DEF Arrival
<1> HIDE DEF then
<1>10. now.prices[now.at] \in Nat /\ now.at \in Nat /\ line.item \in Items
    BY <1>4, <1>5 DEF ArrivedLine
<1> HIDE DEF move, line
<1>11. Fits(stock, move)
    BY <1>5, <1>9, <1>10 DEF Fits, Movement, MoveIds
<1>12. PICK kept : /\ Record(stock, move) = Kept(stock, kept) /\ Fits(stock, kept)
                   /\ kept.id = move.id /\ kept.item = move.item
                   /\ kept.direction = move.direction /\ kept.quantity = move.quantity
    BY <1>0, <1>11, RecordIs
<1>13. stock' = Kept(stock, kept) /\ StockTypes(stock') /\ stock'.returned = stock.returned
  <2>1. StockTypes(Kept(stock, kept)) /\ Kept(stock, kept).returned = stock.returned
    BY <1>0, <1>12, KeptIs
  <2>2. stock' = Kept(stock, kept)
    BY <1>1, <1>12
  <2> QED BY <2>1, <2>2
<1>14. /\ Carried(stock') /\ Grown /\ stock'.moves = Append(stock.moves, kept)
       /\ stock.moves \in Seq(Movement) /\ kept \in Movement
    BY <1>0, <1>12, <1>13, StockStep
<1>15. PaperTypes'
  <2>1. ASSUME NEW t \in Sessions PROVE AtDesk(call'[t])
    <3>1. CASE t = s
      BY <1>3, <1>8, <3>1
    <3>2. CASE t # s
      BY <1>0, <1>3, <3>2 DEF PaperTypes
    <3> QED BY <3>1, <3>2
  <2> QED BY <1>0, <1>1, <1>3, <2>1 DEF PaperTypes, OrderTypes
<1>16. /\ now.at \notin Done(now) /\ Done(then) = Done(now) \cup {now.at}
       /\ \A item : UnitsDone(item, then) = UnitsDone(item, now) + LineUnits(item, now.receipt.lines)[now.at]
    BY <1>1, <1>2, <1>7, DoneNext
<1>17. IssuesBacked'
    BY <1>0, <1>1, <1>13, <1>14, IssuesStand
<1>18. LinesMoved'
  <2> SUFFICES ASSUME NEW r \in STRING, NEW i \in Nat
               PROVE  Cardinality(Named(<<r, i>>, stock'.moves))
                        >= Cardinality(SavedAs(r, i)') + Cardinality(RecordedAs(r, i)')
    BY DEF LinesMoved
  <2> DEFINE known == RecordedAs(r, i)
  <2>1. Cardinality(Named(<<r, i>>, stock'.moves)) = Cardinality(Named(<<r, i>>, stock.moves))
            + (IF <<now.receipt.id, now.at>> = <<r, i>> THEN 1 ELSE 0)
    <3>1. kept.id = <<now.receipt.id, now.at>>
      BY <1>9, <1>12
    <3>2. \A id : Cardinality(Named(id, stock'.moves)) = Cardinality(Named(id, stock.moves))
                    + (IF kept.id = id THEN 1 ELSE 0)
      BY <1>14, SelectionsNext
    <3> QED BY <3>1, <3>2
  <2>2. SavedAs(r, i)' = SavedAs(r, i)
    BY <1>1 DEF SavedAs
  <2>3. Cardinality(Named(<<r, i>>, stock.moves)) >= Cardinality(SavedAs(r, i)) + Cardinality(known)
    BY DEF WarehouseIInv, LinesMoved
  <2>4. Cardinality(known) \in Nat /\ Cardinality(SavedAs(r, i)) \in Nat /\ IsFiniteSet(known)
    BY <1>0, PapersCount
  <2>5. Cardinality(Named(<<r, i>>, stock.moves)) \in Nat
    BY <1>14, SelectionsNat
  <2>6. CASE <<now.receipt.id, now.at>> = <<r, i>>
    <3>1. now.receipt.id = r /\ now.at = i
      BY <2>6
    <3>2. s \notin known
      BY <1>16, <3>1 DEF RecordedAs, now
    <3>3. RecordedAs(r, i)' = known \cup {s}
      <4>1. ASSUME NEW t \in Sessions
            PROVE  (i \in Done(call'[t]) /\ call'[t].receipt.id = r)
                    <=> (i \in Done(call[t]) /\ call[t].receipt.id = r) \/ t = s
        <5>1. CASE t = s
          BY <1>3, <1>7, <1>16, <3>1, <5>1
        <5>2. CASE t # s
          BY <1>3, <5>2
        <5> QED BY <5>1, <5>2
      <4> QED BY <4>1 DEF RecordedAs, Done
    <3> HIDE DEF known
    <3>4. Cardinality(known \cup {s}) = Cardinality(known) + 1
      BY <2>4, <3>2, FS_AddElement
    <3> QED BY <2>1, <2>2, <2>3, <2>4, <2>5, <2>6, <3>3, <3>4
  <2>7. CASE <<now.receipt.id, now.at>> # <<r, i>>
    <3>1. RecordedAs(r, i)' = known
      <4>1. ASSUME NEW t \in Sessions
            PROVE  (i \in Done(call'[t]) /\ call'[t].receipt.id = r)
                    <=> (i \in Done(call[t]) /\ call[t].receipt.id = r)
        <5>1. CASE t = s
          <6>1. call'[t] = then /\ call[t] = now
            BY <1>3, <5>1 DEF now
          <6> QED BY <1>7, <1>16, <2>7, <6>1
        <5>2. CASE t # s
          BY <1>3, <5>2
        <5> QED BY <5>1, <5>2
      <4> QED BY <4>1 DEF RecordedAs, Done
    <3> QED BY <2>1, <2>2, <2>3, <2>4, <2>5, <2>7, <3>1
  <2> QED BY <2>6, <2>7
<1>19. UnitsMoved'
  <2> SUFFICES ASSUME NEW item \in Items
               PROVE  TakenIn(item, stock'.moves)
                        >= Over(Arrived(item)', DOMAIN receipts') + Over(Arriving(item)', Sessions)
    BY DEF UnitsMoved
  <2> DEFINE f == Arriving(item)
             g == Arriving(item)'
             more == IF line.item = item THEN line.quantity ELSE 0
  <2>1. TakenIn(item, stock'.moves) = TakenIn(item, stock.moves) + more
    BY <1>9, <1>12, <1>14, SelectionsNext
  <2>2. Arrived(item)' = Arrived(item) /\ receipts' = receipts
    BY <1>1 DEF Arrived
  <2>3. LineUnits(item, now.receipt.lines)[now.at] = more
    BY <1>4, <1>5 DEF LineUnits, line
  <2>4. /\ \A t \in Sessions : f[t] \in Nat
        /\ Over(Arrived(item), DOMAIN receipts) \in Nat /\ Over(f, Sessions) \in Nat
    BY <1>0, PapersSum
  <2>5. \A t \in Sessions : g[t] \in Nat
    <3>1. \A t \in Sessions : AtDesk(call'[t])
      BY <1>15 DEF PaperTypes
    <3> QED BY <3>1, DoneFacts DEF Arriving
  <2>6. g[s] = f[s] + more
    <3>1. f[s] = UnitsDone(item, now) /\ g[s] = UnitsDone(item, then)
      BY <1>3 DEF Arriving, now
    <3> QED BY <1>16, <2>3, <3>1
  <2>7. \A t \in Sessions \ {s} : g[t] = f[t]
    BY <1>3 DEF Arriving
  <2>8. more \in Nat
    BY <1>5
  <2>9. TakenIn(item, stock.moves) >= Over(Arrived(item), DOMAIN receipts) + Over(f, Sessions)
    BY DEF WarehouseIInv, UnitsMoved
  <2>10. TakenIn(item, stock.moves) \in Nat
    BY <1>14, SelectionsNat
  <2> HIDE DEF f, g, more
  <2>11. Over(g, Sessions) = Over(f, Sessions) + g[s] - f[s]
    BY <2>4, <2>5, <2>7, SessionsAssumption, OverBut
  <2>12. Over(g, Sessions) = Over(f, Sessions) + more
    BY <2>4, <2>5, <2>6, <2>8, <2>11
  <2> QED BY <2>1, <2>2, <2>4, <2>8, <2>9, <2>10, <2>12 DEF g
<1>20. (\A t \in Sessions : BillBacked(call[t]))'
  <2>1. \A o \in Orders : orders[o] # NoOrder => orders'[o] = orders[o]
    BY <1>1
  <2>2. \A o \in Orders : \A item \in Items : orders[o] # NoOrder => Units(item, orders[o].lines) \in Int
    BY <1>0, OrderedUnits
  <2>3. ASSUME NEW t \in Sessions
        PROVE  Bills(call'[t]) => Bills(call[t]) /\ call'[t].then = call[t].then
    <3>1. CASE t = s
      BY <1>3, <1>8, <3>1
    <3>2. CASE t # s
      BY <1>3, <3>2 DEF Bills
    <3> QED BY <3>1, <3>2
  <2>4. \A t \in Sessions : BillBacked(call[t])
    BY DEF WarehouseIInv
  <2> QED BY <1>0, <1>13, <1>14, <2>1, <2>2, <2>3, <2>4, BillsStand
<1> QED BY <1>13, <1>14, <1>15, <1>17, <1>18, <1>19, <1>20 DEF WarehouseIInv, StockTypes, Carried, CarriedAt

LEMMA SaveReceiptKeeps ==
    ASSUME WarehouseIInv, NEW s \in Sessions, SaveReceipt(s)
    PROVE  WarehouseIInv'
<1> DEFINE now == call[s]
           len == Len(receipts)
<1>0. StockTypes(stock) /\ Carried(stock) /\ PaperTypes /\ IssuesBacked /\ DeskTypes
    BY DEF WarehouseIInv, PaperTypes
<1>1. now.pc = "save" /\ receipts' = Append(receipts, now.receipt) /\ call' = [call EXCEPT ![s] = Idle]
      /\ UNCHANGED <<orders, stock, costs>>
    BY DEF SaveReceipt
<1>2. Recording(now) /\ now.receipt \in ValidReceipts
    BY <1>0, <1>1 DEF PaperTypes, AtDesk, Recording
<1>3. call'[s] = Idle /\ (\A t \in Sessions : t # s => call'[t] = call[t]) /\ DeskTypes'
    BY <1>0, <1>1, CallBut
<1>4. Done(now) = DOMAIN now.receipt.lines
    BY <1>1 DEF Done
<1>5. AtDesk(Idle) /\ Done(Idle) = {} /\ ~Bills(Idle)
    BY DEF AtDesk, Done, Bills, Idle
<1> HIDE DEF now
<1>6. /\ len \in Nat /\ DOMAIN receipts = 1 .. len /\ DOMAIN receipts' = 1 .. len + 1
      /\ \A n \in 1 .. len : receipts'[n] = receipts[n]
      /\ receipts'[len + 1] = now.receipt /\ receipts' \in Seq(ValidReceipts)
  <2>1. receipts \in Seq(ValidReceipts)
    BY <1>0 DEF PaperTypes
  <2> QED BY <1>1, <1>2, <2>1, AppendProperties, LenProperties
<1>7. PaperTypes'
  <2>1. ASSUME NEW t \in Sessions PROVE AtDesk(call'[t])
    <3>1. CASE t = s
      BY <1>3, <1>5, <3>1
    <3>2. CASE t # s
      BY <1>0, <1>3, <3>2 DEF PaperTypes
    <3> QED BY <3>1, <3>2
  <2> QED BY <1>0, <1>1, <1>3, <1>6, <2>1 DEF PaperTypes, OrderTypes
<1>8. Grown /\ StockTypes(stock') /\ Carried(stock')
  <2>1. stock' = stock /\ stock.moves \in Seq(Movement)
    BY <1>0, <1>1 DEF StockTypes
  <2> QED BY <1>0, <2>1, SelectionsNat DEF Grown
<1>9. IssuesBacked'
    BY <1>0, <1>1, <1>8, IssuesStand
<1> HIDE DEF len
<1>10. LinesMoved'
  <2> SUFFICES ASSUME NEW r \in STRING, NEW i \in Nat
               PROVE  Cardinality(Named(<<r, i>>, stock'.moves))
                        >= Cardinality(SavedAs(r, i)') + Cardinality(RecordedAs(r, i)')
    BY DEF LinesMoved
  <2> DEFINE saved == SavedAs(r, i)
             known == RecordedAs(r, i)
  <2>1. Cardinality(Named(<<r, i>>, stock'.moves)) = Cardinality(Named(<<r, i>>, stock.moves))
    BY <1>1
  <2>2. Cardinality(Named(<<r, i>>, stock.moves)) >= Cardinality(saved) + Cardinality(known)
    BY DEF WarehouseIInv, LinesMoved
  <2>3. /\ Cardinality(known) \in Nat /\ Cardinality(saved) \in Nat
        /\ IsFiniteSet(known) /\ IsFiniteSet(saved)
    BY <1>0, PapersCount
  <2>4. ASSUME NEW t \in Sessions
        PROVE  (i \in Done(call'[t]) /\ call'[t].receipt.id = r)
                <=> (i \in Done(call[t]) /\ call[t].receipt.id = r) /\ t # s
    <3>1. CASE t = s
      BY <1>3, <1>5, <3>1
    <3>2. CASE t # s
      BY <1>3, <3>2
    <3> QED BY <3>1, <3>2
  <2>5. RecordedAs(r, i)' = known \ {s}
    BY <2>4 DEF RecordedAs, Done
  <2>6. SavedAs(r, i)' = IF now.receipt.id = r /\ i \in Done(now) THEN saved \cup {len + 1} ELSE saved
    <3>1. \A k : k \in 1 .. len + 1 <=> k \in 1 .. len \/ k = len + 1
      BY <1>6
    <3> QED BY <1>4, <1>6, <3>1 DEF SavedAs
  <2>7. CASE now.receipt.id = r /\ i \in Done(now)
    <3>1. s \in known
      BY <2>7 DEF RecordedAs, now
    <3>2. len + 1 \notin saved
      BY <1>6 DEF SavedAs
    <3> HIDE DEF known, saved
    <3>3. Cardinality(known \ {s}) = Cardinality(known) - 1
      BY <2>3, <3>1, FS_RemoveElement
    <3>4. Cardinality(saved \cup {len + 1}) = Cardinality(saved) + 1
      BY <2>3, <3>2, FS_AddElement
    <3> QED BY <2>1, <2>2, <2>3, <2>5, <2>6, <2>7, <3>3, <3>4
  <2>8. CASE ~(now.receipt.id = r /\ i \in Done(now))
    <3>1. s \notin known
      BY <2>8 DEF RecordedAs, now
    <3>2. known \ {s} = known
      BY <3>1
    <3> HIDE DEF known, saved
    <3> QED BY <2>1, <2>2, <2>5, <2>6, <2>8, <3>2
  <2> QED BY <2>7, <2>8
<1>11. UnitsMoved'
  <2> SUFFICES ASSUME NEW item \in Items
               PROVE  TakenIn(item, stock'.moves)
                        >= Over(Arrived(item)', DOMAIN receipts') + Over(Arriving(item)', Sessions)
    BY DEF UnitsMoved
  <2> DEFINE f == Arriving(item)
             g == Arriving(item)'
             a == Arrived(item)
             b == Arrived(item)'
             units == Units(item, now.receipt.lines)
  <2>1. TakenIn(item, stock.moves) >= Over(a, DOMAIN receipts) + Over(f, Sessions)
        /\ stock' = stock
    BY <1>1 DEF WarehouseIInv, UnitsMoved
  <2>2. /\ \A t \in Sessions : f[t] \in Nat
        /\ \A k \in DOMAIN receipts : a[k] \in Nat
        /\ Over(a, DOMAIN receipts) \in Nat /\ Over(f, Sessions) \in Nat
    BY <1>0, PapersSum
  <2>3. \A t \in Sessions : g[t] \in Nat
    <3>1. \A t \in Sessions : AtDesk(call'[t])
      BY <1>7 DEF PaperTypes
    <3> QED BY <3>1, DoneFacts DEF Arriving
  <2>4. units \in Nat /\ units = UnitsDone(item, now)
    BY <1>2, <1>4, UnitsNat DEF UnitsDone
  <2>5. f[s] = units /\ g[s] = 0
    <3>1. f[s] = UnitsDone(item, now) /\ g[s] = UnitsDone(item, Idle)
      BY <1>3 DEF Arriving, now
    <3> QED BY <1>5, <2>4, <3>1, DoneFacts
  <2>6. \A t \in Sessions \ {s} : g[t] = f[t]
    BY <1>3 DEF Arriving
  <2>7. Alike(a, b, 1 .. len) /\ b[len + 1] = units
    <3>1. \A n \in 1 .. len : n \in 1 .. len + 1
      BY <1>6
    <3>2. len + 1 \in 1 .. len + 1
      BY <1>6
    <3> QED BY <1>6, <3>1, <3>2 DEF Alike, Arrived
  <2>8. TakenIn(item, stock.moves) \in Nat
    BY <1>0, SelectionsNat DEF StockTypes
  <2> HIDE DEF f, g, a, b, units
  <2>9. \A k \in 1 .. len + 1 : b[k] \in Int
    <3>1. \A k \in 1 .. len + 1 : k \in 1 .. len \/ k = len + 1
      BY <1>6
    <3>2. \A k \in 1 .. len : b[k] = a[k] /\ a[k] \in Int
      BY <1>6, <2>2, <2>7 DEF Alike
    <3>3. b[len + 1] \in Int
      BY <2>4, <2>7
    <3> QED BY <3>1, <3>2, <3>3
  <2>10. Over(b, 1 .. len + 1) = Over(a, 1 .. len) + units
    BY <1>6, <2>7, <2>9, OverNext
  <2>11. Over(g, Sessions) = Over(f, Sessions) + g[s] - f[s]
    BY <2>2, <2>3, <2>6, SessionsAssumption, OverBut
  <2>12. Over(g, Sessions) = Over(f, Sessions) - units
    BY <2>2, <2>4, <2>5, <2>11
  <2>13. Over(a, DOMAIN receipts) \in Nat /\ Over(f, Sessions) \in Nat
    BY <2>2
  <2> QED BY <1>6, <2>1, <2>4, <2>8, <2>10, <2>12, <2>13 DEF b, g
<1>12. (\A t \in Sessions : BillBacked(call[t]))'
  <2>1. \A o \in Orders : orders[o] # NoOrder => orders'[o] = orders[o]
    BY <1>1
  <2>2. \A o \in Orders : \A item \in Items : orders[o] # NoOrder => Units(item, orders[o].lines) \in Int
    BY <1>0, OrderedUnits
  <2>3. ASSUME NEW t \in Sessions
        PROVE  Bills(call'[t]) => Bills(call[t]) /\ call'[t].then = call[t].then
    <3>1. CASE t = s
      BY <1>3, <1>5, <3>1
    <3>2. CASE t # s
      BY <1>3, <3>2 DEF Bills
    <3> QED BY <3>1, <3>2
  <2>4. \A t \in Sessions : BillBacked(call[t])
    BY DEF WarehouseIInv
  <2> QED BY <1>0, <1>8, <2>1, <2>2, <2>3, <2>4, BillsStand
<1> QED BY <1>7, <1>8, <1>9, <1>10, <1>11, <1>12 DEF WarehouseIInv, StockTypes, Carried, CarriedAt

\* Steps that leave the warehouse and all its papers alone.
LEMMA PapersUnchanged ==
    ASSUME WarehouseIInv, UNCHANGED <<orders, receipts, stock, costs, call>>
    PROVE  WarehouseIInv'
<1> USE DEF WarehouseIInv
<1>1. OrderTypes'
    BY DEF PaperTypes, OrderTypes
<1>2. DeskTypes'
    BY DEF PaperTypes, DeskTypes
<1>3. PaperTypes'
    BY <1>1, <1>2 DEF PaperTypes
<1>4. IssuesBacked'
    BY DEF IssuesBacked
<1>5. LinesMoved'
    BY DEF LinesMoved, SavedAs, RecordedAs
<1>6. UnitsMoved'
    BY DEF UnitsMoved, Arrived, Arriving
<1>7. \A s \in Sessions : BillBacked(call[s])'
    BY DEF BillBacked, Bills
<1>8. (\A s \in Sessions : BillBacked(call[s]))'
    BY <1>7
<1> QED BY <1>3, <1>4, <1>5, <1>6, <1>8 DEF StockTypes, Carried, CarriedAt

LEMMA OrderGoodsKeeps ==
    ASSUME WarehouseIInv, NEW s \in Sessions, NEW c \in Commands, OrderGoods(s, c)
    PROVE  WarehouseIInv'
<1>0. StockTypes(stock) /\ PaperTypes /\ OrderTypes /\ DeskTypes
    BY DEF WarehouseIInv, PaperTypes
<1>1. /\ c.kind = "order" /\ ValidOrder(c) /\ orders[c.id] = NoOrder
      /\ orders' = [orders EXCEPT ![c.id] = c]
      /\ UNCHANGED <<receipts, stock, costs, call>>
    BY DEF OrderGoods, SaveOrder, KnownOrder
<1>2. c.id \in Orders /\ c \in ValidOrders
    BY <1>1, CommandForms DEF OrderCommand, ValidOrders
<1>3. orders'[c.id] = c /\ \A o \in Orders : o # c.id => orders'[o] = orders[o]
    BY <1>0, <1>1, <1>2 DEF OrderTypes
<1>4. OrderTypes'
  <2>1. orders' = [o \in Orders |-> orders'[o]]
    BY <1>0, <1>1, <1>2 DEF OrderTypes
  <2>2. \A o \in Orders : orders'[o] = NoOrder \/ orders'[o] \in ValidOrders
    BY <1>0, <1>2, <1>3 DEF OrderTypes
  <2> QED BY <2>1, <2>2 DEF OrderTypes
<1>5. DeskTypes'
    BY <1>0, <1>1 DEF DeskTypes
<1>6. PaperTypes'
    BY <1>0, <1>1, <1>4, <1>5 DEF PaperTypes
<1>7. Grown
  <2>1. stock' = stock /\ stock.moves \in Seq(Movement)
    BY <1>0, <1>1 DEF StockTypes
  <2> QED BY <2>1, SelectionsNat DEF Grown
<1>8. (\A t \in Sessions : BillBacked(call[t]))'
  <2>1. \A o \in Orders : orders[o] # NoOrder => orders'[o] = orders[o]
    BY <1>1, <1>3
  <2>2. \A o \in Orders : \A item \in Items : orders[o] # NoOrder => Units(item, orders[o].lines) \in Int
    BY <1>0, OrderedUnits
  <2>3. \A t \in Sessions : Bills(call'[t]) => Bills(call[t]) /\ call'[t].then = call[t].then
    BY <1>1 DEF Bills
  <2>4. \A t \in Sessions : BillBacked(call[t])
    BY DEF WarehouseIInv
  <2>5. StockTypes(stock')
    BY <1>0, <1>1
  <2> QED BY <1>0, <1>7, <2>1, <2>2, <2>3, <2>4, <2>5, BillsStand
<1>9. IssuesBacked'
    BY <1>1 DEF WarehouseIInv, IssuesBacked
<1>10. LinesMoved'
    BY <1>1 DEF WarehouseIInv, LinesMoved, SavedAs, RecordedAs
<1>11. UnitsMoved'
    BY <1>1 DEF WarehouseIInv, UnitsMoved, Arrived, Arriving
<1>12. StockTypes(stock') /\ Carried(stock')
    BY <1>1 DEF WarehouseIInv
<1> QED BY <1>6, <1>8, <1>9, <1>10, <1>11, <1>12 DEF WarehouseIInv, StockTypes, Carried, CarriedAt

\* The line an order answers for an item is one of its own.
LEMMA OrderLineIs ==
    ASSUME NEW c \in ValidOrders, NEW item, Ordered(c, item)
    PROVE  \E i \in DOMAIN c.lines : OrderLine(c, item) = c.lines[i]
<1> DEFINE of == OrderLines(c, item)
           first == CHOOSE i \in of : \A j \in of : i <= j
<1>1. DOMAIN c.lines = 1 .. Len(c.lines) /\ Len(c.lines) \in Nat
    BY OrderFacts
<1>2. of \in SUBSET Nat /\ of # {} /\ of \subseteq DOMAIN c.lines
    BY <1>1 DEF Ordered, OrderLines
<1> HIDE DEF of
<1>3. \E i \in of : \A j \in of : ~(j < i)
    BY <1>2, LeastNumber
<1>4. \E i \in of : \A j \in of : i <= j
    BY <1>2, <1>3
<1>5. first \in of
    BY <1>4
<1> HIDE DEF first
<1>6. OrderLine(c, item) = c.lines[first]
    BY DEF OrderLine, first, of
<1> QED BY <1>2, <1>5, <1>6

\* The line an order prices an item at is one of its own.
LEMMA PricedLine ==
    ASSUME NEW c \in ValidOrders, NEW item, Ordered(c, item)
    PROVE  OrderPrice(c, item) \in Nat
BY OrderFacts, OrderLineIs DEF OrderPrice

LEMMA ReceiveGoodsKeeps ==
    ASSUME WarehouseIInv, NEW s \in Sessions, NEW c \in Commands, ReceiveGoods(s, c)
    PROVE  WarehouseIInv'
<1> DEFINE prices == [i \in DOMAIN c.lines |-> OrderPrice(orders[c.order], c.lines[i].item)]
           now == [pc |-> "record", receipt |-> c, at |-> 1, prices |-> prices]
<1>1. /\ c.kind = "receipt" /\ ValidReceipt(c) /\ orders[c.order] # NoOrder
      /\ \A i \in DOMAIN c.lines : Ordered(orders[c.order], c.lines[i].item)
      /\ call' = [call EXCEPT ![s] = now]
      /\ UNCHANGED <<orders, receipts, stock, costs>>
    BY DEF ReceiveGoods, KnownOrder
<1>2. c \in ValidReceipts
    BY <1>1 DEF ValidReceipts
<1>3. c.order \in Orders /\ DOMAIN c.lines = 1 .. Len(c.lines) /\ Len(c.lines) \in Nat /\ c.lines # <<>>
      /\ c.lines \in Seq(ArrivedLine)
    BY <1>2, UnitsNat
<1>4. orders[c.order] \in ValidOrders
    BY <1>1, <1>3 DEF WarehouseIInv, PaperTypes, OrderTypes
<1>5. prices \in [DOMAIN c.lines -> Nat]
    BY <1>1, <1>4, PricedLine
<1> HIDE DEF prices
<1>6. 1 \in 1 .. Len(c.lines)
    BY <1>3, EmptySeq
<1>7. AtDesk(now) /\ Done(now) = {} /\ BillBacked(now)
    BY <1>2, <1>5, <1>6 DEF AtDesk, Recording, Done, BillBacked, Bills
<1> HIDE DEF now
<1> QED BY <1>1, <1>7, DeskStep

LEMMA InvoicePurchaseKeeps ==
    ASSUME WarehouseIInv, NEW s \in Sessions, NEW c \in Commands, InvoicePurchase(s, c)
    PROVE  WarehouseIInv'
<1> DEFINE order == orders[c.order]
           warnings == ThreeWayMatch(order, ReceiptsOf(c.order), c.lines)
           voucher == Voucher("purchase", c.id, PurchaseEntries(c.lines, order))
           draft == Draft(c.id, c.lines, PayableLines(c.lines, order))
           now == [pc |-> "post", voucher |-> voucher,
                   then |-> [pc |-> "create", draft |-> draft, order |-> c.order, warnings |-> warnings]]
<1>1. /\ c.kind = "bill" /\ order # NoOrder
      /\ call' = [call EXCEPT ![s] = now]
      /\ UNCHANGED <<orders, receipts, stock, costs>>
    BY DEF InvoicePurchase, KnownOrder, Begin
<1>2. c.order \in Orders
    BY <1>1, CommandForms DEF SupplierInvoiceCommand
<1>3. PaperTypes /\ StockTypes(stock) /\ UnitsMoved
    BY DEF WarehouseIInv
<1>4. ASSUME NEW item \in Items \ warnings
      PROVE  TakenIn(item, stock.moves) >= Units(item, order.lines)
  <2> DEFINE f == Arrived(item)
             part == ReceiptsOf(c.order)
             all == DOMAIN receipts
  <2>1. Units(item, order.lines) = Total([n \in part |-> Units(item, receipts[n].lines)])
    BY DEF ThreeWayMatch
  <2>2. part \in SUBSET all
    BY DEF ReceiptsOf
  <2>3. [n \in part |-> Units(item, receipts[n].lines)] = [n \in part |-> f[n]]
    BY <2>2 DEF Arrived
  <2>4. IsFiniteSet(all) /\ (\A k \in all : f[k] \in Nat) /\ Over(f, all) \in Nat
        /\ Over(Arriving(item), Sessions) \in Nat
    BY <1>3, PapersSum
  <2>5. TakenIn(item, stock.moves) >= Over(f, all) + Over(Arriving(item), Sessions)
    BY <1>3 DEF UnitsMoved
  <2>6. TakenIn(item, stock.moves) \in Nat
    BY <1>3, SelectionsNat DEF StockTypes
  <2>7. Units(item, order.lines) \in Nat
    BY <1>1, <1>2, <1>3, OrderedUnits
  <2> HIDE DEF f, part, all
  <2>8. Units(item, order.lines) = Over(f, part)
    BY <2>1, <2>3 DEF Over
  <2>9. Over(f, part) <= Over(f, all)
    BY <2>2, <2>4, OverPart
  <2> QED BY <2>4, <2>5, <2>6, <2>7, <2>8, <2>9
<1> HIDE DEF warnings, voucher, draft
<1>5. AtDesk(now) /\ Done(now) = {}
    BY DEF AtDesk, Posting, Done
<1>6. BillBacked(now)
    BY <1>1, <1>2, <1>4 DEF BillBacked
<1> HIDE DEF now
<1> QED BY <1>1, <1>5, <1>6, DeskStep

-----------------------------------------------------------------------------
(* Flows that only post, and the steps of one under way.                   *)

\* A flow that begins and bills nothing.
LEMMA BeginKeeps ==
    ASSUME WarehouseIInv, NEW s \in Sessions, NEW voucher, NEW then, Begin(s, voucher, then),
           then.pc \in {"create", "apply", "done"}, "warnings" \notin DOMAIN then,
           UNCHANGED <<orders, receipts, stock, costs>>
    PROVE  WarehouseIInv'
<1> DEFINE now == [pc |-> "post", voucher |-> voucher, then |-> then]
<1>1. AtDesk(now) /\ Done(now) = {} /\ BillBacked(now)
    BY DEF AtDesk, Posting, Done, BillBacked, Bills
<1>2. call' = [call EXCEPT ![s] = now]
    BY DEF Begin
<1> HIDE DEF now
<1> QED BY <1>1, <1>2, DeskStep

\* A flow that ends.
LEMMA EndKeeps ==
    ASSUME WarehouseIInv, NEW s \in Sessions, call' = [call EXCEPT ![s] = Idle],
           UNCHANGED <<orders, receipts, stock, costs>>
    PROVE  WarehouseIInv'
<1>1. AtDesk(Idle) /\ Done(Idle) = {} /\ BillBacked(Idle)
    BY DEF AtDesk, Done, BillBacked, Bills, Idle
<1> QED BY <1>1, DeskStep

\* A flow that posts its voucher and goes on to the book.
LEMMA PostKeeps ==
    ASSUME WarehouseIInv, NEW s \in Sessions, Post(s)
    PROVE  WarehouseIInv'
<1> DEFINE now == call[s]
           next == [now EXCEPT !.pc = now.then.pc]
<1>1. now.pc = "post" /\ UNCHANGED <<orders, receipts, stock, costs>>
    BY DEF Post
<1>2. Posting(now) /\ BillBacked(now)
    BY <1>1 DEF WarehouseIInv, PaperTypes, AtDesk
<1>3. CASE now.then.pc = "done"
    BY <1>1, <1>3, EndKeeps DEF Post
<1>4. CASE now.then.pc # "done"
  <2>1. call' = [call EXCEPT ![s] = next]
    BY <1>4 DEF Post
  <2> HIDE DEF now
  <2>2. next = [pc |-> now.then.pc, voucher |-> now.voucher, then |-> now.then]
    BY <1>2 DEF Posting
  <2> HIDE DEF next
  <2>3. next.pc \in {"create", "apply"} /\ next.then = now.then
    BY <1>2, <1>4, <2>2 DEF Posting
  <2>4. AtDesk(next) /\ Done(next) = {}
    BY <1>2, <2>2, <2>3 DEF AtDesk, Posting, Done
  <2>5. BillBacked(next)
    BY <1>1, <1>2, <2>3 DEF BillBacked, Bills
  <2> QED BY <1>1, <2>1, <2>4, <2>5, DeskStep
<1> QED BY <1>3, <1>4

-----------------------------------------------------------------------------
(* Theorems.                                                               *)

LEMMA WarehouseInit == Init => WarehouseIInv
<1> SUFFICES ASSUME Init PROVE WarehouseIInv
    OBVIOUS
<1>1. /\ orders = [o \in Orders |-> NoOrder] /\ receipts = <<>> /\ stock = NewLedger
      /\ costs = {} /\ call = [s \in Sessions |-> Idle]
    BY DEF Init
<1>2. stock.moves = <<>> /\ stock.valuations = [item \in Items |-> Nothing]
      /\ stock.returned = [m \in Moves |-> 0]
    BY <1>1 DEF NewLedger
<1>3. StockTypes(stock)
    BY <1>1, EmptySeq DEF StockTypes, NewLedger, Holding, Nothing
<1>4. DOMAIN <<>> = {}
    OBVIOUS
<1>5. Carried(stock)
  <2> SUFFICES ASSUME NEW item \in Items PROVE CarriedAt(stock, item)
    BY DEF Carried
  <2>1. FoldOf(item, stock.moves) = Start
    BY <1>2, FoldNothing
  <2>2. Over(Signed(item, stock.moves), DOMAIN stock.moves) = 0
    BY <1>2, <1>4, OverEmpty
  <2> QED BY <1>2, <2>1, <2>2 DEF CarriedAt, Start, Nothing, Value
<1>6. AtDesk(Idle) /\ Done(Idle) = {} /\ BillBacked(Idle)
    BY DEF AtDesk, Done, BillBacked, Bills, Idle
<1>7. \A s \in Sessions : call[s] = Idle
    BY <1>1
<1>8. PaperTypes
  <2>1. OrderTypes
    BY <1>1 DEF OrderTypes
  <2>2. DeskTypes
    BY <1>1 DEF DeskTypes
  <2>3. receipts \in Seq(ValidReceipts)
    BY <1>1, EmptySeq
  <2>4. \A s \in Sessions : AtDesk(call[s])
    BY <1>6, <1>7
  <2> QED BY <1>1, <2>1, <2>2, <2>3, <2>4 DEF PaperTypes
<1>9. \A x : TakenIn(x, stock.moves) \in Nat /\ LetOut(x, stock.moves) \in Nat
             /\ Cardinality(Named(x, stock.moves)) \in Nat
    BY <1>3, SelectionsNat DEF StockTypes
<1>10. IssuesBacked
    BY <1>1, <1>2, <1>9 DEF IssuesBacked
<1>11. LinesMoved
  <2> SUFFICES ASSUME NEW r \in STRING, NEW i \in Nat
               PROVE  Cardinality(Named(<<r, i>>, stock.moves))
                        >= Cardinality(SavedAs(r, i)) + Cardinality(RecordedAs(r, i))
    BY DEF LinesMoved
  <2>1. SavedAs(r, i) = {} /\ RecordedAs(r, i) = {}
    BY <1>1, <1>4, <1>6, <1>7 DEF SavedAs, RecordedAs
  <2> QED BY <1>9, <2>1, FS_EmptySet
<1>12. UnitsMoved
  <2> SUFFICES ASSUME NEW item \in Items
               PROVE  TakenIn(item, stock.moves) >= Over(Arrived(item), DOMAIN receipts) + Over(Arriving(item), Sessions)
    BY DEF UnitsMoved
  <2> DEFINE f == Arriving(item)
  <2>1. \A s \in Sessions : f[s] = 0
    BY <1>6, <1>7, DoneFacts DEF Arriving
  <2>2. Over(Arrived(item), DOMAIN receipts) = 0
    BY <1>1, <1>4, OverEmpty
  <2> HIDE DEF f
  <2>3. Over(f, Sessions) = 0
    BY <2>1, SessionsAssumption, OverZero
  <2> QED BY <1>9, <2>2, <2>3 DEF f
<1>13. \A s \in Sessions : BillBacked(call[s])
    BY <1>6, <1>7
<1> QED BY <1>3, <1>5, <1>8, <1>10, <1>11, <1>12, <1>13 DEF WarehouseIInv

LEMMA WarehouseStep == WarehouseIInv /\ [Next]_vars => WarehouseIInv'
<1> SUFFICES ASSUME WarehouseIInv, [Next]_vars PROVE WarehouseIInv'
    OBVIOUS
<1>1. ASSUME NEW s \in Sessions, NEW c \in Commands, Flow(s, c) PROVE WarehouseIInv'
  <2>1. CASE InvoiceSale(s, c)
    <3> DEFINE then == [pc |-> "create", draft |-> Draft(c.id, c.lines, ReceivableLines(c.lines))]
    <3>1. then.pc = "create" /\ "warnings" \notin DOMAIN then
      OBVIOUS
    <3>2. Begin(s, Voucher("invoice", c.id, SaleEntries(c.lines)), then)
          /\ UNCHANGED <<orders, receipts, stock, costs>>
      BY <2>1 DEF InvoiceSale
    <3> HIDE DEF then
    <3> QED BY <3>1, <3>2, BeginKeeps
  <2>2. CASE Pay(s, c)
    <3> DEFINE then == [pc |-> "apply", app |-> Application(<<"apply", c.id>>, c.doc, c.id, c.amount)]
    <3>1. then.pc = "apply" /\ "warnings" \notin DOMAIN then
      OBVIOUS
    <3>2. Begin(s, Voucher("payment", c.id, PaymentEntries(c.amount)), then)
          /\ UNCHANGED <<orders, receipts, stock, costs>>
      BY <2>2 DEF Pay
    <3> HIDE DEF then
    <3> QED BY <3>1, <3>2, BeginKeeps
  <2>3. CASE CreditSale(s, c)
    <3> DEFINE then == [pc |-> "apply",
                        app |-> Application(<<"credit-apply", c.id>>, c.doc, c.id, Reversed(c.doc))]
    <3>1. then.pc = "apply" /\ "warnings" \notin DOMAIN then
      OBVIOUS
    <3>2. Begin(s, Voucher("credit", c.id, Reversal(c.doc)), then)
          /\ UNCHANGED <<orders, receipts, stock, costs>>
      BY <2>3 DEF CreditSale
    <3> HIDE DEF then
    <3> QED BY <3>1, <3>2, BeginKeeps
  <2>4. CASE InvoicePurchase(s, c)
    BY <2>4, InvoicePurchaseKeeps
  <2>5. CASE PaySupplier(s, c)
    <3> DEFINE then == [pc |-> "apply",
                        app |-> Application(<<"supplier-apply", c.id>>, c.doc, c.id, c.amount)]
    <3>1. then.pc = "apply" /\ "warnings" \notin DOMAIN then
      OBVIOUS
    <3>2. Begin(s, Voucher("supplier-payment", c.id, SupplierPaymentEntries(c.amount)), then)
          /\ UNCHANGED <<orders, receipts, stock, costs>>
      BY <2>5 DEF PaySupplier
    <3> HIDE DEF then
    <3> QED BY <3>1, <3>2, BeginKeeps
  <2>6. CASE IssueGoods(s, c)
    BY <2>6, IssueGoodsKeeps
  <2>7. CASE ReturnGoods(s, c)
    BY <2>7, ReturnGoodsKeeps
  <2>8. CASE OrderGoods(s, c)
    BY <2>8, OrderGoodsKeeps
  <2>9. CASE ReceiveGoods(s, c)
    BY <2>9, ReceiveGoodsKeeps
  <2> QED BY <1>1, <2>1, <2>2, <2>3, <2>4, <2>5, <2>6, <2>7, <2>8, <2>9 DEF Flow
<1>2. ASSUME NEW s \in Sessions, Advance(s) PROVE WarehouseIInv'
  <2>1. CASE Post(s)
    BY <2>1, PostKeeps
  <2>2. CASE PostAnswerLost(s)
    BY <2>2, EndKeeps DEF PostAnswerLost
  <2>3. CASE CreateDocument(s)
    BY <2>3, EndKeeps DEF CreateDocument
  <2>4. CASE ApplyPayment(s)
    BY <2>4, EndKeeps DEF ApplyPayment
  <2>5. CASE GiveUp(s)
    BY <2>5, EndKeeps DEF GiveUp
  <2>6. CASE RecordLine(s)
    BY <2>6, RecordLineKeeps
  <2>7. CASE SaveReceipt(s)
    BY <2>7, SaveReceiptKeeps
  <2> QED BY <1>2, <2>1, <2>2, <2>3, <2>4, <2>5, <2>6, <2>7 DEF Advance
<1>3. ASSUME NEW c \in Commands, WriteOff(c) PROVE WarehouseIInv'
    BY <1>3, WriteOffKeeps
<1>4. ASSUME NEW id \in Docs, VoidDocument(id) PROVE WarehouseIInv'
    BY <1>4, PapersUnchanged DEF VoidDocument
<1>5. CASE UNCHANGED vars
    BY <1>5, PapersUnchanged DEF vars
<1> QED BY <1>1, <1>2, <1>3, <1>4, <1>5 DEF Next, Asking

\* What the log says again and what was paid.
LEMMA WarehouseCarries == WarehouseIInv => CarriedNeverAboveCost
<1> SUFFICES ASSUME WarehouseIInv, NEW item \in Items
             PROVE  /\ Folded(item).position = stock.valuations[item]
                    /\ Level(stock, item) = stock.valuations[item].quantity
                    /\ Value(Folded(item).position) + Folded(item).left <= Folded(item).paid
    BY DEF CarriedNeverAboveCost
<1>1. CarriedAt(stock, item)
    BY DEF WarehouseIInv, Carried
<1>2. Folded(item) = FoldOf(item, stock.moves)
    BY DEF Folded, FoldOf, Folds, Start
<1>3. Level(stock, item) = Over(Signed(item, stock.moves), DOMAIN stock.moves)
    BY DEF Level, Over, Signed
<1> QED BY <1>1, <1>2, <1>3 DEF CarriedAt

\* The quantity of a selection of the log.
LEMMA SelectedQuantity ==
    ASSUME NEW sel \in SUBSET DOMAIN stock.moves
    PROVE  Quantity(sel) = Over(Quantities(stock.moves), sel)
<1>1. [n \in sel |-> stock.moves[n].quantity] = [n \in sel |-> Quantities(stock.moves)[n]]
    BY DEF Quantities
<1> QED BY <1>1 DEF Quantity, Over

\* Receipts, bills and returns are of goods that moved.
LEMMA WarehouseBacks == WarehouseIInv => WarehouseBacksPapers
<1> SUFFICES ASSUME WarehouseIInv PROVE WarehouseBacksPapers
    OBVIOUS
<1>0. PaperTypes /\ StockTypes(stock) /\ stock.moves \in Seq(Movement)
    BY DEF WarehouseIInv, StockTypes
<1>1. ASSUME NEW n \in DOMAIN receipts, NEW i \in DOMAIN receipts[n].lines
      PROVE  Cardinality({m \in DOMAIN stock.moves : stock.moves[m].id = <<receipts[n].id, i>>})
                >= Cardinality({k \in DOMAIN receipts : receipts[k].id = receipts[n].id
                                                         /\ i \in DOMAIN receipts[k].lines})
  <2>1. receipts[n] \in ValidReceipts
    BY <1>0, PapersSum
  <2>2. receipts[n].id \in STRING /\ i \in Nat
    BY <2>1, UnitsNat
  <2> DEFINE r == receipts[n].id
  <2>3. Cardinality(Named(<<r, i>>, stock.moves)) >= Cardinality(SavedAs(r, i)) + Cardinality(RecordedAs(r, i))
    BY <2>2 DEF WarehouseIInv, LinesMoved
  <2>4. /\ Cardinality(RecordedAs(r, i)) \in Nat /\ Cardinality(SavedAs(r, i)) \in Nat
        /\ Cardinality(Named(<<r, i>>, stock.moves)) \in Nat
    BY <1>0, PapersCount, SelectionsNat
  <2>5. Cardinality(Named(<<r, i>>, stock.moves)) >= Cardinality(SavedAs(r, i))
    BY <2>3, <2>4
  <2> QED BY <2>5 DEF Named, SavedAs
<1>2. ASSUME NEW s \in Billing, NEW item \in Items \ call[s].then.warnings
      PROVE  Quantity({m \in DOMAIN stock.moves :
                        stock.moves[m].item = item /\ stock.moves[m].direction = "in"})
                >= Units(item, orders[call[s].then.order].lines)
  <2>1. BillBacked(call[s]) /\ Bills(call[s])
    BY DEF WarehouseIInv, Billing, Bills
  <2>2. TakenIn(item, stock.moves) >= Units(item, orders[call[s].then.order].lines)
    BY <2>1 DEF BillBacked
  <2>3. Quantity(Ins(item, stock.moves)) = TakenIn(item, stock.moves)
    BY SelectedQuantity DEF TakenIn, Ins
  <2> QED BY <2>2, <2>3 DEF Ins
<1>3. ASSUME NEW m \in Moves
      PROVE  stock.returned[m] <= Quantity({n \in DOMAIN stock.moves :
                                    stock.moves[n].id = m /\ stock.moves[n].direction = "out"})
  <2>1. stock.returned[m] <= LetOut(m, stock.moves)
    BY DEF WarehouseIInv, IssuesBacked
  <2>2. Quantity(Outs(m, stock.moves)) = LetOut(m, stock.moves)
    BY SelectedQuantity DEF LetOut, Outs
  <2> QED BY <2>1, <2>2 DEF Outs
<1> QED BY <1>1, <1>2, <1>3 DEF WarehouseBacksPapers

LEMMA WarehouseInvariant == Spec => []WarehouseIInv
BY WarehouseInit, WarehouseStep, PTL DEF Spec

\* Whatever is received, issued, written off and returned, however the sessions
\* interleave: the log folded again gives every position back, and goods that
\* left and goods that stay never cost more between them than was paid for them
\* (inventory/ledger.go, valuation.go).
THEOREM WarehouseNeverOverstates == Spec => []CarriedNeverAboveCost
<1>1. Spec => []WarehouseIInv
    BY WarehouseInvariant
<1> QED BY <1>1, WarehouseCarries, PTL

\* The receipts the order book shows were moved line by line, the bills that
\* warn of nothing are for goods the warehouse took in, and no run of returns
\* brings back more than left (trading/purchase.go, inventory/cogs.go).
THEOREM PapersAreBacked == Spec => []WarehouseBacksPapers
<1>1. Spec => []WarehouseIInv
    BY WarehouseInvariant
<1> QED BY <1>1, WarehouseBacks, PTL


-----------------------------------------------------------------------------
(* The ledger and the document book.                                       *)

\* The series whose vouchers the book is to hear of, and those it answers with
\* a row: what the row is called.
RowKinds   == {"payment", "credit", "supplier-payment"}
BookSeries == RowKinds \cup {Creating[account] : account \in Controls}

RowName(id) ==
    <<IF id[1] = "payment" THEN "apply" ELSE IF id[1] = "credit" THEN "credit-apply" ELSE "supplier-apply",
      id[2]>>

\* The command that brings a document to a control account.
AsksFor(account) == IF account = Receivable THEN "invoice" ELSE "bill"
AskedAs(account, d) == \E c \in Commands : c.kind = AsksFor(account) /\ c.id = d

\* Amounts that add up.
Amounts(entries) ==
    /\ IsFiniteSet(DOMAIN entries)
    /\ \A i \in DOMAIN entries : entries[i].debit \in Nat /\ entries[i].credit \in Nat

\* Lines that land on one control account.
LandsOn(account, ls) ==
    /\ Amounts(ls)
    /\ \E i \in DOMAIN ls : ls[i].account = account
    /\ \A i \in DOMAIN ls : ls[i].account \in Controls => ls[i].account = account

\* A voucher and the document it was posted for, or the payment.
Announces(voucher, draft) ==
    /\ Amounts(voucher.entries)
    /\ draft.id \in Docs /\ draft.document \in FiledDocument
    /\ \E account \in Controls :
        /\ voucher.id = <<Creating[account], draft.id>>
        /\ AskedAs(account, draft.id)
        /\ LandsOn(account, draft.lines)

Answers(voucher, app) ==
    /\ Amounts(voucher.entries)
    /\ voucher.id[1] \in RowKinds
    /\ voucher.id = <<voucher.id[1], app.payment>>
    /\ app.id = RowName(voucher.id)
    /\ app.doc \in Docs /\ app.amount \in Int

\* What a flow will do to the book.
Intends(voucher, then) ==
    /\ then.pc = "create" => Announces(voucher, then.draft)
    /\ then.pc = "apply" => Answers(voucher, then.app)
    /\ then.pc = "done" => voucher.id = <<voucher.id[1], voucher.id[2]>> /\ voucher.id[1] \notin BookSeries

\* A flow whose voucher is posted and that has not told the book.
Telling(now) == now.pc \in {"create", "apply"}

FlowKept(now) ==
    /\ now.pc \in {"post", "create", "apply"} => Intends(now.voucher, now.then)
    /\ Telling(now) => now.then.pc = now.pc /\ now.voucher \in ledger /\ ~InBook(now.voucher)

FlowsKept ==
    /\ \A s \in Sessions : FlowKept(call[s])
    /\ \A s, t \in Sessions : s # t /\ Telling(call[s]) /\ Telling(call[t]) => call[s].voucher # call[t].voucher

LedgerKept ==
    /\ IsFiniteSet(ledger)
    /\ \A v \in ledger : v.id = <<v.id[1], v.id[2]>> /\ (v.id[1] \in BookSeries => Amounts(v.entries))
    /\ \A v, w \in ledger : v.id = w.id => v = w

BookTypes ==
    /\ documents = [d \in Docs |-> documents[d]]
    /\ lines = [d \in Docs |-> lines[d]]

\* A document of the book is on one control account, with its voucher.
FiledOn(account, d) ==
    /\ LandsOn(account, lines[d])
    /\ Posted(<<Creating[account], d>>)
    /\ AskedAs(account, d)

DocumentsKept ==
    \A d \in Docs :
        IF documents[d] = NoDocument THEN lines[d] = <<>>
        ELSE documents[d] \in FiledDocument /\ \E account \in Controls : FiledOn(account, d)

\* A row of the book has the voucher of its payment.
RowsKept ==
    \A r \in Rows : \E v \in ledger :
        v.id[1] \in RowKinds /\ v.id[2] = r.payment /\ r.id = RowName(v.id)

BookIInv == LedgerKept /\ BookTypes /\ DocumentsKept /\ RowsKept /\ FlowsKept

\* The accounts of the two cycles.
LEMMA Accounts ==
    /\ SalesAccounts.receivable = "131" /\ SalesAccounts.revenue = "5111" /\ SalesAccounts.vatOutput = "33311"
    /\ Receivable = "131" /\ Payables = "331" /\ Controls = {"131", "331"}
    /\ Creating["131"] = "invoice" /\ Creating["331"] = "purchase"
    /\ BookSeries = {"payment", "credit", "supplier-payment", "invoice", "purchase"}
<1> DEFINE rules == TT133Defaults
<1>1. ASSUME NEW side, NEW type, NEW account, Rule(side, type, account) \in rules
      PROVE  AccountFor(rules, side, type) = account
  <2>1. Rule(side, type, account).key = Decision(side, type) /\ Rule(side, type, account).account = account
    BY DEF Rule
  <2>2. \A r \in rules : r.key = Decision(side, type) => r.account = account
    BY <1>1, <2>1, RulesLoad DEF Loadable
  <2> HIDE DEF rules
  <2> QED BY <1>1, <2>1, <2>2 DEF AccountFor
<1>2. AccountFor(rules, "debit", "ASSET") = "131" /\ AccountFor(rules, "credit", "REVENUE") = "5111"
      /\ AccountFor(rules, "credit", "LIABILITY") = "33311"
  <2>1. /\ Rule("debit", "ASSET", "131") \in rules /\ Rule("credit", "REVENUE", "5111") \in rules
        /\ Rule("credit", "LIABILITY", "33311") \in rules
    BY DEF TT133Defaults
  <2> HIDE DEF rules
  <2> QED BY <1>1, <2>1
<1>3. SalesAccounts.receivable = "131" /\ SalesAccounts.revenue = "5111" /\ SalesAccounts.vatOutput = "33311"
    BY <1>2 DEF SalesAccounts
<1>4. Receivable = "131" /\ Payables = "331" /\ Controls = {"131", "331"}
    BY <1>3 DEF Receivable, Payables, Controls, PurchaseAccounts
<1>5. Creating["131"] = "invoice" /\ Creating["331"] = "purchase"
    BY <1>4 DEF Creating
<1>6. {Creating[account] : account \in Controls} = {"invoice", "purchase"}
    BY <1>4, <1>5
<1> QED BY <1>3, <1>4, <1>5, <1>6 DEF BookSeries, RowKinds

\* Whom the book has heard of, by the voucher's series.
LEMMA InBookIs ==
    ASSUME NEW v
    PROVE  /\ v.id[1] \in RowKinds => (InBook(v) <=> \E r \in Rows : r.id = RowName(v.id))
           /\ \A account \in Controls : v.id[1] = Creating[account] => (InBook(v) <=> v.id[2] \in OnAccount(account))
           /\ InBook(v) => v.id[1] \in BookSeries
<1>1. CASE v.id[1] = "invoice"
    BY <1>1, Accounts DEF InBook, RowKinds
<1>2. CASE v.id[1] = "purchase"
    BY <1>2, Accounts DEF InBook, RowKinds
<1>3. CASE v.id[1] \in RowKinds
    BY <1>3, Accounts DEF InBook, RowKinds, RowName
<1>4. CASE v.id[1] \notin BookSeries
    BY <1>4, Accounts DEF InBook, RowKinds
<1> QED BY <1>1, <1>2, <1>3, <1>4, Accounts DEF RowKinds

LEMMA InBookIsNext ==
    ASSUME NEW v
    PROVE  /\ v.id[1] \in RowKinds => (InBook(v)' <=> \E r \in Rows' : r.id = RowName(v.id))
           /\ \A account \in Controls : v.id[1] = Creating[account] => (InBook(v)' <=> v.id[2] \in OnAccount(account)')
           /\ InBook(v)' => v.id[1] \in BookSeries
<1>1. CASE v.id[1] = "invoice"
    BY <1>1, Accounts DEF InBook, RowKinds
<1>2. CASE v.id[1] = "purchase"
    BY <1>2, Accounts DEF InBook, RowKinds
<1>3. CASE v.id[1] \in RowKinds
    BY <1>3, Accounts DEF InBook, RowKinds, RowName
<1>4. CASE v.id[1] \notin BookSeries
    BY <1>4, Accounts DEF InBook, RowKinds
<1> QED BY <1>1, <1>2, <1>3, <1>4, Accounts DEF RowKinds

\* A document is on the account it was filed on, and on no other.
LEMMA OnAccountIs ==
    ASSUME DocumentsKept, NEW account \in Controls, NEW d
    PROVE  d \in OnAccount(account) <=> d \in Docs /\ documents[d] # NoDocument /\ FiledOn(account, d)
<1>1. ASSUME d \in OnAccount(account)
      PROVE  d \in Docs /\ documents[d] # NoDocument /\ FiledOn(account, d)
  <2>1. d \in Docs /\ \E i \in DOMAIN lines[d] : lines[d][i].account = account
    BY <1>1 DEF OnAccount
  <2>2. documents[d] # NoDocument
    BY <2>1 DEF DocumentsKept
  <2>3. PICK b \in Controls : FiledOn(b, d)
    BY <2>1, <2>2 DEF DocumentsKept
  <2>4. account = b
    BY <2>1, <2>3 DEF FiledOn, LandsOn
  <2> QED BY <2>1, <2>2, <2>3, <2>4
<1>2. ASSUME d \in Docs, FiledOn(account, d) PROVE d \in OnAccount(account)
    BY <1>2 DEF FiledOn, LandsOn, OnAccount
<1> QED BY <1>1, <1>2

\* The two control accounts tell their documents' series apart.
LEMMA CreatingApart ==
    ASSUME NEW a \in Controls, NEW b \in Controls, Creating[a] = Creating[b]
    PROVE  a = b
BY Accounts

\* What the ledger does not hold the book has not heard of.
LEMMA NotPostedNotHeard ==
    ASSUME BookIInv, NEW v, v.id = <<v.id[1], v.id[2]>>, ~Posted(v.id)
    PROVE  ~InBook(v)
<1> SUFFICES ASSUME InBook(v) PROVE FALSE
    OBVIOUS
<1>1. v.id[1] \in BookSeries
    BY InBookIs
<1>2. CASE v.id[1] \in RowKinds
  <2>1. PICK r \in Rows : r.id = RowName(v.id)
    BY <1>2, InBookIs
  <2>2. PICK w \in ledger : w.id[1] \in RowKinds /\ r.id = RowName(w.id)
    BY DEF BookIInv, RowsKept
  <2>3. w.id = <<w.id[1], w.id[2]>>
    BY DEF BookIInv, LedgerKept
  <2>4. w.id[1] = v.id[1] /\ w.id[2] = v.id[2]
    BY <1>2, <2>1, <2>2 DEF RowName, RowKinds
  <2> QED BY <2>3, <2>4 DEF Posted
<1>3. ASSUME NEW account \in Controls, v.id[1] = Creating[account] PROVE FALSE
  <2>1. v.id[2] \in OnAccount(account)
    BY <1>3, InBookIs
  <2>2. FiledOn(account, v.id[2])
    BY <2>1, OnAccountIs DEF BookIInv
  <2> QED BY <1>3, <2>2 DEF FiledOn
<1> QED BY <1>1, <1>2, <1>3 DEF BookSeries

-----------------------------------------------------------------------------
(* Steps.                                                                  *)

\* A step that neither posts nor tells the book anything.
LEMMA FlowStep ==
    ASSUME BookIInv, DeskTypes, NEW s \in Sessions, NEW now, call' = [call EXCEPT ![s] = now],
           UNCHANGED <<ledger, book>>, ~Telling(now), FlowKept(now)
    PROVE  BookIInv'
<1>1. call'[s] = now /\ \A t \in Sessions : t # s => call'[t] = call[t]
    BY CallBut
<1>2. LedgerKept' /\ BookTypes' /\ DocumentsKept' /\ RowsKept'
    BY DEF BookIInv, book, LedgerKept, BookTypes, DocumentsKept, FiledOn, Posted, RowsKept, Rows
<1>3. \A v : InBook(v)' = InBook(v)
    BY DEF book, InBook, OnAccount, Rows
<1>4. ASSUME NEW t \in Sessions PROVE FlowKept(call[t])'
  <2>1. CASE t = s
    BY <1>1, <2>1, <1>3 DEF FlowKept, book
  <2>2. CASE t # s
    <3>1. call'[t] = call[t] /\ FlowKept(call[t])
      BY <1>1, <2>2 DEF BookIInv, FlowsKept
    <3> QED BY <1>3, <3>1 DEF FlowKept, book
  <2> QED BY <2>1, <2>2
<1>5. \A t, u \in Sessions : t # u /\ Telling(call'[t]) /\ Telling(call'[u]) => call'[t].voucher # call'[u].voucher
    BY <1>1 DEF BookIInv, FlowsKept
<1>6. FlowsKept'
    BY <1>4, <1>5 DEF FlowsKept, Telling
<1> QED BY <1>2, <1>6 DEF BookIInv

\* A voucher the ledger lets in.
LEMMA PostStep ==
    ASSUME BookIInv, DeskTypes, NEW s \in Sessions, call[s].pc = "post", ~Posted(call[s].voucher.id),
           ledger' = ledger \cup {call[s].voucher}, UNCHANGED book,
           call[s].then.pc \in {"create", "apply", "done"},
           NEW now, call' = [call EXCEPT ![s] = now],
           now = Idle \/ (now.pc = call[s].then.pc /\ Telling(now) /\ now.voucher = call[s].voucher /\ now.then = call[s].then)
    PROVE  BookIInv'
<1> DEFINE v == call[s].voucher
<1>0. LedgerKept /\ BookTypes /\ DocumentsKept /\ RowsKept /\ FlowsKept
    BY DEF BookIInv
<1>1. call'[s] = now /\ \A t \in Sessions : t # s => call'[t] = call[t]
    BY CallBut
<1>2. Intends(v, call[s].then)
    BY <1>0 DEF FlowsKept, FlowKept
<1>3. v.id = <<v.id[1], v.id[2]>> /\ (v.id[1] \in BookSeries => Amounts(v.entries))
  <2>1. CASE call[s].then.pc = "create"
    <3>1. Announces(v, call[s].then.draft)
      BY <1>2, <2>1 DEF Intends
    <3>2. PICK account \in Controls : v.id = <<Creating[account], call[s].then.draft.id>>
      BY <3>1 DEF Announces
    <3> QED BY <3>1, <3>2 DEF Announces
  <2>2. CASE call[s].then.pc # "create"
    BY <1>2, <2>2 DEF Intends, Answers
  <2> QED BY <2>1, <2>2
<1> HIDE DEF v
<1>4. ~InBook(v) /\ \A w \in ledger : w.id # v.id
    BY <1>3, NotPostedNotHeard DEF Posted, v
<1>5. ledger' = ledger \cup {v}
    BY DEF v
<1>6. LedgerKept'
  <2>1. IsFiniteSet(ledger')
    BY <1>0, <1>5, FS_AddElement DEF LedgerKept
  <2> QED BY <1>0, <1>3, <1>4, <1>5, <2>1 DEF LedgerKept
<1>7. BookTypes' /\ RowsKept'
    BY <1>0, <1>5 DEF book, BookTypes, RowsKept, Rows
<1>8. DocumentsKept'
  <2>1. \A account, d : FiledOn(account, d) => FiledOn(account, d)'
    BY <1>5 DEF FiledOn, Posted, book
  <2> QED BY <1>0, <2>1 DEF DocumentsKept, book
<1>9. \A w : InBook(w)' = InBook(w)
    BY DEF book, InBook, OnAccount, Rows
<1>10. ASSUME NEW t \in Sessions PROVE FlowKept(call[t])'
  <2>1. CASE t = s /\ now = Idle
    BY <1>1, <2>1 DEF FlowKept, Telling, Idle
  <2>2. CASE t = s /\ now # Idle
    <3>1. now.pc = now.then.pc /\ Telling(now) /\ now.voucher = v /\ Intends(now.voucher, now.then)
      BY <1>2, <2>2 DEF v
    <3>2. call'[t] = now /\ now.voucher \in ledger' /\ ~InBook(now.voucher)
      BY <1>1, <1>4, <1>5, <2>2, <3>1
    <3> QED BY <1>9, <3>1, <3>2 DEF FlowKept
  <2>3. CASE t # s
    <3>1. call'[t] = call[t] /\ FlowKept(call[t])
      BY <1>0, <1>1, <2>3 DEF FlowsKept
    <3> QED BY <1>5, <1>9, <3>1 DEF FlowKept
  <2> QED BY <2>1, <2>2, <2>3
<1>11. ASSUME NEW t \in Sessions, NEW u \in Sessions, t # u, Telling(call'[t]), Telling(call'[u])
       PROVE  call'[t].voucher # call'[u].voucher
  <2>1. \A r \in Sessions : r # s /\ Telling(call[r]) => call[r].voucher # v
    BY <1>0, <1>4 DEF FlowsKept, FlowKept
  <2>2. Telling(now) => now.voucher = v
    BY DEF v, Idle, Telling
  <2>3. CASE t # s /\ u # s
    BY <1>0, <1>1, <1>11, <2>3 DEF FlowsKept
  <2>4. CASE t = s
    BY <1>1, <1>11, <2>1, <2>2, <2>4
  <2>5. CASE u = s
    BY <1>1, <1>11, <2>1, <2>2, <2>5
  <2> QED BY <2>3, <2>4, <2>5
<1>12. FlowsKept'
    BY <1>10, <1>11 DEF FlowsKept, Telling
<1> QED BY <1>6, <1>7, <1>8, <1>12 DEF BookIInv

\* The book hears of the voucher of one flow, and of no other.
HeardOf(v) == \A w \in ledger : InBook(w)' <=> InBook(w) \/ w = v

LEMMA HeardStep ==
    ASSUME BookIInv, DeskTypes, NEW s \in Sessions, Telling(call[s]), HeardOf(call[s].voucher),
           call' = [call EXCEPT ![s] = Idle], UNCHANGED ledger,
           BookTypes', DocumentsKept', RowsKept'
    PROVE  BookIInv'
<1> DEFINE v == call[s].voucher
<1>0. LedgerKept /\ FlowsKept
    BY DEF BookIInv
<1>1. call'[s] = Idle /\ \A t \in Sessions : t # s => call'[t] = call[t]
    BY CallBut
<1>2. LedgerKept'
    BY <1>0 DEF LedgerKept
<1>3. ~Telling(Idle) /\ Idle.pc = "idle"
    BY DEF Telling, Idle
<1>4. ASSUME NEW t \in Sessions PROVE FlowKept(call[t])'
  <2>1. CASE t = s
    BY <1>1, <1>3, <2>1 DEF FlowKept, Telling
  <2>2. CASE t # s
    <3>1. call'[t] = call[t] /\ FlowKept(call[t])
      BY <1>0, <1>1, <2>2 DEF FlowsKept
    <3>2. Telling(call[t]) => call[t].voucher # v
      BY <1>0, <2>2 DEF FlowsKept
    <3> HIDE DEF v
    <3>3. \A w \in ledger : w # v /\ ~InBook(w) => ~InBook(w)'
      BY DEF HeardOf, v
    <3> QED BY <3>1, <3>2, <3>3 DEF FlowKept
  <2> QED BY <2>1, <2>2
<1>5. \A t, u \in Sessions : t # u /\ Telling(call'[t]) /\ Telling(call'[u]) => call'[t].voucher # call'[u].voucher
    BY <1>0, <1>1, <1>3 DEF FlowsKept
<1>6. FlowsKept'
    BY <1>4, <1>5 DEF FlowsKept, Telling
<1> QED BY <1>2, <1>6 DEF BookIInv

\* The book takes a new document: it goes on its own control account.
LEMMA CreateIs ==
    ASSUME BookIInv, NEW s \in Sessions, CreateDocument(s)
    PROVE  LET draft == call[s].then.draft
               v == call[s].voucher
           IN  /\ Telling(call[s]) /\ v \in ledger /\ ~InBook(v)
               /\ Announces(v, draft) /\ Book!CheckNew(draft)
               /\ documents[draft.id] = NoDocument
               /\ documents'[draft.id] = draft.document /\ lines'[draft.id] = draft.lines
               /\ \A d \in Docs : d # draft.id => documents'[d] = documents[d] /\ lines'[d] = lines[d]
               /\ UNCHANGED <<ledger, allocations, credits>>
               /\ BookTypes'
<1> DEFINE draft == call[s].then.draft
           v == call[s].voucher
<1>1. /\ call[s].pc = "create" /\ Book!Create(draft) /\ UNCHANGED ledger
    BY DEF CreateDocument
<1>2. Telling(call[s]) /\ v \in ledger /\ ~InBook(v) /\ Announces(v, draft)
    BY <1>1 DEF BookIInv, FlowsKept, FlowKept, Telling, Intends
<1> HIDE DEF v, draft
<1>3. /\ documents[draft.id] = NoDocument /\ Book!CheckNew(draft)
      /\ documents' = [documents EXCEPT ![draft.id] = draft.document]
      /\ lines' = [lines EXCEPT ![draft.id] = draft.lines]
      /\ UNCHANGED <<allocations, credits>>
    BY <1>1 DEF Book!Create
<1>4. draft.id \in Docs
    BY <1>2 DEF Announces
<1>5. BookTypes
    BY DEF BookIInv
<1>6. /\ documents'[draft.id] = draft.document
      /\ \A d \in Docs : d # draft.id => documents'[d] = documents[d]
      /\ documents' = [d \in Docs |-> documents'[d]]
    BY <1>3, <1>4, <1>5 DEF BookTypes
<1>7. /\ lines'[draft.id] = draft.lines
      /\ \A d \in Docs : d # draft.id => lines'[d] = lines[d]
      /\ lines' = [d \in Docs |-> lines'[d]]
    BY <1>3, <1>4, <1>5 DEF BookTypes
<1>8. BookTypes'
    BY <1>6, <1>7 DEF BookTypes
<1> QED BY <1>1, <1>2, <1>3, <1>6, <1>7, <1>8 DEF v, draft

LEMMA CreateKeeps ==
    ASSUME BookIInv, DeskTypes, NEW s \in Sessions, CreateDocument(s)
    PROVE  /\ BookIInv' /\ HeardOf(call[s].voucher)
           /\ \A account \in Controls :
                  OnAccount(account)' = IF call[s].voucher.id[1] = Creating[account]
                                        THEN OnAccount(account) \cup {call[s].then.draft.id}
                                        ELSE OnAccount(account)
<1> DEFINE draft == call[s].then.draft
           v == call[s].voucher
<1>1. /\ Telling(call[s]) /\ v \in ledger /\ ~InBook(v)
      /\ Announces(v, draft)
      /\ documents[draft.id] = NoDocument
      /\ documents'[draft.id] = draft.document /\ lines'[draft.id] = draft.lines
      /\ \A d \in Docs : d # draft.id => documents'[d] = documents[d] /\ lines'[d] = lines[d]
      /\ UNCHANGED <<ledger, allocations, credits>>
      /\ BookTypes'
    BY CreateIs
<1>0. call' = [call EXCEPT ![s] = Idle]
    BY DEF CreateDocument
<1> HIDE DEF v, draft
<1>2. PICK account \in Controls :
        /\ v.id = <<Creating[account], draft.id>>
        /\ AskedAs(account, draft.id)
        /\ LandsOn(account, draft.lines)
    BY <1>1 DEF Announces
<1>3. draft.id \in Docs /\ draft.document \in FiledDocument /\ lines[draft.id] = <<>>
    BY <1>1 DEF Announces, BookIInv, DocumentsKept
<1>4. \A b \in Controls : OnAccount(b)' = IF b = account THEN OnAccount(b) \cup {draft.id} ELSE OnAccount(b)
    BY <1>1, <1>2, <1>3 DEF OnAccount, LandsOn
<1>5. \A w \in ledger : w.id = v.id => w = v
    BY <1>1 DEF BookIInv, LedgerKept
<1>6. ASSUME NEW w \in ledger PROVE InBook(w)' <=> InBook(w) \/ w = v
  <2>1. CASE w.id[1] \in RowKinds
    <3>1. w # v
      BY <1>2, <2>1, Accounts DEF RowKinds
    <3> QED BY <1>1, <2>1, <3>1, InBookIs, InBookIsNext DEF Rows
  <2>2. ASSUME NEW b \in Controls, w.id[1] = Creating[b]
        PROVE  InBook(w)' <=> InBook(w) \/ w = v
    <3>1. (InBook(w) <=> w.id[2] \in OnAccount(b)) /\ (InBook(w)' <=> w.id[2] \in OnAccount(b)')
      BY <2>2, InBookIs, InBookIsNext
    <3>2. w = v => b = account
      BY <1>2, <2>2, CreatingApart
    <3>3. b = account => (w.id[2] = draft.id <=> w = v)
      <4>1. w.id = <<w.id[1], w.id[2]>>
        BY DEF BookIInv, LedgerKept
      <4> QED BY <1>2, <1>5, <2>2, <4>1
    <3> QED BY <1>4, <3>1, <3>2, <3>3
  <2>3. CASE w.id[1] \notin BookSeries
    <3>1. w # v
      BY <1>2, <2>3 DEF BookSeries
    <3> QED BY <2>3, <3>1, InBookIs, InBookIsNext
  <2> QED BY <2>1, <2>2, <2>3 DEF BookSeries
<1>7. HeardOf(v)
    BY <1>6 DEF HeardOf
<1>8. DocumentsKept'
  <2>0. PICK id : id = draft.id
    OBVIOUS
  <2>1. Posted(<<Creating[account], id>>)'
    BY <1>1, <1>2, <2>0 DEF Posted
  <2>2. FiledOn(account, id)'
    BY <1>1, <1>2, <2>0, <2>1 DEF FiledOn
  <2>3. draft.document # NoDocument
    BY <1>3, NoDocumentAssumption
  <2>4. \A d \in Docs : \A b : d # draft.id /\ FiledOn(b, d) => FiledOn(b, d)'
    BY <1>1 DEF FiledOn, Posted
  <2>5. ASSUME NEW d \in Docs
        PROVE  IF documents'[d] = NoDocument THEN lines'[d] = <<>>
               ELSE documents'[d] \in FiledDocument /\ \E b \in Controls : FiledOn(b, d)'
    <3>1. CASE d = draft.id
      BY <1>1, <1>3, <2>0, <2>2, <2>3, <3>1
    <3>2. CASE d # draft.id
      BY <1>1, <2>4, <3>2 DEF BookIInv, DocumentsKept
    <3> QED BY <3>1, <3>2
  <2> QED BY <2>5 DEF DocumentsKept
<1>9. RowsKept'
    BY <1>1 DEF BookIInv, RowsKept, Rows
<1>10. BookIInv'
    BY <1>0, <1>1, <1>7, <1>8, <1>9, HeardStep DEF v
<1>11. \A b \in Controls : v.id[1] = Creating[b] <=> b = account
    BY <1>2, CreatingApart
<1> QED BY <1>4, <1>7, <1>10, <1>11 DEF v, draft

\* A filed document's fields, whoever it is with and at whatever rate.
Filings(people, rates) ==
    [partner : people, rate : rates, total : Int, currency : STRING, allocated : Int,
     status : {"open", "partially_paid", "paid", "void"}]

\* A filed document whose status or allocation changes is a filed document.
LEMMA FiledStays ==
    ASSUME NEW d \in FiledDocument, NEW allocated \in Int, NEW status \in {"open", "partially_paid", "paid", "void"}
    PROVE  /\ [d EXCEPT !.allocated = allocated, !.status = status] \in FiledDocument
           /\ [d EXCEPT !.status = status] \in FiledDocument
<1>1. \A people, rates : d \in Filings(people, rates) =>
            /\ [d EXCEPT !.allocated = allocated, !.status = status] \in Filings(people, rates)
            /\ [d EXCEPT !.status = status] \in Filings(people, rates)
    BY DEF Filings
<1> QED BY <1>1 DEF FiledDocument, Filings

\* What a payment settles of a filed document.
LEMMA SettledFacts ==
    ASSUME NEW d \in FiledDocument, NEW app, app.amount \in Int, Book!MaySettle(d, app)
    PROVE  /\ Book!Settled(d, app) \in FiledDocument
           /\ Book!Settled(d, app).total = d.total /\ Book!Settled(d, app).status # "void"
           /\ d.status # "void" /\ Book!Outstanding(d) \in Int
           /\ Book!Applied(d, app) \in Int /\ Book!Credited(d, app) = app.amount - Book!Applied(d, app)
           /\ Book!Outstanding(Book!Settled(d, app)) = Book!Outstanding(d) - Book!Applied(d, app)
           /\ Book!Applied(d, app) >= 0 /\ Book!Credited(d, app) >= 0
           /\ Book!Applied(d, app) > 0 \/ Book!Credited(d, app) > 0
<1> DEFINE allocated == d.allocated + Book!Applied(d, app)
           status == Book!StatusFor(d.total, allocated)
<1>1. /\ d.total \in Int /\ d.allocated \in Int /\ d.total > 0 /\ 0 <= d.allocated /\ d.allocated <= d.total
      /\ app.amount > 0 /\ d.status # "void"
    BY DEF Book!MaySettle, Book!ValidDocument, FiledDocument
<1>2. Book!Outstanding(d) = d.total - d.allocated /\ Book!Outstanding(d) \in Int /\ Book!Outstanding(d) >= 0
    BY <1>1 DEF Book!Outstanding
<1>3. /\ Book!Applied(d, app) \in Int /\ 0 <= Book!Applied(d, app)
      /\ Book!Applied(d, app) <= Book!Outstanding(d) /\ Book!Applied(d, app) <= app.amount
      /\ Book!Applied(d, app) = Book!Outstanding(d) \/ Book!Applied(d, app) = app.amount
    BY <1>1, <1>2 DEF Book!Applied
<1>4. /\ Book!Credited(d, app) = app.amount - Book!Applied(d, app) /\ Book!Credited(d, app) >= 0
      /\ Book!Applied(d, app) > 0 \/ Book!Credited(d, app) > 0
    BY <1>1, <1>3 DEF Book!Credited
<1>5. allocated \in Int /\ 0 <= allocated /\ allocated <= d.total
    BY <1>1, <1>2, <1>3
<1>6. status \in {"open", "partially_paid", "paid"}
    BY <1>1, <1>5 DEF Book!StatusFor
<1>7. Book!Settled(d, app) = [d EXCEPT !.allocated = allocated, !.status = status]
    BY DEF Book!Settled
<1> HIDE DEF allocated, status
<1>8. [d EXCEPT !.allocated = allocated, !.status = status] \in FiledDocument
    BY <1>5, <1>6, FiledStays
<1>9. Book!Settled(d, app) \in FiledDocument
    BY <1>7, <1>8
<1>10. Book!Settled(d, app).total = d.total /\ Book!Settled(d, app).status = status
       /\ Book!Settled(d, app).allocated = allocated
    BY <1>7 DEF FiledDocument
<1>11. Book!Outstanding(Book!Settled(d, app)) = d.total - allocated
    BY <1>1, <1>5, <1>6, <1>10 DEF Book!Outstanding
<1>12. d.total - allocated = Book!Outstanding(d) - Book!Applied(d, app)
    BY <1>1, <1>2, <1>3 DEF allocated
<1> QED BY <1>1, <1>2, <1>3, <1>4, <1>6, <1>9, <1>10, <1>11, <1>12

\* The book takes a payment: the rows it leaves answer the payment's voucher.
LEMMA ApplyIs ==
    ASSUME BookIInv, NEW s \in Sessions, ApplyPayment(s)
    PROVE  LET app == call[s].then.app
               v == call[s].voucher
               d == documents[app.doc]
           IN  /\ Telling(call[s]) /\ v \in ledger /\ ~InBook(v)
               /\ Answers(v, app) /\ d \in FiledDocument /\ Book!MaySettle(d, app)
               /\ d # NoDocument
               /\ documents'[app.doc] = Book!Settled(d, app)
               /\ \A x \in Docs : x # app.doc => documents'[x] = documents[x]
               /\ allocations' = allocations \cup Book!AllocationRows(d, app)
               /\ credits' = credits \cup Book!CreditRows(d, app)
               /\ UNCHANGED <<ledger, lines>>
               /\ BookTypes'
<1> DEFINE app == call[s].then.app
           v == call[s].voucher
           d == documents[app.doc]
<1>1. /\ call[s].pc = "apply" /\ Book!Apply(app) /\ UNCHANGED ledger
    BY DEF ApplyPayment
<1>2. Telling(call[s]) /\ v \in ledger /\ ~InBook(v) /\ Answers(v, app)
    BY <1>1 DEF BookIInv, FlowsKept, FlowKept, Telling, Intends
<1> HIDE DEF v, app
<1>3. /\ d # NoDocument /\ Book!MaySettle(d, app)
      /\ documents' = [documents EXCEPT ![app.doc] = Book!Settled(d, app)]
      /\ allocations' = allocations \cup Book!AllocationRows(d, app)
      /\ credits' = credits \cup Book!CreditRows(d, app)
      /\ UNCHANGED lines
    BY <1>1 DEF Book!Apply
<1>4. app.doc \in Docs
    BY <1>2 DEF Answers
<1>5. BookTypes /\ d \in FiledDocument
    BY <1>3, <1>4 DEF BookIInv, DocumentsKept
<1> HIDE DEF d
<1>6. /\ documents'[app.doc] = Book!Settled(d, app)
      /\ \A x \in Docs : x # app.doc => documents'[x] = documents[x]
      /\ documents' = [x \in Docs |-> documents'[x]]
    BY <1>3, <1>4, <1>5 DEF BookTypes
<1>7. lines' = [x \in Docs |-> lines'[x]]
    BY <1>3, <1>5 DEF BookTypes
<1>8. BookTypes'
    BY <1>6, <1>7 DEF BookTypes
<1> QED BY <1>1, <1>2, <1>3, <1>5, <1>6, <1>8 DEF v, app, d

LEMMA ApplyKeeps ==
    ASSUME BookIInv, DeskTypes, NEW s \in Sessions, ApplyPayment(s)
    PROVE  BookIInv' /\ HeardOf(call[s].voucher) /\ \A account : OnAccount(account)' = OnAccount(account)
<1> DEFINE app == call[s].then.app
           v == call[s].voucher
           d == documents[app.doc]
           more == Book!AllocationRows(d, app) \cup Book!CreditRows(d, app)
<1>1. /\ Telling(call[s]) /\ v \in ledger /\ ~InBook(v)
      /\ Answers(v, app) /\ d \in FiledDocument /\ Book!MaySettle(d, app)
      /\ d # NoDocument
      /\ documents'[app.doc] = Book!Settled(d, app)
      /\ \A x \in Docs : x # app.doc => documents'[x] = documents[x]
      /\ allocations' = allocations \cup Book!AllocationRows(d, app)
      /\ credits' = credits \cup Book!CreditRows(d, app)
      /\ UNCHANGED <<ledger, lines>>
      /\ BookTypes'
    BY ApplyIs
<1>0. call' = [call EXCEPT ![s] = Idle]
    BY DEF ApplyPayment
<1> HIDE DEF app, v, d
<1>2. /\ v.id[1] \in RowKinds /\ v.id = <<v.id[1], app.payment>> /\ app.id = RowName(v.id)
      /\ app.doc \in Docs /\ app.amount \in Int
    BY <1>1 DEF Answers
<1>3. /\ Book!Settled(d, app) \in FiledDocument
      /\ Book!Applied(d, app) > 0 \/ Book!Credited(d, app) > 0
    BY <1>1, <1>2, SettledFacts
<1>4. more # {} /\ \A r \in more : r.id = RowName(v.id) /\ r.payment = app.payment
  <2>1. Book!AllocationRows(d, app) # {} \/ Book!CreditRows(d, app) # {}
    BY <1>3 DEF Book!AllocationRows, Book!CreditRows
  <2>2. \A r \in Book!AllocationRows(d, app) : r.id = app.id /\ r.payment = app.payment
    BY DEF Book!AllocationRows
  <2>3. \A r \in Book!CreditRows(d, app) : r.id = app.id /\ r.payment = app.payment
    BY DEF Book!CreditRows
  <2> QED BY <1>2, <2>1, <2>2, <2>3
<1>5. Rows' = Rows \cup more
    BY <1>1 DEF Rows
<1> HIDE DEF more
<1>6. \A account : OnAccount(account)' = OnAccount(account)
    BY <1>1 DEF OnAccount
<1>7. ASSUME NEW w \in ledger PROVE InBook(w)' <=> InBook(w) \/ w = v
  <2>1. w.id = <<w.id[1], w.id[2]>> /\ (w.id = v.id => w = v)
    BY <1>1 DEF BookIInv, LedgerKept
  <2>2. CASE w.id[1] \in RowKinds
    <3>1. RowName(w.id) = RowName(v.id) => w = v
      BY <1>2, <2>1, <2>2 DEF RowName, RowKinds
    <3> QED BY <1>4, <1>5, <2>2, <3>1, InBookIs, InBookIsNext
  <2>3. CASE w.id[1] \notin RowKinds
    <3>1. w # v
      BY <1>2, <2>3
    <3>2. CASE w.id[1] \notin BookSeries
      BY <3>1, <3>2, InBookIs, InBookIsNext
    <3>3. ASSUME NEW b \in Controls, w.id[1] = Creating[b] PROVE InBook(w)' <=> InBook(w)
      BY <1>6, <3>3, InBookIs, InBookIsNext
    <3> QED BY <2>3, <3>1, <3>2, <3>3 DEF BookSeries
  <2> QED BY <2>2, <2>3
<1>8. HeardOf(v)
    BY <1>7 DEF HeardOf
<1>9. DocumentsKept'
  <2>1. \A x, b : FiledOn(b, x)' <=> FiledOn(b, x)
    BY <1>1 DEF FiledOn, Posted
  <2>2. Book!Settled(d, app) # NoDocument
    BY <1>3, NoDocumentAssumption
  <2>3. ASSUME NEW x \in Docs
        PROVE  IF documents'[x] = NoDocument THEN lines'[x] = <<>>
               ELSE documents'[x] \in FiledDocument /\ \E b \in Controls : FiledOn(b, x)'
    <3>1. IF documents[x] = NoDocument THEN lines[x] = <<>>
          ELSE documents[x] \in FiledDocument /\ \E b \in Controls : FiledOn(b, x)
      BY DEF BookIInv, DocumentsKept
    <3>2. CASE x = app.doc
      BY <1>1, <1>3, <2>1, <2>2, <3>1, <3>2 DEF d
    <3>3. CASE x # app.doc
      BY <1>1, <2>1, <3>1, <3>3
    <3> QED BY <3>2, <3>3
  <2> QED BY <2>3 DEF DocumentsKept
<1>10. RowsKept'
  <2>1. \A r \in more : \E w \in ledger' : w.id[1] \in RowKinds /\ w.id[2] = r.payment /\ r.id = RowName(w.id)
    BY <1>1, <1>2, <1>4
  <2>2. \A r \in Rows : \E w \in ledger' : w.id[1] \in RowKinds /\ w.id[2] = r.payment /\ r.id = RowName(w.id)
    BY <1>1 DEF BookIInv, RowsKept
  <2> QED BY <1>5, <2>1, <2>2 DEF RowsKept
<1>11. BookIInv'
    BY <1>0, <1>1, <1>8, <1>9, <1>10, HeardStep DEF v
<1> QED BY <1>6, <1>8, <1>11 DEF v

\* The book voids a document: it stays on its account.
LEMMA VoidKeeps ==
    ASSUME BookIInv, NEW x \in Docs, VoidDocument(x)
    PROVE  /\ BookIInv' /\ (\A v : InBook(v)' = InBook(v))
           /\ documents[x] \in FiledDocument /\ documents'[x] = [documents[x] EXCEPT !.status = "void"]
           /\ \A d \in Docs : d # x => documents'[d] = documents[d]
<1> DEFINE void == [documents[x] EXCEPT !.status = "void"]
<1>1. /\ documents[x] # NoDocument /\ documents' = [documents EXCEPT ![x].status = "void"]
      /\ UNCHANGED <<ledger, lines, allocations, credits, call>>
    BY DEF VoidDocument, Book!Void
<1>2. BookTypes /\ documents[x] \in FiledDocument
    BY <1>1 DEF BookIInv, DocumentsKept
<1>3. /\ documents'[x] = void
      /\ \A d \in Docs : d # x => documents'[d] = documents[d]
      /\ documents' = [d \in Docs |-> documents'[d]]
    BY <1>1, <1>2 DEF BookTypes
<1>4. void \in FiledDocument
  <2>1. 0 \in Int /\ "void" \in {"open", "partially_paid", "paid", "void"}
    OBVIOUS
  <2> QED BY <1>2, <2>1, FiledStays
<1> HIDE DEF void
<1>5. void # NoDocument
    BY <1>4, NoDocumentAssumption
<1>6. BookTypes'
  <2>1. lines' = [d \in Docs |-> lines'[d]]
    BY <1>1, <1>2 DEF BookTypes
  <2> QED BY <1>3, <2>1 DEF BookTypes
<1>7. \A v : InBook(v)' = InBook(v)
    BY <1>1 DEF InBook, OnAccount, Rows
<1>8. LedgerKept' /\ RowsKept' /\ FlowsKept'
    BY <1>1, <1>7 DEF BookIInv, LedgerKept, RowsKept, Rows, FlowsKept, FlowKept
<1>9. DocumentsKept'
  <2>1. \A d, b : FiledOn(b, d)' <=> FiledOn(b, d)
    BY <1>1 DEF FiledOn, Posted
  <2>2. ASSUME NEW d \in Docs
        PROVE  IF documents'[d] = NoDocument THEN lines'[d] = <<>>
               ELSE documents'[d] \in FiledDocument /\ \E b \in Controls : FiledOn(b, d)'
    <3>1. IF documents[d] = NoDocument THEN lines[d] = <<>>
          ELSE documents[d] \in FiledDocument /\ \E b \in Controls : FiledOn(b, d)
      BY DEF BookIInv, DocumentsKept
    <3>2. CASE d = x
      BY <1>1, <1>3, <1>4, <1>5, <2>1, <3>1, <3>2
    <3>3. CASE d # x
      BY <1>1, <1>3, <2>1, <3>1, <3>3
    <3> QED BY <3>2, <3>3
  <2> QED BY <2>2 DEF DocumentsKept
<1> QED BY <1>2, <1>3, <1>6, <1>7, <1>8, <1>9 DEF BookIInv, void

-----------------------------------------------------------------------------
(* What a document comes to.                                               *)

\* Tax on an amount that is not negative is not negative.
LEMMA TaxNat ==
    ASSUME NEW net \in Nat, NEW rate \in 0 .. Whole
    PROVE  TaxOn(net, rate) \in Nat
<1> DEFINE product == net * rate
<1>1. product \in Nat
    OBVIOUS
<1> HIDE DEF product
<1>2. Magnitude(product) = product
    BY <1>1 DEF Magnitude
<1>3. (2 * product + Whole) \div (2 * Whole) \in Nat
    BY <1>1 DEF Whole
<1> QED BY <1>2, <1>3 DEF TaxOn, product

\* The sums of lines that can be priced.
LEMMA SourceFacts ==
    ASSUME NEW source \in Seq(SourceLine), Priceable(source)
    PROVE  /\ DOMAIN source = 1 .. Len(source) /\ Len(source) \in Nat \ {0}
           /\ \A i \in DOMAIN source : /\ source[i] \in SourceLine /\ source[i].rate \in DOMAIN VATRates
                                       /\ Base(source[i]) \in Nat /\ VAT(source[i]) \in Nat
           /\ SumOf(Base, source) \in Nat /\ SumOf(VAT, source) \in Nat
           /\ SumOf(LineTotal, source) \in Nat /\ SumOf(LineTotal, source) > 0
<1>1. DOMAIN source = 1 .. Len(source) /\ Len(source) \in Nat \ {0}
    BY LenProperties, EmptySeq DEF Priceable
<1>2. IsFiniteSet(DOMAIN source)
    BY <1>1, FS_Interval
<1>3. ASSUME NEW i \in DOMAIN source
      PROVE  /\ source[i] \in SourceLine /\ source[i].rate \in DOMAIN VATRates
             /\ Base(source[i]) \in Nat /\ VAT(source[i]) \in Nat
  <2>1. source[i] \in SourceLine
    BY <1>1, ElementOfSeq
  <2>2. source[i].rate \in DOMAIN VATRates /\ ValidSource(source[i])
    BY DEF Priceable
  <2>3. source[i].price \in Nat /\ source[i].quantity \in Nat
    BY <2>1, <2>2 DEF SourceLine, ValidSource
  <2>4. Base(source[i]) \in Nat
    BY <2>3 DEF Base
  <2>5. VATRates[source[i].rate] \in 0 .. Whole
    BY <2>2, RatesAssumption
  <2> QED BY <2>1, <2>2, <2>4, <2>5, TaxNat DEF VAT
<1> DEFINE base == [i \in DOMAIN source |-> Base(source[i])]
           tax == [i \in DOMAIN source |-> VAT(source[i])]
           total == [i \in DOMAIN source |-> LineTotal(source[i])]
<1>4. SumOf(Base, source) = Over(base, DOMAIN source)
    BY DEF SumOf, Over
<1>5. SumOf(VAT, source) = Over(tax, DOMAIN source)
    BY DEF SumOf, Over
<1>6. SumOf(LineTotal, source) = Over(total, DOMAIN source)
    BY DEF SumOf, Over
<1>7. \A i \in DOMAIN source : base[i] \in Nat /\ tax[i] \in Nat /\ total[i] \in Nat
    BY <1>3 DEF LineTotal
<1> HIDE DEF base, tax, total
<1>8. Over(base, DOMAIN source) \in Nat /\ Over(tax, DOMAIN source) \in Nat /\ Over(total, DOMAIN source) \in Nat
    BY <1>2, <1>7, OverNat
<1>9. SumOf(LineTotal, source) > 0
    BY DEF Priceable
<1> QED BY <1>1, <1>3, <1>4, <1>5, <1>6, <1>8, <1>9

-----------------------------------------------------------------------------
(* What entries add to what is owed.                                       *)

DueAt(account, entries) ==
    [i \in DOMAIN entries |->
        IF entries[i].account # account THEN 0
        ELSE IF account = Receivable THEN entries[i].debit - entries[i].credit
        ELSE entries[i].credit - entries[i].debit]

\* What is owed to the client on its receivable, by the client on its payable.
Due(account, entries) == Over(DueAt(account, entries), DOMAIN entries)

LEMMA DueInt ==
    ASSUME NEW entries, Amounts(entries), NEW account
    PROVE  /\ \A i \in DOMAIN entries : DueAt(account, entries)[i] \in Int
           /\ Due(account, entries) \in Int
<1> DEFINE f == DueAt(account, entries)
           all == DOMAIN entries
<1>1. \A i \in all : f[i] \in Int
    BY DEF DueAt, Amounts
<1>2. IsFiniteSet(all) /\ Due(account, entries) = Over(f, all)
    BY DEF Due, Amounts
<1> HIDE DEF f, all
<1>3. Over(f, all) \in Int
    BY <1>1, <1>2, OverInt
<1> QED BY <1>1, <1>2, <1>3 DEF f, all

\* Part of the entries, the rest of which move nothing on the account.
LEMMA DuePart ==
    ASSUME NEW entries, Amounts(entries), NEW part, DOMAIN part \subseteq DOMAIN entries,
           \A i \in DOMAIN part : part[i].account = entries[i].account
                /\ part[i].debit = entries[i].debit /\ part[i].credit = entries[i].credit,
           NEW account, \A i \in DOMAIN entries \ DOMAIN part : DueAt(account, entries)[i] = 0
    PROVE  Amounts(part) /\ Due(account, part) = Due(account, entries)
<1> DEFINE f == DueAt(account, entries)
           g == DueAt(account, part)
           all == DOMAIN entries
           sel == DOMAIN part
<1>1. IsFiniteSet(all) /\ (\A i \in all : f[i] \in Int) /\ sel \in SUBSET all
    BY DueInt DEF Amounts
<1>2. Amounts(part)
    BY <1>1, FS_Subset DEF Amounts
<1>3. Alike(f, g, sel)
    BY DEF Alike, DueAt
<1>4. \A i \in all \ sel : f[i] = 0
    OBVIOUS
<1>5. Due(account, entries) = Over(f, all) /\ Due(account, part) = Over(g, sel)
    BY DEF Due
<1> HIDE DEF f, g, all, sel
<1>6. Over(f, all) = Over(f, sel)
    BY <1>1, <1>4, OverCounted
<1>7. Over(f, sel) = Over(g, sel)
    BY <1>3, OverSame
<1> QED BY <1>2, <1>5, <1>6, <1>7

\* Entries of which one alone moves the account, or none.
LEMMA DueSole ==
    ASSUME NEW entries, Amounts(entries), NEW account, NEW k \in DOMAIN entries,
           \A i \in DOMAIN entries : i # k => entries[i].account # account
    PROVE  Due(account, entries) = DueAt(account, entries)[k]
<1> DEFINE f == DueAt(account, entries)
           all == DOMAIN entries
<1>1. IsFiniteSet(all) /\ (\A i \in all : f[i] \in Int)
    BY DueInt DEF Amounts
<1>2. {k} \in SUBSET all /\ \A i \in all \ {k} : f[i] = 0
    BY DEF DueAt
<1>3. Due(account, entries) = Over(f, all)
    BY DEF Due
<1>4. k \in all
    OBVIOUS
<1> HIDE DEF f, all
<1>5. Over(f, all) = Over(f, {k})
    BY <1>1, <1>2, OverCounted
<1>6. Over(f, {k}) = f[k]
    BY <1>1, <1>4, OverOne
<1> QED BY <1>3, <1>5, <1>6 DEF f

LEMMA DueNone ==
    ASSUME NEW entries, Amounts(entries), NEW account, \A i \in DOMAIN entries : entries[i].account # account
    PROVE  Due(account, entries) = 0
<1> DEFINE f == DueAt(account, entries)
           all == DOMAIN entries
<1>1. IsFiniteSet(all) /\ \A i \in all : f[i] = 0
    BY DEF DueAt, Amounts
<1>2. Due(account, entries) = Over(f, all)
    BY DEF Due
<1> HIDE DEF f, all
<1> QED BY <1>1, <1>2, OverZero

\* Leaving out the lines that move nothing changes nothing.
LEMMA MovingDue ==
    ASSUME NEW entries, Amounts(entries)
    PROVE  /\ Amounts(Moving(entries))
           /\ \A account : Due(account, Moving(entries)) = Due(account, entries)
<1> DEFINE part == Moving(entries)
<1>1. DOMAIN part \subseteq DOMAIN entries /\ \A i \in DOMAIN part : part[i] = entries[i]
    BY DEF Moving
<1>2. \A i \in DOMAIN entries \ DOMAIN part : entries[i].debit = 0 /\ entries[i].credit = 0
    BY DEF Moving, Amounts
<1>3. \A account : \A i \in DOMAIN entries \ DOMAIN part : DueAt(account, entries)[i] = 0
    BY <1>2 DEF DueAt
<1> HIDE DEF part
<1>4. \A account : Amounts(part) /\ Due(account, part) = Due(account, entries)
    BY <1>1, <1>3, DuePart
<1> QED BY <1>4 DEF part

\* The debits of the lines of a document, and its credits.
Debits(ls)  == [i \in DOMAIN ls |-> ls[i].debit]
Credited(ls) == [i \in DOMAIN ls |-> ls[i].credit]

\* One side of which one line alone moves anything.
LEMMA SideSole ==
    ASSUME NEW f, NEW S, IsFiniteSet(S), \A i \in S : f[i] \in Int, NEW k \in S, \A i \in S : i # k => f[i] = 0
    PROVE  Over(f, S) = f[k]
<1>1. {k} \in SUBSET S /\ \A i \in S \ {k} : f[i] = 0
    OBVIOUS
<1>2. Over(f, S) = Over(f, {k})
    BY <1>1, OverCounted
<1> QED BY <1>2, OverOne

-----------------------------------------------------------------------------
(* The vouchers and the lines of each flow.                                *)

LEMMA SaleIs ==
    ASSUME NEW source \in Seq(SourceLine), Priceable(source)
    PROVE  LET entries == Moving(SaleEntries(source))
               ls == ReceivableLines(source)
           IN  /\ Amounts(entries) /\ LandsOn(Receivable, ls)
               /\ Due(Receivable, entries) = SumOf(LineTotal, source)
               /\ Due(Payables, entries) = 0
               /\ Due(Receivable, ls) = Over(Debits(ls), DOMAIN ls)
<1> DEFINE e == SaleEntries(source)
           ls == ReceivableLines(source)
           net == SumOf(Base, source)
           tax == SumOf(VAT, source)
           total == SumOf(LineTotal, source)
<1>1. net \in Nat /\ tax \in Nat /\ total \in Nat
    BY SourceFacts
<1>2. e = <<Debit("131", total), Credit("5111", net), Credit("33311", tax)>>
    BY Accounts DEF SaleEntries
<1>3. ls = [i \in 1 .. (IF tax = 0 THEN 2 ELSE 3) |-> BookLine(e[i], source[1].currency)]
    BY DEF ReceivableLines
<1> HIDE DEF net, tax, total, e, ls
<1>4. /\ DOMAIN e = 1 .. 3
      /\ e[1].account = "131" /\ e[1].debit = total /\ e[1].credit = 0
      /\ e[2].account = "5111" /\ e[2].debit = 0 /\ e[2].credit = net
      /\ e[3].account = "33311" /\ e[3].debit = 0 /\ e[3].credit = tax
    BY <1>2 DEF Debit, Credit
<1>5. IsFiniteSet(1 .. 3) /\ IsFiniteSet(1 .. 2)
  <2>1. \A n \in Nat : IsFiniteSet(1 .. n)
    BY FS_Interval
  <2> QED BY <2>1
<1>6. Amounts(e)
  <2>1. \A i \in DOMAIN e : i = 1 \/ i = 2 \/ i = 3
    BY <1>4
  <2> QED BY <1>1, <1>4, <1>5, <2>1 DEF Amounts
<1>7. /\ DOMAIN ls = 1 .. 2 \/ DOMAIN ls = 1 .. 3
      /\ \A i \in DOMAIN ls : i \in DOMAIN e /\ ls[i].account = e[i].account
                              /\ ls[i].debit = e[i].debit /\ ls[i].credit = e[i].credit
  <2> DEFINE last == IF tax = 0 THEN 2 ELSE 3
  <2>1. last = 2 \/ last = 3
    OBVIOUS
  <2>2. ls = [i \in 1 .. last |-> BookLine(e[i], source[1].currency)]
    BY <1>3
  <2> HIDE DEF last
  <2>3. DOMAIN ls = 1 .. last /\ \A i \in 1 .. last : /\ ls[i].account = e[i].account
                                                     /\ ls[i].debit = e[i].debit /\ ls[i].credit = e[i].credit
    BY <2>2 DEF BookLine
  <2> QED BY <1>4, <2>1, <2>3
<1>8. Amounts(ls)
    BY <1>5, <1>6, <1>7 DEF Amounts
<1>9. \A i \in DOMAIN e : i # 1 => e[i].account \notin {"131", "331"} /\ e[i].debit = 0
    BY <1>4
<1>10. LandsOn(Receivable, ls)
  <2>1. 1 \in DOMAIN ls /\ ls[1].account = "131"
    BY <1>4, <1>7
  <2> QED BY <1>7, <1>8, <1>9, <2>1, Accounts DEF LandsOn
<1>11. Due("131", e) = total /\ Due("331", e) = 0
  <2>1. Due("131", e) = DueAt("131", e)[1]
    BY <1>4, <1>6, <1>9, DueSole
  <2>2. DueAt("131", e)[1] = total
    BY <1>1, <1>4, Accounts DEF DueAt
  <2>3. \A i \in DOMAIN e : e[i].account # "331"
    BY <1>4
  <2> QED BY <1>6, <2>1, <2>2, <2>3, DueNone
<1>12. Due("131", ls) = total
  <2>1. 1 \in DOMAIN ls /\ \A i \in DOMAIN ls : i # 1 => ls[i].account # "131"
    BY <1>7, <1>9
  <2>2. Due("131", ls) = DueAt("131", ls)[1]
    BY <1>8, <2>1, DueSole
  <2> QED BY <1>1, <1>4, <1>7, <2>1, <2>2, Accounts DEF DueAt
<1>13. Over(Debits(ls), DOMAIN ls) = total
  <2> DEFINE f == Debits(ls)
             all == DOMAIN ls
  <2>1. IsFiniteSet(all) /\ 1 \in all /\ (\A i \in all : f[i] \in Int) /\ \A i \in all : i # 1 => f[i] = 0
    BY <1>5, <1>7, <1>8, <1>9 DEF Amounts, Debits
  <2>2. f[1] = total
    BY <1>4, <1>7, <2>1 DEF Debits
  <2> HIDE DEF f, all
  <2> QED BY <2>1, <2>2, SideSole DEF f, all
<1>14. Amounts(Moving(e)) /\ \A account : Due(account, Moving(e)) = Due(account, e)
    BY <1>6, MovingDue
<1> QED BY <1>10, <1>11, <1>12, <1>13, <1>14, Accounts DEF e, ls, total

LEMMA PaymentIs ==
    ASSUME NEW amount \in Nat
    PROVE  /\ Amounts(Moving(PaymentEntries(amount))) /\ Amounts(Moving(SupplierPaymentEntries(amount)))
           /\ Due(Receivable, Moving(PaymentEntries(amount))) = -amount
           /\ Due(Payables, Moving(PaymentEntries(amount))) = 0
           /\ Due(Receivable, Moving(SupplierPaymentEntries(amount))) = 0
           /\ Due(Payables, Moving(SupplierPaymentEntries(amount))) = -amount
<1> DEFINE e == PaymentEntries(amount)
           h == SupplierPaymentEntries(amount)
<1>1. e = <<Debit("112", amount), Credit("131", amount)>> /\ h = <<Debit("331", amount), Credit("112", amount)>>
    BY Accounts DEF PaymentEntries, SupplierPaymentEntries, PurchaseAccounts
<1> HIDE DEF e, h
<1>2. /\ DOMAIN e = 1 .. 2
      /\ e[1].account = "112" /\ e[1].debit = amount /\ e[1].credit = 0
      /\ e[2].account = "131" /\ e[2].debit = 0 /\ e[2].credit = amount
    BY <1>1 DEF Debit, Credit
<1>3. /\ DOMAIN h = 1 .. 2
      /\ h[1].account = "331" /\ h[1].debit = amount /\ h[1].credit = 0
      /\ h[2].account = "112" /\ h[2].debit = 0 /\ h[2].credit = amount
    BY <1>1 DEF Debit, Credit
<1>4. IsFiniteSet(1 .. 2) /\ \A i \in 1 .. 2 : i = 1 \/ i = 2
  <2>1. \A n \in Nat : IsFiniteSet(1 .. n)
    BY FS_Interval
  <2>2. \A i \in 1 .. 2 : i = 1 \/ i = 2
    OBVIOUS
  <2> QED BY <2>1, <2>2
<1>5. Amounts(e) /\ Amounts(h)
    BY <1>2, <1>3, <1>4 DEF Amounts
<1>6. Due("131", e) = -amount /\ Due("331", e) = 0
  <2>1. Due("131", e) = DueAt("131", e)[2]
    BY <1>2, <1>4, <1>5, DueSole
  <2>2. DueAt("131", e)[2] = -amount
    BY <1>2, Accounts DEF DueAt
  <2>3. \A i \in DOMAIN e : e[i].account # "331"
    BY <1>2, <1>4
  <2> QED BY <1>5, <2>1, <2>2, <2>3, DueNone
<1>7. Due("331", h) = -amount /\ Due("131", h) = 0
  <2>1. Due("331", h) = DueAt("331", h)[1]
    BY <1>3, <1>4, <1>5, DueSole
  <2>2. DueAt("331", h)[1] = -amount
    BY <1>3, Accounts DEF DueAt
  <2>3. \A i \in DOMAIN h : h[i].account # "131"
    BY <1>3, <1>4
  <2> QED BY <1>5, <2>1, <2>2, <2>3, DueNone
<1>8. Amounts(Moving(e)) /\ \A account : Due(account, Moving(e)) = Due(account, e)
    BY <1>5, MovingDue
<1>9. Amounts(Moving(h)) /\ \A account : Due(account, Moving(h)) = Due(account, h)
    BY <1>5, MovingDue
<1> QED BY <1>6, <1>7, <1>8, <1>9, Accounts DEF e, h

\* A credit note gives back what the document's lines brought.
LEMMA ReversalIs ==
    ASSUME NEW x, Amounts(lines[x])
    PROVE  /\ Amounts(Moving(Reversal(x)))
           /\ \A account : Due(account, Moving(Reversal(x))) = -Due(account, lines[x])
           /\ Reversed(x) = Over(Debits(lines[x]), DOMAIN lines[x]) /\ Reversed(x) \in Nat
<1> DEFINE e == Reversal(x)
           ls == lines[x]
<1>1. DOMAIN e = DOMAIN ls /\ \A i \in DOMAIN ls : /\ e[i].account = ls[i].account
                                                   /\ e[i].debit = ls[i].credit /\ e[i].credit = ls[i].debit
    BY DEF Reversal
<1>2. Reversed(x) = Over(Debits(ls), DOMAIN ls)
    BY DEF Reversed, SumOf, Over, Debits
<1> HIDE DEF e, ls
<1>3. Amounts(e)
    BY <1>1 DEF Amounts, ls
<1>4. ASSUME NEW account PROVE Due(account, e) = -Due(account, ls)
  <2> DEFINE f == DueAt(account, ls)
             h == DueAt(account, e)
             all == DOMAIN ls
  <2>1. IsFiniteSet(all) /\ \A i \in all : f[i] \in Int
    BY DueInt DEF Amounts, ls
  <2>2. \A i \in all : h[i] = -f[i]
    BY <1>1 DEF DueAt, Amounts, ls
  <2>3. Due(account, e) = Over(h, all) /\ Due(account, ls) = Over(f, all)
    BY <1>1 DEF Due
  <2> HIDE DEF f, h, all
  <2> QED BY <2>1, <2>2, <2>3, OverMinus
<1>5. Amounts(Moving(e)) /\ \A account : Due(account, Moving(e)) = Due(account, e)
    BY <1>3, MovingDue
<1>6. Over(Debits(ls), DOMAIN ls) \in Nat
  <2> DEFINE f == Debits(ls)
             all == DOMAIN ls
  <2>1. IsFiniteSet(all) /\ \A i \in all : f[i] \in Nat
    BY DEF Amounts, ls, Debits
  <2> HIDE DEF f, all
  <2> QED BY <2>1, OverNat DEF f, all
<1> QED BY <1>2, <1>4, <1>5, <1>6 DEF e, ls

\* The entries of a bill: a line each, the tax, and what is owed.
LEMMA PurchaseEntryIs ==
    ASSUME NEW source \in Seq(SourceLine), NEW order
    PROVE  LET e == PurchaseEntries(source, order)
               n == Len(source)
           IN  /\ DOMAIN e = 1 .. n + 2 /\ Len(e) = n + 2
               /\ \A i \in 1 .. n : e[i] = Debit(DebitAccount(source[i], order), Base(source[i]))
               /\ e[n + 1] = Debit("1331", SumOf(VAT, source))
               /\ e[n + 2] = Credit("331", SumOf(LineTotal, source))
<1> DEFINE n == Len(source)
           f == [i \in 1 .. n |-> Debit(DebitAccount(source[i], order), Base(source[i]))]
           a == Debit("1331", SumOf(VAT, source))
           b == Credit("331", SumOf(LineTotal, source))
           S == {f[i] : i \in 1 .. n} \cup {a, b}
           g == <<a, b>>
<1>1. n \in Nat /\ DOMAIN source = 1 .. n
    BY LenProperties
<1>2. PurchaseEntries(source, order) = f \o g
    BY <1>1 DEF PurchaseEntries, PurchaseAccounts
<1>3. \A i \in 1 .. n : f[i] = Debit(DebitAccount(source[i], order), Base(source[i]))
    OBVIOUS
<1>4. f \in [1 .. n -> S]
    OBVIOUS
<1>5. a \in S /\ b \in S /\ g[1] = a /\ g[2] = b
    OBVIOUS
<1>6. g \in Seq(S) /\ Len(g) = 2
    BY <1>5
<1> HIDE DEF f, a, b, S, n
<1>7. f \in Seq(S) /\ Len(f) = n
    BY <1>1, <1>4
<1> HIDE DEF g
<1>8. Len(f \o g) = n + 2 /\ \A i \in 1 .. n + 2 : (f \o g)[i] = IF i <= n THEN f[i] ELSE g[i - n]
  <2>1. /\ Len(f \o g) = Len(f) + Len(g)
        /\ \A i \in 1 .. Len(f) + Len(g) : (f \o g)[i] = IF i <= Len(f) THEN f[i] ELSE g[i - Len(f)]
    BY <1>6, <1>7, ConcatProperties
  <2> QED BY <1>6, <1>7, <2>1
<1>9. DOMAIN (f \o g) = 1 .. n + 2
    BY <1>1, <1>6, <1>7, <1>8, ConcatProperties, LenProperties
<1>10. \A i \in 1 .. n : (f \o g)[i] = f[i]
    BY <1>1, <1>8
<1>11. (f \o g)[n + 1] = g[1] /\ (f \o g)[n + 2] = g[2]
    BY <1>1, <1>8
<1> QED BY <1>2, <1>3, <1>5, <1>8, <1>9, <1>10, <1>11 DEF a, b, n

\* A purchased line lands on its own account, the order's or the default.
LEMMA DebitAccountIs ==
    ASSUME NEW line, NEW order
    PROVE  \/ DebitAccount(line, order) = line.account
           \/ DebitAccount(line, order) = OrderLine(order, line.item).account
           \/ DebitAccount(line, order) = PurchaseAccounts.inventory
<1>1. CASE line.account # ""
    BY <1>1 DEF DebitAccount
<1>2. CASE line.account = "" /\ OrderLine(order, line.item).account # ""
    BY <1>2 DEF DebitAccount
<1>3. CASE line.account = "" /\ OrderLine(order, line.item).account = ""
    BY <1>3 DEF DebitAccount
<1> QED BY <1>1, <1>2, <1>3

LEMMA BillIs ==
    ASSUME ControlsReserved, NEW c \in Commands, c.kind = "bill", c.lines \in Seq(SourceLine), Priceable(c.lines),
           NEW order \in ValidOrders, \A i \in DOMAIN c.lines : Ordered(order, c.lines[i].item)
    PROVE  LET entries == Moving(PurchaseEntries(c.lines, order))
               ls == PayableLines(c.lines, order)
           IN  /\ Amounts(entries) /\ LandsOn(Payables, ls)
               /\ Due(Payables, entries) = SumOf(LineTotal, c.lines)
               /\ Due(Receivable, entries) = 0
               /\ Due(Payables, ls) = Over(Credited(ls), DOMAIN ls)
<1> DEFINE source == c.lines
           e == PurchaseEntries(source, order)
           n == Len(source)
           ls == PayableLines(source, order)
           tax == SumOf(VAT, source)
           total == SumOf(LineTotal, source)
           sole == n + 2
<1>0. source \in Seq(SourceLine) /\ Priceable(source)
    OBVIOUS
<1>1. /\ DOMAIN source = 1 .. n /\ n \in Nat \ {0}
      /\ \A i \in DOMAIN source : Base(source[i]) \in Nat
      /\ tax \in Nat /\ total \in Nat
    BY <1>0, SourceFacts
<1>2. /\ DOMAIN e = 1 .. n + 2 /\ Len(e) = n + 2
      /\ \A i \in 1 .. n : e[i] = Debit(DebitAccount(source[i], order), Base(source[i]))
      /\ e[n + 1] = Debit("1331", tax) /\ e[sole] = Credit("331", total)
    BY <1>0, PurchaseEntryIs
<1>3. ASSUME NEW i \in 1 .. n PROVE DebitAccount(source[i], order) \notin {"131", "331"}
  <2>1. source[i].account \notin {"131", "331"}
    BY <1>1, Accounts DEF ControlsReserved
  <2>2. PICK j \in DOMAIN order.lines : OrderLine(order, source[i].item) = order.lines[j]
    BY <1>1, OrderLineIs
  <2>3. order.lines[j].account \notin {"131", "331"}
    BY Accounts DEF ControlsReserved, ValidOrders
  <2>4. PurchaseAccounts.inventory = "156"
    BY DEF PurchaseAccounts
  <2> QED BY <2>1, <2>2, <2>3, <2>4, DebitAccountIs
<1>4. ls = [i \in {j \in DOMAIN e : e[j].debit # 0 \/ j = Len(e)} |-> BookLine(e[i], source[1].currency)]
    BY DEF PayableLines
<1> HIDE DEF source, e, n, ls, tax, total
<1>5. /\ sole \in DOMAIN e /\ e[sole].account = "331" /\ e[sole].debit = 0 /\ e[sole].credit = total
      /\ \A i \in DOMAIN e : i # sole => /\ e[i].account \notin {"131", "331"}
                                         /\ e[i].debit \in Nat /\ e[i].credit = 0
  <2>1. \A i \in DOMAIN e : i \in 1 .. n \/ i = n + 1 \/ i = n + 2
    BY <1>1, <1>2
  <2>2. ASSUME NEW i \in 1 .. n
        PROVE  e[i].account = DebitAccount(source[i], order) /\ e[i].debit = Base(source[i]) /\ e[i].credit = 0
    <3>1. \A account, amount : /\ Debit(account, amount).account = account
                              /\ Debit(account, amount).debit = amount /\ Debit(account, amount).credit = 0
      BY DEF Debit
    <3> QED BY <1>2, <3>1
  <2>3. e[n + 1].account = "1331" /\ e[n + 1].debit = tax /\ e[n + 1].credit = 0
    BY <1>2 DEF Debit
  <2>4. e[sole].account = "331" /\ e[sole].debit = 0 /\ e[sole].credit = total
    BY <1>2 DEF Credit
  <2>5. sole \in DOMAIN e
    BY <1>1, <1>2
  <2> QED BY <1>1, <1>3, <2>1, <2>2, <2>3, <2>4, <2>5
<1> HIDE DEF sole
<1>6. IsFiniteSet(DOMAIN e)
    BY <1>1, <1>2, FS_Interval
<1>7. Amounts(e)
    BY <1>1, <1>5, <1>6 DEF Amounts
<1>8. /\ DOMAIN ls \subseteq DOMAIN e /\ sole \in DOMAIN ls
      /\ \A i \in DOMAIN ls : ls[i].account = e[i].account /\ ls[i].debit = e[i].debit /\ ls[i].credit = e[i].credit
    BY <1>2, <1>4, <1>5 DEF BookLine, sole
<1>9. Amounts(ls)
    BY <1>6, <1>7, <1>8, FS_Subset DEF Amounts
<1>10. LandsOn(Payables, ls)
    BY <1>5, <1>8, <1>9, Accounts DEF LandsOn
<1>11. Due("331", e) = total /\ Due("131", e) = 0
  <2>1. Due("331", e) = DueAt("331", e)[sole]
    BY <1>5, <1>7, DueSole
  <2>2. DueAt("331", e)[sole] = total
    BY <1>1, <1>5, Accounts DEF DueAt
  <2>3. \A i \in DOMAIN e : e[i].account # "131"
    BY <1>5
  <2> QED BY <1>7, <2>1, <2>2, <2>3, DueNone
<1>12. Due("331", ls) = total
  <2>1. \A i \in DOMAIN ls : i # sole => ls[i].account # "331"
    BY <1>5, <1>8
  <2>2. Due("331", ls) = DueAt("331", ls)[sole]
    BY <1>8, <1>9, <2>1, DueSole
  <2> QED BY <1>1, <1>5, <1>8, <2>2, Accounts DEF DueAt
<1>13. Over(Credited(ls), DOMAIN ls) = total
  <2> DEFINE f == Credited(ls)
             all == DOMAIN ls
  <2>1. IsFiniteSet(all) /\ sole \in all /\ (\A i \in all : f[i] \in Int) /\ \A i \in all : i # sole => f[i] = 0
    BY <1>5, <1>8, <1>9 DEF Amounts, Credited
  <2>2. f[sole] = total
    BY <1>5, <1>8 DEF Credited
  <2> HIDE DEF f, all
  <2> QED BY <2>1, <2>2, SideSole DEF f, all
<1>14. Amounts(Moving(e)) /\ \A account : Due(account, Moving(e)) = Due(account, e)
    BY <1>7, MovingDue
<1> QED BY <1>10, <1>11, <1>12, <1>13, <1>14, Accounts DEF source, e, ls, total

-----------------------------------------------------------------------------
(* What each flow means to do.                                             *)

\* What a voucher moves on the control accounts is what the book will say of it.
PricedDraft(voucher, draft) ==
    \A account \in Controls :
        /\ Due(account, voucher.entries)
             = IF voucher.id[1] = Creating[account] THEN draft.document.total ELSE 0
        /\ voucher.id[1] = Creating[account] =>
             Due(account, draft.lines) = IF account = Receivable THEN Over(Debits(draft.lines), DOMAIN draft.lines)
                                         ELSE Over(Credited(draft.lines), DOMAIN draft.lines)

PricedPayment(voucher, app) ==
    \E own \in Controls :
        /\ app.doc \in OnAccount(own)
        /\ \A account \in Controls :
              Due(account, voucher.entries) = IF account = own THEN -app.amount ELSE 0

Priced(voucher, then) ==
    /\ then.pc = "create" => PricedDraft(voucher, then.draft)
    /\ then.pc = "apply" => PricedPayment(voucher, then.app)

\* The documents of the book are worth something, and their lines say how much.
DocumentsPriced ==
    /\ \A d \in Docs : documents[d] # NoDocument => documents[d].total > 0
    /\ \A account \in Controls : \A d \in OnAccount(account) :
          Due(account, lines[d]) = Over(Debits(lines[d]), DOMAIN lines[d])

\* A draft is a document.
LEMMA DraftFiled ==
    ASSUME NEW source \in Seq(SourceLine), Priceable(source), NEW id \in Docs, NEW recorded
    PROVE  LET draft == Draft(id, source, recorded)
           IN  /\ draft.id = id /\ draft.lines = recorded /\ draft.document.total = SumOf(LineTotal, source)
               /\ draft.document \in FiledDocument
<1> DEFINE rate == SingleRate(source)
           total == SumOf(LineTotal, source)
           rates == DOMAIN VATRates \cup {""}
           people == {Partner[d] : d \in Docs}
           document == [partner |-> Partner[id], rate |-> rate, total |-> total,
                        currency |-> source[1].currency, allocated |-> 0, status |-> "open"]
<1>1. total \in Int /\ source[1].currency \in STRING /\ source[1].rate \in DOMAIN VATRates
  <2>1. /\ DOMAIN source = 1 .. Len(source) /\ Len(source) \in Nat \ {0}
        /\ \A i \in DOMAIN source : source[i] \in SourceLine /\ source[i].rate \in DOMAIN VATRates
        /\ total \in Nat
    BY SourceFacts
  <2>2. 1 \in DOMAIN source
    BY <2>1
  <2> HIDE DEF total
  <2> QED BY <2>1, <2>2 DEF SourceLine
<1>2. rate = source[1].rate \/ rate = ""
    BY Zenon DEF SingleRate
<1>3. rate \in rates
    BY <1>1, <1>2, Zenon
<1>4. Partner[id] \in people
    OBVIOUS
<1>5. FiledDocument = Filings(people, rates)
    BY Zenon DEF FiledDocument, Filings
<1>6. Draft(id, source, recorded) = [id |-> id, lines |-> recorded, document |-> document]
    BY DEF Draft
<1> HIDE DEF rate, total, rates, people
<1>7. document \in Filings(people, rates)
    BY <1>1, <1>3, <1>4 DEF Filings
<1>8. document.total = total
    OBVIOUS
<1> HIDE DEF document
<1> QED BY <1>5, <1>6, <1>7, <1>8 DEF total

LEMMA SaleFlow ==
    ASSUME NEW c \in Commands, c.kind = "invoice", Priceable(c.lines)
    PROVE  LET voucher == Voucher("invoice", c.id, SaleEntries(c.lines))
               then == [pc |-> "create", draft |-> Draft(c.id, c.lines, ReceivableLines(c.lines))]
           IN  Intends(voucher, then) /\ Priced(voucher, then)
<1> DEFINE voucher == Voucher("invoice", c.id, SaleEntries(c.lines))
           ls == ReceivableLines(c.lines)
           draft == Draft(c.id, c.lines, ls)
           then == [pc |-> "create", draft |-> draft]
           entries == Moving(SaleEntries(c.lines))
           total == SumOf(LineTotal, c.lines)
<1>1. c.id \in Docs /\ c.lines \in Seq(SourceLine)
    BY CommandForms DEF InvoiceCommand
<1>2. /\ Amounts(entries) /\ LandsOn(Receivable, ls)
      /\ Due(Receivable, entries) = total /\ Due(Payables, entries) = 0
      /\ Due(Receivable, ls) = Over(Debits(ls), DOMAIN ls)
    BY <1>1, SaleIs
<1>3. /\ draft.id = c.id /\ draft.lines = ls /\ draft.document.total = total
      /\ draft.document \in FiledDocument
    BY <1>1, DraftFiled
<1>4. voucher.id = <<"invoice", c.id>> /\ voucher.entries = entries
    BY DEF Voucher
<1>5. then.pc = "create" /\ then.draft = draft
    OBVIOUS
<1> HIDE DEF voucher, ls, draft, then, entries, total
<1>6. Receivable \in Controls /\ Creating[Receivable] = "invoice" /\ Receivable = "131"
      /\ Creating["331"] = "purchase" /\ Payables = "331" /\ Controls = {"131", "331"}
    BY Accounts
<1>7. AskedAs(Receivable, c.id)
    BY DEF AskedAs, AsksFor
<1>8. Announces(voucher, draft)
    BY <1>1, <1>2, <1>3, <1>4, <1>6, <1>7 DEF Announces
<1>9. PricedDraft(voucher, draft)
    BY <1>2, <1>3, <1>4, <1>6 DEF PricedDraft
<1> QED BY <1>5, <1>8, <1>9 DEF Intends, Priced, voucher, then, draft, ls

LEMMA BillFlow ==
    ASSUME ControlsReserved, NEW c \in Commands, c.kind = "bill", Priceable(c.lines),
           OrderTypes, KnownOrder(c.order), \A i \in DOMAIN c.lines : Ordered(orders[c.order], c.lines[i].item),
           NEW warnings
    PROVE  LET voucher == Voucher("purchase", c.id, PurchaseEntries(c.lines, orders[c.order]))
               then == [pc |-> "create",
                        draft |-> Draft(c.id, c.lines, PayableLines(c.lines, orders[c.order])),
                        order |-> c.order, warnings |-> warnings]
           IN  Intends(voucher, then) /\ Priced(voucher, then)
<1> DEFINE order == orders[c.order]
           voucher == Voucher("purchase", c.id, PurchaseEntries(c.lines, order))
           ls == PayableLines(c.lines, order)
           draft == Draft(c.id, c.lines, ls)
           then == [pc |-> "create", draft |-> draft, order |-> c.order, warnings |-> warnings]
           entries == Moving(PurchaseEntries(c.lines, order))
           total == SumOf(LineTotal, c.lines)
<1>1. c.id \in Docs /\ c.lines \in Seq(SourceLine) /\ c.order \in Orders
    BY CommandForms DEF SupplierInvoiceCommand
<1>a. order \in ValidOrders
    BY <1>1 DEF OrderTypes, KnownOrder
<1>2. /\ Amounts(entries) /\ LandsOn(Payables, ls)
      /\ Due(Payables, entries) = total /\ Due(Receivable, entries) = 0
      /\ Due(Payables, ls) = Over(Credited(ls), DOMAIN ls)
    BY <1>1, <1>a, BillIs
<1>3. /\ draft.id = c.id /\ draft.lines = ls /\ draft.document.total = total
      /\ draft.document \in FiledDocument
    BY <1>1, DraftFiled
<1>4. voucher.id = <<"purchase", c.id>> /\ voucher.entries = entries
    BY DEF Voucher
<1>5. then.pc = "create" /\ then.draft = draft
    OBVIOUS
<1> HIDE DEF voucher, ls, draft, then, entries, total
<1>6. Receivable = "131" /\ Creating["131"] = "invoice"
      /\ Creating["331"] = "purchase" /\ Payables = "331" /\ Controls = {"131", "331"}
    BY Accounts
<1>7. AskedAs(Payables, c.id)
    BY <1>6 DEF AskedAs, AsksFor
<1>8. Announces(voucher, draft)
    BY <1>1, <1>2, <1>3, <1>4, <1>6, <1>7 DEF Announces
<1>9. PricedDraft(voucher, draft)
    BY <1>2, <1>3, <1>4, <1>6 DEF PricedDraft
<1> QED BY <1>5, <1>8, <1>9 DEF Intends, Priced, voucher, then, draft, ls, order

\* A document paid for is of one of the cycles.
LEMMA DocumentOn ==
    ASSUME BookIInv, NEW d \in Docs, documents[d] # NoDocument
    PROVE  \E account \in Controls : d \in OnAccount(account) /\ FiledOn(account, d)
BY OnAccountIs DEF BookIInv, DocumentsKept

\* A payment that may be made names a document, and an amount.
LEMMA PaymentFacts ==
    ASSUME NEW c \in PaymentCommand, MayPay(c)
    PROVE  c.doc \in Docs /\ c.amount \in Nat /\ documents[c.doc] # NoDocument
<1>1. \A kinds : c \in [kind : kinds, id : STRING, doc : Docs, amount : Int, currency : STRING]
                    => c.doc \in Docs /\ c.amount \in Int
    OBVIOUS
<1>2. c.doc \in Docs /\ c.amount \in Int
    BY <1>1, Zenon DEF PaymentCommand
<1> QED BY <1>2 DEF MayPay, ValidPayment

LEMMA PayFlow ==
    ASSUME BookIInv, NEW c \in PaymentCommand, MayPay(c)
    PROVE  LET voucher == Voucher("payment", c.id, PaymentEntries(c.amount))
               then == [pc |-> "apply", app |-> Application(<<"apply", c.id>>, c.doc, c.id, c.amount)]
           IN  /\ Intends(voucher, then)
               /\ (\A e \in Commands : e.kind = "bill" => c.doc # e.id) => Priced(voucher, then)
<1> DEFINE voucher == Voucher("payment", c.id, PaymentEntries(c.amount))
           app == Application(<<"apply", c.id>>, c.doc, c.id, c.amount)
           then == [pc |-> "apply", app |-> app]
           entries == Moving(PaymentEntries(c.amount))
<1>1. c.doc \in Docs /\ c.amount \in Nat /\ documents[c.doc] # NoDocument
    BY PaymentFacts
<1>2. Amounts(entries) /\ Due(Receivable, entries) = -c.amount /\ Due(Payables, entries) = 0
    BY <1>1, PaymentIs
<1>3. voucher.id = <<"payment", c.id>> /\ voucher.entries = entries
    BY DEF Voucher
<1>4. then.pc = "apply" /\ then.app = app /\ app.id = <<"apply", c.id>> /\ app.doc = c.doc
      /\ app.payment = c.id /\ app.amount = c.amount
    BY DEF Application
<1> HIDE DEF voucher, app, then, entries
<1>5. Answers(voucher, app)
  <2>1. app.id = RowName(voucher.id) /\ voucher.id[1] \in RowKinds
    BY <1>3, <1>4 DEF RowKinds, RowName
  <2> QED BY <1>1, <1>2, <1>3, <1>4, <2>1 DEF Answers
<1>6. ASSUME \A e \in Commands : e.kind = "bill" => c.doc # e.id
      PROVE  PricedPayment(voucher, app)
  <2>1. PICK account \in Controls : c.doc \in OnAccount(account) /\ FiledOn(account, c.doc)
    BY <1>1, DocumentOn
  <2>2. account = Receivable
    BY <1>6, <2>1, Accounts DEF FiledOn, AskedAs, AsksFor
  <2> QED BY <1>2, <1>3, <1>4, <2>1, <2>2, Accounts DEF PricedPayment
<1> QED BY <1>4, <1>5, <1>6 DEF Intends, Priced, voucher, then, app

LEMMA SupplierFlow ==
    ASSUME BookIInv, NEW c \in PaymentCommand, MayPay(c)
    PROVE  LET voucher == Voucher("supplier-payment", c.id, SupplierPaymentEntries(c.amount))
               then == [pc |-> "apply", app |-> Application(<<"supplier-apply", c.id>>, c.doc, c.id, c.amount)]
           IN  /\ Intends(voucher, then)
               /\ (\A e \in Commands : e.kind = "invoice" => c.doc # e.id) => Priced(voucher, then)
<1> DEFINE voucher == Voucher("supplier-payment", c.id, SupplierPaymentEntries(c.amount))
           app == Application(<<"supplier-apply", c.id>>, c.doc, c.id, c.amount)
           then == [pc |-> "apply", app |-> app]
           entries == Moving(SupplierPaymentEntries(c.amount))
<1>1. c.doc \in Docs /\ c.amount \in Nat /\ documents[c.doc] # NoDocument
    BY PaymentFacts
<1>2. Amounts(entries) /\ Due(Payables, entries) = -c.amount /\ Due(Receivable, entries) = 0
    BY <1>1, PaymentIs
<1>3. voucher.id = <<"supplier-payment", c.id>> /\ voucher.entries = entries
    BY DEF Voucher
<1>4. then.pc = "apply" /\ then.app = app /\ app.id = <<"supplier-apply", c.id>> /\ app.doc = c.doc
      /\ app.payment = c.id /\ app.amount = c.amount
    BY DEF Application
<1> HIDE DEF voucher, app, then, entries
<1>5. Answers(voucher, app)
  <2>1. app.id = RowName(voucher.id) /\ voucher.id[1] \in RowKinds
    BY <1>3, <1>4 DEF RowKinds, RowName
  <2> QED BY <1>1, <1>2, <1>3, <1>4, <2>1 DEF Answers
<1>6. ASSUME \A e \in Commands : e.kind = "invoice" => c.doc # e.id
      PROVE  PricedPayment(voucher, app)
  <2>1. PICK account \in Controls : c.doc \in OnAccount(account) /\ FiledOn(account, c.doc)
    BY <1>1, DocumentOn
  <2>2. account = Payables
    BY <1>6, <2>1, Accounts DEF FiledOn, AskedAs, AsksFor
  <2> QED BY <1>2, <1>3, <1>4, <2>1, <2>2, Accounts DEF PricedPayment
<1> QED BY <1>4, <1>5, <1>6 DEF Intends, Priced, voucher, then, app

LEMMA CreditFlow ==
    ASSUME BookIInv, NEW c \in Commands, c.kind = "credit", lines[c.doc] # <<>>
    PROVE  LET voucher == Voucher("credit", c.id, Reversal(c.doc))
               then == [pc |-> "apply",
                        app |-> Application(<<"credit-apply", c.id>>, c.doc, c.id, Reversed(c.doc))]
           IN  Intends(voucher, then) /\ (DocumentsPriced => Priced(voucher, then))
<1> DEFINE x == c.doc
           voucher == Voucher("credit", c.id, Reversal(x))
           app == Application(<<"credit-apply", c.id>>, x, c.id, Reversed(x))
           then == [pc |-> "apply", app |-> app]
           entries == Moving(Reversal(x))
<1>1. x \in Docs
    BY CommandForms DEF CreditCommand
<1>2. documents[x] # NoDocument
    BY <1>1 DEF BookIInv, DocumentsKept
<1>3. PICK own \in Controls : x \in OnAccount(own) /\ FiledOn(own, x)
    BY <1>1, <1>2, DocumentOn
<1>4. Amounts(lines[x])
    BY <1>3 DEF FiledOn, LandsOn
<1>5. /\ Amounts(entries) /\ \A account : Due(account, entries) = -Due(account, lines[x])
      /\ Reversed(x) = Over(Debits(lines[x]), DOMAIN lines[x]) /\ Reversed(x) \in Nat
    BY <1>4, ReversalIs
<1>6. voucher.id = <<"credit", c.id>> /\ voucher.entries = entries
    BY DEF Voucher
<1>7. then.pc = "apply" /\ then.app = app /\ app.id = <<"credit-apply", c.id>> /\ app.doc = x
      /\ app.payment = c.id /\ app.amount = Reversed(x)
    BY DEF Application
<1> HIDE DEF voucher, app, then, entries
<1>8. Answers(voucher, app)
    BY <1>1, <1>5, <1>6, <1>7 DEF Answers, RowKinds, RowName
<1>9. ASSUME DocumentsPriced PROVE PricedPayment(voucher, app)
  <2>1. Due(own, lines[x]) = Reversed(x)
    BY <1>3, <1>5, <1>9 DEF DocumentsPriced
  <2>2. ASSUME NEW account \in Controls, account # own PROVE Due(account, lines[x]) = 0
    <3>1. \A i \in DOMAIN lines[x] : lines[x][i].account # account
      BY <1>3, <2>2 DEF FiledOn, LandsOn
    <3> QED BY <1>4, <3>1, DueNone
  <2>3. \A account \in Controls : Due(account, entries) = IF account = own THEN -Reversed(x) ELSE 0
    BY <1>5, <2>1, <2>2
  <2> QED BY <1>3, <1>6, <1>7, <2>3 DEF PricedPayment
<1> QED BY <1>7, <1>8, <1>9 DEF Intends, Priced, voucher, then, app, x

-----------------------------------------------------------------------------
(* The steps of the cycles, as the ledger and the book see them.           *)

FlowPriced(now) == now.pc \in {"post", "create", "apply"} => Priced(now.voucher, now.then)

\* Steps that neither post nor tell the book: a flow begins or is over, or goods
\* move.
Quiet ==
    /\ UNCHANGED <<ledger, book>>
    /\ \/ UNCHANGED call
       \/ \E s \in Sessions : \E now :
            /\ call' = [call EXCEPT ![s] = now] /\ ~Telling(now) /\ FlowKept(now)
            /\ PaymentsInPlace /\ DocumentsPriced => FlowPriced(now)

\* A flow that begins.
LEMMA BeginIsQuiet ==
    ASSUME NEW s \in Sessions, NEW voucher, NEW then, Begin(s, voucher, then), UNCHANGED <<ledger, book>>,
           Intends(voucher, then), PaymentsInPlace /\ DocumentsPriced => Priced(voucher, then)
    PROVE  Quiet
<1> DEFINE now == [pc |-> "post", voucher |-> voucher, then |-> then]
<1>1. now.pc = "post" /\ now.voucher = voucher /\ now.then = then
    OBVIOUS
<1>2. call' = [call EXCEPT ![s] = now]
    BY DEF Begin
<1> HIDE DEF now
<1>3. ~Telling(now) /\ FlowKept(now)
    BY <1>1 DEF Telling, FlowKept
<1>4. PaymentsInPlace /\ DocumentsPriced => FlowPriced(now)
    BY <1>1 DEF FlowPriced
<1> QED BY <1>2, <1>3, <1>4 DEF Quiet

\* A flow that posts what goods cost.
LEMMA GoodsQuiet ==
    ASSUME NEW s \in Sessions, NEW series \in {"cogs", "cogs-return"}, NEW id, NEW entries,
           Begin(s, Voucher(series, id, entries), [pc |-> "done"]), UNCHANGED <<ledger, book>>
    PROVE  Quiet
<1> DEFINE voucher == Voucher(series, id, entries)
           then == [pc |-> "done"]
<1>1. voucher.id = <<series, id>> /\ then.pc = "done"
    BY DEF Voucher
<1>2. Begin(s, voucher, then)
    OBVIOUS
<1> HIDE DEF voucher, then
<1>3. Intends(voucher, then)
    BY <1>1, Accounts DEF Intends
<1>4. Priced(voucher, then)
    BY <1>1 DEF Priced
<1> QED BY <1>2, <1>3, <1>4, BeginIsQuiet

\* A session that goes on to something that is not about the ledger.
LEMMA AsideIsQuiet ==
    ASSUME NEW s \in Sessions, NEW now, call' = [call EXCEPT ![s] = now], UNCHANGED <<ledger, book>>,
           now.pc \notin {"post", "create", "apply"}
    PROVE  Quiet
BY DEF Quiet, Telling, FlowKept, FlowPriced

LEMMA FlowIsQuiet ==
    ASSUME ControlsReserved, WarehouseIInv, BookIInv, NEW s \in Sessions, NEW c \in Commands, Flow(s, c)
    PROVE  Quiet
<1>1. CASE InvoiceSale(s, c)
  <2> DEFINE voucher == Voucher("invoice", c.id, SaleEntries(c.lines))
             then == [pc |-> "create", draft |-> Draft(c.id, c.lines, ReceivableLines(c.lines))]
  <2>1. c.kind = "invoice" /\ Priceable(c.lines) /\ Begin(s, voucher, then) /\ UNCHANGED <<ledger, book>>
    BY <1>1 DEF InvoiceSale
  <2>2. Intends(voucher, then) /\ Priced(voucher, then)
    BY <2>1, SaleFlow
  <2> HIDE DEF voucher, then
  <2> QED BY <2>1, <2>2, BeginIsQuiet
<1>2. CASE Pay(s, c)
  <2> DEFINE voucher == Voucher("payment", c.id, PaymentEntries(c.amount))
             then == [pc |-> "apply", app |-> Application(<<"apply", c.id>>, c.doc, c.id, c.amount)]
  <2>1. c.kind = "payment" /\ MayPay(c) /\ Begin(s, voucher, then) /\ UNCHANGED <<ledger, book>>
    BY <1>2 DEF Pay
  <2>2. c \in PaymentCommand
    BY <2>1, CommandForms
  <2>3. PaymentsInPlace => \A e \in Commands : e.kind = "bill" => c.doc # e.id
    BY <2>1, Zenon DEF PaymentsInPlace
  <2>4. Intends(voucher, then) /\ (PaymentsInPlace => Priced(voucher, then))
    BY <2>1, <2>2, <2>3, PayFlow
  <2> HIDE DEF voucher, then
  <2> QED BY <2>1, <2>4, BeginIsQuiet
<1>3. CASE CreditSale(s, c)
  <2> DEFINE voucher == Voucher("credit", c.id, Reversal(c.doc))
             then == [pc |-> "apply",
                      app |-> Application(<<"credit-apply", c.id>>, c.doc, c.id, Reversed(c.doc))]
  <2>1. c.kind = "credit" /\ lines[c.doc] # <<>> /\ Begin(s, voucher, then) /\ UNCHANGED <<ledger, book>>
    BY <1>3 DEF CreditSale
  <2>2. Intends(voucher, then) /\ (DocumentsPriced => Priced(voucher, then))
    BY <2>1, CreditFlow
  <2> HIDE DEF voucher, then
  <2> QED BY <2>1, <2>2, BeginIsQuiet
<1>4. CASE InvoicePurchase(s, c)
  <2> DEFINE warnings == ThreeWayMatch(orders[c.order], ReceiptsOf(c.order), c.lines)
             voucher == Voucher("purchase", c.id, PurchaseEntries(c.lines, orders[c.order]))
             then == [pc |-> "create",
                      draft |-> Draft(c.id, c.lines, PayableLines(c.lines, orders[c.order])),
                      order |-> c.order, warnings |-> warnings]
  <2>1. /\ c.kind = "bill" /\ Priceable(c.lines) /\ KnownOrder(c.order)
        /\ \A i \in DOMAIN c.lines : Ordered(orders[c.order], c.lines[i].item)
        /\ Begin(s, voucher, then) /\ UNCHANGED <<ledger, book>>
    BY <1>4 DEF InvoicePurchase
  <2>2. OrderTypes
    BY DEF WarehouseIInv, PaperTypes
  <2> HIDE DEF warnings
  <2>3. Intends(voucher, then) /\ Priced(voucher, then)
    BY <2>1, <2>2, BillFlow
  <2> HIDE DEF voucher, then
  <2> QED BY <2>1, <2>3, BeginIsQuiet
<1>5. CASE PaySupplier(s, c)
  <2> DEFINE voucher == Voucher("supplier-payment", c.id, SupplierPaymentEntries(c.amount))
             then == [pc |-> "apply", app |-> Application(<<"supplier-apply", c.id>>, c.doc, c.id, c.amount)]
  <2>1. MayPay(c) /\ Begin(s, voucher, then) /\ UNCHANGED <<ledger, book>>
    BY <1>5, Zenon DEF PaySupplier
  <2>2. c \in PaymentCommand
    BY <1>5, CommandForms, Zenon DEF PaySupplier
  <2>3. PaymentsInPlace => \A e \in Commands : e.kind = "invoice" => c.doc # e.id
    BY <1>5, Zenon DEF PaySupplier, PaymentsInPlace
  <2>4. Intends(voucher, then) /\ (PaymentsInPlace => Priced(voucher, then))
    BY <2>1, <2>2, <2>3, SupplierFlow
  <2> HIDE DEF voucher, then
  <2> QED BY <2>1, <2>4, BeginIsQuiet
<1>6. CASE IssueGoods(s, c)
  <2>1. Begin(s, Voucher("cogs", c.move, CostEntries(CostEntry(stock, Move(c, "out")).amount)), [pc |-> "done"])
        /\ UNCHANGED <<ledger, book>>
    BY <1>6 DEF IssueGoods
  <2>2. \E entries : Begin(s, Voucher("cogs", c.move, entries), [pc |-> "done"])
    BY <2>1
  <2> QED BY <2>1, <2>2, GoodsQuiet
<1>7. CASE ReturnGoods(s, c)
  <2>1. (\E entries : Begin(s, Voucher("cogs-return", c.move, entries), [pc |-> "done"]))
        /\ UNCHANGED <<ledger, book>>
    BY <1>7 DEF ReturnGoods
  <2> QED BY <2>1, GoodsQuiet
<1>8. CASE OrderGoods(s, c)
    BY <1>8 DEF OrderGoods, Quiet
<1>9. CASE ReceiveGoods(s, c)
  <2> DEFINE now == [pc |-> "record", receipt |-> c, at |-> 1,
                     prices |-> [i \in DOMAIN c.lines |-> OrderPrice(orders[c.order], c.lines[i].item)]]
  <2>1. call' = [call EXCEPT ![s] = now] /\ UNCHANGED <<ledger, book>>
    BY <1>9 DEF ReceiveGoods
  <2>2. now.pc \notin {"post", "create", "apply"}
    OBVIOUS
  <2> HIDE DEF now
  <2> QED BY <2>1, <2>2, AsideIsQuiet
<1> QED BY <1>1, <1>2, <1>3, <1>4, <1>5, <1>6, <1>7, <1>8, <1>9 DEF Flow

\* Every step is quiet, posts, tells the book of a flow's voucher, or voids.
LEMMA NextIs ==
    ASSUME ControlsReserved, WarehouseIInv, BookIInv, [Next]_vars
    PROVE  \/ Quiet
           \/ \E s \in Sessions : Post(s) \/ PostAnswerLost(s) \/ CreateDocument(s) \/ ApplyPayment(s)
           \/ \E x \in Docs : VoidDocument(x)
<1>1. ASSUME NEW s \in Sessions, GiveUp(s) PROVE Quiet
  <2>1. Idle.pc \notin {"post", "create", "apply"}
    BY DEF Idle
  <2> QED BY <1>1, <2>1, AsideIsQuiet DEF GiveUp
<1>2. ASSUME NEW s \in Sessions, SaveReceipt(s) PROVE Quiet
  <2>1. Idle.pc \notin {"post", "create", "apply"}
    BY DEF Idle
  <2> QED BY <1>2, <2>1, AsideIsQuiet DEF SaveReceipt
<1>3. ASSUME NEW s \in Sessions, RecordLine(s) PROVE Quiet
  <2> DEFINE was == call[s]
             now == IF was.at < Len(was.receipt.lines) THEN [was EXCEPT !.at = @ + 1] ELSE [was EXCEPT !.pc = "save"]
  <2>1. was.pc = "record" /\ call' = [call EXCEPT ![s] = now] /\ UNCHANGED <<ledger, book>>
    BY <1>3 DEF RecordLine
  <2>2. was = [pc |-> was.pc, receipt |-> was.receipt, at |-> was.at, prices |-> was.prices]
    BY <2>1 DEF WarehouseIInv, PaperTypes, AtDesk, Recording
  <2> HIDE DEF was
  <2>3. now.pc = "record" \/ now.pc = "save"
    BY <2>1, <2>2
  <2> HIDE DEF now
  <2> QED BY <2>1, <2>3, AsideIsQuiet
<1>4. ASSUME NEW c \in Commands, WriteOff(c) PROVE Quiet
    BY <1>4, Zenon DEF WriteOff, Quiet
<1>5. CASE UNCHANGED vars
    BY <1>5 DEF vars, Quiet
<1> QED BY <1>1, <1>2, <1>3, <1>4, <1>5, FlowIsQuiet DEF Next, Asking, Advance

-----------------------------------------------------------------------------
(* The ledger holds what the book says, whatever it is worth.              *)

LEMMA BookInit == Init => BookIInv
<1> SUFFICES ASSUME Init PROVE BookIInv
    OBVIOUS
<1>1. /\ ledger = {} /\ documents = [d \in Docs |-> NoDocument] /\ lines = [d \in Docs |-> <<>>]
      /\ allocations = {} /\ credits = {} /\ call = [s \in Sessions |-> Idle]
    BY DEF Init, Book!Init
<1>2. LedgerKept
    BY <1>1, FS_EmptySet DEF LedgerKept
<1>3. BookTypes
    BY <1>1 DEF BookTypes
<1>4. DocumentsKept
    BY <1>1 DEF DocumentsKept
<1>5. RowsKept
    BY <1>1 DEF RowsKept, Rows
<1>6. FlowsKept
    BY <1>1 DEF FlowsKept, FlowKept, Telling, Idle
<1> QED BY <1>2, <1>3, <1>4, <1>5, <1>6 DEF BookIInv

\* What a session goes on to once its voucher is posted.
LEMMA PostIs ==
    ASSUME WarehouseIInv, NEW s \in Sessions, Post(s)
    PROVE  \E now : /\ call' = [call EXCEPT ![s] = now]
                    /\ now = Idle \/ (now.pc = call[s].then.pc /\ Telling(now)
                                        /\ now.voucher = call[s].voucher /\ now.then = call[s].then)
<1> DEFINE was == call[s]
           next == [was EXCEPT !.pc = was.then.pc]
<1>1. was.pc = "post" /\ call' = [call EXCEPT ![s] = IF was.then.pc = "done" THEN Idle ELSE next]
    BY DEF Post
<1>2. Posting(was)
    BY <1>1 DEF WarehouseIInv, PaperTypes, AtDesk
<1>3. CASE was.then.pc = "done"
    BY <1>1, <1>3
<1>4. CASE was.then.pc # "done"
  <2>1. call' = [call EXCEPT ![s] = next]
    BY <1>1, <1>4
  <2> HIDE DEF was
  <2>2. next = [pc |-> was.then.pc, voucher |-> was.voucher, then |-> was.then]
    BY <1>2 DEF Posting
  <2> HIDE DEF next
  <2>3. next.pc = was.then.pc /\ Telling(next) /\ next.voucher = was.voucher /\ next.then = was.then
    BY <1>2, <1>4, <2>2 DEF Posting, Telling
  <2> QED BY <2>1, <2>3 DEF was
<1> QED BY <1>3, <1>4

LEMMA BookStep ==
    ASSUME ControlsReserved, WarehouseIInv, BookIInv, [Next]_vars
    PROVE  BookIInv'
<1>0. DeskTypes /\ \A s \in Sessions : call[s].pc = "post" => call[s].then.pc \in {"create", "apply", "done"}
    BY DEF WarehouseIInv, PaperTypes, AtDesk, Posting
<1>1. CASE Quiet
  <2>1. CASE UNCHANGED call
    <3>1. UNCHANGED <<ledger, documents, lines, allocations, credits, call>>
      BY <1>1, <2>1 DEF Quiet, book
    <3> QED BY <3>1 DEF BookIInv, LedgerKept, BookTypes, DocumentsKept, FiledOn, Posted, RowsKept, Rows,
                        FlowsKept, FlowKept, InBook, OnAccount
  <2>2. CASE \E s \in Sessions : \E now :
                call' = [call EXCEPT ![s] = now] /\ ~Telling(now) /\ FlowKept(now)
    BY <1>0, <1>1, <2>2, FlowStep DEF Quiet
  <2> QED BY <1>1, <2>1, <2>2 DEF Quiet
<1>2. ASSUME NEW s \in Sessions, Post(s) PROVE BookIInv'
  <2>1. call[s].pc = "post" /\ ~Posted(call[s].voucher.id) /\ ledger' = ledger \cup {call[s].voucher} /\ UNCHANGED book
    BY <1>2 DEF Post
  <2>2. PICK now : /\ call' = [call EXCEPT ![s] = now]
                   /\ now = Idle \/ (now.pc = call[s].then.pc /\ Telling(now)
                                       /\ now.voucher = call[s].voucher /\ now.then = call[s].then)
    BY <1>2, PostIs
  <2> QED BY <1>0, <2>1, <2>2, PostStep
<1>3. ASSUME NEW s \in Sessions, PostAnswerLost(s) PROVE BookIInv'
  <2>1. call[s].pc = "post" /\ ~Posted(call[s].voucher.id) /\ ledger' = ledger \cup {call[s].voucher} /\ UNCHANGED book
        /\ call' = [call EXCEPT ![s] = Idle]
    BY <1>3 DEF PostAnswerLost
  <2> QED BY <1>0, <2>1, PostStep
<1>4. ASSUME NEW s \in Sessions, CreateDocument(s) PROVE BookIInv'
    BY <1>0, <1>4, CreateKeeps
<1>5. ASSUME NEW s \in Sessions, ApplyPayment(s) PROVE BookIInv'
    BY <1>0, <1>5, ApplyKeeps
<1>6. ASSUME NEW x \in Docs, VoidDocument(x) PROVE BookIInv'
    BY <1>6, VoidKeeps
<1> QED BY <1>1, <1>2, <1>3, <1>4, <1>5, <1>6, NextIs

LEMMA BookInvariant ==
    ASSUME ControlsReserved
    PROVE  Spec => [](WarehouseIInv /\ BookIInv)
<1>1. Init => WarehouseIInv /\ BookIInv
    BY WarehouseInit, BookInit
<1>2. (WarehouseIInv /\ BookIInv) /\ [Next]_vars => (WarehouseIInv /\ BookIInv)'
    BY WarehouseStep, BookStep
<1> QED BY <1>1, <1>2, PTL DEF Spec

-----------------------------------------------------------------------------
(* The ledger's balance is what the book says is owed.                     *)

\* The vouchers the book knows of, what each moves on an account, what each
\* document is still worth and what each row of credit gives away.
Heard             == {v \in ledger : InBook(v)}
DueOf(account)    == [v \in ledger |-> Due(account, v.entries)]
Worth             == [d \in Docs |-> IF documents[d].status = "void" THEN documents[d].total
                                     ELSE Book!Outstanding(documents[d])]
InCredit(account) == {r \in credits : r.doc \in OnAccount(account)}
CreditAmounts     == [r \in credits |-> r.amount]

Balanced ==
    \A account \in Controls :
        Over(DueOf(account), Heard) = Over(Worth, OnAccount(account)) - Over(CreditAmounts, InCredit(account))

\* A credit is a partner's, on a document of the book.
CreditsPriced ==
    /\ IsFiniteSet(credits)
    /\ \A r \in credits : r.doc \in Docs /\ documents[r.doc] # NoDocument /\ r.amount \in Int

FlowsPriced == \A s \in Sessions : FlowPriced(call[s])

SubledgerIInv == DocumentsPriced /\ CreditsPriced /\ FlowsPriced /\ Balanced

\* What is summed is finite, and integers.
Summable ==
    /\ IsFiniteSet(Heard)
    /\ \A account \in Controls :
        /\ IsFiniteSet(OnAccount(account))
        /\ \A v \in Heard : DueOf(account)[v] \in Int
        /\ \A d \in OnAccount(account) : Worth[d] \in Int

LEMMA FiledAmounts ==
    ASSUME NEW d \in FiledDocument
    PROVE  d.total \in Int /\ d.allocated \in Int
<1>1. \A people, rates : \A x \in Filings(people, rates) : x.total \in Int /\ x.allocated \in Int
    BY DEF Filings
<1> QED BY <1>1, Zenon DEF FiledDocument, Filings

LEMMA BookSums == BookIInv => Summable
<1> SUFFICES ASSUME BookIInv PROVE Summable
    OBVIOUS
<1>1. IsFiniteSet(ledger)
    BY DEF BookIInv, LedgerKept
<1>2. IsFiniteSet(Heard)
    BY <1>1, FS_Subset DEF Heard
<1>3. ASSUME NEW account \in Controls
      PROVE  /\ IsFiniteSet(OnAccount(account))
             /\ \A v \in Heard : DueOf(account)[v] \in Int
             /\ \A d \in OnAccount(account) : Worth[d] \in Int
  <2>1. IsFiniteSet(OnAccount(account))
    <3> DEFINE e == [v \in ledger |-> v.id[2]]
               I == {e[v] : v \in ledger}
    <3>1. \A d \in OnAccount(account) : Posted(<<Creating[account], d>>)
      BY OnAccountIs DEF BookIInv, FiledOn
    <3>2. \A d \in OnAccount(account) : d \in I
      BY <3>1 DEF Posted
    <3> HIDE DEF e
    <3>3. IsFiniteSet(I)
      BY <1>1, ImageFinite
    <3> HIDE DEF I
    <3> QED BY <3>2, <3>3, FS_Subset
  <2>2. ASSUME NEW v \in Heard PROVE DueOf(account)[v] \in Int
    <3>1. v \in ledger /\ InBook(v)
      BY DEF Heard
    <3>2. Amounts(v.entries)
      BY <3>1, InBookIs DEF BookIInv, LedgerKept
    <3>3. Due(account, v.entries) \in Int
      BY <3>2, DueInt
    <3> QED BY <3>1, <3>3 DEF DueOf
  <2>3. ASSUME NEW d \in OnAccount(account) PROVE Worth[d] \in Int
    <3>1. d \in Docs /\ documents[d] \in FiledDocument
      BY OnAccountIs DEF BookIInv, DocumentsKept
    <3>2. documents[d].total \in Int /\ documents[d].allocated \in Int
      BY <3>1, FiledAmounts
    <3> QED BY <3>1, <3>2 DEF Worth, Book!Outstanding
  <2> QED BY <2>1, <2>2, <2>3
<1> QED BY <1>2, <1>3 DEF Summable

\* One amount changes.
LEMMA OverChanged ==
    ASSUME NEW f, NEW e, NEW S, IsFiniteSet(S), NEW y \in S,
           \A x \in S : f[x] \in Int /\ e[x] \in Int /\ (x # y => e[x] = f[x])
    PROVE  Over(e, S) = Over(f, S) + (e[y] - f[y])
<1> DEFINE rest == S \ {y}
<1>1. Over(f, S) = f[y] + Over(f, rest) /\ Over(e, S) = e[y] + Over(e, rest)
    BY OverRemove
<1>2. Alike(f, e, rest)
    BY DEF Alike
<1>3. IsFiniteSet(rest) /\ \A x \in rest : f[x] \in Int
    BY FS_Subset
<1> HIDE DEF rest
<1>4. Over(f, rest) = Over(e, rest) /\ Over(f, rest) \in Int
    BY <1>2, <1>3, OverSame, OverInt
<1> QED BY <1>1, <1>4

\* The flows stay priced while documents stay on their accounts.
LEMMA FlowsStay ==
    ASSUME FlowsPriced, DeskTypes, NEW s \in Sessions, NEW now, call' = [call EXCEPT ![s] = now], FlowPriced(now),
           \A account \in Controls : OnAccount(account) \subseteq OnAccount(account)'
    PROVE  FlowsPriced'
<1>1. call'[s] = now /\ \A t \in Sessions : t # s => call'[t] = call[t]
    BY CallBut
<1>2. ASSUME NEW voucher, NEW then, Priced(voucher, then) PROVE Priced(voucher, then)'
    BY <1>2 DEF Priced, PricedPayment
<1>3. \A flow : FlowPriced(flow) => FlowPriced(flow)'
    BY <1>2 DEF FlowPriced
<1>4. ASSUME NEW t \in Sessions PROVE FlowPriced(call[t])'
  <2>1. PICK flow : flow = call'[t] /\ FlowPriced(flow)
    BY <1>1 DEF FlowsPriced
  <2> QED BY <1>3, <2>1 DEF FlowPriced, Priced, PricedPayment
<1> QED BY <1>4 DEF FlowsPriced

\* The book stays as it is, and hears of nothing.
LEMMA BookAsIs ==
    ASSUME UNCHANGED book, Heard' = Heard, ledger \subseteq ledger',
           DocumentsPriced, CreditsPriced, Balanced
    PROVE  /\ DocumentsPriced' /\ CreditsPriced' /\ Balanced'
           /\ \A account \in Controls : OnAccount(account) \subseteq OnAccount(account)'
<1>1. \A account : OnAccount(account)' = OnAccount(account)
    BY DEF OnAccount, book
<1>2. DocumentsPriced' /\ CreditsPriced'
    BY <1>1 DEF DocumentsPriced, CreditsPriced, book
<1>3. ASSUME NEW account \in Controls
      PROVE  Over(DueOf(account), Heard)' = Over(Worth, OnAccount(account))' - Over(CreditAmounts, InCredit(account))'
  <2> DEFINE f == DueOf(account)
             e == DueOf(account)'
             S == Heard
  <2>1. Alike(f, e, S)
    BY DEF Alike, DueOf, Heard
  <2>2. Over(f, S) = Over(e, S)
    <3> HIDE DEF f, e, S
    <3> QED BY <2>1, OverSame
  <2>3. Worth' = Worth /\ CreditAmounts' = CreditAmounts /\ InCredit(account)' = InCredit(account)
    BY <1>1 DEF Worth, CreditAmounts, InCredit, book
  <2>4. Over(DueOf(account), Heard)' = Over(e, S)
    BY DEF Over
  <2>5. Over(f, S) = Over(Worth, OnAccount(account)) - Over(CreditAmounts, InCredit(account))
    BY DEF Balanced
  <2> QED BY <1>1, <2>2, <2>3, <2>4, <2>5 DEF Over
<1> QED BY <1>1, <1>2, <1>3 DEF Balanced

\* The ledger's side of what the book hears of.
LEMMA HeardSum ==
    ASSUME BookIInv, NEW v \in ledger, ~InBook(v), HeardOf(v), UNCHANGED ledger, Amounts(v.entries),
           NEW account \in Controls
    PROVE  Over(DueOf(account), Heard)' = Over(DueOf(account), Heard) + Due(account, v.entries)
<1> DEFINE f == DueOf(account)
           S == Heard
<1>1. v \notin S /\ Heard' = S \cup {v} /\ DueOf(account)' = f
    BY DEF Heard, HeardOf, DueOf
<1>2. IsFiniteSet(S) /\ \A w \in S : f[w] \in Int
    BY BookSums DEF Summable
<1>3. f[v] = Due(account, v.entries) /\ f[v] \in Int
    BY DueInt DEF DueOf
<1>4. Over(DueOf(account), Heard)' = Over(f, S \cup {v})
    BY <1>1 DEF Over
<1> HIDE DEF f, S
<1>5. Over(f, S \cup {v}) = Over(f, S) + f[v]
    BY <1>1, <1>2, <1>3, OverAdd
<1> QED BY <1>3, <1>4, <1>5 DEF f, S

\* A document is on one account only.
LEMMA OnOneAccount ==
    ASSUME BookIInv, NEW a \in Controls, NEW b \in Controls, NEW d \in OnAccount(a), d \in OnAccount(b)
    PROVE  a = b
<1>1. FiledOn(a, d) /\ FiledOn(b, d)
    BY OnAccountIs DEF BookIInv
<1> QED BY <1>1 DEF FiledOn, LandsOn

\* What the lines of a draft the book takes come to, either side.
LEMMA DraftSides ==
    ASSUME NEW draft, Book!CheckNew(draft)
    PROVE  /\ draft.document.total > 0 /\ draft.document.status = "open" /\ draft.document.allocated = 0
           /\ Over(Debits(draft.lines), DOMAIN draft.lines) = Over(Credited(draft.lines), DOMAIN draft.lines)
<1> DEFINE ls == draft.lines
<1>1. Book!Total([i \in DOMAIN ls |-> ls[i].debit]) = Book!Total([i \in DOMAIN ls |-> ls[i].credit])
    BY DEF Book!CheckNew, Book!ValidLines
<1>2. \A f : Book!Total(f) = Total(f)
    BY DEF Book!Total, Total, Book!SumFunction, SumFunction, Book!FoldFunctionOnSet, FoldFunctionOnSet,
           Book!SumFunctionOnSet, SumFunctionOnSet, Book!MapThenFoldSet, MapThenFoldSet
<1>3. Over(Debits(ls), DOMAIN ls) = Total([i \in DOMAIN ls |-> ls[i].debit])
    BY DEF Over, Debits
<1>4. Over(Credited(ls), DOMAIN ls) = Total([i \in DOMAIN ls |-> ls[i].credit])
    BY DEF Over, Credited
<1> QED BY <1>1, <1>2, <1>3, <1>4 DEF Book!CheckNew, Book!ValidDocument

\* The book takes a new document: its voucher and it are worth the same.
LEMMA CreateBalances ==
    ASSUME BookIInv, DeskTypes, SubledgerIInv, NEW s \in Sessions, CreateDocument(s)
    PROVE  SubledgerIInv'
<1> DEFINE draft == call[s].then.draft
           v == call[s].voucher
<1>1. /\ Telling(call[s]) /\ v \in ledger /\ ~InBook(v)
      /\ Announces(v, draft) /\ Book!CheckNew(draft)
      /\ documents[draft.id] = NoDocument
      /\ documents'[draft.id] = draft.document /\ lines'[draft.id] = draft.lines
      /\ \A d \in Docs : d # draft.id => documents'[d] = documents[d] /\ lines'[d] = lines[d]
      /\ UNCHANGED <<ledger, allocations, credits>>
    BY CreateIs
<1>2. /\ BookIInv' /\ HeardOf(v)
      /\ \A account \in Controls : OnAccount(account)' = IF v.id[1] = Creating[account]
                                                         THEN OnAccount(account) \cup {draft.id}
                                                         ELSE OnAccount(account)
    BY CreateKeeps
<1>3. PricedDraft(v, draft)
  <2>1. call[s].pc = "create"
    BY DEF CreateDocument
  <2>2. call[s].then.pc = "create"
    BY <2>1 DEF BookIInv, FlowsKept, FlowKept, Telling
  <2> QED BY <2>1, <2>2 DEF SubledgerIInv, FlowsPriced, FlowPriced, Priced
<1>0. call' = [call EXCEPT ![s] = Idle]
    BY DEF CreateDocument
<1> HIDE DEF v, draft
<1>4. PICK own \in Controls : v.id = <<Creating[own], draft.id>>
    BY <1>1 DEF Announces
<1>5. PICK id \in Docs : id = draft.id
    BY <1>1 DEF Announces
<1>6. \A account \in Controls :
        /\ id \notin OnAccount(account)
        /\ OnAccount(account)' = IF account = own THEN OnAccount(account) \cup {id} ELSE OnAccount(account)
  <2>1. \A account \in Controls : v.id[1] = Creating[account] <=> account = own
    BY <1>4, CreatingApart
  <2>2. \A account \in Controls : id \notin OnAccount(account)
    BY <1>1, <1>5, OnAccountIs DEF BookIInv
  <2> QED BY <1>2, <1>5, <2>1, <2>2
<1>7. /\ draft.document.total > 0 /\ draft.document.status = "open" /\ draft.document.allocated = 0
      /\ Over(Debits(draft.lines), DOMAIN draft.lines) = Over(Credited(draft.lines), DOMAIN draft.lines)
    BY <1>1, DraftSides
<1>8. DocumentsPriced'
  <2>1. \A d \in Docs : documents'[d] # NoDocument => documents'[d].total > 0
    BY <1>1, <1>5, <1>7 DEF SubledgerIInv, DocumentsPriced
  <2>2. ASSUME NEW account \in Controls, NEW d \in OnAccount(account)'
        PROVE  Due(account, lines'[d]) = Over(Debits(lines'[d]), DOMAIN lines'[d])
    <3>1. CASE d = id
      <4>1. account = own
        BY <1>6, <3>1
      <4> QED BY <1>1, <1>3, <1>4, <1>5, <1>7, <3>1, <4>1 DEF PricedDraft
    <3>2. CASE d # id
      <4>1. d \in OnAccount(account) /\ d \in Docs
        BY <1>6, <3>2 DEF OnAccount
      <4> QED BY <1>1, <1>5, <3>2, <4>1 DEF SubledgerIInv, DocumentsPriced
    <3> QED BY <3>1, <3>2
  <2> QED BY <2>1, <2>2 DEF DocumentsPriced, Due, DueAt, Debits
<1>9. CreditsPriced' /\ \A r \in credits : r.doc # id
    BY <1>1, <1>5 DEF SubledgerIInv, CreditsPriced
<1>10. FlowsPriced'
  <2>1. FlowPriced(Idle)
    BY DEF FlowPriced, Idle
  <2>2. \A account \in Controls : OnAccount(account) \subseteq OnAccount(account)'
    BY <1>6
  <2> QED BY <1>0, <2>1, <2>2, FlowsStay DEF SubledgerIInv
<1>11. ASSUME NEW account \in Controls
       PROVE  Over(DueOf(account), Heard)' = Over(Worth, OnAccount(account))' - Over(CreditAmounts, InCredit(account))'
  <2> DEFINE f == Worth
             e == Worth'
             S == OnAccount(account)
             due == Due(account, v.entries)
             left == Over(CreditAmounts, InCredit(account))
  <2>1. InCredit(account)' = InCredit(account) /\ CreditAmounts' = CreditAmounts
    BY <1>1, <1>6, <1>9 DEF InCredit, CreditAmounts
  <2>2. Over(DueOf(account), Heard)' = Over(DueOf(account), Heard) + due
    BY <1>1, <1>2, HeardSum DEF Announces
  <2>3. Over(DueOf(account), Heard) = Over(f, S) - left
    BY DEF SubledgerIInv, Balanced
  <2>4. Over(CreditAmounts, InCredit(account))' = left
    BY <2>1 DEF Over
  <2>5. IsFiniteSet(S) /\ (\A d \in S : f[d] \in Int) /\ id \notin S
    BY <1>6, BookSums DEF Summable
  <2>6. Alike(f, e, S)
    BY <1>1, <1>5, <2>5 DEF Alike, Worth, OnAccount
  <2>7. e[id] = draft.document.total
    <3>1. draft.document.total \in Int
      BY <1>1, FiledAmounts DEF Announces
    <3> QED BY <1>1, <1>5, <1>7, <3>1 DEF Worth, Book!Outstanding
  <2>8. CreditAmounts \in [credits -> Int] /\ IsFiniteSet(InCredit(account))
    BY FS_Subset DEF CreditAmounts, InCredit, SubledgerIInv, CreditsPriced
  <2>9. left \in Int
    BY <2>8, OverInt DEF InCredit
  <2>10. CASE account = own
    <3>1. due = draft.document.total /\ draft.document.total \in Int
      <4>1. due = draft.document.total
        BY <1>3, <1>4, <2>10 DEF PricedDraft
      <4>2. due \in Int
        BY <1>1, DueInt DEF Announces
      <4> QED BY <4>1, <4>2
    <3>2. Over(Worth, OnAccount(account))' = Over(e, S \cup {id})
      BY <1>6, <2>10 DEF Over
    <3> HIDE DEF f, e, S, due, left
    <3>3. Over(f, S) = Over(e, S)
      BY <2>6, OverSame
    <3>4. \A d \in S \cup {id} : e[d] \in Int
      BY <2>5, <2>6, <2>7, <3>1 DEF Alike
    <3>5. Over(e, S \cup {id}) = Over(e, S) + e[id] /\ Over(e, S) \in Int
      BY <2>5, <3>4, OverAdd, OverInt
    <3> QED BY <2>2, <2>3, <2>4, <2>7, <2>9, <3>1, <3>2, <3>3, <3>5
  <2>11. CASE account # own
    <3>1. due = 0
      BY <1>3, <1>4, <2>11, CreatingApart DEF PricedDraft
    <3>2. Over(Worth, OnAccount(account))' = Over(e, S)
      BY <1>6, <2>11 DEF Over
    <3> HIDE DEF f, e, S, due, left
    <3>3. Over(f, S) = Over(e, S) /\ Over(f, S) \in Int
      BY <2>5, <2>6, OverSame, OverInt
    <3> QED BY <2>2, <2>3, <2>4, <2>9, <3>1, <3>2, <3>3
  <2> QED BY <2>10, <2>11
<1>12. Balanced'
    BY <1>11 DEF Balanced
<1> QED BY <1>8, <1>9, <1>10, <1>12 DEF SubledgerIInv

\* The book takes a payment: it settles what the payment's voucher clears, and
\* what is over is the partner's credit.
LEMMA ApplyBalances ==
    ASSUME BookIInv, DeskTypes, SubledgerIInv, NEW s \in Sessions, ApplyPayment(s)
    PROVE  SubledgerIInv'
<1> DEFINE app == call[s].then.app
           v == call[s].voucher
           d == documents[app.doc]
           rows == Book!CreditRows(d, app)
           applied == Book!Applied(d, app)
           over == Book!Credited(d, app)
<1>1. /\ v \in ledger /\ ~InBook(v)
      /\ Answers(v, app) /\ d \in FiledDocument /\ Book!MaySettle(d, app)
      /\ d # NoDocument
      /\ documents'[app.doc] = Book!Settled(d, app)
      /\ \A x \in Docs : x # app.doc => documents'[x] = documents[x]
      /\ credits' = credits \cup rows
      /\ UNCHANGED <<ledger, lines>>
    BY ApplyIs
<1>2. BookIInv' /\ HeardOf(v) /\ \A account : OnAccount(account)' = OnAccount(account)
    BY ApplyKeeps
<1>3. PricedPayment(v, app)
  <2>1. call[s].pc = "apply"
    BY DEF ApplyPayment
  <2>2. call[s].then.pc = "apply"
    BY <2>1 DEF BookIInv, FlowsKept, FlowKept, Telling
  <2> QED BY <2>1, <2>2 DEF SubledgerIInv, FlowsPriced, FlowPriced, Priced
<1>0. call' = [call EXCEPT ![s] = Idle]
    BY DEF ApplyPayment
<1> HIDE DEF v, app
<1>4. app.doc \in Docs /\ app.amount \in Int /\ app.id = RowName(v.id) /\ v.id[1] \in RowKinds
    BY <1>1 DEF Answers
<1>5. /\ Book!Settled(d, app) \in FiledDocument
      /\ Book!Settled(d, app).total = d.total /\ Book!Settled(d, app).status # "void" /\ d.status # "void"
      /\ Book!Outstanding(d) \in Int /\ applied \in Int /\ over = app.amount - applied
      /\ Book!Outstanding(Book!Settled(d, app)) = Book!Outstanding(d) - applied /\ over >= 0
    BY <1>1, <1>4, SettledFacts
<1>6. PICK own \in Controls :
        /\ app.doc \in OnAccount(own)
        /\ \A account \in Controls : Due(account, v.entries) = IF account = own THEN -app.amount ELSE 0
    BY <1>3 DEF PricedPayment
<1>7. /\ IsFiniteSet(credits) /\ IsFiniteSet(rows)
      /\ \A r \in credits : r.doc \in Docs /\ documents[r.doc] # NoDocument /\ r.amount \in Int
    BY FS_EmptySet, FS_Singleton DEF SubledgerIInv, CreditsPriced, Book!CreditRows
<1>8. \A r \in rows : r.doc = app.doc /\ r.amount = over /\ r \notin credits
  <2>1. \A r \in rows : r.doc = app.doc /\ r.amount = over /\ r.id = app.id
    BY DEF Book!CreditRows
  <2>2. \A r \in credits : r.id # app.id
    BY <1>1, <1>4, InBookIs DEF Rows
  <2> QED BY <2>1, <2>2
<1>9. (rows = {} /\ over = 0) \/ \E r : rows = {r}
  <2>1. CASE over > 0
    BY <2>1 DEF Book!CreditRows
  <2>2. CASE ~(over > 0)
    <3>1. rows = {}
      BY <2>2 DEF Book!CreditRows
    <3> HIDE DEF over, applied, rows
    <3>2. over = 0
      BY <1>4, <1>5, <2>2
    <3> QED BY <3>1, <3>2
  <2> QED BY <2>1, <2>2
<1> HIDE DEF rows, applied, over
<1>10. DocumentsPriced'
  <2>1. \A x \in Docs : documents'[x] # NoDocument => documents'[x].total > 0
    <3>1. documents'[app.doc].total = documents[app.doc].total
      BY <1>1, <1>5
    <3> QED BY <1>1, <1>4, <3>1 DEF SubledgerIInv, DocumentsPriced
  <2> QED BY <1>1, <1>2, <2>1 DEF SubledgerIInv, DocumentsPriced
<1>11. CreditsPriced'
  <2>1. IsFiniteSet(credits')
    BY <1>1, <1>7, FS_Union
  <2>2. \A x \in Docs : documents[x] # NoDocument => documents'[x] # NoDocument
    BY <1>1, <1>5, NoDocumentAssumption
  <2>3. ASSUME NEW r \in credits' PROVE r.doc \in Docs /\ documents'[r.doc] # NoDocument /\ r.amount \in Int
    <3>1. CASE r \in credits
      BY <1>7, <2>2, <3>1
    <3>2. CASE r \in rows
      BY <1>1, <1>4, <1>5, <1>8, <2>2, <3>2
    <3> QED BY <1>1, <3>1, <3>2
  <2> QED BY <2>1, <2>3 DEF CreditsPriced
<1>12. FlowsPriced'
  <2>1. FlowPriced(Idle)
    BY DEF FlowPriced, Idle
  <2> QED BY <1>0, <1>2, <2>1, FlowsStay DEF SubledgerIInv
<1>13. ASSUME NEW account \in Controls
       PROVE  Over(DueOf(account), Heard)' = Over(Worth, OnAccount(account))' - Over(CreditAmounts, InCredit(account))'
  <2> DEFINE f == Worth
             e == Worth'
             S == OnAccount(account)
             g == CreditAmounts
             h == CreditAmounts'
             C == InCredit(account)
             due == Due(account, v.entries)
  <2>1. Over(DueOf(account), Heard)' = Over(DueOf(account), Heard) + due
    BY <1>1, <1>2, HeardSum DEF Answers
  <2>2. Over(DueOf(account), Heard) = Over(f, S) - Over(g, C)
    BY DEF SubledgerIInv, Balanced
  <2>3. due = IF account = own THEN -app.amount ELSE 0
    BY <1>6
  <2>4. Over(Worth, OnAccount(account))' = Over(e, S)
    BY <1>2 DEF Over
  <2>5. IsFiniteSet(S) /\ (\A x \in S : f[x] \in Int) /\ S \subseteq Docs
    BY BookSums DEF Summable, OnAccount
  <2>6. \A x \in S : x # app.doc => e[x] = f[x]
    BY <1>1, <2>5 DEF Worth
  <2>7. f[app.doc] = Book!Outstanding(d) /\ e[app.doc] = Book!Outstanding(d) - applied
    BY <1>1, <1>4, <1>5 DEF Worth
  <2>8. IsFiniteSet(C) /\ (\A r \in C : g[r] \in Int) /\ Alike(g, h, C)
    <3>1. C \subseteq credits /\ C \subseteq credits'
      BY <1>1 DEF InCredit
    <3> QED BY <1>7, <3>1, FS_Subset DEF Alike, CreditAmounts
  <2>9. CASE account # own
    <3>1. app.doc \notin S
      BY <1>6, <2>9, OnOneAccount
    <3>2. Alike(f, e, S)
      BY <2>6, <3>1 DEF Alike
    <3>3. InCredit(account)' = C
      BY <1>1, <1>2, <1>8, <3>1 DEF InCredit
    <3>4. Over(CreditAmounts, InCredit(account))' = Over(h, C)
      BY <3>3 DEF Over
    <3> HIDE DEF f, e, S, g, h, C, due
    <3>5. Over(f, S) = Over(e, S) /\ Over(f, S) \in Int /\ Over(g, C) = Over(h, C) /\ Over(g, C) \in Int
      BY <2>5, <2>8, <3>2, OverSame, OverInt
    <3> QED BY <2>1, <2>2, <2>3, <2>4, <2>9, <3>4, <3>5
  <2>10. CASE account = own
    <3>1. app.doc \in S
      BY <1>6, <2>10
    <3>2. InCredit(account)' = C \cup rows
      BY <1>1, <1>2, <1>8, <3>1 DEF InCredit
    <3>3. Over(CreditAmounts, InCredit(account))' = Over(h, C \cup rows)
      BY <3>2 DEF Over
    <3>4. \A r \in rows : r \notin C /\ h[r] = over
      BY <1>1, <1>8 DEF InCredit, CreditAmounts
    <3> HIDE DEF f, e, S, g, h, C, due, d
    <3>5. \A x \in S : f[x] \in Int /\ e[x] \in Int /\ (x # app.doc => e[x] = f[x])
      BY <1>5, <2>5, <2>6, <2>7
    <3>6. Over(e, S) = Over(f, S) + (e[app.doc] - f[app.doc]) /\ Over(f, S) \in Int
      BY <2>5, <3>1, <3>5, OverChanged, OverInt
    <3>7. Over(e, S) = Over(f, S) - applied
      BY <1>5, <2>7, <3>6
    <3>8. Over(h, C) = Over(g, C) /\ Over(g, C) \in Int /\ \A r \in C : h[r] \in Int
      BY <2>8, OverSame, OverInt DEF Alike
    <3>9. over \in Int
      BY <1>4, <1>5
    <3>10. Over(h, C \cup rows) = Over(g, C) + over
      <4>1. CASE rows = {} /\ over = 0
        <5>1. C \cup rows = C
          BY <4>1
        <5> QED BY <3>8, <4>1, <5>1
      <4>2. ASSUME NEW r, rows = {r} PROVE Over(h, C \cup rows) = Over(g, C) + over
        <5>1. r \notin C /\ h[r] = over
          BY <3>4, <4>2
        <5>2. \A x \in C \cup {r} : h[x] \in Int
          BY <3>8, <3>9, <5>1
        <5>3. Over(h, C \cup {r}) = Over(h, C) + h[r]
          BY <2>8, <5>1, <5>2, OverAdd
        <5> QED BY <3>8, <4>2, <5>1, <5>3
      <4> QED BY <1>9, <4>1, <4>2
    <3>11. over = app.amount - applied /\ applied \in Int /\ app.amount \in Int
      BY <1>4, <1>5
    <3>12. due = -app.amount
      BY <2>3, <2>10
    <3> QED BY <2>1, <2>2, <2>4, <3>3, <3>6, <3>7, <3>8, <3>10, <3>11, <3>12
  <2> QED BY <2>9, <2>10
<1>14. Balanced'
    BY <1>13 DEF Balanced
<1> QED BY <1>10, <1>11, <1>12, <1>14 DEF SubledgerIInv

\* The book voids a document nothing was allocated to: it is worth what it was.
LEMMA VoidBalances ==
    ASSUME BookIInv, SubledgerIInv, NEW x \in Docs, VoidDocument(x)
    PROVE  SubledgerIInv'
<1>1. /\ BookIInv' /\ (\A v : InBook(v)' = InBook(v))
      /\ documents[x] \in FiledDocument /\ documents'[x] = [documents[x] EXCEPT !.status = "void"]
      /\ \A d \in Docs : d # x => documents'[d] = documents[d]
    BY VoidKeeps
<1>2. /\ documents[x] # NoDocument /\ documents[x].status # "void" /\ documents[x].allocated = 0
      /\ UNCHANGED <<ledger, lines, credits, call>>
    BY DEF VoidDocument, Book!Void
<1>3. documents'[x].total = documents[x].total /\ documents'[x].status = "void" /\ documents'[x] # NoDocument
  <2> DEFINE d == documents[x]
  <2>1. \A people, rates : \A y \in Filings(people, rates) :
            [y EXCEPT !.status = "void"].total = y.total /\ [y EXCEPT !.status = "void"].status = "void"
    BY DEF Filings
  <2>2. d \in FiledDocument /\ documents'[x] = [d EXCEPT !.status = "void"]
    BY <1>1
  <2> HIDE DEF d
  <2>3. [d EXCEPT !.status = "void"].total = d.total /\ [d EXCEPT !.status = "void"].status = "void"
    BY <2>1, <2>2, Zenon DEF FiledDocument, Filings
  <2>4. [d EXCEPT !.status = "void"] \in FiledDocument
    <3>1. 0 \in Int /\ "void" \in {"open", "partially_paid", "paid", "void"}
      OBVIOUS
    <3> QED BY <2>2, <3>1, FiledStays
  <2>5. [d EXCEPT !.status = "void"] # NoDocument
    BY <2>4, NoDocumentAssumption
  <2> QED BY <2>2, <2>3, <2>5 DEF d
<1>4. \A account : OnAccount(account)' = OnAccount(account) /\ InCredit(account)' = InCredit(account)
    BY <1>2 DEF OnAccount, InCredit
<1>5. CreditsPriced' /\ FlowsPriced'
  <2>1. CreditsPriced'
    BY <1>1, <1>2, <1>3 DEF SubledgerIInv, CreditsPriced
  <2>2. \A voucher, then : Priced(voucher, then) => Priced(voucher, then)'
    BY <1>4 DEF Priced, PricedPayment
  <2>3. \A flow : FlowPriced(flow) => FlowPriced(flow)'
    BY <2>2 DEF FlowPriced
  <2>4. ASSUME NEW t \in Sessions PROVE FlowPriced(call[t])'
    <3>1. PICK flow : flow = call'[t] /\ FlowPriced(flow)
      BY <1>2 DEF SubledgerIInv, FlowsPriced
    <3> QED BY <2>3, <3>1 DEF FlowPriced, Priced, PricedPayment
  <2> QED BY <2>1, <2>4 DEF FlowsPriced
<1>6. DocumentsPriced'
  <2>1. \A d \in Docs : documents'[d] # NoDocument => documents'[d].total > 0
    BY <1>1, <1>2, <1>3 DEF SubledgerIInv, DocumentsPriced
  <2> QED BY <1>2, <1>4, <2>1 DEF SubledgerIInv, DocumentsPriced
<1>7. \A d \in Docs : Worth'[d] = Worth[d]
  <2>1. documents[x].total \in Int /\ documents[x].total > 0
    BY <1>1, <1>2, FiledAmounts DEF SubledgerIInv, DocumentsPriced
  <2>2. Worth[x] = documents[x].total
    BY <1>2, <2>1 DEF Worth, Book!Outstanding
  <2>3. Worth'[x] = documents[x].total
    BY <1>3 DEF Worth
  <2> QED BY <1>1, <2>2, <2>3 DEF Worth
<1>8. ASSUME NEW account \in Controls
      PROVE  Over(DueOf(account), Heard)' = Over(Worth, OnAccount(account))' - Over(CreditAmounts, InCredit(account))'
  <2> DEFINE f == Worth
             e == Worth'
             S == OnAccount(account)
  <2>1. Heard' = Heard /\ DueOf(account)' = DueOf(account) /\ CreditAmounts' = CreditAmounts
    BY <1>1, <1>2 DEF Heard, DueOf, CreditAmounts
  <2>2. Alike(f, e, S)
    BY <1>7 DEF Alike, OnAccount
  <2>3. Over(f, S) = Over(e, S)
    <3> HIDE DEF f, e, S
    <3> QED BY <2>2, OverSame
  <2>4. Over(Worth, OnAccount(account))' = Over(e, S)
    BY <1>4 DEF Over
  <2>5. Over(DueOf(account), Heard)' = Over(DueOf(account), Heard)
        /\ Over(CreditAmounts, InCredit(account))' = Over(CreditAmounts, InCredit(account))
    BY <1>4, <2>1 DEF Over
  <2> HIDE DEF f, e, S
  <2> QED BY <2>3, <2>4, <2>5 DEF SubledgerIInv, Balanced, f, S
<1>9. Balanced'
    BY <1>8 DEF Balanced
<1> QED BY <1>5, <1>6, <1>9 DEF SubledgerIInv

LEMMA SubledgerStep ==
    ASSUME ControlsReserved, PaymentsInPlace, WarehouseIInv, BookIInv, SubledgerIInv, [Next]_vars
    PROVE  SubledgerIInv'
<1>0. DeskTypes
    BY DEF WarehouseIInv, PaperTypes
<1>1. ASSUME UNCHANGED book, Heard' = Heard, ledger \subseteq ledger',
             NEW s \in Sessions, NEW now, call' = [call EXCEPT ![s] = now], FlowPriced(now)
      PROVE  SubledgerIInv'
  <2>1. /\ DocumentsPriced' /\ CreditsPriced' /\ Balanced'
        /\ \A account \in Controls : OnAccount(account) \subseteq OnAccount(account)'
    BY <1>1, BookAsIs DEF SubledgerIInv
  <2>2. FlowsPriced'
    BY <1>0, <1>1, <2>1, FlowsStay DEF SubledgerIInv
  <2> QED BY <2>1, <2>2 DEF SubledgerIInv
<1>2. CASE Quiet
  <2>1. UNCHANGED <<ledger, book>> /\ Heard' = Heard /\ ledger \subseteq ledger'
    BY <1>2 DEF Quiet, book, Heard, InBook, OnAccount, Rows
  <2>2. CASE UNCHANGED call
    <3>1. DocumentsPriced' /\ CreditsPriced' /\ Balanced'
      BY <2>1, BookAsIs DEF SubledgerIInv
    <3>2. FlowsPriced'
      BY <2>1, <2>2 DEF SubledgerIInv, FlowsPriced, FlowPriced, Priced, PricedPayment, OnAccount, book
    <3> QED BY <3>1, <3>2 DEF SubledgerIInv
  <2>3. CASE \E s \in Sessions : \E now :
                /\ call' = [call EXCEPT ![s] = now] /\ ~Telling(now) /\ FlowKept(now)
                /\ PaymentsInPlace /\ DocumentsPriced => FlowPriced(now)
    BY <1>1, <2>1, <2>3 DEF SubledgerIInv
  <2> QED BY <1>2, <2>2, <2>3 DEF Quiet
<1>3. ASSUME NEW s \in Sessions, call[s].pc = "post", ~Posted(call[s].voucher.id),
             ledger' = ledger \cup {call[s].voucher}, UNCHANGED book
      PROVE  Heard' = Heard /\ ledger \subseteq ledger'
  <2> DEFINE v == call[s].voucher
  <2>2. Intends(v, call[s].then) /\ call[s].then.pc \in {"create", "apply", "done"}
    BY <1>3 DEF BookIInv, FlowsKept, FlowKept, WarehouseIInv, PaperTypes, AtDesk, Posting
  <2>3. v.id = <<v.id[1], v.id[2]>>
    <3>1. CASE call[s].then.pc = "create"
      <4>1. PICK account \in Controls : v.id = <<Creating[account], call[s].then.draft.id>>
        BY <2>2, <3>1 DEF Intends, Announces
      <4> QED BY <4>1
    <3>2. CASE call[s].then.pc # "create"
      BY <2>2, <3>2 DEF Intends, Answers
    <3> QED BY <3>1, <3>2
  <2> HIDE DEF v
  <2>4. ~InBook(v)
    BY <1>3, <2>3, NotPostedNotHeard DEF v
  <2>5. \A w : InBook(w)' = InBook(w)
    BY <1>3 DEF book, InBook, OnAccount, Rows
  <2> QED BY <1>3, <2>4, <2>5 DEF Heard, v
<1>4. FlowPriced(Idle)
    BY DEF FlowPriced, Idle
<1>5. ASSUME NEW s \in Sessions, Post(s) PROVE SubledgerIInv'
  <2>1. call[s].pc = "post" /\ ~Posted(call[s].voucher.id) /\ ledger' = ledger \cup {call[s].voucher} /\ UNCHANGED book
    BY <1>5 DEF Post
  <2>2. PICK now : /\ call' = [call EXCEPT ![s] = now]
                   /\ now = Idle \/ (now.pc = call[s].then.pc /\ Telling(now)
                                       /\ now.voucher = call[s].voucher /\ now.then = call[s].then)
    BY <1>5, PostIs
  <2>3. FlowPriced(now)
    BY <1>4, <2>1, <2>2 DEF SubledgerIInv, FlowsPriced, FlowPriced
  <2> QED BY <1>1, <1>3, <2>1, <2>2, <2>3
<1>6. ASSUME NEW s \in Sessions, PostAnswerLost(s) PROVE SubledgerIInv'
  <2>1. call[s].pc = "post" /\ ~Posted(call[s].voucher.id) /\ ledger' = ledger \cup {call[s].voucher} /\ UNCHANGED book
        /\ call' = [call EXCEPT ![s] = Idle]
    BY <1>6 DEF PostAnswerLost
  <2> QED BY <1>1, <1>3, <1>4, <2>1
<1>7. ASSUME NEW s \in Sessions, CreateDocument(s) PROVE SubledgerIInv'
    BY <1>0, <1>7, CreateBalances
<1>8. ASSUME NEW s \in Sessions, ApplyPayment(s) PROVE SubledgerIInv'
    BY <1>0, <1>8, ApplyBalances
<1>9. ASSUME NEW x \in Docs, VoidDocument(x) PROVE SubledgerIInv'
    BY <1>9, VoidBalances
<1> QED BY <1>2, <1>5, <1>6, <1>7, <1>8, <1>9, NextIs

LEMMA SubledgerInit == Init => SubledgerIInv
<1> SUFFICES ASSUME Init PROVE SubledgerIInv
    OBVIOUS
<1>1. /\ ledger = {} /\ documents = [d \in Docs |-> NoDocument] /\ lines = [d \in Docs |-> <<>>]
      /\ credits = {} /\ call = [s \in Sessions |-> Idle]
    BY DEF Init, Book!Init
<1>2. \A account : OnAccount(account) = {}
    BY <1>1 DEF OnAccount
<1>3. DocumentsPriced
    BY <1>1, <1>2 DEF DocumentsPriced
<1>4. CreditsPriced
    BY <1>1, FS_EmptySet DEF CreditsPriced
<1>5. FlowsPriced
    BY <1>1 DEF FlowsPriced, FlowPriced, Idle
<1>6. Balanced
  <2>1. \A account : InCredit(account) = {}
    BY <1>1 DEF InCredit
  <2>2. Heard = {}
    BY <1>1 DEF Heard
  <2> QED BY <1>2, <2>1, <2>2, OverEmpty DEF Balanced
<1> QED BY <1>3, <1>4, <1>5, <1>6 DEF SubledgerIInv

\* What the vouchers the book knows of come to on an account.
LEMMA BalanceIs ==
    ASSUME BookIInv
    PROVE  /\ Balance(Receivable, Heard) = Over(DueOf(Receivable), Heard)
           /\ Balance(Payables, Heard) = -Over(DueOf(Payables), Heard)
<1> DEFINE Side(account, v) == [i \in DOMAIN v.entries |-> IF v.entries[i].account = account
                                    THEN v.entries[i].debit - v.entries[i].credit ELSE 0]
           sums(account) == [v \in ledger |-> Over(Side(account, v), DOMAIN v.entries)]
<1>1. \A account : Balance(account, Heard) = Over(sums(account), Heard)
  <2>1. ASSUME NEW account
        PROVE  [v \in Heard |-> SumOf(LAMBDA e : IF e.account = account THEN e.debit - e.credit ELSE 0, v.entries)]
                 = [v \in Heard |-> sums(account)[v]]
    <3>1. \A v \in Heard : v \in ledger
      BY DEF Heard
    <3> QED BY <3>1 DEF SumOf, Over
  <2> QED BY <2>1 DEF Balance, Over
<1>2. \A v \in Heard : v \in ledger /\ Amounts(v.entries)
    BY InBookIs DEF Heard, BookIInv, LedgerKept
<1>3. Receivable = "131" /\ Payables = "331"
    BY Accounts
<1>4. ASSUME NEW v \in Heard
      PROVE  /\ sums(Receivable)[v] = DueOf(Receivable)[v]
             /\ sums(Payables)[v] = -DueOf(Payables)[v]
  <2> DEFINE f == DueAt(Receivable, v.entries)
             g == DueAt(Payables, v.entries)
             h == Side(Receivable, v)
             k == Side(Payables, v)
             all == DOMAIN v.entries
  <2>1. v \in ledger /\ Amounts(v.entries) /\ IsFiniteSet(all)
    BY <1>2 DEF Amounts
  <2>2. Alike(h, f, all)
    BY DEF Alike, DueAt
  <2>3. \A i \in all : g[i] \in Int /\ k[i] = -g[i]
    BY <1>3, <2>1 DEF DueAt, Amounts
  <2>4. sums(Receivable)[v] = Over(h, all) /\ sums(Payables)[v] = Over(k, all)
    BY <2>1
  <2>5. DueOf(Receivable)[v] = Over(f, all) /\ DueOf(Payables)[v] = Over(g, all)
    BY <2>1 DEF DueOf, Due
  <2> HIDE DEF f, g, h, k, all, sums
  <2>6. Over(h, all) = Over(f, all) /\ Over(k, all) = -Over(g, all)
    BY <2>1, <2>2, <2>3, OverSame, OverMinus
  <2> QED BY <2>4, <2>5, <2>6
<1>5. IsFiniteSet(Heard) /\ \A v \in Heard : DueOf(Payables)[v] \in Int
    BY BookSums DEF Summable, Controls
<1> DEFINE f == sums(Receivable)
           g == sums(Payables)
           h == DueOf(Receivable)
           k == DueOf(Payables)
<1>6. Alike(f, h, Heard) /\ \A v \in Heard : k[v] \in Int /\ g[v] = -k[v]
    BY <1>4, <1>5 DEF Alike
<1>7. Balance(Receivable, Heard) = Over(f, Heard) /\ Balance(Payables, Heard) = Over(g, Heard)
    BY <1>1
<1> HIDE DEF f, g, h, k
<1>8. Over(f, Heard) = Over(h, Heard) /\ Over(g, Heard) = -Over(k, Heard)
    BY <1>5, <1>6, OverSame, OverMinus
<1> QED BY <1>7, <1>8 DEF h, k

LEMMA OwedIs ==
    ASSUME NEW account
    PROVE  Owed(account) = Over(Worth, OnAccount(account)) - Over(CreditAmounts, InCredit(account))
<1>1. [d \in OnAccount(account) |-> IF documents[d].status = "void" THEN documents[d].total
                                    ELSE Book!Outstanding(documents[d])]
        = [d \in OnAccount(account) |-> Worth[d]]
    BY DEF Worth, OnAccount
<1>2. [r \in {c \in credits : c.doc \in OnAccount(account)} |-> r.amount]
        = [r \in InCredit(account) |-> CreditAmounts[r]]
    BY DEF InCredit, CreditAmounts
<1> QED BY <1>1, <1>2 DEF Owed, Over

\* The sub-ledger follows the ledger: every document and every row of the book
\* has its voucher, and the vouchers the book knows of come to what it says is
\* owed.  It is Trading's SubledgerFollowsLedger, while no bill or order line
\* names a control account and a payment names a document of its own cycle.
THEOREM SubledgerFollows ==
    ASSUME ControlsReserved, PaymentsInPlace
    PROVE  Spec => []SubledgerFollowsLedger
<1>1. Init => WarehouseIInv /\ BookIInv /\ SubledgerIInv
    BY WarehouseInit, BookInit, SubledgerInit
<1>2. (WarehouseIInv /\ BookIInv /\ SubledgerIInv) /\ [Next]_vars => (WarehouseIInv /\ BookIInv /\ SubledgerIInv)'
    BY WarehouseStep, BookStep, SubledgerStep
<1>3. BookIInv /\ SubledgerIInv => SubledgerFollowsLedger
  <2> SUFFICES ASSUME BookIInv, SubledgerIInv PROVE SubledgerFollowsLedger
    OBVIOUS
  <2>1. \A account \in Controls : \A d \in OnAccount(account) : Posted(<<Creating[account], d>>)
    BY OnAccountIs DEF BookIInv, FiledOn
  <2>2. ASSUME NEW r \in Rows PROVE \E v \in ledger : InBook(v) /\ v.id[2] = r.payment
    <3>1. PICK v \in ledger : v.id[1] \in RowKinds /\ v.id[2] = r.payment /\ r.id = RowName(v.id)
      BY DEF BookIInv, RowsKept
    <3>2. InBook(v)
      BY <3>1, InBookIs
    <3> QED BY <3>1, <3>2
  <2>3. Receivable \in Controls /\ Payables \in Controls
    BY DEF Controls
  <2>4. \A account \in Controls : Over(DueOf(account), Heard) = Owed(account)
    BY OwedIs DEF SubledgerIInv, Balanced
  <2>5. Balance(Receivable, Heard) = Owed(Receivable) /\ Balance(Payables, Heard) = -Owed(Payables)
    BY <2>3, <2>4, BalanceIs
  <2>6. Over(DueOf(Payables), Heard) \in Int
    <3> DEFINE f == DueOf(Payables)
    <3>1. IsFiniteSet(Heard) /\ \A v \in Heard : f[v] \in Int
      BY <2>3, BookSums DEF Summable
    <3> HIDE DEF f
    <3>2. Over(f, Heard) \in Int
      BY <3>1, OverInt
    <3> QED BY <3>2 DEF f
  <2>7. -Balance(Payables, Heard) = Owed(Payables)
    BY <2>3, <2>4, <2>5, <2>6
  <2> QED BY <2>1, <2>2, <2>5, <2>7 DEF SubledgerFollowsLedger, Heard, Controls
<1> QED BY <1>1, <1>2, <1>3, PTL DEF Spec
=============================================================================
