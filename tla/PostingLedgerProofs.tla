------------------------- MODULE PostingLedgerProofs -------------------------
(***************************************************************************)
(* Proofs about the posting ledger, for any callers, books, postings and   *)
(* days: a number is handed out once, a request key names one entry, a     *)
(* locked day freezes, the books hold whole postings, and a position stops *)
(* being readable only where two writers overlapped.  A list of rows is    *)
(* reasoned about by the rows it is built of, one at a time (ByRows), and  *)
(* so is what a log of movements comes to.                                 *)
(***************************************************************************)
EXTENDS PostingLedger, TotalsProofs, SequenceTheorems

-----------------------------------------------------------------------------
(* The rows of a list that are among some.                                 *)

\* What the recursion of Among says of the lists it builds.
Keeps(rows, some, kept) ==
    kept = [n \in 0 .. Len(rows) |->
              IF n = 0 THEN <<>>
              ELSE IF rows[n] \in some THEN Append(kept[n - 1], rows[n])
              ELSE kept[n - 1]]

\* There are such lists.
LEMMA KeepsExists ==
    ASSUME NEW S, NEW some
    PROVE  \A rows \in Seq(S) : \E kept : Keeps(rows, some, kept)
<1> DEFINE Bad == {n \in Nat : \E rows \in Seq(S) : Len(rows) = n /\ ~\E kept : Keeps(rows, some, kept)}
<1>1. SUFFICES ASSUME Bad # {} PROVE FALSE
  <2>1. \A rows \in Seq(S) : Len(rows) \in Nat
    OBVIOUS
  <2> QED
    BY <2>1
<1>2. PICK n \in Bad : \A m \in Bad : ~(m < n)
  <2>1. Bad \in SUBSET Nat
    OBVIOUS
  <2> HIDE DEF Bad
  <2> QED
    BY <1>1, <2>1, LeastNumber
<1>3. PICK rows \in Seq(S) : Len(rows) = n /\ ~\E kept : Keeps(rows, some, kept)
  BY <1>2
<1>4. CASE n = 0
  <2> DEFINE kept == [i \in 0 .. 0 |-> <<>>]
  <2>1. Keeps(rows, some, kept)
    BY <1>3, <1>4 DEF Keeps
  <2> QED
    BY <1>3, <2>1
<1>5. CASE n # 0
  <2> DEFINE shorter == SubSeq(rows, 1, n - 1)
  <2>1. /\ shorter \in Seq(S) /\ Len(shorter) = n - 1 /\ n - 1 \in Nat /\ n - 1 < n
        /\ \A i \in 1 .. n - 1 : shorter[i] = rows[i]
    BY <1>3, <1>5
  <2> HIDE DEF shorter
  <2>2. PICK kept : Keeps(shorter, some, kept)
    BY <1>2, <2>1
  <2>3. \A i \in 0 .. n - 1 :
          kept[i] = IF i = 0 THEN <<>>
                    ELSE IF rows[i] \in some THEN Append(kept[i - 1], rows[i])
                    ELSE kept[i - 1]
    <3> TAKE i \in 0 .. n - 1
    <3>1. kept[i] = IF i = 0 THEN <<>>
                    ELSE IF shorter[i] \in some THEN Append(kept[i - 1], shorter[i])
                    ELSE kept[i - 1]
      BY <2>1, <2>2 DEF Keeps
    <3>2. i # 0 => shorter[i] = rows[i]
      BY <2>1
    <3> QED
      BY <3>1, <3>2
  <2> DEFINE last == IF rows[n] \in some THEN Append(kept[n - 1], rows[n]) ELSE kept[n - 1]
             longer == [i \in 0 .. n |-> IF i = n THEN last ELSE kept[i]]
  <2>4. longer[n] = last /\ \A i \in 0 .. n - 1 : longer[i] = kept[i]
    BY <2>1
  <2>5. longer[n - 1] = kept[n - 1]
    BY <2>1, <2>4
  <2>6. longer = [i \in 0 .. n |-> longer[i]]
    OBVIOUS
  <2> HIDE DEF longer
  <2>7. longer[n] = IF rows[n] \in some THEN Append(longer[n - 1], rows[n]) ELSE longer[n - 1]
    BY <2>4, <2>5
  <2> HIDE DEF last
  <2>8. \A i \in 0 .. n :
          longer[i] = IF i = 0 THEN <<>>
                      ELSE IF rows[i] \in some THEN Append(longer[i - 1], rows[i])
                      ELSE longer[i - 1]
    <3> TAKE i \in 0 .. n
    <3>1. CASE i = n
      BY <1>5, <2>7, <3>1
    <3>2. CASE i # n
      <4>1. i \in 0 .. n - 1 /\ (i # 0 => i - 1 \in 0 .. n - 1)
        BY <2>1, <3>2
      <4>2. longer[i] = kept[i] /\ (i # 0 => longer[i - 1] = kept[i - 1])
        BY <2>4, <4>1
      <4> QED
        BY <2>3, <4>1, <4>2
    <3> QED
      BY <3>1, <3>2
  <2>9. Keeps(rows, some, longer)
    BY <1>3, <2>6, <2>8 DEF Keeps
  <2> QED
    BY <1>3, <2>9
<1> QED
  BY <1>4, <1>5

\* They are the ones the rows are taken from.
LEMMA AmongKeeps ==
    ASSUME NEW S, NEW rows \in Seq(S), NEW some
    PROVE  \E kept : Keeps(rows, some, kept) /\ Among(rows, some) = kept[Len(rows)]
<1> DEFINE kept == CHOOSE k : Keeps(rows, some, k)
<1>1. Keeps(rows, some, kept)
  BY KeepsExists
<1>2. Among(rows, some) = kept[Len(rows)]
  BY DEF Among, Keeps
<1> QED
  BY <1>1, <1>2

\* Lists that begin alike keep alike as far as they do.
LEMMA KeepsAgree ==
    ASSUME NEW S, NEW rows \in Seq(S), NEW more \in Seq(S), NEW some, NEW kept, NEW also,
           Keeps(rows, some, kept), Keeps(more, some, also),
           NEW n \in Nat, n <= Len(rows), n <= Len(more), \A i \in 1 .. n : rows[i] = more[i]
    PROVE  kept[n] = also[n]
<1> DEFINE Bad == {i \in 0 .. n : kept[i] # also[i]}
<1>1. SUFFICES ASSUME Bad # {} PROVE FALSE
  OBVIOUS
<1>2. PICK k \in Bad : \A m \in Bad : ~(m < k)
  <2>1. Bad \in SUBSET Nat
    OBVIOUS
  <2> HIDE DEF Bad
  <2> QED
    BY <1>1, <2>1, LeastNumber
<1>3. /\ k \in 0 .. Len(rows) /\ k \in 0 .. Len(more)
      /\ k # 0 => rows[k] = more[k] /\ k - 1 \in 0 .. n /\ k - 1 < k
  OBVIOUS
<1>4. kept[k] = IF k = 0 THEN <<>> ELSE IF rows[k] \in some THEN Append(kept[k - 1], rows[k]) ELSE kept[k - 1]
  BY <1>3 DEF Keeps
<1>5. also[k] = IF k = 0 THEN <<>> ELSE IF more[k] \in some THEN Append(also[k - 1], more[k]) ELSE also[k - 1]
  BY <1>3 DEF Keeps
<1>6. k # 0 => kept[k - 1] = also[k - 1]
  BY <1>2, <1>3
<1> QED
  BY <1>2, <1>3, <1>4, <1>5, <1>6

\* Nothing is kept of nothing.
LEMMA AmongEmpty ==
    ASSUME NEW some
    PROVE  Among(<<>>, some) = <<>>
<1>1. PICK kept : Keeps(<<>>, some, kept) /\ Among(<<>>, some) = kept[Len(<<>>)]
  BY <<>> \in Seq({}), AmongKeeps
<1> QED
  BY <1>1 DEF Keeps

\* One row more is kept if it is among them.
LEMMA AmongAppend ==
    ASSUME NEW S, NEW rows \in Seq(S), NEW row \in S, NEW some
    PROVE  Among(Append(rows, row), some) =
             IF row \in some THEN Append(Among(rows, some), row) ELSE Among(rows, some)
<1> DEFINE more == Append(rows, row)
           n == Len(rows)
<1>1. /\ more \in Seq(S) /\ Len(more) = n + 1 /\ n \in Nat /\ more[n + 1] = row
      /\ \A i \in 1 .. n : rows[i] = more[i]
  OBVIOUS
<1> HIDE DEF more
<1>2. PICK kept : Keeps(rows, some, kept) /\ Among(rows, some) = kept[n]
  BY AmongKeeps
<1>3. PICK also : Keeps(more, some, also) /\ Among(more, some) = also[n + 1]
  BY <1>1, AmongKeeps
<1>4. kept[n] = also[n]
  BY <1>1, <1>2, <1>3, KeepsAgree
<1>5. also[n + 1] = IF row \in some THEN Append(also[n], row) ELSE also[n]
  <2>1. n + 1 \in 0 .. Len(more) /\ n + 1 # 0 /\ (n + 1) - 1 = n
    BY <1>1
  <2> QED
    BY <1>1, <1>3, <2>1 DEF Keeps
<1> QED
  BY <1>2, <1>3, <1>4, <1>5 DEF more

\* What holds of the empty list, and of one row more whenever it holds of a
\* list, holds of all: Good collects the lists it holds of.
LEMMA ByRows ==
    ASSUME NEW S, NEW Good, <<>> \in Good,
           \A s \in Seq(S) : \A e \in S : s \in Good => Append(s, e) \in Good
    PROVE  Seq(S) \subseteq Good
<1> DEFINE Bad == {n \in Nat : \E s \in Seq(S) : Len(s) = n /\ s \notin Good}
<1>1. SUFFICES ASSUME Bad # {} PROVE FALSE
  <2>1. \A s \in Seq(S) : Len(s) \in Nat
    OBVIOUS
  <2> QED
    BY <2>1
<1>2. PICK n \in Bad : \A m \in Bad : ~(m < n)
  <2>1. Bad \in SUBSET Nat
    OBVIOUS
  <2> HIDE DEF Bad
  <2> QED
    BY <1>1, <2>1, LeastNumber
<1>3. PICK s \in Seq(S) : Len(s) = n /\ s \notin Good
  BY <1>2
<1>4. CASE n = 0
  BY <1>3, <1>4
<1>5. CASE n # 0
  <2> DEFINE front == SubSeq(s, 1, n - 1)
  <2>1. front \in Seq(S) /\ Len(front) = n - 1 /\ n - 1 \in Nat /\ n - 1 < n /\ s[n] \in S
    BY <1>3, <1>5
  <2>2. s = Append(front, s[n])
    BY <1>3, <1>5
  <2> HIDE DEF front
  <2>3. front \in Good
    BY <1>2, <2>1
  <2> QED
    BY <1>3, <2>1, <2>2, <2>3
<1> QED
  BY <1>4, <1>5

\* What is kept is rows, of those among some.
LEMMA AmongTyped ==
    ASSUME NEW S, NEW some
    PROVE  \A rows \in Seq(S) : Among(rows, some) \in Seq(S \cap some)
<1> DEFINE Good == {rows \in Seq(S) : Among(rows, some) \in Seq(S \cap some)}
<1>1. <<>> \in Good
  <2>1. <<>> \in Seq(S) /\ <<>> \in Seq(S \cap some)
    OBVIOUS
  <2> QED
    BY <2>1, AmongEmpty
<1>2. ASSUME NEW s \in Seq(S), NEW e \in S, Among(s, some) \in Seq(S \cap some)
      PROVE  Among(Append(s, e), some) \in Seq(S \cap some)
  <2>1. Among(Append(s, e), some) = IF e \in some THEN Append(Among(s, some), e) ELSE Among(s, some)
    BY AmongAppend
  <2>2. e \in some => Append(Among(s, some), e) \in Seq(S \cap some)
    BY <1>2
  <2> QED
    BY <1>2, <2>1, <2>2
<1>3. \A s \in Seq(S) : \A e \in S : s \in Good => Append(s, e) \in Good
  BY <1>2
<1> HIDE DEF Good
<1>4. Seq(S) \subseteq Good
  BY <1>1, <1>3, ByRows
<1> QED
  BY <1>4 DEF Good

\* What is not a row makes no difference to what is kept.
LEMMA AmongSame ==
    ASSUME NEW S, NEW some, NEW others, \A e \in S : e \in some <=> e \in others
    PROVE  \A rows \in Seq(S) : Among(rows, some) = Among(rows, others)
<1> DEFINE Good == {rows \in Seq(S) : Among(rows, some) = Among(rows, others)}
<1>1. <<>> \in Good
  BY AmongEmpty
<1>2. ASSUME NEW s \in Seq(S), NEW e \in S, Among(s, some) = Among(s, others)
      PROVE  Among(Append(s, e), some) = Among(Append(s, e), others)
  <2>1. Among(Append(s, e), some) = IF e \in some THEN Append(Among(s, some), e) ELSE Among(s, some)
    BY AmongAppend
  <2>2. Among(Append(s, e), others) = IF e \in others THEN Append(Among(s, others), e) ELSE Among(s, others)
    BY AmongAppend
  <2> QED
    BY <1>2, <2>1, <2>2
<1>3. \A s \in Seq(S) : \A e \in S : s \in Good => Append(s, e) \in Good
  BY <1>2
<1> HIDE DEF Good
<1>4. Seq(S) \subseteq Good
  BY <1>1, <1>3, ByRows
<1> QED
  BY <1>4 DEF Good

\* Keeping some and then some of those keeps what is among both.
LEMMA AmongTwice ==
    ASSUME NEW S, NEW some, NEW others
    PROVE  \A rows \in Seq(S) : Among(Among(rows, some), others) = Among(rows, some \cap others)
<1> DEFINE Good == {rows \in Seq(S) : Among(Among(rows, some), others) = Among(rows, some \cap others)}
<1>1. <<>> \in Good
  BY AmongEmpty
<1>2. ASSUME NEW s \in Seq(S), NEW e \in S,
             Among(Among(s, some), others) = Among(s, some \cap others)
      PROVE  Among(Among(Append(s, e), some), others) = Among(Append(s, e), some \cap others)
  <2>1. Among(s, some) \in Seq(S)
    <3>1. Among(s, some) \in Seq(S \cap some)
      BY AmongTyped
    <3> QED
      BY <3>1
  <2>2. Among(Append(s, e), some) = IF e \in some THEN Append(Among(s, some), e) ELSE Among(s, some)
    BY AmongAppend
  <2>3. Among(Append(Among(s, some), e), others) =
          IF e \in others THEN Append(Among(Among(s, some), others), e)
          ELSE Among(Among(s, some), others)
    BY <2>1, AmongAppend
  <2>4. Among(Append(s, e), some \cap others) =
          IF e \in some \cap others THEN Append(Among(s, some \cap others), e)
          ELSE Among(s, some \cap others)
    BY AmongAppend
  <2>5. CASE e \in some
    <3>1. Among(Append(s, e), some) = Append(Among(s, some), e)
      BY <2>2, <2>5
    <3>2. Among(Append(s, e), some \cap others) =
            IF e \in others THEN Append(Among(s, some \cap others), e)
            ELSE Among(s, some \cap others)
      BY <2>4, <2>5
    <3> QED
      BY <1>2, <2>3, <3>1, <3>2
  <2>6. CASE e \notin some
    <3>1. Among(Append(s, e), some \cap others) = Among(s, some \cap others)
      BY <2>4, <2>6
    <3>2. Among(Append(s, e), some) = Among(s, some)
      BY <2>2, <2>6
    <3> QED
      BY <1>2, <3>1, <3>2
  <2> QED
    BY <2>5, <2>6
<1>3. \A s \in Seq(S) : \A e \in S : s \in Good => Append(s, e) \in Good
  <2> TAKE s \in Seq(S)
  <2> TAKE e \in S
  <2> HAVE s \in Good
  <2>1. Among(Among(Append(s, e), some), others) = Among(Append(s, e), some \cap others)
    BY <1>2
  <2>2. Append(s, e) \in Seq(S)
    OBVIOUS
  <2> QED
    BY <2>1, <2>2
<1> HIDE DEF Good
<1>4. Seq(S) \subseteq Good
  BY <1>1, <1>3, ByRows
<1> QED
  BY <1>4 DEF Good

\* Rows that are not among some add nothing to what is kept.
LEMMA AmongMore ==
    ASSUME NEW S, NEW rows \in Seq(S), NEW some
    PROVE  \A more \in Seq(S \ some) : Among(rows \o more, some) = Among(rows, some)
<1> DEFINE Good == {more \in Seq(S \ some) : Among(rows \o more, some) = Among(rows, some)}
<1>1. <<>> \in Good
  BY rows \o <<>> = rows
<1>2. ASSUME NEW s \in Seq(S \ some), NEW e \in S \ some, Among(rows \o s, some) = Among(rows, some)
      PROVE  Among(rows \o Append(s, e), some) = Among(rows, some)
  <2>1. rows \o Append(s, e) = Append(rows \o s, e)
    OBVIOUS
  <2>2. rows \o s \in Seq(S)
    <3>1. s \in Seq(S)
      OBVIOUS
    <3> QED
      BY <3>1
  <2>3. Among(Append(rows \o s, e), some) =
          IF e \in some THEN Append(Among(rows \o s, some), e) ELSE Among(rows \o s, some)
    BY <2>2, AmongAppend
  <2> QED
    BY <1>2, <2>1, <2>3
<1>3. \A s \in Seq(S \ some) : \A e \in S \ some : s \in Good => Append(s, e) \in Good
  BY <1>2
<1> HIDE DEF Good
<1>4. Seq(S \ some) \subseteq Good
  BY <1>1, <1>3, ByRows
<1> QED
  BY <1>4 DEF Good

\* A list with each row changed.
Changed(rows, change) == [i \in DOMAIN rows |-> change[rows[i]]]

\* Changing the rows and keeping some is keeping those that become them, changed.
LEMMA AmongChanged ==
    ASSUME NEW S, NEW some, NEW became, NEW change, \A e \in S : change[e] \in became <=> e \in some
    PROVE  \A rows \in Seq(S) : Among(Changed(rows, change), became) = Changed(Among(rows, some), change)
<1> DEFINE T == {change[e] : e \in S}
           Good == {rows \in Seq(S) :
                      Among(Changed(rows, change), became) = Changed(Among(rows, some), change)}
<1>1. <<>> \in Good
  <2>1. Changed(<<>>, change) = <<>>
    BY DEF Changed
  <2> QED
    BY <2>1, AmongEmpty
<1>2. ASSUME NEW s \in Seq(S), NEW e \in S
      PROVE  /\ Changed(s, change) \in Seq(T)
             /\ Changed(Append(s, e), change) = Append(Changed(s, change), change[e])
  BY DEF Changed
<1>3. ASSUME NEW s \in Seq(S), NEW e \in S,
             Among(Changed(s, change), became) = Changed(Among(s, some), change)
      PROVE  Among(Changed(Append(s, e), change), became) = Changed(Among(Append(s, e), some), change)
  <2>1. Among(s, some) \in Seq(S)
    <3>1. Among(s, some) \in Seq(S \cap some)
      BY AmongTyped
    <3> QED
      BY <3>1
  <2>2. Among(Append(Changed(s, change), change[e]), became) =
          IF change[e] \in became THEN Append(Among(Changed(s, change), became), change[e])
          ELSE Among(Changed(s, change), became)
    <3> DEFINE changed == Changed(s, change)
               last == change[e]
    <3>1. last \in T /\ changed \in Seq(T)
      BY <1>2
    <3> HIDE DEF T, changed, last
    <3>2. Among(Append(changed, last), became) =
            IF last \in became THEN Append(Among(changed, became), last) ELSE Among(changed, became)
      BY <3>1, AmongAppend
    <3> QED
      BY <3>2 DEF changed, last
  <2>3. Among(Append(s, e), some) = IF e \in some THEN Append(Among(s, some), e) ELSE Among(s, some)
    BY AmongAppend
  <2>4. Changed(Append(Among(s, some), e), change) = Append(Changed(Among(s, some), change), change[e])
    BY <1>2, <2>1
  <2>5. Changed(Append(s, e), change) = Append(Changed(s, change), change[e])
    BY <1>2
  <2> QED
    BY <1>3, <2>2, <2>3, <2>4, <2>5
<1>4. \A s \in Seq(S) : \A e \in S : s \in Good => Append(s, e) \in Good
  BY <1>3
<1> HIDE DEF Good
<1>5. Seq(S) \subseteq Good
  BY <1>1, <1>4, ByRows
<1> QED
  BY <1>5 DEF Good

\* The quantities of two lists are those of the one and then of the other.
LEMMA QuantitiesJoin ==
    ASSUME NEW S, NEW s \in Seq(S), NEW t \in Seq(S)
    PROVE  Quantities(s \o t) = Quantities(s) \o Quantities(t)
<1> DEFINE Q(e) == [item |-> e.item, quantity |-> e.quantity]
           T == {Q(e) : e \in S}
<1>1. /\ Quantities(s) = [i \in 1 .. Len(s) |-> Q(s[i])]
      /\ Quantities(t) = [i \in 1 .. Len(t) |-> Q(t[i])]
      /\ Quantities(s \o t) = [i \in 1 .. Len(s) + Len(t) |-> Q((s \o t)[i])]
  BY DEF Quantities
<1>2. \A e \in S : Q(e) \in T
  OBVIOUS
<1> HIDE DEF Q, T
<1>3. Quantities(s) \in Seq(T) /\ Len(Quantities(s)) = Len(s)
  BY <1>1, <1>2
<1>4. Quantities(t) \in Seq(T) /\ Len(Quantities(t)) = Len(t)
  BY <1>1, <1>2
<1>5. Quantities(s) \o Quantities(t) =
        [i \in 1 .. Len(s) + Len(t) |->
           IF i <= Len(s) THEN Quantities(s)[i] ELSE Quantities(t)[i - Len(s)]]
  <2> DEFINE q == Quantities(s)
             r == Quantities(t)
             n == Len(s)
             m == Len(t)
  <2>1. q \in Seq(T) /\ r \in Seq(T) /\ Len(q) = n /\ Len(r) = m /\ n \in Nat /\ m \in Nat
    BY <1>3, <1>4
  <2> HIDE DEF q, r, n, m
  <2>2. q \o r \in Seq(T) /\ Len(q \o r) = n + m
    BY <2>1, ConcatProperties
  <2>3. q \o r = [i \in 1 .. n + m |-> (q \o r)[i]]
    BY <2>2, LenProperties
  <2>4. \A i \in 1 .. n + m : (q \o r)[i] = IF i <= n THEN q[i] ELSE r[i - n]
    BY <2>1, ConcatProperties
  <2>5. q \o r = [i \in 1 .. n + m |-> IF i <= n THEN q[i] ELSE r[i - n]]
    BY <2>3, <2>4
  <2> QED
    BY <2>5 DEF q, r, n, m
<1>6. ASSUME NEW i \in 1 .. Len(s) + Len(t)
      PROVE  Q((s \o t)[i]) = IF i <= Len(s) THEN Quantities(s)[i] ELSE Quantities(t)[i - Len(s)]
  <2>1. (s \o t)[i] = IF i <= Len(s) THEN s[i] ELSE t[i - Len(s)]
    OBVIOUS
  <2>2. i <= Len(s) => Quantities(s)[i] = Q(s[i])
    BY <1>1
  <2>3. ~(i <= Len(s)) => i - Len(s) \in 1 .. Len(t)
    OBVIOUS
  <2>4. ~(i <= Len(s)) => Quantities(t)[i - Len(s)] = Q(t[i - Len(s)])
    BY <1>1, <2>3
  <2> QED
    BY <2>1, <2>2, <2>4
<1> QED
  BY <1>1, <1>5, <1>6

-----------------------------------------------------------------------------
(* What a position comes to.                                               *)

\* What the recursion of Replay says of the positions it goes through.
Replays(moves, item, at) ==
    at = [n \in 0 .. Len(moves) |->
            IF n = 0 THEN Empty
            ELSE IF moves[n].item # item THEN at[n - 1]
            ELSE Replayed(at[n - 1], moves[n])]

\* Movements that a replay cannot tell apart.
SameMove(m, n) == m.item = n.item /\ m.kind = n.kind /\ m.quantity = n.quantity /\ m.cost = n.cost

PositionShape(p) ==
    /\ p = [readable |-> p.readable, quantity |-> p.quantity, value |-> p.value]
    /\ p.readable \in BOOLEAN

\* A movement of goods that are there, at the cost it states.
Sound(position, m) ==
    \/ m.kind = "issue" /\ CanIssue(position, m.quantity) /\ m.cost = CostOf(position, m.quantity)
    \/ m.kind = "receipt" /\ CanReceive(position, m.quantity, m.cost)

\* Movements that are sound one after the other, after what was seen.
Passes(seen, moves) ==
    \A i \in DOMAIN moves : Sound(PositionIn(seen \o SubSeq(moves, 1, i - 1), moves[i].item), moves[i])

\* There are such positions.
LEMMA ReplaysExist ==
    ASSUME NEW S, NEW item
    PROVE  \A moves \in Seq(S) : \E at : Replays(moves, item, at)
<1> DEFINE Good == {moves \in Seq(S) : \E at : Replays(moves, item, at)}
<1>1. <<>> \in Good
  <2>1. Replays(<<>>, item, [n \in 0 .. 0 |-> Empty])
    BY DEF Replays
  <2> QED
    BY <2>1
<1>2. ASSUME NEW s \in Seq(S), NEW e \in S, NEW at, Replays(s, item, at)
      PROVE  \E more : Replays(Append(s, e), item, more)
  <2> DEFINE longer == Append(s, e)
             n == Len(s)
             next == IF e.item # item THEN at[n] ELSE Replayed(at[n], e)
             more == [i \in 0 .. n + 1 |-> IF i <= n THEN at[i] ELSE next]
             step(b, i) == IF i = 0 THEN Empty
                           ELSE IF longer[i].item # item THEN b[i - 1]
                           ELSE Replayed(b[i - 1], longer[i])
  <2>1. /\ longer \in Seq(S) /\ Len(longer) = n + 1 /\ n \in Nat /\ longer[n + 1] = e
        /\ \A i \in 1 .. n : longer[i] = s[i]
    OBVIOUS
  <2>2. ASSUME NEW i \in 0 .. n PROVE more[i] = step(more, i)
    <3>1. more[i] = at[i] /\ (i # 0 => more[i - 1] = at[i - 1] /\ longer[i] = s[i])
      BY <2>1
    <3>2. at[i] = IF i = 0 THEN Empty ELSE IF s[i].item # item THEN at[i - 1] ELSE Replayed(at[i - 1], s[i])
      BY <1>2 DEF Replays
    <3> HIDE DEF more, longer
    <3> QED
      BY <3>1, <3>2
  <2>3. more[n + 1] = step(more, n + 1)
    <3>1. more[n + 1] = next /\ more[n] = at[n] /\ n + 1 # 0 /\ (n + 1) - 1 = n
      BY <2>1
    <3> HIDE DEF more, longer
    <3> QED
      BY <2>1, <3>1
  <2>4. \A i \in 0 .. n + 1 : more[i] = step(more, i)
    <3>1. \A i \in 0 .. n + 1 : i \in 0 .. n \/ i = n + 1
      BY <2>1
    <3> HIDE DEF more, step, longer
    <3> QED
      BY <2>2, <2>3, <3>1
  <2>5. more = [i \in 0 .. n + 1 |-> more[i]]
    OBVIOUS
  <2> HIDE DEF more
  <2>6. more = [i \in 0 .. n + 1 |-> step(more, i)]
    BY <2>4, <2>5
  <2>7. Replays(longer, item, more)
    BY <2>1, <2>6 DEF Replays
  <2> QED
    BY <2>7
<1>3. \A s \in Seq(S) : \A e \in S : s \in Good => Append(s, e) \in Good
  BY <1>2
<1> HIDE DEF Good
<1>4. Seq(S) \subseteq Good
  BY <1>1, <1>3, ByRows
<1> QED
  BY <1>4 DEF Good

\* They are the ones Replay goes through.
LEMMA PositionReplays ==
    ASSUME NEW S, NEW moves \in Seq(S), NEW item
    PROVE  \E at : Replays(moves, item, at) /\ PositionIn(moves, item) = at[Len(moves)]
<1> DEFINE at == CHOOSE a : Replays(moves, item, a)
<1>1. Replays(moves, item, at)
  BY ReplaysExist
<1>2. Replay(moves, item) = at
  BY DEF Replay, Replays
<1> HIDE DEF at
<1> QED
  BY <1>1, <1>2 DEF PositionIn

\* Movements that are alike come to the same.
LEMMA ReplayedAlike ==
    ASSUME NEW p, NEW m, NEW n, SameMove(m, n)
    PROVE  Replayed(p, m) = Replayed(p, n)
BY DEF SameMove, Replayed

\* Logs whose first movements are alike bring an item through the same positions.
LEMMA ReplaysAgree ==
    ASSUME NEW S, NEW T, NEW rows \in Seq(S), NEW more \in Seq(T), NEW item, NEW at, NEW also,
           Replays(rows, item, at), Replays(more, item, also),
           NEW n \in Nat, n <= Len(rows), n <= Len(more), \A i \in 1 .. n : SameMove(rows[i], more[i])
    PROVE  at[n] = also[n]
<1> DEFINE Bad == {i \in 0 .. n : at[i] # also[i]}
<1>1. SUFFICES ASSUME Bad # {} PROVE FALSE
  OBVIOUS
<1>2. PICK k \in Bad : \A m \in Bad : ~(m < k)
  <2>1. Bad \in SUBSET Nat
    OBVIOUS
  <2> HIDE DEF Bad
  <2> QED
    BY <1>1, <2>1, LeastNumber
<1>3. /\ k \in 0 .. Len(rows) /\ k \in 0 .. Len(more)
      /\ k # 0 => SameMove(rows[k], more[k]) /\ k - 1 \in 0 .. n /\ k - 1 < k
  OBVIOUS
<1>4. at[k] = IF k = 0 THEN Empty ELSE IF rows[k].item # item THEN at[k - 1] ELSE Replayed(at[k - 1], rows[k])
  BY <1>3 DEF Replays
<1>5. also[k] = IF k = 0 THEN Empty ELSE IF more[k].item # item THEN also[k - 1] ELSE Replayed(also[k - 1], more[k])
  BY <1>3 DEF Replays
<1>6. k # 0 => at[k - 1] = also[k - 1]
  BY <1>2, <1>3
<1>7. k # 0 => rows[k].item = more[k].item /\ Replayed(at[k - 1], rows[k]) = Replayed(at[k - 1], more[k])
  BY <1>3, ReplayedAlike DEF SameMove
<1>8. at[k] # also[k]
  BY <1>2
<1> HIDE DEF Bad
<1>9. CASE k = 0
  BY <1>4, <1>5, <1>8, <1>9
<1>10. CASE k # 0
  BY <1>4, <1>5, <1>6, <1>7, <1>8, <1>10
<1> QED
  BY <1>9, <1>10

\* Nothing moved, nothing there.
LEMMA PositionEmpty ==
    ASSUME NEW item
    PROVE  PositionIn(<<>>, item) = Empty
<1>1. PICK at : Replays(<<>>, item, at) /\ PositionIn(<<>>, item) = at[Len(<<>>)]
  BY <<>> \in Seq({}), PositionReplays
<1> QED
  BY <1>1 DEF Replays

\* One movement more.
LEMMA PositionAppend ==
    ASSUME NEW S, NEW moves \in Seq(S), NEW m \in S, NEW item
    PROVE  PositionIn(Append(moves, m), item) =
             IF m.item # item THEN PositionIn(moves, item) ELSE Replayed(PositionIn(moves, item), m)
<1> DEFINE more == Append(moves, m)
           n == Len(moves)
<1>1. /\ more \in Seq(S) /\ Len(more) = n + 1 /\ n \in Nat /\ more[n + 1] = m
      /\ \A i \in 1 .. n : moves[i] = more[i]
  OBVIOUS
<1> HIDE DEF more
<1>2. PICK at : Replays(moves, item, at) /\ PositionIn(moves, item) = at[n]
  BY PositionReplays
<1>3. PICK also : Replays(more, item, also) /\ PositionIn(more, item) = also[n + 1]
  BY <1>1, PositionReplays
<1>4. at[n] = also[n]
  <2>1. \A i \in 1 .. n : SameMove(moves[i], more[i])
    BY <1>1 DEF SameMove
  <2> QED
    BY <1>1, <1>2, <1>3, <2>1, ReplaysAgree
<1>5. also[n + 1] = IF m.item # item THEN also[n] ELSE Replayed(also[n], m)
  <2>1. n + 1 \in 0 .. Len(more) /\ n + 1 # 0 /\ (n + 1) - 1 = n
    BY <1>1
  <2> QED
    BY <1>1, <1>3, <2>1 DEF Replays
<1> QED
  BY <1>2, <1>3, <1>4, <1>5 DEF more

\* Logs that are alike leave every item in one place.
LEMMA PositionAlike ==
    ASSUME NEW S, NEW T, NEW rows \in Seq(S), NEW more \in Seq(T), NEW item,
           Len(rows) = Len(more), \A i \in 1 .. Len(rows) : SameMove(rows[i], more[i])
    PROVE  PositionIn(rows, item) = PositionIn(more, item)
<1>1. PICK at : Replays(rows, item, at) /\ PositionIn(rows, item) = at[Len(rows)]
  BY PositionReplays
<1>2. PICK also : Replays(more, item, also) /\ PositionIn(more, item) = also[Len(more)]
  BY PositionReplays
<1>3. Len(rows) \in Nat
  OBVIOUS
<1>4. at[Len(rows)] = also[Len(rows)]
  BY <1>1, <1>2, <1>3, ReplaysAgree
<1> QED
  BY <1>1, <1>2, <1>4

\* A record with its other two fields changed.
LEMMA TwoChanged ==
    ASSUME NEW b, NEW q, NEW v, NEW x, NEW y, NEW p, p = [readable |-> b, quantity |-> q, value |-> v]
    PROVE  [p EXCEPT !.quantity = x, !.value = y] = [readable |-> b, quantity |-> x, value |-> y]
<1> DEFINE half == [p EXCEPT !.quantity = x]
<1>1. half = [readable |-> b, quantity |-> x, value |-> v]
  OBVIOUS
<1>2. [half EXCEPT !.value = y] = [readable |-> b, quantity |-> x, value |-> y]
  <2> HIDE DEF half
  <2> QED
    BY <1>1
<1>3. [p EXCEPT !.quantity = x, !.value = y] = [half EXCEPT !.value = y]
  OBVIOUS
<1> QED
  BY <1>2, <1>3

\* A movement leaves a position a position, and a sound one leaves it readable.
LEMMA ReplayedFacts ==
    ASSUME NEW p, PositionShape(p), NEW m
    PROVE  /\ PositionShape(Replayed(p, m))
           /\ p.readable /\ Sound(p, m) => Replayed(p, m).readable
<1> DEFINE received == Receive(p, m.quantity, m.cost)
           issued   == Issue(p, m.quantity)
           lost     == Unreadable(p)
<1>1. PICK b, q, v : b \in BOOLEAN /\ p = [readable |-> b, quantity |-> q, value |-> v]
  BY DEF PositionShape
<1>2. \E x, y : received = [readable |-> b, quantity |-> x, value |-> y]
  <2> DEFINE x == p.quantity + m.quantity
             y == p.value + m.cost
  <2>1. received = [p EXCEPT !.quantity = x, !.value = y]
    BY DEF Receive
  <2> HIDE DEF x, y, received
  <2> QED
    BY <1>1, <2>1, TwoChanged
<1>3. \E x, y : issued = [readable |-> b, quantity |-> x, value |-> y]
  <2> DEFINE x == p.quantity - m.quantity
             y == IF m.quantity = p.quantity THEN 0 ELSE p.value - CostOf(p, m.quantity)
  <2>1. issued = [p EXCEPT !.quantity = x, !.value = y]
    BY DEF Issue
  <2> HIDE DEF x, y, issued
  <2> QED
    BY <1>1, <2>1, TwoChanged
<1>4. lost = [readable |-> FALSE, quantity |-> q, value |-> v]
  <2> DEFINE no == FALSE
  <2>1. lost = [p EXCEPT !.readable = no]
    BY DEF Unreadable
  <2> HIDE DEF no, lost
  <2>2. lost = [readable |-> no, quantity |-> q, value |-> v]
    BY <1>1, <2>1
  <2> QED
    BY <2>2 DEF no
<1>5. /\ PositionShape(received) /\ PositionShape(issued) /\ PositionShape(lost)
      /\ received.readable = p.readable /\ issued.readable = p.readable
  <2>1. ASSUME NEW c \in BOOLEAN, NEW r, NEW w, NEW made, made = [readable |-> c, quantity |-> r, value |-> w]
        PROVE  PositionShape(made) /\ made.readable = c
    BY <2>1 DEF PositionShape
  <2>2. p.readable = b
    BY <1>1
  <2>3. PositionShape(received) /\ received.readable = b
    BY <1>1, <1>2, <2>1
  <2>4. PositionShape(issued) /\ issued.readable = b
    BY <1>1, <1>3, <2>1
  <2>5. PositionShape(lost)
    BY <1>4, <2>1
  <2> QED
    BY <2>2, <2>3, <2>4, <2>5
<1>6. Replayed(p, m) \in {received, issued, lost}
  BY DEF Replayed
<1>7. CASE m.kind = "issue"
  <2>1. Sound(p, m) => Replayed(p, m) = issued
    BY <1>7 DEF Sound, Replayed
  <2> HIDE DEF received, issued, lost
  <2> QED
    BY <1>1, <1>5, <1>6, <2>1
<1>8. CASE m.kind # "issue"
  <2>1. Sound(p, m) => Replayed(p, m) = received
    BY <1>8 DEF Sound, Replayed
  <2> HIDE DEF received, issued, lost
  <2> QED
    BY <1>1, <1>5, <1>6, <2>1
<1> QED
  BY <1>7, <1>8

\* Where a log leaves an item is a position.
LEMMA PositionShaped ==
    ASSUME NEW S, NEW item
    PROVE  \A moves \in Seq(S) : PositionShape(PositionIn(moves, item))
<1> DEFINE Good == {moves \in Seq(S) : PositionShape(PositionIn(moves, item))}
<1>1. <<>> \in Good
  <2>1. PositionShape(Empty)
    BY DEF PositionShape, Empty
  <2> QED
    BY <2>1, PositionEmpty
<1>2. ASSUME NEW s \in Seq(S), NEW e \in S, PositionShape(PositionIn(s, item))
      PROVE  PositionShape(PositionIn(Append(s, e), item))
  <2>1. PositionIn(Append(s, e), item) =
          IF e.item # item THEN PositionIn(s, item) ELSE Replayed(PositionIn(s, item), e)
    BY PositionAppend
  <2>2. PositionShape(Replayed(PositionIn(s, item), e))
    BY <1>2, ReplayedFacts
  <2> QED
    BY <1>2, <2>1, <2>2
<1>3. \A s \in Seq(S) : \A e \in S : s \in Good => Append(s, e) \in Good
  BY <1>2
<1> HIDE DEF Good
<1>4. Seq(S) \subseteq Good
  BY <1>1, <1>3, ByRows
<1> QED
  BY <1>4 DEF Good

\* A sound movement leaves every item readable.
LEMMA SoundReadable ==
    ASSUME NEW S, NEW moves \in Seq(S), NEW m \in S, NEW item,
           PositionIn(moves, item).readable, Sound(PositionIn(moves, m.item), m)
    PROVE  PositionIn(Append(moves, m), item).readable
<1>1. PositionIn(Append(moves, m), item) =
        IF m.item # item THEN PositionIn(moves, item) ELSE Replayed(PositionIn(moves, item), m)
  BY PositionAppend
<1>2. PositionShape(PositionIn(moves, item))
  BY PositionShaped
<1>3. m.item = item => Replayed(PositionIn(moves, item), m).readable
  BY <1>2, ReplayedFacts
<1> QED
  BY <1>1, <1>3

\* And so do movements that pass.
LEMMA PassesReadable ==
    ASSUME NEW S, NEW seen \in Seq(S), NEW moves \in Seq(S), NEW item,
           Passes(seen, moves), PositionIn(seen, item).readable
    PROVE  PositionIn(seen \o moves, item).readable
<1> DEFINE n == Len(moves)
           upto(k) == seen \o SubSeq(moves, 1, k)
           Bad == {k \in 0 .. n : ~PositionIn(upto(k), item).readable}
<1>0. n \in Nat /\ DOMAIN moves = 1 .. n
  OBVIOUS
<1>1. upto(0) = seen
  <2>1. SubSeq(moves, 1, 0) = <<>> /\ seen \o <<>> = seen
    OBVIOUS
  <2> QED
    BY <2>1
<1>2. upto(n) = seen \o moves
  <2>1. SubSeq(moves, 1, n) = moves
    OBVIOUS
  <2> QED
    BY <2>1
<1>3. ASSUME NEW k \in 1 .. n
      PROVE  upto(k) = Append(upto(k - 1), moves[k]) /\ upto(k - 1) \in Seq(S) /\ moves[k] \in S
  <2> DEFINE front == SubSeq(moves, 1, k - 1)
             m == moves[k]
  <2>1. front \in Seq(S) /\ m \in S /\ SubSeq(moves, 1, k) = Append(front, m)
    BY <1>0
  <2> HIDE DEF front, m
  <2>2. seen \o Append(front, m) = Append(seen \o front, m) /\ seen \o front \in Seq(S)
    BY <2>1
  <2> QED
    BY <2>1, <2>2 DEF front, m
<1>4. ASSUME NEW k \in 1 .. n, PositionIn(upto(k - 1), item).readable
      PROVE  PositionIn(upto(k), item).readable
  <2>1. Sound(PositionIn(upto(k - 1), moves[k].item), moves[k])
    BY <1>0 DEF Passes
  <2> HIDE DEF upto
  <2> QED
    BY <1>3, <1>4, <2>1, SoundReadable
<1>5. SUFFICES ASSUME Bad # {} PROVE FALSE
  <2>1. n \in 0 .. n
    BY <1>0
  <2> QED
    BY <1>2, <2>1
<1>6. PICK k \in Bad : \A m \in Bad : ~(m < k)
  <2>1. Bad \in SUBSET Nat
    OBVIOUS
  <2> HIDE DEF Bad
  <2> QED
    BY <1>5, <2>1, LeastNumber
<1> HIDE DEF upto, n
<1>7. k # 0
  BY <1>1
<1>8. k \in 1 .. n /\ k - 1 \in 0 .. n /\ k - 1 < k
  BY <1>0, <1>7
<1>9. PositionIn(upto(k - 1), item).readable
  BY <1>6, <1>8
<1> QED
  BY <1>4, <1>6, <1>8, <1>9

-----------------------------------------------------------------------------
(* The assumptions on the constants hold throughout what follows.          *)

USE DaysAssumption, OpeningSeqAssumption, NoneAssumption, MaxCallsAssumption,
    PostingsAssumption, MovesAssumption

-----------------------------------------------------------------------------
(* The inductive invariant.                                                *)

\* The labels a caller passes before it is admitted, and after it has all its
\* numbers.
Unnumbered == {"idle", "price", "locks", "costlock", "rules", "record"}
Numbered   == {"check", "voucher", "key", "cost", "stock", "document", "commit"}

\* What a caller holds at each label.
Labelled(c) ==
    /\ pc[c] = "price" => call[c] \in Postings \cup Moves
    /\ pc[c] \notin {"idle", "price", "record"} => call[c] \in Postings
    /\ pc[c] \in Unnumbered => numbers[c] = <<>>
    /\ pc[c] \in {"admit", "ensure", "reserve"} => Len(numbers[c]) < Len(Vouchers(call[c]))
    /\ pc[c] = "advance" => Len(numbers[c]) \in 1..Len(Vouchers(call[c]))
    /\ pc[c] \in Numbered => Len(numbers[c]) = Len(Vouchers(call[c]))

\* The place in its book a caller's i-th number is.
Book(c, i) == Vouchers(call[c])[i].book

\* The last number a caller has read, before it has moved the counter on.
Reading(c, i) == pc[c] = "advance" /\ i = Len(numbers[c])

\* Every number is below its book's counter, but for the one just read, which
\* the counter still stands at.
BelowCounter(c) ==
    \A i \in DOMAIN numbers[c] :
        IF Reading(c, i) THEN numbers[c][i] >= nextSeq[Book(c, i)]
        ELSE numbers[c][i] < nextSeq[Book(c, i)]

\* No two numbers of one book are the same, of one caller or of two.
Distinct(c, d) ==
    \A i \in DOMAIN numbers[c], j \in DOMAIN numbers[d] :
        (<<c, i>> # <<d, j>> /\ Book(c, i) = Book(d, j)) => numbers[c][i] # numbers[d][j]

\* Whoever has read a counter has it to itself.
Exclusive(c, d) ==
    (c # d /\ pc[c] = "advance" /\ pc[d] \in {"reserve", "advance"})
        => Admitting(c).book # Admitting(d).book

\* No number taken is one a voucher has.
Unused(c) ==
    \A i \in DOMAIN numbers[c], v \in vouchers :
        v.book = Book(c, i) => v.seq # numbers[c][i]

Seated ==
    /\ \A v \in vouchers : v.book \in Books /\ v.seq < nextSeq[v.book]
    /\ \A v, w \in vouchers : v.book = w.book /\ v.seq = w.seq => v = w

\* A caller that has inserted its key is the only one that has, and no
\* committed entry has it.
HoldsKey(c) == pc[c] \in {"cost", "stock", "document", "commit"} /\ call[c].key # None

KeyIsMine(c) ==
    HoldsKey(c) =>
        /\ \A k \in keys : k.key # call[c].key
        /\ \A d \in Callers \ {c} : HoldsKey(d) => call[d].key # call[c].key

NumberRuns ==
    /\ \A c \in Callers : BelowCounter(c) /\ Unused(c)
    /\ \A c, d \in Callers : Distinct(c, d) /\ Exclusive(c, d)
    /\ Seated

IInv ==
    /\ TypeOK
    /\ \A c \in Callers : Labelled(c) /\ KeyIsMine(c)
    /\ NumberRuns
    /\ OneEntryPerRequest

-----------------------------------------------------------------------------
(* What a step of one caller leaves of the others.                         *)

\* A posting has one voucher or two, and the second is its cost.
LEMMA VoucherFacts ==
    ASSUME NEW p \in Postings
    PROVE  /\ Vouchers(p) \in Seq(Voucher)
           /\ Len(Vouchers(p)) = IF p.cost = None THEN 1 ELSE 2
           /\ Vouchers(p)[1] = p.voucher
           /\ p.cost # None => Vouchers(p)[2] = p.cost
           /\ \A i \in DOMAIN Vouchers(p) : Vouchers(p)[i] \in Voucher
<1>1. p.voucher \in Voucher /\ p.cost \in Voucher \cup {None}
  OBVIOUS
<1> QED
  BY <1>1 DEF Vouchers

\* A caller in the middle of its numbers admits one of its own vouchers.
LEMMA AdmittingFacts ==
    ASSUME TypeOK, NEW c \in Callers, Labelled(c),
           pc[c] \in {"admit", "ensure", "reserve", "advance"}
    PROVE  /\ call[c] \in Postings
           /\ numbers[c] \in Seq(Nat \ {0}) /\ Len(numbers[c]) \in Nat
           /\ Admitting(c) \in Voucher
           /\ pc[c] # "advance" => /\ Len(numbers[c]) + 1 \in DOMAIN Vouchers(call[c])
                                   /\ Admitting(c) = Vouchers(call[c])[Len(numbers[c]) + 1]
           /\ pc[c] = "advance" => /\ Len(numbers[c]) \in DOMAIN numbers[c]
                                   /\ Len(numbers[c]) \in DOMAIN Vouchers(call[c])
                                   /\ Admitting(c) = Vouchers(call[c])[Len(numbers[c])]
<1>1. call[c] \in Postings /\ numbers[c] \in Seq(Nat \ {0}) /\ Len(numbers[c]) \in Nat
  BY DEF Labelled, TypeOK
<1>2. Vouchers(call[c]) \in Seq(Voucher) /\ Len(Vouchers(call[c])) \in Nat
      /\ \A i \in DOMAIN Vouchers(call[c]) : Vouchers(call[c])[i] \in Voucher
  BY <1>1, VoucherFacts
<1> QED
  BY <1>1, <1>2 DEF Labelled, Admitting

\* The vouchers a caller with all its numbers writes.
LEMMA WrittenFacts ==
    ASSUME TypeOK, NEW c \in Callers, Labelled(c), pc[c] \in Numbered
    PROVE  /\ call[c] \in Postings
           /\ DOMAIN numbers[c] = DOMAIN Vouchers(call[c])
           /\ \A i \in DOMAIN Vouchers(call[c]) :
                 /\ Vouchers(call[c])[i] \in Voucher
                 /\ numbers[c][i] \in Nat \ {0}
                 /\ Written(c, i).book = Book(c, i) /\ Written(c, i).book \in Books
                 /\ Written(c, i).day = Vouchers(call[c])[i].day /\ Written(c, i).day \in Days
                 /\ Written(c, i).seq = numbers[c][i]
<1>1. call[c] \in Postings /\ Len(numbers[c]) = Len(Vouchers(call[c]))
      /\ numbers[c] \in Seq(Nat \ {0})
  BY DEF Labelled, TypeOK, Numbered
<1>2. Vouchers(call[c]) \in Seq(Voucher)
      /\ \A i \in DOMAIN Vouchers(call[c]) : Vouchers(call[c])[i] \in Voucher
  BY <1>1, VoucherFacts
<1>3. DOMAIN numbers[c] = DOMAIN Vouchers(call[c])
  BY <1>1, <1>2
<1>4. ASSUME NEW i \in DOMAIN Vouchers(call[c])
      PROVE  numbers[c][i] \in Nat \ {0} /\ Vouchers(call[c])[i] \in Voucher
  BY <1>1, <1>2, <1>3, <1>4
<1> QED
  BY <1>1, <1>3, <1>4 DEF Written, Book, Voucher

\* The others keep their place, their call and their numbers.
Alone(c) ==
    \A d \in Callers \ {c} :
        pc'[d] = pc[d] /\ call'[d] = call[d] /\ numbers'[d] = numbers[d]

\* A caller's step is its own.
LEMMA StepAlone ==
    ASSUME TypeOK, NEW c \in Callers, Ask(c) \/ Step(c) \/ Fail(c)
    PROVE  Alone(c)
<1> USE DEF TypeOK, Alone, Goto, Answer, Refuse, Proceed, held
<1>1. CASE Ask(c)
  BY <1>1 DEF Ask
<1>2. CASE Fail(c)
  BY <1>2 DEF Fail
<1>3. CASE Price(c) \/ CheckLock(c) \/ CheckCostLock(c) \/ LoadRules(c) \/ Admit(c)
  BY <1>3 DEF Price, CheckLock, CheckCostLock, LoadRules, Admit
<1>4. CASE EnsureSequence(c) \/ ReserveSequence(c) \/ SequenceDeadlock(c) \/ AdvanceSequence(c)
  BY <1>4 DEF EnsureSequence, ReserveSequence, SequenceDeadlock, AdvanceSequence
<1>5. CASE CheckStock(c) \/ SaveEntry(c) \/ SaveKey(c) \/ SaveCost(c)
  BY <1>5 DEF CheckStock, SaveEntry, SaveKey, SaveCost, SaveVoucher
<1>6. CASE WriteMovement(c) \/ RecordDocument(c) \/ Commit(c) \/ RecordMovement(c)
  BY <1>6 DEF WriteMovement, RecordDocument, Commit, RecordMovement
<1> QED
  BY <1>1, <1>2, <1>3, <1>4, <1>5, <1>6 DEF Step

-----------------------------------------------------------------------------
(* The shape of the state.                                                 *)

\* Giving an answer leaves the shape of what it resets.
LEMMA AnswerTypeOK ==
    ASSUME TypeOK, NEW c \in Callers, Answer(c),
           UNCHANGED <<calendar, nextSeq, books, calls>>
    PROVE  TypeOK'
BY DEF TypeOK, Answer, Goto, Labels, calendar, books

\* Every step keeps the shape of the state.
LEMMA NextTypeOK ==
    ASSUME TypeOK, \A c \in Callers : Labelled(c), [Next]_vars
    PROVE  TypeOK'
<1> USE DEF calendar, books, held
<1>1. ASSUME NEW c \in Callers, Ask(c) PROVE TypeOK'
  BY <1>1 DEF Ask, TypeOK, Goto, Labels
<1>2. ASSUME NEW c \in Callers, Refuse(c), UNCHANGED <<calendar, calls>> PROVE TypeOK'
  BY <1>2, AnswerTypeOK DEF Refuse
<1>3. ASSUME NEW c \in Callers, NEW l \in Labels, Proceed(c, l), UNCHANGED <<calendar, calls>>
      PROVE  TypeOK'
  BY <1>3 DEF Proceed, TypeOK, Goto
<1>4. ASSUME NEW c \in Callers, Step(c) PROVE TypeOK'
  <2>0. UNCHANGED <<calendar, calls>>
    BY <1>4 DEF Step
  <2>1. CASE Price(c)
    BY <2>0, <2>1, <1>2 DEF Price, TypeOK, Goto, Labels
  <2>2. CASE CheckLock(c) \/ CheckCostLock(c) \/ Admit(c) \/ SequenceDeadlock(c)
             \/ EnsureSequence(c) \/ SaveKey(c) \/ RecordDocument(c)
    BY <2>0, <2>2, <1>2, <1>3
       DEF CheckLock, CheckCostLock, Admit, SequenceDeadlock, EnsureSequence, SaveKey,
           RecordDocument, Labels
  <2>3. CASE LoadRules(c)
    BY <2>0, <2>3 DEF LoadRules, TypeOK, Goto, Labels
  <2>4. CASE ReserveSequence(c)
    <3> DEFINE next == IF nextSeq[Admitting(c).book] = 0 THEN 1 ELSE nextSeq[Admitting(c).book]
    <3>1. Admitting(c) \in Voucher /\ numbers[c] \in Seq(Nat \ {0})
      BY <2>4, AdmittingFacts DEF ReserveSequence
    <3>2. next \in Nat \ {0}
      BY <3>1 DEF TypeOK, Voucher
    <3>3. numbers' = [numbers EXCEPT ![c] = Append(@, next)]
      BY <2>4 DEF ReserveSequence
    <3>4. Append(numbers[c], next) \in Seq(Nat \ {0})
      BY <3>1, <3>2
    <3>5. numbers' \in [Callers -> Seq(Nat \ {0})]
      BY <3>3, <3>4 DEF TypeOK
    <3> QED
      BY <2>0, <2>4, <3>5 DEF ReserveSequence, TypeOK, Goto, Labels
  <2>5. CASE AdvanceSequence(c)
    <3>1. Admitting(c).book \in Books /\ numbers[c][Len(numbers[c])] \in Nat
      BY <2>5, AdmittingFacts DEF AdvanceSequence, Voucher
    <3> QED
      BY <2>0, <2>5, <3>1 DEF AdvanceSequence, TypeOK, Goto, Labels
  <2>6. CASE CheckStock(c)
    BY <2>0, <2>6, <1>2 DEF CheckStock, TypeOK, Goto, Labels
  <2>7. CASE SaveEntry(c) \/ SaveCost(c)
    BY <2>0, <2>7, <1>2, <1>3 DEF SaveEntry, SaveCost, SaveVoucher, Labels
  <2>8. CASE WriteMovement(c)
    BY <2>0, <2>8 DEF WriteMovement, TypeOK, Goto, Labels
  <2>9. CASE Commit(c)
    <3>1. pc[c] \in Numbered
      BY <2>9 DEF Commit, Numbered
    <3>2. \A v \in vouchers' : v.book \in Books /\ v.day \in Days /\ v.seq \in Nat \ {0}
      BY <2>9, <3>1, WrittenFacts DEF Commit, TypeOK
    <3>3. /\ \A k \in keys' : \E p \in Postings : k = [key |-> p.key, voucher |-> p.voucher.id]
          /\ documented' \subseteq {p.voucher.id : p \in Postings}
      BY <2>9, <3>1, WrittenFacts DEF Commit, TypeOK
    <3>4. Answer(c) /\ nextSeq' = nextSeq
      BY <2>9 DEF Commit
    <3>5. /\ pc' \in [Callers -> Labels] /\ rules' \in [Callers -> SUBSET Days]
          /\ call' \in [Callers -> Postings \cup Moves \cup {NoCall}]
          /\ numbers' \in [Callers -> Seq(Nat \ {0})]
      BY <3>4 DEF TypeOK, Answer, Goto, Labels
    <3> QED
      BY <2>0, <3>2, <3>3, <3>4, <3>5 DEF TypeOK
  <2>10. CASE RecordMovement(c)
    BY <2>0, <2>10, <1>2, AnswerTypeOK DEF RecordMovement
  <2> QED
    BY <1>4, <2>1, <2>2, <2>3, <2>4, <2>5, <2>6, <2>7, <2>8, <2>9, <2>10 DEF Step
<1>5. CASE Calendar
  BY <1>5 DEF Calendar, LockPeriod, CloseMonth, ReopenMonth, TypeOK
<1>6. ASSUME NEW c \in Callers, Fail(c), UNCHANGED <<calendar, calls>> PROVE TypeOK'
  BY <1>2, <1>6 DEF Fail
<1>7. CASE UNCHANGED vars
  BY <1>7 DEF vars, TypeOK
<1> QED
  BY <1>1, <1>4, <1>5, <1>6, <1>7 DEF Next

-----------------------------------------------------------------------------
(* What a caller holds at each label.                                      *)

\* Every step leaves every caller with what its label says.
LEMMA NextLabelled ==
    ASSUME TypeOK, \A c \in Callers : Labelled(c), [Next]_vars
    PROVE  \A c \in Callers : Labelled(c)'
<1> USE DEF held, Goto, Unnumbered, Numbered
<1>1. ASSUME NEW c \in Callers, Alone(c), Labelled(c)' PROVE \A d \in Callers : Labelled(d)'
  BY <1>1, SMTT(20) DEF Alone, Labelled, Vouchers
<1>2. ASSUME NEW c \in Callers, Answer(c) PROVE Labelled(c)'
  BY <1>2 DEF Answer, Labelled, TypeOK
<1>3. ASSUME NEW c \in Callers, Refuse(c) PROVE Labelled(c)'
  BY <1>2, <1>3 DEF Refuse
<1>4. ASSUME NEW c \in Callers, NEW l, Proceed(c, l)
      PROVE  pc'[c] = l /\ numbers'[c] = numbers[c] /\ call'[c] = call[c]
             /\ Vouchers(call[c])' = Vouchers(call[c])
  BY <1>4 DEF Proceed, TypeOK, Vouchers
<1>5. ASSUME NEW c \in Callers, Ask(c) PROVE Labelled(c)'
  BY <1>5 DEF Ask, Labelled, TypeOK
<1>6. ASSUME NEW c \in Callers, Step(c) PROVE Labelled(c)'
  <2>0. Labelled(c)
    OBVIOUS
  <2>1. CASE Price(c)
    BY <2>0, <2>1, <1>3 DEF Price, Labelled, TypeOK
  <2>2. CASE CheckLock(c) \/ CheckCostLock(c)
    BY <2>0, <2>2, <1>3, <1>4 DEF CheckLock, CheckCostLock, Labelled
  <2>3. CASE LoadRules(c)
    <3>1. call[c] \in Postings /\ numbers[c] = <<>>
      BY <2>0, <2>3 DEF LoadRules, Labelled
    <3>2. Len(Vouchers(call[c])) > 0
      BY <3>1, VoucherFacts
    <3> QED
      BY <2>3, <3>1, <3>2 DEF LoadRules, Labelled, TypeOK, Vouchers
  <2>4. CASE Admit(c) \/ EnsureSequence(c) \/ SequenceDeadlock(c)
    BY <2>0, <2>4, <1>3, <1>4 DEF Admit, EnsureSequence, SequenceDeadlock, Labelled
  <2>5. CASE ReserveSequence(c)
    <3>1. /\ Len(numbers'[c]) = Len(numbers[c]) + 1 /\ Len(numbers[c]) \in Nat
          /\ pc'[c] = "advance" /\ call'[c] = call[c]
      BY <2>0, <2>5, AdmittingFacts DEF ReserveSequence, TypeOK
    <3>2. call[c] \in Postings /\ Len(numbers[c]) < Len(Vouchers(call[c]))
      BY <2>0, <2>5 DEF ReserveSequence, Labelled
    <3>3. Len(Vouchers(call[c])) \in Nat
      BY <3>2, VoucherFacts
    <3> QED
      BY <3>1, <3>2, <3>3 DEF Labelled, Vouchers
  <2>6. CASE AdvanceSequence(c)
    <3>1. /\ numbers'[c] = numbers[c] /\ call'[c] = call[c]
          /\ pc'[c] = IF Len(numbers[c]) < Len(Vouchers(call[c])) THEN "admit" ELSE "check"
      BY <2>6 DEF AdvanceSequence, TypeOK
    <3>2. call[c] \in Postings /\ Len(numbers[c]) \in 1..Len(Vouchers(call[c]))
      BY <2>0, <2>6 DEF AdvanceSequence, Labelled
    <3>3. Len(Vouchers(call[c])) \in Nat
      BY <3>2, VoucherFacts
    <3> QED
      BY <3>1, <3>2, <3>3 DEF Labelled, Vouchers
  <2>7. CASE CheckStock(c)
    BY <2>0, <2>7, <1>3, ZenonT(60) DEF CheckStock, Labelled, TypeOK, Vouchers
  <2>8. CASE SaveEntry(c) \/ SaveKey(c) \/ SaveCost(c) \/ RecordDocument(c)
    BY <2>0, <2>8, <1>3, <1>4
       DEF SaveEntry, SaveKey, SaveCost, SaveVoucher, RecordDocument, Labelled
  <2>9. CASE WriteMovement(c)
    BY <2>0, <2>9 DEF WriteMovement, Labelled, TypeOK, Vouchers
  <2>10. CASE Commit(c) \/ RecordMovement(c)
    BY <2>10, <1>2, <1>3 DEF Commit, RecordMovement
  <2> QED
    BY <1>6, <2>1, <2>2, <2>3, <2>4, <2>5, <2>6, <2>7, <2>8, <2>9, <2>10 DEF Step
<1>7. CASE Calendar
  BY <1>7 DEF Calendar, Labelled, Vouchers
<1>8. ASSUME NEW c \in Callers, Fail(c) PROVE Labelled(c)'
  BY <1>3, <1>8 DEF Fail
<1>9. CASE UNCHANGED vars
  BY <1>9 DEF vars, Labelled, Vouchers
<1> QED
  BY <1>1, <1>5, <1>6, <1>7, <1>8, <1>9, StepAlone DEF Next

-----------------------------------------------------------------------------
(* The runs of the books.                                                  *)

\* What a caller that did not move holds, it still holds, in the same place.
LEMMA AloneFacts ==
    ASSUME NEW c \in Callers, Alone(c), NEW d \in Callers \ {c}
    PROVE  /\ numbers'[d] = numbers[d] /\ pc'[d] = pc[d]
           /\ Admitting(d)' = Admitting(d)
           /\ \A i : Book(d, i)' = Book(d, i) /\ Reading(d, i)' = Reading(d, i)
BY DEF Alone, Admitting, Book, Reading, Vouchers

\* A step that takes no number and moves no counter, and does not leave its
\* caller reading one, keeps the runs.
LEMMA RunsKept ==
    ASSUME TypeOK, NumberRuns, NEW c \in Callers, Alone(c),
           nextSeq' = nextSeq, vouchers' = vouchers, pc'[c] # "advance",
           \/ numbers'[c] = <<>>
           \/ numbers'[c] = numbers[c] /\ call'[c] = call[c] /\ pc[c] # "advance",
           pc'[c] = "reserve" =>
               \A d \in Callers \ {c} : pc[d] = "advance" => Admitting(d).book # Admitting(c)'.book
    PROVE  NumberRuns'
<1>1. ASSUME NEW d \in Callers
      PROVE  \A i \in DOMAIN numbers'[d] :
                /\ i \in DOMAIN numbers[d] /\ numbers'[d][i] = numbers[d][i]
                /\ Book(d, i)' = Book(d, i) /\ Reading(d, i)' = Reading(d, i)
  <2>1. CASE d # c
    BY <2>1, AloneFacts
  <2>2. CASE d = c
    BY <2>2 DEF Book, Reading, Vouchers
  <2> QED
    BY <2>1, <2>2
<1>2. \A d \in Callers : BelowCounter(d)'
  BY <1>1 DEF NumberRuns, BelowCounter
<1>3. \A d \in Callers : Unused(d)'
  BY <1>1 DEF NumberRuns, Unused
<1>4. ASSUME NEW d \in Callers, NEW e \in Callers PROVE Distinct(d, e)'
  BY <1>1 DEF NumberRuns, Distinct
<1>5. ASSUME NEW d \in Callers, NEW e \in Callers PROVE Exclusive(d, e)'
  <2>1. CASE d # c /\ e # c
    BY <2>1, AloneFacts DEF NumberRuns, Exclusive
  <2>2. CASE d # c /\ e = c
    BY <2>2, AloneFacts DEF Exclusive
  <2> QED
    BY <2>1, <2>2 DEF Exclusive
<1>6. Seated'
  BY DEF NumberRuns, Seated
<1> QED
  BY <1>2, <1>3, <1>4, <1>5, <1>6 DEF NumberRuns

\* Reading a counter one has to oneself gives a number nobody has.
LEMMA RunsReserved ==
    ASSUME TypeOK, NumberRuns, \A d \in Callers : Labelled(d),
           NEW c \in Callers, Alone(c), ReserveSequence(c), vouchers' = vouchers
    PROVE  NumberRuns'
<1> DEFINE b    == Admitting(c).book
           next == IF nextSeq[b] = 0 THEN 1 ELSE nextSeq[b]
           last == Len(numbers[c]) + 1
<1>1. /\ call[c] \in Postings /\ numbers[c] \in Seq(Nat \ {0}) /\ last \in Nat
      /\ b \in Books /\ Book(c, last) = b /\ pc[c] = "reserve"
  BY AdmittingFacts DEF ReserveSequence, Book, Voucher
<1>2. next \in Nat /\ next >= nextSeq[b] /\ next # 0 /\ nextSeq[b] \in Nat
  BY <1>1 DEF TypeOK
<1>3. /\ numbers'[c] = Append(numbers[c], next) /\ pc'[c] = "advance"
      /\ call'[c] = call[c] /\ nextSeq' = nextSeq
  BY DEF ReserveSequence, Goto, TypeOK
<1>4. /\ DOMAIN numbers'[c] = DOMAIN numbers[c] \cup {last}
      /\ numbers'[c][last] = next /\ Len(numbers'[c]) = last
      /\ last \notin DOMAIN numbers[c]
      /\ \A i \in DOMAIN numbers[c] : numbers'[c][i] = numbers[c][i]
  BY <1>1, <1>2, <1>3
<1>5. /\ \A i : Book(c, i)' = Book(c, i) /\ (Reading(c, i)' <=> i = last)
      /\ Admitting(c)' = Admitting(c) /\ \A i : ~ Reading(c, i)
  BY <1>1, <1>3, <1>4 DEF Book, Reading, Admitting, Vouchers
<1>6. ASSUME NEW d \in Callers, d # c, pc[d] \in {"reserve", "advance"}
      PROVE  Admitting(d).book # b
  BY <1>6 DEF ReserveSequence, Sharing
<1>7. ASSUME NEW d \in Callers, NEW i \in DOMAIN numbers[d], Book(d, i) = b
      PROVE  numbers[d][i] \in Nat /\ numbers[d][i] < next
  <2>1. ~ Reading(d, i)
    <3>1. CASE d = c
      BY <3>1, <1>5
    <3>2. CASE d # c
      BY <3>2, <1>6, <1>7 DEF Reading, Admitting, Book
    <3> QED
      BY <3>1, <3>2
  <2>2. numbers[d][i] \in Nat /\ numbers[d][i] < nextSeq[b]
    <3>1. numbers[d][i] \in Nat
      BY <1>7 DEF TypeOK
    <3> QED
      BY <3>1, <2>1, <1>7 DEF NumberRuns, BelowCounter
  <2> QED
    BY <2>2, <1>2
<1>8. ASSUME NEW d \in Callers PROVE BelowCounter(d)'
  <2>1. CASE d = c
    BY <2>1, <1>1, <1>2, <1>3, <1>4, <1>5 DEF NumberRuns, BelowCounter
  <2>2. CASE d # c
    BY <2>2, <1>3, AloneFacts DEF NumberRuns, BelowCounter
  <2> QED
    BY <2>1, <2>2
<1>9. ASSUME NEW d \in Callers PROVE Unused(d)'
  <2>1. \A v \in vouchers : v.book = b => v.seq # next
    BY <1>2 DEF NumberRuns, Seated, TypeOK
  <2>2. CASE d = c
    BY <2>1, <2>2, <1>1, <1>4, <1>5 DEF NumberRuns, Unused
  <2>3. CASE d # c
    BY <2>3, AloneFacts DEF NumberRuns, Unused
  <2> QED
    BY <2>2, <2>3
<1>10. ASSUME NEW d \in Callers, NEW e \in Callers PROVE Distinct(d, e)'
  <2>1. CASE d # c /\ e # c
    BY <2>1, AloneFacts DEF NumberRuns, Distinct
  <2>2. CASE d = c /\ e = c
    BY <2>2, <1>1, <1>2, <1>4, <1>5, <1>7 DEF NumberRuns, Distinct
  <2>3. CASE d = c /\ e # c
    BY <2>3, <1>1, <1>2, <1>4, <1>5, <1>7, AloneFacts DEF NumberRuns, Distinct
  <2>4. CASE d # c /\ e = c
    BY <2>4, <1>1, <1>2, <1>4, <1>5, <1>7, AloneFacts DEF NumberRuns, Distinct
  <2> QED
    BY <2>1, <2>2, <2>3, <2>4
<1>11. ASSUME NEW d \in Callers, NEW e \in Callers PROVE Exclusive(d, e)'
  <2>1. CASE d # c /\ e # c
    BY <2>1, AloneFacts DEF NumberRuns, Exclusive
  <2>2. CASE d = c /\ e # c
    BY <2>2, <1>5, <1>6, AloneFacts DEF Exclusive
  <2>3. CASE d # c /\ e = c
    BY <2>3, <1>5, <1>6, AloneFacts DEF Exclusive
  <2> QED
    BY <2>1, <2>2, <2>3 DEF Exclusive
<1>12. Seated'
  BY <1>3 DEF NumberRuns, Seated
<1> QED
  BY <1>8, <1>9, <1>10, <1>11, <1>12 DEF NumberRuns

\* The counter moves past the number just read, and every number is below it.
LEMMA RunsAdvanced ==
    ASSUME TypeOK, NumberRuns, \A d \in Callers : Labelled(d),
           NEW c \in Callers, Alone(c), AdvanceSequence(c)
    PROVE  NumberRuns'
<1> DEFINE b    == Admitting(c).book
           last == Len(numbers[c])
<1>1. /\ call[c] \in Postings /\ numbers[c] \in Seq(Nat \ {0}) /\ last \in DOMAIN numbers[c]
      /\ b \in Books /\ Book(c, last) = b /\ pc[c] = "advance"
      /\ numbers[c][last] \in Nat
  BY AdmittingFacts DEF AdvanceSequence, Book, Voucher
<1>2. /\ nextSeq' = [nextSeq EXCEPT ![b] = numbers[c][last] + 1]
      /\ numbers' = numbers /\ call' = call /\ vouchers' = vouchers
      /\ pc'[c] \notin {"reserve", "advance"}
  BY DEF AdvanceSequence, Goto, TypeOK, books, held
<1>3. numbers[c][last] >= nextSeq[b]
  BY <1>1 DEF NumberRuns, BelowCounter, Reading
<1>4. \A k \in Books : nextSeq'[k] \in Nat /\ nextSeq[k] \in Nat /\ nextSeq'[k] >= nextSeq[k]
                       /\ (k # b => nextSeq'[k] = nextSeq[k])
  BY <1>1, <1>2, <1>3 DEF TypeOK
<1>5. \A d \in Callers : \A i : Book(d, i)' = Book(d, i)
  BY <1>2 DEF Book, Vouchers
<1>6. ASSUME NEW d \in Callers, NEW i \in DOMAIN numbers[d]
      PROVE  /\ numbers[d][i] \in Nat /\ Book(d, i) \in Books
  <2>1. numbers[d] \in Seq(Nat \ {0}) /\ Labelled(d) /\ pc[d] \in Labels
    BY DEF TypeOK
  <2>2. /\ call[d] \in Postings /\ Len(numbers[d]) <= Len(Vouchers(call[d]))
    <3>1. pc[d] \notin Unnumbered
      BY <2>1 DEF Labelled
    <3>2. call[d] \in Postings
      BY <2>1, <3>1 DEF Labelled, Unnumbered
    <3>3. Len(Vouchers(call[d])) \in Nat /\ Len(numbers[d]) \in Nat
      BY <2>1, <3>2, VoucherFacts
    <3> QED
      BY <2>1, <3>1, <3>2, <3>3 DEF Labelled, Unnumbered, Numbered, Labels
  <2>3. Vouchers(call[d]) \in Seq(Voucher)
    BY <2>2, VoucherFacts
  <2>4. i \in DOMAIN Vouchers(call[d])
    BY <2>1, <2>2, <2>3
  <2> QED
    BY <2>1, <2>2, <2>4, VoucherFacts DEF Book, Voucher
<1>7. ASSUME NEW d \in Callers PROVE BelowCounter(d)'
  <2>1. CASE d = c
    <3>1. \A i : ~ Reading(c, i)'
      BY <1>2 DEF Reading
    <3>2. \A i \in DOMAIN numbers[c] : numbers[c][i] < nextSeq'[Book(c, i)]
      <4> TAKE i \in DOMAIN numbers[c]
      <4>1. CASE i = last
        BY <4>1, <1>1, <1>2, <1>4 DEF TypeOK
      <4>2. CASE i # last
        BY <4>2, <1>4, <1>6 DEF NumberRuns, BelowCounter, Reading
      <4> QED
        BY <4>1, <4>2
    <3> QED
      BY <2>1, <3>1, <3>2, <1>2, <1>5 DEF BelowCounter
  <2>2. CASE d # c
    <3>1. \A i \in DOMAIN numbers[d] : Reading(d, i) => Book(d, i) # b
      BY <2>2, <1>1 DEF NumberRuns, Exclusive, Reading, Book, Admitting
    <3>2. \A i : Reading(d, i)' <=> Reading(d, i)
      BY <2>2, AloneFacts
    <3> QED
      BY <3>1, <3>2, <1>2, <1>4, <1>5, <1>6 DEF NumberRuns, BelowCounter
  <2> QED
    BY <2>1, <2>2
<1>8. ASSUME NEW d \in Callers, NEW e \in Callers PROVE Distinct(d, e)' /\ Unused(d)'
  BY <1>2, <1>5 DEF NumberRuns, Distinct, Unused
<1>9. ASSUME NEW d \in Callers, NEW e \in Callers PROVE Exclusive(d, e)'
  <2>1. CASE d # c /\ e # c
    BY <2>1, AloneFacts DEF NumberRuns, Exclusive
  <2> QED
    BY <2>1, <1>2 DEF Exclusive
<1>10. Seated'
  BY <1>2, <1>4 DEF NumberRuns, Seated, TypeOK
<1> QED
  BY <1>7, <1>8, <1>9, <1>10 DEF NumberRuns

\* A commit fills the places its caller took.
LEMMA RunsCommitted ==
    ASSUME TypeOK, NumberRuns, \A d \in Callers : Labelled(d),
           NEW c \in Callers, Alone(c), Commit(c)
    PROVE  NumberRuns'
<1> DEFINE indices == DOMAIN Vouchers(call[c])
<1>1. /\ pc[c] \in Numbered /\ pc[c] = "commit" /\ pc'[c] = "idle"
      /\ numbers'[c] = <<>> /\ nextSeq' = nextSeq
      /\ vouchers' = vouchers \cup {Written(c, i) : i \in indices}
  BY DEF Commit, Numbered, Answer, Goto, TypeOK
<1>2. /\ DOMAIN numbers[c] = indices
      /\ \A i \in indices : /\ Written(c, i).book = Book(c, i) /\ Book(c, i) \in Books
                            /\ Written(c, i).seq = numbers[c][i]
  BY <1>1, WrittenFacts
<1>3. \A i \in indices : numbers[c][i] < nextSeq[Book(c, i)]
  BY <1>1, <1>2 DEF NumberRuns, BelowCounter, Reading
<1>4. DOMAIN numbers'[c] = {}
  BY <1>1
<1>5. ASSUME NEW d \in Callers PROVE BelowCounter(d)' /\ Unused(d)'
  <2>1. CASE d = c
    BY <2>1, <1>4 DEF BelowCounter, Unused
  <2>2. CASE d # c
    <3>1. BelowCounter(d)'
      BY <2>2, <1>1, AloneFacts DEF NumberRuns, BelowCounter
    <3>2. Distinct(d, c) /\ Unused(d)
      BY DEF NumberRuns
    <3>3. \A i \in DOMAIN numbers[d], v \in vouchers' : v.book = Book(d, i) => v.seq # numbers[d][i]
      BY <2>2, <3>2, <1>1, <1>2 DEF Distinct, Unused
    <3> QED
      BY <2>2, <3>1, <3>3, AloneFacts DEF Unused
  <2> QED
    BY <2>1, <2>2
<1>6. ASSUME NEW d \in Callers, NEW e \in Callers PROVE Distinct(d, e)'
  <2>1. CASE d = c \/ e = c
    BY <2>1, <1>4 DEF Distinct
  <2>2. CASE d # c /\ e # c
    BY <2>2, AloneFacts DEF NumberRuns, Distinct
  <2> QED
    BY <2>1, <2>2
<1>7. ASSUME NEW d \in Callers, NEW e \in Callers PROVE Exclusive(d, e)'
  <2>1. CASE d # c /\ e # c
    BY <2>1, AloneFacts DEF NumberRuns, Exclusive
  <2> QED
    BY <2>1, <1>1 DEF Exclusive
<1>8. Seated'
  <2>1. \A v \in vouchers' : v.book \in Books /\ v.seq < nextSeq'[v.book]
    BY <1>1, <1>2, <1>3 DEF NumberRuns, Seated
  <2>2. ASSUME NEW v \in vouchers', NEW w \in vouchers', v.book = w.book, v.seq = w.seq
        PROVE  v = w
    <3>1. CASE v \in vouchers /\ w \in vouchers
      BY <2>2, <3>1 DEF NumberRuns, Seated
    <3>2. CASE v \notin vouchers /\ w \notin vouchers
      <4>1. PICK i \in indices : v = Written(c, i)
        BY <3>2, <1>1
      <4>2. PICK j \in indices : w = Written(c, j)
        BY <3>2, <1>1
      <4>3. Distinct(c, c)
        BY DEF NumberRuns
      <4>4. i = j
        BY <2>2, <4>1, <4>2, <4>3, <1>2 DEF Distinct
      <4> QED
        BY <4>1, <4>2, <4>4
    <3>3. ASSUME NEW x \in vouchers, NEW i \in indices
          PROVE  ~ (x.book = Written(c, i).book /\ x.seq = Written(c, i).seq)
      BY <1>2 DEF NumberRuns, Unused
    <3> QED
      BY <2>2, <3>1, <3>2, <3>3, <1>1
  <2> QED
    BY <2>1, <2>2 DEF Seated
<1> QED
  BY <1>5, <1>6, <1>7, <1>8 DEF NumberRuns

\* Every step keeps the runs of the books.
LEMMA NextNumberRuns ==
    ASSUME TypeOK, NumberRuns, \A d \in Callers : Labelled(d), [Next]_vars
    PROVE  NumberRuns'
<1> USE DEF books, held, Goto
<1>1. ASSUME NEW c \in Callers, Alone(c), Refuse(c) PROVE NumberRuns'
  BY <1>1, RunsKept DEF Refuse, Answer, TypeOK
<1>2. ASSUME NEW c \in Callers, NEW l, Alone(c), Proceed(c, l), pc[c] # "advance",
             l \notin {"reserve", "advance"}
      PROVE  NumberRuns'
  BY <1>2, RunsKept DEF Proceed, TypeOK
<1>3. ASSUME NEW c \in Callers, Alone(c), Ask(c) PROVE NumberRuns'
  BY <1>3, RunsKept DEF Ask, TypeOK, Labelled, Unnumbered
<1>4. ASSUME NEW c \in Callers, Alone(c), Step(c) PROVE NumberRuns'
  <2>1. CASE Price(c)
    <3>1. CASE Refuse(c)
      BY <3>1, <1>1, <1>4
    <3>2. CASE ~ Refuse(c)
      BY <2>1, <3>2, <1>4, RunsKept DEF Price, TypeOK
    <3> QED
      BY <3>1, <3>2
  <2>2. CASE CheckLock(c) \/ CheckCostLock(c) \/ Admit(c) \/ SequenceDeadlock(c)
    BY <1>4, <2>2, <1>1, <1>2 DEF CheckLock, CheckCostLock, Admit, SequenceDeadlock
  <2>3. CASE LoadRules(c)
    BY <1>4, <2>3, RunsKept DEF LoadRules, TypeOK
  <2>4. CASE EnsureSequence(c)
    <3>1. /\ pc[c] = "ensure" /\ pc'[c] = "reserve" /\ numbers' = numbers /\ call' = call
          /\ nextSeq' = nextSeq /\ vouchers' = vouchers
      BY <2>4 DEF EnsureSequence, Proceed, TypeOK
    <3>2. Admitting(c)' = Admitting(c)
      BY <3>1 DEF Admitting, Vouchers
    <3>3. \A d \in Callers \ {c} : pc[d] = "advance" => Admitting(d).book # Admitting(c).book
      BY <2>4 DEF EnsureSequence, Sharing, Holding
    <3> QED
      BY <1>4, <3>1, <3>2, <3>3, RunsKept
  <2>5. CASE ReserveSequence(c)
    BY <1>4, <2>5, RunsReserved DEF ReserveSequence
  <2>6. CASE AdvanceSequence(c)
    BY <1>4, <2>6, RunsAdvanced
  <2>7. CASE CheckStock(c)
    <3>1. CASE Refuse(c)
      BY <3>1, <1>1, <1>4
    <3>2. CASE ~ Refuse(c)
      BY <2>7, <3>2, <1>4, RunsKept DEF CheckStock, TypeOK
    <3> QED
      BY <3>1, <3>2
  <2>8. CASE SaveEntry(c) \/ SaveKey(c) \/ SaveCost(c) \/ RecordDocument(c)
    BY <1>4, <2>8, <1>1, <1>2
       DEF SaveEntry, SaveKey, SaveCost, SaveVoucher, RecordDocument
  <2>9. CASE WriteMovement(c)
    BY <1>4, <2>9, RunsKept DEF WriteMovement, TypeOK
  <2>10. CASE Commit(c)
    BY <1>4, <2>10, RunsCommitted
  <2>11. CASE RecordMovement(c)
    BY <1>4, <2>11, <1>1, RunsKept DEF RecordMovement, Answer, TypeOK
  <2> QED
    BY <1>4, <2>1, <2>2, <2>3, <2>4, <2>5, <2>6, <2>7, <2>8, <2>9, <2>10, <2>11 DEF Step
<1>5. CASE Calendar \/ UNCHANGED vars
  <2>1. UNCHANGED <<nextSeq, vouchers, pc, call, numbers>>
    BY <1>5 DEF Calendar, vars
  <2>2. \A c \in Callers : /\ Admitting(c)' = Admitting(c)
                           /\ \A i : Book(c, i)' = Book(c, i) /\ Reading(c, i)' = Reading(c, i)
    BY <2>1 DEF Admitting, Book, Reading, Vouchers
  <2>3. \A c \in Callers : BelowCounter(c)' /\ Unused(c)'
    BY <2>1, <2>2 DEF NumberRuns, BelowCounter, Unused
  <2>4. \A c, d \in Callers : Distinct(c, d)' /\ Exclusive(c, d)'
    BY <2>1, <2>2 DEF NumberRuns, Distinct, Exclusive
  <2>5. Seated'
    BY <2>1 DEF NumberRuns, Seated
  <2> QED
    BY <2>3, <2>4, <2>5 DEF NumberRuns
<1>6. ASSUME NEW c \in Callers, Alone(c), Fail(c) PROVE NumberRuns'
  BY <1>1, <1>6 DEF Fail
<1> QED
  BY <1>3, <1>4, <1>5, <1>6, StepAlone DEF Next

-----------------------------------------------------------------------------
(* The request keys.                                                       *)

\* A step that commits nothing and inserts no key keeps the keys.
LEMMA KeysKept ==
    ASSUME \A d \in Callers : KeyIsMine(d), OneEntryPerRequest, NEW c \in Callers, Alone(c),
           keys' = keys, HoldsKey(c)' => HoldsKey(c) /\ call'[c] = call[c]
    PROVE  (\A d \in Callers : KeyIsMine(d)') /\ OneEntryPerRequest'
<1>1. \A d \in Callers : HoldsKey(d)' => HoldsKey(d) /\ call'[d] = call[d]
  BY DEF Alone, HoldsKey
<1> QED
  BY <1>1 DEF KeyIsMine, OneEntryPerRequest

\* Every step keeps the keys.
LEMMA NextKeys ==
    ASSUME TypeOK, \A d \in Callers : KeyIsMine(d), OneEntryPerRequest, [Next]_vars
    PROVE  (\A d \in Callers : KeyIsMine(d)') /\ OneEntryPerRequest'
<1> DEFINE Goal == (\A d \in Callers : KeyIsMine(d)') /\ OneEntryPerRequest'
<1> USE DEF books, held, Goto
<1>1. ASSUME NEW c \in Callers, Alone(c), Refuse(c) PROVE Goal
  BY <1>1, KeysKept DEF Refuse, Answer, TypeOK, HoldsKey
<1>2. ASSUME NEW c \in Callers, NEW l, Alone(c), Proceed(c, l),
             l \in {"cost", "stock", "document", "commit"}
                => pc[c] \in {"cost", "stock", "document", "commit"}
      PROVE  Goal
  BY <1>2, KeysKept DEF Proceed, TypeOK, HoldsKey
<1>3. ASSUME NEW c \in Callers, Alone(c), Ask(c) PROVE Goal
  BY <1>3, KeysKept DEF Ask, TypeOK, HoldsKey
<1>4. ASSUME NEW c \in Callers, Alone(c), Step(c) PROVE Goal
  <2>1. CASE Price(c) \/ CheckStock(c)
    <3>1. CASE Refuse(c)
      BY <3>1, <1>1, <1>4
    <3>2. CASE ~ Refuse(c)
      BY <2>1, <3>2, <1>4, KeysKept DEF Price, CheckStock, TypeOK, HoldsKey
    <3> QED
      BY <3>1, <3>2
  <2>2. CASE CheckLock(c) \/ CheckCostLock(c) \/ Admit(c) \/ SequenceDeadlock(c)
             \/ EnsureSequence(c)
    BY <1>4, <2>2, <1>1, <1>2
       DEF CheckLock, CheckCostLock, Admit, SequenceDeadlock, EnsureSequence
  <2>3. CASE LoadRules(c) \/ ReserveSequence(c) \/ AdvanceSequence(c)
    BY <1>4, <2>3, KeysKept DEF LoadRules, ReserveSequence, AdvanceSequence, TypeOK, HoldsKey
  <2>4. CASE SaveEntry(c) \/ SaveCost(c) \/ RecordDocument(c)
    BY <1>4, <2>4, <1>1, <1>2 DEF SaveEntry, SaveCost, SaveVoucher, RecordDocument
  <2>5. CASE SaveKey(c)
    <3>1. CASE Refuse(c)
      BY <3>1, <1>1, <1>4
    <3>2. CASE ~ Refuse(c)
      <4>1. /\ keys' = keys /\ call' = call /\ pc'[c] = "cost"
            /\ \A d \in Callers \ {c} : pc'[d] = pc[d]
        BY <2>5, <3>2, <1>4 DEF SaveKey, Proceed, Alone, TypeOK
      <4>2. call[c].key # None =>
              /\ \A k \in keys : k.key # call[c].key
              /\ \A d \in Callers \ {c} : HoldsKey(d) => call[d].key # call[c].key
        BY <2>5, <3>2 DEF SaveKey, HoldsKey
      <4>3. \A d \in Callers \ {c} : HoldsKey(d)' <=> HoldsKey(d)
        BY <4>1 DEF HoldsKey
      <4>4. KeyIsMine(c)'
        BY <4>1, <4>2, <4>3 DEF KeyIsMine, HoldsKey
      <4>5. ASSUME NEW d \in Callers, d # c PROVE KeyIsMine(d)'
        <5>1. HoldsKey(d) /\ call[c].key # None => call[d].key # call[c].key
          BY <4>2, <4>5
        <5>2. HoldsKey(c)' => call[c].key # None
          BY <4>1 DEF HoldsKey
        <5> QED
          BY <4>1, <4>3, <4>5, <5>1, <5>2 DEF KeyIsMine
      <4> QED
        BY <4>1, <4>4, <4>5 DEF OneEntryPerRequest
    <3> QED
      BY <3>1, <3>2
  <2>6. CASE WriteMovement(c)
    BY <1>4, <2>6, KeysKept DEF WriteMovement, TypeOK, HoldsKey
  <2>7. CASE Commit(c)
    <3>1. /\ keys' = IF call[c].key = None THEN keys
                     ELSE keys \cup {[key |-> call[c].key, voucher |-> call[c].voucher.id]}
          /\ pc[c] = "commit" /\ pc'[c] = "idle" /\ ~ HoldsKey(c)'
      BY <2>7 DEF Commit, Answer, TypeOK, HoldsKey
    <3>2. \A d \in Callers \ {c} : (HoldsKey(d)' <=> HoldsKey(d)) /\ call'[d] = call[d]
      BY <1>4 DEF Alone, HoldsKey
    <3>3. call[c].key # None =>
            /\ \A k \in keys : k.key # call[c].key
            /\ \A d \in Callers \ {c} : HoldsKey(d) => call[d].key # call[c].key
      BY <3>1 DEF KeyIsMine, HoldsKey
    <3>4. OneEntryPerRequest'
      BY <3>1, <3>3 DEF OneEntryPerRequest
    <3>5. KeyIsMine(c)'
      BY <3>1 DEF KeyIsMine
    <3>6. ASSUME NEW d \in Callers, d # c PROVE KeyIsMine(d)'
      <4>1. ASSUME HoldsKey(d), NEW k \in keys' PROVE k.key # call[d].key
        BY <4>1, <3>1, <3>3, <3>6 DEF KeyIsMine
      <4>2. ASSUME HoldsKey(d), NEW e \in Callers \ {d}, HoldsKey(e)'
            PROVE  call'[e].key # call[d].key
        BY <4>2, <3>1, <3>2 DEF KeyIsMine
      <4> QED
        BY <4>1, <4>2, <3>2, <3>6 DEF KeyIsMine
    <3> QED
      BY <3>4, <3>5, <3>6
  <2>8. CASE RecordMovement(c)
    BY <1>4, <2>8, <1>1, KeysKept DEF RecordMovement, Answer, TypeOK, HoldsKey
  <2> QED
    BY <1>4, <2>1, <2>2, <2>3, <2>4, <2>5, <2>6, <2>7, <2>8 DEF Step
<1>5. CASE Calendar \/ UNCHANGED vars
  <2>1. UNCHANGED <<keys, pc, call>>
    BY <1>5 DEF Calendar, vars
  <2> QED
    BY <2>1 DEF KeyIsMine, HoldsKey, OneEntryPerRequest
<1>6. ASSUME NEW c \in Callers, Alone(c), Fail(c) PROVE Goal
  BY <1>1, <1>6 DEF Fail
<1> QED
  BY <1>3, <1>4, <1>5, <1>6, StepAlone DEF Next

-----------------------------------------------------------------------------
(* Whole postings: what the log holds of each caller.                      *)

\* The labels a caller has rows of its own in the log at, and the ones at
\* which its entry's id is inserted.
Moving  == {"stock", "document", "commit"}
Entered == {"key", "cost"} \cup Moving

RowShape(m) ==
    m = [item |-> m.item, kind |-> m.kind, quantity |-> m.quantity, cost |-> m.cost,
         voucher |-> m.voucher, owner |-> m.owner]

LogTypes ==
    /\ costs = [c \in Callers |-> costs[c]]
    /\ log \in Seq(Rows)
    /\ \A m \in Rows : RowShape(m) /\ m.owner \in Callers \cup {None}

\* Whoever owns a row is writing its movements.
OwnersMove == \A m \in Rows : m.owner # None => pc[m.owner] \in Moving

\* A list that is the beginning of another.
Begins(some, all) == Len(some) <= Len(all) /\ some = [i \in 1 .. Len(some) |-> all[i]]

\* A caller's rows are the first of its movements, and then all of them.
RowsWritten(c) ==
    /\ pc[c] = "stock" => Begins(Owned(c), Movements(c))
    /\ pc[c] \in {"document", "commit"} => Owned(c) = Movements(c)
    /\ pc[c] = "record" => call[c] \in Moves

\* An id that a transaction has inserted is nobody else's and not on file.
IdsApart ==
    /\ \A c \in Callers : \A v \in vouchers : v.id \notin Inserted(c)
    /\ \A c, d \in Callers : c # d => Inserted(c) \cap Inserted(d) = {}

WholeIInv ==
    /\ LogTypes /\ OwnersMove /\ IdsApart
    /\ \A c \in Callers : RowsWritten(c)
    /\ WholePostings

\* A step of one caller leaves what the others were priced at.
CostsAlone(c) ==
    /\ costs' = [d \in Callers |-> costs'[d]]
    /\ \A d \in Callers \ {c} : costs'[d] = costs[d]

\* A caller's step is priced alone.
LEMMA StepCostsAlone ==
    ASSUME LogTypes, NEW c \in Callers, Ask(c) \/ Step(c) \/ Fail(c)
    PROVE  CostsAlone(c)
<1> USE DEF LogTypes, CostsAlone, Answer, Refuse, Proceed, held
<1>1. CASE Ask(c)
  BY <1>1 DEF Ask
<1>2. CASE Fail(c)
  BY <1>2 DEF Fail
<1>3. CASE Price(c) \/ CheckLock(c) \/ CheckCostLock(c) \/ LoadRules(c) \/ Admit(c)
  BY <1>3 DEF Price, CheckLock, CheckCostLock, LoadRules, Admit
<1>4. CASE EnsureSequence(c) \/ ReserveSequence(c) \/ SequenceDeadlock(c) \/ AdvanceSequence(c)
  BY <1>4 DEF EnsureSequence, ReserveSequence, SequenceDeadlock, AdvanceSequence
<1>5. CASE CheckStock(c) \/ SaveEntry(c) \/ SaveKey(c) \/ SaveCost(c)
  BY <1>5 DEF CheckStock, SaveEntry, SaveKey, SaveCost, SaveVoucher
<1>6. CASE WriteMovement(c) \/ RecordDocument(c) \/ Commit(c) \/ RecordMovement(c)
  BY <1>6 DEF WriteMovement, RecordDocument, Commit, RecordMovement
<1> QED
  BY <1>1, <1>2, <1>3, <1>4, <1>5, <1>6 DEF Step

\* A row as a caller writes it.
IsRowOf(c, m) == RowShape(m) /\ m.voucher = call[c].voucher.id /\ m.owner = c

\* What a call moves: its lines, issues before receipts, under its voucher.
LEMMA MovementsFacts ==
    ASSUME NEW c \in Callers, call[c] \in Postings \cup Moves
    PROVE  /\ Len(Movements(c)) \in Nat /\ Movements(c) = [i \in 1 .. Len(Movements(c)) |-> Movements(c)[i]]
           /\ \A i \in DOMAIN Movements(c) : IsRowOf(c, Movements(c)[i])
           /\ Quantities(Movements(c)) = Quantities(call[c].issues) \o Quantities(call[c].receipts)
<1> DEFINE Line(kind, line, cost) ==
             [item |-> line.item, kind |-> kind, quantity |-> line.quantity, cost |-> cost,
              voucher |-> call[c].voucher.id, owner |-> c]
           issues   == call[c].issues
           receipts == call[c].receipts
           out == [i \in DOMAIN issues |-> Line("issue", issues[i], costs[c][i])]
           in  == [i \in DOMAIN receipts |-> Line("receipt", receipts[i], receipts[i].cost)]
           S   == {out[i] : i \in DOMAIN issues} \cup {in[i] : i \in DOMAIN receipts}
<1>1. issues \in Seq(Issued) /\ receipts \in Seq(Received)
  BY DEF Issued, Received
<1>2. Movements(c) = out \o in
  BY DEF Movements
<1>3. \A m \in S : IsRowOf(c, m)
  <2>1. \A kind, line, cost : IsRowOf(c, Line(kind, line, cost))
    BY DEF IsRowOf, RowShape
  <2>2. \A i \in DOMAIN issues : out[i] = Line("issue", issues[i], costs[c][i])
    OBVIOUS
  <2>3. \A i \in DOMAIN receipts : in[i] = Line("receipt", receipts[i], receipts[i].cost)
    OBVIOUS
  <2> HIDE DEF Line, out, in
  <2> QED
    BY <2>1, <2>2, <2>3
<1>4. \A i \in DOMAIN issues : out[i] \in S /\ out[i].item = issues[i].item /\ out[i].quantity = issues[i].quantity
  OBVIOUS
<1>5. \A i \in DOMAIN receipts : in[i] \in S /\ in[i].item = receipts[i].item /\ in[i].quantity = receipts[i].quantity
  OBVIOUS
<1>6. DOMAIN out = DOMAIN issues /\ DOMAIN in = DOMAIN receipts
      /\ out = [i \in DOMAIN issues |-> out[i]] /\ in = [i \in DOMAIN receipts |-> in[i]]
  OBVIOUS
<1> HIDE DEF out, in, S
<1> HIDE DEF issues, receipts
<1>7. out \in Seq(S) /\ in \in Seq(S)
  <2>1. Len(issues) \in Nat /\ DOMAIN issues = 1 .. Len(issues)
    BY <1>1
  <2>2. Len(receipts) \in Nat /\ DOMAIN receipts = 1 .. Len(receipts)
    BY <1>1
  <2>3. out = [i \in 1 .. Len(issues) |-> out[i]] /\ \A i \in 1 .. Len(issues) : out[i] \in S
    BY <1>4, <1>6, <2>1
  <2>4. in = [i \in 1 .. Len(receipts) |-> in[i]] /\ \A i \in 1 .. Len(receipts) : in[i] \in S
    BY <1>5, <1>6, <2>2
  <2>5. out \in Seq(S)
    BY <2>1, <2>3
  <2>6. in \in Seq(S)
    BY <2>2, <2>4
  <2> QED
    BY <2>5, <2>6
<1>8. out \o in \in Seq(S)
  BY <1>7
<1>9. Quantities(out) = Quantities(issues) /\ Quantities(in) = Quantities(receipts)
  BY <1>4, <1>5, <1>6 DEF Quantities
<1>10. Quantities(out \o in) = Quantities(out) \o Quantities(in)
  BY <1>7, QuantitiesJoin
<1>11. \A i \in DOMAIN Movements(c) : Movements(c)[i] \in S
  BY <1>2, <1>8
<1>12. /\ Len(Movements(c)) \in Nat
       /\ Movements(c) = [i \in 1 .. Len(Movements(c)) |-> Movements(c)[i]]
  <2>1. Movements(c) \in Seq(S)
    BY <1>2, <1>8
  <2> QED
    BY <2>1, LenProperties
<1>13. \A i \in DOMAIN Movements(c) : IsRowOf(c, Movements(c)[i])
  BY <1>3, <1>11
<1> QED
  BY <1>2, <1>9, <1>10, <1>12, <1>13 DEF issues, receipts

\* The rows of an owner, the rows that name an entry, and both.
OwnedIn(rows, owner) == {m \in rows : m.owner = owner}
NamedIn(rows, id)    == {m \in rows : m.voucher = id}
MovedIn(rows, id)    == {m \in rows : m.owner = None /\ m.voucher = id}

\* The committed rows, and of those the ones that name an entry.
LEMMA CommittedRows ==
    ASSUME NEW S, NEW rows \in Seq(S), NEW id
    PROVE  Among(Among(rows, OwnedIn(S, None)), NamedIn(S, id)) = Among(rows, MovedIn(S, id))
<1>1. OwnedIn(S, None) \cap NamedIn(S, id) = MovedIn(S, id)
  BY DEF OwnedIn, NamedIn, MovedIn
<1>2. Among(Among(rows, OwnedIn(S, None)), NamedIn(S, id))
        = Among(rows, OwnedIn(S, None) \cap NamedIn(S, id))
  BY AmongTwice
<1> QED
  BY <1>1, <1>2

\* The movements of an entry are the committed rows that name it, before a step
\* and after it.
LEMMA MovedByRows ==
    ASSUME NEW id
    PROVE  /\ LogTypes => MovedBy(id) = Among(log, MovedIn(Rows, id))
           /\ LogTypes' => MovedBy(id)' = Among(log', MovedIn(Rows', id))
<1>1. ASSUME LogTypes PROVE MovedBy(id) = Among(log, MovedIn(Rows, id))
  <2>1. log \in Seq(Rows)
    BY <1>1 DEF LogTypes
  <2>2. Among(Among(log, OwnedIn(Rows, None)), NamedIn(Rows, id)) = Among(log, MovedIn(Rows, id))
    BY <2>1, CommittedRows
  <2> QED
    BY <2>2 DEF MovedBy, Committed, Owned, OwnedIn, NamedIn
<1>2. ASSUME LogTypes' PROVE MovedBy(id)' = Among(log', MovedIn(Rows', id))
  <2>1. log' \in Seq(Rows')
    BY <1>2 DEF LogTypes
  <2>2. Among(Among(log', OwnedIn(Rows', None)), NamedIn(Rows', id)) = Among(log', MovedIn(Rows', id))
    BY <2>1, CommittedRows
  <2> QED
    BY <2>2 DEF MovedBy, Committed, Owned, OwnedIn, NamedIn
<1> QED
  BY <1>1, <1>2

\* Who owns no row has none.
LEMMA OwnsNothing ==
    ASSUME LogTypes, NEW c, \A m \in Rows : m.owner # c
    PROVE  Owned(c) = <<>>
<1> DEFINE A == {m \in Rows : m.owner = c}
<1>1. A = {}
  OBVIOUS
<1> HIDE DEF A
<1>2. Among(log, A) \in Seq(Rows \cap A)
  BY AmongTyped DEF LogTypes
<1>3. Among(log, A) \in Seq({})
  BY <1>1, <1>2
<1>4. Among(log, A) = <<>>
  BY <1>3
<1> QED
  BY <1>4 DEF Owned, A

\* Every list is one of its own rows.
LEMMA OwnRows ==
    ASSUME NEW S, NEW s \in Seq(S)
    PROVE  s \in Seq({s[i] : i \in DOMAIN s})
OBVIOUS

-----------------------------------------------------------------------------
(* Whole postings: every step.                                             *)

\* A row names the entry it stands or falls with.
Named(m) ==
    IF m.owner = None THEN m.voucher \in EntryIds \cup {None}
    ELSE m.voucher = call[m.owner].voucher.id

\* The posting an entry on file was made by, all of it on file.
Filed(entry, p) ==
    /\ p.voucher.id = entry
    /\ {Vouchers(p)[i].id : i \in DOMAIN Vouchers(p)} = {w.id : w \in {x \in vouchers : x.of = entry}}
    /\ p.key # None => [key |-> p.key, voucher |-> entry] \in keys
    /\ p.document # None => entry \in documented
    /\ Quantities(MovedBy(entry)) = Quantities(p.issues) \o Quantities(p.receipts)

\* Whole postings, by their parts.
LEMMA WholeParts ==
    WholePostings <=>
        /\ \A entry \in EntryIds : \E p \in Postings : Filed(entry, p)
        /\ {k.voucher : k \in keys} \subseteq EntryIds /\ documented \subseteq EntryIds
        /\ \A m \in Rows : Named(m)
BY DEF WholePostings, Filed, Named

\* The ids a caller comes to have inserted are on nobody's rows.
Fresh(c) ==
    \A id \in Inserted(c)' \ Inserted(c) :
        /\ \A v \in vouchers : v.id # id
        /\ \A d \in Callers \ {c} : id \notin Inserted(d)

\* What a caller that did not move writes stays what it was.
LEMMA AloneWrites ==
    ASSUME NEW c \in Callers, Alone(c), CostsAlone(c), NEW d \in Callers \ {c}
    PROVE  Movements(d)' = Movements(d) /\ Inserted(d)' = Inserted(d)
<1>1. call'[d] = call[d] /\ costs'[d] = costs[d] /\ numbers'[d] = numbers[d] /\ pc'[d] = pc[d]
  BY DEF Alone, CostsAlone
<1>2. Movements(d)' = Movements(d)
  BY <1>1 DEF Movements
<1>3. \A i : Written(d, i)' = Written(d, i)
  BY <1>1 DEF Written, Vouchers
<1>4. DOMAIN Vouchers(call[d])' = DOMAIN Vouchers(call[d])
  BY <1>1 DEF Vouchers
<1>5. {Written(d, i)'.id : i \in DOMAIN Vouchers(call[d])'}
        = {Written(d, i).id : i \in DOMAIN Vouchers(call[d])}
  BY <1>3, <1>4
<1>6. Inserted(d)' = Inserted(d)
  BY <1>1, <1>3, <1>5 DEF Inserted
<1> QED
  BY <1>2, <1>6

\* A step that leaves the books and what the log holds of the others.
LEMMA LogStep ==
    ASSUME WholeIInv, NEW c \in Callers, Alone(c), CostsAlone(c), Fresh(c),
           UNCHANGED books, LogTypes', OwnersMove', RowsWritten(c)',
           \A d \in Callers \ {c} : Owned(d)' = Owned(d),
           \A id \in EntryIds : MovedBy(id)' = MovedBy(id),
           \A m \in Rows' : Named(m)'
    PROVE  WholeIInv'
<1>1. vouchers' = vouchers /\ keys' = keys /\ documented' = documented /\ EntryIds' = EntryIds
  BY DEF books, EntryIds
<1>2. ASSUME NEW d \in Callers, d # c PROVE RowsWritten(d)'
  <2>1. Movements(d)' = Movements(d) /\ Owned(d)' = Owned(d) /\ pc'[d] = pc[d] /\ call'[d] = call[d]
    BY <1>2, AloneWrites DEF Alone
  <2>2. RowsWritten(d)
    BY DEF WholeIInv
  <2> QED
    BY <2>1, <2>2 DEF RowsWritten, Begins
<1>3. IdsApart'
  <2>1. IdsApart
    BY DEF WholeIInv
  <2>2. \A d \in Callers \ {c} : Inserted(d)' = Inserted(d)
    BY AloneWrites
  <2>3. \A id \in Inserted(c)' : /\ \A v \in vouchers : v.id # id
                                 /\ \A d \in Callers \ {c} : id \notin Inserted(d)
    BY <2>1 DEF Fresh, IdsApart
  <2> QED
    BY <1>1, <2>1, <2>2, <2>3 DEF IdsApart
<1>4. WholePostings'
  <2>1. ASSUME NEW entry \in EntryIds' PROVE \E p \in Postings : Filed(entry, p)'
    <3>1. PICK p \in Postings : Filed(entry, p)
      BY <1>1, WholeParts DEF WholeIInv
    <3>2. MovedBy(entry)' = MovedBy(entry)
      BY <1>1
    <3>3. Filed(entry, p)'
      BY <1>1, <3>1, <3>2 DEF Filed
    <3> QED
      BY <3>3
  <2>2. {k.voucher : k \in keys'} \subseteq EntryIds' /\ documented' \subseteq EntryIds'
    BY <1>1, WholeParts DEF WholeIInv
  <2>3. \A m \in Rows' : Named(m)'
    OBVIOUS
  <2> QED
    BY <2>1, <2>2, <2>3 DEF WholePostings, Filed, Named
<1> QED
  BY <1>2, <1>3, <1>4 DEF WholeIInv

\* A step that writes nothing, of a caller that keeps what its label says.
LEMMA QuietStep ==
    ASSUME WholeIInv, NEW c \in Callers, Alone(c), CostsAlone(c), Fresh(c),
           UNCHANGED books, log' = log, RowsWritten(c)',
           pc[c] \in Moving => pc'[c] \in Moving /\ call'[c] = call[c]
    PROVE  WholeIInv'
<1>1. Rows' = Rows /\ EntryIds' = EntryIds
  BY DEF Rows, EntryIds, books
<1>2. LogTypes'
  BY <1>1 DEF WholeIInv, LogTypes, CostsAlone
<1>3. \A d \in Callers : pc[d] \in Moving => pc'[d] \in Moving /\ call'[d] = call[d]
  BY DEF Alone
<1>4. \A m \in Rows : m.owner # None => m.owner \in Callers /\ pc[m.owner] \in Moving
  BY DEF WholeIInv, LogTypes, OwnersMove
<1>5. OwnersMove'
  BY <1>1, <1>3, <1>4 DEF OwnersMove
<1>6. \A m \in Rows : Named(m)
  BY WholeParts DEF WholeIInv
<1>7. \A m \in Rows' : Named(m)'
  BY <1>1, <1>3, <1>4, <1>6 DEF Named
<1>8. \A d \in Callers : Owned(d)' = Owned(d)
  BY <1>1 DEF Owned
<1>9. \A id : MovedBy(id)' = MovedBy(id)
  BY <1>1 DEF MovedBy, Committed, Owned
<1> QED
  BY <1>2, <1>5, <1>7, <1>8, <1>9, LogStep

\* The rows that are not a caller's.
RowsNotOf(c) == {m \in Rows : m.owner # c}

\* A refusal leaves the rows of the others, in their order.
LEMMA RefusalRows ==
    ASSUME LogTypes, NEW c, log' = Among(log, RowsNotOf(c))
    PROVE  log' \in Seq(Rows') /\ \A m \in Rows' : m \in Rows /\ m.owner # c
<1> DEFINE others == RowsNotOf(c)
<1>1. log' = Among(log, others) /\ log \in Seq(Rows)
  BY DEF LogTypes
<1>2. \A m \in Rows \cap others : m \in Rows /\ m.owner # c
  BY DEF RowsNotOf
<1> HIDE DEF others
<1>3. log' \in Seq(Rows \cap others)
  BY <1>1, AmongTyped
<1>4. \A i \in DOMAIN log' : log'[i] \in Rows \cap others
  BY <1>3, ElementOfSeq, LenProperties
<1>5. \A m \in Rows' : m \in Rows /\ m.owner # c
  BY <1>2, <1>4 DEF Rows
<1>6. log' \in Seq(Rows')
  <2>1. log' \in Seq({log'[i] : i \in DOMAIN log'})
    BY <1>3, OwnRows
  <2> QED
    BY <2>1 DEF Rows
<1> QED
  BY <1>5, <1>6

\* What is kept of rows that were never the caller's is kept after its refusal.
LEMMA RefusalKeeps ==
    ASSUME LogTypes, NEW c, log' = Among(log, RowsNotOf(c)),
           NEW some, NEW left, some \subseteq Rows, \A m \in some : m.owner # c,
           \A m \in Rows' : m \in left <=> m \in some
    PROVE  Among(log', left) = Among(log, some)
<1>1. log \in Seq(Rows) /\ RowsNotOf(c) \cap some = some
  BY DEF LogTypes, RowsNotOf
<1>2. log' \in Seq(Rows')
  BY RefusalRows
<1>3. Among(log', left) = Among(log', some)
  BY <1>2, AmongSame
<1>4. Among(log', some) = Among(log, RowsNotOf(c) \cap some)
  BY <1>1, AmongTwice
<1> QED
  BY <1>1, <1>3, <1>4

\* The caller is answered, and its rows go with its transaction.
LEMMA RefuseStep ==
    ASSUME TypeOK, WholeIInv, NEW c \in Callers, Alone(c), CostsAlone(c), Refuse(c)
    PROVE  WholeIInv'
<1>1. /\ pc'[c] = "idle" /\ log' = Among(log, RowsNotOf(c))
      /\ UNCHANGED books
  BY DEF Refuse, Answer, Goto, TypeOK, RowsNotOf
<1>2. LogTypes /\ OwnersMove /\ \A m \in Rows : Named(m)
  BY WholeParts DEF WholeIInv
<1>3. ASSUME NEW some, NEW left, some \subseteq Rows, \A m \in some : m.owner # c,
             \A m \in Rows' : m \in left <=> m \in some
      PROVE  Among(log', left) = Among(log, some)
  BY <1>1, <1>2, <1>3, RefusalKeeps
<1>4. log' \in Seq(Rows') /\ \A m \in Rows' : m \in Rows /\ m.owner # c
  BY <1>1, <1>2, RefusalRows
<1>5. LogTypes'
  BY <1>2, <1>4 DEF LogTypes, CostsAlone
<1>6. \A m \in Rows' : m.owner # None =>
        m.owner \in Callers \ {c} /\ pc'[m.owner] = pc[m.owner] /\ call'[m.owner] = call[m.owner]
  BY <1>2, <1>4 DEF LogTypes, Alone
<1>7. OwnersMove'
  BY <1>2, <1>4, <1>6 DEF OwnersMove
<1>8. EntryIds' = EntryIds
  BY <1>1 DEF books, EntryIds
<1>9. \A m \in Rows' : Named(m)'
  BY <1>2, <1>4, <1>6, <1>8 DEF Named
<1>10. ASSUME NEW d \in Callers, d # c PROVE Owned(d)' = Owned(d)
  <2> DEFINE some == {m \in Rows : m.owner = d}
             left == {m \in Rows' : m.owner = d}
  <2>1. some \subseteq Rows /\ (\A m \in some : m.owner # c) /\ \A m \in Rows' : m \in left <=> m \in some
    BY <1>4, <1>10
  <2> HIDE DEF some, left
  <2>2. Among(log', left) = Among(log, some)
    BY <1>3, <2>1
  <2> QED
    BY <2>2 DEF Owned, some, left
<1>11. ASSUME NEW id PROVE MovedBy(id)' = MovedBy(id)
  <2>1. /\ MovedIn(Rows, id) \subseteq Rows /\ \A m \in MovedIn(Rows, id) : m.owner # c
        /\ \A m \in Rows' : m \in MovedIn(Rows', id) <=> m \in MovedIn(Rows, id)
    BY <1>4 DEF MovedIn
  <2>2. Among(log', MovedIn(Rows', id)) = Among(log, MovedIn(Rows, id))
    BY <1>3, <2>1
  <2> QED
    BY <1>2, <1>5, <2>2, MovedByRows
<1>12. RowsWritten(c)' /\ Fresh(c)
  BY <1>1 DEF RowsWritten, Fresh, Inserted
<1> QED
  BY <1>1, <1>5, <1>7, <1>9, <1>10, <1>11, <1>12, LogStep

\* The log one row longer.
LEMMA AppendKeeps ==
    ASSUME LogTypes, NEW row, log' = Append(log, row), NEW some, NEW more,
           \A m \in Rows : m \in more <=> m \in some
    PROVE  /\ Rows' = Rows \cup {row} /\ log' \in Seq(Rows')
           /\ Among(log', more) = IF row \in more THEN Append(Among(log, some), row) ELSE Among(log, some)
<1> DEFINE S == Rows \cup {row}
<1>1. log \in Seq(Rows) /\ log \in Seq(S) /\ row \in S
  BY DEF LogTypes
<1>2. Among(log, more) = Among(log, some)
  BY <1>1, AmongSame
<1> HIDE DEF S
<1>3. Among(Append(log, row), more) = IF row \in more THEN Append(Among(log, more), row) ELSE Among(log, more)
  BY <1>1, AmongAppend
<1>4. Rows' = Rows \cup {row}
  <2>1. /\ DOMAIN log' = 1 .. Len(log) + 1 /\ log'[Len(log) + 1] = row /\ DOMAIN log = 1 .. Len(log)
        /\ Len(log) \in Nat /\ \A i \in 1 .. Len(log) : log'[i] = log[i]
    BY <1>1
  <2>2. 1 .. Len(log) + 1 = (1 .. Len(log)) \cup {Len(log) + 1}
    BY <2>1
  <2> QED
    BY <2>1, <2>2 DEF Rows
<1>5. log' \in Seq(S)
  BY <1>1
<1> QED
  BY <1>2, <1>3, <1>4, <1>5 DEF S

\* A caller writes its next movement, or has written them all.
LEMMA WriteStep ==
    ASSUME TypeOK, WholeIInv, NEW c \in Callers, Labelled(c), Alone(c), CostsAlone(c), WriteMovement(c)
    PROVE  WholeIInv'
<1> DEFINE mine == Owned(c)
           all  == Movements(c)
           row  == all[Len(mine) + 1]
<1>1. /\ pc[c] = "stock" /\ UNCHANGED books /\ call' = call /\ costs' = costs
      /\ IF Len(mine) < Len(all) THEN log' = Append(log, row) /\ pc' = pc
         ELSE pc'[c] = "document" /\ log' = log
      /\ numbers' = numbers
  BY DEF WriteMovement, Goto, TypeOK, held
<1>2. /\ Len(all) \in Nat /\ all = [i \in 1 .. Len(all) |-> all[i]]
      /\ \A i \in DOMAIN all : IsRowOf(c, all[i])
  <2>1. call[c] \in Postings \cup Moves
    BY <1>1 DEF Labelled
  <2> QED
    BY <2>1, MovementsFacts
<1>3. Begins(mine, all) /\ LogTypes /\ OwnersMove /\ \A m \in Rows : Named(m)
  BY <1>1, WholeParts DEF WholeIInv, RowsWritten
<1>4. mine \in Seq(Rows) /\ Len(mine) \in Nat
  <2> DEFINE owned == OwnedIn(Rows, c)
  <2>1. Among(log, owned) \in Seq(Rows \cap owned)
    BY <1>3, AmongTyped DEF LogTypes
  <2>2. Among(log, owned) \in Seq(Rows)
    BY <2>1, SeqMonotonic
  <2>3. mine = Among(log, owned)
    BY DEF Owned, OwnedIn
  <2> HIDE DEF mine, owned
  <2> QED
    BY <2>2, <2>3
<1>5. Movements(c)' = all
  BY <1>1 DEF Movements
<1>6. CASE ~(Len(mine) < Len(all))
  <2>1. Len(mine) = Len(all)
    <3>1. Len(mine) <= Len(all)
      BY <1>3 DEF Begins
    <3> HIDE DEF mine, all
    <3> QED
      BY <1>2, <1>4, <1>6, <3>1
  <2>2. mine = all
    BY <1>2, <1>3, <2>1 DEF Begins
  <2>3. Rows' = Rows /\ pc'[c] = "document" /\ log' = log
    BY <1>1, <1>6 DEF Rows
  <2>4. Owned(c)' = mine
    BY <2>3 DEF Owned
  <2>5. RowsWritten(c)'
    BY <1>5, <2>2, <2>3, <2>4 DEF RowsWritten
  <2>6. Inserted(c)' = Inserted(c)
    <3>1. \A i : Written(c, i)' = Written(c, i)
      BY <1>1 DEF Written, Vouchers
    <3> QED
      BY <1>1, <2>3, <3>1 DEF Inserted, Vouchers
  <2> QED
    BY <1>1, <2>3, <2>5, <2>6, QuietStep DEF Fresh, Moving
<1>7. CASE Len(mine) < Len(all)
  <2> HIDE DEF mine, all
  <2>1. log' = Append(log, row) /\ pc' = pc
    BY <1>1, <1>7
  <2>2. Len(mine) + 1 \in DOMAIN all
    BY <1>2, <1>4, <1>7
  <2>3. RowShape(row) /\ row.voucher = call[c].voucher.id /\ row.owner = c
    BY <1>2, <2>2 DEF IsRowOf
  <2> HIDE DEF row
  <2>4. Rows' = Rows \cup {row} /\ log' \in Seq(Rows')
    BY <1>3, <2>1, AppendKeeps
  <2>5. LogTypes'
    BY <1>1, <1>3, <2>3, <2>4 DEF LogTypes
  <2>6. OwnersMove' /\ \A m \in Rows' : Named(m)'
    <3>1. OwnersMove'
      BY <1>1, <1>3, <2>1, <2>3, <2>4 DEF OwnersMove, Moving
    <3>2. EntryIds' = EntryIds
      BY <1>1 DEF books, EntryIds
    <3> QED
      BY <1>1, <1>3, <2>3, <2>4, <3>1, <3>2 DEF Named
  <2>7. ASSUME NEW d \in Callers \cup {None}
        PROVE  Owned(d)' = IF d = c THEN Append(Owned(d), row) ELSE Owned(d)
    <3>1. \A m \in Rows : m \in OwnedIn(Rows', d) <=> m \in OwnedIn(Rows, d)
      BY <2>4 DEF OwnedIn
    <3>2. row \in OwnedIn(Rows', d) <=> d = c
      BY <2>3, <2>4 DEF OwnedIn
    <3>3. Among(log', OwnedIn(Rows', d)) =
            IF row \in OwnedIn(Rows', d) THEN Append(Among(log, OwnedIn(Rows, d)), row)
            ELSE Among(log, OwnedIn(Rows, d))
      BY <1>3, <2>1, <3>1, AppendKeeps
    <3>4. Owned(d) = Among(log, OwnedIn(Rows, d)) /\ Owned(d)' = Among(log', OwnedIn(Rows', d))
      BY DEF Owned, OwnedIn
    <3> QED
      BY <3>2, <3>3, <3>4
  <2>8. ASSUME NEW id PROVE MovedBy(id)' = MovedBy(id)
    <3>1. \A m \in Rows : m \in MovedIn(Rows', id) <=> m \in MovedIn(Rows, id)
      BY <2>4 DEF MovedIn
    <3>2. row \notin MovedIn(Rows', id)
      BY <2>3 DEF MovedIn
    <3>3. Among(log', MovedIn(Rows', id)) = Among(log, MovedIn(Rows, id))
      BY <1>3, <2>1, <3>1, <3>2, AppendKeeps
    <3> QED
      BY <1>3, <2>5, <3>3, MovedByRows
  <2>9. RowsWritten(c)'
    <3>1. Owned(c)' = Append(mine, row)
      BY <2>7 DEF mine
    <3> DEFINE longer == Append(mine, row)
    <3>2. Len(longer) = Len(mine) + 1 /\ Len(longer) <= Len(all)
      BY <1>2, <1>4, <1>7
    <3>3. longer = [i \in 1 .. Len(mine) + 1 |-> longer[i]]
      <4>1. longer \in Seq(Rows \cup {row})
        BY <1>4
      <4> HIDE DEF longer
      <4> QED
        BY <3>2, <4>1, LenProperties
    <3>4. \A i \in 1 .. Len(mine) : longer[i] = mine[i] /\ mine[i] = all[i]
      BY <1>3, <1>4 DEF Begins
    <3>5. longer[Len(mine) + 1] = all[Len(mine) + 1]
      BY <1>4 DEF row
    <3>6. \A i \in 1 .. Len(mine) + 1 : longer[i] = all[i]
      BY <1>4, <3>4, <3>5
    <3> HIDE DEF longer
    <3>7. Begins(longer, all)
      BY <3>2, <3>3, <3>6 DEF Begins
    <3> QED
      BY <1>1, <1>5, <2>1, <3>1, <3>7 DEF RowsWritten, longer
  <2>10. Fresh(c)
    <3>1. \A i : Written(c, i)' = Written(c, i)
      BY <1>1 DEF Written, Vouchers
    <3>2. Inserted(c)' = Inserted(c)
      BY <1>1, <2>1, <3>1 DEF Inserted, Vouchers
    <3> QED
      BY <3>2 DEF Fresh
  <2> QED
    BY <1>1, <2>5, <2>6, <2>7, <2>8, <2>9, <2>10, LogStep
<1> QED
  BY <1>6, <1>7

\* The log longer by a list of rows none of which is kept.
LEMMA JoinKeeps ==
    ASSUME LogTypes, NEW T, NEW more \in Seq(T), log' = log \o more
    PROVE  /\ log' \in Seq(Rows') /\ Rows' \subseteq Rows \cup T /\ Rows \subseteq Rows'
           /\ \A some, left :
                 (\A m \in Rows : m \in left <=> m \in some) /\ (\A m \in T : m \notin left)
                    => Among(log', left) = Among(log, some)
<1> DEFINE S == Rows \cup T
<1>1. log \in Seq(Rows) /\ log \in Seq(S) /\ more \in Seq(S) /\ T \subseteq S
  BY DEF LogTypes
<1>2. Rows \subseteq S
  OBVIOUS
<1>3. S = Rows \cup T
  OBVIOUS
<1> HIDE DEF S
<1>4. /\ log' \in Seq(S) /\ Len(log') = Len(log) + Len(more)
      /\ \A i \in 1 .. Len(log) + Len(more) :
            log'[i] = IF i <= Len(log) THEN log[i] ELSE more[i - Len(log)]
  BY <1>1, ConcatProperties
<1>5. log' \in Seq(Rows')
  <2>1. log' \in Seq(S)
    BY <1>4
  <2>2. log' \in Seq({log'[i] : i \in DOMAIN log'})
    <3> DEFINE longer == log'
    <3>1. longer \in Seq(S)
      BY <2>1
    <3> HIDE DEF longer
    <3>2. longer \in Seq({longer[i] : i \in DOMAIN longer})
      BY <3>1, OwnRows
    <3> QED
      BY <3>2 DEF longer
  <2> QED
    BY <2>2 DEF Rows
<1>6. Rows' \subseteq S
  <2>1. \A i \in DOMAIN log' : log'[i] \in S
    BY <1>4, ElementOfSeq, LenProperties
  <2> QED
    BY <2>1 DEF Rows
<1>7. Rows \subseteq Rows'
  <2>1. /\ DOMAIN log = 1 .. Len(log) /\ Len(log) \in Nat /\ Len(more) \in Nat
        /\ DOMAIN log' = 1 .. Len(log')
    BY <1>1, <1>4, LenProperties
  <2>2. \A i \in DOMAIN log : i \in DOMAIN log' /\ log'[i] = log[i]
    BY <1>4, <2>1
  <2> QED
    BY <2>2 DEF Rows
<1>8. ASSUME NEW some, NEW left, \A m \in Rows : m \in left <=> m \in some, \A m \in T : m \notin left
      PROVE  Among(log', left) = Among(log, some)
  <2>1. Among(log, left) = Among(log, some)
    BY <1>1, <1>8, AmongSame
  <2>2. more \in Seq(S \ left)
    <3>1. T \subseteq S \ left
      BY <1>1, <1>8
    <3> QED
      BY <3>1, SeqMonotonic
  <2>3. Among(log \o more, left) = Among(log, left)
    BY <1>1, <2>2, AmongMore
  <2> QED
    BY <2>1, <2>3
<1> QED
  BY <1>3, <1>5, <1>6, <1>7, <1>8

\* A bare movement is nobody's: its rows join the log and name no entry.
LEMMA RecordStep ==
    ASSUME TypeOK, WholeIInv, NEW c \in Callers, Alone(c), CostsAlone(c), RecordMovement(c)
    PROVE  WholeIInv'
<1>1. CASE Refuse(c)
  BY <1>1, RefuseStep
<1>2. CASE ~Refuse(c)
  <2> DEFINE all  == Movements(c)
             rows == [i \in DOMAIN all |-> [all[i] EXCEPT !.owner = None]]
             T    == {rows[i] : i \in DOMAIN all}
  <2>1. /\ pc[c] = "record" /\ pc'[c] = "idle" /\ UNCHANGED books /\ log' = log \o rows
    BY <1>2 DEF RecordMovement, Answer, Goto, TypeOK
  <2>2. call[c] \in Moves /\ call[c].voucher.id = None
    BY <2>1 DEF WholeIInv, RowsWritten
  <2>3. /\ Len(all) \in Nat /\ all = [i \in 1 .. Len(all) |-> all[i]]
        /\ \A i \in DOMAIN all : IsRowOf(c, all[i])
    BY <2>2, MovementsFacts
  <2>4. \A m \in T : RowShape(m) /\ m.owner = None /\ m.voucher = None
    <3> HIDE DEF all
    <3> SUFFICES ASSUME NEW i \in DOMAIN all
                 PROVE  RowShape(rows[i]) /\ rows[i].owner = None /\ rows[i].voucher = None
      OBVIOUS
    <3>1. RowShape(all[i]) /\ all[i].voucher = None
      BY <2>2, <2>3 DEF IsRowOf
    <3> DEFINE row == [all[i] EXCEPT !.owner = None]
    <3>2. row = [item |-> all[i].item, kind |-> all[i].kind, quantity |-> all[i].quantity,
                 cost |-> all[i].cost, voucher |-> all[i].voucher, owner |-> None]
      BY <3>1 DEF RowShape
    <3>3. rows[i] = row
      OBVIOUS
    <3> HIDE DEF row, rows
    <3> QED
      BY <3>1, <3>2, <3>3 DEF RowShape
  <2>5. rows \in Seq(T)
    <3>1. DOMAIN rows = 1 .. Len(all) /\ rows = [i \in 1 .. Len(all) |-> rows[i]]
      BY <2>3
    <3>2. \A i \in 1 .. Len(all) : rows[i] \in T
      BY <2>3
    <3> HIDE DEF all, rows, T
    <3> QED
      BY <2>3, <3>1, <3>2
  <2> HIDE DEF all, rows, T
  <2>6. LogTypes /\ OwnersMove /\ \A m \in Rows : Named(m)
    BY WholeParts DEF WholeIInv
  <2>7. /\ log' \in Seq(Rows') /\ Rows' \subseteq Rows \cup T /\ Rows \subseteq Rows'
        /\ \A some, left :
              (\A m \in Rows : m \in left <=> m \in some) /\ (\A m \in T : m \notin left)
                 => Among(log', left) = Among(log, some)
    BY <2>1, <2>5, <2>6, JoinKeeps
  <2>8. LogTypes'
    BY <2>4, <2>6, <2>7 DEF LogTypes, CostsAlone
  <2>9. \A m \in Rows : m.owner # None => m.owner \in Callers \ {c}
    BY <2>1, <2>6 DEF LogTypes, OwnersMove, Moving
  <2>10. OwnersMove'
    BY <2>4, <2>6, <2>7, <2>9 DEF OwnersMove, Alone
  <2>11. EntryIds' = EntryIds
    BY <2>1 DEF books, EntryIds
  <2>12. \A m \in Rows' : Named(m)'
    BY <2>4, <2>6, <2>7, <2>9, <2>11 DEF Named, Alone
  <2>13. ASSUME NEW d \in Callers PROVE Owned(d)' = Owned(d)
    <3>1. \A m \in Rows : m \in OwnedIn(Rows', d) <=> m \in OwnedIn(Rows, d)
      BY <2>7 DEF OwnedIn
    <3>2. \A m \in T : m \notin OwnedIn(Rows', d)
      BY <2>4 DEF OwnedIn
    <3>3. Among(log', OwnedIn(Rows', d)) = Among(log, OwnedIn(Rows, d))
      BY <2>7, <3>1, <3>2
    <3> QED
      BY <3>3 DEF Owned, OwnedIn
  <2>14. ASSUME NEW id \in EntryIds PROVE MovedBy(id)' = MovedBy(id)
    <3>0. id # None
      <4>1. PICK p \in Postings : Filed(id, p)
        BY WholeParts DEF WholeIInv
      <4> QED
        BY <4>1 DEF Filed, Voucher
    <3>1. \A m \in Rows : m \in MovedIn(Rows', id) <=> m \in MovedIn(Rows, id)
      BY <2>7 DEF MovedIn
    <3>2. \A m \in T : m \notin MovedIn(Rows', id)
      BY <2>4, <3>0 DEF MovedIn
    <3>3. Among(log', MovedIn(Rows', id)) = Among(log, MovedIn(Rows, id))
      BY <2>7, <3>1, <3>2
    <3> QED
      BY <2>6, <2>8, <3>3, MovedByRows
  <2>15. RowsWritten(c)' /\ Fresh(c)
    BY <2>1 DEF RowsWritten, Fresh, Inserted
  <2> QED
    BY <2>1, <2>8, <2>10, <2>12, <2>13, <2>14, <2>15, LogStep
<1> QED
  BY <1>1, <1>2

\* What a commit makes of the rows: its caller's are the books'.
Given(c) == [m \in Rows |-> IF m.owner = c THEN [m EXCEPT !.owner = None] ELSE m]

\* A row that is given keeps what it says.
LEMMA GivenFacts ==
    ASSUME LogTypes, NEW c, NEW m \in Rows
    PROVE  /\ RowShape(Given(c)[m]) /\ Given(c)[m].item = m.item /\ Given(c)[m].quantity = m.quantity
           /\ Given(c)[m].voucher = m.voucher
           /\ Given(c)[m].owner = IF m.owner = c THEN None ELSE m.owner
           /\ m.owner # c => Given(c)[m] = m
<1>1. RowShape(m)
  BY DEF LogTypes
<1>2. CASE m.owner = c
  <2>1. Given(c)[m] = [m EXCEPT !.owner = None]
    BY <1>2 DEF Given
  <2>2. [m EXCEPT !.owner = None] =
          [item |-> m.item, kind |-> m.kind, quantity |-> m.quantity, cost |-> m.cost,
           voucher |-> m.voucher, owner |-> None]
    BY <1>1 DEF RowShape
  <2> QED
    BY <1>2, <2>1, <2>2 DEF RowShape
<1>3. CASE m.owner # c
  BY <1>1, <1>3 DEF Given
<1> QED
  BY <1>2, <1>3

\* A list none of whose rows changes stays what it is.
LEMMA ChangedSame ==
    ASSUME NEW S, NEW s \in Seq(S), NEW change, \A e \in S : change[e] = e
    PROVE  Changed(s, change) = s
<1>1. DOMAIN s = 1 .. Len(s) /\ s = [i \in 1 .. Len(s) |-> s[i]]
  BY LenProperties
<1>2. \A i \in 1 .. Len(s) : change[s[i]] = s[i]
  BY ElementOfSeq
<1> QED
  BY <1>1, <1>2 DEF Changed

\* The rows after a commit, and what is kept of them.
LEMMA CommitKeeps ==
    ASSUME LogTypes, NEW c, log' = Changed(log, Given(c))
    PROVE  /\ Rows' = {Given(c)[m] : m \in Rows} /\ log' \in Seq(Rows')
           /\ \A some, left :
                 (\A m \in Rows : Given(c)[m] \in left <=> m \in some)
                    => Among(log', left) = Changed(Among(log, some), Given(c))
           /\ \A some :
                 (\A m \in Rows : m \in some => m.owner # c)
                    => Changed(Among(log, some), Given(c)) = Among(log, some)
<1>1. log \in Seq(Rows) /\ DOMAIN log = 1 .. Len(log) /\ Len(log) \in Nat
  BY LenProperties DEF LogTypes
<1>2. DOMAIN log' = DOMAIN log /\ \A i \in DOMAIN log : log'[i] = Given(c)[log[i]]
  BY DEF Changed
<1>3. Rows' = {Given(c)[m] : m \in Rows}
  BY <1>2 DEF Rows
<1>4. log' \in Seq(Rows')
  <2> DEFINE longer == log'
  <2>1. longer = [i \in 1 .. Len(log) |-> longer[i]]
    BY <1>1 DEF Changed
  <2>2. \A i \in 1 .. Len(log) : longer[i] \in Rows'
    BY <1>1, <1>2 DEF Rows
  <2> HIDE DEF longer
  <2>3. longer \in Seq(Rows')
    BY <1>1, <2>1, <2>2
  <2> QED
    BY <2>3 DEF longer
<1>5. ASSUME NEW some, NEW left, \A m \in Rows : Given(c)[m] \in left <=> m \in some
      PROVE  Among(log', left) = Changed(Among(log, some), Given(c))
  BY <1>1, <1>5, AmongChanged
<1>6. ASSUME NEW some, \A m \in Rows : m \in some => m.owner # c
      PROVE  Changed(Among(log, some), Given(c)) = Among(log, some)
  <2>1. Among(log, some) \in Seq(Rows \cap some)
    BY <1>1, AmongTyped
  <2>2. \A m \in Rows \cap some : Given(c)[m] = m
    BY <1>6, GivenFacts
  <2> QED
    BY <2>1, <2>2, ChangedSame
<1> QED
  BY <1>3, <1>4, <1>5, <1>6

\* An entry is named by one of its own vouchers.
LEMMA EntryOnFile ==
    ASSUME WholeIInv, NEW entry \in EntryIds
    PROVE  \E v \in vouchers : v.id = entry
<1>1. PICK p \in Postings : Filed(entry, p)
  BY WholeParts DEF WholeIInv
<1>2. 1 \in DOMAIN Vouchers(p) /\ Vouchers(p)[1].id = entry
  BY <1>1, VoucherFacts DEF Filed
<1>3. entry \in {Vouchers(p)[i].id : i \in DOMAIN Vouchers(p)}
  BY <1>2
<1>4. entry \in {w.id : w \in {v \in vouchers : v.of = entry}}
  BY <1>1, <1>3 DEF Filed
<1> QED
  BY <1>4

\* The transaction's rows become the books', all of them.
LEMMA CommitStep ==
    ASSUME TypeOK, WholeIInv, NEW c \in Callers, Labelled(c), Alone(c), CostsAlone(c), Commit(c)
    PROVE  WholeIInv'
<1> DEFINE r == call[c]
           x == r.voucher.id
           indices == DOMAIN Vouchers(r)
           added   == {Written(c, i) : i \in indices}
<1>1. /\ pc[c] = "commit" /\ pc'[c] = "idle"
      /\ vouchers' = vouchers \cup added
      /\ keys' = IF r.key = None THEN keys ELSE keys \cup {[key |-> r.key, voucher |-> x]}
      /\ documented' = IF r.document = None THEN documented ELSE documented \cup {x}
  BY DEF Commit, Answer, Goto, TypeOK
<1>2. r \in Postings /\ r.voucher.id \in STRING /\ 1 \in indices /\ Vouchers(r)[1].id = x
  <2>1. r \in Postings
    BY <1>1 DEF Labelled
  <2>2. Vouchers(r)[1] = r.voucher /\ 1 \in indices
    BY <2>1, VoucherFacts
  <2> QED
    BY <2>1, <2>2 DEF Voucher
<1>3. \A i \in indices : Written(c, i).of = x /\ Written(c, i).id = Vouchers(r)[i].id
  BY DEF Written
<1>4. Inserted(c) = {Written(c, i).id : i \in indices}
  BY <1>1 DEF Inserted
<1>5. LogTypes /\ OwnersMove /\ IdsApart /\ (\A m \in Rows : Named(m)) /\ Owned(c) = Movements(c)
  BY <1>1, WholeParts DEF WholeIInv, RowsWritten
<1>6. x \notin EntryIds /\ x # None
  <2>1. \A v \in vouchers : v.id # x
    BY <1>2, <1>3, <1>4, <1>5 DEF IdsApart
  <2> QED
    BY <1>2, <2>1, EntryOnFile
<1>7. EntryIds' = EntryIds \cup {x}
  <2>1. {v.of : v \in added} = {x}
    BY <1>2, <1>3, SMTT(20)
  <2> QED
    BY <1>1, <2>1 DEF EntryIds
<1>8. log' = Changed(log, Given(c))
  <2>1. log' = [i \in DOMAIN log |-> IF log[i].owner = c THEN [log[i] EXCEPT !.owner = None] ELSE log[i]]
    BY DEF Commit
  <2>2. \A i \in DOMAIN log :
          Given(c)[log[i]] = IF log[i].owner = c THEN [log[i] EXCEPT !.owner = None] ELSE log[i]
    BY DEF Given, Rows
  <2> QED
    BY <2>1, <2>2 DEF Changed
<1>9. /\ Rows' = {Given(c)[m] : m \in Rows} /\ log' \in Seq(Rows')
      /\ \A some, left :
            (\A m \in Rows : Given(c)[m] \in left <=> m \in some)
               => Among(log', left) = Changed(Among(log, some), Given(c))
      /\ \A some :
            (\A m \in Rows : m \in some => m.owner # c)
               => Changed(Among(log, some), Given(c)) = Among(log, some)
  BY <1>5, <1>8, CommitKeeps
<1>10. \A m \in Rows :
         /\ RowShape(Given(c)[m]) /\ Given(c)[m].voucher = m.voucher
         /\ Given(c)[m].owner = IF m.owner = c THEN None ELSE m.owner
         /\ Given(c)[m] \in Rows'
  BY <1>5, <1>9, GivenFacts
<1>11. LogTypes'
  BY <1>5, <1>9, <1>10 DEF LogTypes, CostsAlone
<1>12. OwnersMove'
  BY <1>5, <1>9, <1>10 DEF OwnersMove, LogTypes, Alone
<1>13. ASSUME NEW row \in Rows' PROVE Named(row)'
  <2>1. PICK m \in Rows : row = Given(c)[m]
    BY <1>9
  <2>2. Named(m) /\ m.owner \in Callers \cup {None}
    BY <1>5 DEF LogTypes
  <2>3. row.voucher = m.voucher /\ row.owner = IF m.owner = c THEN None ELSE m.owner
    BY <1>10, <2>1
  <2>4. CASE m.owner = c
    <3>1. m.voucher = x
      BY <2>2, <2>4 DEF Named
    <3> QED
      BY <1>7, <2>3, <2>4, <3>1 DEF Named
  <2>5. CASE m.owner = None
    BY <1>7, <2>2, <2>3, <2>5 DEF Named
  <2>6. CASE m.owner \in Callers \ {c}
    <3>1. call'[m.owner] = call[m.owner]
      BY <2>6 DEF Alone
    <3> QED
      BY <2>2, <2>3, <2>6, <3>1 DEF Named
  <2> QED
    BY <2>2, <2>4, <2>5, <2>6
<1>14. ASSUME NEW d \in Callers, d # c PROVE RowsWritten(d)'
  <2>1. \A m \in Rows : Given(c)[m] \in OwnedIn(Rows', d) <=> m \in OwnedIn(Rows, d)
    BY <1>10, <1>14 DEF OwnedIn
  <2>2. \A m \in Rows : m \in OwnedIn(Rows, d) => m.owner # c
    BY <1>14 DEF OwnedIn
  <2>3. Among(log', OwnedIn(Rows', d)) = Among(log, OwnedIn(Rows, d))
    BY <1>9, <2>1, <2>2
  <2>4. Owned(d)' = Owned(d)
    BY <2>3 DEF Owned, OwnedIn
  <2>5. Movements(d)' = Movements(d) /\ pc'[d] = pc[d] /\ call'[d] = call[d]
    BY <1>14, AloneWrites DEF Alone
  <2>6. RowsWritten(d)
    BY DEF WholeIInv
  <2> QED
    BY <2>4, <2>5, <2>6 DEF RowsWritten, Begins
<1>15. RowsWritten(c)'
  BY <1>1 DEF RowsWritten
<1>16. IdsApart'
  <2>1. Inserted(c)' = {}
    BY <1>1 DEF Inserted
  <2>2. \A d \in Callers \ {c} : Inserted(d)' = Inserted(d)
    BY AloneWrites
  <2>3. \A d \in Callers \ {c} : \A v \in added : v.id \notin Inserted(d)
    BY <1>4, <1>5 DEF IdsApart
  <2> HIDE DEF added
  <2> QED
    BY <1>1, <1>5, <2>1, <2>2, <2>3 DEF IdsApart
<1>17. ASSUME NEW entry \in EntryIds PROVE \E p \in Postings : Filed(entry, p)'
  <2>1. PICK p \in Postings : Filed(entry, p)
    BY WholeParts DEF WholeIInv
  <2>2. entry # x
    BY <1>6
  <2>3. \A m \in Rows : Given(c)[m] \in MovedIn(Rows', entry) <=> m \in MovedIn(Rows, entry)
    BY <1>5, <1>10, <2>2 DEF MovedIn, Named
  <2>4. \A m \in Rows : m \in MovedIn(Rows, entry) => m.owner # c
    BY DEF MovedIn
  <2>5. Among(log', MovedIn(Rows', entry)) = Among(log, MovedIn(Rows, entry))
    BY <1>9, <2>3, <2>4
  <2>6. MovedBy(entry)' = MovedBy(entry)
    BY <1>5, <1>11, <2>5, MovedByRows
  <2>7. {w \in vouchers' : w.of = entry} = {w \in vouchers : w.of = entry}
    BY <1>1, <1>3, <2>2
  <2>8. keys \subseteq keys' /\ documented \subseteq documented'
    BY <1>1
  <2>9. Filed(entry, p)'
    BY <2>1, <2>6, <2>7, <2>8 DEF Filed
  <2> QED
    BY <2>9
<1>18. ASSUME NEW entry, entry = x, NEW p, p = r PROVE Filed(entry, p)'
  <2>1. \A m \in Rows : Given(c)[m] \in MovedIn(Rows', entry) <=> m \in OwnedIn(Rows, c)
    BY <1>5, <1>6, <1>10, <1>18 DEF MovedIn, OwnedIn, Named, LogTypes
  <2>2. Among(log', MovedIn(Rows', entry)) = Changed(Among(log, OwnedIn(Rows, c)), Given(c))
    BY <1>9, <2>1
  <2> DEFINE mine == Among(log, OwnedIn(Rows, c))
  <2>3. MovedBy(entry)' = Changed(mine, Given(c)) /\ mine = Movements(c)
    <3>1. MovedBy(entry)' = Among(log', MovedIn(Rows', entry))
      BY <1>11, MovedByRows
    <3>2. mine = Owned(c)
      BY DEF Owned, OwnedIn
    <3> QED
      BY <1>5, <2>2, <3>1, <3>2
  <2>4. mine \in Seq(Rows)
    <3>1. mine \in Seq(Rows \cap OwnedIn(Rows, c))
      BY <1>5, AmongTyped DEF LogTypes
    <3> HIDE DEF mine
    <3> QED
      BY <3>1, SeqMonotonic
  <2> HIDE DEF mine
  <2>5. Quantities(Changed(mine, Given(c))) = Quantities(mine)
    <3>1. \A i \in DOMAIN mine : mine[i] \in Rows
      BY <2>4, ElementOfSeq, LenProperties
    <3>2. \A i \in DOMAIN mine : /\ Given(c)[mine[i]].item = mine[i].item
                                 /\ Given(c)[mine[i]].quantity = mine[i].quantity
      BY <1>5, <3>1, GivenFacts
    <3> QED
      BY <3>2 DEF Quantities, Changed
  <2>6. Quantities(MovedBy(entry))' = Quantities(r.issues) \o Quantities(r.receipts)
    <3>1. Quantities(Movements(c)) = Quantities(r.issues) \o Quantities(r.receipts)
      BY <1>2, MovementsFacts
    <3>2. Quantities(MovedBy(entry))' = Quantities(Changed(mine, Given(c)))
      BY <2>3 DEF Quantities
    <3> QED
      BY <2>3, <2>5, <3>1, <3>2
  <2>7. {w.id : w \in {v \in vouchers' : v.of = x}} = {Vouchers(r)[i].id : i \in indices}
    <3>1. {v \in vouchers' : v.of = x} = added
      <4>1. \A v \in vouchers : v.of # x
        BY <1>6 DEF EntryIds
      <4>2. \A v \in added : v.of = x
        BY <1>3
      <4> HIDE DEF added
      <4> QED
        BY <1>1, <4>1, <4>2
    <3>2. {w.id : w \in added} = {Vouchers(r)[i].id : i \in indices}
      BY <1>3
    <3> QED
      BY <3>1, <3>2
  <2>8. r.key # None => [key |-> r.key, voucher |-> x] \in keys'
    BY <1>1
  <2>9. r.document # None => x \in documented'
    BY <1>1
  <2> QED
    BY <1>18, <2>6, <2>7, <2>8, <2>9, ZenonT(60) DEF Filed
<1>19. {k.voucher : k \in keys'} \subseteq EntryIds' /\ documented' \subseteq EntryIds'
  BY <1>1, <1>7, WholeParts DEF WholeIInv
<1>20. WholePostings'
  <2>1. \A entry \in EntryIds' : \E p \in Postings : Filed(entry, p)'
    <3> SUFFICES ASSUME NEW entry \in EntryIds' PROVE \E p \in Postings : Filed(entry, p)'
      OBVIOUS
    <3>1. CASE entry = x
      <4>1. PICK p \in Postings : p = r
        BY <1>2
      <4>2. Filed(entry, p)'
        BY <1>18, <3>1, <4>1
      <4> QED
        BY <4>2
    <3>2. CASE entry \in EntryIds
      BY <1>17, <3>2
    <3> QED
      BY <1>7, <3>1, <3>2
  <2>2. \A m \in Rows' : Named(m)'
    BY <1>13
  <2> QED
    BY <1>19, <2>1, <2>2 DEF WholePostings, Filed, Named
<1> QED
  BY <1>11, <1>12, <1>14, <1>15, <1>16, <1>20 DEF WholeIInv

\* A step that keeps what the caller holds and what the tables hold.
LEMMA ProceedStep ==
    ASSUME TypeOK, WholeIInv, NEW c \in Callers, Alone(c), CostsAlone(c), NEW l, Proceed(c, l),
           Fresh(c), RowsWritten(c)', pc[c] \in Moving => l \in Moving
    PROVE  WholeIInv'
<1>1. UNCHANGED books /\ log' = log /\ pc'[c] = l /\ call'[c] = call[c]
  BY DEF Proceed, Goto, TypeOK, held
<1> QED
  BY <1>1, QuietStep

\* A caller before its first insert has nothing to lose.
LEMMA EarlyStep ==
    ASSUME TypeOK, WholeIInv, NEW c \in Callers, Alone(c), CostsAlone(c), UNCHANGED books, log' = log,
           pc[c] \notin Moving, pc'[c] \notin Entered, pc'[c] = "record" => call'[c] \in Moves
    PROVE  WholeIInv'
<1>1. Inserted(c)' = {}
  BY DEF Inserted, Entered, Moving
<1>2. RowsWritten(c)'
  BY DEF RowsWritten, Entered, Moving
<1> QED
  BY <1>1, <1>2, QuietStep DEF Fresh

\* A caller between its first insert and its first movement.
LEMMA SaveSteps ==
    ASSUME TypeOK, WholeIInv, NEW c \in Callers, Labelled(c), Alone(c), CostsAlone(c),
           SaveEntry(c) \/ SaveKey(c) \/ SaveCost(c)
    PROVE  WholeIInv'
<1> USE DEF Entered, Moving
<1>1. call[c] \in Postings /\ pc[c] \in {"voucher", "key", "cost"}
  BY DEF SaveEntry, SaveKey, SaveCost, Labelled
<1>2. CASE Refuse(c)
  BY <1>2, RefuseStep
<1>3. ASSUME NEW l, Proceed(c, l)
      PROVE  /\ pc'[c] = l /\ call'[c] = call[c] /\ UNCHANGED books
             /\ \A i : Written(c, i)' = Written(c, i)
             /\ Vouchers(call[c])' = Vouchers(call[c])
             /\ Owned(c)' = Owned(c) /\ Movements(c)' = Movements(c)
  <2>1. pc'[c] = l /\ call' = call /\ numbers' = numbers /\ costs' = costs /\ log' = log /\ UNCHANGED books
    BY <1>3 DEF Proceed, Goto, TypeOK, held
  <2> QED
    BY <2>1 DEF Written, Vouchers, Owned, Rows, Movements
<1>4. CASE SaveEntry(c) /\ ~Refuse(c)
  <2>1. /\ Proceed(c, "key") /\ pc[c] = "voucher"
        /\ \A other \in Callers \ {c} : Written(c, 1).id \notin Inserted(other)
        /\ \A w \in vouchers : w.id # Written(c, 1).id
    BY <1>4 DEF SaveEntry, SaveVoucher
  <2>2. Inserted(c)' = {Written(c, 1).id}
    BY <1>3, <2>1 DEF Inserted
  <2>3. Fresh(c) /\ RowsWritten(c)'
    BY <1>3, <2>1, <2>2 DEF Fresh, RowsWritten
  <2> QED
    BY <2>1, <2>3, ProceedStep
<1>5. CASE SaveKey(c) /\ ~Refuse(c)
  <2>1. Proceed(c, "cost") /\ pc[c] = "key"
    BY <1>5 DEF SaveKey
  <2>2. Inserted(c)' = Inserted(c)
    BY <1>3, <2>1 DEF Inserted
  <2>3. Fresh(c) /\ RowsWritten(c)'
    BY <1>3, <2>1, <2>2 DEF Fresh, RowsWritten
  <2> QED
    BY <2>1, <2>3, ProceedStep
<1>6. CASE SaveCost(c) /\ ~Refuse(c)
  <2>1. /\ Proceed(c, "stock") /\ pc[c] = "cost"
        /\ call[c].cost # None =>
              /\ \A other \in Callers \ {c} : Written(c, 2).id \notin Inserted(other)
              /\ \A w \in vouchers : w.id # Written(c, 2).id
    BY <1>6 DEF SaveCost, SaveVoucher
  <2>2. Inserted(c)' = {Written(c, i).id : i \in DOMAIN Vouchers(call[c])}
    BY <1>3, <2>1 DEF Inserted
  <2>3. Inserted(c) = {Written(c, 1).id}
    BY <2>1 DEF Inserted
  <2>4. \A i \in DOMAIN Vouchers(call[c]) : i = 1 \/ (i = 2 /\ call[c].cost # None)
    BY <1>1, VoucherFacts
  <2>5. Fresh(c)
    BY <2>1, <2>2, <2>3, <2>4 DEF Fresh
  <2>6. Owned(c) = <<>>
    <3>1. LogTypes /\ \A m \in Rows : m.owner # c
      BY <2>1 DEF WholeIInv, OwnersMove, LogTypes
    <3> QED
      BY <3>1, OwnsNothing
  <2>7. Begins(<<>>, Movements(c))
    <3>1. Len(Movements(c)) \in Nat
      BY <1>1, MovementsFacts
    <3> QED
      BY <3>1 DEF Begins
  <2>8. RowsWritten(c)'
    BY <1>3, <2>1, <2>6, <2>7 DEF RowsWritten
  <2> QED
    BY <2>1, <2>5, <2>8, ProceedStep
<1> QED
  BY <1>2, <1>4, <1>5, <1>6

\* The last check before the commit.
LEMMA DocumentStep ==
    ASSUME TypeOK, WholeIInv, NEW c \in Callers, Alone(c), CostsAlone(c), RecordDocument(c)
    PROVE  WholeIInv'
<1>1. CASE Refuse(c)
  BY <1>1, RefuseStep
<1>2. CASE ~Refuse(c)
  <2>1. Proceed(c, "commit") /\ pc[c] = "document"
    BY <1>2 DEF RecordDocument
  <2>2. /\ pc'[c] = "commit" /\ call' = call /\ numbers' = numbers /\ costs' = costs /\ log' = log
    BY <2>1 DEF Proceed, Goto, TypeOK, held
  <2>3. Owned(c)' = Owned(c) /\ Movements(c)' = Movements(c)
    BY <2>2 DEF Owned, Rows, Movements
  <2>4. RowsWritten(c)'
    BY <2>1, <2>2, <2>3 DEF WholeIInv, RowsWritten
  <2>5. Inserted(c)' = Inserted(c)
    BY <2>1, <2>2 DEF Inserted, Written, Vouchers
  <2> QED
    BY <2>1, <2>4, <2>5, ProceedStep DEF Fresh, Moving
<1> QED
  BY <1>1, <1>2

\* Every step keeps the postings whole.
LEMMA NextWhole ==
    ASSUME IInv, WholeIInv, [Next]_vars
    PROVE  WholeIInv'
<1>0. TypeOK /\ LogTypes /\ \A c \in Callers : Labelled(c)
  BY DEF IInv, WholeIInv
<1>1. ASSUME NEW c \in Callers, Alone(c), CostsAlone(c), Ask(c) PROVE WholeIInv'
  <2>1. /\ UNCHANGED books /\ log' = log /\ pc[c] = "idle" /\ pc'[c] = "price"
    BY <1>0, <1>1 DEF Ask, Goto, TypeOK
  <2> QED
    BY <1>0, <1>1, <2>1, EarlyStep DEF Entered, Moving
<1>2. ASSUME NEW c \in Callers, Alone(c), CostsAlone(c), Fail(c) PROVE WholeIInv'
  BY <1>0, <1>2, RefuseStep DEF Fail
<1>3. ASSUME NEW c \in Callers, Alone(c), CostsAlone(c), Step(c) PROVE WholeIInv'
  <2>1. CASE Refuse(c)
    BY <1>0, <1>3, <2>1, RefuseStep
  <2>2. CASE Price(c) /\ ~Refuse(c)
    <3>1. /\ UNCHANGED books /\ log' = log /\ pc[c] = "price" /\ call' = call
          /\ pc'[c] \in {"price", IF call[c].op = "move" THEN "record" ELSE "locks"}
      BY <1>0, <2>2 DEF Price, Goto, TypeOK
    <3>2. call[c].op = "move" => call[c] \in Moves
      BY <1>0, <3>1 DEF Labelled
    <3> QED
      BY <1>0, <1>3, <3>1, <3>2, EarlyStep DEF Entered, Moving
  <2>3. CASE (CheckLock(c) \/ CheckCostLock(c) \/ Admit(c) \/ EnsureSequence(c)) /\ ~Refuse(c)
    <3>1. /\ UNCHANGED books /\ log' = log
          /\ pc[c] \in {"locks", "costlock", "admit", "ensure"}
          /\ pc'[c] \in {"costlock", "rules", "ensure", "reserve"}
      BY <1>0, <2>3 DEF CheckLock, CheckCostLock, Admit, EnsureSequence, Proceed, Goto, TypeOK
    <3> QED
      BY <1>0, <1>3, <3>1, EarlyStep DEF Entered, Moving
  <2>4. CASE LoadRules(c) \/ ReserveSequence(c) \/ AdvanceSequence(c)
    <3>1. /\ UNCHANGED books /\ log' = log
          /\ pc[c] \in {"rules", "reserve", "advance"}
          /\ pc'[c] \in {"admit", "advance", "check"}
      BY <1>0, <2>4 DEF LoadRules, ReserveSequence, AdvanceSequence, Goto, TypeOK
    <3> QED
      BY <1>0, <1>3, <3>1, EarlyStep DEF Entered, Moving
  <2>5. CASE CheckStock(c) /\ ~Refuse(c)
    <3>1. UNCHANGED books /\ log' = log /\ pc[c] = "check" /\ pc'[c] = "voucher"
      BY <1>0, <2>5 DEF CheckStock, Goto, TypeOK
    <3> QED
      BY <1>0, <1>3, <3>1, EarlyStep DEF Entered, Moving
  <2>6. CASE SaveEntry(c) \/ SaveKey(c) \/ SaveCost(c)
    BY <1>0, <1>3, <2>6, SaveSteps
  <2>7. CASE WriteMovement(c)
    BY <1>0, <1>3, <2>7, WriteStep
  <2>8. CASE RecordDocument(c)
    BY <1>0, <1>3, <2>8, DocumentStep
  <2>9. CASE Commit(c)
    BY <1>0, <1>3, <2>9, CommitStep
  <2>10. CASE RecordMovement(c)
    BY <1>0, <1>3, <2>10, RecordStep
  <2>11. SequenceDeadlock(c) => Refuse(c)
    BY DEF SequenceDeadlock
  <2> QED
    BY <1>3, <2>1, <2>2, <2>3, <2>4, <2>5, <2>6, <2>7, <2>8, <2>9, <2>10, <2>11 DEF Step
<1>4. CASE Calendar \/ UNCHANGED vars
  <2>1. /\ vouchers' = vouchers /\ keys' = keys /\ documented' = documented /\ log' = log
        /\ pc' = pc /\ call' = call /\ costs' = costs /\ numbers' = numbers
    BY <1>4 DEF Calendar, vars, books, held
  <2>2. \A c \in Callers : /\ Movements(c)' = Movements(c) /\ Owned(c)' = Owned(c)
                           /\ Inserted(c)' = Inserted(c)
    BY <2>1 DEF Movements, Owned, Rows, Inserted, Written, Vouchers
  <2>3. Rows' = Rows /\ EntryIds' = EntryIds
    BY <2>1 DEF Rows, EntryIds
  <2>4. LogTypes' /\ OwnersMove' /\ IdsApart' /\ \A c \in Callers : RowsWritten(c)'
    BY <2>1, <2>2, <2>3 DEF WholeIInv, LogTypes, OwnersMove, IdsApart, RowsWritten
  <2>5. \A id : MovedBy(id)' = MovedBy(id)
    BY <2>1, <2>3 DEF MovedBy, Committed, Owned
  <2>6. WholePostings'
    BY <2>1, <2>3, <2>5 DEF WholeIInv, WholePostings
  <2> QED
    BY <2>4, <2>6 DEF WholeIInv
<1> QED
  BY <1>0, <1>1, <1>2, <1>3, <1>4, StepAlone, StepCostsAlone DEF Next

\* The postings are whole when the model starts: there are none.
LEMMA InitWhole ==
    ASSUME Init
    PROVE  WholeIInv
<1>1. \A m \in Rows : RowShape(m) /\ m.owner = None /\ m.voucher = None
  <2>1. \A i \in DOMAIN OpeningLog :
          /\ RowShape(OpeningLog[i]) /\ OpeningLog[i].owner = None /\ OpeningLog[i].voucher = None
    <3> TAKE i \in DOMAIN OpeningLog
    <3>1. OpeningLog[i] \in [item : STRING, kind : {"issue", "receipt"}, quantity : Int, cost : Int,
                             voucher : {None}, owner : {None}]
      BY OpeningLogAssumption, ElementOfSeq, LenProperties
    <3> QED
      BY <3>1 DEF RowShape
  <2> QED
    BY <2>1 DEF Init, Rows
<1>2. log \in Seq(Rows)
  <2>1. log = OpeningLog
    BY OpeningLogAssumption DEF Init
  <2> QED
    BY <2>1, OpeningLogAssumption, OwnRows DEF Rows
<1>3. LogTypes /\ OwnersMove
  BY <1>1, <1>2 DEF Init, LogTypes, OwnersMove
<1>4. IdsApart /\ \A c \in Callers : RowsWritten(c)
  BY DEF Init, IdsApart, RowsWritten, Inserted
<1>5. WholePostings
  BY <1>1 DEF Init, WholePostings, EntryIds
<1> QED
  BY <1>3, <1>4, <1>5 DEF WholeIInv

-----------------------------------------------------------------------------
(* The theorems.                                                           *)

\* The invariant holds when the model starts.
LEMMA InitIInv ==
    ASSUME Init
    PROVE  IInv
<1>1. TypeOK
  BY DEF Init, TypeOK, Labels
<1>2. \A c \in Callers : Labelled(c) /\ KeyIsMine(c)
  BY DEF Init, Labelled, KeyIsMine, HoldsKey, Unnumbered, Numbered
<1>3. NumberRuns /\ OneEntryPerRequest
  BY DEF Init, NumberRuns, BelowCounter, Unused, Distinct, Exclusive, Seated, OneEntryPerRequest
<1> QED
  BY <1>1, <1>2, <1>3 DEF IInv

\* Every step of the posting ledger keeps the invariant.
LEMMA NextIInv ==
    ASSUME IInv, [Next]_vars
    PROVE  IInv'
BY NextTypeOK, NextLabelled, NextNumberRuns, NextKeys DEF IInv

\* The inductive invariant: what every caller holds at its label, the runs of
\* the books, and the request keys.
THEOREM Invariant == Spec => []IInv
<1>1. Init => IInv
  BY InitIInv
<1>2. IInv /\ [Next]_vars => IInv'
  BY NextIInv
<1> QED
  BY <1>1, <1>2, PTL DEF Spec

\* Every variable of the posting ledger keeps its shape, and a place in a
\* book's run is never zero, whatever the callers do.
THEOREM TypeCorrect == Spec => []TypeOK
<1>1. IInv => TypeOK
  BY DEF IInv
<1> QED
  BY <1>1, Invariant, PTL

\* voucherseq.Reserve: a place in a book's run is handed out once, whoever
\* posts beside whom and whatever fails on the way.
THEOREM NumbersOnce == Spec => []NumbersHandedOutOnce
<1>1. ASSUME IInv PROVE NumbersHandedOutOnce
  <2>1. NumberRuns
    BY <1>1 DEF IInv
  <2>2. ASSUME NEW c \in Callers, NEW d \in Callers, c # d
        PROVE  Places(c) \cap Places(d) = {}
    BY <2>1, <2>2 DEF NumberRuns, Distinct, Places, Book
  <2>3. ASSUME NEW c \in Callers PROVE Places(c) \cap Filled = {}
    BY <2>1 DEF NumberRuns, Unused, Places, Filled, Book
  <2> QED
    BY <2>1, <2>2, <2>3 DEF NumbersHandedOutOnce, NumberRuns, Seated
<1> QED
  BY <1>1, Invariant, PTL

\* postingrepo.Save: a request key names one entry, however often the request
\* is resubmitted and under whatever voucher.
THEOREM OnePerRequest == Spec => []OneEntryPerRequest
<1>1. IInv => OneEntryPerRequest
  BY DEF IInv
<1> QED
  BY <1>1, Invariant, PTL

\* The inductive invariant of whole postings: a transaction's rows in the log
\* are the movements its call makes, its ids are nobody else's, and what is
\* committed is whole.
THEOREM WholeInvariant == Spec => []WholeIInv
<1>1. Init => WholeIInv
  BY InitWhole
<1>2. IInv /\ WholeIInv /\ [Next]_vars => WholeIInv'
  BY NextWhole
<1> QED
  BY <1>1, <1>2, Invariant, PTL DEF Spec

\* postingrepo.Save: the books hold whole postings and nothing else, whatever
\* failed or ran beside them.
THEOREM PostingsWhole == Spec => []WholePostings
<1>1. WholeIInv => WholePostings
  BY DEF WholeIInv
<1> QED
  BY <1>1, WholeInvariant, PTL

\* A caller past the lock on a locked day had asked before the day was locked.
LEMMA LockAsked ==
    ASSUME TypeOK, [Next]_vars, NEW d \in locked, NEW c \in Callers, PastTheLock(c, d)'
    PROVE  PastTheLock(c, d)
<1> USE DEF held, Goto, PastTheLock
<1>1. CASE pc'[c] = pc[c] /\ call'[c] = call[c]
  BY <1>1
<1>2. CASE Ask(c) \/ Fail(c)
  BY <1>2 DEF Ask, Fail, Refuse, Answer, TypeOK
<1>3. CASE Step(c)
  <2>1. ~ Refuse(c) /\ ~ Answer(c)
    BY DEF Refuse, Answer, TypeOK
  <2>2. CASE Price(c) \/ CheckLock(c)
    BY <2>1, <2>2 DEF Price, CheckLock, Proceed, TypeOK
  <2>3. CASE CheckCostLock(c)
    BY <2>1, <2>3 DEF CheckCostLock, Proceed, TypeOK
  <2>4. CASE LoadRules(c) \/ Admit(c) \/ EnsureSequence(c) \/ ReserveSequence(c)
             \/ SequenceDeadlock(c) \/ AdvanceSequence(c)
    BY <2>1, <2>4 DEF LoadRules, Admit, EnsureSequence, ReserveSequence, SequenceDeadlock,
                      AdvanceSequence, Proceed, TypeOK
  <2>5. CASE CheckStock(c) \/ SaveEntry(c) \/ SaveKey(c) \/ SaveCost(c) \/ WriteMovement(c)
             \/ RecordDocument(c) \/ Commit(c) \/ RecordMovement(c)
    BY <2>1, <2>5 DEF CheckStock, SaveEntry, SaveKey, SaveCost, SaveVoucher, WriteMovement,
                      RecordDocument, Commit, RecordMovement, Proceed, TypeOK
  <2> QED
    BY <1>3, <2>2, <2>3, <2>4, <2>5 DEF Step
<1>4. ASSUME NEW e \in Callers \ {c}, Ask(e) \/ Step(e) \/ Fail(e)
      PROVE  pc'[c] = pc[c] /\ call'[c] = call[c]
  BY <1>4, StepAlone DEF Alone
<1>5. CASE Calendar \/ UNCHANGED vars
  BY <1>5, <1>1 DEF Calendar, vars
<1> QED
  BY <1>1, <1>2, <1>3, <1>4, <1>5 DEF Next

\* Only a commit adds a voucher, and its caller is past the lock on each day
\* it writes.
LEMMA CommitPastTheLock ==
    ASSUME TypeOK, \A c \in Callers : Labelled(c), [Next]_vars, NEW d \in locked
    PROVE  /\ vouchers \subseteq vouchers'
           /\ \A v \in vouchers' \ vouchers :
                 v.day = d => \E c \in Callers : PastTheLock(c, d)
<1> USE DEF books, held
<1>1. ASSUME NEW c \in Callers, Commit(c)
      PROVE  /\ vouchers \subseteq vouchers'
             /\ \A v \in vouchers' \ vouchers : v.day = d => PastTheLock(c, d)
  <2>1. /\ pc[c] = "commit" /\ pc[c] \in Numbered
        /\ vouchers' = vouchers \cup {Written(c, i) : i \in DOMAIN Vouchers(call[c])}
    BY <1>1 DEF Commit, Numbered
  <2>2. /\ call[c] \in Postings
        /\ \A i \in DOMAIN Vouchers(call[c]) : Written(c, i).day = Vouchers(call[c])[i].day
    BY <2>1, WrittenFacts
  <2>3. ASSUME NEW i \in DOMAIN Vouchers(call[c]), Written(c, i).day = d
        PROVE  PastTheLock(c, d)
    <3>1. i = 1 \/ (i = 2 /\ call[c].cost # None)
      BY <2>2, <2>3, VoucherFacts
    <3>2. CASE i = 1
      BY <2>1, <2>2, <2>3, <3>2, VoucherFacts DEF PastTheLock
    <3>3. CASE i = 2 /\ call[c].cost # None
      BY <2>1, <2>2, <2>3, <3>3, VoucherFacts DEF PastTheLock
    <3> QED
      BY <3>1, <3>2, <3>3
  <2> QED
    BY <2>1, <2>3
<1>2. ASSUME NEW c \in Callers, Ask(c) \/ Fail(c) \/ (Step(c) /\ ~ Commit(c))
      PROVE  vouchers' = vouchers
  <2>1. CASE Ask(c) \/ Fail(c)
    BY <2>1 DEF Ask, Fail, Refuse
  <2>2. CASE Price(c) \/ CheckLock(c) \/ CheckCostLock(c) \/ LoadRules(c) \/ Admit(c)
    BY <2>2 DEF Price, CheckLock, CheckCostLock, LoadRules, Admit, Refuse, Proceed
  <2>3. CASE EnsureSequence(c) \/ ReserveSequence(c) \/ SequenceDeadlock(c) \/ AdvanceSequence(c)
    BY <2>3 DEF EnsureSequence, ReserveSequence, SequenceDeadlock, AdvanceSequence, Refuse, Proceed
  <2>4. CASE CheckStock(c) \/ SaveEntry(c) \/ SaveKey(c) \/ SaveCost(c)
    BY <2>4 DEF CheckStock, SaveEntry, SaveKey, SaveCost, SaveVoucher, Refuse, Proceed
  <2>5. CASE WriteMovement(c) \/ RecordDocument(c) \/ RecordMovement(c)
    BY <2>5 DEF WriteMovement, RecordDocument, RecordMovement, Refuse, Proceed
  <2> QED
    BY <1>2, <2>1, <2>2, <2>3, <2>4, <2>5 DEF Step
<1>3. CASE Calendar \/ UNCHANGED vars
  BY <1>3 DEF Calendar, vars
<1> QED
  BY <1>1, <1>2, <1>3 DEF Next

\* A locked day freezes: no posting reaches it that had not been let through
\* before it was locked, and when those have ended it does not change again.
THEOREM DaysFreeze == Spec => LockedDaysFreeze
<1> DEFINE Frozen ==
      \A d \in locked :
         LET letThrough == {c \in Callers : PastTheLock(c, d)} IN
         /\ \A c \in Callers : PastTheLock(c, d)' => c \in letThrough
         /\ letThrough = {} => {v \in vouchers' : v.day = d} = {v \in vouchers : v.day = d}
<1>1. ASSUME IInv, [Next]_vars PROVE Frozen
  BY <1>1, LockAsked, CommitPastTheLock DEF IInv
<1>2. Spec => [][Frozen]_vars
  BY <1>1, Invariant, PTL DEF Spec
<1> QED
  BY <1>2, PTL DEF LockedDaysFreeze

-----------------------------------------------------------------------------
(* What a caller saw of the stock before it moved it.                      *)

\* The labels a posting has looked at the stock for the last time at.
Decided == {"voucher", "key", "cost"} \cup Moving

\* The rows on file and a caller's own, in the order they were written.
Joined(c) == Among(log, {m \in Rows : m.owner \in {None, c}})

\* What a caller is about to move passed over what it saw; and as long as that
\* is what is on file, its own rows come after it.
Sighted(c) ==
    /\ pc[c] \in Decided =>
          /\ view[c] \in Seq({view[c][i] : i \in DOMAIN view[c]})
          /\ Len(view[c]) <= Len(Committed)
          /\ Passes(view[c], Movements(c))
          /\ view[c] = Committed => Joined(c) = Committed \o Owned(c)
    /\ pc[c] = "record" =>
          \A i \in DOMAIN call[c].issues :
             LET line == call[c].issues[i]
                 position == PositionIn(view[c], line.item)
             IN  CanIssue(position, line.quantity) /\ costs[c][i] = CostOf(position, line.quantity)

\* A caller that has not begun, and the desk before it has read, have no cost.
Unpriced(c) ==
    /\ pc[c] = "idle" => costs[c] = <<>>
    /\ (pc[c] = "price" /\ call[c] \in Moves) => costs[c] = <<>>

SightIInv == view = [c \in Callers |-> view[c]] /\ \A c \in Callers : Sighted(c) /\ Unpriced(c)

\* The rows of some owners.
Of(rows, owners) == {m \in rows : m.owner \in owners}

\* What is on file, and what a caller has and sees, by the owners of the rows.
LEMMA RowsOf ==
    ASSUME NEW c
    PROVE  /\ Committed = Among(log, Of(Rows, {None})) /\ Committed' = Among(log', Of(Rows', {None}))
           /\ Owned(c) = Among(log, Of(Rows, {c})) /\ Owned(c)' = Among(log', Of(Rows', {c}))
           /\ Joined(c) = Among(log, Of(Rows, {None, c})) /\ Joined(c)' = Among(log', Of(Rows', {None, c}))
<1>1. \A rows, o : Of(rows, {o}) = {m \in rows : m.owner = o}
  BY DEF Of
<1>2. Committed = Among(log, Of(Rows, {None})) /\ Committed' = Among(log', Of(Rows', {None}))
  <2>1. Of(Rows, {None}) = {m \in Rows : m.owner = None}
    BY <1>1
  <2>2. Of(Rows', {None}) = {m \in Rows' : m.owner = None}
    BY <1>1
  <2> QED
    BY <2>1, <2>2 DEF Committed, Owned
<1>3. Owned(c) = Among(log, Of(Rows, {c})) /\ Owned(c)' = Among(log', Of(Rows', {c}))
  BY <1>1 DEF Owned
<1>4. Joined(c) = Among(log, Of(Rows, {None, c})) /\ Joined(c)' = Among(log', Of(Rows', {None, c}))
  BY DEF Joined, Of
<1> QED
  BY <1>2, <1>3, <1>4

\* They are lists of rows.
LEMMA RowsTyped ==
    ASSUME LogTypes, NEW owners
    PROVE  Among(log, Of(Rows, owners)) \in Seq(Rows) /\ Len(Among(log, Of(Rows, owners))) \in Nat
<1> DEFINE some == Of(Rows, owners)
<1>1. Among(log, some) \in Seq(Rows \cap some)
  BY AmongTyped DEF LogTypes
<1> HIDE DEF some
<1>2. Among(log, some) \in Seq(Rows)
  BY <1>1, SeqMonotonic
<1> QED
  BY <1>2, LenProperties DEF some

\* Fewer rows are kept among fewer, unless there are no others.
LEMMA AmongFewer ==
    ASSUME NEW S, NEW some, NEW others, some \subseteq others
    PROVE  \A rows \in Seq(S) :
             /\ Len(Among(rows, some)) \in Nat /\ Len(Among(rows, others)) \in Nat
             /\ Len(Among(rows, some)) <= Len(Among(rows, others))
             /\ Len(Among(rows, some)) = Len(Among(rows, others)) =>
                  \A i \in DOMAIN rows : rows[i] \in others => rows[i] \in some
<1> DEFINE Fewer(rows) ==
             /\ Len(Among(rows, some)) \in Nat /\ Len(Among(rows, others)) \in Nat
             /\ Len(Among(rows, some)) <= Len(Among(rows, others))
             /\ Len(Among(rows, some)) = Len(Among(rows, others)) =>
                  \A i \in DOMAIN rows : rows[i] \in others => rows[i] \in some
           Good == {rows \in Seq(S) : Fewer(rows)}
<1>1. <<>> \in Good
  <2>1. Among(<<>>, some) = <<>> /\ Among(<<>>, others) = <<>> /\ Len(<<>>) = 0 /\ DOMAIN <<>> = {}
    BY AmongEmpty
  <2>2. Fewer(<<>>)
    BY <2>1
  <2> HIDE DEF Fewer
  <2> QED
    BY <2>2
<1>2. ASSUME NEW s \in Seq(S), NEW e \in S, Fewer(s) PROVE Fewer(Append(s, e))
  <2> DEFINE few  == Among(s, some)
             many == Among(s, others)
             longer == Append(s, e)
  <2>1. /\ Among(longer, some) = IF e \in some THEN Append(few, e) ELSE few
        /\ Among(longer, others) = IF e \in others THEN Append(many, e) ELSE many
    BY AmongAppend
  <2>2. few \in Seq(S) /\ many \in Seq(S)
    <3>1. few \in Seq(S \cap some) /\ many \in Seq(S \cap others)
      BY AmongTyped
    <3> HIDE DEF few, many
    <3> QED
      BY <3>1, SeqMonotonic
  <2>3. /\ Len(few) \in Nat /\ Len(many) \in Nat /\ Len(few) <= Len(many)
        /\ Len(few) = Len(many) => \A i \in DOMAIN s : s[i] \in others => s[i] \in some
    BY <1>2
  <2>4. /\ DOMAIN s = 1 .. Len(s) /\ Len(s) \in Nat /\ DOMAIN longer = 1 .. Len(s) + 1 /\ longer[Len(s) + 1] = e
        /\ \A i \in 1 .. Len(s) : longer[i] = s[i]
    OBVIOUS
  <2> HIDE DEF few, many, longer
  <2>5. Len(Append(few, e)) = Len(few) + 1 /\ Len(Append(many, e)) = Len(many) + 1
    BY <2>2
  <2>6. e \in some => e \in others
    OBVIOUS
  <2>7. /\ Len(Among(longer, some)) = IF e \in some THEN Len(few) + 1 ELSE Len(few)
        /\ Len(Among(longer, others)) = IF e \in others THEN Len(many) + 1 ELSE Len(many)
    BY <2>1, <2>5
  <2>8. ASSUME Len(Among(longer, some)) = Len(Among(longer, others)), NEW i \in DOMAIN longer, longer[i] \in others
        PROVE  longer[i] \in some
    <3>1. Len(few) = Len(many) /\ (e \in others => e \in some)
      BY <2>3, <2>6, <2>7, <2>8
    <3>2. i \in DOMAIN s \/ i = Len(s) + 1
      BY <2>4
    <3> QED
      BY <2>3, <2>4, <2>8, <3>1, <3>2
  <2>9. /\ Len(Among(longer, some)) \in Nat /\ Len(Among(longer, others)) \in Nat
        /\ Len(Among(longer, some)) <= Len(Among(longer, others))
    BY <2>3, <2>6, <2>7
  <2> QED
    BY <2>8, <2>9 DEF longer
<1> HIDE DEF Fewer
<1>3. \A s \in Seq(S) : \A e \in S : s \in Good => Append(s, e) \in Good
  BY <1>2
<1> HIDE DEF Good
<1>4. Seq(S) \subseteq Good
  BY <1>1, <1>3, ByRows
<1> QED
  BY <1>4 DEF Good, Fewer

\* What a caller sees and has is untouched; or what is on file grows.
Stays(d) == Committed' = Committed /\ Owned(d)' = Owned(d) /\ Joined(d)' = Joined(d)

OnlyGrows(d) ==
    /\ Len(Committed) <= Len(Committed')
    /\ Len(Committed) = Len(Committed') => Stays(d)

LEMMA StaysIs ==
    ASSUME NEW d,
           \A owners \in {{None}, {d}, {None, d}} : Among(log', Of(Rows', owners)) = Among(log, Of(Rows, owners))
    PROVE  Stays(d)
BY RowsOf DEF Stays

\* What stays does not shrink.
LEMMA StaysGrows ==
    ASSUME LogTypes, NEW d, Stays(d)
    PROVE  OnlyGrows(d)
<1>1. Len(Committed) \in Nat
  BY RowsOf, RowsTyped
<1> QED
  BY <1>1 DEF OnlyGrows, Stays

\* A refusal takes its caller's rows and no others.
LEMMA RefuseStays ==
    ASSUME LogTypes, NEW c \in Callers, Refuse(c)
    PROVE  Committed' = Committed /\ \A d \in Callers \ {c} : Stays(d)
<1>1. log' = Among(log, RowsNotOf(c))
  BY DEF Refuse, RowsNotOf
<1>2. \A m \in Rows' : m \in Rows /\ m.owner # c
  BY <1>1, RefusalRows
<1>3. ASSUME NEW owners, c \notin owners
      PROVE  Among(log', Of(Rows', owners)) = Among(log, Of(Rows, owners))
  <2> DEFINE some == Of(Rows, owners)
             left == Of(Rows', owners)
  <2>1. some \subseteq Rows /\ (\A m \in some : m.owner # c) /\ \A m \in Rows' : m \in left <=> m \in some
    BY <1>2, <1>3 DEF Of
  <2> HIDE DEF some, left
  <2>2. Among(log', left) = Among(log, some)
    BY <1>1, <2>1, RefusalKeeps
  <2> QED
    BY <2>2 DEF some, left
<1>4. ASSUME NEW d \in Callers, d # c PROVE Stays(d)
  <2>1. \A owners \in {{None}, {d}, {None, d}} : c \notin owners
    BY <1>4
  <2> QED
    BY <1>3, <2>1, StaysIs
<1>5. Committed' = Committed
  BY <1>3, RowsOf
<1> QED
  BY <1>4, <1>5

\* A row more joins its owner's.
LEMMA AppendOf ==
    ASSUME LogTypes, NEW row, log' = Append(log, row), NEW owners
    PROVE  Among(log', Of(Rows', owners)) =
             IF row.owner \in owners THEN Append(Among(log, Of(Rows, owners)), row)
             ELSE Among(log, Of(Rows, owners))
<1> DEFINE some == Of(Rows, owners)
           more == Of(Rows', owners)
<1>1. Rows' = Rows \cup {row}
  BY AppendKeeps
<1>2. (\A m \in Rows : m \in more <=> m \in some) /\ (row \in more <=> row.owner \in owners)
  BY <1>1 DEF Of
<1> HIDE DEF some, more
<1>3. Among(log', more) = IF row \in more THEN Append(Among(log, some), row) ELSE Among(log, some)
  BY <1>2, AppendKeeps
<1> QED
  BY <1>2, <1>3 DEF some, more

\* A movement written is its caller's.
LEMMA WriteStays ==
    ASSUME LogTypes, NEW c \in Callers, NEW row, log' = Append(log, row), row.owner = c
    PROVE  /\ Committed' = Committed /\ \A d \in Callers \ {c} : Stays(d)
           /\ Owned(c)' = Append(Owned(c), row) /\ Joined(c)' = Append(Joined(c), row)
<1>1. \A owners : Among(log', Of(Rows', owners)) =
             IF c \in owners THEN Append(Among(log, Of(Rows, owners)), row)
             ELSE Among(log, Of(Rows, owners))
  BY AppendOf
<1>2. ASSUME NEW d \in Callers, d # c PROVE Stays(d)
  <2>1. \A owners \in {{None}, {d}, {None, d}} : c \notin owners
    BY <1>2
  <2> QED
    BY <1>1, <2>1, StaysIs
<1>3. c \notin {None} /\ c \in {c} /\ c \in {None, c}
  OBVIOUS
<1> QED
  BY <1>1, <1>2, <1>3, RowsOf

\* One row committed is one more on file.
LEMMA RecordGrows ==
    ASSUME LogTypes, NEW row, log' = Append(log, row), row.owner = None
    PROVE  Committed' = Append(Committed, row) /\ \A d : OnlyGrows(d)
<1>1. Committed' = Append(Committed, row)
  BY AppendOf, RowsOf
<1>2. Committed \in Seq(Rows)
  BY RowsOf, RowsTyped
<1>3. Len(Append(Committed, row)) = Len(Committed) + 1 /\ Len(Committed) \in Nat
  <2> DEFINE seen == Committed
             S == Rows \cup {row}
  <2>1. seen \in Seq(S) /\ row \in S
    BY <1>2, SeqMonotonic
  <2> HIDE DEF seen, S
  <2>2. Len(Append(seen, row)) = Len(seen) + 1 /\ Len(seen) \in Nat
    BY <2>1
  <2> QED
    BY <2>2 DEF seen
<1> QED
  BY <1>1, <1>3 DEF OnlyGrows

\* A row that is given is the same movement.
LEMMA GivenSame ==
    ASSUME LogTypes, NEW c, NEW m \in Rows
    PROVE  SameMove(m, Given(c)[m])
<1>1. RowShape(m)
  BY DEF LogTypes
<1>2. CASE m.owner = c
  <2>1. Given(c)[m] = [m EXCEPT !.owner = None]
    BY <1>2 DEF Given
  <2>2. [m EXCEPT !.owner = None] =
          [item |-> m.item, kind |-> m.kind, quantity |-> m.quantity, cost |-> m.cost,
           voucher |-> m.voucher, owner |-> None]
    BY <1>1 DEF RowShape
  <2> QED
    BY <2>1, <2>2 DEF SameMove
<1>3. CASE m.owner # c
  BY <1>3 DEF Given, SameMove
<1> QED
  BY <1>2, <1>3

\* A commit puts its caller's rows on file, where they stand.
LEMMA CommitGrows ==
    ASSUME LogTypes, NEW c \in Callers, log' = Changed(log, Given(c))
    PROVE  /\ Committed' = Changed(Joined(c), Given(c))
           /\ \A d \in Callers \ {c} : OnlyGrows(d)
<1>1. /\ Rows' = {Given(c)[m] : m \in Rows} /\ log \in Seq(Rows)
      /\ \A some, left :
            (\A m \in Rows : Given(c)[m] \in left <=> m \in some)
               => Among(log', left) = Changed(Among(log, some), Given(c))
  BY CommitKeeps DEF LogTypes
<1>2. \A m \in Rows : Given(c)[m].owner = (IF m.owner = c THEN None ELSE m.owner) /\ Given(c)[m] \in Rows'
  BY <1>1, GivenFacts
<1>3. Committed' = Changed(Joined(c), Given(c))
  <2> DEFINE some == Of(Rows, {None, c})
             left == Of(Rows', {None})
  <2>1. \A m \in Rows : Given(c)[m] \in left <=> m \in some
    BY <1>2 DEF Of
  <2> HIDE DEF some, left
  <2>2. Among(log', left) = Changed(Among(log, some), Given(c))
    BY <1>1, <2>1
  <2> QED
    BY <2>2, RowsOf DEF some, left
<1>4. Len(Committed') = Len(Joined(c))
  <2>1. Joined(c) \in Seq(Rows)
    <3>1. Among(log, Of(Rows, {None, c})) \in Seq(Rows)
      BY RowsTyped
    <3>2. Joined(c) = Among(log, Of(Rows, {None, c}))
      BY RowsOf
    <3> QED
      BY <3>1, <3>2
  <2> DEFINE seen == Joined(c)
  <2>2. Changed(seen, Given(c)) = [i \in 1 .. Len(seen) |-> Given(c)[seen[i]]] /\ Len(seen) \in Nat
    BY <2>1, LenProperties DEF Changed
  <2> HIDE DEF seen
  <2>3. Len(Changed(seen, Given(c))) = Len(seen)
    BY <2>2
  <2> QED
    BY <1>3, <2>3 DEF seen
<1>5. /\ Len(Committed) <= Len(Joined(c))
      /\ Len(Committed) = Len(Joined(c)) => \A m \in Rows : m.owner # c
  <2> DEFINE some == Of(Rows, {None})
             others == Of(Rows, {None, c})
  <2>1. some \subseteq others
    BY DEF Of
  <2>2. \A m \in Rows : m.owner = c => m \in others /\ m \notin some
    BY DEF Of
  <2> HIDE DEF some, others
  <2>3. /\ Len(Among(log, some)) <= Len(Among(log, others))
        /\ Len(Among(log, some)) = Len(Among(log, others)) =>
             \A i \in DOMAIN log : log[i] \in others => log[i] \in some
    BY <1>1, <2>1, AmongFewer
  <2>4. \A m \in Rows : \E i \in DOMAIN log : m = log[i]
    BY DEF Rows
  <2>5. Len(Among(log, some)) = Len(Among(log, others)) => \A m \in Rows : m.owner # c
    BY <2>2, <2>3, <2>4
  <2> QED
    BY <2>3, <2>5, RowsOf DEF some, others
<1>6. ASSUME NEW d \in Callers, \A m \in Rows : m.owner # c PROVE Stays(d)
  <2>1. \A m \in Rows : Given(c)[m] = m
    BY <1>6, GivenFacts
  <2>2. log' = log
    BY <1>1, <2>1, ChangedSame
  <2>3. Rows' = Rows
    BY <2>2 DEF Rows
  <2> QED
    BY <2>2, <2>3, StaysIs
<1> QED
  BY <1>3, <1>4, <1>5, <1>6 DEF OnlyGrows

\* A movement is an issue or a receipt; and the desk's is one, of the line it
\* was asked for.
LEMMA MovementKinds ==
    ASSUME NEW c \in Callers, call[c] \in Postings \cup Moves
    PROVE  /\ \A i \in DOMAIN Movements(c) : Movements(c)[i].kind \in {"issue", "receipt"}
           /\ call[c] \in Moves =>
                /\ Len(Movements(c)) = 1
                /\ LET m == Movements(c)[1] IN
                   \/ /\ 1 \in DOMAIN call[c].issues /\ m.kind = "issue" /\ m.cost = costs[c][1]
                      /\ m.item = call[c].issues[1].item /\ m.quantity = call[c].issues[1].quantity
                   \/ /\ 1 \in DOMAIN call[c].receipts /\ m.kind = "receipt" /\ m.cost = call[c].receipts[1].cost
                      /\ m.item = call[c].receipts[1].item /\ m.quantity = call[c].receipts[1].quantity
<1> DEFINE Line(kind, line, cost) ==
             [item |-> line.item, kind |-> kind, quantity |-> line.quantity, cost |-> cost,
              voucher |-> call[c].voucher.id, owner |-> c]
           issues   == call[c].issues
           receipts == call[c].receipts
           out == [i \in DOMAIN issues |-> Line("issue", issues[i], costs[c][i])]
           in  == [i \in DOMAIN receipts |-> Line("receipt", receipts[i], receipts[i].cost)]
           S   == {out[i] : i \in DOMAIN issues} \cup {in[i] : i \in DOMAIN receipts}
<1>1. issues \in Seq(Issued) /\ receipts \in Seq(Received)
  BY DEF Issued, Received
<1>2. Movements(c) = out \o in
  BY DEF Movements
<1>3. /\ \A i \in DOMAIN issues :
            /\ out[i] \in S /\ out[i].kind = "issue" /\ out[i].cost = costs[c][i]
            /\ out[i].item = issues[i].item /\ out[i].quantity = issues[i].quantity
      /\ \A i \in DOMAIN receipts :
            /\ in[i] \in S /\ in[i].kind = "receipt" /\ in[i].cost = receipts[i].cost
            /\ in[i].item = receipts[i].item /\ in[i].quantity = receipts[i].quantity
  OBVIOUS
<1>4. /\ DOMAIN out = DOMAIN issues /\ DOMAIN in = DOMAIN receipts
      /\ out = [i \in DOMAIN issues |-> out[i]] /\ in = [i \in DOMAIN receipts |-> in[i]]
  OBVIOUS
<1>6. call[c] \in Moves => Len(issues) + Len(receipts) = 1
  OBVIOUS
<1> HIDE DEF out, in
<1>5. ASSUME NEW m \in S PROVE m.kind \in {"issue", "receipt"}
  <2>1. CASE \E i \in DOMAIN issues : m = out[i]
    BY <1>3, <2>1
  <2>2. CASE \E i \in DOMAIN receipts : m = in[i]
    BY <1>3, <2>2
  <2> QED
    BY <2>1, <2>2
<1> HIDE DEF S
<1> HIDE DEF issues, receipts
<1>7. /\ Len(issues) \in Nat /\ DOMAIN issues = 1 .. Len(issues)
      /\ Len(receipts) \in Nat /\ DOMAIN receipts = 1 .. Len(receipts)
  BY <1>1, LenProperties
<1>8. out \in Seq(S) /\ in \in Seq(S) /\ Len(out) = Len(issues) /\ Len(in) = Len(receipts)
  <2>1. out = [i \in 1 .. Len(issues) |-> out[i]] /\ \A i \in 1 .. Len(issues) : out[i] \in S
    BY <1>3, <1>4, <1>7
  <2>2. in = [i \in 1 .. Len(receipts) |-> in[i]] /\ \A i \in 1 .. Len(receipts) : in[i] \in S
    BY <1>3, <1>4, <1>7
  <2>3. out \in Seq(S) /\ Len(out) = Len(issues)
    BY <1>7, <2>1
  <2>4. in \in Seq(S) /\ Len(in) = Len(receipts)
    BY <1>7, <2>2
  <2> QED
    BY <2>3, <2>4
<1>9. /\ out \o in \in Seq(S) /\ Len(out \o in) = Len(issues) + Len(receipts)
      /\ \A i \in 1 .. Len(issues) + Len(receipts) :
            (out \o in)[i] = IF i <= Len(issues) THEN out[i] ELSE in[i - Len(issues)]
  <2>1. /\ out \o in \in Seq(S) /\ Len(out \o in) = Len(out) + Len(in)
        /\ \A i \in 1 .. Len(out) + Len(in) : (out \o in)[i] = IF i <= Len(out) THEN out[i] ELSE in[i - Len(out)]
    <3> DEFINE s == out
               t == in
    <3>1. s \in Seq(S) /\ t \in Seq(S)
      BY <1>8
    <3> HIDE DEF s, t
    <3>2. s \o t \in Seq(S) /\ Len(s \o t) = Len(s) + Len(t)
      BY <3>1
    <3>3. \A i \in 1 .. Len(s) + Len(t) : (s \o t)[i] = IF i <= Len(s) THEN s[i] ELSE t[i - Len(s)]
      BY <3>1
    <3> QED
      BY <3>2, <3>3 DEF s, t
  <2> QED
    BY <1>8, <2>1, Zenon
<1>10. \A i \in DOMAIN (out \o in) : (out \o in)[i] \in S
  BY <1>9, ElementOfSeq, LenProperties
<1>11. CASE call[c] \in Moves
  <2>1. Len(out \o in) = 1
    BY <1>6, <1>9, <1>11
  <2>2. CASE Len(issues) = 1
    <3>1. (out \o in)[1] = out[1]
      <4>1. 1 \in 1 .. Len(issues) + Len(receipts) /\ 1 <= Len(issues)
        BY <1>7, <2>2
      <4> QED
        BY <1>9, <4>1, Zenon
    <3>2. 1 \in DOMAIN issues
      BY <1>7, <2>2
    <3> QED
      BY <1>2, <1>3, <1>5, <1>10, <2>1, <3>1, <3>2 DEF issues, receipts
  <2>3. CASE Len(issues) = 0
    <3>1. Len(receipts) = 1
      BY <1>6, <1>7, <1>11, <2>3
    <3>2. (out \o in)[1] = in[1]
      <4>1. 1 \in 1 .. Len(issues) + Len(receipts) /\ ~(1 <= Len(issues)) /\ 1 - Len(issues) = 1
        BY <1>7, <2>3, <3>1
      <4>2. (out \o in)[1] = in[1 - Len(issues)]
        BY <1>9, <4>1, Zenon
      <4> QED
        BY <4>1, <4>2
    <3>3. 1 \in DOMAIN receipts
      BY <1>7, <3>1
    <3> QED
      BY <1>2, <1>3, <1>5, <1>10, <2>1, <3>2, <3>3 DEF issues, receipts
  <2> QED
    BY <1>6, <1>7, <1>11, <2>2, <2>3
<1>12. CASE call[c] \notin Moves
  BY <1>2, <1>5, <1>10, <1>12
<1> QED
  BY <1>11, <1>12

\* A caller's step is its own look at the stock.
LEMMA StepSightAlone ==
    ASSUME view = [c \in Callers |-> view[c]], NEW c \in Callers, Ask(c) \/ Step(c) \/ Fail(c)
    PROVE  view' = [d \in Callers |-> view'[d]] /\ \A d \in Callers \ {c} : view'[d] = view[d]
<1> USE DEF Answer, Refuse, Proceed, held
<1>1. CASE Ask(c)
  BY <1>1 DEF Ask
<1>2. CASE Fail(c)
  BY <1>2 DEF Fail
<1>3. CASE Price(c) \/ CheckLock(c) \/ CheckCostLock(c) \/ LoadRules(c) \/ Admit(c)
  BY <1>3 DEF Price, CheckLock, CheckCostLock, LoadRules, Admit
<1>4. CASE EnsureSequence(c) \/ ReserveSequence(c) \/ SequenceDeadlock(c) \/ AdvanceSequence(c)
  BY <1>4 DEF EnsureSequence, ReserveSequence, SequenceDeadlock, AdvanceSequence
<1>5. CASE CheckStock(c) \/ SaveEntry(c) \/ SaveKey(c) \/ SaveCost(c)
  BY <1>5 DEF CheckStock, SaveEntry, SaveKey, SaveCost, SaveVoucher
<1>6. CASE WriteMovement(c) \/ RecordDocument(c) \/ Commit(c) \/ RecordMovement(c)
  BY <1>6 DEF WriteMovement, RecordDocument, Commit, RecordMovement
<1> QED
  BY <1>1, <1>2, <1>3, <1>4, <1>5, <1>6 DEF Step

\* What a caller saw stays good while another moves.
LEMMA OthersSighted ==
    ASSUME SightIInv, LogTypes, LogTypes', NEW c \in Callers, Alone(c), CostsAlone(c),
           NEW d \in Callers \ {c}, view'[d] = view[d], OnlyGrows(d)
    PROVE  Sighted(d)'
<1>1. pc'[d] = pc[d] /\ call'[d] = call[d] /\ costs'[d] = costs[d] /\ Movements(d)' = Movements(d)
  BY AloneWrites DEF Alone, CostsAlone
<1>2. Sighted(d)
  BY DEF SightIInv
<1>3. CASE pc[d] \in Decided
  <2>1. Len(Committed) \in Nat /\ Len(Committed') \in Nat
    <3>1. Len(Committed) \in Nat
      BY RowsOf, RowsTyped
    <3>2. Among(log', Of(Rows', {None})) \in Seq(Rows' \cap Of(Rows', {None}))
      BY AmongTyped DEF LogTypes
    <3>3. Len(Among(log', Of(Rows', {None}))) \in Nat
      BY <3>2, LenProperties
    <3> QED
      BY <3>1, <3>3, RowsOf
  <2>2. /\ view[d] \in Seq({view[d][i] : i \in DOMAIN view[d]}) /\ Len(view[d]) <= Len(Committed)
        /\ Passes(view[d], Movements(d))
        /\ view[d] = Committed => Joined(d) = Committed \o Owned(d)
    BY <1>2, <1>3 DEF Sighted
  <2>3. Len(view[d]) \in Nat
    BY <2>2, LenProperties
  <2>4. Len(view[d]) <= Len(Committed')
    BY <2>1, <2>2, <2>3 DEF OnlyGrows
  <2>5. view[d] = Committed' => Joined(d)' = Committed' \o Owned(d)'
    <3> HAVE view[d] = Committed'
    <3>1. Len(Committed) = Len(Committed')
      BY <2>1, <2>2, <2>3 DEF OnlyGrows
    <3> QED
      BY <2>2, <3>1 DEF OnlyGrows, Stays
  <2>6. Passes(view[d], Movements(d))'
    BY <1>1, <2>2 DEF Passes
  <2>7. pc[d] # "record"
    BY <1>3 DEF Decided, Moving
  <2> QED
    BY <1>1, <2>2, <2>4, <2>5, <2>6, <2>7 DEF Sighted
<1>4. CASE pc[d] \notin Decided
  BY <1>1, <1>2, <1>4 DEF Sighted
<1> QED
  BY <1>3, <1>4

\* Where nothing is written, everything stays.
LEMMA SameLogStays ==
    ASSUME log' = log
    PROVE  Committed' = Committed /\ \A d : Stays(d)
<1>1. Rows' = Rows
  BY DEF Rows
<1>2. \A d : Stays(d)
  BY <1>1, StaysIs
<1> QED
  BY <1>2 DEF Stays

\* A caller that has decided and writes nothing keeps what it saw.
LEMMA OwnSightKept ==
    ASSUME SightIInv, NEW c \in Callers, pc[c] \in Decided, pc'[c] \in Decided,
           call' = call, costs' = costs, view' = view, log' = log
    PROVE  Sighted(c)'
<1>1. Committed' = Committed /\ Stays(c) /\ Movements(c)' = Movements(c)
  BY SameLogStays DEF Movements
<1>2. Sighted(c) /\ pc'[c] # "record"
  BY DEF SightIInv, Decided, Moving
<1>3. Passes(view[c], Movements(c))'
  BY <1>1, <1>2 DEF Sighted, Passes
<1> QED
  BY <1>1, <1>2, <1>3 DEF Sighted, Stays

\* The check looks at the stock, and the caller has no rows yet.
LEMMA CheckSighted ==
    ASSUME TypeOK, SightIInv, LogTypes, OwnersMove, NEW c \in Callers, Labelled(c), CheckStock(c), ~Refuse(c)
    PROVE  log' = log /\ Sighted(c)'
<1>1. /\ pc[c] = "check" /\ StockAllows(c) /\ StockCostStands(c)
      /\ view'[c] = Committed /\ pc'[c] = "voucher" /\ log' = log /\ call' = call /\ costs' = costs
  BY DEF CheckStock, Goto, TypeOK, SightIInv
<1>2. Committed' = Committed /\ Stays(c) /\ Movements(c)' = Movements(c)
  BY <1>1, SameLogStays DEF Movements
<1>3. \A i \in DOMAIN Movements(c) : Movements(c)[i].kind \in {"issue", "receipt"}
  BY <1>1, MovementKinds DEF Labelled
<1>4. Passes(Committed, Movements(c))
  BY <1>1, <1>3 DEF StockAllows, StockCostStands, Passes, Sound
<1>5. Passes(view[c], Movements(c))'
  BY <1>1, <1>2, <1>4 DEF Passes
<1>6. \A m \in Rows : m.owner # c
  BY <1>1 DEF OwnersMove, Moving
<1>7. Owned(c) = <<>> /\ Joined(c) = Committed
  <2>1. Of(Rows, {None, c}) = Of(Rows, {None})
    BY <1>6 DEF Of
  <2> QED
    BY <1>6, <2>1, OwnsNothing, RowsOf
<1>8. Committed \in Seq(Rows) /\ Len(Committed) \in Nat
  BY RowsOf, RowsTyped
<1>9. Committed \in Seq({Committed[i] : i \in DOMAIN Committed}) /\ Committed \o <<>> = Committed
  <2> DEFINE seen == Committed
  <2>1. seen \in Seq(Rows)
    BY <1>8
  <2> HIDE DEF seen
  <2>2. seen \in Seq({seen[i] : i \in DOMAIN seen}) /\ seen \o <<>> = seen
    BY <2>1, OwnRows
  <2> QED
    BY <2>2 DEF seen
<1> QED
  BY <1>1, <1>2, <1>5, <1>7, <1>8, <1>9 DEF Sighted, Stays

\* A movement written stands behind what its caller saw.
LEMMA WriteSighted ==
    ASSUME TypeOK, SightIInv, LogTypes, NEW c \in Callers, Labelled(c), WriteMovement(c)
    PROVE  /\ Committed' = Committed /\ \A d \in Callers \ {c} : Stays(d)
           /\ Sighted(c)'
<1> DEFINE mine == Owned(c)
           all  == Movements(c)
           row  == all[Len(mine) + 1]
<1>1. /\ pc[c] = "stock" /\ call' = call /\ costs' = costs /\ view' = view
      /\ IF Len(mine) < Len(all) THEN log' = Append(log, row) /\ pc' = pc
         ELSE pc'[c] = "document" /\ log' = log
  BY DEF WriteMovement, Goto, TypeOK, held
<1>2. CASE ~(Len(mine) < Len(all))
  <2>1. log' = log /\ pc'[c] = "document"
    BY <1>1, <1>2
  <2>2. Sighted(c)'
    BY <1>1, <2>1, OwnSightKept DEF Decided, Moving
  <2> QED
    BY <2>1, <2>2, SameLogStays
<1>3. CASE Len(mine) < Len(all)
  <2>1. log' = Append(log, row) /\ pc' = pc /\ Movements(c)' = Movements(c)
    BY <1>1, <1>3 DEF Movements
  <2>2. mine \in Seq(Rows) /\ Len(mine) \in Nat /\ Committed \in Seq(Rows) /\ Joined(c) \in Seq(Rows)
    <3>1. \A owners : Among(log, Of(Rows, owners)) \in Seq(Rows) /\ Len(Among(log, Of(Rows, owners))) \in Nat
      BY RowsTyped
    <3>2. mine = Among(log, Of(Rows, {c})) /\ Committed = Among(log, Of(Rows, {None})) /\ Joined(c) = Among(log, Of(Rows, {None, c}))
      BY RowsOf
    <3> HIDE DEF mine
    <3> QED
      BY <3>1, <3>2
  <2>3. row.owner = c
    <3>1. call[c] \in Postings
      BY <1>1 DEF Labelled
    <3>2. Len(all) \in Nat /\ all = [i \in 1 .. Len(all) |-> all[i]] /\ \A i \in DOMAIN all : IsRowOf(c, all[i])
      BY <3>1, MovementsFacts
    <3> HIDE DEF mine, all
    <3>3. Len(mine) + 1 \in DOMAIN all
      BY <1>3, <2>2, <3>2
    <3> QED
      BY <3>2, <3>3 DEF IsRowOf
  <2> HIDE DEF row
  <2>4. /\ Committed' = Committed /\ \A d \in Callers \ {c} : Stays(d)
        /\ Owned(c)' = Append(mine, row) /\ Joined(c)' = Append(Joined(c), row)
    BY <2>1, <2>3, WriteStays
  <2>5. Sighted(c) /\ pc[c] \in Decided /\ pc[c] # "record"
    BY <1>1 DEF SightIInv, Decided, Moving
  <2>6. Passes(view[c], Movements(c))'
    BY <1>1, <2>1, <2>5 DEF Sighted, Passes
  <2>7. view[c] = Committed => Append(Joined(c), row) = Committed \o Append(mine, row)
    <3> HAVE view[c] = Committed
    <3>1. Joined(c) = Committed \o mine
      BY <2>5 DEF Sighted
    <3> DEFINE seen == Committed
               S == Rows \cup {row}
    <3>2. seen \in Seq(S) /\ mine \in Seq(S) /\ row \in S
      BY <2>2, SeqMonotonic
    <3> HIDE DEF mine, seen, S
    <3>3. Append(seen \o mine, row) = seen \o Append(mine, row)
      BY <3>2
    <3> QED
      BY <3>1, <3>3 DEF seen
  <2>8. Sighted(c)'
    <3> HIDE DEF mine
    <3> QED
      BY <1>1, <2>1, <2>4, <2>5, <2>6, <2>7 DEF Sighted
  <2> QED
    BY <2>4, <2>8
<1> QED
  BY <1>2, <1>3

\* The desk prices at most one line, and records it by the same reading.
LEMMA PriceFacts ==
    ASSUME TypeOK, SightIInv, LogTypes, NEW c \in Callers, Labelled(c), Price(c), ~Refuse(c),
           call[c] \in Moves
    PROVE  /\ pc'[c] = "record" /\ view'[c] = Committed
           /\ \A i \in DOMAIN call[c].issues :
                LET line == call[c].issues[i]
                    position == PositionIn(Committed, line.item)
                IN  CanIssue(position, line.quantity) /\ costs'[c][i] = CostOf(position, line.quantity)
<1> DEFINE issues == call[c].issues
           At(i)  == PositionIn(Committed, issues[i].item)
           priced == IF 1 \in DOMAIN issues THEN <<CostOf(At(1), issues[1].quantity)>> ELSE <<>>
<1>1. costs[c] = <<>> /\ pc[c] = "price"
  BY DEF Price, SightIInv, Unpriced
<1>2. /\ call[c].op = "move" /\ issues \in Seq(Issued) /\ Len(issues) \in {0, 1}
      /\ DOMAIN issues = 1 .. Len(issues)
  <2>1. issues \in Seq(Issued) /\ call[c].receipts \in Seq(Received) /\ call[c].op = "move"
    BY MovesAssumption
  <2>2. Len(issues) \in Nat /\ Len(call[c].receipts) \in Nat /\ DOMAIN issues = 1 .. Len(issues)
    BY <2>1
  <2>3. Len(issues) + Len(call[c].receipts) = 1
    BY MovesAssumption
  <2> HIDE DEF issues
  <2>4. Len(issues) \in {0, 1}
    BY <2>2, <2>3
  <2> QED
    BY <2>1, <2>2, <2>4
<1>3. Len(costs[c]) + 1 = 1
  BY <1>1
<1> DEFINE next == Len(costs[c]) + 1
           line == issues[next]
           now  == IF next \in DOMAIN issues
                   THEN Append(costs[c], CostOf(PositionIn(Committed, line.item), line.quantity))
                   ELSE costs[c]
<1>4. /\ next \in DOMAIN issues => CanIssue(PositionIn(Committed, line.item), line.quantity)
      /\ costs' = [costs EXCEPT ![c] = now]
      /\ view' = [view EXCEPT ![c] = IF costs[c] = <<>> THEN Committed ELSE @]
      /\ pc' = [pc EXCEPT ![c] = IF Len(now) < Len(issues) THEN "price"
                                 ELSE IF call[c].op = "move" THEN "record" ELSE "locks"]
  BY Zenon DEF Price, Goto
<1>5. now = priced
  BY <1>1, <1>3
<1>6. Len(priced) = Len(issues)
  <2> HIDE DEF issues
  <2>1. CASE Len(issues) = 0
    <3>1. priced = <<>>
      BY <1>2, <2>1
    <3> QED
      BY <2>1, <3>1
  <2>2. CASE Len(issues) = 1
    <3>1. priced = <<CostOf(At(1), issues[1].quantity)>>
      BY <1>2, <2>2
    <3> QED
      BY <2>2, <3>1
  <2> QED
    BY <1>2, <2>1, <2>2
<1>7. 1 \in DOMAIN issues => CanIssue(At(1), issues[1].quantity)
  BY <1>3, <1>4
<1> HIDE DEF now, priced, issues
<1>8. pc'[c] = "record" /\ view'[c] = Committed
  BY <1>1, <1>2, <1>4, <1>5, <1>6 DEF TypeOK, SightIInv
<1>9. costs'[c] = priced
  BY <1>4, <1>5 DEF LogTypes
<1>10. \A i \in DOMAIN issues : i = 1
  BY <1>2
<1>11. 1 \in DOMAIN issues => costs'[c][1] = CostOf(At(1), issues[1].quantity)
  BY <1>9 DEF priced
<1> QED
  BY <1>7, <1>8, <1>10, <1>11 DEF issues

\* The desk prices what it was asked for by what it reads.
LEMMA PriceSighted ==
    ASSUME TypeOK, SightIInv, LogTypes, NEW c \in Callers, Labelled(c), Price(c), ~Refuse(c)
    PROVE  log' = log /\ Sighted(c)'
<1>1. /\ pc[c] = "price" /\ call' = call /\ log' = log
      /\ pc'[c] \in {"price", IF call[c].op = "move" THEN "record" ELSE "locks"}
  BY DEF Price, Goto, TypeOK
<1>2. CASE pc'[c] = "record"
  <2>1. call[c] \in Moves
    BY <1>1, <1>2, PostingsAssumption DEF Labelled
  <2> QED
    BY <1>1, <1>2, <2>1, PriceFacts DEF Sighted, Decided, Moving
<1>3. CASE pc'[c] # "record"
  BY <1>1, <1>3 DEF Sighted, Decided, Moving
<1> QED
  BY <1>1, <1>2, <1>3

\* A caller has no cost before it has priced a line, and the desk has one line.
LEMMA StepUnpriced ==
    ASSUME TypeOK, SightIInv, LogTypes, NEW c \in Callers, Labelled(c), Ask(c) \/ Step(c) \/ Fail(c)
    PROVE  Unpriced(c)'
<1>1. Unpriced(c)
  BY DEF SightIInv
<1>2. CASE Answer(c)
  <2>1. pc'[c] = "idle" /\ costs'[c] = <<>>
    BY <1>2 DEF Answer, Goto, TypeOK, LogTypes
  <2> QED
    BY <2>1 DEF Unpriced
<1>3. CASE Ask(c)
  <2>1. pc[c] = "idle" /\ pc'[c] = "price" /\ costs' = costs
    BY <1>3 DEF Ask, Goto, TypeOK
  <2> QED
    BY <1>1, <2>1 DEF Unpriced
<1>4. CASE Price(c) /\ ~Refuse(c)
  <2>1. pc'[c] # "idle" /\ call' = call
    BY <1>4 DEF Price, Goto, TypeOK
  <2>2. call[c] \in Moves => pc'[c] = "record"
    BY <1>4, PriceFacts
  <2> QED
    BY <2>1, <2>2 DEF Unpriced
<1>5. CASE ~Answer(c) /\ Step(c) /\ ~Price(c)
  <2>1. pc'[c] \notin {"idle", "price"}
    <3>1. CASE CheckLock(c) \/ CheckCostLock(c) \/ LoadRules(c) \/ Admit(c)
      BY <1>5, <3>1 DEF CheckLock, CheckCostLock, LoadRules, Admit, Refuse, Proceed, Goto, TypeOK
    <3>2. CASE EnsureSequence(c) \/ ReserveSequence(c) \/ SequenceDeadlock(c) \/ AdvanceSequence(c)
      BY <1>5, <3>2 DEF EnsureSequence, ReserveSequence, SequenceDeadlock, AdvanceSequence,
                        Refuse, Proceed, Goto, TypeOK
    <3>3. CASE CheckStock(c) \/ SaveEntry(c) \/ SaveKey(c) \/ SaveCost(c)
      BY <1>5, <3>3 DEF CheckStock, SaveEntry, SaveKey, SaveCost, SaveVoucher, Refuse, Proceed,
                        Goto, TypeOK
    <3>4. CASE WriteMovement(c) \/ RecordDocument(c) \/ Commit(c) \/ RecordMovement(c)
      BY <1>5, <3>4 DEF WriteMovement, RecordDocument, Commit, RecordMovement, Refuse, Proceed,
                        Goto, TypeOK
    <3> QED
      BY <1>5, <3>1, <3>2, <3>3, <3>4 DEF Step
  <2> QED
    BY <2>1 DEF Unpriced
<1> QED
  BY <1>2, <1>3, <1>4, <1>5 DEF Fail, Refuse

\* What can be read can be read still; and the other way to end: what is on
\* file is not what the caller looked at.
StillRead == \A item : PositionIn(Committed, item).readable => PositionIn(Committed', item).readable

Overlapped(c) == pc[c] \in {"commit", "record"} /\ pc'[c] = "idle" /\ view[c] # Committed

\* A caller's step, as far as the stock is concerned.
Seen(c) == Sighted(c)' /\ (\A d \in Callers \ {c} : OnlyGrows(d)) /\ (StillRead \/ Overlapped(c))

\* The desk records the movement it decided on.
LEMMA RecordSighted ==
    ASSUME TypeOK, WholeIInv, SightIInv, NEW c \in Callers, RecordMovement(c), ~Refuse(c)
    PROVE  Seen(c)
<1> DEFINE all  == Movements(c)
           line == all[1]
           row  == [line EXCEPT !.owner = None]
           rows == [i \in DOMAIN all |-> [all[i] EXCEPT !.owner = None]]
           receipts == call[c].receipts
<1>1. /\ pc[c] = "record" /\ pc'[c] = "idle" /\ log' = log \o rows
      /\ \A i \in DOMAIN receipts :
            CanReceive(PositionIn(view[c], receipts[i].item), receipts[i].quantity, receipts[i].cost)
  BY DEF RecordMovement, Answer, Goto, TypeOK
<1>2. call[c] \in Moves /\ LogTypes /\ Sighted(c)
  BY <1>1 DEF WholeIInv, RowsWritten, SightIInv
<1>3. /\ Len(all) = 1
      /\ \/ /\ 1 \in DOMAIN call[c].issues /\ line.kind = "issue" /\ line.cost = costs[c][1]
            /\ line.item = call[c].issues[1].item /\ line.quantity = call[c].issues[1].quantity
         \/ /\ 1 \in DOMAIN receipts /\ line.kind = "receipt" /\ line.cost = receipts[1].cost
            /\ line.item = receipts[1].item /\ line.quantity = receipts[1].quantity
  BY <1>2, MovementKinds
<1>4. all = [i \in 1 .. 1 |-> all[i]] /\ RowShape(line)
  <2>1. all = [i \in 1 .. Len(all) |-> all[i]] /\ \A i \in DOMAIN all : IsRowOf(c, all[i])
    BY <1>2, MovementsFacts
  <2>2. all = [i \in 1 .. 1 |-> all[i]]
    BY <1>3, <2>1
  <2> HIDE DEF all
  <2>3. 1 \in DOMAIN all
    BY <2>2
  <2> QED
    BY <2>1, <2>2, <2>3 DEF IsRowOf
<1>5. SameMove(line, row) /\ row.owner = None
  <2> HIDE DEF line, row
  <2>1. row = [item |-> line.item, kind |-> line.kind, quantity |-> line.quantity, cost |-> line.cost,
               voucher |-> line.voucher, owner |-> None]
    BY <1>4 DEF RowShape, row
  <2> QED
    BY <2>1 DEF SameMove
<1>6. Sound(PositionIn(view[c], line.item), line)
  <2>1. CASE line.kind = "issue"
    BY <1>1, <1>2, <1>3, <2>1 DEF Sighted, Sound
  <2>2. CASE line.kind = "receipt"
    BY <1>1, <1>3, <2>2 DEF Sound
  <2> QED
    BY <1>3, <2>1, <2>2
<1>7. rows = [i \in 1 .. 1 |-> row]
  <2>1. DOMAIN all = 1 .. 1 /\ \A i \in 1 .. 1 : i = 1
    BY <1>4
  <2> HIDE DEF all
  <2> QED
    BY <2>1
<1> HIDE DEF all, line, row, rows
<1>8. log' = Append(log, row)
  <2> DEFINE S == Rows \cup {row}
             one == [i \in 1 .. 1 |-> row]
  <2>1. log \in Seq(S) /\ row \in S
    BY <1>2, SeqMonotonic DEF LogTypes
  <2> HIDE DEF S
  <2>2. log \o one = Append(log, row)
    BY <2>1
  <2> QED
    BY <1>1, <1>7, <2>2
<1>9. Committed' = Append(Committed, row) /\ \A d : OnlyGrows(d)
  BY <1>2, <1>5, <1>8, RecordGrows
<1>10. view[c] = Committed => StillRead
  <2> SUFFICES ASSUME view[c] = Committed, NEW item, PositionIn(Committed, item).readable
               PROVE  PositionIn(Committed', item).readable
    BY DEF StillRead
  <2> DEFINE seen == Committed
             S == Rows \cup {row}
  <2>1. seen \in Seq(S) /\ row \in S
    <3>1. seen \in Seq(Rows)
      BY <1>2, RowsOf, RowsTyped
    <3> HIDE DEF seen
    <3> QED
      BY <3>1, SeqMonotonic
  <2>2. Sound(PositionIn(seen, row.item), row)
    BY <1>5, <1>6 DEF SameMove, Sound
  <2>3. PositionIn(seen, item).readable
    OBVIOUS
  <2> HIDE DEF seen, S
  <2>4. PositionIn(Append(seen, row), item).readable
    BY <2>1, <2>2, <2>3, SoundReadable
  <2> QED
    BY <1>9, <2>4 DEF seen
<1>11. Sighted(c)'
  BY <1>1 DEF Sighted, Decided, Moving
<1> QED
  BY <1>1, <1>9, <1>10, <1>11 DEF Seen, Overlapped

\* A commit puts on file what its caller looked at, and then what it moved.
LEMMA CommitSighted ==
    ASSUME TypeOK, WholeIInv, SightIInv, NEW c \in Callers, Commit(c)
    PROVE  Seen(c)
<1>1. /\ pc[c] = "commit" /\ pc'[c] = "idle"
      /\ log' = [i \in DOMAIN log |-> IF log[i].owner = c THEN [log[i] EXCEPT !.owner = None] ELSE log[i]]
  BY DEF Commit, Answer, Goto, TypeOK
<1>2. LogTypes /\ Owned(c) = Movements(c) /\ Sighted(c)
  BY <1>1 DEF WholeIInv, RowsWritten, SightIInv
<1>3. log' = Changed(log, Given(c))
  <2>1. \A i \in DOMAIN log :
          Given(c)[log[i]] = IF log[i].owner = c THEN [log[i] EXCEPT !.owner = None] ELSE log[i]
    BY DEF Given, Rows
  <2> QED
    BY <1>1, <2>1 DEF Changed
<1>4. Committed' = Changed(Joined(c), Given(c)) /\ \A d \in Callers \ {c} : OnlyGrows(d)
  BY <1>2, <1>3, CommitGrows
<1>5. view[c] = Committed => StillRead
  <2> SUFFICES ASSUME view[c] = Committed, NEW item, PositionIn(Committed, item).readable
               PROVE  PositionIn(Committed', item).readable
    BY DEF StillRead
  <2> DEFINE seen  == Committed
             moved == Owned(c)
             join  == Joined(c)
             given == Changed(join, Given(c))
             T     == {Given(c)[m] : m \in Rows}
  <2>1. seen \in Seq(Rows) /\ moved \in Seq(Rows) /\ join \in Seq(Rows)
    <3>1. \A owners : Among(log, Of(Rows, owners)) \in Seq(Rows)
      BY <1>2, RowsTyped
    <3>2. /\ seen = Among(log, Of(Rows, {None})) /\ moved = Among(log, Of(Rows, {c}))
          /\ join = Among(log, Of(Rows, {None, c}))
      BY RowsOf
    <3> HIDE DEF seen, moved, join
    <3> QED
      BY <3>1, <3>2
  <2>2. Passes(seen, moved) /\ join = seen \o moved
    BY <1>1, <1>2 DEF Sighted, Decided, Moving
  <2>3. PositionIn(seen, item).readable
    OBVIOUS
  <2> HIDE DEF seen, moved, join
  <2>4. PositionIn(join, item).readable
    BY <2>1, <2>2, <2>3, PassesReadable
  <2>5. /\ Len(join) \in Nat /\ given = [i \in 1 .. Len(join) |-> Given(c)[join[i]]]
        /\ \A i \in 1 .. Len(join) : join[i] \in Rows
    BY <2>1, ElementOfSeq, LenProperties DEF Changed
  <2>6. \A i \in 1 .. Len(join) : SameMove(join[i], given[i]) /\ given[i] \in T
    <3> TAKE i \in 1 .. Len(join)
    <3>1. given[i] = Given(c)[join[i]] /\ join[i] \in Rows
      BY <2>5
    <3> HIDE DEF given
    <3> QED
      BY <1>2, <3>1, GivenSame
  <2>7. given = [i \in 1 .. Len(join) |-> given[i]]
    BY <2>5
  <2> HIDE DEF given, T
  <2>8. given \in Seq(T) /\ Len(given) = Len(join)
    BY <2>5, <2>6, <2>7
  <2>9. PositionIn(join, item) = PositionIn(given, item)
    BY <2>1, <2>6, <2>8, PositionAlike
  <2> QED
    BY <1>4, <2>4, <2>9 DEF given, join
<1>6. Sighted(c)'
  BY <1>1 DEF Sighted, Decided, Moving
<1> QED
  BY <1>1, <1>4, <1>5, <1>6 DEF Seen, Overlapped

\* Where nothing is written, everybody else's stock stays.
LEMMA QuietSeen ==
    ASSUME LogTypes, NEW c \in Callers, log' = log, Sighted(c)'
    PROVE  Seen(c)
<1>1. Committed' = Committed /\ \A d : Stays(d)
  BY SameLogStays
<1> QED
  BY <1>1, StaysGrows DEF Seen, StillRead

\* Nor does a caller that has not decided yet, or has been answered, depend on it.
LEMMA UndecidedSighted ==
    ASSUME NEW c \in Callers, pc'[c] \notin Decided \cup {"record"}
    PROVE  Sighted(c)'
BY DEF Sighted, Decided, Moving

\* One caller's step.
LEMMA StepSeen ==
    ASSUME TypeOK, WholeIInv, SightIInv, NEW c \in Callers, Labelled(c), Ask(c) \/ Step(c) \/ Fail(c)
    PROVE  Seen(c)
<1> DEFINE early == {"price", "costlock", "rules", "admit", "ensure", "reserve", "advance", "check"}
<1>0. LogTypes /\ OwnersMove
  BY DEF WholeIInv
<1>1. CASE Refuse(c)
  <2>1. Committed' = Committed /\ \A d \in Callers \ {c} : OnlyGrows(d)
    BY <1>0, <1>1, RefuseStays, StaysGrows
  <2>2. pc'[c] = "idle"
    BY <1>1 DEF Refuse, Answer, Goto, TypeOK
  <2>3. Sighted(c)'
    BY <2>2, UndecidedSighted DEF Decided, Moving
  <2> QED
    BY <2>1, <2>3 DEF Seen, StillRead
<1>2. CASE log' = log /\ pc'[c] \in early
  <2>1. Sighted(c)'
    BY <1>2, UndecidedSighted DEF Decided, Moving
  <2> QED
    BY <1>0, <1>2, <2>1, QuietSeen
<1>3. CASE Ask(c)
  BY <1>2, <1>3 DEF Ask, Goto, TypeOK
<1>4. CASE Price(c) /\ ~Refuse(c)
  BY <1>0, <1>4, PriceSighted, QuietSeen
<1>5. CASE (CheckLock(c) \/ CheckCostLock(c) \/ LoadRules(c) \/ Admit(c)) /\ ~Refuse(c)
  BY <1>2, <1>5 DEF CheckLock, CheckCostLock, LoadRules, Admit, Proceed, Goto, TypeOK
<1>6. CASE EnsureSequence(c) \/ ReserveSequence(c) \/ AdvanceSequence(c)
  BY <1>2, <1>6 DEF EnsureSequence, ReserveSequence, AdvanceSequence, Proceed, Goto, TypeOK
<1>7. CASE CheckStock(c) /\ ~Refuse(c)
  BY <1>0, <1>7, CheckSighted, QuietSeen
<1>8. CASE (SaveEntry(c) \/ SaveKey(c) \/ SaveCost(c) \/ RecordDocument(c)) /\ ~Refuse(c)
  <2>1. /\ pc[c] \in Decided /\ pc'[c] \in Decided
        /\ call' = call /\ costs' = costs /\ view' = view /\ log' = log
    BY <1>8 DEF SaveEntry, SaveKey, SaveCost, SaveVoucher, RecordDocument, Proceed, Goto, TypeOK,
                held, Decided, Moving
  <2> QED
    BY <1>0, <2>1, OwnSightKept, QuietSeen
<1>9. CASE WriteMovement(c)
  <2>1. /\ Committed' = Committed /\ \A d \in Callers \ {c} : Stays(d)
        /\ Sighted(c)'
    BY <1>0, <1>9, WriteSighted
  <2> QED
    BY <1>0, <2>1, StaysGrows DEF Seen, StillRead
<1>10. CASE Commit(c)
  BY <1>10, CommitSighted
<1>11. CASE RecordMovement(c) /\ ~Refuse(c)
  BY <1>11, RecordSighted
<1>12. CASE Fail(c) \/ SequenceDeadlock(c)
  BY <1>1, <1>12 DEF Fail, SequenceDeadlock
<1> QED
  BY <1>1, <1>3, <1>4, <1>5, <1>6, <1>7, <1>8, <1>9, <1>10, <1>11, <1>12 DEF Step

\* Whoever moves, each caller's sight of the stock stays good, and only one
\* that did not see what is on file spoils a position.
LEMMA NextSight ==
    ASSUME IInv, WholeIInv, SightIInv, [Next]_vars
    PROVE  SightIInv' /\ (StillRead \/ \E c \in Callers : Overlapped(c))
<1>0. TypeOK /\ LogTypes /\ LogTypes' /\ \A c \in Callers : Labelled(c)
  BY NextWhole DEF IInv, WholeIInv
<1>1. ASSUME NEW c \in Callers, Ask(c) \/ Step(c) \/ Fail(c)
      PROVE  SightIInv' /\ (StillRead \/ Overlapped(c))
  <2>1. Alone(c) /\ CostsAlone(c)
    BY <1>0, <1>1, StepAlone, StepCostsAlone
  <2>2. view' = [d \in Callers |-> view'[d]] /\ \A d \in Callers \ {c} : view'[d] = view[d]
    BY <1>1, StepSightAlone DEF SightIInv
  <2>3. Seen(c)
    BY <1>0, <1>1, StepSeen
  <2>4. ASSUME NEW d \in Callers \ {c} PROVE Sighted(d)'
    BY <1>0, <2>1, <2>2, <2>3, OthersSighted DEF Seen
  <2>5. \A d \in Callers : Sighted(d)'
    BY <2>3, <2>4 DEF Seen
  <2>6. \A d \in Callers : Unpriced(d)'
    <3>1. Unpriced(c)'
      BY <1>0, <1>1, StepUnpriced
    <3>2. \A d \in Callers \ {c} : Unpriced(d)'
      BY <2>1 DEF SightIInv, Unpriced, Alone, CostsAlone
    <3> QED
      BY <3>1, <3>2
  <2> QED
    BY <2>2, <2>3, <2>5, <2>6 DEF Seen, SightIInv
<1>2. CASE Calendar \/ UNCHANGED vars
  <2>1. log' = log /\ pc' = pc /\ call' = call /\ costs' = costs /\ view' = view
    BY <1>2 DEF Calendar, vars, held
  <2>2. Committed' = Committed /\ \A d : Stays(d)
    BY <2>1, SameLogStays
  <2>3. ASSUME NEW d \in Callers PROVE Sighted(d)'
    <3>1. Sighted(d) /\ Movements(d)' = Movements(d) /\ Stays(d)
      BY <2>1, <2>2 DEF SightIInv, Movements
    <3>2. Passes(view[d], Movements(d)) => Passes(view[d], Movements(d))'
      BY <2>1, <3>1 DEF Passes
    <3> QED
      BY <2>1, <3>1, <3>2 DEF Sighted, Stays
  <2>4. \A d \in Callers : Unpriced(d)'
    BY <2>1 DEF SightIInv, Unpriced
  <2> QED
    BY <2>1, <2>2, <2>3, <2>4 DEF SightIInv, StillRead
<1> QED
  BY <1>1, <1>2 DEF Next

\* What each caller saw of the stock is a part of what is on file, and what it
\* is about to move passes over it.
THEOREM SightInvariant == Spec => []SightIInv
<1>1. Init => SightIInv
  BY DEF Init, SightIInv, Sighted, Unpriced, Decided, Moving
<1>2. IInv /\ WholeIInv /\ SightIInv /\ [Next]_vars => SightIInv'
  BY NextSight
<1> QED
  BY <1>1, <1>2, Invariant, WholeInvariant, PTL DEF Spec

\* postingrepo.checkStock, practice.ReceiveStock and IssueStock: a position
\* that could be read stays readable, unless a movement was committed between
\* its writer's look at the stock and its own commit.
THEOREM OverlapSpoils == Spec => OnlyOverlapSpoilsStock
<1> DEFINE Alright ==
      \A item \in Items :
         (PositionIn(Committed, item).readable /\ ~ PositionIn(Committed', item).readable)
            => \E c \in Callers : /\ pc[c] \in {"commit", "record"} /\ pc'[c] = "idle"
                                  /\ view[c] # Committed
<1>1. ASSUME IInv, WholeIInv, SightIInv, [Next]_vars PROVE Alright
  BY <1>1, NextSight DEF StillRead, Overlapped
<1>2. Spec => [][Alright]_vars
  BY <1>1, Invariant, WholeInvariant, SightInvariant, PTL DEF Spec
<1> QED
  BY <1>2, PTL DEF OnlyOverlapSpoilsStock
=============================================================================
