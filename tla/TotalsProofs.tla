---------------------------- MODULE TotalsProofs ----------------------------
(***************************************************************************)
(* What a sum over a finite set comes to, for every set and every amount.  *)
(*                                                                         *)
(* A sum takes its elements in whatever order CHOOSE gives them.  It is    *)
(* the value of a recursion that has a solution (SumsExist) and only one   *)
(* (SumsAgree), and the order makes no difference (OverRemove).  Induction *)
(* is by a least counterexample: a set of natural numbers, or of subsets   *)
(* of a finite set, that is not empty has a least member (WFMin).          *)
(***************************************************************************)
EXTENDS Totals, Integers, FiniteSets, FiniteSetTheorems, WellFoundedInduction, TLAPS

\* The amounts of a function over part of its domain.
Over(f, S) == Total([x \in S |-> f[x]])

\* The element a sum takes first.
Pick(s) == CHOOSE x \in s : TRUE

\* What the recursion of a sum says of it over a collection of sets.
Sums(f, D, g) == g = [s \in D |-> IF s = {} THEN 0 ELSE f[Pick(s)] + g[s \ {Pick(s)}]]

\* Over all the parts of a set.
SumsOf(f, U, g) == Sums(f, SUBSET U, g)

\* Two functions give the elements of a set the same amounts.
Alike(f, e, S) == \A x \in S : f[x] = e[x]

-----------------------------------------------------------------------------
(* Induction.                                                              *)

\* A set of natural numbers that is not empty has a least member.
LEMMA LeastNumber ==
    ASSUME NEW T \in SUBSET Nat, T # {}
    PROVE  \E n \in T : \A m \in T : ~(m < n)
<1>1. \E n \in T : \A m \in T : ~(<<m, n>> \in OpToRel(<, Nat))
    BY NatLessThanWellFounded, WFMin
<1> QED BY <1>1 DEF OpToRel

\* A collection of subsets of a finite set that is not empty has a least member.
LEMMA LeastSubset ==
    ASSUME NEW S, IsFiniteSet(S), NEW T \in SUBSET SUBSET S, T # {}
    PROVE  \E s \in T : \A r \in T : ~(r \subseteq s /\ r # s)
<1>1. T \subseteq FiniteSubsetsOf(S)
    BY FS_Subset DEF FiniteSubsetsOf
<1>2. \E s \in T : \A r \in T : ~(<<r, s>> \in StrictSubsetOrdering(S))
    BY <1>1, FS_StrictSubsetOrderingWellFounded, WFMin
<1> QED BY <1>2 DEF StrictSubsetOrdering

\* What holds of no elements, and of one more whenever it holds of some, holds
\* of all: Good collects the sets it holds of.
LEMMA BySubsets ==
    ASSUME NEW S, IsFiniteSet(S), NEW Good,
           {} \in Good, \A T \in SUBSET S : \A x \in S \ T : T \in Good => T \cup {x} \in Good
    PROVE  S \in Good
<1> DEFINE Bad == {T \in SUBSET S : T \notin Good}
<1>1. SUFFICES ASSUME Bad # {} PROVE FALSE
    OBVIOUS
<1>2. Bad \in SUBSET SUBSET S
    OBVIOUS
<1>3. PICK T \in Bad : \A R \in Bad : ~(R \subseteq T /\ R # T)
    <2> HIDE DEF Bad
    <2> QED BY <1>1, <1>2, LeastSubset
<1>4. PICK x \in T : TRUE
    OBVIOUS
<1>5. T \ {x} \in Good
    BY <1>3, <1>4
<1>6. (T \ {x}) \cup {x} = T
    BY <1>4
<1> QED BY <1>4, <1>5, <1>6

\* What a function makes of a finite set is finite.
LEMMA ImageFinite ==
    ASSUME NEW S, IsFiniteSet(S), NEW e
    PROVE  IsFiniteSet({e[x] : x \in S})
<1> DEFINE Good == {T \in SUBSET S : IsFiniteSet({e[x] : x \in T})}
<1>1. {} \in Good
  <2>1. {e[x] : x \in {}} = {}
    OBVIOUS
  <2> QED BY <2>1, FS_EmptySet
<1>2. ASSUME NEW T \in SUBSET S, NEW y \in S \ T, T \in Good
      PROVE  T \cup {y} \in Good
  <2>1. {e[x] : x \in T \cup {y}} = {e[x] : x \in T} \cup {e[y]}
    OBVIOUS
  <2>2. IsFiniteSet({e[x] : x \in T} \cup {e[y]})
    BY <1>2, FS_AddElement
  <2> QED BY <2>1, <2>2
<1> HIDE DEF Good
<1>3. S \in Good
    BY <1>1, <1>2, BySubsets
<1> QED BY <1>3 DEF Good

-----------------------------------------------------------------------------
(* The recursion has a solution, and it is the sum.                        *)

\* Sets of up to a number of elements have a sum, since smaller ones do.
LEMMA SumsUpTo ==
    ASSUME NEW f, NEW U, IsFiniteSet(U), NEW n \in Nat
    PROVE  \E g : Sums(f, {s \in SUBSET U : Cardinality(s) <= n}, g)
<1> DEFINE Level(k) == {s \in SUBSET U : Cardinality(s) <= k}
           Bad == {k \in Nat : ~\E g : Sums(f, Level(k), g)}
<1>1. SUFFICES ASSUME Bad # {} PROVE FALSE
    OBVIOUS
<1>2. PICK k \in Bad : \A m \in Bad : ~(m < k)
    BY <1>1, LeastNumber
<1>3. \A s \in SUBSET U : IsFiniteSet(s) /\ Cardinality(s) \in Nat
    BY FS_Subset, FS_CardinalityType
<1>4. CASE k = 0
  <2>1. \A s \in Level(0) : s = {}
    BY <1>3, FS_EmptySet
  <2> DEFINE g == [s \in Level(0) |-> 0]
  <2>2. Sums(f, Level(0), g)
    BY <2>1 DEF Sums, SumsOf
  <2> QED BY <1>4, <2>2
<1>5. CASE k # 0
  <2>1. k - 1 \in Nat /\ k - 1 < k
    BY <1>5
  <2>2. k - 1 \notin Bad
    <3> HIDE DEF Bad
    <3> QED BY <1>2, <2>1
  <2>3. PICK h : Sums(f, Level(k - 1), h)
    BY <2>1, <2>2
  <2> DEFINE g == [s \in Level(k) |-> IF s = {} THEN 0 ELSE f[Pick(s)] + h[s \ {Pick(s)}]]
  <2>4. ASSUME NEW s \in Level(k), s # {}
        PROVE  g[s \ {Pick(s)}] = h[s \ {Pick(s)}]
    <3>1. Pick(s) \in s
      BY <2>4 DEF Pick
    <3>2. Cardinality(s \ {Pick(s)}) = Cardinality(s) - 1
      BY <3>1, <1>3, FS_RemoveElement
    <3>3. s \ {Pick(s)} \in Level(k - 1) /\ s \ {Pick(s)} \in Level(k)
      BY <3>1, <3>2, <1>3, <2>1
    <3> QED BY <3>3, <2>3 DEF Sums, SumsOf
  <2>5. Sums(f, Level(k), g)
    <3> HIDE DEF Level
    <3>1. \A s \in Level(k) : (IF s = {} THEN 0 ELSE f[Pick(s)] + h[s \ {Pick(s)}])
                               = (IF s = {} THEN 0 ELSE f[Pick(s)] + g[s \ {Pick(s)}])
      BY <2>4
    <3> QED BY <3>1 DEF Sums, SumsOf
  <2> QED BY <2>5, <1>2
<1> QED BY <1>4, <1>5

\* Over the subsets of a finite set.
LEMMA SumsExist ==
    ASSUME NEW f, NEW U, IsFiniteSet(U)
    PROVE  \E g : SumsOf(f, U, g)
<1> DEFINE Level == {s \in SUBSET U : Cardinality(s) <= Cardinality(U)}
<1>1. Cardinality(U) \in Nat
    BY FS_CardinalityType
<1>2. SUBSET U = Level
    BY FS_Subset
<1>3. \A n \in Nat : \E g : Sums(f, {s \in SUBSET U : Cardinality(s) <= n}, g)
    BY SumsUpTo
<1>4. \E g : Sums(f, Level, g)
    BY <1>1, <1>3
<1> HIDE DEF Level
<1> QED BY <1>2, <1>4 DEF SumsOf

\* Two solutions agree where both are defined.
LEMMA SumsAgree ==
    ASSUME NEW f, NEW U, IsFiniteSet(U), NEW V \in SUBSET U, NEW e, Alike(f, e, V),
           NEW g, SumsOf(f, U, g), NEW h, SumsOf(e, V, h)
    PROVE  \A s \in SUBSET V : g[s] = h[s]
<1> DEFINE Bad == {s \in SUBSET V : g[s] # h[s]}
<1>1. SUFFICES ASSUME Bad # {} PROVE FALSE
    OBVIOUS
<1>2. IsFiniteSet(V) /\ Bad \in SUBSET SUBSET V
    BY FS_Subset
<1>3. PICK s \in Bad : \A r \in Bad : ~(r \subseteq s /\ r # s)
  <2> HIDE DEF Bad
  <2> QED BY <1>1, <1>2, LeastSubset
<1>4. s # {}
    BY DEF Sums, SumsOf
<1>5. Pick(s) \in s
    BY <1>4 DEF Pick
<1>6. g[s \ {Pick(s)}] = h[s \ {Pick(s)}]
    BY <1>3, <1>5
<1> DEFINE rest(amounts, sum, t) == IF t = {} THEN 0 ELSE amounts[Pick(t)] + sum[t \ {Pick(t)}]
<1>7. /\ \A t \in SUBSET U : g[t] = rest(f, g, t)
      /\ \A t \in SUBSET V : h[t] = rest(e, h, t)
    BY DEF Sums, SumsOf
<1>8. s \in SUBSET U /\ s \in SUBSET V
    OBVIOUS
<1>9. rest(f, g, s) = rest(e, h, s)
    BY <1>4, <1>5, <1>6, <1>8 DEF Alike
<1> HIDE DEF rest
<1>10. g[s] = h[s]
    BY <1>7, <1>8, <1>9
<1> QED BY <1>10

\* A sum is a solution of its recursion, at the whole set.
LEMMA TotalSums ==
    ASSUME NEW f, IsFiniteSet(DOMAIN f)
    PROVE  \E g : SumsOf(f, DOMAIN f, g) /\ Total(f) = g[DOMAIN f]
<1> DEFINE it == CHOOSE g : SumsOf(f, DOMAIN f, g)
<1>1. SumsOf(f, DOMAIN f, it)
    BY SumsExist
<1>2. Total(f) = it[DOMAIN f]
    BY DEF Total, SumFunction, SumFunctionOnSet, FoldFunctionOnSet, MapThenFoldSet, Sums, SumsOf, Pick
<1> QED BY <1>1, <1>2

\* It does not matter what the amounts are elsewhere.
LEMMA PartSums ==
    ASSUME NEW f, NEW S, IsFiniteSet(S), NEW g, SumsOf(f, S, g),
           NEW e, DOMAIN e \in SUBSET S, Alike(f, e, DOMAIN e)
    PROVE  Total(e) = g[DOMAIN e]
<1>1. IsFiniteSet(DOMAIN e)
    BY FS_Subset
<1>2. PICK h : SumsOf(e, DOMAIN e, h) /\ Total(e) = h[DOMAIN e]
    BY <1>1, TotalSums
<1>3. \A t \in SUBSET DOMAIN e : g[t] = h[t]
    BY <1>2, SumsAgree
<1> QED BY <1>2, <1>3

\* The sum over each part is that of the one recursion.
LEMMA OverSums ==
    ASSUME NEW f, NEW S, IsFiniteSet(S), NEW g, SumsOf(f, S, g), NEW T \in SUBSET S
    PROVE  Over(f, T) = g[T]
<1> DEFINE e == [x \in T |-> f[x]]
<1>1. DOMAIN e = T /\ Alike(f, e, DOMAIN e)
    BY DEF Alike
<1> HIDE DEF e
<1>2. Total(e) = g[DOMAIN e]
    BY <1>1, PartSums
<1> QED BY <1>1, <1>2 DEF Over, e

-----------------------------------------------------------------------------
(* Sums, and one element more or less.                                     *)

\* Nothing comes to nothing.
LEMMA OverEmpty ==
    ASSUME NEW f PROVE Over(f, {}) = 0
<1> DEFINE none == {}
<1>1. IsFiniteSet(none) /\ none \in SUBSET none
    BY FS_EmptySet
<1> HIDE DEF none
<1>2. PICK g : SumsOf(f, none, g)
    BY <1>1, SumsExist
<1>3. Over(f, none) = g[none]
    BY <1>1, <1>2, OverSums
<1>4. g[none] = IF none = {} THEN 0 ELSE f[Pick(none)] + g[none \ {Pick(none)}]
    BY <1>1, <1>2 DEF Sums, SumsOf
<1> QED BY <1>3, <1>4 DEF none

\* A sum is the element it takes first, and the sum of the rest.
LEMMA OverPick ==
    ASSUME NEW f, NEW S, IsFiniteSet(S), S # {}
    PROVE  Pick(S) \in S /\ Over(f, S) = f[Pick(S)] + Over(f, S \ {Pick(S)})
<1>1. PICK g : SumsOf(f, S, g)
    BY SumsExist
<1>2. Over(f, S) = g[S] /\ Over(f, S \ {Pick(S)}) = g[S \ {Pick(S)}]
    BY <1>1, OverSums
<1> QED BY <1>1, <1>2 DEF Sums, SumsOf, Pick

\* Integers come to an integer.
LEMMA OverInt ==
    ASSUME NEW f, NEW S, IsFiniteSet(S), \A x \in S : f[x] \in Int
    PROVE  Over(f, S) \in Int
<1> DEFINE Bad == {T \in SUBSET S : Over(f, T) \notin Int}
<1>1. SUFFICES ASSUME Bad # {} PROVE FALSE
    OBVIOUS
<1>2. PICK T \in Bad : \A R \in Bad : ~(R \subseteq T /\ R # T)
  <2>1. Bad \in SUBSET SUBSET S
    OBVIOUS
  <2> HIDE DEF Bad
  <2> QED BY <1>1, <2>1, LeastSubset
<1>3. T # {} /\ IsFiniteSet(T)
  <2>1. Over(f, {}) \in Int
    BY OverEmpty
  <2>2. T \in SUBSET S /\ Over(f, T) \notin Int
    OBVIOUS
  <2> QED BY <2>1, <2>2, FS_Subset
<1>4. Pick(T) \in T /\ Over(f, T) = f[Pick(T)] + Over(f, T \ {Pick(T)})
    BY <1>3, OverPick
<1>5. Over(f, T \ {Pick(T)}) \in Int
    BY <1>2, <1>4
<1> QED BY <1>4, <1>5

\* Whichever element is taken first.
LEMMA OverRemove ==
    ASSUME NEW f, NEW S, IsFiniteSet(S), \A x \in S : f[x] \in Int, NEW y \in S
    PROVE  Over(f, S) = f[y] + Over(f, S \ {y})
<1> DEFINE Bad == {T \in SUBSET S : \E x \in T : Over(f, T) # f[x] + Over(f, T \ {x})}
<1>1. SUFFICES ASSUME Bad # {} PROVE FALSE
    OBVIOUS
<1>2. PICK T \in Bad : \A R \in Bad : ~(R \subseteq T /\ R # T)
  <2>1. Bad \in SUBSET SUBSET S
    OBVIOUS
  <2> HIDE DEF Bad
  <2> QED BY <1>1, <2>1, LeastSubset
<1>3. PICK x \in T : Over(f, T) # f[x] + Over(f, T \ {x})
    OBVIOUS
<1> DEFINE p == Pick(T)
<1>4. IsFiniteSet(T)
    BY FS_Subset
<1>5. p \in T /\ Over(f, T) = f[p] + Over(f, T \ {p})
    BY <1>3, <1>4, OverPick
<1>6. x # p
    BY <1>3, <1>5
<1>7. /\ Over(f, T \ {p}) = f[x] + Over(f, (T \ {p}) \ {x})
      /\ Over(f, T \ {x}) = f[p] + Over(f, (T \ {x}) \ {p})
    BY <1>2, <1>3, <1>5, <1>6
<1>8. (T \ {p}) \ {x} = (T \ {x}) \ {p} /\ IsFiniteSet((T \ {p}) \ {x})
    BY <1>4, FS_Subset
<1>9. Over(f, (T \ {p}) \ {x}) \in Int /\ f[x] \in Int /\ f[p] \in Int
    BY <1>3, <1>5, <1>8, OverInt
<1>10. f[p] + (f[x] + Over(f, (T \ {p}) \ {x})) = f[x] + (f[p] + Over(f, (T \ {p}) \ {x}))
    BY <1>9
<1>11. Over(f, T) = f[x] + Over(f, T \ {x})
    BY <1>5, <1>7, <1>8, <1>10
<1> QED BY <1>3, <1>11

\* One element more adds its amount.
LEMMA OverAdd ==
    ASSUME NEW f, NEW S, IsFiniteSet(S), NEW y, y \notin S, \A x \in S \cup {y} : f[x] \in Int
    PROVE  Over(f, S \cup {y}) = Over(f, S) + f[y]
<1>1. IsFiniteSet(S \cup {y}) /\ (S \cup {y}) \ {y} = S
    BY FS_AddElement
<1>2. Over(f, S \cup {y}) = f[y] + Over(f, S)
    BY <1>1, OverRemove
<1>3. Over(f, S) \in Int
    BY OverInt
<1> QED BY <1>2, <1>3

\* One element alone comes to its amount.
LEMMA OverOne ==
    ASSUME NEW f, NEW y, f[y] \in Int
    PROVE  Over(f, {y}) = f[y]
<1>1. IsFiniteSet({}) /\ {} \cup {y} = {y}
    BY FS_EmptySet
<1>2. Over(f, {} \cup {y}) = Over(f, {}) + f[y]
    BY <1>1, OverAdd
<1> QED BY <1>1, <1>2, OverEmpty
-----------------------------------------------------------------------------
(* Sums, and the sums of their parts.                                      *)

\* The same amounts come to the same.
LEMMA OverSame ==
    ASSUME NEW f, NEW e, NEW S, Alike(f, e, S)
    PROVE  Over(f, S) = Over(e, S)
<1>1. [x \in S |-> f[x]] = [x \in S |-> e[x]]
    BY DEF Alike
<1> QED BY <1>1 DEF Over

\* Zeros come to nothing.
LEMMA OverZero ==
    ASSUME NEW f, NEW S, IsFiniteSet(S), \A x \in S : f[x] = 0
    PROVE  Over(f, S) = 0
<1> DEFINE Good == {T \in SUBSET S : Over(f, T) = 0}
<1>1. {} \in Good
    BY OverEmpty
<1>2. ASSUME NEW T \in SUBSET S, NEW x \in S \ T, T \in Good
      PROVE  T \cup {x} \in Good
  <2>1. IsFiniteSet(T)
    BY FS_Subset
  <2>2. Over(f, T \cup {x}) = Over(f, T) + f[x]
    BY <2>1, OverAdd
  <2> QED BY <1>2, <2>2
<1> HIDE DEF Good
<1>3. S \in Good
    BY <1>1, <1>2, BySubsets
<1> QED BY <1>3 DEF Good

\* Amounts that are not negative come to no less than nothing.
LEMMA OverNat ==
    ASSUME NEW f, NEW S, IsFiniteSet(S), \A x \in S : f[x] \in Nat
    PROVE  Over(f, S) \in Nat
<1> DEFINE Good == {T \in SUBSET S : Over(f, T) \in Nat}
<1>1. {} \in Good
    BY OverEmpty
<1>2. ASSUME NEW T \in SUBSET S, NEW x \in S \ T, T \in Good
      PROVE  T \cup {x} \in Good
  <2>1. IsFiniteSet(T)
    BY FS_Subset
  <2>2. Over(f, T \cup {x}) = Over(f, T) + f[x]
    BY <2>1, OverAdd
  <2> QED BY <1>2, <2>2
<1> HIDE DEF Good
<1>3. S \in Good
    BY <1>1, <1>2, BySubsets
<1> QED BY <1>3 DEF Good

\* Two sets with nothing in common come to the sum of both.
LEMMA OverSplit ==
    ASSUME NEW f, NEW S, IsFiniteSet(S), NEW T, IsFiniteSet(T), S \cap T = {},
           \A x \in S \cup T : f[x] \in Int
    PROVE  Over(f, S \cup T) = Over(f, S) + Over(f, T)
<1> DEFINE Good == {U \in SUBSET T : Over(f, S \cup U) = Over(f, S) + Over(f, U)}
<1>0. Over(f, S) \in Int
    BY OverInt
<1>1. {} \in Good
  <2>1. S \cup {} = S
    OBVIOUS
  <2> QED BY <1>0, <2>1, OverEmpty
<1>2. ASSUME NEW U \in SUBSET T, NEW x \in T \ U, U \in Good
      PROVE  U \cup {x} \in Good
  <2>1. IsFiniteSet(U) /\ IsFiniteSet(S \cup U)
    BY FS_Subset, FS_Union
  <2>2. Over(f, U \cup {x}) = Over(f, U) + f[x]
    BY <2>1, OverAdd
  <2>3. x \notin S \cup U /\ \A y \in (S \cup U) \cup {x} : f[y] \in Int
    OBVIOUS
  <2>4. Over(f, (S \cup U) \cup {x}) = Over(f, S \cup U) + f[x]
    BY <2>1, <2>3, OverAdd
  <2>5. S \cup (U \cup {x}) = (S \cup U) \cup {x}
    OBVIOUS
  <2>6. Over(f, U) \in Int /\ f[x] \in Int
    BY <2>1, OverInt
  <2>7. Over(f, S \cup U) = Over(f, S) + Over(f, U)
    BY <1>2
  <2>8. Over(f, S \cup (U \cup {x})) = (Over(f, S) + Over(f, U)) + f[x]
    BY <2>4, <2>5, <2>7, Zenon
  <2>9. (Over(f, S) + Over(f, U)) + f[x] = Over(f, S) + Over(f, U \cup {x})
    BY <1>0, <2>2, <2>6
  <2> QED BY <2>8, <2>9
<1> HIDE DEF Good
<1>3. T \in Good
    BY <1>1, <1>2, BySubsets
<1> QED BY <1>3 DEF Good

\* A part of a set of amounts that are not negative comes to no more.
LEMMA OverPart ==
    ASSUME NEW f, NEW S, IsFiniteSet(S), \A x \in S : f[x] \in Nat, NEW T \in SUBSET S
    PROVE  Over(f, T) <= Over(f, S)
<1>1. IsFiniteSet(T) /\ IsFiniteSet(S \ T) /\ T \cap (S \ T) = {} /\ T \cup (S \ T) = S
    BY FS_Subset
<1> DEFINE rest == S \ T
<1> HIDE DEF rest
<1>2. Over(f, S) = Over(f, T) + Over(f, rest)
  <2>1. IsFiniteSet(rest) /\ T \cap rest = {} /\ T \cup rest = S
    BY <1>1 DEF rest
  <2>2. Over(f, T \cup rest) = Over(f, T) + Over(f, rest)
    BY <1>1, <2>1, OverSplit
  <2> QED BY <2>1, <2>2
<1>3. Over(f, T) \in Nat /\ Over(f, rest) \in Nat
    BY <1>1, OverNat DEF rest
<1> QED BY <1>1, <1>2, <1>3

\* Elements that count for nothing may be left out.
LEMMA OverCounted ==
    ASSUME NEW f, NEW S, IsFiniteSet(S), \A x \in S : f[x] \in Int, NEW T \in SUBSET S,
           \A x \in S \ T : f[x] = 0
    PROVE  Over(f, S) = Over(f, T)
<1>1. IsFiniteSet(T) /\ IsFiniteSet(S \ T) /\ T \cap (S \ T) = {} /\ T \cup (S \ T) = S
    BY FS_Subset
<1> DEFINE rest == S \ T
<1> HIDE DEF rest
<1>2. Over(f, S) = Over(f, T) + Over(f, rest)
  <2>1. IsFiniteSet(rest) /\ T \cap rest = {} /\ T \cup rest = S
    BY <1>1 DEF rest
  <2>2. Over(f, T \cup rest) = Over(f, T) + Over(f, rest)
    BY <1>1, <2>1, OverSplit
  <2> QED BY <2>1, <2>2
<1>3. Over(f, T) \in Int /\ Over(f, rest) = 0
    BY <1>1, OverInt, OverZero DEF rest
<1> QED BY <1>1, <1>2, <1>3

-----------------------------------------------------------------------------
(* Sums of amounts made from others.                                       *)

\* The sum of sums.
LEMMA OverPlus ==
    ASSUME NEW f, NEW e, NEW h, NEW S, IsFiniteSet(S),
           \A x \in S : f[x] \in Int /\ e[x] \in Int /\ h[x] = f[x] + e[x]
    PROVE  Over(h, S) = Over(f, S) + Over(e, S)
<1> DEFINE Good == {T \in SUBSET S : Over(h, T) = Over(f, T) + Over(e, T)}
<1>1. {} \in Good
    BY OverEmpty
<1>2. ASSUME NEW T \in SUBSET S, NEW x \in S \ T, T \in Good
      PROVE  T \cup {x} \in Good
  <2>1. IsFiniteSet(T) /\ \A y \in T \cup {x} : f[y] \in Int /\ e[y] \in Int /\ h[y] \in Int
    BY FS_Subset
  <2>2. /\ Over(f, T \cup {x}) = Over(f, T) + f[x]
        /\ Over(e, T \cup {x}) = Over(e, T) + e[x]
        /\ Over(h, T \cup {x}) = Over(h, T) + h[x]
    BY <2>1, OverAdd
  <2>3. Over(f, T) \in Int /\ Over(e, T) \in Int
    BY <2>1, OverInt
  <2>4. Over(h, T) = Over(f, T) + Over(e, T) /\ h[x] = f[x] + e[x]
    BY <1>2
  <2> QED BY <2>1, <2>2, <2>3, <2>4
<1> HIDE DEF Good
<1>3. S \in Good
    BY <1>1, <1>2, BySubsets
<1> QED BY <1>3 DEF Good

\* The amounts the other way round.
LEMMA OverMinus ==
    ASSUME NEW f, NEW h, NEW S, IsFiniteSet(S), \A x \in S : f[x] \in Int /\ h[x] = -f[x]
    PROVE  Over(h, S) = -Over(f, S)
<1> DEFINE none == [x \in S |-> 0]
<1>1. \A x \in S : f[x] \in Int /\ h[x] \in Int /\ none[x] = f[x] + h[x]
    OBVIOUS
<1>2. \A x \in S : none[x] = 0
    OBVIOUS
<1> HIDE DEF none
<1>3. Over(none, S) = Over(f, S) + Over(h, S)
    BY <1>1, OverPlus
<1>4. Over(none, S) = 0 /\ Over(f, S) \in Int /\ Over(h, S) \in Int
    BY <1>1, <1>2, OverZero, OverInt
<1> QED BY <1>3, <1>4

\* Amounts that are nowhere larger come to no more.
LEMMA OverAtMost ==
    ASSUME NEW f, NEW e, NEW S, IsFiniteSet(S),
           \A x \in S : f[x] \in Int /\ e[x] \in Int /\ f[x] <= e[x]
    PROVE  Over(f, S) <= Over(e, S)
<1> DEFINE more == [x \in S |-> e[x] - f[x]]
<1>1. \A x \in S : f[x] \in Int /\ more[x] \in Int /\ e[x] = f[x] + more[x] /\ more[x] \in Nat
    OBVIOUS
<1> HIDE DEF more
<1>2. Over(e, S) = Over(f, S) + Over(more, S)
    BY <1>1, OverPlus
<1>3. Over(f, S) \in Int /\ Over(more, S) \in Nat
    BY <1>1, OverInt, OverNat
<1> QED BY <1>2, <1>3

\* The same amounts under other names.
LEMMA OverNamed ==
    ASSUME NEW f, NEW S, IsFiniteSet(S), NEW g, NEW e,
           \A x \in S : f[x] \in Int /\ g[e[x]] = f[x],
           \A x, y \in S : e[x] = e[y] => x = y
    PROVE  Over(g, {e[x] : x \in S}) = Over(f, S)
<1> DEFINE Good == {T \in SUBSET S : IsFiniteSet({e[x] : x \in T}) /\ Over(g, {e[x] : x \in T}) = Over(f, T)}
<1>1. {} \in Good
  <2>1. {e[x] : x \in {}} = {}
    OBVIOUS
  <2> QED BY <2>1, OverEmpty, FS_EmptySet
<1>2. ASSUME NEW T \in SUBSET S, NEW y \in S \ T, T \in Good
      PROVE  T \cup {y} \in Good
  <2> DEFINE I == {e[x] : x \in T}
  <2>1. IsFiniteSet(T) /\ IsFiniteSet(I)
    BY <1>2, FS_Subset
  <2>2. {e[x] : x \in T \cup {y}} = I \cup {e[y]} /\ e[y] \notin I /\ \A z \in I \cup {e[y]} : g[z] \in Int
    OBVIOUS
  <2>3. Over(g, I) = Over(f, T) /\ g[e[y]] = f[y]
    BY <1>2
  <2> HIDE DEF I
  <2>4. ASSUME NEW z, z \notin I, \A w \in I \cup {z} : g[w] \in Int
        PROVE  Over(g, I \cup {z}) = Over(g, I) + g[z] /\ IsFiniteSet(I \cup {z})
    BY <2>1, <2>4, OverAdd, FS_AddElement
  <2>5. Over(f, T \cup {y}) = Over(f, T) + f[y]
    BY <2>1, OverAdd
  <2>6. Over(g, I \cup {e[y]}) = Over(g, I) + g[e[y]] /\ IsFiniteSet(I \cup {e[y]})
    BY <2>2, <2>4
  <2>7. Over(g, I \cup {e[y]}) = Over(f, T \cup {y})
    BY <2>3, <2>5, <2>6, Zenon
  <2> QED BY <2>2, <2>6, <2>7
<1> HIDE DEF Good
<1>3. S \in Good
    BY <1>1, <1>2, BySubsets
<1> QED BY <1>3 DEF Good

\* What a set comes to, part by part, the parts told by the kinds of what
\* belongs to them.
LEMMA OverParts ==
    ASSUME NEW f, NEW S, IsFiniteSet(S), \A x \in S : f[x] \in Int,
           NEW k, NEW K, IsFiniteSet(K), \A x \in S : k[x] \in K,
           NEW part, \A c \in K : part[c] \in SUBSET S /\ \A x \in S : x \in part[c] <=> k[x] = c,
           NEW g, \A c \in K : g[c] = Over(f, part[c])
    PROVE  Over(g, K) = Over(f, S)
<1> DEFINE Kept(C) == {x \in S : k[x] \in C}
           Good == {C \in SUBSET K : Over(g, C) = Over(f, Kept(C))}
<1>0. \A T \in SUBSET S : IsFiniteSet(T) /\ Over(f, T) \in Int
    BY FS_Subset, OverInt
<1>1. {} \in Good
  <2>1. Kept({}) = {}
    OBVIOUS
  <2> QED BY <2>1, OverEmpty
<1>2. ASSUME NEW C \in SUBSET K, NEW c \in K \ C, C \in Good
      PROVE  C \cup {c} \in Good
  <2> DEFINE This == part[c]
  <2>1. Kept(C \cup {c}) = Kept(C) \cup This /\ Kept(C) \cap This = {}
    OBVIOUS
  <2>2. /\ Kept(C) \in SUBSET S /\ This \in SUBSET S
        /\ Over(g, C) = Over(f, Kept(C)) /\ g[c] = Over(f, This)
    BY <1>2
  <2>3. \A b \in C \cup {c} : g[b] \in Int
    BY <1>0
  <2> HIDE DEF Kept, This
  <2>4. Over(f, Kept(C) \cup This) = Over(f, Kept(C)) + Over(f, This)
    BY <1>0, <2>1, <2>2, OverSplit
  <2>5. IsFiniteSet(C)
    BY FS_Subset
  <2>6. Over(g, C \cup {c}) = Over(g, C) + g[c]
    BY <2>3, <2>5, OverAdd
  <2> QED BY <2>1, <2>2, <2>4, <2>6
<1> HIDE DEF Good
<1>3. K \in Good
    BY <1>1, <1>2, BySubsets
<1>4. Kept(K) = S
    OBVIOUS
<1> QED BY <1>3, <1>4 DEF Good

\* The same, each part written out.
LEMMA OverKinds ==
    ASSUME NEW f, NEW S, IsFiniteSet(S), \A x \in S : f[x] \in Int,
           NEW k, NEW K, IsFiniteSet(K), \A x \in S : k[x] \in K,
           NEW g, \A c \in K : g[c] = Over(f, {x \in S : k[x] = c})
    PROVE  Over(g, K) = Over(f, S)
<1> DEFINE part == [c \in K |-> {x \in S : k[x] = c}]
<1>1. \A c \in K : part[c] \in SUBSET S /\ \A x \in S : x \in part[c] <=> k[x] = c
    OBVIOUS
<1>2. \A c \in K : g[c] = Over(f, part[c])
    OBVIOUS
<1> HIDE DEF part
<1> QED BY <1>1, <1>2, OverParts

\* What pairs come to, by their first component.
LEMMA OverPairs ==
    ASSUME NEW g, NEW I, IsFiniteSet(I), NEW A, IsFiniteSet(A),
           NEW row, \A i \in I : \A a \in A : g[<<i, a>>] = row[i][a] /\ row[i][a] \in Int,
           NEW put, \A i \in I : put[i] = Over(row[i], A)
    PROVE  Over(g, I \X A) = Over(put, I)
<1> DEFINE S == I \X A
           of == [x \in S |-> x[1]]
<1>1. IsFiniteSet(S)
    BY FS_Product
<1>2. \A x \in S : g[x] \in Int
    OBVIOUS
<1>3. \A x \in S : of[x] \in I
    OBVIOUS
<1> DEFINE part == [i \in I |-> {i} \X A]
<1>4. \A i \in I : part[i] \in SUBSET S /\ \A x \in S : x \in part[i] <=> of[x] = i
    OBVIOUS
<1>5. ASSUME NEW i \in I PROVE put[i] = Over(g, part[i])
  <2> DEFINE at == [a \in A |-> <<i, a>>]
             amount == row[i]
  <2>1. part[i] = {at[a] : a \in A}
    OBVIOUS
  <2>2. \A a \in A : amount[a] \in Int /\ g[at[a]] = amount[a]
    OBVIOUS
  <2>3. \A a, b \in A : at[a] = at[b] => a = b
    OBVIOUS
  <2>4. put[i] = Over(amount, A)
    OBVIOUS
  <2> HIDE DEF at, part, amount
  <2>5. Over(g, {at[a] : a \in A}) = Over(amount, A)
    BY <2>2, <2>3, OverNamed
  <2> QED BY <2>1, <2>4, <2>5
<1> HIDE DEF S, of, part
<1>6. Over(put, I) = Over(g, S)
    BY <1>1, <1>2, <1>3, <1>4, <1>5, OverParts
<1> QED BY <1>6 DEF S
=============================================================================
