----------------------------- MODULE FoldProofs -----------------------------
(***************************************************************************)
(* What a fold over a finite set computes, for sums and products.  A fold  *)
(* of the community modules is a recursive function that one choice after  *)
(* another empties the set with: here it is shown to exist and to depend   *)
(* on no choice, by an induction over finite sets that is stated with a    *)
(* set of sets where the library has an operator.                          *)
(***************************************************************************)
EXTENDS Integers, FiniteSets, Functions, TLAPS, FiniteSetTheorems, WellFoundedInduction

\* Induction over the subsets of a finite set.
LEMMA SubsetInduction ==
  ASSUME NEW S, IsFiniteSet(S), NEW F,
         \A T \in SUBSET S : (\A x \in T : T \ {x} \in F) => T \in F
  PROVE  \A T \in SUBSET S : T \in F
<1> DEFINE Bad == {T \in SUBSET S : T \notin F}
<1>1. SUFFICES ASSUME Bad # {} PROVE FALSE OBVIOUS
<1>2. IsWellFoundedOn(StrictSubsetOrdering(S), SUBSET S)
  BY FS_StrictSubsetOrderingWellFounded, FS_FiniteSubsetsOfFinite
<1>3. \E T \in Bad : \A U \in Bad : <<U, T>> \notin StrictSubsetOrdering(S)
  <2> Bad \subseteq SUBSET S OBVIOUS
  <2> HIDE DEF Bad
  <2>1. QED BY <1>1, <1>2, WFMin
<1>4. PICK T \in Bad : \A U \in Bad : <<U, T>> \notin StrictSubsetOrdering(S) BY <1>3
<1>5. ASSUME NEW x \in T PROVE T \ {x} \in F
  <2>1. T \ {x} \in SUBSET S /\ T \in SUBSET S /\ T \ {x} # T BY <1>4
  <2>2. <<T \ {x}, T>> \in StrictSubsetOrdering(S) BY <2>1 DEF StrictSubsetOrdering
  <2>3. QED BY <1>4, <2>1, <2>2
<1>6. QED BY <1>4, <1>5

\* Induction over the naturals.
LEMMA NaturalInduction ==
  ASSUME NEW T, 0 \in T, \A n \in Nat : n \in T => n + 1 \in T
  PROVE  \A n \in Nat : n \in T
<1> SUFFICES ASSUME NEW n \in Nat PROVE n \in T OBVIOUS
<1> DEFINE F == {A \in SUBSET (1..n) : Cardinality(A) \in T}
<1>1. IsFiniteSet(1..n) /\ Cardinality(1..n) = n BY FS_Interval
<1>2. ASSUME NEW A \in SUBSET (1..n), \A x \in A : A \ {x} \in F PROVE A \in F
  <2>1. IsFiniteSet(A) BY <1>1, FS_Subset
  <2>2. CASE A = {} BY <2>2, FS_EmptySet
  <2>3. CASE A # {}
    <3>1. PICK x : x \in A BY <2>3
    <3>2. Cardinality(A) \in Nat /\ Cardinality(A \ {x}) \in Nat /\ Cardinality(A \ {x}) = Cardinality(A) - 1
      BY <2>1, <3>1, FS_CardinalityType, FS_RemoveElement
    <3>3. Cardinality(A \ {x}) \in T BY <1>2, <3>1
    <3>4. QED BY <3>2, <3>3
  <2>4. QED BY <2>2, <2>3
<1>3. 1..n \in F
  <2> HIDE DEF F
  <2>1. \A A \in SUBSET (1..n) : (\A x \in A : A \ {x} \in F) => A \in F BY <1>2
  <2>2. \A A \in SUBSET (1..n) : A \in F BY <1>1, <2>1, SubsetInduction
  <2>3. QED BY <2>2
<1>4. QED BY <1>1, <1>3

-----------------------------------------------------------------------------
\* The function that MapThenFoldSet iterates, for products and for sums.
Combine(op, a, b) == IF op = "times" THEN a * b ELSE a + b
Unit(op) == IF op = "times" THEN 1 ELSE 0
Chosen(s) == CHOOSE x \in s : TRUE
Turn(op, g, f, s) == IF s = {} THEN Unit(op) ELSE Combine(op, f[Chosen(s)], g[s \ {Chosen(s)}])
Iterated(op, f, S) == CHOOSE g : g = [s \in SUBSET S |-> Turn(op, g, f, s)]
Folded(op, f, S) == Iterated(op, f, S)[S]

LEMMA ChosenIn ==
  ASSUME NEW s, s # {}
  PROVE  Chosen(s) \in s
BY DEF Chosen

LEMMA IteratedExists ==
  ASSUME NEW op, NEW f, NEW S, IsFiniteSet(S)
  PROVE  \A s \in SUBSET S : Iterated(op, f, S)[s] = Turn(op, Iterated(op, f, S), f, s)
<1> DEFINE Upto(n) == {s \in SUBSET S : Cardinality(s) <= n}
           T == {n \in Nat : \E g : \A s \in Upto(n) : g[s] = Turn(op, g, f, s)}
<1>1. \A s \in SUBSET S : IsFiniteSet(s) /\ Cardinality(s) \in Nat
  BY FS_Subset, FS_CardinalityType
<1>2. ASSUME NEW s \in SUBSET S, s # {}
      PROVE  /\ s \ {Chosen(s)} \in SUBSET S
             /\ Cardinality(s \ {Chosen(s)}) = Cardinality(s) - 1
  BY <1>1, <1>2, ChosenIn, FS_RemoveElement
<1>3. 0 \in T
  <2>1. \A s \in Upto(0) : s = {} BY <1>1, FS_EmptySet
  <2>2. \A s \in Upto(0) : [t \in SUBSET S |-> Unit(op)][s] = Turn(op, [t \in SUBSET S |-> Unit(op)], f, s)
    BY <2>1 DEF Turn
  <2>3. QED BY <2>2
<1>4. ASSUME NEW n \in Nat, n \in T PROVE n + 1 \in T
  <2>1. PICK g : \A s \in Upto(n) : g[s] = Turn(op, g, f, s) BY <1>4
  <2> DEFINE h == [s \in SUBSET S |-> IF s \in Upto(n) THEN g[s] ELSE Turn(op, g, f, s)]
  <2>2. ASSUME NEW s \in Upto(n + 1) PROVE h[s] = Turn(op, h, f, s)
    <3>1. s \in SUBSET S /\ h[s] = Turn(op, g, f, s) BY <2>1, <2>2
    <3>2. CASE s = {} BY <3>1, <3>2 DEF Turn
    <3>3. CASE s # {}
      <4>1. Cardinality(s) <= n + 1 /\ Cardinality(s) \in Nat BY <1>1, <2>2
      <4>2. s \ {Chosen(s)} \in Upto(n) BY <1>2, <3>1, <3>3, <4>1
      <4>3. h[s \ {Chosen(s)}] = g[s \ {Chosen(s)}] BY <1>2, <3>1, <3>3, <4>2
      <4>4. QED BY <3>1, <3>3, <4>3 DEF Turn
    <3>4. QED BY <3>2, <3>3
  <2> HIDE DEF h
  <2>3. QED BY <2>2
<1>5. Cardinality(S) \in T
  <2> HIDE DEF T
  <2>1. QED BY <1>1, <1>3, <1>4, NaturalInduction
<1>6. PICK g : \A s \in Upto(Cardinality(S)) : g[s] = Turn(op, g, f, s) BY <1>5
<1>7. \A s \in SUBSET S : s \in Upto(Cardinality(S)) BY <1>1, FS_Subset
<1> DEFINE h == [s \in SUBSET S |-> g[s]]
<1>8. h = [s \in SUBSET S |-> Turn(op, h, f, s)]
  <2>1. ASSUME NEW s \in SUBSET S PROVE h[s] = Turn(op, h, f, s)
    <3>1. h[s] = Turn(op, g, f, s) BY <1>6, <1>7
    <3>2. CASE s = {} BY <3>1, <3>2 DEF Turn
    <3>3. CASE s # {} BY <1>2, <3>1, <3>3 DEF Turn
    <3>4. QED BY <3>2, <3>3
  <2>2. QED BY <2>1
<1> HIDE DEF h
<1>9. \E k : k = [s \in SUBSET S |-> Turn(op, k, f, s)] BY <1>8
<1>10. Iterated(op, f, S) = [s \in SUBSET S |-> Turn(op, Iterated(op, f, S), f, s)]
  BY <1>9 DEF Iterated
<1>11. QED BY <1>10

LEMMA IteratedAgree ==
  ASSUME NEW op, NEW f, NEW S, IsFiniteSet(S)
  PROVE  \A T \in SUBSET S : Iterated(op, f, S)[T] = Folded(op, f, T)
<1> DEFINE F == {T \in SUBSET S : \A U \in SUBSET S :
                   T \subseteq U => Iterated(op, f, U)[T] = Iterated(op, f, T)[T]}
<1>1. ASSUME NEW U \in SUBSET S, NEW T \in SUBSET U
      PROVE  Iterated(op, f, U)[T] = Turn(op, Iterated(op, f, U), f, T)
  <2>1. IsFiniteSet(U) BY FS_Subset
  <2>2. QED BY <2>1, IteratedExists
<1>2. ASSUME NEW T \in SUBSET S, \A x \in T : T \ {x} \in F PROVE T \in F
  <2>1. SUFFICES ASSUME NEW U \in SUBSET S, T \subseteq U
                 PROVE  Iterated(op, f, U)[T] = Iterated(op, f, T)[T]
    OBVIOUS
  <2>2. /\ Iterated(op, f, U)[T] = Turn(op, Iterated(op, f, U), f, T)
        /\ Iterated(op, f, T)[T] = Turn(op, Iterated(op, f, T), f, T)
    BY <1>1, <2>1
  <2>3. CASE T = {} BY <2>2, <2>3 DEF Turn
  <2>4. CASE T # {}
    <3>1. Chosen(T) \in T BY <2>4, ChosenIn
    <3>2. T \ {Chosen(T)} \in F BY <1>2, <3>1
    <3>3. /\ Iterated(op, f, U)[T \ {Chosen(T)}] = Iterated(op, f, T \ {Chosen(T)})[T \ {Chosen(T)}]
          /\ Iterated(op, f, T)[T \ {Chosen(T)}] = Iterated(op, f, T \ {Chosen(T)})[T \ {Chosen(T)}]
      BY <2>1, <3>2
    <3>4. QED BY <2>2, <2>4, <3>3 DEF Turn
  <2>5. QED BY <2>3, <2>4
<1>3. \A T \in SUBSET S : T \in F
  <2> HIDE DEF F
  <2>1. QED BY <1>2, SubsetInduction
<1>4. \A T \in SUBSET S : Iterated(op, f, S)[T] = Iterated(op, f, T)[T] BY <1>3
<1>5. QED BY <1>4 DEF Folded

LEMMA FoldedOfNone ==
  ASSUME NEW op, NEW f
  PROVE  Folded(op, f, {}) = Unit(op)
<1>1. IsFiniteSet({}) BY FS_EmptySet
<1>2. Iterated(op, f, {})[{}] = Turn(op, Iterated(op, f, {}), f, {}) BY <1>1, IteratedExists
<1>3. QED BY <1>2 DEF Turn, Folded

LEMMA FoldedOfChosen ==
  ASSUME NEW op, NEW f, NEW S, IsFiniteSet(S), S # {}
  PROVE  Folded(op, f, S) = Combine(op, f[Chosen(S)], Folded(op, f, S \ {Chosen(S)}))
<1>1. Iterated(op, f, S)[S] = Turn(op, Iterated(op, f, S), f, S) BY IteratedExists
<1>2. Iterated(op, f, S)[S] = Combine(op, f[Chosen(S)], Iterated(op, f, S)[S \ {Chosen(S)}])
  BY <1>1 DEF Turn
<1>3. QED BY <1>2, IteratedAgree DEF Folded

-----------------------------------------------------------------------------
LEMMA CombineInt ==
  ASSUME NEW op, NEW a \in Int, NEW b \in Int, NEW c \in Int
  PROVE  Combine(op, a, b) \in Int /\ Combine(op, a, Combine(op, b, c)) = Combine(op, b, Combine(op, a, c))
<1>1. a * b \in Int /\ a + b \in Int /\ a * (b * c) = b * (a * c) /\ a + (b + c) = b + (a + c) OBVIOUS
<1>2. QED BY <1>1 DEF Combine

LEMMA FoldedIsInt ==
  ASSUME NEW op, NEW f, NEW S, IsFiniteSet(S), \A s \in S : f[s] \in Int
  PROVE  Folded(op, f, S) \in Int
<1> DEFINE F == {T \in SUBSET S : Folded(op, f, T) \in Int}
<1>1. ASSUME NEW T \in SUBSET S, \A x \in T : T \ {x} \in F PROVE T \in F
  <2>1. CASE T = {} BY <2>1, FoldedOfNone DEF Unit
  <2>2. CASE T # {}
    <3>1. IsFiniteSet(T) BY FS_Subset
    <3>2. Folded(op, f, T) = Combine(op, f[Chosen(T)], Folded(op, f, T \ {Chosen(T)}))
      BY <2>2, <3>1, FoldedOfChosen
    <3>3. Chosen(T) \in T BY <2>2, ChosenIn
    <3>4. f[Chosen(T)] \in Int /\ Folded(op, f, T \ {Chosen(T)}) \in Int BY <1>1, <3>3
    <3>5. QED BY <3>2, <3>4, CombineInt
  <2>3. QED BY <2>1, <2>2
<1>2. \A T \in SUBSET S : T \in F
  <2> HIDE DEF F
  <2>1. QED BY <1>1, SubsetInduction
<1>3. QED BY <1>2

\* The members of the set may be taken in any order.
LEMMA FoldedTakesAny ==
  ASSUME NEW op, NEW f, NEW S, IsFiniteSet(S), \A s \in S : f[s] \in Int
  PROVE  \A x \in S : Folded(op, f, S) = Combine(op, f[x], Folded(op, f, S \ {x}))
<1> DEFINE F == {T \in SUBSET S :
                   \A x \in T : Folded(op, f, T) = Combine(op, f[x], Folded(op, f, T \ {x}))}
<1>1. \A T \in SUBSET S : IsFiniteSet(T) /\ Folded(op, f, T) \in Int BY FS_Subset, FoldedIsInt
<1>2. ASSUME NEW T \in SUBSET S, \A x \in T : T \ {x} \in F PROVE T \in F
  <2>1. SUFFICES ASSUME NEW x \in T
                 PROVE  Folded(op, f, T) = Combine(op, f[x], Folded(op, f, T \ {x}))
    OBVIOUS
  <2>2. PICK c \in T : Folded(op, f, T) = Combine(op, f[c], Folded(op, f, T \ {c}))
    BY <1>1, ChosenIn, FoldedOfChosen
  <2>3. CASE x = c BY <2>2, <2>3
  <2>4. CASE x # c
    <3>1. PICK R \in SUBSET S : R = (T \ {c}) \ {x} /\ R = (T \ {x}) \ {c} OBVIOUS
    <3>2. /\ Folded(op, f, T \ {c}) = Combine(op, f[x], Folded(op, f, R))
          /\ Folded(op, f, T \ {x}) = Combine(op, f[c], Folded(op, f, R))
      BY <1>2, <2>4, <3>1
    <3>3. f[c] \in Int /\ f[x] \in Int /\ Folded(op, f, R) \in Int BY <1>1
    <3>4. Combine(op, f[c], Combine(op, f[x], Folded(op, f, R)))
            = Combine(op, f[x], Combine(op, f[c], Folded(op, f, R)))
      BY <3>3, CombineInt
    <3>5. QED BY <2>2, <3>2, <3>4
  <2>5. QED BY <2>3, <2>4
<1>3. \A T \in SUBSET S : T \in F
  <2> HIDE DEF F
  <2>1. QED BY <1>2, SubsetInduction
<1>4. QED BY <1>3

-----------------------------------------------------------------------------
Summed(f, S) == Folded("plus", f, S)

LEMMA SumIterates ==
  ASSUME NEW f, NEW S
  PROVE  SumFunctionOnSet(f, S) = Summed(f, S)
BY DEF SumFunctionOnSet, FoldFunctionOnSet, MapThenFoldSet, Summed, Folded, Iterated, Turn, Unit, Combine, Chosen

LEMMA SumOfNone ==
  ASSUME NEW f
  PROVE  Summed(f, {}) = 0
BY FoldedOfNone DEF Summed, Unit

LEMMA SumIsInt ==
  ASSUME NEW f, NEW S, IsFiniteSet(S), \A s \in S : f[s] \in Int
  PROVE  Summed(f, S) \in Int
BY FoldedIsInt DEF Summed

LEMMA SumTakesAny ==
  ASSUME NEW f, NEW S, IsFiniteSet(S), \A s \in S : f[s] \in Int
  PROVE  \A x \in S : Summed(f, S) = f[x] + Summed(f, S \ {x}) /\ Summed(f, S \ {x}) \in Int
<1>1. ASSUME NEW x \in S PROVE IsFiniteSet(S \ {x}) BY FS_Subset
<1>2. QED BY <1>1, FoldedTakesAny, FoldedIsInt DEF Summed, Combine

LEMMA SumAdds ==
  ASSUME NEW f, NEW S, IsFiniteSet(S), NEW x, x \notin S, \A s \in S \union {x} : f[s] \in Int
  PROVE  Summed(f, S \union {x}) = f[x] + Summed(f, S) /\ Summed(f, S) \in Int
<1>1. IsFiniteSet(S \union {x}) BY FS_AddElement
<1>2. (S \union {x}) \ {x} = S OBVIOUS
<1>3. QED BY <1>1, <1>2, SumTakesAny

LEMMA SumMonotone ==
  ASSUME NEW f, NEW g, NEW S, IsFiniteSet(S), \A s \in S : f[s] \in Int /\ g[s] \in Int /\ f[s] <= g[s]
  PROVE  Summed(f, S) <= Summed(g, S)
<1> DEFINE F == {T \in SUBSET S : Summed(f, T) <= Summed(g, T)}
<1>1. ASSUME NEW T \in SUBSET S, \A x \in T : T \ {x} \in F PROVE T \in F
  <2>1. IsFiniteSet(T) BY FS_Subset
  <2>2. CASE T = {} BY <2>2, SumOfNone
  <2>3. CASE T # {}
    <3>1. PICK x : x \in T BY <2>3
    <3>2. /\ Summed(f, T) = f[x] + Summed(f, T \ {x}) /\ Summed(f, T \ {x}) \in Int
          /\ Summed(g, T) = g[x] + Summed(g, T \ {x}) /\ Summed(g, T \ {x}) \in Int
      <4>1. (\A s \in T : f[s] \in Int) /\ (\A s \in T : g[s] \in Int) OBVIOUS
      <4>2. Summed(f, T) = f[x] + Summed(f, T \ {x}) /\ Summed(f, T \ {x}) \in Int
        BY <2>1, <3>1, <4>1, SumTakesAny
      <4>3. Summed(g, T) = g[x] + Summed(g, T \ {x}) /\ Summed(g, T \ {x}) \in Int
        BY <2>1, <3>1, <4>1, SumTakesAny
      <4>4. QED BY <4>2, <4>3
    <3>3. Summed(f, T \ {x}) <= Summed(g, T \ {x}) BY <1>1, <3>1
    <3>4. f[x] \in Int /\ g[x] \in Int /\ f[x] <= g[x] BY <3>1
    <3>5. Summed(f, T) <= Summed(g, T) BY <3>2, <3>3, <3>4
    <3>6. QED BY <3>5
  <2>4. QED BY <2>2, <2>3
<1>2. \A T \in SUBSET S : T \in F
  <2> HIDE DEF F
  <2>1. QED BY <1>1, SubsetInduction
<1>3. QED BY <1>2

LEMMA SumOfSame ==
  ASSUME NEW f, NEW g, NEW S, IsFiniteSet(S), \A s \in S : f[s] \in Int /\ g[s] = f[s]
  PROVE  Summed(g, S) = Summed(f, S)
<1>1. Summed(f, S) <= Summed(g, S) /\ Summed(g, S) <= Summed(f, S) BY SumMonotone
<1>2. QED BY <1>1, SumIsInt

LEMMA SumOfZeros ==
  ASSUME NEW f, NEW S, IsFiniteSet(S), \A s \in S : f[s] = 0
  PROVE  Summed(f, S) = 0
<1> DEFINE F == {T \in SUBSET S : Summed(f, T) = 0}
<1>1. ASSUME NEW T \in SUBSET S, \A x \in T : T \ {x} \in F PROVE T \in F
  <2>1. IsFiniteSet(T) BY FS_Subset
  <2>2. CASE T = {} BY <2>2, SumOfNone
  <2>3. CASE T # {}
    <3>1. PICK x : x \in T BY <2>3
    <3>2. Summed(f, T) = f[x] + Summed(f, T \ {x}) BY <2>1, <3>1, SumTakesAny
    <3>3. QED BY <1>1, <3>1, <3>2
  <2>4. QED BY <2>2, <2>3
<1>2. \A T \in SUBSET S : T \in F
  <2> HIDE DEF F
  <2>1. QED BY <1>1, SubsetInduction
<1>3. QED BY <1>2

LEMMA SumIsNat ==
  ASSUME NEW f, NEW S, IsFiniteSet(S), \A s \in S : f[s] \in Nat
  PROVE  Summed(f, S) \in Nat /\ \A s \in S : f[s] <= Summed(f, S)
<1> DEFINE z == [s \in S |-> 0]
<1>1. ASSUME NEW T \in SUBSET S PROVE Summed(f, T) \in Nat
  <2>1. IsFiniteSet(T) BY FS_Subset
  <2>2. \A s \in T : z[s] = 0 /\ z[s] \in Int /\ f[s] \in Int /\ z[s] <= f[s] OBVIOUS
  <2> HIDE DEF z
  <2>3. Summed(z, T) = 0 BY <2>1, <2>2, SumOfZeros
  <2>4. Summed(z, T) <= Summed(f, T) BY <2>1, <2>2, SumMonotone
  <2>5. Summed(f, T) \in Int BY <2>1, <2>2, SumIsInt
  <2>6. QED BY <2>3, <2>4, <2>5
<1>2. ASSUME NEW s \in S PROVE f[s] <= Summed(f, S)
  <2>1. Summed(f, S) = f[s] + Summed(f, S \ {s}) BY SumTakesAny
  <2>2. Summed(f, S \ {s}) \in Nat BY <1>1
  <2>3. QED BY <2>1, <2>2
<1>3. QED BY <1>1, <1>2

\* A change of one summand.
LEMMA SumOfChange ==
  ASSUME NEW f, NEW g, NEW S, IsFiniteSet(S), NEW x \in S, \A s \in S : f[s] \in Int /\ g[s] \in Int,
         \A s \in S \ {x} : g[s] = f[s]
  PROVE  Summed(g, S) = Summed(f, S) - f[x] + g[x]
<1>1. /\ Summed(f, S) = f[x] + Summed(f, S \ {x}) /\ Summed(f, S \ {x}) \in Int
      /\ Summed(g, S) = g[x] + Summed(g, S \ {x})
  BY SumTakesAny
<1>2. IsFiniteSet(S \ {x}) BY FS_Subset
<1>3. Summed(g, S \ {x}) = Summed(f, S \ {x}) BY <1>2, SumOfSame
<1>4. QED BY <1>1, <1>3

\* Summands of at most c.
LEMMA SumBounded ==
  ASSUME NEW f, NEW S, IsFiniteSet(S), NEW c \in Nat, \A s \in S : f[s] \in Int /\ f[s] <= c
  PROVE  Summed(f, S) <= Cardinality(S) * c
<1> DEFINE F == {T \in SUBSET S : Summed(f, T) <= Cardinality(T) * c}
<1>1. ASSUME NEW T \in SUBSET S, \A x \in T : T \ {x} \in F PROVE T \in F
  <2>1. IsFiniteSet(T) BY FS_Subset
  <2>2. CASE T = {} BY <2>2, SumOfNone, FS_EmptySet
  <2>3. CASE T # {}
    <3>1. PICK x : x \in T BY <2>3
    <3>2. Summed(f, T) = f[x] + Summed(f, T \ {x}) /\ Summed(f, T \ {x}) \in Int
      BY <2>1, <3>1, SumTakesAny
    <3>3. Summed(f, T \ {x}) <= Cardinality(T \ {x}) * c BY <1>1, <3>1
    <3>4. Cardinality(T \ {x}) = Cardinality(T) - 1 /\ Cardinality(T) \in Nat /\ Cardinality(T \ {x}) \in Nat
      BY <2>1, <3>1, FS_RemoveElement, FS_CardinalityType, FS_Subset
    <3>5. ASSUME NEW n \in Nat, NEW m \in Nat, m = n - 1 PROVE n * c = m * c + c /\ n * c \in Nat /\ m * c \in Nat
      BY <3>5
    <3>6. Cardinality(T) * c = Cardinality(T \ {x}) * c + c
          /\ Cardinality(T) * c \in Nat /\ Cardinality(T \ {x}) * c \in Nat
      BY <3>4, <3>5
    <3>7. f[x] \in Int /\ f[x] <= c BY <3>1
    <3>8. Summed(f, T) <= Cardinality(T) * c BY <3>2, <3>3, <3>6, <3>7
    <3>9. QED BY <3>8
  <2>4. QED BY <2>2, <2>3
<1>2. \A T \in SUBSET S : T \in F
  <2> HIDE DEF F
  <2>1. QED BY <1>1, SubsetInduction
<1>3. QED BY <1>2

\* What counts by age loses with one more interval: the oldest.
LEMMA SumOfOlder ==
  ASSUME NEW n \in Nat, NEW f, \A age \in 0..n : f[age] \in Int,
         NEW g, \A age \in 0..n : g[age] = IF age = 0 THEN 0 ELSE f[age - 1]
  PROVE  Summed(g, 0..n) = Summed(f, 0..n) - f[n]
<1> DEFINE P(m) == Summed(g, 0..m) = Summed(f, 0..m) - f[m]
           T == {m \in Nat : m <= n => P(m)}
<1>1. ASSUME NEW m \in Nat, m < n
      PROVE  /\ 0..(m + 1) = (0..m) \union {m + 1} /\ m + 1 \notin 0..m /\ IsFiniteSet(0..m)
             /\ g[m + 1] = f[m] /\ \A age \in 0..(m + 1) : f[age] \in Int /\ g[age] \in Int
             /\ f[m] \in Int /\ f[m + 1] \in Int
  <2>1. 0..(m + 1) = (0..m) \union {m + 1} /\ m + 1 \notin 0..m BY <1>1
  <2>2. IsFiniteSet(0..m) BY FS_Interval
  <2>3. m + 1 \in 0..n /\ m \in 0..n /\ m + 1 # 0 /\ m + 1 - 1 = m BY <1>1
  <2>4. \A age \in 0..(m + 1) : age \in 0..n /\ (age # 0 => age - 1 \in 0..n) BY <1>1
  <2>5. g[m + 1] = f[m] /\ f[m] \in Int /\ f[m + 1] \in Int BY <2>3
  <2>6. ASSUME NEW age \in 0..(m + 1) PROVE f[age] \in Int /\ g[age] \in Int
    <3>1. age \in 0..n /\ (age # 0 => age - 1 \in 0..n) BY <2>4
    <3>2. f[age] \in Int BY <3>1
    <3>3. g[age] = IF age = 0 THEN 0 ELSE f[age - 1] BY <3>1
    <3>4. CASE age = 0 BY <3>2, <3>3, <3>4
    <3>5. CASE age # 0
      <4>1. g[age] = f[age - 1] /\ f[age - 1] \in Int BY <3>1, <3>3, <3>5
      <4>2. QED BY <3>2, <4>1
    <3>6. QED BY <3>4, <3>5
  <2>7. QED BY <2>1, <2>2, <2>5, <2>6
<1>2. 0 \in T
  <2>1. 0..0 = {} \union {0} /\ IsFiniteSet({}) BY FS_EmptySet
  <2>2. g[0] = 0 /\ f[0] \in Int BY 0 \in 0..n
  <2>3. \A s \in {} \union {0} : f[s] \in Int /\ g[s] \in Int BY <2>2
  <2>4. Summed(g, {} \union {0}) = g[0] + Summed(g, {}) /\ Summed(f, {} \union {0}) = f[0] + Summed(f, {})
    BY <2>1, <2>3, SumAdds
  <2>5. QED BY <2>1, <2>2, <2>4, SumOfNone
<1>3. ASSUME NEW m \in Nat, m \in T PROVE m + 1 \in T
  <2>1. SUFFICES ASSUME m + 1 <= n PROVE P(m + 1) OBVIOUS
  <2>2. m < n /\ P(m) BY <1>3, <2>1
  <2>3. Summed(g, 0..(m + 1)) = f[m] + Summed(g, 0..m) /\ Summed(f, 0..(m + 1)) = f[m + 1] + Summed(f, 0..m)
        /\ Summed(f, 0..m) \in Int
    <3>1. IsFiniteSet(0..m) /\ m + 1 \notin 0..m /\ 0..(m + 1) = (0..m) \union {m + 1} /\ g[m + 1] = f[m]
          /\ \A age \in (0..m) \union {m + 1} : f[age] \in Int /\ g[age] \in Int
      BY <1>1, <2>2
    <3> DEFINE A == 0..m
    <3>2. IsFiniteSet(A) /\ m + 1 \notin A /\ \A age \in A \union {m + 1} : f[age] \in Int /\ g[age] \in Int
      BY <3>1
    <3>3. Summed(g, A \union {m + 1}) = g[m + 1] + Summed(g, A) /\ Summed(f, A \union {m + 1}) = f[m + 1] + Summed(f, A)
          /\ Summed(f, A) \in Int
      <4> HIDE DEF A
      <4>1. QED BY <3>2, SumAdds
    <3>4. QED BY <3>1, <3>3
  <2>4. QED BY <1>1, <2>2, <2>3
<1>4. n \in T
  <2> HIDE DEF T
  <2>1. QED BY <1>2, <1>3, NaturalInduction
<1>5. QED BY <1>4

\* A sum over those that have anything.
LEMMA SumOfSupport ==
  ASSUME NEW S, IsFiniteSet(S), NEW T \in SUBSET S, NEW f, NEW g, \A s \in S : f[s] \in Int,
         \A s \in T : g[s] = f[s], \A s \in S \ T : f[s] = 0
  PROVE  Summed(g, T) = Summed(f, S)
<1> DEFINE F == {U \in SUBSET S : Summed(f, U) = Summed(f, U \cap T)}
<1>1. ASSUME NEW U \in SUBSET S, \A x \in U : U \ {x} \in F PROVE U \in F
  <2>1. IsFiniteSet(U) /\ IsFiniteSet(U \cap T) BY FS_Subset
  <2>2. CASE U = {}
    <3>1. U \cap T = U BY <2>2
    <3>2. QED BY <3>1
  <2>3. ASSUME NEW x \in U PROVE Summed(f, U) = Summed(f, U \cap T)
    <3>1. Summed(f, U \ {x}) = Summed(f, (U \ {x}) \cap T) BY <1>1, <2>3
    <3>2. Summed(f, U) = f[x] + Summed(f, U \ {x}) BY <2>1, <2>3, SumTakesAny
    <3>3. CASE x \in T
      <4>1. x \in U \cap T /\ (U \cap T) \ {x} = (U \ {x}) \cap T BY <2>3, <3>3
      <4>2. Summed(f, U \cap T) = f[x] + Summed(f, (U \cap T) \ {x}) BY <2>1, <4>1, SumTakesAny
      <4>3. QED BY <3>1, <3>2, <4>1, <4>2
    <3>4. CASE x \notin T
      <4>1. U \cap T = (U \ {x}) \cap T /\ f[x] = 0 BY <2>3, <3>4
      <4>2. Summed(f, U \cap T) = Summed(f, U \ {x}) BY <3>1, <4>1
      <4>3. Summed(f, U \ {x}) \in Int BY <2>1, <2>3, SumTakesAny
      <4>4. QED BY <3>2, <4>1, <4>2, <4>3
    <3>5. QED BY <3>3, <3>4
  <2>4. QED BY <2>2, <2>3
<1>2. \A U \in SUBSET S : U \in F
  <2> HIDE DEF F
  <2>1. QED BY <1>1, SubsetInduction
<1>3. S \cap T = T /\ IsFiniteSet(T) BY FS_Subset
<1>4. Summed(f, S) = Summed(f, T) BY <1>2, <1>3
<1>5. Summed(g, T) = Summed(f, T) BY <1>3, SumOfSame
<1>6. QED BY <1>4, <1>5
=============================================================================
