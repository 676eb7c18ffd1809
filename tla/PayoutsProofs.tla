--------------------------- MODULE PayoutsProofs ---------------------------
(***************************************************************************)
(* The arithmetic of bets for slips of any length, odds and stakes.        *)
(***************************************************************************)
EXTENDS Payouts, FoldProofs

\* OddsProduct is the fold that FoldProofs is about.
LEMMA ProductIterates ==
  ASSUME NEW odds, NEW S
  PROVE  OddsProduct(odds, S) = Folded("times", odds, S)
BY DEF OddsProduct, FoldFunctionOnSet, MapThenFoldSet, Folded, Iterated, Turn, Unit, Combine, Chosen

LEMMA ProductOfNone ==
  ASSUME NEW odds
  PROVE  OddsProduct(odds, {}) = 1
BY ProductIterates, FoldedOfNone DEF Unit

\* The legs may be multiplied in any order.
LEMMA ProductTakesAnyLeg ==
  ASSUME NEW odds, NEW S, IsFiniteSet(S), \A s \in S : odds[s] \in Int
  PROVE  \A x \in S : OddsProduct(odds, S) = odds[x] * OddsProduct(odds, S \ {x})
BY ProductIterates, FoldedTakesAny DEF Combine

-----------------------------------------------------------------------------
LEMMA ProductIsNat ==
  ASSUME NEW odds, NEW S, IsFiniteSet(S), \A s \in S : odds[s] \in Nat \ {0}
  PROVE  OddsProduct(odds, S) \in Nat \ {0}
<1> DEFINE F == {T \in SUBSET S : OddsProduct(odds, T) \in Nat \ {0}}
<1>1. ASSUME NEW T \in SUBSET S, \A x \in T : T \ {x} \in F PROVE T \in F
  <2>1. CASE T = {} BY <2>1, ProductOfNone
  <2>2. CASE T # {}
    <3>1. IsFiniteSet(T) BY FS_Subset
    <3>2. PICK x \in T : OddsProduct(odds, T) = odds[x] * OddsProduct(odds, T \ {x})
      BY <2>2, <3>1, ProductTakesAnyLeg
    <3>3. odds[x] \in Nat \ {0} /\ OddsProduct(odds, T \ {x}) \in Nat \ {0} BY <1>1
    <3>4. ASSUME NEW a \in Nat \ {0}, NEW b \in Nat \ {0} PROVE a * b \in Nat \ {0} OBVIOUS
    <3>5. QED BY <3>2, <3>3, <3>4
  <2>3. QED BY <2>1, <2>2
<1>2. \A T \in SUBSET S : T \in F
  <2> HIDE DEF F
  <2>1. QED BY <1>1, SubsetInduction
<1>3. QED BY <1>2

LEMMA TimesMonotone ==
  ASSUME NEW a \in Nat, NEW b \in Nat, NEW c \in Nat, NEW d \in Nat, a <= c, b <= d
  PROVE  a * b <= c * d
OBVIOUS

LEMMA ProductMonotone ==
  ASSUME NEW odds, NEW higher, NEW S, IsFiniteSet(S),
         \A s \in S : odds[s] \in Nat \ {0} /\ higher[s] \in Nat \ {0} /\ odds[s] <= higher[s]
  PROVE  OddsProduct(odds, S) <= OddsProduct(higher, S)
<1> DEFINE F == {T \in SUBSET S : OddsProduct(odds, T) <= OddsProduct(higher, T)}
<1>1. ASSUME NEW T \in SUBSET S, \A x \in T : T \ {x} \in F PROVE T \in F
  <2>1. CASE T = {} BY <2>1, ProductOfNone
  <2>2. CASE T # {}
    <3>1. IsFiniteSet(T) BY FS_Subset
    <3>2. PICK x \in T : /\ OddsProduct(odds, T) = odds[x] * OddsProduct(odds, T \ {x})
                         /\ OddsProduct(higher, T) = higher[x] * OddsProduct(higher, T \ {x})
      BY <2>2, <3>1, ProductTakesAnyLeg
    <3>3. T \ {x} \in F /\ IsFiniteSet(T \ {x}) BY <1>1, FS_Subset
    <3>4. OddsProduct(odds, T \ {x}) \in Nat /\ OddsProduct(higher, T \ {x}) \in Nat
      BY <3>3, ProductIsNat
    <3>5. odds[x] \in Nat /\ higher[x] \in Nat /\ odds[x] <= higher[x] OBVIOUS
    <3>6. QED BY <3>2, <3>3, <3>4, <3>5, TimesMonotone
  <2>3. QED BY <2>1, <2>2
<1>2. \A T \in SUBSET S : T \in F
  <2> HIDE DEF F
  <2>1. QED BY <1>1, SubsetInduction
<1>3. QED BY <1>2

LEMMA ProductOfUnion ==
  ASSUME NEW odds, NEW A, NEW S, IsFiniteSet(A), IsFiniteSet(S), A \intersect S = {},
         \A s \in A \union S : odds[s] \in Nat \ {0}
  PROVE  OddsProduct(odds, A \union S) = OddsProduct(odds, A) * OddsProduct(odds, S)
<1> DEFINE F == {T \in SUBSET S :
                   OddsProduct(odds, A \union T) = OddsProduct(odds, A) * OddsProduct(odds, T)}
<1>1. OddsProduct(odds, A) \in Nat \ {0} BY ProductIsNat
<1>2. ASSUME NEW T \in SUBSET S, \A x \in T : T \ {x} \in F PROVE T \in F
  <2>1. CASE T = {}
    <3>1. A \union T = A BY <2>1
    <3>2. QED BY <1>1, <2>1, <3>1, ProductOfNone
  <2>2. CASE T # {}
    <3>1. IsFiniteSet(T) /\ IsFiniteSet(A \union T) BY FS_Subset, FS_Union
    <3>2. PICK x \in T : OddsProduct(odds, T) = odds[x] * OddsProduct(odds, T \ {x})
      BY <2>2, <3>1, ProductTakesAnyLeg
    <3>3. OddsProduct(odds, A \union T) = odds[x] * OddsProduct(odds, (A \union T) \ {x})
      BY <3>1, ProductTakesAnyLeg
    <3>4. (A \union T) \ {x} = A \union (T \ {x}) OBVIOUS
    <3>5. OddsProduct(odds, A \union (T \ {x})) = OddsProduct(odds, A) * OddsProduct(odds, T \ {x})
      BY <1>2
    <3>6. IsFiniteSet(T \ {x}) BY <3>1, FS_Subset
    <3>7. odds[x] \in Nat /\ OddsProduct(odds, T \ {x}) \in Nat BY <3>6, ProductIsNat
    <3>8. ASSUME NEW a \in Nat, NEW b \in Nat, NEW r \in Nat
          PROVE a * (b * r) = b * (a * r)
      OBVIOUS
    <3>9. odds[x] * (OddsProduct(odds, A) * OddsProduct(odds, T \ {x}))
            = OddsProduct(odds, A) * (odds[x] * OddsProduct(odds, T \ {x}))
      BY <1>1, <3>7, <3>8
    <3>10. QED BY <3>2, <3>3, <3>4, <3>5, <3>9
  <2>3. QED BY <2>1, <2>2
<1>3. \A T \in SUBSET S : T \in F
  <2> HIDE DEF F
  <2>1. QED BY <1>2, SubsetInduction
<1>4. QED BY <1>3
-----------------------------------------------------------------------------
Even(S) == [s \in S |-> Hundred]

LEMMA ScaleIsNat ==
  ASSUME NEW S, IsFiniteSet(S)
  PROVE  Scale(S) \in Nat \ {0}
BY ProductIsNat DEF Scale, Hundred

LEMMA ScaleIsLeast ==
  ASSUME NEW odds, NEW S, IsFiniteSet(S), \A s \in S : odds[s] \in Nat /\ odds[s] >= Hundred
  PROVE  OddsProduct(odds, S) \in Nat /\ Scale(S) <= OddsProduct(odds, S)
<1>1. \A s \in S : /\ Even(S)[s] \in Nat \ {0} /\ odds[s] \in Nat \ {0}
                   /\ Even(S)[s] <= odds[s]
  BY DEF Even, Hundred
<1>2. OddsProduct(Even(S), S) <= OddsProduct(odds, S) BY <1>1, ProductMonotone
<1>3. QED BY <1>1, <1>2, ProductIsNat DEF Scale, Even

LEMMA ScaleOfUnion ==
  ASSUME NEW A, NEW S, IsFiniteSet(A), IsFiniteSet(S), A \intersect S = {}
  PROVE  Scale(A \union S) = Scale(A) * Scale(S)
<1> DEFINE e == Even(A \union S)
<1>1. IsFiniteSet(A \union S) BY FS_Union
<1>2. \A s \in A \union S : e[s] = Hundred /\ e[s] \in Nat \ {0} BY DEF Even, Hundred
<1>3. ASSUME NEW T \in SUBSET (A \union S), IsFiniteSet(T)
      PROVE  OddsProduct(e, T) = Scale(T)
  <2>1. \A s \in T : /\ Even(T)[s] \in Nat \ {0} /\ e[s] \in Nat \ {0}
                     /\ Even(T)[s] <= e[s] /\ e[s] <= Even(T)[s]
    BY <1>2 DEF Even, Hundred
  <2> HIDE DEF e
  <2>2. OddsProduct(Even(T), T) <= OddsProduct(e, T) BY <1>3, <2>1, ProductMonotone
  <2>3. OddsProduct(e, T) <= OddsProduct(Even(T), T) BY <1>3, <2>1, ProductMonotone
  <2>4. OddsProduct(e, T) \in Nat /\ OddsProduct(Even(T), T) \in Nat BY <1>3, <2>1, ProductIsNat
  <2>5. QED BY <2>2, <2>3, <2>4 DEF Scale, Even
<1> HIDE DEF e
<1>4. OddsProduct(e, A \union S) = OddsProduct(e, A) * OddsProduct(e, S)
  BY <1>2, ProductOfUnion
<1>5. QED BY <1>1, <1>3, <1>4

\* Odds above 1.00 make a product above its scale.
LEMMA ScaleIsExceeded ==
  ASSUME NEW odds, NEW S, IsFiniteSet(S), S # {},
         \A s \in S : odds[s] \in Nat /\ odds[s] > Hundred
  PROVE  Scale(S) < OddsProduct(odds, S)
<1> USE DEF Hundred
<1>1. PICK x : x \in S OBVIOUS
<1>2. OddsProduct(odds, S) = odds[x] * OddsProduct(odds, S \ {x})
  BY <1>1, ProductTakesAnyLeg
<1>3. IsFiniteSet(S \ {x}) BY FS_Subset
<1>4. OddsProduct(odds, S \ {x}) \in Nat /\ Scale(S \ {x}) <= OddsProduct(odds, S \ {x})
  BY <1>3, ScaleIsLeast
<1>5. Scale(S \ {x}) \in Nat \ {0} BY <1>3, ScaleIsNat
<1>6. Scale(S) = Scale(S \ {x}) * Scale({x})
  <2>1. S = (S \ {x}) \union {x} /\ IsFiniteSet({x}) /\ (S \ {x}) \intersect {x} = {}
    BY <1>1, FS_Singleton
  <2>2. QED BY <1>3, <2>1, ScaleOfUnion
<1>7. Scale({x}) = 100
  <2>1. IsFiniteSet({x}) BY FS_Singleton
  <2>2. OddsProduct(Even({x}), {x}) = Even({x})[x] * OddsProduct(Even({x}), {x} \ {x})
    BY <2>1, ProductTakesAnyLeg DEF Even
  <2>3. {x} \ {x} = {} OBVIOUS
  <2>4. QED BY <2>2, <2>3, ProductOfNone DEF Scale, Even
<1>8. ASSUME NEW o \in Nat, NEW q \in Nat, NEW c \in Nat \ {0}, o > 100, c <= q
      PROVE  c * 100 < o * q
  <2>1. c * 101 <= q * o BY <1>8, TimesMonotone
  <2>2. QED BY <2>1
<1>9. odds[x] \in Nat /\ odds[x] > 100 BY <1>1
<1>10. QED BY <1>2, <1>4, <1>5, <1>6, <1>7, <1>8, <1>9

-----------------------------------------------------------------------------
\* What integer division is, with a product in place of the quotient.
LEMMA QuotientBounds ==
  ASSUME NEW a \in Nat, NEW b \in Nat \ {0}
  PROVE  a \div b \in Nat /\ b * (a \div b) <= a /\ a < b * (a \div b) + b
OBVIOUS

LEMMA QuotientAtLeast ==
  ASSUME NEW a \in Nat, NEW b \in Nat \ {0}, NEW k \in Nat, k * b <= a
  PROVE  k <= a \div b
<1>1. a \div b \in Nat /\ a < b * (a \div b) + b BY QuotientBounds
<1>2. PICK q \in Nat : q = a \div b /\ a < b * q + b BY <1>1
<1>3. CASE q + 1 <= k
  <2>1. (q + 1) * b <= k * b BY <1>2, <1>3, TimesMonotone
  <2>2. (q + 1) * b = b * q + b BY <1>2
  <2>3. QED BY <1>2, <2>1, <2>2
<1>4. QED BY <1>2, <1>3

-----------------------------------------------------------------------------
\* A bet as the tables hold it: a stake, and legs at odds above 1.00.
Priced(bet) ==
  /\ bet.stake \in Nat
  /\ IsFiniteSet(DOMAIN bet.locked)
  /\ \A s \in DOMAIN bet.locked : bet.locked[s] \in Nat /\ bet.locked[s] > Hundred

\* settleBetIfComplete, gross payout: legs that are won, however many and at
\* whatever odds, never pay less than the stake, though the division truncates.
THEOREM WonLegsReturnTheStake ==
  ASSUME NEW bet, Priced(bet), NEW won \in SUBSET DOMAIN bet.locked
  PROVE  GrossPayout(bet, won) \in Nat /\ bet.stake <= GrossPayout(bet, won)
<1>1. IsFiniteSet(won) BY FS_Subset DEF Priced
<1>2. /\ OddsProduct(bet.locked, won) \in Nat
      /\ Scale(won) \in Nat \ {0}
      /\ Scale(won) <= OddsProduct(bet.locked, won)
  BY <1>1, ScaleIsLeast, ScaleIsNat DEF Priced, Hundred
<1>3. bet.stake \in Nat BY DEF Priced
<1>4. /\ bet.stake * OddsProduct(bet.locked, won) \in Nat
      /\ bet.stake * Scale(won) <= bet.stake * OddsProduct(bet.locked, won)
  BY <1>2, <1>3, TimesMonotone
<1>5. QED BY <1>2, <1>3, <1>4, QuotientAtLeast, QuotientBounds DEF GrossPayout

\* applyWinningsTax: the tax is taken from the winnings only. What reaches the
\* wallet lies between the stake and the gross payout.
THEOREM TaxSparesTheStake ==
  ASSUME NEW bet, bet.stake \in Nat, NEW gross \in Nat, bet.stake <= gross,
         NEW taxPercent \in 0..100
  PROVE  /\ NetPayout(bet, gross, taxPercent) \in Nat
         /\ bet.stake <= NetPayout(bet, gross, taxPercent)
         /\ NetPayout(bet, gross, taxPercent) <= gross
<1>1. PICK profit \in Nat : profit = gross - bet.stake OBVIOUS
<1>2. profit * taxPercent \in Nat /\ profit * taxPercent <= profit * 100
  BY TimesMonotone
<1>3. PICK tax \in Nat : tax = (profit * taxPercent) \div Hundred /\ 100 * tax <= profit * taxPercent
  BY <1>2, QuotientBounds DEF Hundred
<1>4. tax <= profit BY <1>2, <1>3
<1>5. NetPayout(bet, gross, taxPercent) = IF gross > bet.stake THEN gross - tax ELSE gross
  BY <1>1, <1>3 DEF NetPayout
<1>6. QED BY <1>1, <1>4, <1>5

\* What a cash-out pays relates two quotients: one numerator at 95 of a larger
\* divisor, the other whole.
LEMMA QuotientsCompare ==
  ASSUME NEW n \in Nat, NEW d \in Nat \ {0}, NEW w \in Nat \ {0}, NEW e \in Nat \ {0},
         d <= e
  PROVE  (n * 95) \div (w * e * 100) <= n \div (w * d)
<1>1. /\ w * d \in Nat \ {0} /\ w * e * 100 \in Nat \ {0} /\ n * 95 \in Nat
      /\ w * d * 100 <= w * e * 100
  <2>1. w * d <= w * e BY TimesMonotone
  <2>2. w * d \in Nat \ {0} /\ w * e \in Nat \ {0} OBVIOUS
  <2>3. QED BY <2>1, <2>2
<1>2. PICK a \in Nat \ {0} : a = w * d BY <1>1
<1>3. PICK b \in Nat \ {0} : b = w * e * 100 /\ a * 100 <= b BY <1>1, <1>2
<1>4. PICK q \in Nat : q = (n * 95) \div b /\ b * q <= n * 95 BY <1>1, <1>3, QuotientBounds
<1>5. (a * 100) * q <= b * q BY <1>2, <1>3, <1>4, TimesMonotone
<1>6. (a * 100) * q = 100 * (q * a) BY <1>2, <1>4
<1>7. q * a \in Nat BY <1>2, <1>4
<1>8. q * a <= n BY <1>4, <1>5, <1>6, <1>7
<1>9. q <= n \div a BY <1>2, <1>4, <1>8, QuotientAtLeast
<1>10. QED BY <1>2, <1>3, <1>4, <1>9

\* computeCashOutValue: while a leg is pending the offer is never more than the
\* bet pays if every pending leg is won, however the odds have moved since; and
\* the branch that offers the whole potential payout is not taken.
THEOREM OfferWithinReach ==
  ASSUME NEW bet, Priced(bet), NEW current,
         NEW won \in SUBSET DOMAIN bet.locked, NEW pending \in SUBSET DOMAIN bet.locked,
         won = WithResult(bet, "won"), pending = WithResult(bet, "pending"),
         pending # {},
         \A s \in pending : current[s] \in Nat /\ current[s] > Hundred
  PROVE  /\ CashOutValue(bet, current) \in Nat
         /\ CashOutValue(bet, current) <= GrossPayout(bet, won \union pending)
<1> DEFINE was == OddsProduct(bet.locked, pending)
           is  == OddsProduct(current, pending)
<1>1. IsFiniteSet(won) /\ IsFiniteSet(pending) BY FS_Subset DEF Priced
<1>2. won \intersect pending = {} BY DEF WithResult
<1>3. /\ was \in Nat /\ is \in Nat /\ Scale(pending) \in Nat \ {0}
      /\ Scale(pending) < was /\ Scale(pending) <= is
  <2>1. Scale(pending) < was BY <1>1, ScaleIsExceeded DEF Priced
  <2>2. was \in Nat BY <1>1, ScaleIsLeast DEF Priced, Hundred
  <2>3. is \in Nat /\ Scale(pending) <= is BY <1>1, ScaleIsLeast DEF Hundred
  <2>4. Scale(pending) \in Nat \ {0} BY <1>1, ScaleIsNat
  <2>5. QED BY <2>1, <2>2, <2>3, <2>4
<1>4. /\ OddsProduct(bet.locked, won \union pending) = OddsProduct(bet.locked, won) * was
      /\ Scale(won \union pending) = Scale(won) * Scale(pending)
  <2>1. \A s \in won \union pending : bet.locked[s] \in Nat \ {0} BY DEF Priced, Hundred
  <2>2. OddsProduct(bet.locked, won \union pending) = OddsProduct(bet.locked, won) * was
    BY <1>1, <1>2, <2>1, ProductOfUnion
  <2>3. QED BY <1>1, <1>2, <2>2, ScaleOfUnion
<1>5. OddsProduct(bet.locked, won) \in Nat /\ Scale(won) \in Nat \ {0} /\ bet.stake \in Nat
  BY <1>1, ScaleIsLeast, ScaleIsNat DEF Priced, Hundred
<1> DEFINE n == bet.stake * (OddsProduct(bet.locked, won) * was)
<1>6. n \in Nat BY <1>3, <1>5
<1>7. CashOutValue(bet, current) = (n * 95) \div (Scale(won) * is * 100)
  <2>1. CashOutValue(bet, current)
          = (bet.stake * OddsProduct(bet.locked, won) * was * 95) \div (Scale(won) * is * Hundred)
    BY <1>3 DEF CashOutValue
  <2>2. bet.stake * OddsProduct(bet.locked, won) * was = n BY <1>3, <1>5
  <2>3. QED BY <2>1, <2>2 DEF Hundred
<1>8. GrossPayout(bet, won \union pending) = n \div (Scale(won) * Scale(pending))
  BY <1>4 DEF GrossPayout
<1>9. is \in Nat \ {0} BY <1>3
<1>10. (n * 95) \div (Scale(won) * is * 100) \in Nat
  <2>1. Scale(won) * is * 100 \in Nat \ {0} /\ n * 95 \in Nat BY <1>5, <1>6, <1>9
  <2> HIDE DEF n, is
  <2>2. QED BY <2>1, QuotientBounds
<1> HIDE DEF n, is, was
<1>11. QED BY <1>3, <1>5, <1>6, <1>7, <1>8, <1>9, <1>10, QuotientsCompare
=============================================================================
