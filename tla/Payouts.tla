------------------------------ MODULE Payouts ------------------------------
(***************************************************************************)
(* The arithmetic of bets: settlement.service.ts, betting.service.ts and   *)
(* utils/money.ts.  Money is in minor units and odds are in hundredths     *)
(* (150 is 1.50), as selections.odds holds them; a product of odds is kept *)
(* exact where the code multiplies doubles.                                *)
(***************************************************************************)
EXTENDS Integers, FiniteSets, Functions

Hundred == 100

\* Each leg of a bet is one of the selections of its slip.
LegResults == {"pending", "won", "lost", "void"}

\* The selection that wins a market of the given type, None if the type is one
\* the settlement does not know.
WinningSelectionName(type, score, None) ==
  LET home == score[1]
      away == score[2]
  IN  CASE type = "1x2" -> IF home > away THEN "Local"
                           ELSE IF home < away THEN "Visitante" ELSE "Empate"
        [] type = "over_under_2_5" -> IF home + away > 2 THEN "Mas de 2.5" ELSE "Menos de 2.5"
        [] type = "btts" -> IF home > 0 /\ away > 0 THEN "Si" ELSE "No"
        [] OTHER -> None

\* What a finished match makes of a selection.
SelectionResult(type, name, score, None) ==
  LET winner == WinningSelectionName(type, score, None)
  IN  IF winner = None THEN "void" ELSE IF name = winner THEN "won" ELSE "lost"

\* The product of the odds of the selections in S, as a multiple of Scale(S):
\* what it would be at odds of 1.00.
OddsProduct(odds, S) == FoldFunctionOnSet(LAMBDA x, y : x * y, 1, odds, S)
Scale(S) == OddsProduct([s \in S |-> Hundred], S)

RoundedQuotient(a, b) == (2 * a + b) \div (2 * b)

\* bets.total_odds: rounded to two decimals, so back in hundredths.
TotalOdds(locked) ==
  RoundedQuotient(Hundred * OddsProduct(locked, DOMAIN locked), Scale(DOMAIN locked))

ComputePayout(stake, hundredths) == (stake * hundredths) \div Hundred

\* bets.potential_payout, fixed when the bet is placed.
PotentialPayout(bet) == ComputePayout(bet.stake, TotalOdds(bet.locked))

WithResult(bet, result) == {s \in DOMAIN bet.locked : bet.result[s] = result}

\* What the settlement pays before tax: stake times the odds of the won legs,
\* not rounded in between.
GrossPayout(bet, won) == (bet.stake * OddsProduct(bet.locked, won)) \div Scale(won)

NetPayout(bet, gross, taxPercent) ==
  IF gross > bet.stake THEN gross - ((gross - bet.stake) * taxPercent) \div Hundred
                       ELSE gross

\* The cash-out offer of a bet at the current odds.  With no leg pending both
\* products are 1 and the code offers the whole potential payout.
CashOutValue(bet, current) ==
  LET won     == WithResult(bet, "won")
      pending == WithResult(bet, "pending")
      was     == OddsProduct(bet.locked, pending)
      is      == OddsProduct(current, pending)
  IN  IF was = Scale(pending) /\ is = Scale(pending)
      THEN PotentialPayout(bet)
      ELSE (bet.stake * OddsProduct(bet.locked, won) * was * 95)
             \div (Scale(won) * is * Hundred)
=============================================================================
