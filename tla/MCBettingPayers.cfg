CONSTANTS
  u1 = u1
  s1 = s1
  s2 = s2
  m1 = m1
  m2 = m2
  k1 = k1
  k2 = k2
  over = over
  under = under
  yes = yes
  None = None
  Users <- MCUsers
  Matches <- MCMatches
  Markets <- MCMarkets
  MatchOf <- MCMatchOf
  MarketOf <- MCMarketOf
  NameOf <- MCNameOf
  FirstOdds <- MCFirstOdds
  TaxPercent <- MCTaxPercent
  Stakes <- MCStakes
  Sessions <- MCSessions
  TypeOf <- MCTypeOf
  Duties <- MCPayers
  Slips <- MCPaySlips
  Placed <- MCTwoPlaced
  OddsRange = {150}
  MaxRows = 6
  Opening <- MCOpening
  Bets <- MCBets
  Selections <- MCSelections
  Scores <- MCOneScore
SPECIFICATION FairSpec
INVARIANTS
  DecisionMatchesLegs
PROPERTIES
  EveryRequestEnds
