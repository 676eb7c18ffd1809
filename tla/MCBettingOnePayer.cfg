CONSTANTS
  u1 = u1
  s1 = s1
  s2 = s2
  m1 = m1
  m2 = m2
  k1 = k1
  k2 = k2
  over = over
  under = under
  yes = yes
  None = None
  Users <- MCUsers
  Matches <- MCMatches
  Markets <- MCMarkets
  MatchOf <- MCMatchOf
  MarketOf <- MCMarketOf
  NameOf <- MCNameOf
  FirstOdds <- MCFirstOdds
  TaxPercent <- MCTaxPercent
  Stakes <- MCStakes
  Sessions <- MCSessions
  TypeOf <- MCVoidTypeOf
  Duties <- MCOnePayer
  Slips <- MCVoidSlips
  Placed <- MCPairPlaced
  OddsRange = {150, 200}
  MaxRows = 5
  Opening <- MCOpening
  Bets <- MCBets
  Selections <- MCTwoSelections
  Scores <- MCScores
SPECIFICATION Spec
INVARIANTS
  TypeOK
  StakeIffBet
  LastRowIsBalance
  OwnRowsKept
PROPERTIES
  Promise
  DecidedLegsStand
  CashOutWithinReach
