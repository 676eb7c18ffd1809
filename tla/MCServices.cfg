CONSTANTS
  s1 = s1
  s2 = s2
  x = x
  y = y
  home = home
  draw = draw
  None = None
  Sessions <- MCSessions
  Kinds <- MCKinds
  Opening <- MCOpening
  Values = {0, 2}
  Exclusions = {1}
  Stakes = {1}
  Deposits = {1}
  Payouts = {1}
  Day = 1
  MaxTime = 2
  MaxChanges = 2
  MaxMoves = 3
  Tokens <- MCTokens
  TypeOf <- MCTypeOf
  TokenTtl <- MCTokenTtl
  TokenPatience = 1
  Secrets = {x, y}
  MaxBets = 2
  Minute = 2
  BetPatience = 1
  Selections <- MCSelections
  MatchOf <- MCMatchOf
  Prices = {150, 160}
  OpeningOdds <- MCOpeningOdds
  MaxOddsMoves = 1
  MaxFailures = 1
SYMMETRY MCSymmetry
SPECIFICATION ServicesSpec
CHECK_DEADLOCK FALSE
INVARIANTS
  TypesOK
  IncreaseWaits
  DepositOvershootBounded
  ServesItsReaders
  ResetClosesTokens
  EnabledMfaIsUsable
  RiskyBurstBounded
  AcceptedAsSeen
  QuietMapIsCurrent
PROPERTIES
  LossOvershootBounded
  ExpiredTokensChangeNothing
