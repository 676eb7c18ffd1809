CONSTANTS
  s1 = s1
  s2 = s2
  None = None
  Sessions <- MCSessions
  Kinds <- MCKinds
  Opening <- MCOpening
  Values = {0, 2}
  Exclusions = {1, 2}
  Stakes = {1}
  Deposits = {1}
  Payouts = {1}
  Day = 1
  MaxTime = 2
  MaxChanges = 2
  MaxMoves = 3
SYMMETRY MCSymmetry
SPECIFICATION Spec
PROPERTY ExclusionHolds
