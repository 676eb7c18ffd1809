CONSTANTS
  u1 = u1
  u2 = u2
  s1 = s1
  s2 = s2
  bet = bet
  None = None
  Users <- MCUsers
  Sessions <- MCSessions
  Amounts <- MCAmounts
  Tags <- MCTags
  Opening <- MCOpening
  MaxRows <- MCMaxRows
SYMMETRY MCSymmetry
SPECIFICATION Spec
INVARIANT ChainUnbroken
