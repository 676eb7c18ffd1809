CONSTANTS
  u1 = u1
  s1 = s1
  s2 = s2
  key1 = key1
  key2 = key2
  None = None
  Users <- MCUsers
  Sessions <- MCSessions
  Opening <- MCOpening
  MaxRows = 3
  Intents <- MCOneIntent
  Keys <- MCOneKey
  DepositAmounts <- MCDepositAmounts
  PayoutAmounts <- MCNoAmounts
  DepositLimit <- MCDepositLimit
  ProviderResults <- MCStripeResults
  DelayedMethods = TRUE
  MaxAborts = 0
SPECIFICATION SpecDelayed
INVARIANT CreditedOnce
