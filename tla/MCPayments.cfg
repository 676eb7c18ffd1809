CONSTANTS
  u1 = u1
  s1 = s1
  s2 = s2
  key1 = key1
  key2 = key2
  None = None
  Users <- MCUsers
  Sessions <- MCSessions
  Opening <- MCOpening
  MaxRows = 3
  Intents <- MCIntents
  Keys <- MCKeys
  DepositAmounts <- MCDepositAmounts
  PayoutAmounts <- MCPayoutAmounts
  DepositLimit <- MCDepositLimit
  ProviderResults <- MCResults
  DelayedMethods = FALSE
  MaxAborts = 1
SPECIFICATION FairSpec
INVARIANTS
  TypeOK
  LedgerMatchesIntents
  OneMovementPerKey
PROPERTIES
  PaidIsCredited
