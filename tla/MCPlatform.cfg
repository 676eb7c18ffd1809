CONSTANTS
  i1 = i1
  i2 = i2
  replica1 = replica1
  replica2 = replica2
  good1 = good1
  good2 = good2
  p1 = p1
  slug = slug
  a1 = a1
  a2 = a2
  c1 = c1
  c2 = c2
  c3 = c3
  r1 = r1
  r2 = r2
  o1 = o1
  o2 = o2
  None = None
  Instances = {i1, i2}
  Ttl = 5
  Patience = 1
  MaxErrors = 1
  Replicas = {replica1, replica2}
  Passwords = {good1, good2}
  Short = short
  MaxAttempts = 2
  MaxStarts = 3
  MaxDeployments = 1
  Requests <- MCRequests
  Processes = {p1}
  MaxPerMinute = 1
  Window = 2
  HitPatience = 1
  Slugs = {slug}
  Admins = {a1, a2}
  CacheTtl = 3
  LookupPatience = 1
  Clients = {c1, c2, c3}
  OperatorOf <- MCOperatorOf
  MaxTx = 1
SPECIFICATION PlatformSpec
CHECK_DEADLOCK FALSE
INVARIANTS
  TypesOK
  OneWriterInTime
  SownAtMostOnceEach
  RotationSettles
  BurstBounded
  AnswersAreRecent
  OpenRequestsIsolated
  FreeClientsAreReset
PROPERTIES
  TakeOver
  EveryRequestEnds
