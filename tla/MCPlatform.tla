----------------------------- MODULE MCPlatform -----------------------------
(***************************************************************************)
(* Platform for TLC: two instances, two replicas and two requests.         *)
(***************************************************************************)
EXTENDS Platform, TLC

CONSTANTS
  i1, i2,             \* instances of the odds engine
  replica1, replica2, good1, good2, \* processes and passwords
  p1,                 \* a process that limits requests
  slug, a1, a2,       \* a subdomain and two requests of super-admins
  c1, c2, c3,         \* clients of the pool
  r1, r2, o1, o2      \* requests of two operators

MCRequests   == {r1, r2}
MCOperatorOf == [r \in MCRequests |-> IF r = r1 THEN o1 ELSE o2]
=============================================================================
