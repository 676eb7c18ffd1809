------------------------------ MODULE Platform ------------------------------
(***************************************************************************)
(* What the replicas of the server share, side by side: the leader of the  *)
(* odds engine (OddsLease), the processes and their seed, the rate limit,  *)
(* the cache of operators and the pool of clients under their requests.    *)
(* They share no state, so `focus` names the one that a behaviour is about *)
(* and the others stay as they began.                                      *)
(***************************************************************************)
EXTENDS OddsLease

CONSTANTS
  Replicas, Passwords, Short, MaxAttempts, MaxStarts, MaxDeployments,  \* Lifecycle
  Requests,                                                  \* in flight at once
  Processes, MaxPerMinute, Window, HitPatience,              \* RateLimit
  Slugs, Admins, CacheTtl, LookupPatience,                   \* Tenants
  Clients, OperatorOf, MaxTx                                 \* TenantPool

VARIABLES
  focus,
  deployed, process, matches, admins, starts, deployments,  \* Lifecycle
  shared, phase, keys, buckets, hit, passed,                \* RateLimit
  operators, cache, lookup, creating, answer, since,        \* Tenants
  setting, holder, waiting, context, store, handler, txs    \* TenantPool

leaseVars   == vars
processVars == <<deployed, process, matches, admins, starts, deployments>>
rateVars    == <<shared, phase, keys, buckets, hit, passed>>
tenantVars  == <<operators, cache, lookup, creating, answer, since>>
poolVars    == <<setting, holder, waiting, context, store, handler, txs>>

-----------------------------------------------------------------------------
Life == INSTANCE Lifecycle
Rate == INSTANCE RateLimit WITH Patience <- HitPatience
Ten  == INSTANCE Tenants WITH Ttl <- CacheTtl, Patience <- LookupPatience
Pool == INSTANCE TenantPool

ASSUME PlatformAssumption ==
  /\ Life!LifecycleAssumption /\ Rate!RateLimitAssumption
  /\ Ten!TenantsAssumption /\ Pool!TenantPoolAssumption

-----------------------------------------------------------------------------
Components == {"lease", "processes", "rate", "tenants", "pool"}
everything == <<focus, leaseVars, processVars, rateVars, tenantVars, poolVars>>

PlatformInit ==
  /\ focus \in Components
  /\ Init /\ Life!Init /\ Rate!Init /\ Ten!Init /\ Pool!Init
  /\ focus # "processes" => deployed = None
  /\ focus # "rate" => shared
  /\ focus # "tenants" => operators = [s \in Slugs |-> "active"]

PlatformNext ==
  \/ focus = "lease" /\ Next
     /\ UNCHANGED <<focus, processVars, rateVars, tenantVars, poolVars>>
  \/ focus = "processes" /\ Life!Next
     /\ UNCHANGED <<focus, leaseVars, rateVars, tenantVars, poolVars>>
  \/ focus = "rate" /\ Rate!Next
     /\ UNCHANGED <<focus, leaseVars, processVars, tenantVars, poolVars>>
  \/ focus = "tenants" /\ Ten!Next
     /\ UNCHANGED <<focus, leaseVars, processVars, rateVars, poolVars>>
  \/ focus = "pool" /\ Pool!Next
     /\ UNCHANGED <<focus, leaseVars, processVars, rateVars, tenantVars>>

\* The fairness of the engine and of the pool (Fairness of their modules) for the
\* behaviours that are about them.
PlatformFairness ==
  /\ WF_leaseVars(focus = "lease" /\ Elapse)
  /\ \A i \in Instances : WF_leaseVars(focus = "lease" /\ Proceed(i))
  /\ \A c \in Clients : WF_poolVars(focus = "pool" /\ Pool!Grant(c))
  /\ \A r \in Requests : WF_poolVars(focus = "pool" /\ Pool!Proceed(r))

PlatformSpec == PlatformInit /\ [][PlatformNext]_everything /\ PlatformFairness

-----------------------------------------------------------------------------
\* The types of every component's state.
TypesOK ==
  CASE focus = "lease"     -> TypeOK
    [] focus = "processes" -> Life!TypeOK
    [] focus = "rate"      -> Rate!TypeOK
    [] focus = "tenants"   -> Ten!TypeOK
    [] focus = "pool"      -> Pool!TypeOK

\* Restarts do not sow the catalogue again (seedDemoData).
SownAtMostOnceEach == focus = "processes" => Life!SownAtMostOnceEach
\* The administrators have the last password once every replica runs it (ensureAdmin).
RotationSettles == focus = "processes" => Life!RotationSettles
\* A burst of requests passes two windows' worth and, with Redis, those in flight
\* when each began (rateLimit).
BurstBounded == focus = "rate" => Rate!BurstBounded
\* The cache of lookupBySlug hides no change for longer than its time and a lookup's.
AnswersAreRecent == focus = "tenants" => Ten!AnswersAreRecent

\* A request works as its operator until its response closes (runWithContext, tx).
OpenRequestsIsolated == focus = "pool" => Pool!OpenRequestsIsolated
\* No operator's variable stays on a client that is free (runWithContext, tx).
FreeClientsAreReset == focus = "pool" => Pool!FreeClientsAreReset
\* Every request ends while clients outnumber requests (runWithContext, tx).
EveryRequestEnds == Pool!EveryRequestEnds
=============================================================================
