------------------------------ MODULE Tenants ------------------------------
(***************************************************************************)
(* Which operator a request by subdomain is for: the cache of lookupBySlug *)
(* in one process (tenant.ts), and the operators that super-admins create, *)
(* suspend and reactivate meanwhile (platform.service.ts).  Time passes in *)
(* intervals of the cache's clock.                                         *)
(***************************************************************************)
EXTENDS Integers

CONSTANTS
  Slugs,       \* subdomains that are not reserved
  Requests,    \* requests that may be in flight at once
  Admins,      \* requests of super-admins, likewise
  None,        \* no request answered yet; no slug being created
  Ttl,         \* CACHE_TTL_MS, in intervals
  Patience     \* BOUND: the intervals that a lookup may last

\* What every instance assumes of the constants.
TenantsAssumption ==
  /\ None \notin Slugs
  /\ Ttl \in Nat \ {0} /\ Patience \in Nat

VARIABLES
  operators,   \* the status in the row of each slug, or "none"
  cache,       \* what was cached for each slug, and the time it has left
  lookup,      \* the lookup of each request, and for how long it is
  creating,    \* createOperator between its SELECT and its INSERT
  answer,      \* the operator just answered to a request
  since        \* history: for how long each slug has not had each status

vars == <<operators, cache, lookup, creating, answer, since>>

Status == {"none", "active", "suspended"}
NoLookup == [stage |-> "idle", slug |-> None, op |-> "none", age |-> 0]
NotCached == [op |-> "none", left |-> 0]

\* The oldest an answer may be.
MaxAge == Patience + Ttl - 1

Init ==
  /\ operators \in [Slugs -> {"none", "active"}]
  /\ cache = [s \in Slugs |-> NotCached]
  /\ lookup = [r \in Requests |-> NoLookup]
  /\ creating = [a \in Admins |-> None]
  /\ answer = None
  /\ since = [s \in Slugs |-> [v \in Status |-> IF v = operators[s] THEN 0 ELSE MaxAge + 1]]

Answer(s, op) == answer' = [slug |-> s, op |-> op]

-----------------------------------------------------------------------------
\* An entry counts whenever it was cached, and until it expires.
EverCached(s) == cache[s].op # "none"
Fresh(s) == cache[s].left > 0

\* lookupBySlug; an operator that is not active is refused by resolveOperatorId.
Hit(r, s) ==
  /\ lookup[r].stage = "idle"
  /\ Fresh(s)
  /\ Answer(s, cache[s].op)
  /\ UNCHANGED <<operators, cache, lookup, creating, since>>

Miss(r, s) ==
  /\ lookup[r].stage = "idle"
  /\ ~Fresh(s)
  /\ lookup' = [lookup EXCEPT ![r] = [stage |-> "asked", slug |-> s, op |-> "none", age |-> 0]]
  /\ UNCHANGED <<operators, cache, creating, answer, since>>

\* findOperatorBySlug.
Read(r) ==
  /\ lookup[r].stage = "asked"
  /\ lookup' = [lookup EXCEPT ![r].stage = "read", ![r].op = operators[lookup[r].slug]]
  /\ UNCHANGED <<operators, cache, creating, answer, since>>

\* cache.set: over whatever other lookups cached since.
Store(r) ==
  /\ lookup[r].stage = "read"
  /\ cache' = [cache EXCEPT ![lookup[r].slug] = [op |-> lookup[r].op, left |-> Ttl]]
  /\ Answer(lookup[r].slug, lookup[r].op)
  /\ lookup' = [lookup EXCEPT ![r] = NoLookup]
  /\ UNCHANGED <<operators, creating, since>>

\* The query fails: nothing is cached.
LookupFails(r) ==
  /\ lookup[r].stage # "idle"
  /\ lookup' = [lookup EXCEPT ![r] = NoLookup]
  /\ UNCHANGED <<operators, cache, creating, answer, since>>

-----------------------------------------------------------------------------
Becomes(s, status) ==
  /\ operators' = [operators EXCEPT ![s] = status]
  /\ since' = [since EXCEPT ![s][status] = 0]

\* createOperator: no operator has the slug.
CreateOperator(a, s) ==
  /\ creating[a] = None
  /\ operators[s] = "none"
  /\ creating' = [creating EXCEPT ![a] = s]
  /\ UNCHANGED <<operators, cache, lookup, answer, since>>

\* The INSERT; an operator created meanwhile makes it fail.
InsertOperator(a) ==
  /\ creating[a] # None
  /\ IF operators[creating[a]] = "none" THEN Becomes(creating[a], "active")
                                        ELSE UNCHANGED <<operators, since>>
  /\ creating' = [creating EXCEPT ![a] = None]
  /\ UNCHANGED <<cache, lookup, answer>>

SetOperatorStatus(s, status) ==
  /\ operators[s] # "none"
  /\ Becomes(s, status)
  /\ UNCHANGED <<cache, lookup, creating, answer>>

-----------------------------------------------------------------------------
AtMost(n, max) == IF n > max THEN max ELSE n

\* An interval passes.
Elapse ==
  /\ \A r \in Requests : lookup[r].stage = "idle" \/ lookup[r].age < Patience
  /\ lookup' = [r \in Requests |->
                  IF lookup[r].stage = "idle" THEN lookup[r] ELSE [lookup[r] EXCEPT !.age = @ + 1]]
  /\ cache' = [s \in Slugs |-> [cache[s] EXCEPT !.left = IF @ = 0 THEN 0 ELSE @ - 1]]
  /\ since' = [s \in Slugs |-> [v \in Status |->
                 IF v = operators[s] THEN 0 ELSE AtMost(since[s][v] + 1, MaxAge + 1)]]
  /\ answer' = None
  /\ UNCHANGED <<operators, creating>>

Next ==
  \/ \E r \in Requests : Read(r) \/ Store(r) \/ LookupFails(r) \/ \E s \in Slugs : Hit(r, s) \/ Miss(r, s)
  \/ \E a \in Admins : InsertOperator(a) \/ \E s \in Slugs : CreateOperator(a, s)
  \/ \E s \in Slugs, status \in {"active", "suspended"} : SetOperatorStatus(s, status)
  \/ Elapse

Spec == Init /\ [][Next]_vars

-----------------------------------------------------------------------------
Lookups ==
  [stage : {"idle", "asked", "read"}, slug : Slugs \union {None}, op : Status, age : 0..Patience]

TypeOK ==
  /\ operators \in [Slugs -> Status]
  /\ cache \in [Slugs -> [op : Status, left : 0..Ttl]]
  /\ lookup \in [Requests -> Lookups]
  /\ \A r \in Requests : lookup[r].stage # "idle" => lookup[r].slug \in Slugs
  /\ creating \in [Admins -> Slugs \union {None}]
  /\ answer = None \/ answer \in [slug : Slugs, op : Status]
  /\ since \in [Slugs -> [Status -> 0..(MaxAge + 1)]]

\* A request is never admitted, nor refused, by a status that its operator lost
\* longer ago than the cache's time and one slow lookup, although lookups in
\* flight write what they read over newer entries.
AnswersAreRecent == answer # None => since[answer.slug][answer.op] <= MaxAge
=============================================================================
