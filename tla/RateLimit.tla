----------------------------- MODULE RateLimit -----------------------------
(***************************************************************************)
(* rateLimit.ts for one key (scope and IP): the counter that the processes *)
(* share in Redis, one key for each window of the clock, and the bucket    *)
(* that each keeps in memory when there is no Redis or a command fails.    *)
(* Windows are named by their distance to the current one.                 *)
(***************************************************************************)
EXTENDS Integers, FiniteSets, Functions

CONSTANTS
  Processes,
  Requests,    \* requests that may be in flight at once
  None,        \* no process; no bucket; no expiry
  MaxPerMinute,  \* maxPerMinute
  Window,      \* WINDOW_MS, in intervals
  Patience     \* BOUND: the intervals that the commands of a hit may last

\* What every instance assumes of the constants.
RateLimitAssumption ==
  /\ IsFiniteSet(Requests) /\ "redis" \notin Processes
  /\ None \notin Processes /\ None \notin Nat /\ None \notin [count : Nat, left : Nat]
  /\ MaxPerMinute \in Nat /\ Window \in Nat \ {0} /\ Patience \in Nat

VARIABLES
  shared,      \* config.redisUrl is set
  phase,       \* intervals of the current window that are over
  keys,        \* the counter of each window in Redis, and the time it has left
  buckets,     \* count of each process, and the time to its resetAt
  hit,         \* the redisHit of each request
  passed       \* history: requests let through in the last intervals, by counter

vars == <<shared, phase, keys, buckets, hit, passed>>

\* A hit begun in the current window is at most this many windows late.
Oldest == (Patience + Window - 1) \div Window
Windows == 0..Oldest
Recent == 0..(Window - 1)
Counters == Processes \union {"redis"}

NoKey == [count |-> 0, left |-> None]
NoHit == [stage |-> "idle", process |-> None, window |-> 0, count |-> 0, age |-> 0]

Init ==
  /\ shared \in BOOLEAN
  /\ phase = 0
  /\ keys = [w \in Windows |-> NoKey]
  /\ buckets = [p \in Processes |-> None]
  /\ hit = [r \in Requests |-> NoHit]
  /\ passed = [c \in Counters |-> [n \in Recent |-> 0]]

LimitedLate(count) == count > MaxPerMinute + 1
Limited(count) == count > MaxPerMinute

\* Counts beyond the limit are not told apart.
Plus1(count) == IF count > MaxPerMinute + 1 THEN count ELSE count + 1

Decide(counter, count) ==
  passed' = IF Limited(count) THEN passed ELSE [passed EXCEPT ![counter][0] = @ + 1]

-----------------------------------------------------------------------------
Expired(p) == buckets[p] = None \/ buckets[p].left = 0
Bucket(p) ==
  IF Expired(p) THEN [count |-> 1, left |-> Window] ELSE [buckets[p] EXCEPT !.count = Plus1(@)]

MemoryHit(p) ==
  /\ buckets' = [buckets EXCEPT ![p] = Bucket(p)]
  /\ Decide(p, Bucket(p).count)

\* rateLimit without Redis.
LocalHit(p) ==
  /\ ~shared
  /\ MemoryHit(p)
  /\ UNCHANGED <<shared, phase, keys, hit>>

\* redisHit: the window is that of the clock now.
Arrive(r, p) ==
  /\ shared
  /\ hit[r].stage = "idle"
  /\ hit' = [hit EXCEPT ![r] = [NoHit EXCEPT !.stage = "incr", !.process = p]]
  /\ UNCHANGED <<shared, phase, keys, buckets, passed>>

Incremented(w) == [keys EXCEPT ![w].count = Plus1(@)]

Incr(r) ==
  LET w == hit[r].window  count == Plus1(keys[w].count)
  IN  /\ hit[r].stage = "incr"
      /\ keys' = Incremented(w)
      /\ IF count = 1
         THEN hit' = [hit EXCEPT ![r].stage = "pexpire", ![r].count = 1] /\ UNCHANGED passed
         ELSE hit' = [hit EXCEPT ![r] = NoHit] /\ Decide("redis", count)
      /\ UNCHANGED <<shared, phase, buckets>>

PExpire(r) ==
  /\ hit[r].stage = "pexpire"
  /\ keys' = [keys EXCEPT ![hit[r].window].left = Window]
  /\ Decide("redis", hit[r].count)
  /\ hit' = [hit EXCEPT ![r] = NoHit]
  /\ UNCHANGED <<shared, phase, buckets>>

\* A command without answer, executed or not.
RedisFails(r) ==
  /\ hit[r].stage # "idle"
  /\ keys' \in {keys, IF hit[r].stage = "incr" THEN Incremented(hit[r].window)
                      ELSE [keys EXCEPT ![hit[r].window].left = Window]}
  /\ MemoryHit(hit[r].process)
  /\ hit' = [hit EXCEPT ![r] = NoHit]
  /\ UNCHANGED <<shared, phase>>

\* The periodic cleaning.
CleanUp(p) ==
  /\ buckets[p] # None /\ Expired(p)
  /\ buckets' = [buckets EXCEPT ![p] = None]
  /\ UNCHANGED <<shared, phase, keys, hit, passed>>

-----------------------------------------------------------------------------
Less(left) == IF left = 0 THEN 0 ELSE left - 1
Aged(key) ==
  CASE key.left = None -> key
    [] key.left = 1    -> NoKey
    [] OTHER           -> [key EXCEPT !.left = @ - 1]

\* An interval passes, and perhaps a window.
Elapse ==
  LET next == (phase + 1) % Window
      shift == IF next = 0 THEN 1 ELSE 0
  IN  /\ \A r \in Requests : hit[r].stage = "idle" \/ hit[r].age < Patience
      /\ phase' = next
      /\ keys' = [w \in Windows |-> IF w < shift THEN NoKey ELSE Aged(keys[w - shift])]
      /\ buckets' = [p \in Processes |->
                       IF buckets[p] = None THEN None ELSE [buckets[p] EXCEPT !.left = Less(@)]]
      /\ hit' = [r \in Requests |->
                   IF hit[r].stage = "idle" THEN NoHit
                   ELSE [hit[r] EXCEPT !.age = @ + 1, !.window = @ + shift]]
      /\ passed' = [c \in Counters |-> [n \in Recent |-> IF n = 0 THEN 0 ELSE passed[c][n - 1]]]
      /\ UNCHANGED shared

Next ==
  \/ \E p \in Processes : LocalHit(p) \/ CleanUp(p) \/ \E r \in Requests : Arrive(r, p)
  \/ \E r \in Requests : Incr(r) \/ PExpire(r) \/ RedisFails(r)
  \/ Elapse

Spec == Init /\ [][Next]_vars

-----------------------------------------------------------------------------
TypeOK ==
  /\ shared \in BOOLEAN /\ phase \in Recent
  /\ keys \in [Windows -> [count : Nat, left : 1..Window \union {None}]]
  /\ \A p \in Processes : buckets[p] = None \/ buckets[p] \in [count : Nat \ {0}, left : 0..Window]
  /\ hit \in [Requests -> [stage : {"idle", "incr", "pexpire"}, process : Processes \union {None},
                           window : Windows, count : {0, 1}, age : 0..Patience]]
  /\ passed \in [Counters -> [Recent -> Nat]]

PassedBy(counter) == FoldFunction(LAMBDA n, sum : n + sum, 0, passed[counter])

\* In no period as long as a window does a counter let more through than two
\* windows may, however the period lies on them, and in Redis the hits that are
\* under way when either begins: they count in a key that may have expired.
BurstBounded ==
  /\ \A p \in Processes : PassedBy(p) <= 2 * MaxPerMinute
  /\ PassedBy("redis") <= 2 * (MaxPerMinute + Cardinality(Requests))
=============================================================================
