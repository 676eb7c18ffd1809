--------------------------- MODULE PlatformProofs ---------------------------
(***************************************************************************)
(* The components of Platform, one after the other, for any number of      *)
(* instances, processes, clients and requests: the lease of the odds       *)
(* engine (odds.engine.ts), the cache of lookupBySlug (tenant.ts), the     *)
(* operator's variable on the clients of the pool (db/index.ts), the       *)
(* replicas with their seed (index.ts, seed.ts) and the rate limit         *)
(* (rateLimit.ts).                                                         *)
(***************************************************************************)
EXTENDS Platform, Sequences, FoldProofs

\* The lease: at most one instance whose timer runs writes odds at a time, wherever
\* instances stop, crash or lose answers of Redis, as long as it outlasts the ticks
\* between two renewals (OneWriterInTime).
\* What an instance lost at most with e ticks without answer.
Spent(e) == e * (Patience + 1)

-----------------------------------------------------------------------------
\* An instance that counts: its timer runs, or it still releases the lock.
Active(i) == status[i] = "up" \/ release[i] # Idle

\* An instance about to act as the leader.
Claimant(i) ==
  Active(i) /\ (Ticking(i, "renew") \/ Ticking(i, "write") \/ release[i].stage = "del")

\* How long the lease of an active holder still lasts at least.
Need(i) ==
  CASE Ticking(i, "write")    -> Ttl - tick[i].age
    [] tick[i].stage \in {"acquire", "holder", "renew"}
                              -> Ttl - Spent(missed[i]) - (Patience + 1) - tick[i].age
    [] Ticking(i, "idle") /\ release[i] # Idle -> (Patience + 1) - release[i].age
    [] Ticking(i, "idle") /\ release[i] = Idle ->
         Ttl - Spent(missed[i]) - IF i \in due THEN Patience + 1 ELSE Patience

\* For how long a claimant may have been one.
Claimed(i) == IF release[i].stage = "del" THEN release[i].age ELSE tick[i].age

NewIsIdle ==
  \A i \in Instances : status[i] = "new" => lock.holder # i /\ tick[i] = Idle /\ release[i] = Idle

ReleasesWhenStopped == \A i \in Instances : release[i] # Idle => status[i] = "stopped"

OneClaimant == \A i, j \in Instances : Claimant(i) /\ Claimant(j) => i = j

\* Nobody else that counts holds the lock of a claimant.
ClaimsAreHeld ==
  \A i \in Instances : Claimant(i) =>
    lock # Free /\ (lock.holder = i \/ ~Active(lock.holder))

HoldersLast == \A i \in Instances : Active(i) /\ lock.holder = i => lock.left >= Need(i)

\* Whoever took the lock from a claimant took it since it claims.
ClaimsLast ==
  \A i \in Instances : Claimant(i) /\ lock.holder # i => lock.left >= Ttl - Claimed(i)

IInv ==
  /\ TypeOK
  /\ NewIsIdle /\ ReleasesWhenStopped
  /\ OneClaimant /\ ClaimsAreHeld
  /\ HoldersLast /\ ClaimsLast

-----------------------------------------------------------------------------
\* What one more failure costs, and what it leaves of the lease.
LEMMA SpentGrows ==
  ASSUME NEW m \in Nat, (m + 2) * (Patience + 1) <= Ttl, NEW e \in 0..m
  PROVE  /\ Spent(e) \in Nat
         /\ Spent(e) + 2 * (Patience + 1) <= Ttl
         /\ Spent(e + 1) = Spent(e) + Patience + 1
<1> USE LeaseAssumption
<1> DEFINE q == Patience + 1
           d == m - e
<1>1. q \in Nat /\ e \in Nat /\ d \in Nat /\ m = e + d
  OBVIOUS
<1> HIDE DEF q, d
<1>2. (m + 2) * q = e * q + d * q + 2 * q /\ d * q \in Nat /\ e * q \in Nat
  BY <1>1
<1>3. (e + 1) * q = e * q + q
  BY <1>1
<1>4. (m + 2) * q <= Ttl
  BY DEF q
<1>5. QED
  BY <1>1, <1>2, <1>3, <1>4 DEF Spent, q

\* The most commands in a row without answer only grow.
LEMMA MostGrows == ASSUME TypeOK, [Next]_vars, LeaseOutlasts' PROVE LeaseOutlasts
<1> USE LeaseAssumption
<1>1. most' = most \/ most' = most + 1
  BY DEF Next, Proceed, vars, TypeOK, Start, Fire, Acquire, AskHolder, Renew, TickDone, Stop, ReleaseGet,
         ReleaseDel, RedisError, ReleaseError, Exit, Elapse
<1> DEFINE q == Patience + 1
<1>2. q \in Nat /\ most \in Nat BY DEF TypeOK
<1> HIDE DEF q
<1>3. (most + 1 + 2) * q = (most + 2) * q + q BY <1>2
<1>4. (most + 2) * q \in Nat BY <1>2
<1>5. (most' + 2) * q <= Ttl BY DEF LeaseOutlasts, q
<1>6. (most + 2) * q <= Ttl BY <1>1, <1>2, <1>3, <1>4, <1>5
<1>7. QED BY <1>6 DEF LeaseOutlasts, q

\* The types of an instance's work.
LEMMA WorkTypes ==
  ASSUME TypeOK, NEW i \in Instances
  PROVE  /\ tick[i].stage \in {"idle", "acquire", "holder", "renew", "write"}
         /\ release[i].stage \in {"idle", "holder", "del"}
         /\ tick[i].age \in 0..Patience /\ release[i].age \in 0..Patience
BY DEF TypeOK, Work

LEMMA StartKeepsTypes == ASSUME TypeOK, NEW i \in Instances, Start(i) PROVE TypeOK'
BY DEF TypeOK, Start, Up

LEMMA AcquireKeepsTypes == ASSUME TypeOK, NEW i \in Instances, Acquire(i) PROVE TypeOK'
<1> USE LeaseAssumption DEF TypeOK
<1>1. lock' = Free \/ lock' \in [holder : Instances, left : 1..Ttl]
  BY DEF Acquire, SetNX, Lease
<1>2. tick' \in [Instances -> Work({"acquire", "holder", "renew", "write"})]
  BY SMTT(30) DEF Acquire, TickGoto, Work
<1>3. missed' \in [Instances -> 0..most] BY DEF Acquire, Answered
<1>4. QED BY <1>1, <1>2, <1>3 DEF Acquire, Up

LEMMA AskHolderKeepsTypes == ASSUME TypeOK, NEW i \in Instances, AskHolder(i) PROVE TypeOK'
<1> USE LeaseAssumption DEF TypeOK
<1>1. CASE TickGoto(i, "renew") /\ UNCHANGED missed
  <2>1. tick' \in [Instances -> Work({"acquire", "holder", "renew", "write"})]
    BY <1>1, SMTT(30) DEF TickGoto, Work
  <2>2. QED BY <1>1, <2>1 DEF AskHolder, Up
<1>2. CASE TickEnds(i) /\ Answered(i)
  <2>1. Idle \in Work({"acquire", "holder", "renew", "write"})
    BY DEF Idle, Work
  <2>2. tick' \in [Instances -> Work({"acquire", "holder", "renew", "write"})]
    BY <1>2, <2>1 DEF TickEnds
  <2>3. missed' \in [Instances -> 0..most] BY <1>2 DEF Answered
  <2>4. QED BY <2>2, <2>3 DEF AskHolder, Up
<1>3. QED BY <1>1, <1>2 DEF AskHolder

LEMMA ProceedKeepsTypes == ASSUME TypeOK, NEW i \in Instances, Proceed(i) PROVE TypeOK'
<1> USE LeaseAssumption DEF TypeOK, Work, Up, TickGoto, TickEnds, Ticking, Idle, Free
<1>1. CASE Fire(i)         BY <1>1 DEF Fire
<1>2. CASE Acquire(i)      BY <1>2, AcquireKeepsTypes
<1>3. CASE AskHolder(i)    BY <1>3, AskHolderKeepsTypes
<1>4. CASE Renew(i)        BY <1>4 DEF Renew, Answered, Lease
<1>5. CASE TickDone(i)     BY <1>5 DEF TickDone
<1>6. CASE ReleaseGet(i)   BY <1>6 DEF ReleaseGet
<1>7. CASE ReleaseDel(i)   BY <1>7 DEF ReleaseDel
<1>8. QED BY <1>1, <1>2, <1>3, <1>4, <1>5, <1>6, <1>7 DEF Proceed

LEMMA FailureKeepsTypes ==
  ASSUME TypeOK, NEW i \in Instances, Stop(i) \/ RedisError(i) \/ ReleaseError(i) \/ Exit(i)
  PROVE  TypeOK'
<1> USE LeaseAssumption DEF TypeOK, Work, Up, TickGoto, TickEnds, Ticking, Idle, Free, ClearTimer
<1>1. CASE Stop(i)         BY <1>1 DEF Stop
<1>2. CASE RedisError(i)   BY <1>2 DEF RedisError, AsNoLeader, Commanded, SetNX, Lease
<1>3. CASE ReleaseError(i) BY <1>3 DEF ReleaseError
<1>4. CASE Exit(i)         BY <1>4 DEF Exit, Answered
<1>5. QED BY <1>1, <1>2, <1>3, <1>4

\* Work in time may grow one interval older.
LEMMA AgedWork ==
  ASSUME NEW S, NEW work \in [Instances -> Work(S)], \A i \in Instances : InTime(work[i])
  PROVE  Aged(work) \in [Instances -> Work(S)]
<1> USE LeaseAssumption
<1> SUFFICES ASSUME NEW i \in Instances
             PROVE  (IF work[i] = Idle THEN Idle ELSE [work[i] EXCEPT !.age = @ + 1]) \in Work(S)
  BY DEF Aged
<1>1. work[i] \in [stage : S \union {"idle"}, age : 0..Patience]
  BY DEF Work
<1>2. CASE work[i] = Idle BY <1>2 DEF Idle, Work
<1>3. CASE work[i] # Idle
  <2>1. work[i].age + 1 \in 0..Patience BY <1>1, <1>3 DEF InTime
  <2>2. [work[i] EXCEPT !.age = @ + 1] \in [stage : S \union {"idle"}, age : 0..Patience]
    BY <1>1, <2>1
  <2>3. QED BY <1>3, <2>2 DEF Work
<1>4. QED BY <1>2, <1>3

LEMMA ElapseKeepsTypes == ASSUME TypeOK, Elapse PROVE TypeOK'
<1> USE LeaseAssumption
<1>1. lock' = Free \/ lock' \in [holder : Instances, left : 1..Ttl]
  BY DEF TypeOK, Elapse, Older, Free
<1>2. tick' \in [Instances -> Work({"acquire", "holder", "renew", "write"})]
  BY AgedWork DEF TypeOK, Elapse
<1>3. release' \in [Instances -> Work({"holder", "del"})]
  BY AgedWork DEF TypeOK, Elapse
<1>4. QED BY <1>1, <1>2, <1>3 DEF TypeOK, Elapse, Up

LEMMA TypesKept == TypeOK /\ [Next]_vars => TypeOK'
<1> SUFFICES ASSUME TypeOK, [Next]_vars PROVE TypeOK'
  OBVIOUS
<1>1. CASE Elapse BY <1>1, ElapseKeepsTypes
<1>2. ASSUME NEW i \in Instances, Start(i) PROVE TypeOK' BY <1>2, StartKeepsTypes
<1>3. ASSUME NEW i \in Instances, Proceed(i) PROVE TypeOK' BY <1>3, ProceedKeepsTypes
<1>4. ASSUME NEW i \in Instances, Stop(i) \/ RedisError(i) \/ ReleaseError(i) \/ Exit(i)
      PROVE  TypeOK'
  BY <1>4, FailureKeepsTypes
<1>5. CASE UNCHANGED vars BY <1>5 DEF vars, TypeOK, Up
<1>6. QED BY <1>1, <1>2, <1>3, <1>4, <1>5 DEF Next

-----------------------------------------------------------------------------
\* What a step of one instance leaves alone.
Bystander(j) ==
  /\ status'[j] = status[j] /\ tick'[j] = tick[j] /\ release'[j] = release[j]
  /\ missed'[j] = missed[j]
  /\ j \in due' <=> j \in due

OnlyOf(i) == \A j \in Instances \ {i} : Bystander(j)

\* How a step of one instance may change the lock.
LockStep(i) ==
  \/ lock' = lock
  \/ lock' = Lease(i) /\ (lock = Free \/ Claimant(i) \/ ~Active(i))
  \/ lock' = Free /\ Claimant(i) /\ ~Active(i)'

\* What a step of one instance must see to for itself.
OwnStep(i) ==
  /\ status'[i] # "new"
  /\ release'[i] # Idle => status'[i] = "stopped"
  /\ Claimant(i)' => Claimant(i) \/ lock'.holder = i
  /\ Active(i)' => Active(i) \/ lock'.holder # i
  /\ Active(i)' /\ lock'.holder = i => lock'.left >= Need(i)'
  /\ Claimant(i)' /\ lock'.holder # i => lock'.left >= Ttl - Claimed(i)'

\* Those that do not take part in a step claim as before, and need no more.
LEMMA Bystanders ==
  ASSUME TypeOK, TypeOK', LeaseOutlasts, NEW i \in Instances, OnlyOf(i), NEW j \in Instances \ {i}
  PROVE  /\ Active(j)' <=> Active(j)
         /\ Claimant(j)' <=> Claimant(j)
         /\ Claimed(j)' = Claimed(j) /\ Claimed(j) \in Nat
         /\ Need(j)' <= Need(j)
<1> USE LeaseAssumption
<1>1. Bystander(j) BY DEF OnlyOf
<1>2. Active(j)' <=> Active(j) BY <1>1 DEF Active, Bystander
<1>3. Claimant(j)' <=> Claimant(j) BY <1>1, <1>2 DEF Claimant, Bystander, Ticking
<1>4. Claimed(j)' = Claimed(j) /\ Claimed(j) \in Nat
  BY <1>1, WorkTypes DEF Claimed, Bystander
<1>5. Spent(missed[j])' = Spent(missed[j])
  BY <1>1 DEF Bystander, Spent
<1>6. Spent(missed[j]) \in Nat BY SpentGrows DEF TypeOK, LeaseOutlasts
<1>7. Need(j)' <= Need(j)
  BY <1>1, <1>5, <1>6, WorkTypes DEF Need, Bystander, Ticking
<1>8. QED BY <1>2, <1>3, <1>4, <1>7

\* A holder is an instance, and the free lock is nobody's.
LEMMA LockTypes ==
  ASSUME TypeOK
  PROVE  /\ lock # Free => lock.holder \in Instances /\ lock.left \in 1..Ttl
         /\ lock = Free => lock.holder = None
         /\ \A i \in Instances : lock.holder = i => lock # Free
BY LeaseAssumption DEF TypeOK, Free

\* The argument that every step of an instance shares.
LEMMA InstanceStep ==
  ASSUME IInv, TypeOK', LeaseOutlasts, NEW i \in Instances, OnlyOf(i), LockStep(i), OwnStep(i)
  PROVE  IInv'
<1> USE LeaseAssumption
<1> DEFINE Others == Instances \ {i}
<1>0. TypeOK /\ i # None /\ Ttl \in Nat /\ ~(None \in Instances)
  BY DEF IInv
<1>1. \A j \in Others : /\ Active(j)' <=> Active(j)
                        /\ Claimant(j)' <=> Claimant(j)
                        /\ Claimed(j)' = Claimed(j) /\ Claimed(j) \in Nat
                        /\ Need(j)' <= Need(j)
  BY <1>0, Bystanders
<1>2. lock' = Lease(i) => lock'.holder = i /\ lock'.left = Ttl /\ lock' # Free
  BY DEF Lease, Free
<1>3. lock' = Free => lock'.holder = None
  BY DEF Free
<1>4. \A j \in Others : lock'.holder = j => lock' = lock
  BY <1>0, <1>2, <1>3 DEF LockStep
<1>5. NewIsIdle'
  <2> SUFFICES ASSUME NEW j \in Others, status'[j] = "new"
               PROVE  lock'.holder # j /\ tick'[j] = Idle /\ release'[j] = Idle
    BY DEF NewIsIdle, OwnStep
  <2>1. Bystander(j) BY DEF OnlyOf
  <2>2. lock.holder # j /\ tick[j] = Idle /\ release[j] = Idle
    BY <2>1 DEF Bystander, IInv, NewIsIdle
  <2>3. QED BY <1>4, <2>1, <2>2 DEF Bystander
<1>6. ReleasesWhenStopped'
  <2> SUFFICES ASSUME NEW j \in Others, release'[j] # Idle PROVE status'[j] = "stopped"
    BY DEF ReleasesWhenStopped, OwnStep
  <2>1. Bystander(j) BY DEF OnlyOf
  <2>2. QED BY <2>1 DEF Bystander, IInv, ReleasesWhenStopped
<1>7. \A j \in Others : Claimant(j) => ~Claimant(i)
  BY DEF IInv, OneClaimant
<1>8. \A j \in Others : Claimant(j) => lock # Free /\ (lock.holder = j \/ ~Active(lock.holder))
  BY DEF IInv, ClaimsAreHeld
<1>9. \A j \in Others : Claimant(j) => ~Claimant(i)'
  <2> SUFFICES ASSUME NEW j \in Others, Claimant(j), Claimant(i)' PROVE FALSE
    OBVIOUS
  <2>1. Active(i)' BY DEF Claimant
  <2>2. lock'.holder = i BY <1>7 DEF OwnStep
  <2>3. Active(i) BY <2>1, <2>2 DEF OwnStep
  <2>4. CASE lock' = lock BY <1>8, <2>2, <2>3, <2>4
  <2>5. CASE lock' = Lease(i) /\ (lock = Free \/ Claimant(i) \/ ~Active(i))
    BY <1>7, <1>8, <2>3, <2>5
  <2>6. CASE lock' = Free BY <1>0, <1>3, <2>2, <2>6
  <2>7. QED BY <2>4, <2>5, <2>6 DEF LockStep
<1>10. OneClaimant'
  <2> SUFFICES ASSUME NEW j \in Instances, NEW k \in Instances, Claimant(j)', Claimant(k)'
               PROVE  j = k
    BY DEF OneClaimant
  <2>1. CASE j \in Others /\ k \in Others BY <1>1, <2>1 DEF IInv, OneClaimant
  <2>2. CASE j = i BY <1>1, <1>9, <2>2
  <2>3. CASE k = i BY <1>1, <1>9, <2>3
  <2>4. QED BY <2>1, <2>2, <2>3
<1>11. ClaimsAreHeld'
  <2> SUFFICES ASSUME NEW j \in Instances, Claimant(j)'
               PROVE  lock' # Free /\ (lock'.holder = j \/ ~Active(lock.holder)')
    BY DEF ClaimsAreHeld
  <2>1. CASE lock'.holder = j BY <1>0, <1>3, <2>1
  <2>2. CASE j = i /\ lock'.holder # i
    <3>1. Claimant(i) /\ Active(i)' BY <2>2 DEF OwnStep, Claimant
    <3>2. lock' = lock BY <1>2, <2>2, <3>1 DEF LockStep
    <3>3. lock # Free /\ ~Active(lock.holder) /\ lock.holder \in Others
      BY <1>0, <2>2, <3>1, <3>2, LockTypes DEF IInv, ClaimsAreHeld
    <3>4. QED BY <1>1, <3>2, <3>3
  <2>3. CASE j \in Others /\ lock'.holder # j
    <3>1. Claimant(j) /\ ~Claimant(i) /\ lock # Free BY <1>1, <1>7, <1>8, <2>3
    <3>2. CASE lock' = lock
      <4>1. ~Active(lock.holder) /\ lock.holder \in Instances
        BY <1>0, <1>8, <2>3, <3>1, <3>2, LockTypes
      <4>2. CASE lock.holder = i BY <3>1, <3>2, <4>1, <4>2 DEF OwnStep
      <4>3. CASE lock.holder \in Others BY <1>1, <3>1, <3>2, <4>1, <4>3
      <4>4. QED BY <4>1, <4>2, <4>3
    <3>3. CASE lock' = Lease(i) /\ ~Active(i) BY <1>2, <3>3 DEF OwnStep
    <3>4. QED BY <3>1, <3>2, <3>3 DEF LockStep
  <2>4. QED BY <2>1, <2>2, <2>3
<1>12. HoldersLast'
  <2> SUFFICES ASSUME NEW j \in Others, Active(j)', lock'.holder = j PROVE lock'.left >= Need(j)'
    BY DEF HoldersLast, OwnStep
  <2>1. lock' = lock /\ Active(j) BY <1>1, <1>4
  <2>2. lock.left >= Need(j) BY <2>1 DEF IInv, HoldersLast
  <2>3. lock.left \in Nat BY <1>0, <2>1, LockTypes
  <2>4. Need(j) \in Int /\ Need(j)' \in Int
    <3>1. Spent(missed[j]) \in Nat /\ Spent(missed[j])' \in Nat
      BY <1>0, SpentGrows DEF TypeOK, LeaseOutlasts, OnlyOf, Bystander, Spent
    <3>2. Need(j) \in Int BY <1>0, <3>1, WorkTypes DEF Need, Ticking
    <3>3. Bystander(j) BY DEF OnlyOf
    <3>4. QED BY <1>0, <3>1, <3>2, <3>3, WorkTypes DEF Need, Ticking, Bystander
  <2>5. QED BY <1>1, <2>1, <2>2, <2>3, <2>4
<1>13. ClaimsLast'
  <2> SUFFICES ASSUME NEW j \in Others, Claimant(j)', lock'.holder # j
               PROVE  lock'.left >= Ttl - Claimed(j)'
    BY DEF ClaimsLast, OwnStep
  <2>1. Claimant(j) /\ ~Claimant(i) /\ lock # Free BY <1>1, <1>7, <1>8
  <2>2. CASE lock' = lock BY <1>1, <2>1, <2>2 DEF IInv, ClaimsLast
  <2>3. CASE lock' = Lease(i) BY <1>0, <1>1, <1>2, <2>3
  <2>4. QED BY <2>1, <2>2, <2>3 DEF LockStep
<1>14. QED BY <1>5, <1>6, <1>10, <1>11, <1>12, <1>13 DEF IInv

-----------------------------------------------------------------------------
\* What the invariant says of the instance that takes a step.
LEMMA OwnState ==
  ASSUME IInv, LeaseOutlasts, NEW i \in Instances
  PROVE  /\ TypeOK /\ i # None /\ Ttl \in Nat /\ Patience \in Nat
         /\ Spent(missed[i]) \in Nat /\ Spent(missed[i]) + 2 * (Patience + 1) <= Ttl
         /\ tick[i].stage \in {"idle", "acquire", "holder", "renew", "write"}
         /\ release[i].stage \in {"idle", "holder", "del"}
         /\ tick[i].age \in 0..Patience /\ release[i].age \in 0..Patience
         /\ lock.left \in 0..Ttl
         /\ release[i] # Idle => status[i] = "stopped"
         /\ Active(i) /\ lock.holder = i => lock.left >= Need(i)
         /\ Claimant(i) /\ lock.holder # i => lock.left >= Ttl - Claimed(i)
<1>1. TypeOK BY DEF IInv
<1>2. lock.left \in 0..Ttl BY <1>1, LeaseAssumption DEF TypeOK, Free
<1>3. most \in Nat /\ missed[i] \in 0..most BY <1>1, LeaseAssumption DEF TypeOK
<1>4. Spent(missed[i]) \in Nat /\ Spent(missed[i]) + 2 * (Patience + 1) <= Ttl
  BY <1>3, SpentGrows DEF LeaseOutlasts
<1>5. QED
  BY <1>1, <1>2, <1>4, LeaseAssumption, WorkTypes
     DEF IInv, ReleasesWhenStopped, HoldersLast, ClaimsLast

LEMMA StartKeeps == ASSUME IInv, LeaseOutlasts, NEW i \in Instances, Start(i) PROVE IInv'
<1>1. TypeOK' BY StartKeepsTypes DEF IInv
<1>2. OnlyOf(i) BY OwnState DEF OnlyOf, Bystander, Start, TypeOK
<1>3. LockStep(i) BY DEF LockStep, Start
<1>4. lock.holder # i /\ tick[i] = Idle /\ release[i] = Idle
  BY DEF IInv, NewIsIdle, Start
<1>5. OwnStep(i)
  BY <1>4, OwnState DEF OwnStep, Start, Claimant, Active, Ticking, Idle, TypeOK
<1>6. QED BY <1>1, <1>2, <1>3, <1>5, InstanceStep

LEMMA FireKeeps == ASSUME IInv, LeaseOutlasts, NEW i \in Instances, Fire(i) PROVE IInv'
<1>1. TypeOK' BY ProceedKeepsTypes DEF IInv, Proceed
<1>2. OnlyOf(i) BY OwnState DEF OnlyOf, Bystander, Fire, TypeOK, TickGoto
<1>3. LockStep(i) BY DEF LockStep, Fire
<1>4. status[i] = "up" /\ release[i] = Idle
  BY OwnState DEF Fire, TypeOK, Up
<1>5. OwnStep(i)
  <2>1. CASE tick[i] = Idle
    <3>1. tick'[i] = [stage |-> "acquire", age |-> 0]
      BY <2>1, OwnState DEF Fire, TickGoto, TypeOK, Idle
    <3>2. QED
      BY <1>4, <2>1, <3>1, OwnState DEF OwnStep, Fire, Claimant, Active, Ticking, Idle, Need, Claimed
  <2>2. CASE tick[i] # Idle
    <3>1. UNCHANGED <<status, lock, tick, release, missed>> BY <2>2 DEF Fire
    <3>2. Spent(missed[i])' = Spent(missed[i]) BY <3>1 DEF Spent
    <3>3. Need(i)' = Need(i) BY <1>4, <2>2, <3>1, <3>2, OwnState DEF Need, Fire, Ticking, Idle, TypeOK, Work
    <3>4. QED
      BY <1>4, <3>1, <3>2, <3>3, OwnState DEF OwnStep, Claimant, Active, Ticking, Claimed
  <2>3. QED BY <2>1, <2>2
<1>6. QED BY <1>1, <1>2, <1>3, <1>5, InstanceStep

LEMMA AcquireKeeps == ASSUME IInv, LeaseOutlasts, NEW i \in Instances, Acquire(i) PROVE IInv'
<1>1. TypeOK' BY ProceedKeepsTypes DEF IInv, Proceed
<1>2. OnlyOf(i) BY OwnState DEF OnlyOf, Bystander, Acquire, Answered, TypeOK, TickGoto
<1>3. LockStep(i) BY DEF LockStep, Acquire, SetNX
<1>4. OwnStep(i)
  <2>1. tick'[i] = [tick[i] EXCEPT !.stage = IF lock = Free THEN "write" ELSE "holder"]
    BY OwnState DEF Acquire, TickGoto, TypeOK
  <2>2. CASE lock = Free
    <3>1. lock'.holder = i /\ lock'.left = Ttl /\ tick'[i].stage = "write" /\ tick'[i].age = tick[i].age
      BY <2>1, <2>2, OwnState DEF Acquire, SetNX, Lease, TypeOK, Work
    <3>2. QED
      BY <3>1, OwnState DEF OwnStep, Acquire, Claimant, Active, Ticking, Need, NewIsIdle, IInv, Idle
  <2>3. CASE lock # Free
    <3>1. lock' = lock /\ tick'[i].stage = "holder" /\ tick'[i].age = tick[i].age
      BY <2>1, <2>3, OwnState DEF Acquire, SetNX, TypeOK, Work
    <3>2. Spent(missed[i])' = Spent(missed[i]) BY <2>3 DEF Acquire, Spent
    <3>3. QED
      BY <3>1, <3>2, OwnState
         DEF OwnStep, Acquire, Claimant, Claimed, Active, Ticking, Need, NewIsIdle, IInv, Idle
  <2>4. QED BY <2>2, <2>3
<1>5. QED BY <1>1, <1>2, <1>3, <1>4, InstanceStep

LEMMA AskHolderKeeps == ASSUME IInv, LeaseOutlasts, NEW i \in Instances, AskHolder(i) PROVE IInv'
<1>1. TypeOK' BY ProceedKeepsTypes DEF IInv, Proceed
<1>2. OnlyOf(i) BY OwnState DEF OnlyOf, Bystander, AskHolder, Answered, TypeOK, TickGoto, TickEnds
<1>3. LockStep(i) BY DEF LockStep, AskHolder
<1>4. OwnStep(i)
  <2>1. CASE lock.holder = i
    <3>1. tick'[i] = [tick[i] EXCEPT !.stage = "renew"]
      BY <2>1, OwnState DEF AskHolder, TickGoto, TypeOK
    <3>2. tick'[i].stage = "renew" /\ tick'[i].age = tick[i].age
      BY <3>1, OwnState DEF TypeOK, Work
    <3>3. QED
      BY <2>1, <3>2, OwnState
         DEF OwnStep, AskHolder, Claimant, Active, Ticking, Need, NewIsIdle, IInv, Idle
  <2>2. CASE lock.holder # i
    <3>1. tick'[i] = Idle BY <2>2, OwnState DEF AskHolder, TickEnds, TypeOK
    <3>2. QED
      BY <2>2, <3>1, OwnState
         DEF OwnStep, AskHolder, Claimant, Claimed, Active, Ticking, NewIsIdle, IInv, Idle
  <2>3. QED BY <2>1, <2>2
<1>5. QED BY <1>1, <1>2, <1>3, <1>4, InstanceStep

LEMMA RenewKeeps == ASSUME IInv, LeaseOutlasts, NEW i \in Instances, Renew(i) PROVE IInv'
<1>1. TypeOK' BY ProceedKeepsTypes DEF IInv, Proceed
<1>2. OnlyOf(i) BY OwnState DEF OnlyOf, Bystander, Renew, Answered, TypeOK, TickGoto
<1>3. LockStep(i) BY DEF LockStep, Renew, Claimant
<1>4. OwnStep(i)
  <2>1. tick'[i].stage = "write" /\ tick'[i].age = tick[i].age
    BY OwnState DEF Renew, TickGoto, TypeOK, Work
  <2>2. lock'.holder = i /\ lock'.left = Ttl BY DEF Renew, Lease
  <2>3. QED
    BY <2>1, <2>2, OwnState DEF OwnStep, Renew, Claimant, Active, Ticking, Need, NewIsIdle, IInv, Idle
<1>5. QED BY <1>1, <1>2, <1>3, <1>4, InstanceStep

LEMMA TickDoneKeeps == ASSUME IInv, LeaseOutlasts, NEW i \in Instances, TickDone(i) PROVE IInv'
<1>1. TypeOK' BY ProceedKeepsTypes DEF IInv, Proceed
<1>2. OnlyOf(i) BY OwnState DEF OnlyOf, Bystander, TickDone, TypeOK, TickEnds
<1>3. LockStep(i) BY DEF LockStep, TickDone
<1>4. OwnStep(i)
  <2>1. tick'[i] = Idle BY OwnState DEF TickDone, TickEnds, TypeOK
  <2>2. QED
    BY <2>1, OwnState
       DEF OwnStep, TickDone, Claimant, Claimed, Active, Ticking, Need, NewIsIdle, IInv, Idle
<1>5. QED BY <1>1, <1>2, <1>3, <1>4, InstanceStep

LEMMA ReleaseGetKeeps == ASSUME IInv, LeaseOutlasts, NEW i \in Instances, ReleaseGet(i) PROVE IInv'
<1>1. TypeOK' BY ProceedKeepsTypes DEF IInv, Proceed
<1>2. OnlyOf(i) BY OwnState DEF OnlyOf, Bystander, ReleaseGet, TypeOK
<1>3. LockStep(i) BY DEF LockStep, ReleaseGet
<1>4. OwnStep(i)
  <2>1. release[i] # Idle /\ status[i] = "stopped" BY OwnState DEF ReleaseGet, Idle
  <2>2. CASE lock.holder = i
    <3>1. release'[i] = [release[i] EXCEPT !.stage = "del"]
      BY <2>2, OwnState DEF ReleaseGet, TypeOK
    <3>2. release'[i].stage = "del" /\ release'[i].age = release[i].age
      BY <3>1, OwnState DEF TypeOK, Work
    <3>3. Spent(missed[i])' = Spent(missed[i]) BY DEF ReleaseGet, Spent
    <3>4. Need(i)' = Need(i)
      BY <2>1, <3>2, <3>3, OwnState DEF Need, ReleaseGet, Ticking, Idle
    <3>5. QED
      BY <2>1, <2>2, <3>2, <3>4, OwnState DEF OwnStep, ReleaseGet, Active, Idle
  <2>3. CASE lock.holder # i
    <3>1. release'[i] = Idle BY <2>3, OwnState DEF ReleaseGet, TypeOK
    <3>2. QED BY <2>1, <2>3, <3>1, OwnState DEF OwnStep, ReleaseGet, Claimant, Active
  <2>4. QED BY <2>2, <2>3
<1>5. QED BY <1>1, <1>2, <1>3, <1>4, InstanceStep

LEMMA ReleaseDelKeeps == ASSUME IInv, LeaseOutlasts, NEW i \in Instances, ReleaseDel(i) PROVE IInv'
<1>1. TypeOK' BY ProceedKeepsTypes DEF IInv, Proceed
<1>2. OnlyOf(i) BY OwnState DEF OnlyOf, Bystander, ReleaseDel, TypeOK
<1>3. release[i] # Idle /\ status[i] = "stopped" BY OwnState DEF ReleaseDel, Idle
<1>4. release'[i] = Idle /\ status'[i] = "stopped" BY <1>3, OwnState DEF ReleaseDel, TypeOK
<1>5. ~Active(i)' BY <1>4 DEF Active
<1>6. LockStep(i) BY <1>3, <1>5 DEF LockStep, ReleaseDel, Claimant, Active
<1>7. OwnStep(i) BY <1>4, <1>5 DEF OwnStep, Claimant
<1>8. QED BY <1>1, <1>2, <1>6, <1>7, InstanceStep

LEMMA StopKeeps == ASSUME IInv, LeaseOutlasts, NEW i \in Instances, Stop(i) PROVE IInv'
<1>1. TypeOK' BY FailureKeepsTypes DEF IInv
<1>2. OnlyOf(i) BY OwnState DEF OnlyOf, Bystander, Stop, ClearTimer, TypeOK
<1>3. LockStep(i) BY DEF LockStep, Stop
<1>4. OwnStep(i)
  <2>1. status[i] = "up" /\ release[i] = Idle BY OwnState DEF Stop
  <2>2. status'[i] = "stopped" /\ release'[i] = [stage |-> "holder", age |-> 0]
    BY OwnState DEF Stop, TypeOK
  <2>3. Spent(missed[i])' = Spent(missed[i]) BY DEF Stop, Spent
  <2>4. Active(i)' /\ lock'.holder = i => lock'.left >= Need(i)'
    BY <2>1, <2>2, <2>3, OwnState DEF Need, Stop, Active, Ticking, Idle
  <2>5. QED
    BY <2>1, <2>2, <2>4, OwnState DEF OwnStep, Stop, Claimant, Claimed, Active, Ticking, Idle
<1>5. QED BY <1>1, <1>2, <1>3, <1>4, InstanceStep

LEMMA RedisErrorKeeps ==
  ASSUME IInv, LeaseOutlasts, LeaseOutlasts', NEW i \in Instances, RedisError(i)
  PROVE  IInv'
<1>1. TypeOK' BY FailureKeepsTypes DEF IInv
<1>2. OnlyOf(i)
  BY OwnState DEF OnlyOf, Bystander, RedisError, AsNoLeader, TickEnds, TypeOK
<1>3. lock' = lock \/ lock' = Commanded(i) BY DEF RedisError
<1>4. LockStep(i) BY <1>3 DEF LockStep, Commanded, SetNX, Claimant, RedisError
<1>5. OwnStep(i)
  <2>1. tick'[i] = Idle /\ release'[i] = release[i] /\ status'[i] = status[i] /\ due' = due
    BY OwnState DEF RedisError, AsNoLeader, TickEnds, TypeOK
  <2>2. Spent(missed[i])' = Spent(missed[i]) + Patience + 1
        /\ Spent(missed[i])' + 2 * (Patience + 1) <= Ttl
    <3>1. /\ missed[i] \in 0..most /\ missed'[i] = missed[i] + 1
          /\ most' \in Nat /\ missed'[i] \in 0..most'
      BY <1>1, OwnState DEF RedisError, TypeOK
    <3>2. (most' + 2) * (Patience + 1) <= Ttl BY DEF LeaseOutlasts
    <3>3. Spent(missed'[i]) + 2 * (Patience + 1) <= Ttl BY <3>1, <3>2, SpentGrows
    <3>4. Spent(missed[i] + 1) = Spent(missed[i]) + Patience + 1
      BY <3>1, OwnState, SpentGrows DEF LeaseOutlasts, TypeOK
    <3>5. QED BY <3>1, <3>3, <3>4
  <2>3. status[i] # "new" BY DEF RedisError, IInv, NewIsIdle, Idle
  <2>4. Active(i)' <=> Active(i) BY <2>1 DEF Active
  <2>5. lock' = lock \/ (lock'.holder = i /\ lock'.left = Ttl)
    BY <1>3 DEF Commanded, SetNX, Lease
  <2>6. Active(i)' /\ lock'.holder = i => lock'.left >= Need(i)'
    BY <2>1, <2>2, <2>4, <2>5, OwnState DEF Need, RedisError, Ticking, Idle
  <2>7. Claimant(i)' => Claimant(i) /\ release'[i].stage = "del"
    BY <2>1, <2>4 DEF Claimant, Ticking, Idle
  <2>8. Claimant(i)' /\ lock'.holder # i => lock'.left >= Ttl - Claimed(i)'
    BY <2>1, <2>5, <2>7, OwnState DEF Claimed
  <2>9. QED BY <2>1, <2>3, <2>4, <2>6, <2>7, <2>8, OwnState DEF OwnStep
<1>6. QED BY <1>1, <1>2, <1>4, <1>5, InstanceStep

LEMMA ReleaseErrorKeeps == ASSUME IInv, LeaseOutlasts, NEW i \in Instances, ReleaseError(i) PROVE IInv'
<1>1. TypeOK' BY FailureKeepsTypes DEF IInv
<1>2. OnlyOf(i) BY OwnState DEF OnlyOf, Bystander, ReleaseError, TypeOK
<1>3. release'[i] = Idle /\ status'[i] = "stopped" BY OwnState DEF ReleaseError, TypeOK
<1>4. ~Active(i)' BY <1>3 DEF Active
<1>5. LockStep(i) BY <1>4 DEF LockStep, ReleaseError, Claimant, Active
<1>6. OwnStep(i) BY <1>3, <1>4 DEF OwnStep, Claimant
<1>7. QED BY <1>1, <1>2, <1>5, <1>6, InstanceStep

LEMMA ExitKeeps == ASSUME IInv, LeaseOutlasts, NEW i \in Instances, Exit(i) PROVE IInv'
<1>1. TypeOK' BY FailureKeepsTypes DEF IInv
<1>2. OnlyOf(i) BY OwnState DEF OnlyOf, Bystander, Exit, Answered, ClearTimer, TypeOK
<1>3. LockStep(i) BY DEF LockStep, Exit
<1>4. status'[i] = "gone" /\ release'[i] = Idle BY OwnState DEF Exit, TypeOK
<1>5. OwnStep(i) BY <1>4 DEF OwnStep, Claimant, Active
<1>6. QED BY <1>1, <1>2, <1>3, <1>5, InstanceStep

-----------------------------------------------------------------------------
\* Work keeps its stage when an interval passes.
LEMMA AgedKeepsStage ==
  ASSUME NEW S, NEW work \in [Instances -> Work(S)], NEW i \in Instances, InTime(work[i])
  PROVE  /\ Aged(work)[i].stage = work[i].stage
         /\ Aged(work)[i] = Idle <=> work[i] = Idle
         /\ work[i] # Idle => work[i].age < Patience /\ Aged(work)[i].age = work[i].age + 1
<1> USE LeaseAssumption
<1>1. work[i] \in [stage : S \union {"idle"}, age : 0..Patience]
  BY DEF Work
<1>2. Aged(work)[i] = IF work[i] = Idle THEN Idle ELSE [work[i] EXCEPT !.age = @ + 1]
  BY DEF Aged
<1>3. CASE work[i] = Idle BY <1>2, <1>3
<1>4. CASE work[i] # Idle
  <2>1. Aged(work)[i] = [work[i] EXCEPT !.age = @ + 1] BY <1>2, <1>4
  <2>2. Aged(work)[i].stage = work[i].stage /\ Aged(work)[i].age = work[i].age + 1
    BY <1>1, <2>1
  <2>3. work[i].age < Patience /\ Aged(work)[i].age # 0
    BY <1>1, <1>4, <2>2 DEF InTime
  <2>4. QED BY <1>4, <2>2, <2>3 DEF Idle
<1>5. QED BY <1>3, <1>4

\* An interval passes: work and lease age together, and no claim is old enough to
\* outlast the lease.
LEMMA ElapseKeeps == ASSUME IInv, LeaseOutlasts, Elapse PROVE IInv'
<1> USE LeaseAssumption
<1>1. TypeOK /\ TypeOK' BY ElapseKeepsTypes DEF IInv
<1>2. status' = status /\ missed' = missed /\ due = {} /\ due' = Up BY DEF Elapse
<1>3. ASSUME NEW i \in Instances
      PROVE  /\ tick'[i].stage = tick[i].stage /\ release'[i].stage = release[i].stage
             /\ tick'[i] = Idle <=> tick[i] = Idle
             /\ release'[i] = Idle <=> release[i] = Idle
             /\ tick[i] # Idle => tick[i].age < Patience /\ tick'[i].age = tick[i].age + 1
             /\ release[i] # Idle => release[i].age < Patience /\ release'[i].age = release[i].age + 1
  <2>1. InTime(tick[i]) /\ InTime(release[i]) /\ tick' = Aged(tick) /\ release' = Aged(release)
    BY DEF Elapse
  <2>2. tick \in [Instances -> Work({"acquire", "holder", "renew", "write"})]
        /\ release \in [Instances -> Work({"holder", "del"})]
    BY <1>1 DEF TypeOK
  <2>3. QED BY <2>1, <2>2, AgedKeepsStage
<1>4. ASSUME NEW i \in Instances
      PROVE  (Active(i)' <=> Active(i)) /\ (Claimant(i)' <=> Claimant(i))
  BY <1>2, <1>3 DEF Active, Claimant, Ticking
<1>5. \/ lock' = Free
      \/ /\ lock # Free /\ lock' # Free
         /\ lock'.holder = lock.holder /\ lock'.left = lock.left - 1
  <2>1. CASE lock.left <= 1 BY <2>1 DEF Elapse, Older
  <2>2. CASE ~(lock.left <= 1)
    <3>1. lock # Free /\ lock \in [holder : Instances, left : 1..Ttl] BY <1>1, <2>2 DEF TypeOK, Free
    <3>2. lock' = [lock EXCEPT !.left = @ - 1] BY <2>2 DEF Elapse, Older
    <3>3. lock'.holder = lock.holder /\ lock'.left = lock.left - 1 BY <3>1, <3>2
    <3>4. lock' # Free BY <3>1, <3>3 DEF Free
    <3>5. QED BY <3>1, <3>3, <3>4
  <2>3. QED BY <2>1, <2>2
<1>6. lock.left > 1 => lock' # Free
  <2> SUFFICES ASSUME lock.left > 1 PROVE lock' # Free OBVIOUS
  <2>1. lock \in [holder : Instances, left : 1..Ttl] BY <1>1 DEF TypeOK, Free
  <2>2. lock' = [lock EXCEPT !.left = @ - 1] BY <2>1 DEF Elapse, Older
  <2>3. QED BY <2>1, <2>2 DEF Free
<1>7. NewIsIdle'
  <2> SUFFICES ASSUME NEW i \in Instances, status'[i] = "new"
               PROVE  lock'.holder # i /\ tick'[i] = Idle /\ release'[i] = Idle
    BY DEF NewIsIdle
  <2>1. lock.holder # i /\ tick[i] = Idle /\ release[i] = Idle BY <1>2 DEF IInv, NewIsIdle
  <2>2. lock'.holder # i BY <1>5, <2>1 DEF Free
  <2>3. QED BY <1>3, <2>1, <2>2
<1>8. ReleasesWhenStopped' BY <1>2, <1>3 DEF IInv, ReleasesWhenStopped
<1>9. OneClaimant' BY <1>4 DEF IInv, OneClaimant
<1>10. ASSUME NEW i \in Instances, Claimant(i) PROVE lock.left > 1
  <2>1. CASE lock.holder = i
    <3>1. lock.left >= Need(i) BY <1>10, <2>1, OwnState DEF Claimant
    <3>2. QED
      BY <1>3, <1>10, <3>1, OwnState DEF Need, Claimant, Ticking, Idle
  <2>2. CASE lock.holder # i
    <3>1. lock.left >= Ttl - Claimed(i) BY <1>10, <2>2, OwnState
    <3>2. Claimed(i) < Patience BY <1>3, <1>10 DEF Claimed, Claimant, Ticking, Idle
    <3>3. QED BY <3>1, <3>2, <1>10, OwnState DEF Claimed
  <2>3. QED BY <2>1, <2>2
<1>11. ClaimsAreHeld'
  <2> SUFFICES ASSUME NEW i \in Instances, Claimant(i)'
               PROVE  lock' # Free /\ (lock'.holder = i \/ ~Active(lock.holder)')
    BY DEF ClaimsAreHeld
  <2>1. Claimant(i) BY <1>4
  <2>2. lock' # Free BY <1>6, <1>10, <2>1
  <2>3. lock.holder = i \/ ~Active(lock.holder) BY <2>1 DEF IInv, ClaimsAreHeld
  <2>4. lock'.holder = lock.holder /\ lock.holder \in Instances BY <1>1, <1>5, <2>2, LockTypes
  <2>5. QED BY <1>4, <2>2, <2>3, <2>4
<1>12. HoldersLast'
  <2> SUFFICES ASSUME NEW i \in Instances, Active(i)', lock'.holder = i PROVE lock'.left >= Need(i)'
    BY DEF HoldersLast
  <2>1. lock.holder = i /\ lock'.left = lock.left - 1 BY <1>5 DEF Free
  <2>2. Active(i) /\ lock.left >= Need(i) BY <1>4, <2>1 DEF IInv, HoldersLast
  <2>3. Spent(missed[i])' = Spent(missed[i]) BY <1>2 DEF Spent
  <2>4. release[i] = Idle => i \in Up BY <2>2 DEF Active, Up
  <2>5. Need(i)' = Need(i) - 1
    BY <1>2, <1>3, <2>3, <2>4, OwnState DEF Need, Ticking, Idle
  <2>6. Need(i) \in Int BY OwnState DEF Need, Ticking
  <2>7. QED BY <2>1, <2>2, <2>5, <2>6, OwnState
<1>13. ClaimsLast'
  <2> SUFFICES ASSUME NEW i \in Instances, Claimant(i)', lock'.holder # i
               PROVE  lock'.left >= Ttl - Claimed(i)'
    BY DEF ClaimsLast
  <2>1. Claimant(i) BY <1>4
  <2>2. lock'.holder = lock.holder /\ lock'.left = lock.left - 1 BY <1>5, <1>6, <1>10, <2>1
  <2>3. lock.left >= Ttl - Claimed(i) BY <2>1, <2>2, OwnState
  <2>4. Claimed(i)' = Claimed(i) + 1 /\ Claimed(i) \in Nat
    BY <1>3, <2>1, OwnState DEF Claimed, Claimant, Ticking, Idle
  <2>5. QED BY <2>2, <2>3, <2>4, OwnState
<1>14. QED BY <1>1, <1>7, <1>8, <1>9, <1>11, <1>12, <1>13 DEF IInv

-----------------------------------------------------------------------------
\* oddsEngine.ts: the invariant of the lease, for as long as it outlasts the ticks.
LEMMA LeaseInvariance == Spec => [](TypeOK /\ (LeaseOutlasts => IInv))
<1> USE LeaseAssumption
<1>1. Init => IInv
  <2> SUFFICES ASSUME Init PROVE IInv OBVIOUS
  <2>1. TypeOK BY DEF Init, TypeOK, Free, Idle, Work, Up
  <2>2. \A i \in Instances : ~Active(i) /\ status[i] = "new" /\ tick[i] = Idle /\ release[i] = Idle
    BY DEF Init, Active
  <2>3. \A i \in Instances : lock.holder # i BY DEF Init, Free
  <2>4. QED
    BY <2>1, <2>2, <2>3
       DEF IInv, NewIsIdle, ReleasesWhenStopped, OneClaimant, ClaimsAreHeld, HoldersLast, ClaimsLast, Claimant
<1>2. TypeOK /\ (LeaseOutlasts => IInv) /\ [Next]_vars => TypeOK' /\ (LeaseOutlasts => IInv)'
  <2> SUFFICES ASSUME TypeOK, LeaseOutlasts => IInv, [Next]_vars, LeaseOutlasts' PROVE IInv'
    BY TypesKept
  <2>0. LeaseOutlasts /\ IInv BY MostGrows
  <2>1. CASE Elapse BY <2>0, <2>1, ElapseKeeps
  <2>2. ASSUME NEW i \in Instances, Start(i) PROVE IInv' BY <2>0, <2>2, StartKeeps
  <2>3. ASSUME NEW i \in Instances, Proceed(i) PROVE IInv'
    BY <2>0, <2>3, FireKeeps, AcquireKeeps, AskHolderKeeps, RenewKeeps, TickDoneKeeps, ReleaseGetKeeps,
       ReleaseDelKeeps DEF Proceed
  <2>4. ASSUME NEW i \in Instances, Stop(i) PROVE IInv' BY <2>0, <2>4, StopKeeps
  <2>5. ASSUME NEW i \in Instances, RedisError(i) PROVE IInv' BY <2>0, <2>5, RedisErrorKeeps
  <2>6. ASSUME NEW i \in Instances, ReleaseError(i) PROVE IInv' BY <2>0, <2>6, ReleaseErrorKeeps
  <2>7. ASSUME NEW i \in Instances, Exit(i) PROVE IInv' BY <2>0, <2>7, ExitKeeps
  <2>8. CASE UNCHANGED vars
    <3>1. status' = status /\ due' = due /\ lock' = lock /\ tick' = tick /\ release' = release
          /\ missed' = missed
      BY <2>8 DEF vars
    <3>2. TypeOK' BY TypesKept
    <3>3. ASSUME NEW i \in Instances
          PROVE  /\ Active(i)' = Active(i) /\ Claimant(i)' = Claimant(i)
                 /\ Claimed(i)' = Claimed(i) /\ Need(i)' = Need(i)
      BY <3>1 DEF Active, Claimant, Claimed, Need, Ticking, Spent
    <3>4. NewIsIdle' /\ ReleasesWhenStopped' BY <2>0, <3>1 DEF IInv, NewIsIdle, ReleasesWhenStopped
    <3>5. OneClaimant' BY <2>0, <3>3 DEF IInv, OneClaimant
    <3>6. ClaimsAreHeld' BY <2>0, <3>1, <3>3 DEF IInv, ClaimsAreHeld, Active
    <3>7. HoldersLast' /\ ClaimsLast' BY <2>0, <3>1, <3>3 DEF IInv, HoldersLast, ClaimsLast
    <3>8. QED BY <3>2, <3>4, <3>5, <3>6, <3>7 DEF IInv
  <2>9. QED BY <2>1, <2>2, <2>3, <2>4, <2>5, <2>6, <2>7, <2>8 DEF Next
<1>3. Init => TypeOK /\ (LeaseOutlasts => IInv) BY <1>1 DEF IInv
<1>4. QED BY <1>2, <1>3, PTL DEF Spec

\* oddsEngine.ts, isLeader: two instances whose timers run never write odds at the
\* same time as long as the lease outlasts the ticks, whatever its length: with the
\* five intervals of the code, until a slow tick meets a command without answer.
THEOREM OneWriter == Spec => []OneWriterInTime
<1>1. (LeaseOutlasts => IInv) => OneWriterInTime
  BY DEF IInv, OneClaimant, OneWriterInTime, SingleWriter, Claimant, Active, Up
<1>2. QED BY <1>1, LeaseInvariance, PTL

\* Each component runs by itself: Platform implements OddsLease, so that what is
\* proved of the lease is so in Platform, with or without its fairness.
THEOREM PlatformRunsLeases == PlatformSpec => Spec
<1>1. PlatformInit => Init BY DEF PlatformInit
<1>2. [PlatformNext]_everything => [Next]_vars BY DEF PlatformNext, everything, leaseVars
<1>3. QED BY <1>1, <1>2, PTL DEF PlatformSpec, Spec

-----------------------------------------------------------------------------
\* Tenants: the cache.
\* How old what is cached, read or answered may be.
CacheIsRecent ==
  \A s \in Slugs : cache[s].left > 0 => since[s][cache[s].op] <= LookupPatience + CacheTtl - cache[s].left
ReadsAreRecent ==
  \A r \in Requests : lookup[r].stage = "read" => since[lookup[r].slug][lookup[r].op] <= lookup[r].age
CurrentHolds == \A s \in Slugs : since[s][operators[s]] = 0

TenantsInv == Ten!TypeOK /\ CacheIsRecent /\ ReadsAreRecent /\ CurrentHolds /\ Ten!AnswersAreRecent

-----------------------------------------------------------------------------
LEMMA MaxAgeIsNat == ASSUME Ten!TenantsAssumption PROVE Ten!MaxAge \in Nat /\ LookupPatience <= Ten!MaxAge
BY DEF Ten!TenantsAssumption, Ten!MaxAge

\* lookupBySlug, by one request.
LEMMA LookupKeeps ==
  ASSUME Ten!TenantsAssumption, TenantsInv, NEW r \in Requests,
         Ten!Read(r) \/ Ten!Store(r) \/ Ten!LookupFails(r) \/ \E s \in Slugs : Ten!Hit(r, s) \/ Ten!Miss(r, s)
  PROVE  TenantsInv'
<1> USE MaxAgeIsNat DEF Ten!TenantsAssumption
<1>1. Ten!TypeOK /\ CacheIsRecent /\ ReadsAreRecent /\ CurrentHolds /\ Ten!AnswersAreRecent BY DEF TenantsInv
<1>2. CASE Ten!Read(r)
  <2>1. lookup[r].slug \in Slugs /\ operators[lookup[r].slug] \in Ten!Status BY <1>1, <1>2 DEF Ten!TypeOK, Ten!Read
  <2>2. lookup' = [lookup EXCEPT ![r] = [lookup[r] EXCEPT !.stage = "read", !.op = operators[lookup[r].slug]]]
    BY <1>2 DEF Ten!Read
  <2>3. UNCHANGED <<operators, cache, creating, answer, since>> BY <1>2 DEF Ten!Read
  <2>4. Ten!TypeOK'
    <3>1. lookup[r] \in Ten!Lookups /\ lookup \in [Requests -> Ten!Lookups] BY <1>1 DEF Ten!TypeOK
    <3>2. [lookup[r] EXCEPT !.stage = "read", !.op = operators[lookup[r].slug]] \in Ten!Lookups
      BY <2>1, <3>1 DEF Ten!Lookups
    <3>3. lookup' \in [Requests -> Ten!Lookups] BY <2>2, <3>1, <3>2
    <3>4. \A q \in Requests : lookup'[q].slug = lookup[q].slug /\ (q # r => lookup'[q] = lookup[q])
      BY <2>2, <3>1 DEF Ten!Lookups
    <3>5. \A q \in Requests : lookup'[q].stage # "idle" => lookup'[q].slug \in Slugs
      BY <1>1, <2>1, <3>4 DEF Ten!TypeOK
    <3>6. QED BY <1>1, <2>3, <3>3, <3>5 DEF Ten!TypeOK
  <2>5. ReadsAreRecent' BY <1>1, <2>1, <2>2, <2>3 DEF Ten!TypeOK, Ten!Lookups, ReadsAreRecent, CurrentHolds
  <2>6. QED BY <1>1, <2>3, <2>4, <2>5 DEF TenantsInv, CacheIsRecent, CurrentHolds, Ten!AnswersAreRecent
<1>3. CASE Ten!Store(r)
  <2>1. lookup[r].slug \in Slugs /\ lookup[r].op \in Ten!Status /\ lookup[r].age \in 0..LookupPatience
        /\ since[lookup[r].slug][lookup[r].op] \in Nat
    BY <1>1, <1>3 DEF Ten!TypeOK, Ten!Lookups, Ten!Store
  <2>2. since[lookup[r].slug][lookup[r].op] <= LookupPatience BY <1>1, <1>3, <2>1 DEF ReadsAreRecent, Ten!Store
  <2>3. /\ cache' = [cache EXCEPT ![lookup[r].slug] = [op |-> lookup[r].op, left |-> CacheTtl]]
        /\ answer' = [slug |-> lookup[r].slug, op |-> lookup[r].op]
        /\ lookup' = [lookup EXCEPT ![r] = Ten!NoLookup]
        /\ UNCHANGED <<operators, creating, since>>
    BY <1>3 DEF Ten!Store, Ten!Answer
  <2>4. Ten!TypeOK' BY <1>1, <2>1, <2>3 DEF Ten!TypeOK, Ten!Lookups, Ten!NoLookup, Ten!Status
  <2>5. CacheIsRecent' BY <1>1, <2>1, <2>2, <2>3 DEF Ten!TypeOK, CacheIsRecent
  <2>6. ReadsAreRecent' BY <1>1, <2>3 DEF Ten!TypeOK, ReadsAreRecent, Ten!NoLookup
  <2>7. Ten!AnswersAreRecent' BY <2>1, <2>2, <2>3 DEF Ten!AnswersAreRecent
  <2>8. QED BY <1>1, <2>3, <2>4, <2>5, <2>6, <2>7 DEF TenantsInv, CurrentHolds
<1>4. CASE Ten!LookupFails(r)
  <2>1. lookup' = [lookup EXCEPT ![r] = Ten!NoLookup] /\ UNCHANGED <<operators, cache, creating, answer, since>>
    BY <1>4 DEF Ten!LookupFails
  <2>2. Ten!TypeOK' BY <1>1, <2>1 DEF Ten!TypeOK, Ten!Lookups, Ten!NoLookup, Ten!Status
  <2>3. ReadsAreRecent' BY <1>1, <2>1 DEF Ten!TypeOK, ReadsAreRecent, Ten!NoLookup
  <2>4. QED BY <1>1, <2>1, <2>2, <2>3 DEF TenantsInv, CacheIsRecent, CurrentHolds, Ten!AnswersAreRecent
<1>5. ASSUME NEW s \in Slugs, Ten!Hit(r, s) PROVE TenantsInv'
  <2>1. cache[s].op \in Ten!Status /\ cache[s].left \in 1..CacheTtl /\ since[s][cache[s].op] \in Nat
    BY <1>1, <1>5 DEF Ten!TypeOK, Ten!Hit, Ten!Fresh
  <2>2. answer' = [slug |-> s, op |-> cache[s].op] /\ UNCHANGED <<operators, cache, lookup, creating, since>>
    BY <1>5 DEF Ten!Hit, Ten!Answer
  <2>3. since[s][cache[s].op] <= Ten!MaxAge BY <1>1, <2>1 DEF CacheIsRecent, Ten!MaxAge
  <2>4. Ten!TypeOK' BY <1>1, <2>1, <2>2 DEF Ten!TypeOK
  <2>5. Ten!AnswersAreRecent' BY <2>2, <2>3 DEF Ten!AnswersAreRecent
  <2>6. QED BY <1>1, <2>2, <2>4, <2>5 DEF TenantsInv, CacheIsRecent, ReadsAreRecent, CurrentHolds
<1>6. ASSUME NEW s \in Slugs, Ten!Miss(r, s) PROVE TenantsInv'
  <2>1. /\ lookup' = [lookup EXCEPT ![r] = [stage |-> "asked", slug |-> s, op |-> "none", age |-> 0]]
        /\ UNCHANGED <<operators, cache, creating, answer, since>>
    BY <1>6 DEF Ten!Miss
  <2>2. Ten!TypeOK' BY <1>1, <2>1 DEF Ten!TypeOK, Ten!Lookups, Ten!Status
  <2>3. ReadsAreRecent' BY <1>1, <2>1 DEF Ten!TypeOK, ReadsAreRecent
  <2>4. QED BY <1>1, <2>1, <2>2, <2>3 DEF TenantsInv, CacheIsRecent, CurrentHolds, Ten!AnswersAreRecent
<1>7. QED BY <1>2, <1>3, <1>4, <1>5, <1>6

\* createOperator and setOperatorStatus: a status begins.
LEMMA BecomesKeeps ==
  ASSUME Ten!TenantsAssumption, TenantsInv, NEW s \in Slugs, NEW new \in Ten!Status, Ten!Becomes(s, new),
         creating' \in [Admins -> Slugs \union {None}], UNCHANGED <<cache, lookup, answer>>
  PROVE  TenantsInv'
<1> USE MaxAgeIsNat DEF Ten!TenantsAssumption
<1>1. Ten!TypeOK /\ CacheIsRecent /\ ReadsAreRecent /\ CurrentHolds /\ Ten!AnswersAreRecent BY DEF TenantsInv
<1>2. /\ operators' = [operators EXCEPT ![s] = new]
      /\ since' = [since EXCEPT ![s] = [since[s] EXCEPT ![new] = 0]]
  BY DEF Ten!Becomes
<1>3. \A q \in Slugs, v \in Ten!Status :
        since'[q][v] = IF q = s /\ v = new THEN 0 ELSE since[q][v]
  BY <1>1, <1>2 DEF Ten!TypeOK
<1>4. \A q \in Slugs, v \in Ten!Status : since[q][v] \in 0..(Ten!MaxAge + 1) /\ since'[q][v] <= since[q][v]
  BY <1>1, <1>3 DEF Ten!TypeOK
<1>5. Ten!TypeOK'
  <2>1. since' \in [Slugs -> [Ten!Status -> 0..(Ten!MaxAge + 1)]] BY <1>1, <1>2 DEF Ten!TypeOK
  <2>2. QED BY <1>1, <1>2, <2>1 DEF Ten!TypeOK
<1>6. CacheIsRecent'
  <2> SUFFICES ASSUME NEW q \in Slugs, cache[q].left > 0
               PROVE  since'[q][cache[q].op] <= LookupPatience + CacheTtl - cache[q].left
    BY DEF CacheIsRecent
  <2>1. cache[q].op \in Ten!Status /\ cache[q].left \in 0..CacheTtl BY <1>1 DEF Ten!TypeOK
  <2>2. since'[q][cache[q].op] \in Nat /\ since'[q][cache[q].op] <= since[q][cache[q].op]
    BY <1>3, <1>4, <2>1
  <2>3. QED BY <1>1, <1>4, <2>1, <2>2 DEF CacheIsRecent
<1>7. ReadsAreRecent'
  <2> SUFFICES ASSUME NEW r \in Requests, lookup[r].stage = "read"
               PROVE  since'[lookup[r].slug][lookup[r].op] <= lookup[r].age
    BY DEF ReadsAreRecent
  <2>1. lookup[r].slug \in Slugs /\ lookup[r].op \in Ten!Status /\ lookup[r].age \in Nat
    BY <1>1 DEF Ten!TypeOK, Ten!Lookups
  <2>2. QED BY <1>1, <1>3, <1>4, <2>1 DEF ReadsAreRecent
<1>8. CurrentHolds' BY <1>1, <1>2, <1>3 DEF Ten!TypeOK, CurrentHolds
<1>9. Ten!AnswersAreRecent'
  <2> SUFFICES ASSUME answer # None PROVE since'[answer.slug][answer.op] <= Ten!MaxAge
    BY DEF Ten!AnswersAreRecent
  <2>1. answer.slug \in Slugs /\ answer.op \in Ten!Status BY <1>1 DEF Ten!TypeOK
  <2>2. QED BY <1>1, <1>3, <1>4, <2>1 DEF Ten!AnswersAreRecent
<1>10. QED BY <1>5, <1>6, <1>7, <1>8, <1>9 DEF TenantsInv

\* The operators change.
LEMMA OperatorsKeep ==
  ASSUME Ten!TenantsAssumption, TenantsInv,
         \/ \E a \in Admins : Ten!InsertOperator(a) \/ \E s \in Slugs : Ten!CreateOperator(a, s)
         \/ \E s \in Slugs, new \in {"active", "suspended"} : Ten!SetOperatorStatus(s, new)
  PROVE  TenantsInv'
<1>1. Ten!TypeOK /\ CacheIsRecent /\ ReadsAreRecent /\ CurrentHolds /\ Ten!AnswersAreRecent BY DEF TenantsInv
<1>2. ASSUME NEW a \in Admins, Ten!InsertOperator(a) PROVE TenantsInv'
  <2>1. creating[a] \in Slugs /\ creating' \in [Admins -> Slugs \union {None}]
        /\ UNCHANGED <<cache, lookup, answer>>
    BY <1>1, <1>2 DEF Ten!TypeOK, Ten!InsertOperator
  <2>2. CASE operators[creating[a]] = "none"
    BY <1>2, <2>1, <2>2, BecomesKeeps DEF Ten!InsertOperator, Ten!Status
  <2>3. CASE operators[creating[a]] # "none"
    <3>1. UNCHANGED <<operators, since>> BY <1>2, <2>3 DEF Ten!InsertOperator
    <3>2. QED
      BY <1>1, <2>1, <3>1 DEF TenantsInv, Ten!TypeOK, CacheIsRecent, ReadsAreRecent, CurrentHolds, Ten!AnswersAreRecent
  <2>4. QED BY <2>2, <2>3
<1>3. ASSUME NEW a \in Admins, NEW s \in Slugs, Ten!CreateOperator(a, s) PROVE TenantsInv'
  <2>1. creating' \in [Admins -> Slugs \union {None}] /\ UNCHANGED <<operators, cache, lookup, answer, since>>
    BY <1>1, <1>3 DEF Ten!TypeOK, Ten!CreateOperator
  <2>2. QED BY <1>1, <2>1 DEF TenantsInv, Ten!TypeOK, CacheIsRecent, ReadsAreRecent, CurrentHolds, Ten!AnswersAreRecent
<1>4. ASSUME NEW s \in Slugs, NEW new \in {"active", "suspended"}, Ten!SetOperatorStatus(s, new) PROVE TenantsInv'
  <2>1. creating' \in [Admins -> Slugs \union {None}] BY <1>1, <1>4 DEF Ten!TypeOK, Ten!SetOperatorStatus
  <2>2. QED BY <1>4, <2>1, BecomesKeeps DEF Ten!SetOperatorStatus, Ten!Status
<1>5. QED BY <1>2, <1>3, <1>4

\* Everything is an interval older, and every limit has one more.
LEMMA TenantsAge == ASSUME Ten!TenantsAssumption, TenantsInv, Ten!Elapse PROVE TenantsInv'
<1> USE MaxAgeIsNat DEF Ten!TenantsAssumption
<1>1. Ten!TypeOK /\ CacheIsRecent /\ ReadsAreRecent /\ CurrentHolds BY DEF TenantsInv
<1>2. answer' = None /\ UNCHANGED <<operators, creating>> BY DEF Ten!Elapse
<1>3. \A s \in Slugs : /\ cache'[s].op = cache[s].op /\ cache[s].left \in 0..CacheTtl
                       /\ cache'[s].left = IF cache[s].left = 0 THEN 0 ELSE cache[s].left - 1
  BY <1>1 DEF Ten!TypeOK, Ten!Elapse
<1>4. \A s \in Slugs, v \in Ten!Status :
        /\ since[s][v] \in 0..(Ten!MaxAge + 1) /\ since'[s][v] \in 0..(Ten!MaxAge + 1)
        /\ since'[s][v] <= since[s][v] + 1
        /\ v = operators[s] => since'[s][v] = 0
  BY <1>1 DEF Ten!TypeOK, Ten!Elapse, Ten!AtMost
<1>5. since' \in [Slugs -> [Ten!Status -> 0..(Ten!MaxAge + 1)]] BY <1>1 DEF Ten!TypeOK, Ten!Elapse, Ten!AtMost
<1>6. cache' \in [Slugs -> [op : Ten!Status, left : 0..CacheTtl]]
  <2>1. \A s \in Slugs : [cache[s] EXCEPT !.left = IF cache[s].left = 0 THEN 0 ELSE cache[s].left - 1]
                            \in [op : Ten!Status, left : 0..CacheTtl]
    <3> SUFFICES ASSUME NEW s \in Slugs
                 PROVE  [cache[s] EXCEPT !.left = IF cache[s].left = 0 THEN 0 ELSE cache[s].left - 1]
                          \in [op : Ten!Status, left : 0..CacheTtl]
      OBVIOUS
    <3>1. cache[s] \in [op : Ten!Status, left : 0..CacheTtl] BY <1>1 DEF Ten!TypeOK
    <3>2. (IF cache[s].left = 0 THEN 0 ELSE cache[s].left - 1) \in 0..CacheTtl BY <3>1
    <3>3. QED BY <3>1, <3>2
  <2>2. cache' = [s \in Slugs |-> [cache[s] EXCEPT !.left = IF cache[s].left = 0 THEN 0 ELSE cache[s].left - 1]]
    BY DEF Ten!Elapse
  <2>3. QED BY <2>1, <2>2
<1>7. \A r \in Requests : /\ lookup[r].stage = "idle" => lookup'[r] = lookup[r]
                          /\ lookup[r].stage # "idle" =>
                               /\ lookup[r].age < LookupPatience
                               /\ lookup'[r] = [lookup[r] EXCEPT !.age = lookup[r].age + 1]
  BY DEF Ten!Elapse
<1>8. lookup' \in [Requests -> Ten!Lookups]
  <2>1. \A r \in Requests : lookup'[r] \in Ten!Lookups
    <3> SUFFICES ASSUME NEW r \in Requests PROVE lookup'[r] \in Ten!Lookups OBVIOUS
    <3>1. lookup[r] \in Ten!Lookups BY <1>1 DEF Ten!TypeOK
    <3>2. CASE lookup[r].stage = "idle" BY <1>7, <3>1, <3>2
    <3>3. CASE lookup[r].stage # "idle"
      <4>a. lookup[r].age < LookupPatience BY <1>7, <3>3
      <4>b. lookup[r].age \in 0..LookupPatience BY <3>1 DEF Ten!Lookups
      <4>1. lookup[r].age + 1 \in 0..LookupPatience BY <4>a, <4>b
      <4>2. [lookup[r] EXCEPT !.age = lookup[r].age + 1] \in Ten!Lookups BY <3>1, <4>1 DEF Ten!Lookups
      <4>3. QED BY <1>7, <3>3, <4>2
    <3>4. QED BY <3>2, <3>3
  <2>2. lookup' = [r \in Requests |-> lookup'[r]] BY DEF Ten!Elapse
  <2>3. QED BY <2>1, <2>2
<1>9. \A r \in Requests : /\ lookup'[r].stage = lookup[r].stage /\ lookup'[r].slug = lookup[r].slug
                          /\ lookup'[r].op = lookup[r].op
                          /\ lookup[r].stage = "read" => lookup'[r].age = lookup[r].age + 1
  <2> SUFFICES ASSUME NEW r \in Requests
               PROVE  /\ lookup'[r].stage = lookup[r].stage /\ lookup'[r].slug = lookup[r].slug
                      /\ lookup'[r].op = lookup[r].op
                      /\ lookup[r].stage = "read" => lookup'[r].age = lookup[r].age + 1
    OBVIOUS
  <2>1. lookup[r] \in Ten!Lookups BY <1>1 DEF Ten!TypeOK
  <2>2. CASE lookup[r].stage = "idle" BY <1>7, <2>2
  <2>3. CASE lookup[r].stage # "idle"
    <3>1. lookup'[r] = [lookup[r] EXCEPT !.age = lookup[r].age + 1] BY <1>7, <2>3
    <3>2. QED BY <2>1, <3>1 DEF Ten!Lookups
  <2>4. QED BY <2>2, <2>3
<1>10. Ten!TypeOK'
  <2>1. \A r \in Requests : lookup'[r].stage # "idle" => lookup'[r].slug \in Slugs BY <1>1, <1>9 DEF Ten!TypeOK
  <2>2. answer' = None \/ answer' \in [slug : Slugs, op : Ten!Status] BY <1>2
  <2>3. operators' \in [Slugs -> Ten!Status] /\ creating' \in [Admins -> Slugs \union {None}]
    BY <1>1, <1>2 DEF Ten!TypeOK
  <2>4. QED BY <1>5, <1>6, <1>8, <2>1, <2>2, <2>3 DEF Ten!TypeOK
<1>11. CacheIsRecent'
  <2> SUFFICES ASSUME NEW s \in Slugs, cache'[s].left > 0
               PROVE  since'[s][cache'[s].op] <= LookupPatience + CacheTtl - cache'[s].left
    BY DEF CacheIsRecent
  <2>1. cache[s].op \in Ten!Status BY <1>1 DEF Ten!TypeOK
  <2>2. cache[s].left > 0 /\ cache'[s].left = cache[s].left - 1 BY <1>3
  <2>3. since[s][cache[s].op] <= LookupPatience + CacheTtl - cache[s].left BY <1>1, <2>2 DEF CacheIsRecent
  <2>4. since'[s][cache[s].op] <= since[s][cache[s].op] + 1
        /\ since'[s][cache[s].op] \in Nat /\ since[s][cache[s].op] \in Nat
    BY <1>4, <2>1
  <2>5. QED BY <1>3, <2>2, <2>3, <2>4
<1>12. ReadsAreRecent'
  <2> SUFFICES ASSUME NEW r \in Requests, lookup'[r].stage = "read"
               PROVE  since'[lookup'[r].slug][lookup'[r].op] <= lookup'[r].age
    BY DEF ReadsAreRecent
  <2>1. lookup[r].stage = "read" /\ lookup[r].slug \in Slugs /\ lookup[r].op \in Ten!Status
        /\ lookup[r].age \in Nat /\ lookup'[r].age = lookup[r].age + 1
    <3>1. lookup[r] \in Ten!Lookups /\ (lookup[r].stage # "idle" => lookup[r].slug \in Slugs) BY <1>1 DEF Ten!TypeOK
    <3>2. lookup[r].stage = "read" /\ lookup'[r].age = lookup[r].age + 1 BY <1>9
    <3>3. QED BY <3>1, <3>2 DEF Ten!Lookups
  <2>2. since[lookup[r].slug][lookup[r].op] <= lookup[r].age BY <1>1, <2>1 DEF ReadsAreRecent
  <2>3. /\ since[lookup[r].slug][lookup[r].op] \in Nat
        /\ since'[lookup[r].slug][lookup[r].op] \in Nat
        /\ since'[lookup[r].slug][lookup[r].op] <= since[lookup[r].slug][lookup[r].op] + 1
    BY <1>4, <2>1
  <2>4. lookup'[r].slug = lookup[r].slug /\ lookup'[r].op = lookup[r].op BY <1>9
  <2>5. QED BY <2>1, <2>2, <2>3, <2>4
<1>13. CurrentHolds' BY <1>1, <1>2, <1>4 DEF Ten!TypeOK, CurrentHolds
<1>14. Ten!AnswersAreRecent' BY <1>2 DEF Ten!AnswersAreRecent
<1>15. QED BY <1>10, <1>11, <1>12, <1>13, <1>14 DEF TenantsInv


LEMMA TenantsStart == ASSUME Ten!TenantsAssumption, Ten!Init PROVE TenantsInv
<1> USE MaxAgeIsNat DEF Ten!TenantsAssumption
<1>1. since \in [Slugs -> [Ten!Status -> 0..(Ten!MaxAge + 1)]] /\ \A s \in Slugs : since[s][operators[s]] = 0
  BY DEF Ten!Init, Ten!Status
<1>2. Ten!TypeOK
  BY <1>1 DEF Ten!Init, Ten!TypeOK, Ten!Status, Ten!NotCached, Ten!NoLookup, Ten!Lookups
<1>3. QED
  BY <1>1, <1>2 DEF Ten!Init, TenantsInv, CacheIsRecent, ReadsAreRecent, CurrentHolds,
                    Ten!AnswersAreRecent, Ten!NotCached, Ten!NoLookup

LEMMA TenantsStep ==
  ASSUME Ten!TenantsAssumption, TenantsInv, Ten!Next \/ UNCHANGED tenantVars PROVE TenantsInv'
<1>1. CASE Ten!Next BY <1>1, LookupKeeps, OperatorsKeep, TenantsAge DEF Ten!Next
<1>2. CASE UNCHANGED tenantVars
  BY <1>2 DEF tenantVars, TenantsInv, Ten!TypeOK, CacheIsRecent, ReadsAreRecent, CurrentHolds,
              Ten!AnswersAreRecent
<1>3. QED BY <1>1, <1>2

-----------------------------------------------------------------------------
Queued(job) == \E n \in 1..Len(waiting) : waiting[n] = job
HasClient(job) == \E c \in Clients : holder[c] = job

\* A job is in the pool once: in the queue or with one client.
OnceInPool ==
  /\ \A m, n \in 1..Len(waiting) : waiting[m] = waiting[n] => m = n
  /\ \A c, d \in Clients : holder[c] = holder[d] /\ holder[c] # None => c = d
  /\ \A c \in Clients, n \in 1..Len(waiting) : holder[c] # waiting[n]

InPool(job) == Queued(job) \/ HasClient(job)

\* What a request has in the pool at each of its stages: a job as long as it is
\* between connect and release, and a client with the right variable when it uses it
\* and when it gives it back.
OwnsItsClients(r) ==
  /\ context[r] \in {"none", "asking"} => handler[r] = "none"
  /\ InPool(Pool!Context(r)) => context[r] \in {"asking", "open", "closing", "reset"}
  /\ InPool(Pool!Tx(r)) => handler[r] \in {"asking", "tx", "over", "reset"}
  /\ context[r] = "open" => /\ store[r] \in Clients /\ Pool!Has(Pool!Context(r), store[r])
                            /\ setting[store[r]] = OperatorOf[r]
  /\ handler[r] = "tx" => \E c \in Clients : Pool!Has(Pool!Tx(r), c) /\ setting[c] = OperatorOf[r]
  /\ context[r] = "reset" => \A c \in Clients : Pool!Has(Pool!Context(r), c) => setting[c] = None
  /\ handler[r] = "reset" => \A c \in Clients : Pool!Has(Pool!Tx(r), c) => setting[c] = None

PoolTypes ==
  /\ setting \in [Clients -> Pool!Operators \union {None}]
  /\ holder \in [Clients -> Pool!Jobs \union {None}]
  /\ waiting \in Seq(Pool!Jobs)
  /\ context \in [Requests -> Pool!ContextStages]
  /\ store \in [Requests -> Clients \union {None}]
  /\ handler \in [Requests -> Pool!HandlerStages]
  /\ txs \in [Requests -> 0..MaxTx]

PoolInv == PoolTypes /\ OnceInPool /\ (\A r \in Requests : OwnsItsClients(r)) /\ Pool!FreeClientsAreReset

-----------------------------------------------------------------------------
\* pool.connect of a job that is not in the pool.
LEMMA ConnectKeepsPool ==
  ASSUME PoolTypes, OnceInPool, NEW job \in Pool!Jobs, ~InPool(job), Pool!Connect(job)
  PROVE  /\ waiting' \in Seq(Pool!Jobs) /\ OnceInPool'
         /\ \A j \in Pool!Jobs : InPool(j)' => InPool(j) \/ j = job
<1>1. waiting \in Seq(Pool!Jobs) /\ holder' = holder /\ waiting' = Append(waiting, job)
  BY DEF PoolTypes, Pool!Connect
<1>2. waiting' \in Seq(Pool!Jobs) /\ Len(waiting') = Len(waiting) + 1
  BY <1>1
<1>3. \A n \in 1..Len(waiting') : waiting'[n] = IF n = Len(waiting) + 1 THEN job ELSE waiting[n]
  BY <1>1
<1>4. \A n \in 1..Len(waiting) : waiting[n] # job
  BY DEF InPool, Queued
<1>5. \A c \in Clients : holder[c] # job
  BY DEF InPool, HasClient
<1>6. Len(waiting) \in Nat BY <1>1
<1>7. OnceInPool' BY <1>1, <1>2, <1>3, <1>4, <1>5, <1>6 DEF OnceInPool
<1>8. \A j \in Pool!Jobs : InPool(j)' => InPool(j) \/ j = job
  BY <1>1, <1>2, <1>3, <1>6 DEF InPool, Queued, HasClient
<1>9. QED BY <1>2, <1>7, <1>8

\* A free client goes to the head of the queue.
LEMMA GrantKeepsPool ==
  ASSUME Pool!TenantPoolAssumption, PoolTypes, OnceInPool, NEW c \in Clients, Pool!Grant(c)
  PROVE  /\ waiting' \in Seq(Pool!Jobs) /\ holder' \in [Clients -> Pool!Jobs \union {None}] /\ OnceInPool'
         /\ \A j \in Pool!Jobs : InPool(j)' => InPool(j)
         /\ \A d \in Clients : d # c => holder'[d] = holder[d]
         /\ holder'[c] \in Pool!Jobs /\ Queued(holder'[c])
<1>1. waiting \in Seq(Pool!Jobs) /\ waiting # <<>> /\ waiting' = Tail(waiting)
      /\ holder' = [holder EXCEPT ![c] = waiting[1]]
  BY DEF PoolTypes, Pool!Grant
<1>2. waiting' \in Seq(Pool!Jobs) /\ Len(waiting') = Len(waiting) - 1 /\ Len(waiting) \in Nat \ {0}
  BY <1>1
<1>3. \A n \in 1..Len(waiting') : waiting'[n] = waiting[n + 1] /\ n + 1 \in 1..Len(waiting)
  BY <1>1, <1>2
<1>4. waiting[1] \in Pool!Jobs /\ 1 \in 1..Len(waiting)
  BY <1>1, <1>2
<1>5. holder'[c] = waiting[1] /\ \A d \in Clients : d # c => holder'[d] = holder[d]
  BY <1>1 DEF PoolTypes
<1>6. holder' \in [Clients -> Pool!Jobs \union {None}]
  BY <1>1, <1>4 DEF PoolTypes
<1>7. OnceInPool'
  <2>1. \A m, n \in 1..Len(waiting') : waiting'[m] = waiting'[n] => m = n
    BY <1>2, <1>3 DEF OnceInPool
  <2>2. \A d \in Clients : d # c => holder[d] # waiting[1]
    BY <1>4 DEF OnceInPool
  <2>3. \A d, e \in Clients : holder'[d] = holder'[e] /\ holder'[d] # None => d = e
    BY <1>5, <2>2 DEF OnceInPool
  <2>4. \A d \in Clients, n \in 1..Len(waiting') : holder'[d] # waiting'[n]
    <3> SUFFICES ASSUME NEW d \in Clients, NEW n \in 1..Len(waiting') PROVE holder'[d] # waiting[n + 1]
      BY <1>3
    <3>1. n + 1 \in 1..Len(waiting) /\ n + 1 # 1 BY <1>2, <1>3
    <3>2. CASE d = c BY <1>4, <1>5, <3>1, <3>2 DEF OnceInPool
    <3>3. CASE d # c BY <1>5, <3>1, <3>3 DEF OnceInPool
    <3>4. QED BY <3>2, <3>3
  <2>5. QED BY <2>1, <2>3, <2>4 DEF OnceInPool
<1>8. \A j \in Pool!Jobs : InPool(j)' => InPool(j)
  BY <1>3, <1>4, <1>5 DEF InPool, Queued, HasClient
<1>9. QED BY <1>2, <1>4, <1>5, <1>6, <1>7, <1>8 DEF Queued

\* release of a client.
LEMMA ReleaseKeepsPool ==
  ASSUME Pool!TenantPoolAssumption, PoolTypes, OnceInPool, NEW c \in Clients, NEW job \in Pool!Jobs, Pool!Has(job, c),
         Pool!Release(c)
  PROVE  /\ holder' \in [Clients -> Pool!Jobs \union {None}] /\ OnceInPool'
         /\ \A j \in Pool!Jobs : InPool(j)' => InPool(j) /\ j # job
         /\ \A d \in Clients : d # c => holder'[d] = holder[d]
         /\ holder'[c] = None
<1>1. waiting' = waiting /\ holder'[c] = None /\ holder' \in [Clients -> Pool!Jobs \union {None}]
      /\ \A d \in Clients : d # c => holder'[d] = holder[d]
  BY DEF PoolTypes, Pool!Release
<1>2. None \notin Pool!Jobs BY DEF Pool!TenantPoolAssumption, Pool!Jobs
<1>3. \A n \in 1..Len(waiting) : waiting[n] \in Pool!Jobs BY DEF PoolTypes
<1>4. OnceInPool' BY <1>1, <1>2, <1>3 DEF OnceInPool
<1>5. \A j \in Pool!Jobs : InPool(j)' => InPool(j)
  BY <1>1, <1>2 DEF InPool, Queued, HasClient
<1>6. ~InPool(job)'
  <2>1. \A n \in 1..Len(waiting') : waiting'[n] # job BY <1>1 DEF OnceInPool, Pool!Has
  <2>2. \A d \in Clients : holder'[d] # job BY <1>1, <1>2 DEF OnceInPool, Pool!Has
  <2>3. QED BY <2>1, <2>2 DEF InPool, Queued, HasClient
<1>7. QED BY <1>1, <1>4, <1>5, <1>6

-----------------------------------------------------------------------------
\* The jobs of the requests are different things.
LEMMA JobsDiffer ==
  ASSUME Pool!TenantPoolAssumption
  PROVE  /\ None \notin Pool!Jobs /\ None \notin Clients
         /\ \A r \in Requests : Pool!Context(r) \in Pool!Jobs /\ Pool!Tx(r) \in Pool!Jobs
         /\ \A r, q \in Requests : /\ Pool!Context(r) # Pool!Tx(q)
                                   /\ Pool!Context(r) = Pool!Context(q) => r = q
                                   /\ Pool!Tx(r) = Pool!Tx(q) => r = q
         /\ \A j \in Pool!Jobs : \E r \in Requests : j = Pool!Context(r) \/ j = Pool!Tx(r)
BY DEF Pool!TenantPoolAssumption, Pool!Jobs, Pool!Context, Pool!Tx

\* A step of a request changes its own stages, and clients that it holds.
StepOf(r) ==
  /\ \A q \in Requests \ {r} :
       context'[q] = context[q] /\ store'[q] = store[q] /\ handler'[q] = handler[q]
  /\ \A j \in Pool!Jobs \ {Pool!Context(r), Pool!Tx(r)} : InPool(j)' => InPool(j)
  /\ \A d \in Clients :
       \/ holder'[d] = holder[d] /\ setting'[d] = setting[d]
       \/ holder[d] \in {Pool!Context(r), Pool!Tx(r)} /\ holder'[d] = holder[d]
       \/ holder[d] \in {Pool!Context(r), Pool!Tx(r)} /\ holder'[d] = None /\ setting'[d] = None

\* The argument that every step of a request shares.
LEMMA RequestStep ==
  ASSUME Pool!TenantPoolAssumption, PoolInv, NEW r \in Requests, StepOf(r), PoolTypes', OnceInPool', OwnsItsClients(r)'
  PROVE  PoolInv'
<1>1. ASSUME NEW q \in Requests, q # r PROVE OwnsItsClients(q)'
  <2>1. OwnsItsClients(q) BY DEF PoolInv
  <2>2. context'[q] = context[q] /\ store'[q] = store[q] /\ handler'[q] = handler[q]
    BY <1>1 DEF StepOf
  <2>3. {Pool!Context(q), Pool!Tx(q)} \subseteq Pool!Jobs \ {Pool!Context(r), Pool!Tx(r)} BY <1>1, JobsDiffer
  <2>4. (InPool(Pool!Context(q))' => InPool(Pool!Context(q))) /\ (InPool(Pool!Tx(q))' => InPool(Pool!Tx(q)))
    <3>1. Pool!Context(q)' = Pool!Context(q) /\ Pool!Tx(q)' = Pool!Tx(q) BY DEF Pool!Context, Pool!Tx
    <3>2. QED BY <2>3, <3>1 DEF StepOf
  <2>5. \A d \in Clients : /\ Pool!Has(Pool!Context(q), d) => setting'[d] = setting[d] /\ Pool!Has(Pool!Context(q), d)'
                           /\ Pool!Has(Pool!Tx(q), d) => setting'[d] = setting[d] /\ Pool!Has(Pool!Tx(q), d)'
                           /\ Pool!Has(Pool!Context(q), d)' => Pool!Has(Pool!Context(q), d)
                           /\ Pool!Has(Pool!Tx(q), d)' => Pool!Has(Pool!Tx(q), d)
    BY <2>3, JobsDiffer DEF StepOf, Pool!Has, Pool!Context, Pool!Tx
  <2>6. QED BY <2>1, <2>2, <2>4, <2>5 DEF OwnsItsClients
<1>2. Pool!FreeClientsAreReset'
  BY JobsDiffer DEF StepOf, PoolInv, Pool!FreeClientsAreReset
<1>3. QED BY <1>1, <1>2 DEF PoolInv

\* Steps that leave clients and queue alone.
LEMMA PoolUnchanged ==
  ASSUME OnceInPool, UNCHANGED Pool!pool
  PROVE  OnceInPool' /\ \A j : InPool(j)' <=> InPool(j)
BY DEF OnceInPool, InPool, Queued, HasClient, Pool!pool

LEMMA HandlerEndsKeeps ==
  ASSUME Pool!TenantPoolAssumption, PoolInv, NEW r \in Requests, Pool!HandlerEnds(r)
  PROVE  PoolInv'
<1>1. UNCHANGED Pool!pool /\ UNCHANGED <<setting, holder, waiting, store, txs>>
  BY DEF Pool!HandlerEnds, Pool!pool
<1>2. OnceInPool' /\ \A j : InPool(j)' <=> InPool(j) BY <1>1, PoolUnchanged DEF PoolInv
<1>3. PoolTypes'
  BY <1>1 DEF PoolInv, PoolTypes, Pool!HandlerEnds, Pool!HandlerGoto, Pool!ContextGoto, Pool!ContextStages, Pool!HandlerStages
<1>4. StepOf(r)
  BY <1>1, <1>2 DEF StepOf, Pool!HandlerEnds, Pool!HandlerGoto, Pool!ContextGoto, PoolInv, PoolTypes
<1>5. OwnsItsClients(r)'
  <2>1. OwnsItsClients(r) BY DEF PoolInv
  <2>2. handler[r] = "running" /\ handler'[r] = "ended"
        /\ context'[r] = IF context[r] = "open" THEN "closing" ELSE context[r]
    BY DEF Pool!HandlerEnds, Pool!HandlerGoto, Pool!ContextGoto, PoolInv, PoolTypes
  <2>3. QED BY <1>1, <1>2, <2>1, <2>2 DEF OwnsItsClients, Pool!Context, Pool!Tx, Pool!Has
<1>6. QED BY <1>2, <1>3, <1>4, <1>5, RequestStep

LEMMA DisconnectKeeps ==
  ASSUME Pool!TenantPoolAssumption, PoolInv, NEW r \in Requests, Pool!Disconnect(r)
  PROVE  PoolInv'
<1>1. UNCHANGED Pool!pool /\ UNCHANGED <<setting, holder, waiting, store, txs>>
  BY DEF Pool!Disconnect, Pool!pool
<1>2. OnceInPool' /\ \A j : InPool(j)' <=> InPool(j) BY <1>1, PoolUnchanged DEF PoolInv
<1>3. PoolTypes'
  BY <1>1 DEF PoolInv, PoolTypes, Pool!Disconnect, Pool!HandlerGoto, Pool!ContextGoto, Pool!ContextStages, Pool!HandlerStages
<1>4. StepOf(r)
  BY <1>1, <1>2 DEF StepOf, Pool!Disconnect, Pool!HandlerGoto, Pool!ContextGoto, PoolInv, PoolTypes
<1>5. OwnsItsClients(r)'
  <2>1. OwnsItsClients(r) BY DEF PoolInv
  <2>2. context[r] = "open" /\ context'[r] = "closing" /\ handler' = handler
    BY DEF Pool!Disconnect, Pool!HandlerGoto, Pool!ContextGoto, PoolInv, PoolTypes
  <2>3. QED BY <1>1, <1>2, <2>1, <2>2 DEF OwnsItsClients, Pool!Context, Pool!Tx, Pool!Has
<1>6. QED BY <1>2, <1>3, <1>4, <1>5, RequestStep

LEMMA TxEndKeeps ==
  ASSUME Pool!TenantPoolAssumption, PoolInv, NEW r \in Requests, Pool!TxEnd(r)
  PROVE  PoolInv'
<1>1. UNCHANGED Pool!pool /\ UNCHANGED <<setting, holder, waiting, store, txs>>
  BY DEF Pool!TxEnd, Pool!pool
<1>2. OnceInPool' /\ \A j : InPool(j)' <=> InPool(j) BY <1>1, PoolUnchanged DEF PoolInv
<1>3. PoolTypes'
  BY <1>1 DEF PoolInv, PoolTypes, Pool!TxEnd, Pool!HandlerGoto, Pool!ContextGoto, Pool!ContextStages, Pool!HandlerStages
<1>4. StepOf(r)
  BY <1>1, <1>2 DEF StepOf, Pool!TxEnd, Pool!HandlerGoto, Pool!ContextGoto, PoolInv, PoolTypes
<1>5. OwnsItsClients(r)'
  <2>1. OwnsItsClients(r) BY DEF PoolInv
  <2>2. handler[r] \in {"tx", "asking"} /\ handler'[r] = "over" /\ context' = context
    BY DEF Pool!TxEnd, Pool!HandlerGoto, Pool!ContextGoto, PoolInv, PoolTypes
  <2>3. QED BY <1>1, <1>2, <2>1, <2>2 DEF OwnsItsClients, Pool!Context, Pool!Tx, Pool!Has
<1>6. QED BY <1>2, <1>3, <1>4, <1>5, RequestStep

LEMMA ContextFailsKeeps ==
  ASSUME Pool!TenantPoolAssumption, PoolInv, NEW r \in Requests, NEW c \in Clients, Pool!ContextFails(r, c)
  PROVE  PoolInv'
<1>1. UNCHANGED Pool!pool /\ UNCHANGED <<setting, holder, waiting, store, txs>>
  BY DEF Pool!ContextFails, Pool!pool
<1>2. OnceInPool' /\ \A j : InPool(j)' <=> InPool(j) BY <1>1, PoolUnchanged DEF PoolInv
<1>3. PoolTypes'
  BY <1>1 DEF PoolInv, PoolTypes, Pool!ContextFails, Pool!HandlerGoto, Pool!ContextGoto, Pool!ContextStages, Pool!HandlerStages
<1>4. StepOf(r)
  BY <1>1, <1>2 DEF StepOf, Pool!ContextFails, Pool!HandlerGoto, Pool!ContextGoto, PoolInv, PoolTypes
<1>5. OwnsItsClients(r)'
  <2>1. OwnsItsClients(r) BY DEF PoolInv
  <2>2. context[r] = "asking" /\ context'[r] = "closing" /\ handler'[r] = "ended"
    BY DEF Pool!ContextFails, Pool!HandlerGoto, Pool!ContextGoto, PoolInv, PoolTypes
  <2>3. QED BY <1>1, <1>2, <2>1, <2>2 DEF OwnsItsClients, Pool!Context, Pool!Tx, Pool!Has
<1>6. QED BY <1>2, <1>3, <1>4, <1>5, RequestStep

LEMMA ArriveKeeps ==
  ASSUME Pool!TenantPoolAssumption, PoolInv, NEW r \in Requests, Pool!Arrive(r)
  PROVE  PoolInv'
<1>1. OwnsItsClients(r) /\ PoolTypes /\ OnceInPool BY DEF PoolInv
<1>2. Pool!Context(r) \in Pool!Jobs /\ ~InPool(Pool!Context(r)) /\ Pool!Connect(Pool!Context(r))
  BY <1>1, JobsDiffer DEF Pool!Arrive, OwnsItsClients
<1>3. UNCHANGED <<setting, holder, store>> BY DEF Pool!Arrive, Pool!Connect
<1>4. waiting' \in Seq(Pool!Jobs) /\ OnceInPool' /\ \A j \in Pool!Jobs : InPool(j)' => InPool(j) \/ j = Pool!Context(r)
  BY <1>1, <1>2, ConnectKeepsPool
<1>5. PoolTypes'
  BY <1>1, <1>3, <1>4
     DEF PoolTypes, Pool!Arrive, Pool!HandlerGoto, Pool!ContextGoto, Pool!ContextStages, Pool!HandlerStages, Pool!TenantPoolAssumption
<1>6. StepOf(r)
  BY <1>1, <1>3, <1>4 DEF StepOf, Pool!Arrive, Pool!HandlerGoto, Pool!ContextGoto, PoolTypes
<1>7. OwnsItsClients(r)'
  <2>1. context[r] = "none" /\ context'[r] = "asking" /\ handler' = handler
    BY <1>1 DEF Pool!Arrive, Pool!HandlerGoto, Pool!ContextGoto, PoolTypes
  <2>2. (InPool(Pool!Context(r))' => InPool(Pool!Context(r)) \/ Pool!Context(r) = Pool!Context(r))
        /\ (InPool(Pool!Tx(r))' => InPool(Pool!Tx(r)) \/ Pool!Tx(r) = Pool!Context(r))
    <3>1. Pool!Context(r)' = Pool!Context(r) /\ Pool!Tx(r)' = Pool!Tx(r) BY DEF Pool!Context, Pool!Tx
    <3>2. QED BY <1>4, <3>1, JobsDiffer
  <2>3. QED BY <1>1, <1>3, <2>1, <2>2, JobsDiffer DEF OwnsItsClients, Pool!Has, Pool!Context, Pool!Tx
<1>8. QED BY <1>4, <1>5, <1>6, <1>7, RequestStep

LEMMA TxConnectKeeps ==
  ASSUME Pool!TenantPoolAssumption, PoolInv, NEW r \in Requests, Pool!TxConnect(r)
  PROVE  PoolInv'
<1>1. OwnsItsClients(r) /\ PoolTypes /\ OnceInPool BY DEF PoolInv
<1>2. Pool!Tx(r) \in Pool!Jobs /\ ~InPool(Pool!Tx(r)) /\ Pool!Connect(Pool!Tx(r))
  BY <1>1, JobsDiffer DEF Pool!TxConnect, OwnsItsClients
<1>3. UNCHANGED <<setting, holder, store>> BY DEF Pool!TxConnect, Pool!Connect
<1>4. waiting' \in Seq(Pool!Jobs) /\ OnceInPool' /\ \A j \in Pool!Jobs : InPool(j)' => InPool(j) \/ j = Pool!Tx(r)
  BY <1>1, <1>2, ConnectKeepsPool
<1>5. PoolTypes'
  BY <1>1, <1>3, <1>4
     DEF PoolTypes, Pool!TxConnect, Pool!HandlerGoto, Pool!ContextGoto, Pool!ContextStages, Pool!HandlerStages, Pool!TenantPoolAssumption
<1>6. StepOf(r)
  BY <1>1, <1>3, <1>4 DEF StepOf, Pool!TxConnect, Pool!HandlerGoto, Pool!ContextGoto, PoolTypes
<1>7. OwnsItsClients(r)'
  <2>1. handler[r] = "running" /\ handler'[r] = "asking" /\ context' = context
    BY <1>1 DEF Pool!TxConnect, Pool!HandlerGoto, Pool!ContextGoto, PoolTypes
  <2>2. (InPool(Pool!Context(r))' => InPool(Pool!Context(r)) \/ Pool!Context(r) = Pool!Tx(r))
        /\ (InPool(Pool!Tx(r))' => InPool(Pool!Tx(r)) \/ Pool!Tx(r) = Pool!Tx(r))
    <3>1. Pool!Context(r)' = Pool!Context(r) /\ Pool!Tx(r)' = Pool!Tx(r) BY DEF Pool!Context, Pool!Tx
    <3>2. QED BY <1>4, <3>1, JobsDiffer
  <2>3. QED BY <1>1, <1>3, <2>1, <2>2, JobsDiffer DEF OwnsItsClients, Pool!Has, Pool!Context, Pool!Tx
<1>8. QED BY <1>4, <1>5, <1>6, <1>7, RequestStep

LEMMA OpenContextKeeps ==
  ASSUME Pool!TenantPoolAssumption, PoolInv, NEW r \in Requests, NEW c \in Clients, Pool!OpenContext(r, c)
  PROVE  PoolInv'
<1>1. OwnsItsClients(r) /\ PoolTypes /\ OnceInPool BY DEF PoolInv
<1>2. UNCHANGED <<holder, waiting>> /\ Pool!Has(Pool!Context(r), c)
      /\ setting' = [setting EXCEPT ![c] = OperatorOf[r]]
  BY DEF Pool!OpenContext, Pool!Configure, Pool!SetConfig
<1>3. OnceInPool' /\ \A j : InPool(j)' <=> InPool(j)
  BY <1>1, <1>2 DEF OnceInPool, InPool, Queued, HasClient
<1>4. PoolTypes'
  BY <1>1, <1>2 DEF PoolTypes, Pool!OpenContext, Pool!HandlerGoto, Pool!ContextGoto, Pool!ContextStages, Pool!HandlerStages, Pool!Operators
<1>5. setting'[c] = OperatorOf[r] /\ \A d \in Clients : d # c => setting'[d] = setting[d]
  BY <1>1, <1>2 DEF PoolTypes
<1>6. StepOf(r)
  BY <1>1, <1>2, <1>3, <1>5 DEF StepOf, Pool!OpenContext, Pool!HandlerGoto, Pool!ContextGoto, PoolTypes, Pool!Has
<1>7. OwnsItsClients(r)'
  <2>1. context[r] = "asking" /\ context'[r] = "open" /\ store'[r] = c /\ handler'[r] = "running"
    BY <1>1 DEF Pool!OpenContext, Pool!HandlerGoto, Pool!ContextGoto, PoolTypes
  <2>2. \A d \in Clients : Pool!Has(Pool!Context(r), d) => d = c
    BY <1>1, <1>2, JobsDiffer DEF OnceInPool, Pool!Has
  <2>3. QED BY <1>1, <1>2, <1>3, <1>5, <2>1, <2>2, JobsDiffer DEF OwnsItsClients, Pool!Has, Pool!Context, Pool!Tx
<1>8. QED BY <1>3, <1>4, <1>6, <1>7, RequestStep

LEMMA ContextResetKeeps ==
  ASSUME Pool!TenantPoolAssumption, PoolInv, NEW r \in Requests, NEW c \in Clients, Pool!ContextReset(r, c)
  PROVE  PoolInv'
<1>1. OwnsItsClients(r) /\ PoolTypes /\ OnceInPool BY DEF PoolInv
<1>2. UNCHANGED <<holder, waiting>> /\ Pool!Has(Pool!Context(r), c)
      /\ setting' = [setting EXCEPT ![c] = None]
  BY DEF Pool!ContextReset, Pool!Reset, Pool!SetConfig
<1>3. OnceInPool' /\ \A j : InPool(j)' <=> InPool(j)
  BY <1>1, <1>2 DEF OnceInPool, InPool, Queued, HasClient
<1>4. PoolTypes'
  BY <1>1, <1>2 DEF PoolTypes, Pool!ContextReset, Pool!HandlerGoto, Pool!ContextGoto, Pool!ContextStages, Pool!HandlerStages, Pool!Operators
<1>5. setting'[c] = None /\ \A d \in Clients : d # c => setting'[d] = setting[d]
  BY <1>1, <1>2 DEF PoolTypes
<1>6. StepOf(r)
  BY <1>1, <1>2, <1>3, <1>5 DEF StepOf, Pool!ContextReset, Pool!HandlerGoto, Pool!ContextGoto, PoolTypes, Pool!Has
<1>7. OwnsItsClients(r)'
  <2>1. context[r] = "closing" /\ context'[r] = "reset" /\ store' = store /\ handler' = handler
    BY <1>1 DEF Pool!ContextReset, Pool!HandlerGoto, Pool!ContextGoto, PoolTypes
  <2>2. \A d \in Clients : Pool!Has(Pool!Context(r), d) => d = c
    BY <1>1, <1>2, JobsDiffer DEF OnceInPool, Pool!Has
  <2>3. QED BY <1>1, <1>2, <1>3, <1>5, <2>1, <2>2, JobsDiffer DEF OwnsItsClients, Pool!Has, Pool!Context, Pool!Tx
<1>8. QED BY <1>3, <1>4, <1>6, <1>7, RequestStep

LEMMA TxBeginKeeps ==
  ASSUME Pool!TenantPoolAssumption, PoolInv, NEW r \in Requests, NEW c \in Clients, Pool!TxBegin(r, c)
  PROVE  PoolInv'
<1>1. OwnsItsClients(r) /\ PoolTypes /\ OnceInPool BY DEF PoolInv
<1>2. UNCHANGED <<holder, waiting>> /\ Pool!Has(Pool!Tx(r), c)
      /\ setting' = [setting EXCEPT ![c] = OperatorOf[r]]
  BY DEF Pool!TxBegin, Pool!Configure, Pool!SetConfig
<1>3. OnceInPool' /\ \A j : InPool(j)' <=> InPool(j)
  BY <1>1, <1>2 DEF OnceInPool, InPool, Queued, HasClient
<1>4. PoolTypes'
  BY <1>1, <1>2 DEF PoolTypes, Pool!TxBegin, Pool!HandlerGoto, Pool!ContextGoto, Pool!ContextStages, Pool!HandlerStages, Pool!Operators
<1>5. setting'[c] = OperatorOf[r] /\ \A d \in Clients : d # c => setting'[d] = setting[d]
  BY <1>1, <1>2 DEF PoolTypes
<1>6. StepOf(r)
  BY <1>1, <1>2, <1>3, <1>5 DEF StepOf, Pool!TxBegin, Pool!HandlerGoto, Pool!ContextGoto, PoolTypes, Pool!Has
<1>7. OwnsItsClients(r)'
  <2>1. handler[r] = "asking" /\ handler'[r] = "tx" /\ store' = store /\ context' = context
    BY <1>1 DEF Pool!TxBegin, Pool!HandlerGoto, Pool!ContextGoto, PoolTypes
  <2>2. \A d \in Clients : Pool!Has(Pool!Tx(r), d) => d = c
    BY <1>1, <1>2, JobsDiffer DEF OnceInPool, Pool!Has
  <2>3. QED BY <1>1, <1>2, <1>3, <1>5, <2>1, <2>2, JobsDiffer DEF OwnsItsClients, Pool!Has, Pool!Context, Pool!Tx
<1>8. QED BY <1>3, <1>4, <1>6, <1>7, RequestStep

LEMMA TxResetKeeps ==
  ASSUME Pool!TenantPoolAssumption, PoolInv, NEW r \in Requests, NEW c \in Clients, Pool!TxReset(r, c)
  PROVE  PoolInv'
<1>1. OwnsItsClients(r) /\ PoolTypes /\ OnceInPool BY DEF PoolInv
<1>2. UNCHANGED <<holder, waiting>> /\ Pool!Has(Pool!Tx(r), c)
      /\ setting' = [setting EXCEPT ![c] = None]
  BY DEF Pool!TxReset, Pool!Reset, Pool!SetConfig
<1>3. OnceInPool' /\ \A j : InPool(j)' <=> InPool(j)
  BY <1>1, <1>2 DEF OnceInPool, InPool, Queued, HasClient
<1>4. PoolTypes'
  BY <1>1, <1>2 DEF PoolTypes, Pool!TxReset, Pool!HandlerGoto, Pool!ContextGoto, Pool!ContextStages, Pool!HandlerStages, Pool!Operators
<1>5. setting'[c] = None /\ \A d \in Clients : d # c => setting'[d] = setting[d]
  BY <1>1, <1>2 DEF PoolTypes
<1>6. StepOf(r)
  BY <1>1, <1>2, <1>3, <1>5 DEF StepOf, Pool!TxReset, Pool!HandlerGoto, Pool!ContextGoto, PoolTypes, Pool!Has
<1>7. OwnsItsClients(r)'
  <2>1. handler[r] = "over" /\ handler'[r] = "reset" /\ store' = store /\ context' = context
    BY <1>1 DEF Pool!TxReset, Pool!HandlerGoto, Pool!ContextGoto, PoolTypes
  <2>2. \A d \in Clients : Pool!Has(Pool!Tx(r), d) => d = c
    BY <1>1, <1>2, JobsDiffer DEF OnceInPool, Pool!Has
  <2>3. QED BY <1>1, <1>2, <1>3, <1>5, <2>1, <2>2, JobsDiffer DEF OwnsItsClients, Pool!Has, Pool!Context, Pool!Tx
<1>8. QED BY <1>3, <1>4, <1>6, <1>7, RequestStep

LEMMA ContextReleaseKeeps ==
  ASSUME Pool!TenantPoolAssumption, PoolInv, NEW r \in Requests, NEW c \in Clients, Pool!ContextRelease(r, c)
  PROVE  PoolInv'
<1>1. OwnsItsClients(r) /\ PoolTypes /\ OnceInPool BY DEF PoolInv
<1>2. Pool!Context(r) \in Pool!Jobs /\ Pool!Has(Pool!Context(r), c) /\ Pool!Release(c) BY JobsDiffer DEF Pool!ContextRelease
<1>3. /\ holder' \in [Clients -> Pool!Jobs \union {None}] /\ OnceInPool'
      /\ \A j \in Pool!Jobs : InPool(j)' => InPool(j) /\ j # Pool!Context(r)
      /\ \A d \in Clients : d # c => holder'[d] = holder[d]
      /\ holder'[c] = None
  BY <1>1, <1>2, ReleaseKeepsPool
<1>4. UNCHANGED <<setting, waiting, store>> BY DEF Pool!ContextRelease, Pool!Release
<1>5. PoolTypes'
  BY <1>1, <1>3, <1>4 DEF PoolTypes, Pool!ContextRelease, Pool!HandlerGoto, Pool!ContextGoto, Pool!ContextStages, Pool!HandlerStages
<1>6. context[r] = "reset" /\ context'[r] = "closed" /\ handler' = handler
  BY <1>1 DEF Pool!ContextRelease, Pool!HandlerGoto, Pool!ContextGoto, PoolTypes
<1>7. setting[c] = None BY <1>1, <1>2, <1>6 DEF OwnsItsClients
<1>8. StepOf(r)
  BY <1>1, <1>2, <1>3, <1>4, <1>7 DEF StepOf, Pool!ContextRelease, Pool!HandlerGoto, Pool!ContextGoto, PoolTypes, Pool!Has
<1>9. OwnsItsClients(r)'
  <2>1. /\ InPool(Pool!Context(r))' => InPool(Pool!Context(r)) /\ Pool!Context(r) # Pool!Context(r)
        /\ InPool(Pool!Tx(r))' => InPool(Pool!Tx(r)) /\ Pool!Tx(r) # Pool!Context(r)
    <3>1. Pool!Context(r)' = Pool!Context(r) /\ Pool!Tx(r)' = Pool!Tx(r) BY DEF Pool!Context, Pool!Tx
    <3>2. QED BY <1>3, <3>1, JobsDiffer
  <2>2. \A d \in Clients : holder'[d] # None => holder'[d] = holder[d] BY <1>3
  <2>3. \A d \in Clients : Pool!Has(Pool!Context(r), d) => d = c
    BY <1>1, <1>2, JobsDiffer DEF OnceInPool, Pool!Has
  <2>4. \A d \in Clients : d # c => holder'[d] = holder[d] BY <1>3
  <2>5. QED BY <1>1, <1>2, <1>4, <1>6, <2>1, <2>2, <2>3, <2>4, JobsDiffer DEF OwnsItsClients, Pool!Has, Pool!Context, Pool!Tx
<1>10. QED BY <1>3, <1>5, <1>8, <1>9, RequestStep

LEMMA TxReleaseKeeps ==
  ASSUME Pool!TenantPoolAssumption, PoolInv, NEW r \in Requests, NEW c \in Clients, Pool!TxRelease(r, c)
  PROVE  PoolInv'
<1>1. OwnsItsClients(r) /\ PoolTypes /\ OnceInPool BY DEF PoolInv
<1>2. Pool!Tx(r) \in Pool!Jobs /\ Pool!Has(Pool!Tx(r), c) /\ Pool!Release(c) BY JobsDiffer DEF Pool!TxRelease
<1>3. /\ holder' \in [Clients -> Pool!Jobs \union {None}] /\ OnceInPool'
      /\ \A j \in Pool!Jobs : InPool(j)' => InPool(j) /\ j # Pool!Tx(r)
      /\ \A d \in Clients : d # c => holder'[d] = holder[d]
      /\ holder'[c] = None
  BY <1>1, <1>2, ReleaseKeepsPool
<1>4. UNCHANGED <<setting, waiting, store>> BY DEF Pool!TxRelease, Pool!Release
<1>5. PoolTypes'
  BY <1>1, <1>3, <1>4 DEF PoolTypes, Pool!TxRelease, Pool!HandlerGoto, Pool!ContextGoto, Pool!ContextStages, Pool!HandlerStages
<1>6. handler[r] = "reset" /\ handler'[r] = "running" /\ context' = context
  BY <1>1 DEF Pool!TxRelease, Pool!HandlerGoto, Pool!ContextGoto, PoolTypes
<1>7. setting[c] = None BY <1>1, <1>2, <1>6 DEF OwnsItsClients
<1>8. StepOf(r)
  BY <1>1, <1>2, <1>3, <1>4, <1>7 DEF StepOf, Pool!TxRelease, Pool!HandlerGoto, Pool!ContextGoto, PoolTypes, Pool!Has
<1>9. OwnsItsClients(r)'
  <2>1. /\ InPool(Pool!Context(r))' => InPool(Pool!Context(r)) /\ Pool!Context(r) # Pool!Tx(r)
        /\ InPool(Pool!Tx(r))' => InPool(Pool!Tx(r)) /\ Pool!Tx(r) # Pool!Tx(r)
    <3>1. Pool!Context(r)' = Pool!Context(r) /\ Pool!Tx(r)' = Pool!Tx(r) BY DEF Pool!Context, Pool!Tx
    <3>2. QED BY <1>3, <3>1, JobsDiffer
  <2>2. \A d \in Clients : holder'[d] # None => holder'[d] = holder[d] BY <1>3
  <2>3. \A d \in Clients : Pool!Has(Pool!Tx(r), d) => d = c
    BY <1>1, <1>2, JobsDiffer DEF OnceInPool, Pool!Has
  <2>4. \A d \in Clients : d # c => holder'[d] = holder[d] BY <1>3
  <2>5. QED BY <1>1, <1>2, <1>4, <1>6, <2>1, <2>2, <2>3, <2>4, JobsDiffer DEF OwnsItsClients, Pool!Has, Pool!Context, Pool!Tx
<1>10. QED BY <1>3, <1>5, <1>8, <1>9, RequestStep

LEMMA GrantKeeps ==
  ASSUME Pool!TenantPoolAssumption, PoolInv, NEW c \in Clients, Pool!Grant(c)
  PROVE  PoolInv'
<1>1. PoolTypes /\ OnceInPool BY DEF PoolInv
<1>2. /\ waiting' \in Seq(Pool!Jobs) /\ holder' \in [Clients -> Pool!Jobs \union {None}] /\ OnceInPool'
      /\ \A j \in Pool!Jobs : InPool(j)' => InPool(j)
      /\ \A d \in Clients : d # c => holder'[d] = holder[d]
      /\ holder'[c] \in Pool!Jobs
  BY <1>1, GrantKeepsPool
<1>3. UNCHANGED <<setting, context, store, handler, txs>> BY DEF Pool!Grant, Pool!request
<1>4. PoolTypes' BY <1>1, <1>2, <1>3 DEF PoolTypes
<1>5. holder[c] = None /\ setting[c] = None BY DEF Pool!Grant, PoolInv, Pool!FreeClientsAreReset
<1>6. ASSUME NEW r \in Requests PROVE OwnsItsClients(r)'
  <2>1. OwnsItsClients(r) BY DEF PoolInv
  <2>2. (InPool(Pool!Context(r))' => InPool(Pool!Context(r))) /\ (InPool(Pool!Tx(r))' => InPool(Pool!Tx(r)))
    <3>1. Pool!Context(r)' = Pool!Context(r) /\ Pool!Tx(r)' = Pool!Tx(r) BY DEF Pool!Context, Pool!Tx
    <3>2. QED BY <1>2, <3>1, JobsDiffer
  <2>3. \A d \in Clients : /\ Pool!Has(Pool!Context(r), d) => d # c /\ Pool!Has(Pool!Context(r), d)'
                           /\ Pool!Has(Pool!Tx(r), d) => d # c /\ Pool!Has(Pool!Tx(r), d)'
                           /\ Pool!Has(Pool!Context(r), d)' => Pool!Has(Pool!Context(r), d) \/ d = c
                           /\ Pool!Has(Pool!Tx(r), d)' => Pool!Has(Pool!Tx(r), d) \/ d = c
    <3>1. Pool!Context(r) # None /\ Pool!Tx(r) # None BY JobsDiffer
    <3>2. Pool!Context(r)' = Pool!Context(r) /\ Pool!Tx(r)' = Pool!Tx(r) BY DEF Pool!Context, Pool!Tx
    <3> SUFFICES ASSUME NEW d \in Clients
                 PROVE  /\ Pool!Has(Pool!Context(r), d) => d # c /\ Pool!Has(Pool!Context(r), d)'
                        /\ Pool!Has(Pool!Tx(r), d) => d # c /\ Pool!Has(Pool!Tx(r), d)'
                        /\ Pool!Has(Pool!Context(r), d)' => Pool!Has(Pool!Context(r), d) \/ d = c
                        /\ Pool!Has(Pool!Tx(r), d)' => Pool!Has(Pool!Tx(r), d) \/ d = c
      OBVIOUS
    <3>3. CASE d = c BY <1>5, <3>1, <3>3 DEF Pool!Has
    <3>4. CASE d # c
      <4>1. holder'[d] = holder[d] BY <1>2, <3>4
      <4>2. QED BY <3>2, <3>4, <4>1 DEF Pool!Has
    <3>5. QED BY <3>3, <3>4
  <2>4. QED BY <1>3, <1>5, <2>1, <2>2, <2>3 DEF OwnsItsClients
<1>7. Pool!FreeClientsAreReset'
  BY <1>2, <1>3, JobsDiffer DEF PoolInv, Pool!FreeClientsAreReset
<1>8. QED BY <1>2, <1>4, <1>6, <1>7 DEF PoolInv


LEMMA PoolStart == ASSUME Pool!TenantPoolAssumption, Pool!Init PROVE PoolInv
<1>1. PoolTypes
  BY DEF Pool!Init, PoolTypes, Pool!TenantPoolAssumption, Pool!ContextStages, Pool!HandlerStages
<1>2. OnceInPool BY DEF Pool!Init, OnceInPool
<1>3. \A j \in Pool!Jobs : ~InPool(j) BY JobsDiffer DEF Pool!Init, InPool, Queued, HasClient
<1>4. \A r \in Requests : OwnsItsClients(r) BY <1>3, JobsDiffer DEF Pool!Init, OwnsItsClients
<1>5. QED BY <1>1, <1>2, <1>4 DEF Pool!Init, PoolInv, Pool!FreeClientsAreReset

LEMMA PoolStep ==
  ASSUME Pool!TenantPoolAssumption, PoolInv, Pool!Next \/ UNCHANGED poolVars PROVE PoolInv'
<1>1. ASSUME NEW c \in Clients, Pool!Grant(c) PROVE PoolInv' BY <1>1, GrantKeeps
<1>2. ASSUME NEW r \in Requests, Pool!Arrive(r) \/ Pool!Disconnect(r) \/ Pool!TxConnect(r) PROVE PoolInv'
  BY <1>2, ArriveKeeps, DisconnectKeeps, TxConnectKeeps
<1>3. ASSUME NEW r \in Requests, Pool!Proceed(r) PROVE PoolInv'
  <2>1. CASE Pool!HandlerEnds(r) \/ Pool!TxEnd(r) BY <2>1, HandlerEndsKeeps, TxEndKeeps
  <2>2. ASSUME NEW c \in Clients,
               \/ Pool!OpenContext(r, c) \/ Pool!ContextFails(r, c)
               \/ Pool!ContextReset(r, c) \/ Pool!ContextRelease(r, c)
        PROVE  PoolInv'
    BY <2>2, OpenContextKeeps, ContextFailsKeeps, ContextResetKeeps, ContextReleaseKeeps
  <2>3. ASSUME NEW c \in Clients, Pool!TxBegin(r, c) \/ Pool!TxReset(r, c) \/ Pool!TxRelease(r, c)
        PROVE  PoolInv'
    BY <2>3, TxBeginKeeps, TxResetKeeps, TxReleaseKeeps
  <2>4. QED BY <1>3, <2>1, <2>2, <2>3 DEF Pool!Proceed
<1>4. CASE UNCHANGED poolVars
  <2>1. UNCHANGED Pool!pool /\ UNCHANGED <<setting, holder, waiting, context, store, handler, txs>>
    BY <1>4 DEF poolVars, Pool!pool
  <2>2. OnceInPool' /\ \A j : InPool(j)' <=> InPool(j) BY <2>1, PoolUnchanged DEF PoolInv
  <2>3. \A r \in Requests : OwnsItsClients(r)'
    BY <2>1, <2>2 DEF PoolInv, OwnsItsClients, Pool!Has, Pool!Context, Pool!Tx
  <2>4. QED BY <2>1, <2>2, <2>3 DEF PoolInv, PoolTypes, Pool!FreeClientsAreReset
<1>5. QED BY <1>1, <1>2, <1>3, <1>4 DEF Pool!Next

-----------------------------------------------------------------------------
\* What each step of Platform is to one component.
LEMMA TenantsAlone ==
  ASSUME [PlatformNext]_everything PROVE (Ten!Next \/ UNCHANGED tenantVars) /\ UNCHANGED focus
BY DEF PlatformNext, everything

LEMMA PoolAlone ==
  ASSUME [PlatformNext]_everything PROVE (Pool!Next \/ UNCHANGED poolVars) /\ UNCHANGED focus
BY DEF PlatformNext, everything

\* tenant.ts: no request is admitted or refused by a status that its operator lost
\* longer ago than the time of an entry and of one lookup, whatever the order in
\* which lookups write the cache.
THEOREM RecentAnswers == PlatformSpec => []AnswersAreRecent
<1>1. PlatformInit => TenantsInv BY PlatformAssumption, TenantsStart DEF PlatformInit
<1>2. TenantsInv /\ [PlatformNext]_everything => TenantsInv'
  BY PlatformAssumption, TenantsAlone, TenantsStep
<1>3. TenantsInv => AnswersAreRecent BY DEF TenantsInv, AnswersAreRecent
<1>4. QED BY <1>1, <1>2, <1>3, PTL DEF PlatformSpec

\* db/index.ts: whatever requests, disconnections and failures there are, each job
\* is in the pool once and its client has the variable that its stage says.
THEOREM PoolInvariance == PlatformSpec => []PoolInv
<1>1. PlatformInit => PoolInv BY PlatformAssumption, PoolStart DEF PlatformInit
<1>2. PoolInv /\ [PlatformNext]_everything => PoolInv' BY PlatformAssumption, PoolAlone, PoolStep
<1>3. QED BY <1>1, <1>2, PTL DEF PlatformSpec

\* runWithContext, tx: until its response closes a request works as its own operator.
THEOREM Isolation == PlatformSpec => []OpenRequestsIsolated
<1>1. PoolInv => OpenRequestsIsolated
  BY DEF PoolInv, OwnsItsClients, OpenRequestsIsolated, Pool!OpenRequestsIsolated, Pool!RunsAs
<1>2. QED BY <1>1, PoolInvariance, PTL

\* runWithContext, tx: no variable of an operator stays on a client that is free.
THEOREM CleanClients == PlatformSpec => []FreeClientsAreReset
<1>1. PoolInv => FreeClientsAreReset BY DEF PoolInv, FreeClientsAreReset
<1>2. QED BY <1>1, PoolInvariance, PTL

-----------------------------------------------------------------------------
\* Lifecycle: what a process has behind it.
Process == [stage : Life!Stages, attempt : 1..MaxAttempts, config : Life!Configs,
            found : BOOLEAN, seeded : BOOLEAN]

Serving == {"serverDb", "up", "stopping"}

\* The seed of the process has written the password of its configuration for role.
Past(q, role) ==
  \/ q.seeded \/ q.stage = "seeded"
  \/ role = "users" /\ q.stage \in {"platform_admins", "write_platform_admins"}

Sowing == {i \in Replicas : process[i].stage = "insert"}

SeededServes == \A i \in Replicas : process[i].seeded => process[i].stage \in Serving
\* Replicas that have all written the same password for a role find it there: the
\* last one to write it was one of them.
WrittenByAll ==
  \A role \in Life!Roles, p \in Passwords :
    (\A i \in Replicas : process[i].config = p /\ Past(process[i], role)) => admins[role] = p
\* Only an empty catalogue lets a process insert; those that still may have not yet.
SownOrSowing == matches = 0 \/ matches + Cardinality(Sowing) <= Cardinality(Replicas)

\* ensureAdmin got as far as its write.
WritersHavePasswords ==
  \A i \in Replicas : process[i].stage \in {"write_users", "write_platform_admins"} => process[i].config \in Passwords

LifecycleInv == Life!TypeOK /\ SeededServes /\ WritersHavePasswords /\ WrittenByAll /\ SownOrSowing

\* FiniteSets as Lifecycle sees it.
LEMMA ReplicasAreFinite ==
  ASSUME Life!LifecycleAssumption
  PROVE  /\ IsFiniteSet(Replicas) /\ Replicas # {} /\ MaxAttempts \in Nat \ {0}
         /\ Life!Cardinality(Replicas) = Cardinality(Replicas) /\ Cardinality(Replicas) \in Nat
<1>1. IsFiniteSet(Replicas) <=> Life!IsFiniteSet(Replicas) BY Zenon DEF IsFiniteSet, Life!IsFiniteSet
<1>2. Life!Cardinality(Replicas) = Cardinality(Replicas) BY Zenon DEF Cardinality, Life!Cardinality
<1>3. QED BY <1>1, <1>2, FS_CardinalityType DEF Life!LifecycleAssumption

LEMMA SowingCount ==
  ASSUME Life!LifecycleAssumption
  PROVE  IsFiniteSet(Sowing) /\ Cardinality(Sowing) \in Nat /\ Cardinality(Sowing) <= Cardinality(Replicas)
<1>1. Sowing \subseteq Replicas BY DEF Sowing
<1>2. QED BY <1>1, ReplicasAreFinite, FS_Subset, FS_CardinalityType

\* A step of process i that does not sow.
Becomes(i, q) == process' = [process EXCEPT ![i] = q]

LEMMA SowersCome ==
  ASSUME Life!LifecycleAssumption, LifecycleInv, NEW i \in Replicas, NEW q \in Process, Becomes(i, q),
         UNCHANGED matches, q.stage = "insert" => process[i].stage = "insert" \/ matches = 0
  PROVE  SownOrSowing'
<1>1. process \in [Replicas -> Process] /\ matches \in Nat BY DEF LifecycleInv, Life!TypeOK, Process
<1>2. \A j \in Replicas : process'[j] = IF j = i THEN q ELSE process[j] BY <1>1 DEF Becomes
<1>3. CASE matches = 0 BY <1>3 DEF SownOrSowing
<1>4. CASE matches # 0
  <2>1. Sowing' \subseteq Sowing BY <1>2, <1>4 DEF Sowing
  <2>2. Cardinality(Sowing') <= Cardinality(Sowing) /\ Cardinality(Sowing') \in Nat
    BY <2>1, SowingCount, FS_Subset, FS_CardinalityType
  <2>3. matches + Cardinality(Sowing) <= Cardinality(Replicas) BY <1>4 DEF LifecycleInv, SownOrSowing
  <2>4. QED BY <1>1, <2>2, <2>3, SowingCount, ReplicasAreFinite DEF SownOrSowing
<1>5. QED BY <1>3, <1>4

\* A process that passes a role has the password it leaves there.
LEMMA WritersPass ==
  ASSUME LifecycleInv, NEW i \in Replicas, NEW q \in Process, Becomes(i, q),
         \A role \in Life!Roles :
           \/ admins'[role] = q.config
           \/ q.config \notin Passwords /\ admins'[role] = admins[role]
           \/ /\ admins'[role] = admins[role] /\ q.config = process[i].config
              /\ Past(q, role) => Past(process[i], role)
           \/ admins'[role] = admins[role] /\ ~Past(q, role)
  PROVE  WrittenByAll'
<1>1. process \in [Replicas -> Process] BY DEF LifecycleInv, Life!TypeOK, Process
<1>2. process'[i] = q /\ \A j \in Replicas : j # i => process'[j] = process[j] BY <1>1 DEF Becomes
<1> SUFFICES ASSUME NEW role \in Life!Roles, NEW p \in Passwords,
                    \A j \in Replicas : process'[j].config = p /\ Past(process'[j], role)
             PROVE  admins'[role] = p
  BY DEF WrittenByAll, Past
<1>3. q.config = p /\ Past(q, role) BY <1>2
<1>4. CASE admins'[role] = q.config BY <1>3, <1>4
<1>5. CASE admins'[role] = admins[role] /\ q.config = process[i].config /\ Past(process[i], role)
  <2>1. \A j \in Replicas : process[j].config = p /\ Past(process[j], role) BY <1>2, <1>3, <1>5
  <2>2. QED BY <1>5, <2>1 DEF LifecycleInv, WrittenByAll
<1>6. QED BY <1>3, <1>4, <1>5

\* Any step of one process but the transaction of the seed.
LEMMA ProcessStep ==
  ASSUME Life!LifecycleAssumption, LifecycleInv, NEW i \in Replicas, NEW q \in Process, Becomes(i, q),
         UNCHANGED <<deployed, matches, deployments>>, starts' \in 0..MaxStarts,
         admins' \in [Life!Roles -> Passwords \union {None}],
         q.stage = "insert" => process[i].stage = "insert" \/ matches = 0,
         q.seeded => q.stage \in Serving,
         q.stage \in {"write_users", "write_platform_admins"} => q.config \in Passwords,
         \A role \in Life!Roles :
           \/ admins'[role] = q.config
           \/ q.config \notin Passwords /\ admins'[role] = admins[role]
           \/ /\ admins'[role] = admins[role] /\ q.config = process[i].config
              /\ Past(q, role) => Past(process[i], role)
           \/ admins'[role] = admins[role] /\ ~Past(q, role)
  PROVE  LifecycleInv'
<1>1. process \in [Replicas -> Process] BY DEF LifecycleInv, Life!TypeOK, Process
<1>2. process' \in [Replicas -> Process] BY <1>1 DEF Becomes
<1>3. Life!TypeOK' BY <1>2 DEF LifecycleInv, Life!TypeOK, Process
<1>4. SeededServes' /\ WritersHavePasswords'
  <2>1. \A j \in Replicas : process'[j] = IF j = i THEN q ELSE process[j] BY <1>1 DEF Becomes
  <2>2. QED BY <2>1 DEF LifecycleInv, SeededServes, WritersHavePasswords
<1>5. QED BY <1>3, <1>4, SowersCome, WritersPass DEF LifecycleInv

\* A process goes on to another stage of its run.
LEMMA GotoStep ==
  ASSUME Life!LifecycleAssumption, LifecycleInv, NEW i \in Replicas, NEW stage \in Life!Stages, Life!Goto(i, stage)
  PROVE  \E q \in Process : /\ Becomes(i, q) /\ q.stage = stage
                            /\ q.config = process[i].config /\ q.seeded = process[i].seeded
<1> DEFINE q == [process[i] EXCEPT !.stage = stage, !.attempt = 1, !.found = FALSE]
<1>1. process \in [Replicas -> Process] BY DEF LifecycleInv, Life!TypeOK, Process
<1>2. process[i] \in Process /\ 1 \in 1..MaxAttempts /\ FALSE \in BOOLEAN BY <1>1, ReplicasAreFinite
<1>3. q \in Process BY <1>2 DEF Process
<1>4. q.stage = stage /\ q.config = process[i].config /\ q.seeded = process[i].seeded BY <1>2 DEF Process
<1>5. Becomes(i, q) BY <1>1, <1>2 DEF Life!Goto, Process, Becomes
<1> HIDE DEF q
<1>6. QED BY <1>3, <1>4, <1>5

LEMMA OffIsProcess ==
  ASSUME Life!LifecycleAssumption PROVE Life!Off \in Process /\ Life!Off.stage = "off" /\ ~Life!Off.seeded
BY ReplicasAreFinite DEF Life!Off, Process, Life!Stages, Life!Configs

\* A process that has not come to serve has not finished its seed.
LEMMA Unseeded ==
  ASSUME LifecycleInv, NEW i \in Replicas, process[i].stage \notin Serving PROVE ~process[i].seeded
BY DEF LifecycleInv, SeededServes

LEMMA OffStep ==
  ASSUME Life!LifecycleAssumption, LifecycleInv, NEW i \in Replicas, Life!Ends(i), Life!OnlyProcess
  PROVE  LifecycleInv'
<1>1. Life!Off \in Process /\ Life!Off.stage = "off" /\ ~Life!Off.seeded BY OffIsProcess
<1>2. Becomes(i, Life!Off) BY DEF Life!Ends, Becomes
<1>3. \A role \in Life!Roles : ~Past(Life!Off, role) BY <1>1 DEF Past
<1>4. /\ UNCHANGED <<deployed, matches, admins, deployments, starts>>
      /\ admins \in [Life!Roles -> Passwords \union {None}] /\ starts \in 0..MaxStarts
  BY DEF Life!OnlyProcess, LifecycleInv, Life!TypeOK
<1>5. QED BY <1>1, <1>2, <1>3, <1>4, ProcessStep

\* Steps that write nothing and pass no role with a password.
LEMMA PassingStep ==
  ASSUME Life!LifecycleAssumption, LifecycleInv, NEW i \in Replicas, NEW stage \in Life!Stages,
         Life!Goto(i, stage), Life!OnlyProcess,
         stage = "insert" => matches = 0,
         process[i].seeded => stage \in Serving,
         stage \notin {"write_users", "write_platform_admins"},
         \/ process[i].config \notin Passwords
         \/ stage \in Serving \union {"count", "insert", "users"}
  PROVE  LifecycleInv'
<1>1. PICK q \in Process : /\ Becomes(i, q) /\ q.stage = stage
                           /\ q.config = process[i].config /\ q.seeded = process[i].seeded
  BY GotoStep
<1>2. /\ UNCHANGED <<deployed, matches, admins, deployments, starts>>
      /\ admins \in [Life!Roles -> Passwords \union {None}] /\ starts \in 0..MaxStarts
  BY DEF Life!OnlyProcess, LifecycleInv, Life!TypeOK
<1>3. \A role \in Life!Roles : q.config \notin Passwords \/ (Past(q, role) => Past(process[i], role))
  BY <1>1 DEF Past, Serving
<1>4. QED BY <1>1, <1>2, <1>3, ProcessStep

LEMMA ProcessesRun ==
  ASSUME Life!LifecycleAssumption, LifecycleInv, NEW i \in Replicas,
         \/ Life!Connect(i) \/ Life!GiveUp(i) \/ Life!CountMatches(i) \/ Life!SeedFails(i)
         \/ Life!Signal(i) \/ Life!Exit(i) \/ Life!Crash(i)
         \/ \E role \in Life!Roles : Life!SkipAdmin(i, role)
  PROVE  LifecycleInv'
<1> USE DEF Life!At
<1>1. /\ process[i].seeded => process[i].stage \in Serving
      /\ None \notin Passwords
      /\ \A stage \in Serving \union {"count", "insert", "users", "platform_admins", "seeded"} : stage \in Life!Stages
  BY DEF LifecycleInv, SeededServes, Serving, Life!Stages, Life!Roles, Life!LifecycleAssumption
<1>2. CASE Life!Connect(i) BY <1>1, <1>2, PassingStep DEF Life!Connect, Serving
<1>3. CASE Life!GiveUp(i) BY <1>1, <1>3, PassingStep, OffStep DEF Life!GiveUp, Serving
<1>4. CASE Life!CountMatches(i)
  <2>1. process[i].stage = "count" /\ ~process[i].seeded BY <1>1, <1>4 DEF Life!CountMatches, Serving
  <2>2. CASE Life!Sown BY <1>1, <1>4, <2>1, <2>2, PassingStep DEF Life!CountMatches
  <2>3. CASE ~Life!Sown
    <3>1. matches = 0 BY <2>3 DEF Life!Sown, LifecycleInv, Life!TypeOK
    <3>2. QED BY <1>1, <1>4, <2>1, <2>3, <3>1, PassingStep DEF Life!CountMatches
  <2>4. QED BY <2>2, <2>3
<1>5. CASE Life!SeedFails(i) BY <1>1, <1>5, PassingStep DEF Life!SeedFails, Serving
<1>6. CASE Life!Signal(i) BY <1>1, <1>6, PassingStep DEF Life!Signal, Serving
<1>7. CASE Life!Exit(i) \/ Life!Crash(i) BY <1>7, OffStep DEF Life!Exit, Life!Crash
<1>8. ASSUME NEW role \in Life!Roles, Life!SkipAdmin(i, role) PROVE LifecycleInv'
  <2>1. process[i].config \notin Passwords /\ process[i].stage = role BY <1>1, <1>8 DEF Life!SkipAdmin
  <2>2. Life!After(role) \in {"platform_admins", "seeded"} BY DEF Life!After
  <2>3. ~process[i].seeded BY <1>1, <2>1 DEF Life!Roles, Serving
  <2>4. QED BY <1>1, <1>8, <2>1, <2>2, <2>3, PassingStep DEF Life!SkipAdmin
<1>9. QED BY <1>2, <1>3, <1>4, <1>5, <1>6, <1>7, <1>8

LEMMA ProcessesPrepare ==
  ASSUME Life!LifecycleAssumption, LifecycleInv, NEW i \in Replicas,
         \/ Life!Start(i) \/ Life!RetryConnect(i) \/ Life!SeedDone(i)
         \/ \E role \in Life!Roles : Life!FindAdmin(i, role)
  PROVE  LifecycleInv'
<1>1. /\ process \in [Replicas -> Process] /\ process[i] \in Process
      /\ admins \in [Life!Roles -> Passwords \union {None}] /\ starts \in 0..MaxStarts
      /\ deployed \in Life!Configs /\ process[i].seeded => process[i].stage \in Serving
      /\ process[i].stage \in {"write_users", "write_platform_admins"} => process[i].config \in Passwords
      /\ 1 \in 1..MaxAttempts /\ MaxStarts \in Nat
  BY ReplicasAreFinite
     DEF LifecycleInv, Life!TypeOK, Process, SeededServes, WritersHavePasswords, Life!LifecycleAssumption
<1>2. CASE Life!Start(i)
  <2> DEFINE q == [Life!Off EXCEPT !.stage = "seedDb", !.config = deployed]
  <2>1. /\ Becomes(i, q) /\ starts' = starts + 1 /\ starts < MaxStarts
        /\ UNCHANGED <<deployed, matches, admins, deployments>>
    BY <1>2 DEF Life!Start, Becomes
  <2>2. q \in Process
    <3>1. "seedDb" \in Life!Stages BY DEF Life!Stages
    <3>2. deployed \in Life!Configs BY DEF LifecycleInv, Life!TypeOK
    <3>3. QED BY <3>1, <3>2, OffIsProcess DEF Process
  <2>3. q.stage = "seedDb" /\ ~q.seeded BY OffIsProcess DEF Process
  <2> HIDE DEF q
  <2>4. \A role \in Life!Roles : ~Past(q, role) BY <2>3 DEF Past
  <2>5. starts' \in 0..MaxStarts BY <1>1, <2>1
  <2>6. QED BY <1>1, <2>1, <2>2, <2>3, <2>4, <2>5, ProcessStep
<1>3. CASE Life!RetryConnect(i)
  <2> DEFINE q == [process[i] EXCEPT !.attempt = process[i].attempt + 1]
  <2>1. /\ Becomes(i, q) /\ process[i].attempt < MaxAttempts
        /\ UNCHANGED <<deployed, matches, admins, deployments, starts>>
    BY <1>1, <1>3 DEF Life!RetryConnect, Life!OnlyProcess, Becomes
  <2>2. process[i].attempt + 1 \in 1..MaxAttempts BY <1>1, <2>1, ReplicasAreFinite DEF Process
  <2>3. q \in Process BY <1>1, <2>2 DEF Process
  <2>4. q.stage = process[i].stage /\ q.config = process[i].config /\ q.seeded = process[i].seeded
    BY <1>1 DEF Process
  <2> HIDE DEF q
  <2>5. \A role \in Life!Roles : Past(q, role) => Past(process[i], role) BY <2>4 DEF Past
  <2>6. \A role \in Life!Roles : admins'[role] = admins[role] BY <2>1
  <2>7. UNCHANGED <<deployed, matches, deployments>> /\ starts' \in 0..MaxStarts
        /\ admins' \in [Life!Roles -> Passwords \union {None}]
    BY <1>1, <2>1
  <2>8. Becomes(i, q) BY <2>1
  <2>9. /\ q.seeded => q.stage \in Serving
        /\ q.stage \in {"write_users", "write_platform_admins"} => q.config \in Passwords
    <3>1. CASE process[i].stage \in Serving BY <2>4, <3>1 DEF Serving
    <3>2. CASE process[i].stage \notin Serving BY <1>1, <2>4, <3>2, Unseeded
    <3>3. QED BY <3>1, <3>2
  <2>10. QED BY <2>3, <2>4, <2>5, <2>6, <2>7, <2>8, <2>9, ProcessStep
<1>4. CASE Life!SeedDone(i)
  <2> DEFINE q == [process[i] EXCEPT !.stage = "serverDb", !.seeded = TRUE]
  <2>1. process' = [process EXCEPT ![i].stage = "serverDb", ![i].seeded = TRUE] /\ process[i].stage = "seeded"
        /\ UNCHANGED <<deployed, matches, admins, deployments, starts>>
    BY <1>4 DEF Life!SeedDone, Life!OnlyProcess, Life!At
  <2>2. Becomes(i, q) BY <1>1, <2>1 DEF Process, Becomes
  <2>3. q \in Process BY <1>1 DEF Process, Life!Stages
  <2>4. q.stage = "serverDb" /\ q.config = process[i].config BY <1>1 DEF Process
  <2> HIDE DEF q
  <2>5. \A role \in Life!Roles : Past(process[i], role) BY <2>1 DEF Past
  <2>6. QED BY <1>1, <2>1, <2>2, <2>3, <2>4, <2>5, ProcessStep DEF Serving
<1>5. ASSUME NEW role \in Life!Roles, Life!FindAdmin(i, role) PROVE LifecycleInv'
  <2> DEFINE q == [process[i] EXCEPT !.stage = Life!Writing(role), !.found = (admins[role] # None)]
  <2>1. /\ process[i].stage = role /\ process[i].config \in Passwords
        /\ UNCHANGED <<deployed, matches, admins, deployments, starts>>
    BY <1>5 DEF Life!FindAdmin, Life!OnlyProcess, Life!At
  <2>2. Becomes(i, q) BY <1>1, <1>5 DEF Life!FindAdmin, Process, Becomes
  <2>3. Life!Writing(role) = IF role = "users" THEN "write_users" ELSE "write_platform_admins" BY DEF Life!Writing
  <2>4. Life!Writing(role) \in Life!Stages /\ (admins[role] # None) \in BOOLEAN BY DEF Life!Stages
  <2>5. q \in Process BY <1>1, <2>4 DEF Process
  <2>6. q.stage = Life!Writing(role) /\ q.config = process[i].config /\ q.seeded = process[i].seeded
    BY <1>1 DEF Process
  <2> HIDE DEF q
  <2>7. ~process[i].seeded BY <2>1, Unseeded DEF Life!Roles, Serving
  <2>8. \A other \in Life!Roles : Past(q, other) => Past(process[i], other)
    BY <2>1, <2>3, <2>6, <2>7 DEF Past, Life!Roles
  <2>9. q.stage # "insert" BY <2>3, <2>6
  <2>10. QED BY <1>1, <2>1, <2>2, <2>5, <2>6, <2>7, <2>8, <2>9, ProcessStep
<1>6. QED BY <1>2, <1>3, <1>4, <1>5

\* ensureAdmin and ensurePlatformAdmin: the UPDATE or the INSERT.
LEMMA AdminsWritten ==
  ASSUME Life!LifecycleAssumption, LifecycleInv, NEW i \in Replicas, NEW role \in Life!Roles,
         Life!UpdateAdmin(i, role) \/ Life!InsertAdmin(i, role)
  PROVE  LifecycleInv'
<1>1. /\ process[i].stage = Life!Writing(role) /\ Life!Goto(i, Life!After(role))
      /\ admins' = [admins EXCEPT ![role] = process[i].config]
      /\ UNCHANGED <<deployed, matches, starts, deployments>>
  BY DEF Life!UpdateAdmin, Life!InsertAdmin, Life!Rotated, Life!At
<1>2. /\ admins \in [Life!Roles -> Passwords \union {None}] /\ starts \in 0..MaxStarts
  BY DEF LifecycleInv, Life!TypeOK
<1>3. Life!Writing(role) = IF role = "users" THEN "write_users" ELSE "write_platform_admins" BY DEF Life!Writing
<1>4. Life!After(role) = IF role = "users" THEN "platform_admins" ELSE "seeded" BY DEF Life!After
<1>5. process[i].config \in Passwords BY <1>1, <1>3 DEF LifecycleInv, WritersHavePasswords
<1>6. Life!After(role) \in Life!Stages BY <1>4 DEF Life!Stages, Life!Roles
<1>7. PICK q \in Process : /\ Becomes(i, q) /\ q.stage = Life!After(role)
                           /\ q.config = process[i].config /\ q.seeded = process[i].seeded
  BY <1>1, <1>6, GotoStep
<1>8. ~process[i].seeded /\ ~q.seeded
  <2>1. process[i].stage \notin Serving BY <1>1, <1>3 DEF Serving
  <2>2. QED BY <1>7, <2>1, Unseeded
<1>9. \A other \in Life!Roles :
        \/ admins'[other] = q.config
        \/ admins'[other] = admins[other] /\ (Past(q, other) => Past(process[i], other))
  <2>1. admins'[role] = q.config /\ \A other \in Life!Roles : other # role => admins'[other] = admins[other]
    BY <1>1, <1>2, <1>7
  <2>2. ASSUME NEW other \in Life!Roles, other # role, Past(q, other) PROVE Past(process[i], other)
    <3>1. CASE role = "users" BY <1>4, <1>7, <1>8, <2>2, <3>1 DEF Past
    <3>2. CASE role # "users"
      <4>1. other = "users" BY <2>2, <3>2 DEF Life!Roles
      <4>2. process[i].stage = "write_platform_admins" BY <1>1, <1>3, <3>2
      <4>3. QED BY <4>1, <4>2 DEF Past
    <3>3. QED BY <3>1, <3>2
  <2>3. QED BY <2>1, <2>2
<1>10. admins' \in [Life!Roles -> Passwords \union {None}] BY <1>1, <1>2, <1>5
<1>11. q.stage \notin {"insert", "write_users", "write_platform_admins"} BY <1>4, <1>7
<1>12. UNCHANGED <<deployed, matches, deployments>> /\ starts' \in 0..MaxStarts BY <1>1, <1>2
<1>13. QED BY <1>7, <1>8, <1>9, <1>10, <1>11, <1>12, ProcessStep

\* seedDemoData: the transaction.
LEMMA MatchesSown ==
  ASSUME Life!LifecycleAssumption, LifecycleInv, NEW i \in Replicas, Life!InsertMatches(i)
  PROVE  LifecycleInv'
<1>1. /\ process[i].stage = "insert" /\ Life!Goto(i, "users") /\ matches' = matches + 1
      /\ UNCHANGED <<deployed, admins, starts, deployments>>
  BY DEF Life!InsertMatches, Life!At
<1>2. "users" \in Life!Stages BY DEF Life!Stages, Life!Roles
<1>3. PICK q \in Process : /\ Becomes(i, q) /\ q.stage = "users"
                           /\ q.config = process[i].config /\ q.seeded = process[i].seeded
  BY <1>1, <1>2, GotoStep
<1>4. process \in [Replicas -> Process] /\ matches \in Nat BY DEF LifecycleInv, Life!TypeOK, Process
<1>5. process' \in [Replicas -> Process] BY <1>3, <1>4 DEF Becomes
<1>6. \A j \in Replicas : process'[j] = IF j = i THEN q ELSE process[j] BY <1>3, <1>4 DEF Becomes
<1>7. ~q.seeded BY <1>1, <1>3, Unseeded DEF Serving
<1>8. Life!TypeOK' BY <1>1, <1>4, <1>5 DEF LifecycleInv, Life!TypeOK, Process
<1>9. SeededServes' /\ WritersHavePasswords'
  BY <1>3, <1>6, <1>7 DEF LifecycleInv, SeededServes, WritersHavePasswords
<1>10. WrittenByAll'
  <2>1. \A role \in Life!Roles : admins'[role] = admins[role] /\ ~Past(q, role) BY <1>1, <1>3, <1>7 DEF Past
  <2>2. QED BY <1>3, <2>1, WritersPass
<1>11. SownOrSowing'
  <2>1. Sowing' = Sowing \ {i} /\ i \in Sowing BY <1>1, <1>3, <1>6 DEF Sowing
  <2>2. Cardinality(Sowing') = Cardinality(Sowing) - 1 BY <2>1, SowingCount, FS_RemoveElement
  <2>3. matches + Cardinality(Sowing) <= Cardinality(Replicas)
    BY SowingCount, ReplicasAreFinite DEF LifecycleInv, SownOrSowing
  <2>4. QED BY <1>1, <1>4, <2>2, <2>3, SowingCount, ReplicasAreFinite DEF SownOrSowing
<1>12. QED BY <1>8, <1>9, <1>10, <1>11 DEF LifecycleInv

LEMMA LifecycleStart == ASSUME Life!LifecycleAssumption, Life!Init PROVE LifecycleInv
<1>1. /\ deployed \in Life!Configs /\ process = [i \in Replicas |-> Life!Off] /\ matches = 0
      /\ admins = [role \in Life!Roles |-> None] /\ starts = 0 /\ deployments = 0
  BY DEF Life!Init
<1>2. \A i \in Replicas : process[i] = Life!Off BY <1>1
<1>3. process \in [Replicas -> Process] BY <1>1, OffIsProcess
<1>4. starts \in 0..MaxStarts /\ deployments \in 0..MaxDeployments /\ admins \in [Life!Roles -> Passwords \union {None}]
  BY <1>1 DEF Life!LifecycleAssumption
<1>5. Life!TypeOK BY <1>1, <1>3, <1>4 DEF Life!TypeOK, Process
<1>6. SeededServes /\ WritersHavePasswords BY <1>2, OffIsProcess DEF SeededServes, WritersHavePasswords
<1>7. \A role \in Life!Roles, i \in Replicas : ~Past(process[i], role) BY <1>2, OffIsProcess DEF Past
<1>8. WrittenByAll BY <1>7, ReplicasAreFinite DEF WrittenByAll
<1>9. QED BY <1>1, <1>5, <1>6, <1>8 DEF LifecycleInv, SownOrSowing

LEMMA LifecycleStep ==
  ASSUME Life!LifecycleAssumption, LifecycleInv, Life!Next \/ UNCHANGED processVars PROVE LifecycleInv'
<1>1. CASE UNCHANGED processVars
  BY <1>1 DEF processVars, LifecycleInv, Life!TypeOK, SeededServes, WritersHavePasswords, WrittenByAll,
              SownOrSowing, Sowing
<1>2. ASSUME NEW password \in Life!Configs, Life!Redeploy(password) PROVE LifecycleInv'
  <2>1. /\ deployments' \in 0..MaxDeployments /\ deployed' = password
        /\ UNCHANGED <<process, matches, admins, starts>>
    BY <1>2 DEF Life!Redeploy, LifecycleInv, Life!TypeOK, Life!LifecycleAssumption
  <2>2. QED
    BY <1>2, <2>1
       DEF LifecycleInv, Life!TypeOK, SeededServes, WritersHavePasswords, WrittenByAll, SownOrSowing, Sowing
<1>3. QED
  BY <1>1, <1>2, ProcessesRun, ProcessesPrepare, AdminsWritten, MatchesSown DEF Life!Next, Life!Proceed

LEMMA LifecycleAlone ==
  ASSUME [PlatformNext]_everything PROVE Life!Next \/ UNCHANGED processVars
BY DEF PlatformNext, everything

THEOREM LifecycleInvariance == PlatformSpec => []LifecycleInv
<1>1. PlatformInit => LifecycleInv BY PlatformAssumption, LifecycleStart DEF PlatformInit
<1>2. LifecycleInv /\ [PlatformNext]_everything => LifecycleInv'
  BY PlatformAssumption, LifecycleAlone, LifecycleStep
<1>3. QED BY <1>1, <1>2, PTL DEF PlatformSpec

\* seedDemoData counts and inserts without a lock: whatever replicas start, crash
\* and restart together, the catalogue is sown at most once for each of them.
THEOREM SownOnceEach == PlatformSpec => []SownAtMostOnceEach
<1>1. ASSUME LifecycleInv PROVE Life!SownAtMostOnceEach
  <2>1. matches \in Nat /\ (matches = 0 \/ matches + Cardinality(Sowing) <= Cardinality(Replicas))
    BY <1>1 DEF LifecycleInv, Life!TypeOK, SownOrSowing
  <2>2. QED BY PlatformAssumption, <2>1, SowingCount, ReplicasAreFinite DEF PlatformAssumption, Life!SownAtMostOnceEach
<1>2. LifecycleInv => SownAtMostOnceEach BY <1>1 DEF SownAtMostOnceEach
<1>3. QED BY <1>2, LifecycleInvariance, PTL

\* ensureAdmin, ensurePlatformAdmin: when every replica serves with the password
\* deployed after a seed without errors, both administrators have it.
THEOREM PasswordsSettle == PlatformSpec => []RotationSettles
<1>1. ASSUME LifecycleInv PROVE Life!RotationSettles
  BY <1>1 DEF LifecycleInv, WrittenByAll, Past, Life!RotationSettles
<1>2. LifecycleInv => RotationSettles BY <1>1 DEF RotationSettles
<1>3. QED BY <1>2, LifecycleInvariance, PTL

-----------------------------------------------------------------------------
\* The rate limit: what a counter has let through since the interval of an age.
PassedSince(c, age) == Summed(passed[c], 0..age)
Last == Window - 1

RateKeys == [count : Nat, left : 1..Window \union {None}]
RateHits == [stage : {"idle", "incr", "pexpire"}, process : Processes \union {None}, window : Nat,
             count : {0, 1}, age : Int]

RateTypes ==
  /\ phase \in Rate!Recent
  /\ keys \in [Rate!Windows -> RateKeys]
  /\ \A p \in Processes : buckets[p] = None \/ buckets[p] \in [count : Nat \ {0}, left : 0..Window]
  /\ DOMAIN buckets = Processes
  /\ hit \in [Requests -> RateHits]
  /\ \A r \in Requests : hit[r].stage # "idle" => hit[r].process \in Processes
  /\ \A r \in Requests : hit[r].stage = "pexpire" => hit[r].count = 1
  /\ passed \in [Rate!Counters -> [Rate!Recent -> Nat]]

\* A process with a bucket that is over has let through what the last one did; one
\* with a bucket in use, what the bucket counts and what the one before it did.
BucketBound(p) ==
  IF Rate!Expired(p)
  THEN passed[p][0] = 0 /\ PassedSince(p, Last) <= MaxPerMinute
  ELSE LET age == Window - buckets[p].left
       IN  /\ PassedSince(p, age) <= buckets[p].count /\ PassedSince(p, age) <= MaxPerMinute
           /\ PassedSince(p, Last) - PassedSince(p, age) <= MaxPerMinute

\* Hits of windows that are over, and hits of this one about to pass.
Late == {r \in Requests : hit[r].stage # "idle" /\ hit[r].window # 0}
Passing == {r \in Requests : hit[r].stage = "pexpire" /\ hit[r].window = 0 /\ 1 <= MaxPerMinute}

\* The key of this window does not expire within it; what has passed since it began
\* passed by this key or was under way; likewise what passed before.
KeyStays == keys[0].left # None => keys[0].left >= Window - phase
UnderWay == PassedSince("redis", phase) + Cardinality(Late) + Cardinality(Passing)
KeysBound ==
  /\ UnderWay <= Cardinality(Requests) + keys[0].count
  /\ UnderWay <= Cardinality(Requests) + MaxPerMinute
  /\ PassedSince("redis", Last) - PassedSince("redis", phase) <= Cardinality(Requests) + MaxPerMinute

RateInv == RateTypes /\ (\A p \in Processes : BucketBound(p)) /\ KeyStays /\ KeysBound

LEMMA RateConstants ==
  ASSUME Rate!RateLimitAssumption
  PROVE  /\ IsFiniteSet(Requests) /\ Cardinality(Requests) \in Nat /\ "redis" \notin Processes
         /\ None \notin Processes /\ None \notin Nat /\ MaxPerMinute \in Nat
         /\ Window \in Nat \ {0} /\ Last \in Nat /\ Rate!Recent = 0..Last /\ 0 \in Rate!Windows /\ Rate!Oldest \in Nat
         /\ None \notin [count : Nat, left : Nat]
<1>1. Rate!IsFiniteSet(Requests) <=> IsFiniteSet(Requests) BY Zenon DEF IsFiniteSet, Rate!IsFiniteSet
<1>2. /\ IsFiniteSet(Requests) /\ "redis" \notin Processes /\ None \notin Processes /\ None \notin Nat
      /\ MaxPerMinute \in Nat /\ Window \in Nat \ {0} /\ HitPatience \in Nat
      /\ None \notin [count : Nat, left : Nat]
  BY <1>1 DEF Rate!RateLimitAssumption
<1>3. 0 \in Rate!Windows /\ Rate!Oldest \in Nat
  <2>1. \A a \in Nat, b \in Nat \ {0} : a \div b \in Nat OBVIOUS
  <2>2. HitPatience + Window - 1 \in Nat BY <1>2
  <2>3. Rate!Oldest \in Nat BY <1>2, <2>1, <2>2 DEF Rate!Oldest
  <2>4. QED BY <2>3 DEF Rate!Windows
<1>4. QED BY <1>2, <1>3, FS_CardinalityType DEF Last, Rate!Recent

\* Sums since an age, of counts that grow by one, or older by an interval.
LEMMA SinceIsNat ==
  ASSUME NEW n \in Nat, NEW f, \A age \in 0..n : f[age] \in Nat
  PROVE  \A age \in 0..n : Summed(f, 0..age) \in Nat
<1> SUFFICES ASSUME NEW age \in 0..n PROVE Summed(f, 0..age) \in Nat OBVIOUS
<1>1. IsFiniteSet(0..age) BY FS_Interval
<1>2. \A k \in 0..age : f[k] \in Nat OBVIOUS
<1>3. QED BY <1>1, <1>2, SumIsNat

LEMMA SinceGrows ==
  ASSUME NEW n \in Nat, NEW f, \A age \in 0..n : f[age] \in Nat,
         NEW g, \A age \in 0..n : g[age] = IF age = 0 THEN f[age] + 1 ELSE f[age]
  PROVE  \A age \in 0..n : Summed(g, 0..age) = Summed(f, 0..age) + 1
<1> SUFFICES ASSUME NEW age \in 0..n PROVE Summed(g, 0..age) = Summed(f, 0..age) + 1 OBVIOUS
<1> DEFINE S == 0..age
<1>1. IsFiniteSet(S) /\ 0 \in S BY FS_Interval
<1>2. \A k \in S : f[k] \in Int /\ g[k] \in Int OBVIOUS
<1>3. \A k \in S \ {0} : g[k] = f[k] OBVIOUS
<1>4. g[0] = f[0] + 1 /\ f[0] \in Int OBVIOUS
<1> HIDE DEF S
<1>5. Summed(g, S) = Summed(f, S) - f[0] + g[0] BY <1>1, <1>2, <1>3, SumOfChange
<1>6. Summed(f, S) \in Int
  <2>1. \A k \in S : f[k] \in Int BY <1>2
  <2>2. QED BY <1>1, <2>1, SumIsInt
<1>7. QED BY <1>4, <1>5, <1>6 DEF S

Counting(f, n) == \A age \in 0..n : f[age] \in Nat
Aging(g, f, n) == \A age \in 0..n : g[age] = IF age = 0 THEN 0 ELSE f[age - 1]
LEMMA SinceOlder ==
  ASSUME NEW n \in Nat, NEW f, Counting(f, n), NEW g, Aging(g, f, n), NEW now \in 0..n
  PROVE  /\ Summed(g, 0..now) <= Summed(f, 0..now)
         /\ Summed(g, 0..now) = IF now = 0 THEN 0 ELSE Summed(f, 0..(now - 1))
<1>0. /\ \A age \in 0..n : f[age] \in Nat
      /\ \A age \in 0..n : g[age] = IF age = 0 THEN 0 ELSE f[age - 1]
  BY DEF Counting, Aging
<1>1. ASSUME NEW age \in 0..n
      PROVE  Summed(g, 0..age) = Summed(f, 0..age) - f[age] /\ Summed(f, 0..age) \in Nat /\ f[age] \in Nat
  <2>1. \A k \in 0..age : f[k] \in Int BY <1>0, <1>1
  <2>2. \A k \in 0..age : g[k] = IF k = 0 THEN 0 ELSE f[k - 1] BY <1>0, <1>1
  <2>3. age \in Nat BY <1>1
  <2>4. Summed(g, 0..age) = Summed(f, 0..age) - f[age] BY <2>1, <2>2, <2>3, SumOfOlder
  <2>5. QED BY <1>0, <1>1, <2>4, SinceIsNat
<1>2. ASSUME NEW age \in 0..n, age # 0 PROVE Summed(g, 0..age) = Summed(f, 0..(age - 1))
  <2> DEFINE S == 0..(age - 1)
  <2>1. IsFiniteSet(S) /\ age \notin S /\ S \union {age} = 0..age
    <3>1. IsFiniteSet(S) BY <1>2, FS_Interval
    <3>2. age \notin S BY <1>2
    <3>3. \A k : k \in S \union {age} <=> k \in 0..age BY <1>2
    <3> HIDE DEF S
    <3>4. S \union {age} = 0..age BY <3>3
    <3>5. QED BY <3>1, <3>2, <3>4
  <2>2. \A k \in S \union {age} : f[k] \in Int BY <1>0, <1>2
  <2> HIDE DEF S
  <2>3. Summed(f, S \union {age}) = f[age] + Summed(f, S) /\ Summed(f, S) \in Int
    BY <2>1, <2>2, SumAdds
  <2>4. Summed(f, 0..age) = f[age] + Summed(f, S) /\ Summed(f, S) \in Int BY <2>1, <2>3
  <2>5. Summed(g, 0..age) = Summed(f, 0..age) - f[age] /\ f[age] \in Nat BY <1>1, <1>2
  <2>6. Summed(g, 0..age) = Summed(f, S) BY <2>4, <2>5
  <2>7. QED BY <2>6 DEF S
<1>3. Summed(g, 0..0) = 0
  <2>1. 0 \in 0..n /\ 0..0 = {0} OBVIOUS
  <2>2. IsFiniteSet({0}) /\ \A k \in {0} : g[k] = 0 BY <1>0, <2>1, FS_Singleton
  <2>3. Summed(g, {0}) = 0 BY <2>2, SumOfZeros
  <2>4. QED BY <2>1, <2>3
<1>4. Summed(g, 0..now) <= Summed(f, 0..now)
  <2>1. /\ Summed(g, 0..now) = Summed(f, 0..now) - f[now] /\ Summed(f, 0..now) \in Nat /\ f[now] \in Nat
    BY <1>1
  <2>2. QED BY <2>1
<1>5. CASE now = 0 BY <1>3, <1>4, <1>5
<1>6. CASE now # 0 BY <1>2, <1>4, <1>6
<1>7. QED BY <1>5, <1>6

LEMMA PassedIsNat ==
  ASSUME RateTypes, Rate!RateLimitAssumption
  PROVE  /\ \A c \in Rate!Counters : \A age \in 0..Last : passed[c][age] \in Nat /\ PassedSince(c, age) \in Nat
         /\ phase \in 0..Last
<1>1. Last \in Nat /\ Rate!Recent = 0..Last BY RateConstants
<1> SUFFICES ASSUME NEW c \in Rate!Counters
             PROVE  \A age \in 0..Last : passed[c][age] \in Nat /\ PassedSince(c, age) \in Nat
  BY <1>1 DEF RateTypes
<1> DEFINE f == passed[c]
<1>2. \A age \in 0..Last : f[age] \in Nat BY <1>1 DEF RateTypes
<1> HIDE DEF f
<1>3. \A age \in 0..Last : Summed(f, 0..age) \in Nat BY <1>1, <1>2, SinceIsNat
<1>4. QED BY <1>2, <1>3 DEF f, PassedSince

\* A counter lets one more through, or none.
LEMMA Lets ==
  ASSUME RateTypes, Rate!RateLimitAssumption, NEW c \in Rate!Counters, NEW count, Rate!Decide(c, count)
  PROVE  /\ passed' \in [Rate!Counters -> [Rate!Recent -> Nat]]
         /\ \A d \in Rate!Counters \ {c} : passed'[d] = passed[d]
         /\ IF count > MaxPerMinute THEN passed' = passed
            ELSE \A age \in 0..Last : PassedSince(c, age)' = PassedSince(c, age) + 1
<1>1. CASE count > MaxPerMinute
  <2>1. passed' = passed BY <1>1 DEF Rate!Decide, Rate!Limited
  <2>2. QED BY <1>1, <2>1 DEF RateTypes
<1>2. CASE ~(count > MaxPerMinute)
  <2>1. passed' = [passed EXCEPT ![c][0] = @ + 1] BY <1>2 DEF Rate!Decide, Rate!Limited
  <2>2. Last \in Nat /\ Rate!Recent = 0..Last /\ 0 \in Rate!Recent BY RateConstants
  <2>3. passed \in [Rate!Counters -> [Rate!Recent -> Nat]] BY DEF RateTypes
  <2> DEFINE f == passed[c]
             g == passed'[c]
             h == [f EXCEPT ![0] = @ + 1]
  <2>4. f \in [Rate!Recent -> Nat] BY <2>3
  <2>5. h \in [Rate!Recent -> Nat]
    <3> HIDE DEF f
    <3>1. f[0] + 1 \in Nat BY <2>2, <2>4
    <3>2. QED BY <2>4, <3>1
  <2>6. passed' = [passed EXCEPT ![c] = h] /\ g = h BY <2>1, <2>3
  <2>7. passed' \in [Rate!Counters -> [Rate!Recent -> Nat]]
    <3> HIDE DEF h
    <3>1. QED BY <2>3, <2>5, <2>6
  <2>8. \A d \in Rate!Counters \ {c} : passed'[d] = passed[d] BY <2>3, <2>6
  <2>9. \A age \in 0..Last : f[age] \in Nat BY <2>2, <2>4
  <2>10. \A age \in 0..Last : g[age] = IF age = 0 THEN f[age] + 1 ELSE f[age] BY <2>2, <2>4, <2>6
  <2> HIDE DEF f, g, h
  <2>11. \A age \in 0..Last : Summed(g, 0..age) = Summed(f, 0..age) + 1 BY <2>2, <2>9, <2>10, SinceGrows
  <2>12. QED BY <1>2, <2>7, <2>8, <2>11 DEF f, g, PassedSince
<1>3. QED BY <1>1, <1>2

LEMMA SinceNow ==
  ASSUME NEW f, f[0] \in Nat
  PROVE  Summed(f, 0..0) = f[0]
<1>1. 0..0 = {} \union {0} /\ IsFiniteSet({}) /\ 0 \notin {} BY FS_EmptySet
<1>2. \A k \in {} \union {0} : f[k] \in Int OBVIOUS
<1> DEFINE E == {}
<1>3. IsFiniteSet(E) /\ 0 \notin E /\ \A k \in E \union {0} : f[k] \in Int BY <1>1, <1>2
<1>4. Summed(f, E) = 0 BY SumOfNone
<1> HIDE DEF E
<1>5. Summed(f, E \union {0}) = f[0] + Summed(f, E)
  <2>1. PICK x : x = 0 OBVIOUS
  <2>2. x \notin E /\ \A k \in E \union {x} : f[k] \in Int BY <1>3, <2>1
  <2>3. Summed(f, E \union {x}) = f[x] + Summed(f, E) BY <1>3, <2>2, SumAdds
  <2>4. QED BY <2>1, <2>3
<1>6. QED BY <1>1, <1>4, <1>5 DEF E

LEMMA InUse ==
  ASSUME NEW p \in Processes, NEW age \in 0..Last, Window \in Nat, Last \in Nat,
         ~Rate!Expired(p)', buckets'[p].left = Window - age,
         PassedSince(p, age)' <= buckets'[p].count, PassedSince(p, age)' <= MaxPerMinute,
         PassedSince(p, Last)' - PassedSince(p, age)' <= MaxPerMinute
  PROVE  BucketBound(p)'
<1>1. PICK k : k = Window - buckets'[p].left OBVIOUS
<1>2. k = age BY <1>1
<1>3. /\ PassedSince(p, k)' <= buckets'[p].count /\ PassedSince(p, k)' <= MaxPerMinute
      /\ PassedSince(p, Last)' - PassedSince(p, k)' <= MaxPerMinute
  BY <1>2
<1>4. QED BY <1>1, <1>3 DEF BucketBound, PassedSince

\* Other processes do not see a bucket change.
LEMMA OtherBuckets ==
  ASSUME NEW q, BucketBound(q), buckets'[q] = buckets[q], passed'[q] = passed[q]
  PROVE  BucketBound(q)'
BY DEF BucketBound, PassedSince, Rate!Expired, Last

LEMMA MemoryKeeps ==
  ASSUME RateTypes, Rate!RateLimitAssumption, \A q \in Processes : BucketBound(q),
         NEW p \in Processes, Rate!MemoryHit(p)
  PROVE  /\ \A q \in Processes : BucketBound(q)'
         /\ passed' \in [Rate!Counters -> [Rate!Recent -> Nat]]
         /\ DOMAIN buckets' = Processes
         /\ \A q \in Processes : buckets'[q] = None \/ buckets'[q] \in [count : Nat \ {0}, left : 0..Window]
         /\ passed'["redis"] = passed["redis"]
<1> DEFINE b == Rate!Bucket(p)
<1>1. buckets' = [buckets EXCEPT ![p] = b] /\ Rate!Decide(p, b.count) BY DEF Rate!MemoryHit
<1>2. /\ Window \in Nat \ {0} /\ Last = Window - 1 /\ Last \in Nat /\ MaxPerMinute \in Nat /\ 0 \in Rate!Recent
      /\ None \notin Nat
  BY RateConstants DEF Last
<1>3. p \in Rate!Counters /\ "redis" \in Rate!Counters \ {p} BY RateConstants DEF Rate!Counters
<1>4. buckets[p] = None \/ buckets[p] \in [count : Nat \ {0}, left : 0..Window] BY DEF RateTypes
<1>5. b \in [count : Nat \ {0}, left : 1..Window]
  <2>1. CASE Rate!Expired(p) BY <1>2, <2>1 DEF Rate!Bucket
  <2>2. CASE ~Rate!Expired(p)
    <3>1. buckets[p] \in [count : Nat \ {0}, left : 1..Window] BY <1>4, <2>2 DEF Rate!Expired
    <3>2. \A n \in Nat \ {0} : Rate!Plus1(n) \in Nat \ {0} BY DEF Rate!Plus1
    <3>3. b = [buckets[p] EXCEPT !.count = Rate!Plus1(@)] BY <2>2 DEF Rate!Bucket
    <3> HIDE DEF b
    <3>4. QED BY <3>1, <3>2, <3>3
  <2>3. QED BY <2>1, <2>2
<1>6. buckets'[p] = b /\ \A q \in Processes \ {p} : buckets'[q] = buckets[q] BY <1>1 DEF RateTypes
<1>7. DOMAIN buckets' = Processes BY <1>1 DEF RateTypes
<1>8. ~Rate!Expired(p)'
  <2>1. b # None
    <3> HIDE DEF b
    <3>1. b \in [count : Nat, left : Nat] BY <1>5
    <3>2. QED BY <3>1, RateConstants
  <2> HIDE DEF b
  <2>2. b.left # 0 BY <1>5
  <2>3. QED BY <1>6, <2>1, <2>2 DEF Rate!Expired
<1> HIDE DEF b
<1>9. b.left \in 1..Window /\ b.count \in Nat \ {0} BY <1>5
<1>10. /\ passed' \in [Rate!Counters -> [Rate!Recent -> Nat]]
       /\ \A q \in Rate!Counters \ {p} : passed'[q] = passed[q]
       /\ IF b.count > MaxPerMinute THEN passed' = passed
          ELSE \A age \in 0..Last : PassedSince(p, age)' = PassedSince(p, age) + 1
  BY <1>1, <1>3, Lets
<1>11. \A age \in 0..Last : passed[p][age] \in Nat /\ PassedSince(p, age) \in Nat BY <1>3, PassedIsNat
<1>12. BucketBound(p)'
  <2>1. CASE Rate!Expired(p)
    <3>1. b = [count |-> 1, left |-> Window] BY <2>1 DEF Rate!Bucket, b
    <3>2. b.count = 1 /\ b.left = Window BY <3>1
    <3>3. passed[p][0] = 0 /\ PassedSince(p, Last) <= MaxPerMinute BY <2>1 DEF BucketBound
    <3>4. PassedSince(p, 0) = 0
      <4> DEFINE f == passed[p]
      <4>1. f[0] = 0 /\ f[0] \in Nat BY <3>3
      <4> HIDE DEF f
      <4>2. Summed(f, 0..0) = 0 BY <4>1, SinceNow
      <4>3. QED BY <4>2 DEF PassedSince, f
    <3>5. 0 \in 0..Last /\ Last \in 0..Last BY <1>2
    <3>6. CASE 1 > MaxPerMinute
      <4>1. passed' = passed BY <1>10, <3>2, <3>6
      <4>2. PassedSince(p, 0)' = 0 /\ PassedSince(p, Last)' = PassedSince(p, Last)
        BY <3>4, <4>1 DEF PassedSince, Last
      <4>3. PassedSince(p, Last)' - PassedSince(p, 0)' <= MaxPerMinute BY <1>11, <3>3, <3>5, <4>2
      <4>4. QED BY <1>2, <1>6, <1>8, <3>2, <3>5, <4>2, <4>3, InUse
    <3>7. CASE ~(1 > MaxPerMinute)
      <4>1. \A age \in 0..Last : PassedSince(p, age)' = PassedSince(p, age) + 1 BY <1>10, <3>2, <3>7
      <4>2. PassedSince(p, 0)' = 1 /\ PassedSince(p, Last)' = PassedSince(p, Last) + 1
        <5>1. PassedSince(p, Last)' = Summed(passed'[p], 0..Last) BY DEF PassedSince, Last
        <5>2. QED BY <3>4, <3>5, <4>1
      <4>3. PassedSince(p, Last)' - PassedSince(p, 0)' <= MaxPerMinute BY <1>11, <3>3, <3>5, <4>2
      <4>4. QED BY <1>2, <1>6, <1>8, <3>2, <3>5, <3>7, <4>2, <4>3, InUse
    <3>8. QED BY <3>6, <3>7
  <2>2. CASE ~Rate!Expired(p)
    <3>1. b = [buckets[p] EXCEPT !.count = Rate!Plus1(@)] BY <2>2 DEF Rate!Bucket, b
    <3>2. buckets[p] \in [count : Nat \ {0}, left : 1..Window] BY <1>4, <2>2 DEF Rate!Expired
    <3>3. b.left = buckets[p].left /\ b.count = Rate!Plus1(buckets[p].count) /\ buckets[p].count \in Nat
      BY <3>1, <3>2
    <3>4. PICK age : age = Window - buckets[p].left OBVIOUS
    <3>5. age \in 0..Last /\ Last \in 0..Last /\ buckets'[p].left = Window - age
      BY <1>2, <1>6, <1>9, <3>3, <3>4
    <3>6. /\ PassedSince(p, age) <= buckets[p].count /\ PassedSince(p, age) <= MaxPerMinute
          /\ PassedSince(p, Last) - PassedSince(p, age) <= MaxPerMinute
      BY <2>2, <3>4 DEF BucketBound
    <3>7. PassedSince(p, age) \in Nat /\ PassedSince(p, Last) \in Nat BY <1>11, <3>5
    <3>8. CASE b.count > MaxPerMinute
      <4>1. passed' = passed BY <1>10, <3>8
      <4>2. PassedSince(p, age)' = PassedSince(p, age) /\ PassedSince(p, Last)' = PassedSince(p, Last)
        BY <4>1 DEF PassedSince, Last
      <4>3. buckets'[p].count = b.count /\ b.count >= buckets[p].count BY <1>6, <3>3 DEF Rate!Plus1
      <4>4. /\ PassedSince(p, age)' <= buckets'[p].count /\ PassedSince(p, age)' <= MaxPerMinute
            /\ PassedSince(p, Last)' - PassedSince(p, age)' <= MaxPerMinute
        BY <1>9, <3>3, <3>6, <3>7, <4>2, <4>3
      <4>5. QED BY <1>2, <1>8, <3>5, <4>4, InUse
    <3>9. CASE ~(b.count > MaxPerMinute)
      <4>1. \A k \in 0..Last : PassedSince(p, k)' = PassedSince(p, k) + 1 BY <1>10, <3>9
      <4>2. PassedSince(p, age)' = PassedSince(p, age) + 1 /\ PassedSince(p, Last)' = PassedSince(p, Last) + 1
        BY <3>5, <4>1
      <4>3. buckets'[p].count = buckets[p].count + 1 /\ buckets[p].count + 1 <= MaxPerMinute
        BY <1>2, <1>6, <3>3, <3>9 DEF Rate!Plus1
      <4>4. /\ PassedSince(p, age)' <= buckets'[p].count /\ PassedSince(p, age)' <= MaxPerMinute
            /\ PassedSince(p, Last)' - PassedSince(p, age)' <= MaxPerMinute
        BY <1>2, <3>3, <3>6, <3>7, <4>2, <4>3
      <4>5. QED BY <1>2, <1>8, <3>5, <4>4, InUse
    <3>10. QED BY <3>8, <3>9
  <2>3. QED BY <2>1, <2>2
<1>13. \A q \in Processes : BucketBound(q)'
  <2> SUFFICES ASSUME NEW q \in Processes, q # p PROVE BucketBound(q)' BY <1>12
  <2>1. passed'[q] = passed[q] /\ buckets'[q] = buckets[q] BY <1>6, <1>10 DEF Rate!Counters
  <2>2. QED BY <2>1, OtherBuckets
<1>14. \A q \in Processes : buckets'[q] = None \/ buckets'[q] \in [count : Nat \ {0}, left : 0..Window]
  <2>1. b \in [count : Nat \ {0}, left : 0..Window] BY <1>5
  <2>2. QED BY <1>6, <2>1 DEF RateTypes
<1>15. passed'["redis"] = passed["redis"] BY <1>3, <1>10
<1>16. QED BY <1>7, <1>10, <1>13, <1>14, <1>15

LEMMA HitSets ==
  ASSUME Rate!RateLimitAssumption
  PROVE  /\ IsFiniteSet(Late) /\ IsFiniteSet(Passing) /\ Cardinality(Late) \in Nat /\ Cardinality(Passing) \in Nat
         /\ Cardinality(Late)' \in Nat /\ Cardinality(Passing)' \in Nat /\ Cardinality(Late)' <= Cardinality(Requests)
<1>1. /\ Late \subseteq Requests /\ Passing \subseteq Requests /\ Late' \subseteq Requests /\ Passing' \subseteq Requests
      /\ IsFiniteSet(Requests)
  BY RateConstants DEF Late, Passing
<1>2. QED BY <1>1, FS_Subset, FS_CardinalityType

\* A hit ends, perhaps one that was late or about to pass.
LEMMA Finishing ==
  ASSUME RateTypes, Rate!RateLimitAssumption, NEW r \in Requests, hit' = [hit EXCEPT ![r] = Rate!NoHit]
  PROVE  /\ Cardinality(Late)' + Cardinality(Passing)' <= Cardinality(Late) + Cardinality(Passing)
         /\ r \in Late \union Passing =>
              Cardinality(Late)' + Cardinality(Passing)' + 1 <= Cardinality(Late) + Cardinality(Passing)
<1>1. \A q \in Requests : hit'[q] = IF q = r THEN Rate!NoHit ELSE hit[q] BY DEF RateTypes
<1>2. Rate!NoHit.stage = "idle" BY DEF Rate!NoHit
<1>3. Late' = Late \ {r} BY <1>1, <1>2 DEF Late
<1>4. Passing' = Passing \ {r} BY <1>1, <1>2 DEF Passing
<1>5. /\ Cardinality(Late)' = IF r \in Late THEN Cardinality(Late) - 1 ELSE Cardinality(Late)
      /\ Cardinality(Passing)' = IF r \in Passing THEN Cardinality(Passing) - 1 ELSE Cardinality(Passing)
  BY <1>3, <1>4, HitSets, FS_RemoveElement
<1>6. QED BY <1>5, HitSets

LEMMA KeysKept ==
  ASSUME RateTypes, Rate!RateLimitAssumption, KeysBound, phase' = phase,
         NEW d \in {0, 1}, \A age \in 0..Last : PassedSince("redis", age)' = PassedSince("redis", age) + d,
         NEW e \in {0, 1},
         Cardinality(Late)' + Cardinality(Passing)' + d <= Cardinality(Late) + Cardinality(Passing) + e,
         keys[0].count \in Nat, keys'[0].count \in Nat, keys'[0].count >= keys[0].count + e,
         e = 1 => keys[0].count + 1 <= MaxPerMinute
  PROVE  KeysBound'
<1>1. "redis" \in Rate!Counters BY DEF Rate!Counters
<1>2. phase \in 0..Last /\ Last \in 0..Last /\ MaxPerMinute \in Nat /\ Cardinality(Requests) \in Nat
  BY PassedIsNat, RateConstants
<1>3. PassedSince("redis", phase) \in Nat /\ PassedSince("redis", Last) \in Nat BY <1>1, <1>2, PassedIsNat
<1>4. PassedSince("redis", phase)' = PassedSince("redis", phase) + d
  <2>1. PICK k : k = phase OBVIOUS
  <2>2. PassedSince("redis", k)' = PassedSince("redis", k) + d BY <1>2, <2>1
  <2>3. QED BY <2>1, <2>2 DEF PassedSince
<1>5. PassedSince("redis", Last)' = PassedSince("redis", Last) + d
  <2>1. PICK k : k = Last OBVIOUS
  <2>2. PassedSince("redis", k)' = PassedSince("redis", k) + d BY <1>2, <2>1
  <2>3. QED BY <2>1, <2>2 DEF PassedSince, Last
<1>6. UnderWay \in Nat /\ UnderWay' \in Nat /\ UnderWay' <= UnderWay + e
  BY <1>3, <1>4, HitSets DEF UnderWay
<1>7. /\ UnderWay <= Cardinality(Requests) + keys[0].count /\ UnderWay <= Cardinality(Requests) + MaxPerMinute
      /\ PassedSince("redis", Last) - PassedSince("redis", phase) <= Cardinality(Requests) + MaxPerMinute
  BY DEF KeysBound
<1>8. UnderWay' <= Cardinality(Requests) + keys'[0].count BY <1>2, <1>6, <1>7
<1>9. UnderWay' <= Cardinality(Requests) + MaxPerMinute
  <2>1. CASE e = 0 BY <1>2, <1>6, <1>7, <2>1
  <2>2. CASE e = 1 BY <1>2, <1>6, <1>7, <2>2
  <2>3. QED BY <2>1, <2>2
<1>10. PassedSince("redis", Last)' - PassedSince("redis", phase)' <= Cardinality(Requests) + MaxPerMinute
  BY <1>2, <1>3, <1>4, <1>5, <1>7
<1>11. QED BY <1>8, <1>9, <1>10 DEF KeysBound

\* A step that Redis has no part in.
LEMMA KeysAlone ==
  ASSUME RateTypes, Rate!RateLimitAssumption, KeysBound, UNCHANGED <<phase, keys, hit>>,
         passed'["redis"] = passed["redis"]
  PROVE  KeysBound'
BY DEF KeysBound, UnderWay, PassedSince, Late, Passing, Last

LEMMA KeyZero ==
  ASSUME RateTypes, Rate!RateLimitAssumption
  PROVE  /\ keys[0] \in RateKeys /\ 0 \in Rate!Windows
         /\ keys[0].count \in Nat /\ keys[0].left \in 1..Window \union {None}
BY RateConstants DEF RateTypes, RateKeys

\* The keys after a command.
LEMMA KeyCounts ==
  ASSUME RateTypes, Rate!RateLimitAssumption, NEW w \in Nat, keys' = Rate!Incremented(w)
  PROVE  /\ keys' \in [Rate!Windows -> RateKeys] /\ keys'[0].left = keys[0].left
         /\ keys'[0].count = IF w = 0 THEN Rate!Plus1(keys[0].count) ELSE keys[0].count
         /\ keys'[0].count \in Nat /\ keys'[0].count >= keys[0].count
<1>1. keys' = [keys EXCEPT ![w].count = Rate!Plus1(@)] BY DEF Rate!Incremented
<1>2. keys \in [Rate!Windows -> RateKeys] BY DEF RateTypes
<1>3. \A n \in Nat : Rate!Plus1(n) \in Nat /\ Rate!Plus1(n) >= n BY DEF Rate!Plus1
<1>4. keys' \in [Rate!Windows -> RateKeys]
  <2>1. CASE w \in Rate!Windows
    <3> DEFINE k == [keys[w] EXCEPT !.count = Rate!Plus1(@)]
    <3>1. keys[w] \in RateKeys BY <1>2, <2>1
    <3>2. k \in RateKeys BY <1>3, <3>1 DEF RateKeys
    <3>3. keys' = [keys EXCEPT ![w] = k] BY <1>1
    <3> HIDE DEF k
    <3>4. QED BY <1>2, <3>2, <3>3
  <2>2. CASE w \notin Rate!Windows
    <3>1. keys' = keys BY <1>1, <1>2, <2>2
    <3>2. QED BY <1>2, <3>1
  <2>3. QED BY <2>1, <2>2
<1>5. keys'[0].left = keys[0].left BY <1>1, <1>2, KeyZero DEF RateKeys
<1>6. keys'[0].count = IF w = 0 THEN Rate!Plus1(keys[0].count) ELSE keys[0].count
  BY <1>1, <1>2, KeyZero DEF RateKeys
<1>7. QED BY <1>3, <1>4, <1>5, <1>6, KeyZero

LEMMA KeyLives ==
  ASSUME RateTypes, Rate!RateLimitAssumption, NEW w \in Nat, keys' = [keys EXCEPT ![w].left = Window]
  PROVE  /\ keys' \in [Rate!Windows -> RateKeys] /\ keys'[0].count = keys[0].count
         /\ keys'[0].left = keys[0].left \/ keys'[0].left = Window
<1>1. keys \in [Rate!Windows -> RateKeys] /\ Window \in 1..Window BY RateConstants DEF RateTypes
<1>2. keys' \in [Rate!Windows -> RateKeys] BY <1>1 DEF RateKeys
<1>3. QED BY <1>1, <1>2, KeyZero DEF RateKeys

\* The types of a hit that goes on with h.
LEMMA HitTypes ==
  ASSUME RateTypes, NEW r \in Requests, NEW h \in RateHits, hit' = [hit EXCEPT ![r] = h],
         h.stage # "idle" => h.process \in Processes, h.stage = "pexpire" => h.count = 1
  PROVE  /\ hit' \in [Requests -> RateHits]
         /\ \A q \in Requests : hit'[q].stage # "idle" => hit'[q].process \in Processes
         /\ \A q \in Requests : hit'[q].stage = "pexpire" => hit'[q].count = 1
<1>1. \A q \in Requests : hit'[q] = IF q = r THEN h ELSE hit[q] BY DEF RateTypes
<1>2. hit' \in [Requests -> RateHits] BY DEF RateTypes
<1>3. QED BY <1>1, <1>2 DEF RateTypes

LEMMA NoHitType == Rate!NoHit \in RateHits /\ Rate!NoHit.stage = "idle" /\ Rate!NoHit.window = 0
BY DEF Rate!NoHit, RateHits

\* The steps.
LEMMA RateLocalHit ==
  ASSUME RateInv, Rate!RateLimitAssumption, NEW p \in Processes, Rate!LocalHit(p)
  PROVE  RateInv'
<1>1. Rate!MemoryHit(p) /\ UNCHANGED <<phase, keys, hit>> BY DEF Rate!LocalHit
<1>2. RateTypes /\ (\A q \in Processes : BucketBound(q)) /\ KeyStays /\ KeysBound BY DEF RateInv
<1>3. /\ \A q \in Processes : BucketBound(q)'
      /\ passed' \in [Rate!Counters -> [Rate!Recent -> Nat]] /\ DOMAIN buckets' = Processes
      /\ \A q \in Processes : buckets'[q] = None \/ buckets'[q] \in [count : Nat \ {0}, left : 0..Window]
      /\ passed'["redis"] = passed["redis"]
  BY <1>1, <1>2, MemoryKeeps
<1>4. RateTypes' BY <1>1, <1>2, <1>3 DEF RateTypes
<1>5. KeyStays' BY <1>1, <1>2 DEF KeyStays
<1>6. KeysBound' BY <1>1, <1>2, <1>3, KeysAlone
<1>7. QED BY <1>3, <1>4, <1>5, <1>6 DEF RateInv

LEMMA RateCleanUp ==
  ASSUME RateInv, Rate!RateLimitAssumption, NEW p \in Processes, Rate!CleanUp(p)
  PROVE  RateInv'
<1>1. /\ Rate!Expired(p) /\ buckets' = [buckets EXCEPT ![p] = None]
      /\ UNCHANGED <<phase, keys, hit, passed>>
  BY DEF Rate!CleanUp
<1>2. RateTypes /\ (\A q \in Processes : BucketBound(q)) /\ KeyStays /\ KeysBound BY DEF RateInv
<1>3. \A q \in Processes : buckets'[q] = IF q = p THEN None ELSE buckets[q] BY <1>1, <1>2 DEF RateTypes
<1>4. BucketBound(p)'
  <2>1. passed[p][0] = 0 /\ PassedSince(p, Last) <= MaxPerMinute BY <1>1, <1>2 DEF BucketBound
  <2>2. Rate!Expired(p)' BY <1>3 DEF Rate!Expired
  <2>3. passed'[p][0] = 0 /\ PassedSince(p, Last)' <= MaxPerMinute BY <1>1, <2>1 DEF PassedSince, Last
  <2>4. QED BY <2>2, <2>3 DEF BucketBound
<1>5. \A q \in Processes : BucketBound(q)'
  <2> SUFFICES ASSUME NEW q \in Processes, q # p PROVE BucketBound(q)' BY <1>4
  <2>1. buckets'[q] = buckets[q] /\ passed'[q] = passed[q] BY <1>1, <1>3
  <2>2. QED BY <1>2, <2>1, OtherBuckets
<1>6. RateTypes' BY <1>1, <1>2, <1>3 DEF RateTypes
<1>7. KeyStays' BY <1>1, <1>2 DEF KeyStays
<1>8. KeysBound' BY <1>1, <1>2, KeysAlone
<1>9. QED BY <1>5, <1>6, <1>7, <1>8 DEF RateInv

\* Commands leave the buckets alone, unless they fail.
LEMMA BucketsAlone ==
  ASSUME Rate!RateLimitAssumption, RateTypes, \A q \in Processes : BucketBound(q),
         buckets' = buckets, \A q \in Processes : passed'[q] = passed[q]
  PROVE  \A q \in Processes : BucketBound(q)'
<1> SUFFICES ASSUME NEW q \in Processes PROVE BucketBound(q)' OBVIOUS
<1>1. buckets'[q] = buckets[q] /\ passed'[q] = passed[q] /\ BucketBound(q) OBVIOUS
<1>2. QED BY <1>1, OtherBuckets

LEMMA RateArrive ==
  ASSUME RateInv, Rate!RateLimitAssumption, NEW p \in Processes, NEW r \in Requests, Rate!Arrive(r, p)
  PROVE  RateInv'
<1> DEFINE h == [Rate!NoHit EXCEPT !.stage = "incr", !.process = p]
<1>1. /\ hit[r].stage = "idle" /\ hit' = [hit EXCEPT ![r] = h] /\ UNCHANGED <<phase, keys, buckets, passed>>
  BY DEF Rate!Arrive
<1>2. RateTypes /\ (\A q \in Processes : BucketBound(q)) /\ KeyStays /\ KeysBound BY DEF RateInv
<1>3. h \in RateHits /\ h.stage = "incr" /\ h.process = p /\ h.window = 0
  <2>1. [Rate!NoHit EXCEPT !.stage = "incr"] = [stage |-> "incr", process |-> None, window |-> 0, count |-> 0, age |-> 0]
    BY DEF Rate!NoHit
  <2>2. h = [[Rate!NoHit EXCEPT !.stage = "incr"] EXCEPT !.process = p] OBVIOUS
  <2>3. h = [stage |-> "incr", process |-> p, window |-> 0, count |-> 0, age |-> 0]
    <3> HIDE DEF h
    <3>1. QED BY <2>1, <2>2
  <2> HIDE DEF h
  <2>4. QED BY <2>3 DEF RateHits
<1> HIDE DEF h
<1>4. /\ hit' \in [Requests -> RateHits]
      /\ \A q \in Requests : hit'[q].stage # "idle" => hit'[q].process \in Processes
      /\ \A q \in Requests : hit'[q].stage = "pexpire" => hit'[q].count = 1
  BY <1>1, <1>2, <1>3, HitTypes
<1>5. RateTypes' BY <1>1, <1>2, <1>4 DEF RateTypes
<1>6. \A q \in Requests : hit'[q] = IF q = r THEN h ELSE hit[q] BY <1>1, <1>2 DEF RateTypes
<1>7. Late' = Late /\ Passing' = Passing BY <1>1, <1>3, <1>6 DEF Late, Passing
<1>8. KeysBound'
  <2>1. UnderWay' = UnderWay BY <1>1, <1>7 DEF UnderWay, PassedSince
  <2>2. QED BY <1>1, <1>2, <2>1 DEF KeysBound, PassedSince, Last
<1>9. KeyStays' BY <1>1, <1>2 DEF KeyStays
<1>10. \A q \in Processes : BucketBound(q)' BY <1>1, <1>2, BucketsAlone
<1>11. QED BY <1>5, <1>8, <1>9, <1>10 DEF RateInv

\* A command on a key, after which the hit goes on or ends.
LEMMA RedisLets ==
  ASSUME RateTypes, Rate!RateLimitAssumption, NEW count, Rate!Decide("redis", count)
  PROVE  \E d \in {0, 1} :
           /\ passed' \in [Rate!Counters -> [Rate!Recent -> Nat]]
           /\ \A q \in Processes : passed'[q] = passed[q]
           /\ \A age \in 0..Last : PassedSince("redis", age)' = PassedSince("redis", age) + d
           /\ d = 1 => ~(count > MaxPerMinute)
<1>1. "redis" \in Rate!Counters /\ "redis" \notin Processes /\ Processes \subseteq Rate!Counters
  BY RateConstants DEF Rate!Counters
<1>2. /\ passed' \in [Rate!Counters -> [Rate!Recent -> Nat]]
      /\ \A c \in Rate!Counters \ {"redis"} : passed'[c] = passed[c]
      /\ IF count > MaxPerMinute THEN passed' = passed
         ELSE \A age \in 0..Last : PassedSince("redis", age)' = PassedSince("redis", age) + 1
  BY <1>1, Lets
<1>3. \A q \in Processes : passed'[q] = passed[q] BY <1>1, <1>2
<1>4. CASE count > MaxPerMinute
  <2>1. \A age \in 0..Last : PassedSince("redis", age)' = PassedSince("redis", age) + 0
    <3> SUFFICES ASSUME NEW age \in 0..Last
                 PROVE  PassedSince("redis", age)' = PassedSince("redis", age) + 0
      OBVIOUS
    <3>1. PassedSince("redis", age) \in Nat BY <1>1, PassedIsNat
    <3>2. PassedSince("redis", age)' = PassedSince("redis", age) BY <1>2, <1>4 DEF PassedSince
    <3>3. QED BY <3>1, <3>2
  <2>2. QED BY <1>2, <1>3, <2>1
<1>5. CASE ~(count > MaxPerMinute) BY <1>2, <1>3, <1>5
<1>6. QED BY <1>4, <1>5

LEMMA RateIncr ==
  ASSUME RateInv, Rate!RateLimitAssumption, NEW r \in Requests, Rate!Incr(r)
  PROVE  RateInv'
<1>1. RateTypes /\ (\A q \in Processes : BucketBound(q)) /\ KeyStays /\ KeysBound BY DEF RateInv
<1>2. PICK w : w = hit[r].window OBVIOUS
<1>3. PICK count : count = Rate!Plus1(keys[w].count) OBVIOUS
<1>4. /\ hit[r].stage = "incr" /\ keys' = Rate!Incremented(w)
      /\ IF count = 1
         THEN hit' = [hit EXCEPT ![r].stage = "pexpire", ![r].count = 1] /\ UNCHANGED passed
         ELSE hit' = [hit EXCEPT ![r] = Rate!NoHit] /\ Rate!Decide("redis", count)
      /\ UNCHANGED <<phase, buckets>>
  BY <1>2, <1>3 DEF Rate!Incr
<1>5. w \in Nat /\ hit[r] \in RateHits BY <1>1, <1>2 DEF RateTypes, RateHits
<1>6. /\ keys' \in [Rate!Windows -> RateKeys] /\ keys'[0].left = keys[0].left
      /\ keys'[0].count = IF w = 0 THEN Rate!Plus1(keys[0].count) ELSE keys[0].count
      /\ keys'[0].count \in Nat /\ keys'[0].count >= keys[0].count
  BY <1>1, <1>4, <1>5, KeyCounts
<1>7. KeyStays' BY <1>1, <1>4, <1>6 DEF KeyStays
<1>8. keys[0].count \in Nat /\ MaxPerMinute \in Nat BY <1>1, KeyZero, RateConstants
<1>9. "redis" \in Rate!Counters BY DEF Rate!Counters
<1>10. CASE count = 1
  <2> DEFINE h == [hit[r] EXCEPT !.stage = "pexpire", !.count = 1]
  <2>1. hit' = [hit EXCEPT ![r] = h] /\ passed' = passed BY <1>1, <1>4, <1>10 DEF RateTypes
  <2>2. h \in RateHits /\ h.stage = "pexpire" /\ h.count = 1 /\ h.process = hit[r].process /\ h.window = w
    BY <1>2, <1>5 DEF RateHits
  <2>3. h.process \in Processes BY <1>1, <1>4, <2>2 DEF RateTypes
  <2> HIDE DEF h
  <2>4. /\ hit' \in [Requests -> RateHits]
        /\ \A q \in Requests : hit'[q].stage # "idle" => hit'[q].process \in Processes
        /\ \A q \in Requests : hit'[q].stage = "pexpire" => hit'[q].count = 1
    BY <1>1, <2>1, <2>2, <2>3, HitTypes
  <2>5. RateTypes' BY <1>1, <1>4, <1>6, <2>1, <2>4 DEF RateTypes
  <2>6. \A q \in Processes : BucketBound(q)' BY <1>1, <1>4, <2>1, BucketsAlone
  <2>7. \A q \in Requests : hit'[q] = IF q = r THEN h ELSE hit[q] BY <1>1, <2>1 DEF RateTypes
  <2>8. Late' = Late BY <1>2, <1>4, <2>2, <2>7 DEF Late
  <2>9. Passing' = IF w = 0 /\ 1 <= MaxPerMinute THEN Passing \union {r} ELSE Passing
    BY <1>2, <1>4, <2>2, <2>7 DEF Passing
  <2>10. r \notin Passing BY <1>4 DEF Passing
  <2> DEFINE e == IF w = 0 /\ 1 <= MaxPerMinute THEN 1 ELSE 0
  <2>11. e \in {0, 1} /\ Cardinality(Passing)' = Cardinality(Passing) + e /\ Cardinality(Late)' = Cardinality(Late)
    <3>1. IsFiniteSet(Passing) /\ Cardinality(Passing) \in Nat BY HitSets
    <3>2. Cardinality(Late)' = Cardinality(Late) BY <2>8
    <3>3. CASE w = 0 /\ 1 <= MaxPerMinute
      <4>1. Passing' = Passing \union {r} /\ e = 1 BY <2>9, <3>3
      <4>2. Cardinality(Passing \union {r}) = Cardinality(Passing) + 1 BY <2>10, <3>1, FS_AddElement
      <4>3. QED BY <3>2, <4>1, <4>2
    <3>4. CASE ~(w = 0 /\ 1 <= MaxPerMinute)
      <4>1. Passing' = Passing /\ e = 0 BY <2>9, <3>4
      <4>2. QED BY <3>1, <3>2, <4>1
    <3>5. QED BY <3>3, <3>4
  <2>12. /\ keys'[0].count >= keys[0].count + e /\ (e = 1 => keys[0].count + 1 <= MaxPerMinute)
    BY <1>3, <1>6, <1>8, <1>10 DEF Rate!Plus1
  <2> HIDE DEF e
  <2>13. PICK d \in {0, 1} : d = 0 OBVIOUS
  <2>14. \A age \in 0..Last : PassedSince("redis", age)' = PassedSince("redis", age) + d
    <3> SUFFICES ASSUME NEW age \in 0..Last
                 PROVE  PassedSince("redis", age)' = PassedSince("redis", age) + d
      OBVIOUS
    <3>1. PassedSince("redis", age) \in Nat BY <1>1, <1>9, PassedIsNat
    <3>2. PassedSince("redis", age)' = PassedSince("redis", age) BY <2>1 DEF PassedSince
    <3>3. QED BY <2>13, <3>1, <3>2
  <2>15. Cardinality(Late)' + Cardinality(Passing)' + d <= Cardinality(Late) + Cardinality(Passing) + e
    BY <2>11, <2>13, HitSets
  <2>16. KeysBound' BY <1>1, <1>4, <1>6, <1>8, <2>11, <2>12, <2>14, <2>15, KeysKept
  <2>17. QED BY <1>7, <2>5, <2>6, <2>16 DEF RateInv
<1>11. CASE count # 1
  <2>1. hit' = [hit EXCEPT ![r] = Rate!NoHit] /\ Rate!Decide("redis", count) BY <1>4, <1>11
  <2>2. PICK d \in {0, 1} :
           /\ passed' \in [Rate!Counters -> [Rate!Recent -> Nat]]
           /\ \A q \in Processes : passed'[q] = passed[q]
           /\ \A age \in 0..Last : PassedSince("redis", age)' = PassedSince("redis", age) + d
           /\ d = 1 => ~(count > MaxPerMinute)
    BY <1>1, <2>1, RedisLets
  <2>3. /\ hit' \in [Requests -> RateHits]
        /\ \A q \in Requests : hit'[q].stage # "idle" => hit'[q].process \in Processes
        /\ \A q \in Requests : hit'[q].stage = "pexpire" => hit'[q].count = 1
    <3> DEFINE n == Rate!NoHit
    <3>1. n \in RateHits /\ n.stage = "idle" /\ hit' = [hit EXCEPT ![r] = n] BY <2>1, NoHitType
    <3> HIDE DEF n
    <3>2. QED BY <1>1, <3>1, HitTypes
  <2>4. RateTypes' BY <1>1, <1>4, <1>6, <2>2, <2>3 DEF RateTypes
  <2>5. \A q \in Processes : BucketBound(q)' BY <1>1, <1>4, <2>2, BucketsAlone
  <2>6. /\ Cardinality(Late)' + Cardinality(Passing)' <= Cardinality(Late) + Cardinality(Passing)
        /\ r \in Late \union Passing =>
             Cardinality(Late)' + Cardinality(Passing)' + 1 <= Cardinality(Late) + Cardinality(Passing)
    BY <1>1, <2>1, Finishing
  <2>7. w # 0 => r \in Late BY <1>2, <1>4 DEF Late
  <2>8. PICK e \in {0, 1} : e = 1 <=> (w = 0 /\ d = 1) OBVIOUS
  <2>9. Cardinality(Late)' + Cardinality(Passing)' + d <= Cardinality(Late) + Cardinality(Passing) + e
    BY <2>2, <2>6, <2>7, <2>8, HitSets
  <2>10. /\ keys'[0].count >= keys[0].count + e /\ (e = 1 => keys[0].count + 1 <= MaxPerMinute)
    BY <1>3, <1>6, <1>8, <2>2, <2>8 DEF Rate!Plus1
  <2>11. KeysBound' BY <1>1, <1>4, <1>6, <1>8, <2>2, <2>8, <2>9, <2>10, KeysKept
  <2>12. QED BY <1>7, <2>4, <2>5, <2>11 DEF RateInv
<1>12. QED BY <1>10, <1>11

LEMMA RatePExpire ==
  ASSUME RateInv, Rate!RateLimitAssumption, NEW r \in Requests, Rate!PExpire(r)
  PROVE  RateInv'
<1>1. RateTypes /\ (\A q \in Processes : BucketBound(q)) /\ KeyStays /\ KeysBound BY DEF RateInv
<1>2. PICK w : w = hit[r].window OBVIOUS
<1>3. /\ hit[r].stage = "pexpire" /\ keys' = [keys EXCEPT ![w].left = Window]
      /\ Rate!Decide("redis", hit[r].count) /\ hit' = [hit EXCEPT ![r] = Rate!NoHit]
      /\ UNCHANGED <<phase, buckets>>
  BY <1>2 DEF Rate!PExpire
<1>4. w \in Nat /\ hit[r].count = 1 BY <1>1, <1>2, <1>3 DEF RateTypes, RateHits
<1>5. /\ keys' \in [Rate!Windows -> RateKeys] /\ keys'[0].count = keys[0].count
      /\ keys'[0].left = keys[0].left \/ keys'[0].left = Window
  BY <1>1, <1>3, <1>4, KeyLives
<1>6. keys[0].count \in Nat /\ MaxPerMinute \in Nat BY <1>1, KeyZero, RateConstants
<1>7. KeyStays'
  <2>1. phase \in Nat /\ Window \in Nat BY <1>1, PassedIsNat, RateConstants
  <2>2. QED BY <1>1, <1>3, <1>5, <2>1 DEF KeyStays
<1>8. PICK d \in {0, 1} :
         /\ passed' \in [Rate!Counters -> [Rate!Recent -> Nat]]
         /\ \A q \in Processes : passed'[q] = passed[q]
         /\ \A age \in 0..Last : PassedSince("redis", age)' = PassedSince("redis", age) + d
         /\ d = 1 => ~(1 > MaxPerMinute)
  BY <1>1, <1>3, <1>4, RedisLets
<1>9. /\ hit' \in [Requests -> RateHits]
      /\ \A q \in Requests : hit'[q].stage # "idle" => hit'[q].process \in Processes
      /\ \A q \in Requests : hit'[q].stage = "pexpire" => hit'[q].count = 1
  <2> DEFINE n == Rate!NoHit
  <2>1. n \in RateHits /\ n.stage = "idle" /\ hit' = [hit EXCEPT ![r] = n] BY <1>3, NoHitType
  <2> HIDE DEF n
  <2>2. QED BY <1>1, <2>1, HitTypes
<1>10. RateTypes' BY <1>1, <1>3, <1>5, <1>8, <1>9 DEF RateTypes
<1>11. \A q \in Processes : BucketBound(q)' BY <1>1, <1>3, <1>8, BucketsAlone
<1>12. d = 1 => r \in Late \union Passing BY <1>2, <1>3, <1>6, <1>8 DEF Late, Passing
<1>13. /\ Cardinality(Late)' + Cardinality(Passing)' <= Cardinality(Late) + Cardinality(Passing)
       /\ r \in Late \union Passing =>
            Cardinality(Late)' + Cardinality(Passing)' + 1 <= Cardinality(Late) + Cardinality(Passing)
  BY <1>1, <1>3, Finishing
<1>14. PICK e \in {0, 1} : e = 0 OBVIOUS
<1>15. Cardinality(Late)' + Cardinality(Passing)' + d <= Cardinality(Late) + Cardinality(Passing) + e
  BY <1>8, <1>12, <1>13, <1>14, HitSets
<1>16. keys'[0].count \in Nat /\ keys'[0].count >= keys[0].count + e /\ (e = 1 => keys[0].count + 1 <= MaxPerMinute)
  BY <1>5, <1>6, <1>14
<1>17. KeysBound' BY <1>1, <1>3, <1>6, <1>8, <1>14, <1>15, <1>16, KeysKept
<1>18. QED BY <1>7, <1>10, <1>11, <1>17 DEF RateInv

LEMMA RateFails ==
  ASSUME RateInv, Rate!RateLimitAssumption, NEW r \in Requests, Rate!RedisFails(r)
  PROVE  RateInv'
<1>1. RateTypes /\ (\A q \in Processes : BucketBound(q)) /\ KeyStays /\ KeysBound BY DEF RateInv
<1>2. PICK w : w = hit[r].window OBVIOUS
<1>3. PICK p : p = hit[r].process OBVIOUS
<1>4. /\ hit[r].stage # "idle" /\ Rate!MemoryHit(p) /\ hit' = [hit EXCEPT ![r] = Rate!NoHit] /\ phase' = phase
      /\ keys' \in {keys, IF hit[r].stage = "incr" THEN Rate!Incremented(w)
                          ELSE [keys EXCEPT ![w].left = Window]}
  BY <1>2, <1>3 DEF Rate!RedisFails
<1>5. w \in Nat /\ p \in Processes BY <1>1, <1>2, <1>3, <1>4 DEF RateTypes, RateHits
<1>6. /\ \A q \in Processes : BucketBound(q)'
      /\ passed' \in [Rate!Counters -> [Rate!Recent -> Nat]] /\ DOMAIN buckets' = Processes
      /\ \A q \in Processes : buckets'[q] = None \/ buckets'[q] \in [count : Nat \ {0}, left : 0..Window]
      /\ passed'["redis"] = passed["redis"]
  BY <1>1, <1>4, <1>5, MemoryKeeps
<1>7. keys[0].count \in Nat BY <1>1, KeyZero
<1>8. /\ keys' \in [Rate!Windows -> RateKeys] /\ keys'[0].count \in Nat /\ keys'[0].count >= keys[0].count
      /\ keys'[0].left = keys[0].left \/ keys'[0].left = Window
  <2>1. CASE keys' = keys BY <1>1, <1>7, <2>1 DEF RateTypes
  <2>2. CASE keys' = Rate!Incremented(w) BY <1>1, <1>5, <2>2, KeyCounts
  <2>3. CASE keys' = [keys EXCEPT ![w].left = Window]
    <3>1. /\ keys' \in [Rate!Windows -> RateKeys] /\ keys'[0].count = keys[0].count
          /\ keys'[0].left = keys[0].left \/ keys'[0].left = Window
      BY <1>1, <1>5, <2>3, KeyLives
    <3>2. QED BY <1>7, <3>1
  <2>4. QED BY <1>4, <2>1, <2>2, <2>3
<1>9. KeyStays'
  <2>1. phase \in Nat /\ Window \in Nat BY <1>1, PassedIsNat, RateConstants
  <2>2. QED BY <1>1, <1>4, <1>8, <2>1 DEF KeyStays
<1>10. /\ hit' \in [Requests -> RateHits]
       /\ \A q \in Requests : hit'[q].stage # "idle" => hit'[q].process \in Processes
       /\ \A q \in Requests : hit'[q].stage = "pexpire" => hit'[q].count = 1
  <2> DEFINE n == Rate!NoHit
  <2>1. n \in RateHits /\ n.stage = "idle" /\ hit' = [hit EXCEPT ![r] = n] BY <1>4, NoHitType
  <2> HIDE DEF n
  <2>2. QED BY <1>1, <2>1, HitTypes
<1>11. RateTypes' BY <1>1, <1>4, <1>6, <1>8, <1>10 DEF RateTypes
<1>12. Cardinality(Late)' + Cardinality(Passing)' <= Cardinality(Late) + Cardinality(Passing)
  BY <1>1, <1>4, Finishing
<1>13. PICK d \in {0, 1} : d = 0 OBVIOUS
<1>14. PICK e \in {0, 1} : e = 0 OBVIOUS
<1>15. Cardinality(Late)' + Cardinality(Passing)' + d <= Cardinality(Late) + Cardinality(Passing) + e
  BY <1>12, <1>13, <1>14, HitSets
<1>16. \A age \in 0..Last : PassedSince("redis", age)' = PassedSince("redis", age) + d
  <2> SUFFICES ASSUME NEW age \in 0..Last
               PROVE  PassedSince("redis", age)' = PassedSince("redis", age) + d
    OBVIOUS
  <2>1. "redis" \in Rate!Counters BY DEF Rate!Counters
  <2>2. PassedSince("redis", age) \in Nat BY <1>1, <2>1, PassedIsNat
  <2>3. PassedSince("redis", age)' = PassedSince("redis", age) BY <1>6 DEF PassedSince
  <2>4. QED BY <1>13, <2>2, <2>3
<1>17. keys'[0].count >= keys[0].count + e /\ (e = 1 => keys[0].count + 1 <= MaxPerMinute)
  BY <1>7, <1>8, <1>14
<1>18. KeysBound' BY <1>1, <1>4, <1>7, <1>8, <1>15, <1>16, <1>17, KeysKept
<1>19. QED BY <1>6, <1>9, <1>11, <1>18 DEF RateInv

\* An interval passes: the counts of every counter grow older by one.
LEMMA PassedOlder ==
  ASSUME RateTypes, Rate!RateLimitAssumption, Rate!Elapse, NEW c \in Rate!Counters
  PROVE  /\ \A age \in 0..Last : PassedSince(c, age)' <= PassedSince(c, age)
         /\ \A age \in 0..Last : age # 0 => PassedSince(c, age)' = PassedSince(c, age - 1)
         /\ PassedSince(c, 0)' = 0 /\ passed'[c][0] = 0
         /\ passed'[c] \in [Rate!Recent -> Nat]
<1>1. Last \in Nat /\ Rate!Recent = 0..Last BY RateConstants
<1>2. passed' = [d \in Rate!Counters |-> [n \in Rate!Recent |-> IF n = 0 THEN 0 ELSE passed[d][n - 1]]]
  BY DEF Rate!Elapse
<1> DEFINE f == passed[c]
           g == passed'[c]
<1>3. \A age \in 0..Last : f[age] \in Nat BY PassedIsNat
<1>4. g = [n \in Rate!Recent |-> IF n = 0 THEN 0 ELSE f[n - 1]] BY <1>2
<1> HIDE DEF f, g
<1>5. \A age \in 0..Last : g[age] = IF age = 0 THEN 0 ELSE f[age - 1] BY <1>1, <1>4
<1>6. g \in [Rate!Recent -> Nat]
  <2>1. \A age \in 0..Last : g[age] \in Nat
    <3> SUFFICES ASSUME NEW age \in 0..Last PROVE g[age] \in Nat OBVIOUS
    <3>1. CASE age = 0 BY <1>5, <3>1
    <3>2. CASE age # 0
      <4>1. age - 1 \in 0..Last BY <1>1, <3>2
      <4>2. QED BY <1>3, <1>5, <3>2, <4>1
    <3>3. QED BY <3>1, <3>2
  <2>2. QED BY <1>1, <1>4, <2>1
<1>7. /\ \A age \in 0..Last : Summed(g, 0..age) <= Summed(f, 0..age)
      /\ \A age \in 0..Last : age # 0 => Summed(g, 0..age) = Summed(f, 0..(age - 1))
      /\ Summed(g, 0..0) = 0
  <2>1. PICK m \in Nat : m = Last BY <1>1
  <2>2. Counting(f, m) BY <1>3, <2>1 DEF Counting
  <2>3. Aging(g, f, m) BY <1>5, <2>1 DEF Aging
  <2>4. ASSUME NEW age \in 0..m
        PROVE  /\ Summed(g, 0..age) <= Summed(f, 0..age)
               /\ Summed(g, 0..age) = IF age = 0 THEN 0 ELSE Summed(f, 0..(age - 1))
    BY <2>1, <2>2, <2>3, <2>4, SinceOlder
  <2>5. \A age \in 0..m : Summed(g, 0..age) <= Summed(f, 0..age) BY <2>4
  <2>6. \A age \in 0..m : age # 0 => Summed(g, 0..age) = Summed(f, 0..(age - 1)) BY <2>4
  <2>7. 0 \in 0..m BY <2>1
  <2>8. Summed(g, 0..0) = 0 BY <2>4, <2>7
  <2>9. QED BY <2>1, <2>5, <2>6, <2>8
<1>8. g[0] = 0 BY <1>1, <1>5
<1>9. QED BY <1>6, <1>7, <1>8 DEF PassedSince, f, g

LEMMA NextPhase ==
  ASSUME NEW last \in Nat, NEW now \in 0..last
  PROVE  (now + 1) % (last + 1) = IF now = last THEN 0 ELSE now + 1
<1>1. \A n \in Nat \ {0}, a \in Nat : a < n => a % n = a OBVIOUS
<1>2. \A n \in Nat \ {0} : n % n = 0 OBVIOUS
<1>3. QED BY <1>1, <1>2

LEMMA ElapseTimes ==
  ASSUME RateTypes, Rate!RateLimitAssumption, Rate!Elapse
  PROVE  \E shift \in 0..1 :
           /\ shift = 1 <=> phase = Last
           /\ phase' = IF phase = Last THEN 0 ELSE phase + 1
           /\ keys' = [w \in Rate!Windows |-> IF w < shift THEN Rate!NoKey ELSE Rate!Aged(keys[w - shift])]
           /\ hit' = [r \in Requests |->
                        IF hit[r].stage = "idle" THEN Rate!NoHit
                        ELSE [hit[r] EXCEPT !.age = @ + 1, !.window = @ + shift]]
<1>1. Last \in Nat /\ Window = Last + 1 /\ phase \in 0..Last BY PassedIsNat, RateConstants DEF Last
<1> DEFINE next == (phase + 1) % Window
           shift == IF next = 0 THEN 1 ELSE 0
<1>2. /\ phase' = next
      /\ keys' = [w \in Rate!Windows |-> IF w < shift THEN Rate!NoKey ELSE Rate!Aged(keys[w - shift])]
      /\ hit' = [r \in Requests |->
                   IF hit[r].stage = "idle" THEN Rate!NoHit
                   ELSE [hit[r] EXCEPT !.age = @ + 1, !.window = @ + shift]]
  BY DEF Rate!Elapse
<1>3. next = IF phase = Last THEN 0 ELSE phase + 1 BY <1>1, NextPhase
<1> HIDE DEF next
<1>4. shift \in 0..1 /\ (shift = 1 <=> phase = Last) BY <1>1, <1>3
<1> HIDE DEF shift
<1>5. QED BY <1>2, <1>3, <1>4

LEMMA AgedKey ==
  ASSUME NEW key \in RateKeys, Rate!RateLimitAssumption
  PROVE  /\ Rate!Aged(key) \in RateKeys
         /\ key.left = None => Rate!Aged(key) = key
         /\ key.left # None /\ key.left # 1 =>
              Rate!Aged(key).count = key.count /\ Rate!Aged(key).left = key.left - 1
<1>1. None \notin Nat /\ Window \in Nat \ {0} BY RateConstants
<1>2. key.count \in Nat /\ key.left \in 1..Window \union {None} BY DEF RateKeys
<1>3. CASE key.left = None
  <2>1. key.left # 1 BY <1>1, <1>3
  <2>3. Rate!Aged(key) = key BY <1>3, <2>1 DEF Rate!Aged
  <2>4. QED BY <1>3, <2>3
<1>4. CASE key.left = 1
  <2>1. key.left # None BY <1>1, <1>4
  <2>2. Rate!Aged(key) = Rate!NoKey BY <1>4, <2>1 DEF Rate!Aged
  <2>3. Rate!NoKey \in RateKeys BY DEF Rate!NoKey, RateKeys
  <2>4. QED BY <1>4, <2>1, <2>2, <2>3
<1>5. CASE key.left # None /\ key.left # 1
  <2>1. Rate!Aged(key) = [key EXCEPT !.left = @ - 1] BY <1>5 DEF Rate!Aged
  <2>2. key.left \in 1..Window /\ key.left - 1 \in 1..Window BY <1>1, <1>2, <1>5
  <2> DEFINE k == [key EXCEPT !.left = @ - 1]
  <2>3. k \in RateKeys /\ k.count = key.count /\ k.left = key.left - 1 BY <2>2 DEF RateKeys
  <2> HIDE DEF k
  <2>4. QED BY <1>5, <2>1, <2>3 DEF k
<1>6. QED BY <1>3, <1>4, <1>5

LEMMA ElapseTypes ==
  ASSUME RateTypes, Rate!RateLimitAssumption, Rate!Elapse
  PROVE  RateTypes'
<1>1. PICK shift \in 0..1 :
           /\ shift = 1 <=> phase = Last
           /\ phase' = IF phase = Last THEN 0 ELSE phase + 1
           /\ keys' = [w \in Rate!Windows |-> IF w < shift THEN Rate!NoKey ELSE Rate!Aged(keys[w - shift])]
           /\ hit' = [r \in Requests |->
                        IF hit[r].stage = "idle" THEN Rate!NoHit
                        ELSE [hit[r] EXCEPT !.age = @ + 1, !.window = @ + shift]]
  BY ElapseTimes
<1>2. /\ Last \in Nat /\ Rate!Recent = 0..Last /\ phase \in 0..Last /\ None \notin Nat
      /\ Window \in Nat \ {0}
  BY PassedIsNat, RateConstants
<1>3. phase' \in Rate!Recent
  <2>1. phase' = IF phase = Last THEN 0 ELSE phase + 1 BY <1>1
  <2>2. QED BY <1>2, <2>1
<1>4. keys' \in [Rate!Windows -> RateKeys]
  <2> SUFFICES ASSUME NEW w \in Rate!Windows
               PROVE  (IF w < shift THEN Rate!NoKey ELSE Rate!Aged(keys[w - shift])) \in RateKeys
    BY <1>1
  <2>1. CASE w < shift
    <3>1. Rate!NoKey \in RateKeys BY DEF Rate!NoKey, RateKeys
    <3>2. QED BY <2>1, <3>1
  <2>2. CASE ~(w < shift)
    <3>1. w - shift \in Rate!Windows
      <4>1. w \in 0..Rate!Oldest /\ shift \in 0..1 /\ Rate!Oldest \in Nat BY <1>1, RateConstants DEF Rate!Windows
      <4>2. w - shift \in 0..Rate!Oldest BY <2>2, <4>1
      <4>3. QED BY <4>2 DEF Rate!Windows
    <3>2. keys[w - shift] \in RateKeys BY <3>1 DEF RateTypes
    <3>3. Rate!Aged(keys[w - shift]) \in RateKeys BY <3>2, AgedKey
    <3>4. QED BY <2>2, <3>3
  <2>3. QED BY <2>1, <2>2
<1>5. DOMAIN buckets' = Processes BY DEF Rate!Elapse
<1>6. \A p \in Processes : buckets'[p] = None \/ buckets'[p] \in [count : Nat \ {0}, left : 0..Window]
  <2> SUFFICES ASSUME NEW p \in Processes, buckets[p] # None
               PROVE  buckets'[p] \in [count : Nat \ {0}, left : 0..Window]
    BY DEF Rate!Elapse
  <2> DEFINE b == buckets[p]
  <2>1. b \in [count : Nat \ {0}, left : 0..Window] BY DEF RateTypes
  <2>2. buckets'[p] = [b EXCEPT !.left = Rate!Less(@)] BY DEF Rate!Elapse
  <2> HIDE DEF b
  <2>3. b.left \in 0..Window BY <2>1
  <2>4. Rate!Less(b.left) \in 0..Window BY <1>2, <2>3 DEF Rate!Less
  <2>5. QED BY <2>1, <2>2, <2>4
<1>7. \A r \in Requests : /\ hit'[r] \in RateHits
                          /\ hit'[r].stage # "idle" => hit'[r].process \in Processes
                          /\ hit'[r].stage = "pexpire" => hit'[r].count = 1
  <2> SUFFICES ASSUME NEW r \in Requests
               PROVE  /\ hit'[r] \in RateHits
                      /\ hit'[r].stage # "idle" => hit'[r].process \in Processes
                      /\ hit'[r].stage = "pexpire" => hit'[r].count = 1
    OBVIOUS
  <2>1. CASE hit[r].stage = "idle"
    <3>1. hit'[r] = Rate!NoHit BY <1>1, <2>1
    <3>2. QED BY <3>1, NoHitType
  <2>2. CASE hit[r].stage # "idle"
    <3> DEFINE h == hit[r]
               k == [h EXCEPT !.age = @ + 1, !.window = @ + shift]
    <3>1. hit'[r] = k BY <1>1, <2>2
    <3>2. h \in RateHits /\ h.process \in Processes /\ (h.stage = "pexpire" => h.count = 1)
      BY <2>2 DEF RateTypes
    <3> HIDE DEF h
    <3>3. h.age + 1 \in Int /\ h.window + shift \in Nat
      <4>1. h.age \in Int /\ h.window \in Nat BY <3>2 DEF RateHits
      <4>2. shift \in 0..1 BY <1>1
      <4>3. QED BY <4>1, <4>2
    <3>4. k \in RateHits /\ k.stage = h.stage /\ k.process = h.process /\ k.count = h.count
      BY <3>2, <3>3 DEF RateHits
    <3> HIDE DEF k
    <3>5. QED BY <3>1, <3>2, <3>4
  <2>3. QED BY <2>1, <2>2
<1>8. hit' \in [Requests -> RateHits]
  <2>1. DOMAIN hit' = Requests BY <1>1
  <2>2. hit' = [r \in Requests |-> hit'[r]] BY <1>1
  <2>3. QED BY <1>7, <2>2
<1>9. passed' \in [Rate!Counters -> [Rate!Recent -> Nat]]
  <2>1. \A c \in Rate!Counters : passed'[c] \in [Rate!Recent -> Nat] BY PassedOlder
  <2>2. passed' = [c \in Rate!Counters |-> passed'[c]] BY DEF Rate!Elapse
  <2>3. QED BY <2>1, <2>2
<1>10. QED BY <1>3, <1>4, <1>5, <1>6, <1>7, <1>8, <1>9 DEF RateTypes

LEMMA ElapseBuckets ==
  ASSUME RateTypes, Rate!RateLimitAssumption, Rate!Elapse, NEW p \in Processes, BucketBound(p)
  PROVE  BucketBound(p)'
<1>1. /\ Last \in Nat /\ Window = Last + 1 /\ MaxPerMinute \in Nat /\ None \notin Nat
      /\ p \in Rate!Counters /\ Last \in 0..Last
  BY RateConstants DEF Last, Rate!Counters
<1>2. /\ \A age \in 0..Last : PassedSince(p, age)' <= PassedSince(p, age)
      /\ \A age \in 0..Last : age # 0 => PassedSince(p, age)' = PassedSince(p, age - 1)
      /\ passed'[p][0] = 0
  BY <1>1, PassedOlder
<1>3. \A age \in 0..Last : PassedSince(p, age) \in Nat BY <1>1, PassedIsNat
<1>4. \A age \in 0..Last : PassedSince(p, age)' \in Nat
  <2> DEFINE g == passed'[p]
  <2>1. g \in [Rate!Recent -> Nat] BY <1>1, PassedOlder
  <2>2. \A age \in 0..Last : g[age] \in Nat BY <2>1, RateConstants
  <2> HIDE DEF g
  <2>3. \A age \in 0..Last : Summed(g, 0..age) \in Nat BY <1>1, <2>2, SinceIsNat
  <2>4. QED BY <2>3 DEF PassedSince, g
<1>5. PassedSince(p, Last)' <= PassedSince(p, Last)
  <2>1. PICK k : k = Last OBVIOUS
  <2>2. PassedSince(p, k)' <= PassedSince(p, k) BY <1>1, <1>2, <2>1
  <2>3. QED BY <2>1, <2>2 DEF PassedSince, Last
<1>6. buckets'[p] = IF buckets[p] = None THEN None ELSE [buckets[p] EXCEPT !.left = Rate!Less(@)]
  BY DEF Rate!Elapse
<1>7. CASE Rate!Expired(p)
  <2>1. Rate!Expired(p)'
    <3>1. CASE buckets[p] = None BY <1>6, <3>1 DEF Rate!Expired
    <3>2. CASE buckets[p] # None
      <4> DEFINE b == buckets[p]
      <4>1. b.left = 0 /\ b \in [count : Nat \ {0}, left : 0..Window] BY <1>7, <3>2 DEF Rate!Expired, RateTypes
      <4>2. buckets'[p] = [b EXCEPT !.left = Rate!Less(@)] BY <1>6, <3>2
      <4> HIDE DEF b
      <4>3. buckets'[p].left = 0 BY <4>1, <4>2 DEF Rate!Less
      <4>4. QED BY <4>3 DEF Rate!Expired
    <3>3. QED BY <3>1, <3>2
  <2>2. PassedSince(p, Last) <= MaxPerMinute BY <1>7 DEF BucketBound
  <2>3. PassedSince(p, Last)' \in Nat
    <3>1. PICK k : k = Last OBVIOUS
    <3>2. PassedSince(p, k)' \in Nat BY <1>1, <1>4, <3>1
    <3>3. QED BY <3>1, <3>2 DEF PassedSince, Last
  <2>4. PassedSince(p, Last)' <= MaxPerMinute BY <1>1, <1>3, <1>5, <2>2, <2>3
  <2>5. QED BY <1>2, <2>1, <2>4 DEF BucketBound
<1>8. CASE ~Rate!Expired(p)
  <2> DEFINE b == buckets[p]
  <2>1. /\ b # None /\ b.left # 0 /\ b \in [count : Nat \ {0}, left : 0..Window]
        /\ buckets'[p] = [b EXCEPT !.left = Rate!Less(@)]
    BY <1>6, <1>8 DEF Rate!Expired, RateTypes
  <2> HIDE DEF b
  <2>2. b.left \in 1..Window /\ b.count \in Nat BY <1>1, <2>1
  <2>3. buckets'[p].left = b.left - 1 /\ buckets'[p].count = b.count BY <2>1, <2>2 DEF Rate!Less
  <2>4. PICK age : age = Window - b.left OBVIOUS
  <2>5. /\ PassedSince(p, age) <= b.count /\ PassedSince(p, age) <= MaxPerMinute
        /\ PassedSince(p, Last) - PassedSince(p, age) <= MaxPerMinute
    BY <1>8, <2>4 DEF BucketBound, b
  <2>6. age \in 0..Last BY <1>1, <2>2, <2>4
  <2>7. PassedSince(p, age) \in Nat /\ PassedSince(p, Last) \in Nat BY <1>1, <1>3, <2>6
  <2>8. PassedSince(p, Last)' \in Nat
    <3>1. PICK k : k = Last OBVIOUS
    <3>2. PassedSince(p, k)' \in Nat BY <1>1, <1>4, <3>1
    <3>3. QED BY <3>1, <3>2 DEF PassedSince, Last
  <2>9. CASE b.left = 1
    <3>1. Rate!Expired(p)' BY <2>3, <2>9 DEF Rate!Expired
    <3>2. age = Last BY <1>1, <2>4, <2>9
    <3>3. PassedSince(p, Last) <= MaxPerMinute BY <2>5, <3>2
    <3>4. PassedSince(p, Last)' <= MaxPerMinute BY <1>1, <1>5, <2>7, <2>8, <3>3
    <3>5. QED BY <1>2, <3>1, <3>4 DEF BucketBound
  <2>10. CASE b.left # 1
    <3>1. PICK next : next = age + 1 OBVIOUS
    <3>2. next \in 0..Last /\ next # 0 /\ next - 1 = age BY <1>1, <2>2, <2>4, <2>6, <2>10, <3>1
    <3>3. PassedSince(p, next)' = PassedSince(p, age) BY <1>2, <3>2
    <3>4. buckets'[p].left = Window - next BY <1>1, <2>2, <2>3, <2>4, <3>1
    <3>5. ~Rate!Expired(p)'
      <4>1. buckets'[p].left # 0 BY <2>2, <2>3, <2>10
      <4>2. buckets'[p] # None
        <5>1. Rate!Less(b.left) \in Nat BY <2>2 DEF Rate!Less
        <5>2. buckets'[p] \in [count : Nat, left : Nat] BY <2>1, <5>1
        <5>3. QED BY <5>2, RateConstants
      <4>3. QED BY <4>1, <4>2 DEF Rate!Expired
    <3>6. /\ PassedSince(p, next)' <= buckets'[p].count /\ PassedSince(p, next)' <= MaxPerMinute
      BY <2>3, <2>5, <3>3
    <3>7. PassedSince(p, Last)' - PassedSince(p, next)' <= MaxPerMinute
      BY <1>1, <1>5, <2>5, <2>7, <2>8, <3>3
    <3>8. QED BY <1>1, <3>2, <3>4, <3>5, <3>6, <3>7, InUse
  <2>11. QED BY <2>9, <2>10
<1>9. QED BY <1>7, <1>8

LEMMA ElapseKeys ==
  ASSUME RateTypes, KeyStays, KeysBound, Rate!RateLimitAssumption, Rate!Elapse
  PROVE  KeyStays' /\ KeysBound'
<1>1. PICK shift \in 0..1 :
           /\ shift = 1 <=> phase = Last
           /\ phase' = IF phase = Last THEN 0 ELSE phase + 1
           /\ keys' = [w \in Rate!Windows |-> IF w < shift THEN Rate!NoKey ELSE Rate!Aged(keys[w - shift])]
           /\ hit' = [r \in Requests |->
                        IF hit[r].stage = "idle" THEN Rate!NoHit
                        ELSE [hit[r] EXCEPT !.age = @ + 1, !.window = @ + shift]]
  BY ElapseTimes
<1>2. /\ Last \in Nat /\ Window = Last + 1 /\ MaxPerMinute \in Nat /\ None \notin Nat /\ phase \in 0..Last
      /\ Last \in 0..Last /\ 0 \in 0..Last /\ Cardinality(Requests) \in Nat /\ 0 \in Rate!Windows
  BY PassedIsNat, RateConstants DEF Last
<1>3. "redis" \in Rate!Counters BY DEF Rate!Counters
<1>4. /\ \A age \in 0..Last : PassedSince("redis", age)' <= PassedSince("redis", age)
      /\ \A age \in 0..Last : age # 0 => PassedSince("redis", age)' = PassedSince("redis", age - 1)
      /\ PassedSince("redis", 0)' = 0
  BY <1>3, PassedOlder
<1>5. \A age \in 0..Last : PassedSince("redis", age) \in Nat BY <1>3, PassedIsNat
<1>6. PICK now : now = phase OBVIOUS
<1>7. PICK last : last = Last OBVIOUS
<1>8. /\ UnderWay = PassedSince("redis", now) + Cardinality(Late) + Cardinality(Passing)
      /\ UnderWay <= Cardinality(Requests) + keys[0].count /\ UnderWay <= Cardinality(Requests) + MaxPerMinute
      /\ PassedSince("redis", last) - PassedSince("redis", now) <= Cardinality(Requests) + MaxPerMinute
  BY <1>6, <1>7 DEF UnderWay, KeysBound
<1>9. now \in 0..last /\ PassedSince("redis", now) \in Nat /\ PassedSince("redis", last) \in Nat
  BY <1>2, <1>5, <1>6, <1>7
<1>10. PassedSince("redis", last)' <= PassedSince("redis", last) /\ PassedSince("redis", last)' \in Nat
  <2>1. PassedSince("redis", last)' <= PassedSince("redis", last) BY <1>2, <1>4, <1>7
  <2>2. CASE last = 0
    <3>1. PassedSince("redis", last)' = 0 BY <1>4, <2>2
    <3>2. QED BY <2>1, <3>1
  <2>3. CASE last # 0
    <3>1. last \in 0..Last /\ last - 1 \in 0..Last BY <1>2, <1>7, <2>3
    <3>2. PassedSince("redis", last)' = PassedSince("redis", last - 1) BY <1>4, <2>3, <3>1
    <3>3. QED BY <1>5, <2>1, <3>1, <3>2
  <2>4. QED BY <2>1, <2>2, <2>3
<1>11. keys'[0] = IF 0 < shift THEN Rate!NoKey ELSE Rate!Aged(keys[0 - shift]) BY <1>1, <1>2
<1>12. Cardinality(Late) \in Nat /\ Cardinality(Passing) \in Nat /\ Cardinality(Late)' <= Cardinality(Requests)
       /\ Cardinality(Late)' \in Nat
  BY HitSets
<1>13. shift \in 0..1 /\ (shift = 1 <=> phase = Last) /\ phase' = IF phase = Last THEN 0 ELSE phase + 1 BY <1>1
\* Another window begins.
<1>14. CASE phase = Last
  <2>1. shift = 1 /\ phase' = 0 BY <1>13, <1>14
  <2>2. keys'[0] = Rate!NoKey BY <1>11, <2>1
  <2>3. keys'[0].count = 0 /\ keys'[0].left = None BY <2>2 DEF Rate!NoKey
  <2>4. Passing' = {}
    <3> SUFFICES ASSUME NEW r \in Requests, hit'[r].stage = "pexpire", hit'[r].window = 0 PROVE FALSE
      BY DEF Passing
    <3>1. CASE hit[r].stage = "idle"
      <4>1. hit'[r] = Rate!NoHit BY <1>1, <3>1
      <4>2. QED BY <4>1, NoHitType
    <3>2. CASE hit[r].stage # "idle"
      <4> DEFINE h == hit[r]
      <4>1. h \in RateHits BY DEF RateTypes
      <4>2. hit'[r] = [h EXCEPT !.age = @ + 1, !.window = @ + shift] BY <1>1, <3>2
      <4> HIDE DEF h
      <4>3. hit'[r].window = h.window + 1 /\ h.window \in Nat BY <2>1, <4>1, <4>2 DEF RateHits
      <4>4. QED BY <4>3
    <3>3. QED BY <3>1, <3>2
  <2>5. Cardinality(Passing)' = 0
    <3>1. Cardinality(Passing)' = Cardinality(Passing') OBVIOUS
    <3>2. QED BY <2>4, <3>1, FS_EmptySet
  <2>6. PICK next : next = phase' OBVIOUS
  <2>7. UnderWay' = PassedSince("redis", next)' + Cardinality(Late)' + Cardinality(Passing)'
    BY <2>6 DEF UnderWay, PassedSince
  <2>8. UnderWay' = Cardinality(Late)'
    <3>1. PassedSince("redis", next)' = 0 BY <1>4, <2>1, <2>6
    <3>2. QED BY <1>12, <2>5, <2>7, <3>1
  <2>9. PassedSince("redis", last)' - PassedSince("redis", next)' <= Cardinality(Requests) + MaxPerMinute
    <3>1. PassedSince("redis", next)' = 0 BY <1>4, <2>1, <2>6
    <3>2. PassedSince("redis", last) = PassedSince("redis", now) BY <1>6, <1>7, <1>14
    <3>3. QED BY <1>2, <1>8, <1>9, <1>10, <1>12, <3>1, <3>2
  <2>10. UnderWay' <= Cardinality(Requests) + keys'[0].count /\ UnderWay' <= Cardinality(Requests) + MaxPerMinute
    BY <1>2, <1>12, <2>3, <2>8
  <2>11. KeysBound' BY <1>7, <2>6, <2>9, <2>10 DEF KeysBound, PassedSince, Last
  <2>12. KeyStays' BY <2>3 DEF KeyStays
  <2>13. QED BY <2>11, <2>12
\* The window goes on.
<1>15. CASE phase # Last
  <2>1. shift = 0 /\ phase' = phase + 1 BY <1>13, <1>15
  <2>2. keys'[0] = Rate!Aged(keys[0]) BY <1>11, <2>1
  <2>3. keys[0] \in RateKeys BY KeyZero
  <2>4. PICK key : key = keys[0] OBVIOUS
  <2>5. /\ key \in RateKeys /\ keys'[0] = Rate!Aged(key) /\ (key.left # None => key.left >= Window - phase)
    BY <2>2, <2>3, <2>4 DEF KeyStays
  <2>6. keys'[0].count = key.count /\ (keys'[0].left # None => keys'[0].left >= Window - phase')
    <3>1. CASE key.left = None BY <2>5, <3>1, AgedKey
    <3>2. CASE key.left # None
      <4>1. key.left \in 1..Window BY <2>5, <3>2 DEF RateKeys
      <4>2. key.left >= Window - phase /\ Window - phase >= 2 BY <1>2, <1>15, <2>5, <3>2
      <4>3. key.left # 1 BY <1>2, <4>1, <4>2
      <4>4. keys'[0].count = key.count /\ keys'[0].left = key.left - 1 BY <2>5, <3>2, <4>3, AgedKey
      <4>5. QED BY <1>2, <2>1, <4>1, <4>2, <4>4
    <3>3. QED BY <3>1, <3>2
  <2>7. KeyStays' BY <2>6 DEF KeyStays
  <2>8. \A r \in Requests : /\ hit'[r].stage = hit[r].stage
                            /\ hit[r].stage # "idle" => hit'[r].window = hit[r].window
    <3> SUFFICES ASSUME NEW r \in Requests
                 PROVE  /\ hit'[r].stage = hit[r].stage
                        /\ hit[r].stage # "idle" => hit'[r].window = hit[r].window
      OBVIOUS
    <3>1. CASE hit[r].stage = "idle"
      <4>1. hit'[r] = Rate!NoHit BY <1>1, <3>1
      <4>2. QED BY <3>1, <4>1, NoHitType
    <3>2. CASE hit[r].stage # "idle"
      <4> DEFINE h == hit[r]
      <4>1. h \in RateHits BY DEF RateTypes
      <4>2. hit'[r] = [h EXCEPT !.age = @ + 1, !.window = @ + shift] BY <1>1, <3>2
      <4> HIDE DEF h
      <4>3. hit'[r].window = h.window + 0 /\ h.window \in Nat /\ hit'[r].stage = h.stage
        BY <2>1, <4>1, <4>2 DEF RateHits
      <4>4. QED BY <4>3 DEF h
    <3>3. QED BY <3>1, <3>2
  <2>9. Late' = Late BY <2>8 DEF Late
  <2>10. Passing' = Passing BY <2>8 DEF Passing
  <2>11. PICK next : next = phase' OBVIOUS
  <2>12. next \in 0..Last /\ next # 0 /\ next - 1 = now BY <1>2, <1>6, <1>15, <2>1, <2>11
  <2>13. PassedSince("redis", next)' = PassedSince("redis", now) BY <1>4, <2>12
  <2>14. UnderWay' = PassedSince("redis", next)' + Cardinality(Late)' + Cardinality(Passing)'
    BY <2>11 DEF UnderWay, PassedSince
  <2>15. UnderWay' = UnderWay BY <1>8, <2>9, <2>10, <2>13, <2>14
  <2>16. PassedSince("redis", last)' - PassedSince("redis", next)' <= Cardinality(Requests) + MaxPerMinute
    BY <1>2, <1>8, <1>9, <1>10, <2>13
  <2>17. UnderWay' <= Cardinality(Requests) + keys'[0].count /\ UnderWay' <= Cardinality(Requests) + MaxPerMinute
    BY <1>8, <2>4, <2>6, <2>15
  <2>18. KeysBound' BY <1>7, <2>11, <2>16, <2>17 DEF KeysBound, PassedSince, Last
  <2>19. QED BY <2>7, <2>18
<1>16. QED BY <1>14, <1>15

LEMMA RateElapse ==
  ASSUME RateInv, Rate!RateLimitAssumption, Rate!Elapse
  PROVE  RateInv'
<1>1. RateTypes /\ (\A p \in Processes : BucketBound(p)) /\ KeyStays /\ KeysBound BY DEF RateInv
<1>2. RateTypes' BY <1>1, ElapseTypes
<1>3. \A p \in Processes : BucketBound(p)'
  <2> SUFFICES ASSUME NEW p \in Processes PROVE BucketBound(p)' OBVIOUS
  <2>1. BucketBound(p) BY <1>1
  <2>2. QED BY <1>1, <2>1, ElapseBuckets
<1>4. KeyStays' /\ KeysBound' BY <1>1, ElapseKeys
<1>5. QED BY <1>2, <1>3, <1>4 DEF RateInv

LEMMA RateStart == ASSUME Rate!Init, Rate!RateLimitAssumption PROVE RateInv
<1>1. /\ phase = 0 /\ keys = [w \in Rate!Windows |-> Rate!NoKey] /\ buckets = [p \in Processes |-> None]
      /\ hit = [r \in Requests |-> Rate!NoHit]
      /\ passed = [c \in Rate!Counters |-> [n \in Rate!Recent |-> 0]]
  BY DEF Rate!Init
<1>2. /\ Last \in Nat /\ Rate!Recent = 0..Last /\ MaxPerMinute \in Nat /\ Cardinality(Requests) \in Nat
      /\ 0 \in Rate!Windows
  BY RateConstants
<1>3. RateTypes
  <2>1. keys \in [Rate!Windows -> RateKeys]
    <3>1. Rate!NoKey \in RateKeys BY DEF Rate!NoKey, RateKeys
    <3>2. QED BY <1>1, <3>1
  <2>2. hit \in [Requests -> RateHits] /\ \A r \in Requests : hit[r].stage = "idle" BY <1>1, NoHitType
  <2>3. passed \in [Rate!Counters -> [Rate!Recent -> Nat]] BY <1>1
  <2>4. phase \in Rate!Recent BY <1>1, <1>2
  <2>5. QED BY <1>1, <2>1, <2>2, <2>3, <2>4 DEF RateTypes
<1>4. \A c \in Rate!Counters, age \in 0..Last : passed[c][age] = 0 /\ PassedSince(c, age) = 0
  <2> SUFFICES ASSUME NEW c \in Rate!Counters, NEW age \in 0..Last
               PROVE  passed[c][age] = 0 /\ PassedSince(c, age) = 0
    OBVIOUS
  <2> DEFINE f == passed[c]
  <2>1. \A n \in 0..Last : f[n] = 0 BY <1>1, <1>2
  <2> HIDE DEF f
  <2>2. IsFiniteSet(0..age) BY <1>2, FS_Interval
  <2>3. \A n \in 0..age : f[n] = 0 BY <1>2, <2>1
  <2>4. Summed(f, 0..age) = 0 BY <2>2, <2>3, SumOfZeros
  <2>5. QED BY <2>1, <2>4 DEF PassedSince, f
<1>5. \A p \in Processes : BucketBound(p)
  <2> SUFFICES ASSUME NEW p \in Processes PROVE BucketBound(p) OBVIOUS
  <2>1. p \in Rate!Counters /\ 0 \in 0..Last /\ Last \in 0..Last BY <1>2 DEF Rate!Counters
  <2>2. Rate!Expired(p) BY <1>1 DEF Rate!Expired
  <2>3. passed[p][0] = 0 /\ PassedSince(p, Last) <= MaxPerMinute BY <1>2, <1>4, <2>1
  <2>4. QED BY <2>2, <2>3 DEF BucketBound
<1>6. KeyStays BY <1>1, <1>2 DEF KeyStays, Rate!NoKey
<1>7. KeysBound
  <2>1. "redis" \in Rate!Counters /\ 0 \in 0..Last /\ Last \in 0..Last BY <1>2 DEF Rate!Counters
  <2>2. PassedSince("redis", phase) = 0 /\ PassedSince("redis", Last) = 0 BY <1>1, <1>4, <2>1
  <2>3. \A r \in Requests : hit[r].stage = "idle" BY <1>1, NoHitType
  <2>4. Late = {} /\ Passing = {} BY <2>3 DEF Late, Passing
  <2>5. Cardinality(Late) = 0 /\ Cardinality(Passing) = 0 BY <2>4, FS_EmptySet
  <2>6. keys[0].count = 0 BY <1>1, <1>2 DEF Rate!NoKey
  <2>7. UnderWay = 0 BY <2>2, <2>5 DEF UnderWay
  <2>8. QED BY <1>2, <2>2, <2>6, <2>7 DEF KeysBound
<1>8. QED BY <1>3, <1>5, <1>6, <1>7 DEF RateInv

LEMMA RateStep ==
  ASSUME RateInv, Rate!RateLimitAssumption, [PlatformNext]_everything
  PROVE  RateInv'
<1>1. CASE UNCHANGED rateVars
  <2>1. /\ phase' = phase /\ keys' = keys /\ buckets' = buckets /\ hit' = hit /\ passed' = passed
    BY <1>1 DEF rateVars
  <2>2. RateTypes /\ (\A p \in Processes : BucketBound(p)) /\ KeyStays /\ KeysBound BY DEF RateInv
  <2>3. RateTypes' BY <2>1, <2>2 DEF RateTypes
  <2>4. \A p \in Processes : BucketBound(p)' BY <2>1, <2>2, BucketsAlone
  <2>5. KeyStays' BY <2>1, <2>2 DEF KeyStays
  <2>6. KeysBound' BY <2>1, <2>2, KeysAlone
  <2>7. QED BY <2>3, <2>4, <2>5, <2>6 DEF RateInv
<1>2. CASE Rate!Next
  BY <1>2, RateLocalHit, RateCleanUp, RateArrive, RateIncr, RatePExpire, RateFails, RateElapse DEF Rate!Next
<1>3. UNCHANGED rateVars \/ Rate!Next BY DEF PlatformNext, everything
<1>4. QED BY <1>1, <1>2, <1>3

LEMMA RateHolds == PlatformSpec => []RateInv
<1>1. Rate!RateLimitAssumption BY PlatformAssumption
<1>2. PlatformInit => RateInv BY <1>1, RateStart DEF PlatformInit
<1>3. RateInv /\ [PlatformNext]_everything => RateInv' BY <1>1, RateStep
<1>4. QED BY <1>2, <1>3, PTL DEF PlatformSpec

LEMMA PassedSum ==
  ASSUME RateTypes, Rate!RateLimitAssumption, NEW c \in Rate!Counters
  PROVE  Rate!PassedBy(c) = PassedSince(c, Last)
<1>1. passed[c] \in [0..Last -> Nat] BY RateConstants DEF RateTypes
<1>2. DOMAIN passed[c] = 0..Last BY <1>1
<1> DEFINE f == passed[c]
<1>3. Rate!PassedBy(c) = Summed(f, DOMAIN f)
  BY DEF Rate!PassedBy, Rate!FoldFunction, Rate!FoldFunctionOnSet, Rate!MapThenFoldSet, Summed, Folded, Iterated,
         Turn, Unit, Combine, Chosen
<1>4. QED BY <1>2, <1>3 DEF PassedSince

LEMMA RateInvMeans == RateInv /\ Rate!RateLimitAssumption => Rate!BurstBounded
<1> SUFFICES ASSUME RateInv, Rate!RateLimitAssumption PROVE Rate!BurstBounded OBVIOUS
<1>1. RateTypes /\ (\A p \in Processes : BucketBound(p)) /\ KeysBound BY DEF RateInv
<1>2. Last \in Nat /\ Window = Last + 1 /\ MaxPerMinute \in Nat /\ Cardinality(Requests) \in Nat /\ Last \in 0..Last
  BY RateConstants DEF Last
<1>3. ASSUME NEW p \in Processes PROVE Rate!PassedBy(p) <= 2 * MaxPerMinute
  <2>1. p \in Rate!Counters BY DEF Rate!Counters
  <2>2. \A age \in 0..Last : PassedSince(p, age) \in Nat BY <1>1, <2>1, PassedIsNat
  <2>3. PassedSince(p, Last) <= 2 * MaxPerMinute
    <3>1. CASE Rate!Expired(p)
      <4>1. PassedSince(p, Last) <= MaxPerMinute BY <1>1, <3>1 DEF BucketBound
      <4>2. QED BY <1>2, <2>2, <4>1
    <3>2. CASE ~Rate!Expired(p)
      <4>1. PICK age : age = Window - buckets[p].left OBVIOUS
      <4>2. PassedSince(p, age) <= MaxPerMinute /\ PassedSince(p, Last) - PassedSince(p, age) <= MaxPerMinute
        BY <1>1, <3>2, <4>1 DEF BucketBound
      <4>3. age \in 0..Last
        <5>1. buckets[p].left \in 0..Window /\ buckets[p].left # 0 BY <1>1, <3>2 DEF Rate!Expired, RateTypes
        <5>2. QED BY <1>2, <4>1, <5>1
      <4>4. QED BY <1>2, <2>2, <4>2, <4>3
    <3>3. QED BY <3>1, <3>2
  <2>4. QED BY <1>1, <2>1, <2>3, PassedSum
<1>4. Rate!PassedBy("redis") <= 2 * (MaxPerMinute + Cardinality(Requests))
  <2>1. "redis" \in Rate!Counters /\ phase \in 0..Last BY <1>1, PassedIsNat DEF Rate!Counters
  <2>2. PassedSince("redis", phase) \in Nat /\ PassedSince("redis", Last) \in Nat BY <1>1, <1>2, <2>1, PassedIsNat
  <2>3. PassedSince("redis", phase) <= MaxPerMinute + Cardinality(Requests)
    BY <1>1, <1>2, <2>2, HitSets DEF KeysBound, UnderWay
  <2>4. PassedSince("redis", Last) <= 2 * (MaxPerMinute + Cardinality(Requests))
    BY <1>1, <1>2, <2>2, <2>3 DEF KeysBound
  <2>5. QED BY <1>1, <2>1, <2>4, PassedSum
<1>5. Rate!Cardinality(Requests) = Cardinality(Requests) BY Zenon DEF Cardinality, Rate!Cardinality
<1>6. QED BY <1>3, <1>4, <1>5 DEF Rate!BurstBounded

\* BurstBounded: in no period as long as a window does the limiter let more through
\* than two windows allow and, with Redis, the hits under way when each began.
THEOREM BurstsAreBounded == PlatformSpec => []BurstBounded
<1>1. Rate!RateLimitAssumption BY PlatformAssumption
<1>2. RateInv => BurstBounded BY <1>1, RateInvMeans DEF BurstBounded
<1>3. QED BY <1>2, RateHolds, PTL

-----------------------------------------------------------------------------
\* What is left of the types: a hit that lasts as long as it may is no more windows
\* late than there are keys.
OnTime(h, now) == 0 <= h.age /\ h.age <= HitPatience /\ h.window * Window + now <= h.age + Last
HitsOnTime == \A r \in Requests : OnTime(hit[r], phase)
RateBounds == shared \in BOOLEAN /\ HitsOnTime

\* What a command leaves of a hit, or makes of it.
Goes(h, g) == (h.age = g.age /\ h.window = g.window) \/ (h.age = 0 /\ h.window = 0)

LEMMA OneLater ==
  ASSUME NEW w \in Nat, NEW d \in 0..1, NEW n \in Nat
  PROVE  /\ (w + d) * n = w * n + d * n /\ w * n \in Nat
         /\ d = 0 => d * n = 0
         /\ d = 1 => d * n = n
OBVIOUS

LEMMA WindowsAreEnough ==
  ASSUME NEW w \in Nat, NEW n \in Nat \ {0}, NEW a \in Nat, w * n <= a
  PROVE  w \in 0..(a \div n)
<1> DEFINE q == a \div n
<1>1. q \in Nat /\ a < n * q + n OBVIOUS
<1> HIDE DEF q
<1>2. n * q + n = (q + 1) * n BY <1>1
<1>3. w * n < (q + 1) * n BY <1>1, <1>2
<1>4. ASSUME w >= q + 1 PROVE FALSE
  <2>1. PICK k \in Nat : w = q + 1 + k BY <1>1, <1>4, w = q + 1 + (w - q - 1)
  <2>2. w * n = (q + 1) * n + k * n /\ k * n \in Nat BY <1>1, <2>1
  <2>3. QED BY <1>1, <1>3, <2>2
<1>5. w \in 0..q BY <1>1, <1>4
<1>6. QED BY <1>5 DEF q

LEMMA HitsStayOnTime ==
  ASSUME RateTypes, Rate!RateLimitAssumption, HitsOnTime, NEW r \in Requests, NEW h,
         hit' = [hit EXCEPT ![r] = h], phase' = phase, Goes(h, hit[r])
  PROVE  HitsOnTime'
<1>1. \A q \in Requests : hit'[q] = IF q = r THEN h ELSE hit[q] BY DEF RateTypes
<1>2. OnTime(hit[r], phase) BY DEF HitsOnTime
<1>3. OnTime(h, phase)
  <2>1. Window \in Nat \ {0} /\ Last \in Nat /\ phase \in 0..Last /\ HitPatience \in Nat
    BY RateConstants DEF RateTypes, Rate!RateLimitAssumption
  <2>2. QED BY <1>2, <2>1 DEF OnTime, Goes
<1>4. ASSUME NEW q \in Requests PROVE OnTime(hit'[q], phase')
  <2>1. hit'[q] = h \/ hit'[q] = hit[q] BY <1>1
  <2>2. OnTime(hit'[q], phase) BY <1>3, <2>1 DEF HitsOnTime
  <2>3. QED BY <2>2
<1>5. QED BY <1>4 DEF HitsOnTime, OnTime, Last

LEMMA HitsBeginAndEndOnTime ==
  ASSUME RateTypes, Rate!RateLimitAssumption, RateBounds, NEW r \in Requests,
         Rate!Incr(r) \/ Rate!PExpire(r) \/ Rate!RedisFails(r) \/ \E p \in Processes : Rate!Arrive(r, p)
  PROVE  RateBounds'
<1>1. shared' = shared /\ phase' = phase BY DEF Rate!Incr, Rate!PExpire, Rate!RedisFails, Rate!Arrive
<1>2. PICK h : hit' = [hit EXCEPT ![r] = h] /\ Goes(h, hit[r])
  <2>1. CASE hit' = [hit EXCEPT ![r] = Rate!NoHit]
    <3>1. PICK h : h = Rate!NoHit OBVIOUS
    <3>2. h.age = 0 /\ h.window = 0 BY <3>1 DEF Rate!NoHit
    <3>3. QED BY <2>1, <3>1, <3>2 DEF Goes
  <2>2. CASE hit' = [hit EXCEPT ![r].stage = "pexpire", ![r].count = 1]
    <3> DEFINE h == [hit[r] EXCEPT !.stage = "pexpire", !.count = 1]
    <3>1. hit' = [hit EXCEPT ![r] = h] BY <2>2 DEF RateTypes
    <3>2. hit[r] \in RateHits BY DEF RateTypes
    <3>3. h.age = hit[r].age /\ h.window = hit[r].window BY <3>2 DEF RateHits
    <3> HIDE DEF h
    <3>4. QED BY <3>1, <3>3 DEF Goes
  <2>3. ASSUME NEW p \in Processes, Rate!Arrive(r, p) PROVE \E h : hit' = [hit EXCEPT ![r] = h] /\ Goes(h, hit[r])
    <3> DEFINE half == [Rate!NoHit EXCEPT !.stage = "incr"]
               h == [half EXCEPT !.process = p]
    <3>1. hit' = [hit EXCEPT ![r] = h] BY <2>3 DEF Rate!Arrive
    <3>2. half = [stage |-> "incr", process |-> None, window |-> 0, count |-> 0, age |-> 0] BY DEF Rate!NoHit
    <3> HIDE DEF half
    <3>3. h = [stage |-> "incr", process |-> p, window |-> 0, count |-> 0, age |-> 0] BY <3>2
    <3> HIDE DEF h
    <3>4. h.age = 0 /\ h.window = 0 BY <3>3
    <3>5. QED BY <3>1, <3>4 DEF Goes
  <2>4. \/ hit' = [hit EXCEPT ![r] = Rate!NoHit]
        \/ hit' = [hit EXCEPT ![r].stage = "pexpire", ![r].count = 1]
        \/ \E p \in Processes : Rate!Arrive(r, p)
    BY DEF Rate!Incr, Rate!PExpire, Rate!RedisFails
  <2>5. QED BY <2>1, <2>2, <2>3, <2>4
<1>3. HitsOnTime' BY <1>1, <1>2, HitsStayOnTime DEF RateBounds
<1>4. QED BY <1>1, <1>3 DEF RateBounds

LEMMA HitsAge ==
  ASSUME RateTypes, Rate!RateLimitAssumption, RateBounds, Rate!Elapse
  PROVE  RateBounds'
<1>1. PICK shift \in 0..1 :
           /\ shift = 1 <=> phase = Last
           /\ phase' = IF phase = Last THEN 0 ELSE phase + 1
           /\ hit' = [r \in Requests |->
                        IF hit[r].stage = "idle" THEN Rate!NoHit
                        ELSE [hit[r] EXCEPT !.age = @ + 1, !.window = @ + shift]]
  BY ElapseTimes
<1>2. /\ Window \in Nat \ {0} /\ Last \in Nat /\ Window = Last + 1 /\ phase \in 0..Last /\ HitPatience \in Nat
  BY RateConstants DEF RateTypes, Rate!RateLimitAssumption, Last
<1>3. /\ phase' = (IF phase = Last THEN 0 ELSE phase + 1) /\ shift \in 0..1 /\ (shift = 1 <=> phase = Last)
      /\ phase' \in 0..Last
  <2>1. phase' = IF phase = Last THEN 0 ELSE phase + 1 BY <1>1
  <2>2. shift \in 0..1 /\ (shift = 1 <=> phase = Last) BY <1>1
  <2>3. phase' \in 0..Last BY <1>2, <2>1
  <2>4. QED BY <2>1, <2>2, <2>3
<1>4. ASSUME NEW r \in Requests PROVE OnTime(hit'[r], phase')
  <2>1. CASE hit[r].stage = "idle"
    <3>1. hit'[r] = Rate!NoHit BY <1>1, <2>1
    <3>2. hit'[r].age = 0 /\ hit'[r].window = 0 BY <3>1 DEF Rate!NoHit
    <3>3. QED BY <1>2, <1>3, <3>2 DEF OnTime
  <2>2. CASE hit[r].stage # "idle"
    <3> DEFINE h == hit[r]
    <3>1. h \in RateHits BY DEF RateTypes
    <3>2. h.age \in Int /\ h.window \in Nat /\ OnTime(h, phase) BY <3>1 DEF RateHits, RateBounds, HitsOnTime
    <3>3. h.age < HitPatience BY <2>2 DEF Rate!Elapse
    <3>4. hit'[r] = [h EXCEPT !.age = @ + 1, !.window = @ + shift] BY <1>1, <2>2
    <3> HIDE DEF h
    <3>5. hit'[r].age = h.age + 1 /\ hit'[r].window = h.window + shift BY <3>1, <3>4 DEF RateHits
    <3>6. /\ (h.window + shift) * Window = h.window * Window + shift * Window /\ h.window * Window \in Nat
          /\ shift = 0 => shift * Window = 0
          /\ shift = 1 => shift * Window = Window
      BY <1>2, <3>2, OneLater
    <3>7. (h.window + shift) * Window + phase' <= h.age + 1 + Last
      <4>1. h.window * Window + phase <= h.age + Last BY <3>2 DEF OnTime
      <4>2. CASE shift = 1
        <5>1. phase' = 0 /\ phase = Last BY <1>3, <4>2
        <5>2. (h.window + shift) * Window = h.window * Window + Window BY <3>6, <4>2
        <5>3. QED BY <1>2, <3>2, <3>6, <4>1, <5>1, <5>2
      <4>3. CASE shift = 0
        <5>1. phase' = phase + 1 BY <1>3, <4>3
        <5>2. (h.window + shift) * Window = h.window * Window BY <3>6, <4>3
        <5>3. QED BY <1>2, <3>2, <3>6, <4>1, <5>1, <5>2
      <4>4. QED BY <1>3, <4>2, <4>3
    <3>8. 0 <= h.age + 1 /\ h.age + 1 <= HitPatience BY <1>2, <3>2, <3>3 DEF OnTime
    <3>9. QED BY <3>5, <3>7, <3>8 DEF OnTime
  <2>3. QED BY <2>1, <2>2
<1>5. HitsOnTime' BY <1>4 DEF HitsOnTime, OnTime, Last
<1>6. shared' = shared BY DEF Rate!Elapse
<1>7. QED BY <1>5, <1>6 DEF RateBounds

LEMMA RateBoundsStep ==
  ASSUME RateInv, RateBounds, Rate!RateLimitAssumption, [PlatformNext]_everything
  PROVE  RateBounds'
<1>1. RateTypes BY DEF RateInv
<1>2. CASE shared' = shared /\ phase' = phase /\ hit' = hit
  BY <1>2 DEF RateBounds, HitsOnTime, OnTime, Last
<1>3. CASE Rate!Next
  <2>1. ASSUME NEW p \in Processes, Rate!LocalHit(p) \/ Rate!CleanUp(p)
        PROVE  shared' = shared /\ phase' = phase /\ hit' = hit
    BY <2>1 DEF Rate!LocalHit, Rate!CleanUp
  <2>2. QED BY <1>1, <1>2, <1>3, <2>1, HitsBeginAndEndOnTime, HitsAge DEF Rate!Next
<1>4. UNCHANGED rateVars => shared' = shared /\ phase' = phase /\ hit' = hit BY DEF rateVars
<1>5. UNCHANGED rateVars \/ Rate!Next BY DEF PlatformNext, everything
<1>6. QED BY <1>2, <1>3, <1>4, <1>5

LEMMA RateBoundsStart ==
  ASSUME Rate!RateLimitAssumption, Rate!Init PROVE RateBounds
<1>1. shared \in BOOLEAN /\ phase = 0 /\ \A r \in Requests : hit[r] = Rate!NoHit BY DEF Rate!Init
<1>2. Window \in Nat \ {0} /\ Last \in Nat /\ HitPatience \in Nat BY RateConstants DEF Rate!RateLimitAssumption
<1>3. Rate!NoHit.age = 0 /\ Rate!NoHit.window = 0 BY DEF Rate!NoHit
<1>4. QED BY <1>1, <1>2, <1>3 DEF RateBounds, HitsOnTime, OnTime

LEMMA RateTypesMean ==
  ASSUME Rate!RateLimitAssumption, RateInv, RateBounds PROVE Rate!TypeOK
<1>1. RateTypes /\ shared \in BOOLEAN BY DEF RateInv, RateBounds
<1>2. Window \in Nat \ {0} /\ Last \in Nat /\ Window = Last + 1 /\ phase \in 0..Last /\ HitPatience \in Nat
  BY <1>1, RateConstants DEF RateTypes, Rate!RateLimitAssumption, Last
<1> DEFINE Hits == [stage : {"idle", "incr", "pexpire"}, process : Processes \union {None},
                    window : Rate!Windows, count : {0, 1}, age : 0..HitPatience]
<1>3. ASSUME NEW r \in Requests PROVE hit[r] \in Hits
  <2> DEFINE h == hit[r]
  <2>1. h \in RateHits BY <1>1 DEF RateTypes
  <2>2. OnTime(h, phase) BY DEF RateBounds, HitsOnTime
  <2> HIDE DEF h
  <2>3. h.age \in Int /\ h.window \in Nat BY <2>1 DEF RateHits
  <2>4. h.age \in 0..HitPatience BY <1>2, <2>2, <2>3 DEF OnTime
  <2>5. h.window \in Rate!Windows
    <3> DEFINE longest == HitPatience + Window - 1
    <3>1. h.window * Window \in Nat BY <1>2, <2>3
    <3>2. longest \in Nat /\ h.window * Window <= longest BY <1>2, <2>2, <2>3, <2>4, <3>1 DEF OnTime
    <3>3. longest \div Window = Rate!Oldest BY DEF Rate!Oldest
    <3> HIDE DEF longest
    <3>4. h.window \in 0..(longest \div Window) BY <1>2, <2>3, <3>2, WindowsAreEnough
    <3>5. QED BY <3>3, <3>4 DEF Rate!Windows
  <2>6. h \in Hits BY <2>1, <2>4, <2>5 DEF RateHits
  <2>7. QED BY <2>6 DEF h
<1>4. hit \in [Requests -> Hits] BY <1>1, <1>3 DEF RateTypes
<1>5. QED BY <1>1, <1>4 DEF Rate!TypeOK, RateTypes, RateKeys

LEMMA PoolTypesMean == ASSUME PoolTypes PROVE Pool!TypeOK
<1>1. \A n \in 1..Len(waiting) : waiting[n] \in Pool!Jobs BY DEF PoolTypes
<1>2. Pool!Len(waiting) = Len(waiting) BY DEF PoolTypes
<1>3. QED BY <1>1, <1>2 DEF PoolTypes, Pool!TypeOK

LEMMA LeasesKeepTheirTypes == Spec => []TypeOK
<1>1. Init => TypeOK BY LeaseAssumption DEF Init, TypeOK, Free, Idle, Work, Up
<1>2. QED BY <1>1, TypesKept, PTL DEF Spec

\* Whatever component runs, its state keeps its types.
THEOREM PlatformKeepsItsTypes == PlatformSpec => []TypesOK
<1> DEFINE Kept == focus \in Components /\ Rate!RateLimitAssumption /\ RateInv /\ RateBounds
<1>1. PlatformInit => Kept
  BY PlatformAssumption, RateStart, RateBoundsStart DEF PlatformInit
<1>2. Kept /\ [PlatformNext]_everything => Kept'
  <2>1. [PlatformNext]_everything => focus' = focus BY DEF PlatformNext, everything
  <2>2. Kept /\ [PlatformNext]_everything => RateInv' /\ RateBounds' BY RateStep, RateBoundsStep
  <2>3. QED BY <2>1, <2>2 DEF Rate!RateLimitAssumption
<1>3. PlatformInit => TenantsInv BY PlatformAssumption, TenantsStart DEF PlatformInit
<1>4. TenantsInv /\ [PlatformNext]_everything => TenantsInv' BY PlatformAssumption, TenantsAlone, TenantsStep
<1>5. Kept /\ TypeOK /\ LifecycleInv /\ TenantsInv /\ PoolInv => TypesOK
  BY RateTypesMean, PoolTypesMean DEF TypesOK, Components, LifecycleInv, TenantsInv, PoolInv
<1>6. QED
  <2> HIDE DEF Kept
  <2>1. QED
    BY <1>1, <1>2, <1>3, <1>4, <1>5, LeasesKeepTheirTypes, PlatformRunsLeases, LifecycleInvariance, PoolInvariance,
       PTL DEF PlatformSpec
=============================================================================
