------------------------------- MODULE Limits -------------------------------
(***************************************************************************)
(* Responsible gambling: account.service.ts and compliance.service.ts, for *)
(* one user.  Every request first loads the user row and promotes pending  *)
(* limits that are due (loadUser); what it does next, it decides on that   *)
(* copy, while other requests of the user write the row.                   *)
(***************************************************************************)
EXTENDS Integers, FiniteSets, FiniteSetsExt, Functions

CONSTANTS
  Sessions,      \* the user's requests in flight; one awaiting a checkout stays in flight
  None,          \* NULL, and no request
  Kinds,         \* the limits modelled: "deposit", "loss"
  Opening,       \* the limits the behaviour begins with
  Values,        \* the limits a request may ask for
  Exclusions,    \* the days a self-exclusion may ask for
  Stakes, Deposits, Payouts,  \* amounts
  Day,           \* 24 hours: the cooling-off period, the window of both limits
  MaxTime,       \* BOUND: the clock
  MaxChanges,    \* BOUND: changes of limits and self-exclusions
  MaxMoves       \* BOUND: stakes, deposits and payouts

ASSUME DataAssumption ==
  /\ Kinds \subseteq {"deposit", "loss"}
  /\ Opening \in [Kinds -> Nat \union {None}]
  /\ Values \subseteq Nat
  /\ Exclusions \subseteq 1..3650
  /\ Stakes \union Deposits \union Payouts \subseteq Nat \ {0}
  /\ Day \in Nat \ {0} /\ {MaxTime, MaxChanges, MaxMoves} \subseteq Nat

ASSUME NoneAssumption == None \notin Int

\* Requests are finitely many, and may carry a stake or a deposit.
ASSUME FiniteAssumption ==
  /\ IsFiniteSet(Sessions) /\ Sessions # {}
  /\ \A amounts \in {Stakes, Deposits} : IsFiniteSet(amounts) /\ amounts # {}

VARIABLES
  now,         \* the clock, in steps of which Day is 24 hours
  limit,       \* users.daily_deposit_limit, daily_loss_limit; None is no limit
  pending,     \* users.pending_..._limit and pending_..._effective, or None
  excluded,    \* users.self_excluded_until; 0 is NULL
  deposited,   \* what was deposited so long ago (transactions not older than a day)
  lost,        \* stakes minus payouts so long ago
  moves,       \* how many stakes, deposits and payouts there were
  task,        \* the request each session executes
  changes,     \* how many changes were asked for
  askedAt,     \* history: when each value was first asked for, per limit
  promised     \* history: the latest end of a self-exclusion that was answered

row  == <<limit, pending, excluded>>
past == <<changes, askedAt, promised>>
money == <<deposited, lost, moves>>
vars == <<now, row, money, task, past>>

Time == 0..MaxTime
Ages == 0..Day
Idle == [stage |-> "idle"]
Goto(p, t) == task' = [task EXCEPT ![p] = t]
Finish(p) == Goto(p, Idle)
At(p, stage) == task[p].stage = stage

Wanted(k) == IF k = "loss" THEN Values \union {None} ELSE Values

Init ==
  /\ now = 0
  /\ limit = Opening
  /\ pending = [k \in Kinds |-> None]
  /\ excluded = 0
  /\ deposited = [age \in Ages |-> 0]
  /\ lost = [age \in Ages |-> 0]
  /\ moves = 0
  /\ task = [p \in Sessions |-> Idle]
  /\ changes = 0
  /\ askedAt = [k \in Kinds |-> [v \in Wanted(k) |-> None]]
  /\ promised = 0

\* created_at >= isoAgo(DAY_MS)
Last24h(sums) == SumFunction(sums)

\* a is a limit at least as strict as b.
AsStrict(a, b) == b # None => a # None /\ a <= b

-----------------------------------------------------------------------------
\* A pending limit promoted at the next request.
Pending(user) == {k \in Kinds : user.pending[k] # None}

\* The pending limits whose cooling-off is over.
Due(user) == {k \in Kinds : user.pending[k] # None /\ user.pending[k].effective <= now}

\* loadUser: the row, and the time applyPendingLimits compares with.
LoadUser(p) ==
  LET user == [limit |-> limit, pending |-> pending, excluded |-> excluded] IN
  /\ task[p] = Idle
  /\ Goto(p, [stage |-> "promote", user |-> user, due |-> Due(user), blocked |-> promised])
  /\ UNCHANGED <<now, row, money, past>>

\* One UPDATE of applyPendingLimits, the deposit limit first, with the values
\* of the copy.
Promote(p, k) ==
  LET t == task[p] IN
  /\ At(p, "promote")
  /\ k \in t.due
  /\ k = "loss" => "deposit" \notin t.due
  /\ limit' = [limit EXCEPT ![k] = t.user.pending[k].value]
  /\ pending' = [pending EXCEPT ![k] = None]
  /\ Goto(p, [t EXCEPT !.due = @ \ {k}, !.user.limit[k] = t.user.pending[k].value,
                       !.user.pending[k] = None])
  /\ UNCHANGED <<now, excluded, money, past>>

Loaded(p) == At(p, "promote") /\ task[p].due = {}

-----------------------------------------------------------------------------
Ask(k, v) ==
  /\ changes < MaxChanges
  /\ changes' = changes + 1
  /\ askedAt' = [askedAt EXCEPT ![k][v] = IF @ = None THEN now ELSE @]
  /\ UNCHANGED promised

\* LIMIT_INCREASE_DELAY_MS, forgotten and not.
EffectiveAtOnce == now
EffectiveAt == now + Day

\* setDepositLimit, setLossLimit: a limit as strict as the copy's is immediate,
\* as is a first loss limit; any other waits.
Immediate(user, k, v) == v # None /\ AsStrict(v, user.limit[k])

SetLimit(p, k, v) ==
  /\ Loaded(p)
  /\ Ask(k, v)
  /\ IF Immediate(task[p].user, k, v)
     THEN /\ limit' = [limit EXCEPT ![k] = v]
          /\ pending' = [pending EXCEPT ![k] = None]
     ELSE /\ pending' = [pending EXCEPT ![k] = [value |-> v, effective |-> EffectiveAt]]
          /\ UNCHANGED limit
  /\ Finish(p)
  /\ UNCHANGED <<now, excluded, money>>

\* selfExclude overwrites whatever end the row had.
SelfExclude(p, days) ==
  /\ Loaded(p)
  /\ changes < MaxChanges
  /\ changes' = changes + 1
  /\ excluded' = now + days * Day
  /\ promised' = Max({promised, excluded'})
  /\ Finish(p)
  /\ UNCHANGED <<now, limit, pending, money, askedAt>>

-----------------------------------------------------------------------------
\* assertCanBet, its first check; the others only refuse more bets.
CanBet(user) == user.excluded <= now

\* assertLossLimitNotExceeded of the stake alone, and with the loss of the day.
StakeWithinLossLimit(user, stake) == AsStrict(stake, user.limit["loss"])
WithinLossLimit(user, stake) == AsStrict(Last24h(lost) + stake, user.limit["loss"])

\* The checks of placeBet, on the copy; its transaction comes later.
CheckBet(p, stake) ==
  LET user == task[p].user IN
  /\ Loaded(p)
  /\ CanBet(user)
  /\ WithinLossLimit(user, stake)
  /\ Goto(p, [stage |-> "stake", amount |-> stake, checked |-> now, blocked |-> task[p].blocked])
  /\ UNCHANGED <<now, row, money, past>>

CountMove == moves < MaxMoves /\ moves' = moves + 1

CommitStake(p) ==
  /\ At(p, "stake")
  /\ CountMove
  /\ lost' = [lost EXCEPT ![0] = @ + task[p].amount]
  /\ Finish(p)
  /\ UNCHANGED <<now, row, deposited, past>>

\* assertDepositWithinLimit of the amount alone, and with the deposits of the day.
AmountWithinDepositLimit(user, amount) == AsStrict(amount, user.limit["deposit"])
WithinDepositLimit(user, amount) ==
  AsStrict(Last24h(deposited) + amount, user.limit["deposit"])

\* The check of initiateDeposit; the credit comes later.
CheckDeposit(p, amount) ==
  /\ Loaded(p)
  /\ WithinDepositLimit(task[p].user, amount)
  /\ Goto(p, [stage |-> "credit", amount |-> amount])
  /\ UNCHANGED <<now, row, money, past>>

CommitDeposit(p) ==
  /\ At(p, "credit")
  /\ CountMove
  /\ deposited' = [deposited EXCEPT ![0] = @ + task[p].amount]
  /\ Finish(p)
  /\ UNCHANGED <<now, row, lost, past>>

\* A request refused or failed before it writes, or one that only reads.
Abandon(p) ==
  /\ task[p] # Idle
  /\ Finish(p)
  /\ UNCHANGED <<now, row, money, past>>

\* The settlement pays a bet of the user.
PayBet(amount) ==
  /\ CountMove
  /\ lost' = [lost EXCEPT ![0] = @ - amount]
  /\ UNCHANGED <<now, row, deposited, task, past>>

Older(sums) == [age \in Ages |-> IF age = 0 THEN 0 ELSE sums[age - 1]]

Tick ==
  /\ now < MaxTime
  /\ now' = now + 1
  /\ deposited' = Older(deposited)
  /\ lost' = Older(lost)
  /\ UNCHANGED <<row, moves, task, past>>

-----------------------------------------------------------------------------
Next ==
  \/ \E p \in Sessions :
       \/ LoadUser(p)
       \/ \E k \in Kinds : Promote(p, k) \/ \E v \in Wanted(k) : SetLimit(p, k, v)
       \/ \E days \in Exclusions : SelfExclude(p, days)
       \/ \E stake \in Stakes : CheckBet(p, stake)
       \/ CommitStake(p)
       \/ \E amount \in Deposits : CheckDeposit(p, amount)
       \/ CommitDeposit(p)
       \/ Abandon(p)
  \/ \E amount \in Payouts : PayBet(amount)
  \/ Tick

Spec == Init /\ [][Next]_vars

-----------------------------------------------------------------------------
Limit(k) == Wanted(k) \union {Opening[k]}
Increase(k) == [value : Wanted(k), effective : Day..(MaxTime + Day)]
User == [limit : [Kinds -> Values \union {None} \union {Opening[k] : k \in Kinds}],
         pending : [Kinds -> (UNION {Increase(k) : k \in Kinds}) \union {None}],
         excluded : Nat]

TypeOK ==
  /\ now \in Time
  /\ \A k \in Kinds : limit[k] \in Limit(k) /\ pending[k] \in Increase(k) \union {None}
  /\ excluded \in Nat /\ promised \in Nat /\ changes \in 0..MaxChanges /\ moves \in 0..MaxMoves
  /\ deposited \in [Ages -> Nat] /\ lost \in [Ages -> Int]
  /\ \A p \in Sessions :
       \/ task[p] = Idle
       \/ /\ At(p, "promote") /\ task[p].user \in User
          /\ task[p].due \subseteq Kinds /\ task[p].blocked \in Nat
       \/ At(p, "stake") /\ task[p].amount \in Stakes /\ task[p].checked \in Time
       \/ At(p, "credit") /\ task[p].amount \in Deposits

\* The limits that may be in force: the first one, and those asked for at least
\* 24 hours ago.
Settled(k) ==
  {Opening[k]} \union {v \in Wanted(k) : askedAt[k][v] # None /\ askedAt[k][v] + Day <= now}

\* No limit in force is looser than every one that was first asked for 24 hours
\* ago or more: copies of the row that are stale when they are compared or
\* promoted never let an increase in before its cooling-off.
IncreaseWaits == \A k \in Kinds : \E v \in Settled(k) : AsStrict(limit[k], v)

\* What the other requests in flight may add to a limit that each has checked.
Others(amounts) == (Cardinality(Sessions) - 1) * Max(amounts)

\* Deposits of the day and those in flight exceed the loosest limit by no more
\* than the other requests carry.
DepositOvershootBounded ==
  LET flying == {p \in Sessions : At(p, "credit")}
      total  == Last24h(deposited) + SumFunctionOnSet([p \in flying |-> task[p].amount], flying)
  IN  \E v \in Settled("deposit") : AsStrict(total - Others(Deposits), v)

\* A bet placed without delay takes the loss of the day over the loosest limit by
\* no more than the other requests carry.
LossOvershootBounded ==
  [][\A p \in Sessions : CommitStake(p) /\ task[p].checked = now =>
       \E v \in Settled("loss") : AsStrict(Last24h(lost') - Others(Stakes), v)]_vars

\* What the comment of setDepositLimit says: a reduction is immediate and an
\* increase is scheduled.  A limit only becomes looser by promoting a pending
\* increase whose cooling-off is over.
IncreaseCoolsOff ==
  [][\A k \in Kinds :
       \/ AsStrict(limit'[k], limit[k])
       \/ /\ pending[k] # None
          /\ pending[k].effective <= now
          /\ limit'[k] = pending[k].value]_vars

\* What the comment of selfExclude says: it blocks bets for N days.  A request that
\* starts after the answer places no bet before the end it was told.
ExclusionHolds ==
  [][\A p \in Sessions : CommitStake(p) => task[p].checked >= task[p].blocked]_vars
=============================================================================
