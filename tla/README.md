# BetMundial2026 in TLA+

A sports betting platform: an Express server over PostgreSQL (optionally Redis)
and a React client. This directory models the code that moves money and decides
bets, and the services around it: responsible gambling, accounts and one-use
tokens, the risk score, live odds, the replicas of the server and what they share,
the isolation of tenants. TLC checks the models on small instances; TLAPS proves
what matters most for every instance.

## 1. Inventory

| Component (source) | State | Operations | Hard behaviour | What makes it correct |
|---|---|---|---|---|
| Wallet (`wallet/wallet.service.ts`) | `wallets.balance`, `transactions` | `applyLedgerEntry`: SELECT, UPDATE, INSERT | awaits between the three; two transactions on one wallet; rollback anywhere | never overdrawn; both tables agree; no movement lost |
| Database layer (`db/index.ts`, `db/schema.sql`) | pool clients and their session variable | `tx`, `runWithContext`, `runAsSystem`, `getDb` | READ COMMITTED; a second client inside a request; a response that closes early | all or nothing; a request works as its own operator and never waits for good |
| Betting (`betting/betting.service.ts`) | `bets`, `bet_legs` | `placeBet`, `cashOut`, `computeCashOutValue` | reads outside the transaction, writes inside | a bet exists iff its stake was taken; paid once |
| Settlement (`betting/settlement.service.ts`) | results of selections and legs, status of matches, markets, bets | `settleMatch`, `settleBetIfComplete` | repeated settlement; two settlements and a cash-out on one combination; deadlocks | decisions match legs, are final, are complete |
| Money (`utils/money.ts`) | none | `computePayout` | rounding | never pays above the odds |
| Administration (`admin/admin.service.ts`) | `markets.status`, `users.kyc_status` | `setMarketStatus`, `forceKycStatus`, statistics | check, then write | a settled market stays settled |
| Payments (`payments/payments.service.ts`) | `payment_intents` | `initiateDeposit`, `initiatePayout`, `creditDeposit`, `handleWebhook` | the provider is outside every transaction; retries, repeated and reordered webhooks | one movement per intent and per key; a confirmed deposit is credited |
| Providers (`payments/stripe.ts`, `sandbox.ts`) | external | `createDeposit`, `createPayout`, `parseWebhook` | asynchronous, delayed payment methods | external |
| Compliance (`compliance/*.ts`) | none: reads `transactions`, `users` | `assertCanBet`, deposit and loss limits | check, then act | limits hold but for what is in flight |
| Account (`account/account.service.ts`) | limits and pending limits of a user, self-exclusion, KYC | `setDepositLimit`, `setLossLimit`, `applyPendingLimits`, `selfExclude`, `submitKyc` | decisions on a user row read earlier | an increase always waits 24 h; nobody bets before the end of an exclusion |
| Fraud (`fraud/fraud.service.ts`) | `fraud_flags` | `enforceBetRisk`, `screenTransaction` | counts committed rows only | a score at or above the threshold blocks |
| Authentication (`auth/*.ts`, `middleware/auth.ts`) | `users`, `auth_tokens` | register, verification, reset, MFA | one-use tokens checked and used in two statements; stale MFA secret | a token serves no request that begins after its use; MFA never locks its owner out |
| Tenant context (`middleware/tenant.ts`, `platform/platform.service.ts`) | operator cache, context client | `tenantContext`, `setOperatorStatus`, `createOperator` | lookups that finish out of order | a change of status is seen within the cache's time |
| Odds engine (`realtime/oddsEngine.ts`) | `selections.odds`, the leader lock, WebSocket clients | `tick`, `isLeader`, `stop`, `snapshot`, `publish` | lease expiry, takeover, commands without an answer | one writer; somebody moves the odds |
| Live odds in the client (`web/src/useLiveOdds.ts`, `MatchesView.tsx`) | the map of odds, the slip | messages, reconnection, `toggleSelection`, `place` | lost messages, an old snapshot over a new update | a bet is accepted at the odds on screen |
| Rate limiter (`middleware/rateLimit.ts`) | counters in Redis, buckets in memory | `redisHit`, `memoryHit` | window boundary, late commands, Redis failure | a bounded number per minute |
| Processes (`index.ts`, `db/seed.ts`, `platform.service.ts`) | the catalogue, both administrators | seed, `ensureAdmin`, `ensurePlatformAdmin`, `start`, `shutdown` | replicas that seed together; an old process that writes after a new one | no catalogue twice; a rotation holds |
| Catalogue, observability, configuration, other web views | read-only or presentation | | | |

Interaction: `routes/index.ts` calls one service per request; every service that
moves money calls `applyLedgerEntry` on the client of its own `Db.tx`. Requests
share nothing but database rows, Redis keys and the pool, so the processes of the
models are *sessions* or *requests*, each executing one handler, and everything
they do to each other they do through those. The odds engine writes
`selections.odds`, which `placeBet` and `cashOut` read and the client shows.

## 2. Modules

| Module | Role |
|---|---|
| `Wallet` | `applyLedgerEntry` in a READ COMMITTED transaction |
| `Payouts` | the arithmetic of odds, payouts, tax and cash-out |
| `BetPromise` | abstract specification: what is promised of a bet |
| `Betting` | `placeBet`, `cashOut`, `settleMatch`, `setMarketStatus` over `Wallet`; implements `BetPromise` |
| `Payments` | deposits, payouts, webhooks over `Wallet`, with the provider as environment |
| `Limits` | pending limits, cooling-off, self-exclusion and the checks of `placeBet` and `initiateDeposit` that read them |
| `Tokens` | e-mail verification and password reset by one-use tokens |
| `Accounts` | registration, the MFA life cycle, KYC |
| `Risk` | the risk score of bets placed at the same time |
| `LiveOdds` | odds from the leader to the slip of a customer and back to `placeBet` |
| `OddsLease` | which instance moves the odds: the leader lock in Redis |
| `Lifecycle` | the processes of replicas: seed, administrators, start, shutdown |
| `RateLimit` | the counter in Redis and the buckets in memory |
| `Tenants` | the cache of operators by subdomain |
| `TenantPool` | the clients of the pool and the operator each works for |
| `Services` | `Limits`, `Tokens`, `Accounts`, `Risk`, `LiveOdds` side by side: what surrounds a customer's bets |
| `Platform` | `OddsLease`, `Lifecycle`, `RateLimit`, `Tenants`, `TenantPool` side by side: what replicas share |
| `MCWallet`, `MCBetting`, `MCPayments`, `MCLimits`, `MCLease`, `MCServices`, `MCPlatform` | instances for TLC |
| `WalletProofs`, `PaymentsProofs`, `PayoutsProofs`, `BettingProofs`, `LimitsProofs`, `ServicesProofs`, `PlatformProofs` | theorems about the module each is named after |
| `FoldProofs` | what folds compute: the sums and products that the other proofs need |

`Betting` and `Payments` compose with `Wallet` because they share its rows. The
components of `Services` and `Platform` share no state, so nothing is lost by
checking them one at a time: `focus` is chosen at the beginning, the component it
names runs, and the others stay as they began. Each property speaks of the
behaviours with its own focus.

### How the modules correspond to the code

**Sessions and steps.** A handler is the record `task[p]`: the operation, the
await it is at (`stage`) and what it has read so far. One action is what the
handler does between two awaits that others can tell apart. Awaits are merged
only where nothing another session does in between can change the outcome:

- the reads of one turn of `placeBet`'s loop (`ValidateLeg`): market and match
  are only ever read again by the same checks, and settlement changes both in one
  commit;
- the legs of a cash-out and the market, match and odds of each (`QuoteCashOut`,
  `betting.service.ts:198` and 178-180): odds and statuses change one at a time, and a
  settlement in between is one that comes before or after, because the offer only counts
  legs that are neither lost nor over;
- `settleMatch` up to its loop (`SettleMatch`): the match row is locked first,
  and legs are decided by conditional UPDATEs whose effect others see at COMMIT;
- the last statement of a transaction with its COMMIT (`CommitBet`,
  `CommitCashOut`, `CommitCredit`, `CommitPayout`): the rows are invisible before;
- `SELECT ... FOR UPDATE` on the intent with the first statement of the ledger
  entry (`LockAndCheck`): taking a lock earlier only delays others.

**READ COMMITTED.** `Wallet` keeps a committed `balance` and, while a session
holds the row lock, the balance `written` it sees itself. `View` is what a SELECT
returns; `Update` waits for the lock, then writes the absolute value computed from
the SELECT. Rows of `transactions` are appended when inserted; `committed` counts
those that COMMIT has published. `Opening` stands for whatever happened before.
In `Betting`, what a settlement has written stays in its `task` (`decided`,
`marked`) until `CommitSettlement`; `BetSeenBy` is its view of a bet.

**Failure.** `Abort` ends a request at any await: an error of a statement, a lost
connection or the end of the process, after which the transaction is rolled back.
It also stands for refusals whose reasons are not modelled (KYC, loss limit,
fraud score, `odds_changed`): these only ever end the request.
`Reject` is an error the handler itself throws (`insufficient_funds`, a closed
market, an unavailable cash-out, the unique index). `BreakDeadlock` is PostgreSQL
aborting one transaction of a cycle.

**Data.** Odds are integers in hundredths; where the code multiplies doubles the
model is exact. Ids from `nanoid()` are the least free number, which only breaks
symmetry. Winning selections are named without accents. A market of a type
the settlement does not know is voided, as in the code. No
code sets a match to `cancelled`, so it has no such status here.
`TaxPercent` is `winningsTaxRate` of the user's jurisdiction.

**The provider** (`Payments`). `createDeposit` opens a checkout or takes the money
at once; afterwards the provider tells the platform what happened by webhooks. An
event stays deliverable for ever (duplicates) and in any order; it is `answered`
when some request that carried it returned 200. Stripe's checkout URL reaches the
customer only in the answer of `initiateDeposit`, so its events follow the INSERT;
confirmations of synchronous deposits (`PaidConfirmed`) and events of payouts may
precede it.

**Limits.** Every request begins with `loadUser` (`LoadUser`): a copy of the user
row, of which due limits are promoted one UPDATE at a time (`Promote`). What
follows decides on the copy and writes the row (`SetLimit`, `SelfExclude`), or
checks it and moves money later (`CheckBet`, `CommitStake`; `CheckDeposit`,
`CommitDeposit`, the latter also when the provider confirms a checkout days
later). The two sums of 24 hours are kept by age, and `Tick` makes them older.
`Settled`, `askedAt` and `promised` are history; `blocked` in a request is the end
of the exclusion its user was told before it began. The other checks of
`assertCanBet` and the stake limit only refuse more bets.

**Time and slow requests.** The modules with a clock count intervals, and `Elapse`
passes one. `Patience` bounds how many intervals a request, tick, lookup or command
may last; anything may happen in between. Rows, keys and entries carry the time
they have left instead of a date, so that behaviours do not depend on when they
happen. What expired before the longest request that can still use it began is not told
apart from what expired longer ago.

**Tokens, Accounts.** Both services check in one statement and write in another,
outside any transaction: each is an action, and `Fail` may end the request between
any two. `applied` counts what a token did, `readers` the requests that had checked it
when it was first marked as used, and `closed` holds the reset tokens that a finished
reset found issued. In `Accounts`, `copy` is the `users` row that `loadUser`
returned; `shown` and `confirmed` follow the secrets that the customer got and
confirmed with a code; `overwrote` says that a request wrote MFA over a change it
had not read.

**Risk.** The score is the sum of the signals of `assessBetRisk`, read before the
transaction of the bet. `recent` counts committed bets by the age of `placed_at`,
which is the time before the transaction (`Place`), not that of its COMMIT.

**LiveOdds.** One customer. `updates` is what a tick has written and not yet
published, `channel` the messages on their way to the customer's instance. A
connection gets messages from the moment it opens and its snapshot when it is
read, in either order: `raced` remembers that an update was lost or came in between.
`request` carries the map that the handler of the click closed over, which
`odds_changed` locks the slip at. `OddsChanged` is the server's refusal and the client's
locking of the slip in one action: what comes between changes the map on screen, which
the handler does not look at again. `RequestFails` is a request that did nothing; one
that was accepted and whose answer is lost is left out, since it leaves the slip as it was
and the bet at the odds of the click.

**OddsLease.** Time passes in intervals of the engine's timer. A tick asks for the
lock (`Acquire`), and if somebody has it asks who (`AskHolder`), renews it without a
condition if the answer is itself (`Renew`) and writes. `RedisError` is a command
without an answer, whether or not it was executed; `missed` counts those in a row, until
a tick gets its answers, and `most` is the worst of any instance so far. `releaseLeadership` runs beside
a tick in progress. An `instanceId` is random, so a restarted process is another
instance.

**Lifecycle.** The container runs the seed, then the server whatever the seed did.
`Writing(role)` separates the SELECT of `ensureAdmin` or `ensurePlatformAdmin` from
its write. Passwords are compared by value; `Short` is one that production refuses.

**RateLimit.** One key, that is one scope and IP. A window of Redis is named by its
distance to the current one; `Incr` and `PExpire` are separate commands, so a hit may
count in a window already over. `passed` counts what a counter let through by age.

**Tenants, TenantPool.** `Tenants` is one process's cache and the operators table;
`since` is for how long a slug has not had a status. `TenantPool` follows the jobs
of a request in the pool: its context, from arrival until its response finishes or
closes, and its transactions, each on a second client. `store` is the client that
statements outside a transaction use, whatever became of it.

## 3. Runs

| Run | Checks | Shows |
|---|---|---|
| `wallet_lost_update` | `ChainUnbroken` violated | two concurrent entries: one movement is lost |
| `betting_one_payer` | `TypeOK`, `StakeIffBet`, `LastRowIsBalance`, `OwnRowsKept`, `Promise`, `DecidedLegsStand`, `CashOutWithinReach` | bets placed while odds move, concurrent with one session that settles (repeatedly, with changed scores, with voided markets), cashes out and closes markets; requests cut short anywhere |
| `betting_payers` | `DecisionMatchesLegs`, `EveryRequestEnds` | two sessions that both settle and cash out, deadlocks included, under fairness |
| `betting_double_pay` | `SettledBetsRefuseCashOut` violated | a cash-out overtaken by a settlement: the bet won and its prize was credited, and it is cashed out as well |
| `betting_write_skew` | `CompleteBetsAreSettled` violated | two settlements leave a complete combination open |
| `payments` | `TypeOK`, `LedgerMatchesIntents`, `OneMovementPerKey`, `PaidIsCredited` | synchronous credit, webhooks, retries with the same key, one aborted request |
| `payments_double_credit` | `CreditedOnce` violated | completed, failed, completed credits twice |
| `services` | `TypesOK`; of `Limits`: `IncreaseWaits`, `DepositOvershootBounded`, `LossOvershootBounded`; of `Tokens`: `ServesItsReaders`, `ResetClosesTokens`, `ExpiredTokensChangeNothing`; of `Accounts`: `EnabledMfaIsUsable`; of `Risk`: `RiskyBurstBounded`; of `LiveOdds`: `AcceptedAsSeen`, `QuietMapIsCurrent` | two requests of one customer over stale copies of its rows, and odds that move while it confirms a slip |
| `platform` | `TypesOK`; of `OddsLease`: `OneWriterInTime`, `TakeOver`; of `Lifecycle`: `SownAtMostOnceEach`, `RotationSettles`; of `RateLimit`: `BurstBounded`; of `Tenants`: `AnswersAreRecent`; of `TenantPool`: `OpenRequestsIsolated`, `FreeClientsAreReset`, `EveryRequestEnds` | replicas that crash, stop, restart and lose Redis, windows that end, lookups and operators that change, clients that are queued for |
| `limits_stale_increase` | `IncreaseCoolsOff` violated | a stale promotion undoes a reduction |
| `limits_shorter_exclusion` | `ExclusionHolds` violated | a second, shorter exclusion ends the first: a bet is taken before the end first promised |
| `odds_two_writers` | `SingleWriter` violated | with the TTL of the code, slow ticks and one command without an answer make two instances write odds at once |

`Promise` (the refinement of `BetPromise`) is checked where the code keeps it: with one
session that pays and another that places bets. With two that pay it fails, and
`betting_double_pay` shows how. `LastRowIsBalance` and `OwnRowsKept` are properties of
`Wallet`; they are checked over its transactions as `Betting` makes them, a settlement
that pays two bets of one customer among them, and `TypeOK` of `payments` says that no
wallet is overdrawn. What survives full concurrency is checked there
(`DecisionMatchesLegs`) or proved for it (`StakeIffBet`, `LastRowIsBalance`,
`OwnRowsKept`).

Several properties state exactly how far a check that is not atomic can be
exceeded: by the requests in flight (`DepositOvershootBounded`,
`LossOvershootBounded`, `RiskyBurstBounded`), by those that had checked (`ServesItsReaders`), by one more
window and the hits under way (`BurstBounded`), by one lookup (`AnswersAreRecent`), by one copy for each
replica (`SownAtMostOnceEach`). The bound is the promise that the code does keep.

**Bounds of the money.** Two sessions are enough for every race found: each involves two
transactions on one or two rows. A wallet has `MaxRows` rows: three movements let
one be lost between two others, and betting needs stake, credit and a second
credit. Two matches and slips of one and two legs give singles, combinations,
shared legs and settlements in both orders. Two scores give a leg each result, and
a market of unknown type gives `void`. Two odds values let an offer exceed or fall
short of the locked odds. A payout of 10 from an opening of 5 is unaffordable until a
deposit is credited. Two intents and two keys let requests share a key or not; a limit of
15 with deposits of 10 refuses the second deposit once the first is credited.
`MaxAborts` bounds only the requests cut short in `Payments`: one is what it takes
to lose a handler in the middle, and unbounded aborts would defeat any liveness.

**Bounds of `services`.** Two interchangeable requests, so symmetry is used.
- *Limits*: a day is one unit of time and the clock has two: enough for an increase
  to be asked for, wait and be promoted, and for money to age out. Two changes are
  what a reduction overtaking an increase takes; three movements are what it takes
  to exceed a limit of 1 by more than one request in flight; `None` removes the loss
  limit. `limits_shorter_exclusion` has exclusions of one and of two days. What `IncreaseWaits`
  leaves open is how late a stale copy is: it allows any limit that ever was in
  force, which is why `limits_stale_increase` can fail beside it.
- *Tokens*: one verification and two reset tokens, so that one reset can close the
  other's; times to live of 2 and 1 with requests of up to 1, so that a token expires
  while it is consumed.
- *Accounts*: two secrets, so that an enrolment can be replaced.
- *Risk*: two bets a minute of two intervals, three signals apart from velocity: a
  burst passes the limit by each of the bets in flight.
- *LiveOdds*: two selections of two matches at two prices, one move, one failure of
  each kind: an update can be lost, come before, or come after a snapshot.

**Bounds of `platform`.**
- *OddsLease*: two instances, ticks of up to one interval, one unanswered command, and
  the TTL of the code, `Math.max(intervalMs * 5, 5000)` with 3000 ms, which is five
  intervals. It outlasts two ticks with their pauses (4) and so holds until the first
  command without an answer, which takes two more: `OneWriterInTime` covers the behaviours
  up to there, `odds_two_writers` is what comes after.
- *Lifecycle*: two replicas, two passwords, one redeployment, three starts: an old
  process is overtaken by a new one on the other replica, and one restarts.
- *RateLimit*: a maximum of 1 in windows of two intervals and two requests: the
  boundary is crossed with hits on both sides and one late.
- *Tenants*: one slug, two lookups and two administrators, a time to live of 3.
- *TenantPool*: two requests of two operators with one transaction each, and three
  clients.

Deadlock is not checked in these two runs, nor in `odds_two_writers`, because their
components end: every request was used, every start made, every process is gone. The liveness properties say what must not stop.

**Fairness.** In `Betting` and `Payments`, `Proceed(p)` has strong fairness: a
handler whose statement is answered is resumed by the event loop, and PostgreSQL
grants row locks in the order in which they were asked for, so a session that can
proceed again and again does. Delivery of an unanswered event is strongly fair: a
provider repeats a webhook until it gets a success. In `OddsLease`, timers fire and
commands are answered or fail (`Elapse`, `Proceed`), weakly fair; in `TenantPool`,
`pg.Pool` gives a free client to the first that waits (`Grant`) and handlers go on
(`Proceed`), weakly fair. Requests, aborts, crashes, disconnections, odds and
the provider's decisions have no fairness.

**Findings.** `PROJECT.json` quotes, for each of the seven violated runs, the line that
promises what the run refutes.

## 4. Proofs

Every safety property of a passing run is also a theorem, for every value of the
constants. Of the seven formulas that the "violation" runs refute, four hold where the
requests they are about do not overlap (`SerialChain`, `SerialCoolingOff`,
`CompleteBetsAreAllSettled`, `OnePayerRefusesSettled`): what those runs show is due to
concurrency alone. `SingleWriter` holds for as long as the lease outlasts the ticks
(`OneWriter`). `CreditedOnce` and `ExclusionHolds` fail with one request at a time and no
theorem is about them. Eight modules hold the proofs.

| Module | Proves about | Theorems |
|---|---|---|
| `WalletProofs` | `Wallet` | `NeverOverdrawn`, `BalanceMatchesLedger`, `OwnMovementsKept`, `SerialChain` |
| `BettingProofs` | `Betting` | `BetsKeepTheirTypes`, `StakesAreTakenOnce`, `DecisionsMatchTheLegs`, `DecidedLegsAreFinal`, `BetsUseTheWallet`, `BetsKeepTheTables`, `BetsKeepTheirMovements`; with one payer `BetsKeepThePromise`, `CashOutsStayWithinReach`, `CompleteBetsAreAllSettled`, `OnePayerRefusesSettled`; with one writer `OneWriterLosesNothing`, `OpenBetsArePlayable` |
| `PayoutsProofs` | `Payouts` | `OfferWithinReach`, `WonLegsReturnTheStake`, `TaxSparesTheStake` |
| `PaymentsProofs` | `Payments` | `IntentsHaveTheirRows`, `OneMovement`, `PaymentsKeepTheirTypes` |
| `LimitsProofs` | `Limits` | `CoolingOff`, `SerialCoolingOff`, `DepositsStayInReach`, `LossStaysInReach`, `LimitsKeepTheirTypes` |
| `ServicesProofs` | `Services` | `ServicesRunLimits`, `ServedPerReader`, `ResetIsFinal`, `ExpiredTokensAreIdle`, `ShownOddsBind`, `DeliveredOddsAreCurrent`, `EnabledMfaHasItsSecret`, `RiskyBurstsAreBounded`, `ServicesKeepTheirTypes` |
| `PlatformProofs` | `Platform` | `PlatformRunsLeases`, `OneWriter`, `RecentAnswers`, `Isolation`, `CleanClients`, `SownOnceEach`, `PasswordsSettle`, `BurstsAreBounded`, `PlatformKeepsItsTypes` |
| `FoldProofs` | sums and products over finite sets | lemmas only |

### Wallet

`NeverOverdrawn` (`TypeOK`), `BalanceMatchesLedger` (`LastRowIsBalance`) and
`OwnMovementsKept` (`OwnRowsKept`) hold for every set of users and sessions, every
opening balance and any number of rows. `SerialChain`: with at most one session,
`Spec => []ChainUnbroken`, so the lost update of `wallet_lost_update` is due to
concurrency alone.

None of the three invariants is inductive. `IInv` adds what a transaction in
flight maintains: an unlocked wallet has nothing uncommitted (`UnlockedIsClean`);
uncommitted rows are the lock holder's (`UncommittedByHolder`); between two calls
the holder's view is the `balance_after` of the last row (`WrittenIsLastRow`);
between UPDATE and INSERT it is the balance about to be recorded
(`InsertingHolds`); and, the heart of the argument, the balance a call has read
is the `balance_after` of a row the session still sees, behind which there is no
later row of its own (`CallHasBase`). A stale read is therefore always another
session's doing, and ROLLBACK cannot remove a row some other call was computed
from, because that row was never visible to it. `WalletAssumption` is what the theorems
take for granted: amounts are integers, openings are naturals, `None` is no session and
no call.

### Bets

The invariant `Inv` of `BettingProofs` has five parts. `RowsOK`: what the tables and
the requests hold of a bet has the shape of a bet. `EntriesInv`: what a session has
written and not committed is exactly what the bets it decides are due (`Due`), each
once. `CallsInv`: a settlement reads on only when the entry it awaits is applied.
`SettleInv`: two settlements are of two matches, two placements of two bets, and the
verdict a settlement is about to write agrees with the legs it sees, which nobody
else can change. `MoneyInv`: the stake of a bet is one committed row, and whatever a
settlement paid is what the legs are worth. It holds for any number of sessions that
place, cash out, settle and administer at once, and gives `BetsKeepTheirTypes`,
`StakesAreTakenOnce` (`StakeIffBet`), `DecisionsMatchTheLegs` and
`DecidedLegsAreFinal`.

`BetsUseTheWallet` is the refinement `Spec => W!Spec`: every step of `Betting` is a
step or a stutter of `Wallet`. With the theorems of `WalletProofs` it gives
`BetsKeepTheTables` (`LastRowIsBalance`) and `BetsKeepTheirMovements` (`OwnRowsKept`).

Two more invariants need an assumption on who runs what:

- `OnePayer`: one session at most cashes out and settles, beside any number that place
  bets and change markets. `PayerInv` says that the bets it is about to decide are
  still open, that it leaves none open whose legs are decided, and that a bet is
  credited once, only when its status says so. From it `BetsKeepThePromise`, the
  refinement of `BetPromise`; `CashOutsStayWithinReach`; and that the violations of
  `betting_write_skew` and `betting_double_pay`, which have two payers, need two.
- `OneWriter`: one session at most writes wallets, beside any number that change
  markets. `ChainInv` carries the chain of the ledger through a transaction;
  `MatchInv` says that what a request has seen of its matches still holds. From them
  `OneWriterLosesNothing` (`NoMovementLost`) and `OpenBetsArePlayable`
  (`OpenBetIsPlayable`).

Both are assumptions on `Duties`, the constant that says which operations a session
runs: a deployment that queued settlements and cash-outs would satisfy the first. No run
checks `NoMovementLost` and `OpenBetIsPlayable`: as soon as two sessions write, both fail
(the first is `wallet_lost_update`, the second is under "Known limits").

`PayoutsProofs` is about the arithmetic alone. `OfferWithinReach`: the offer of
`computeCashOutValue` is at most what the bet can still win at the odds in force,
rounding included; the winnings of legs won or void are at least the stake; the tax
never takes from the stake. The scale of a product of odds is written as a product:
the provers have no exponentiation.

`FoldProofs` is what all sums over sets rest on. A fold of the community modules is a
recursive function behind a choice, and the library's induction theorems take an
operator, which the provers cannot instantiate; so `SubsetInduction` states induction
over the subsets of a finite set with a set of sets, from the well-foundedness of the
naturals, and everything else (a fold exists and depends on no choice; a sum gains
what one term gains, is bounded by its terms, splits over a union) follows from it.

### Payments

`IntentsHaveTheirRows` (`LedgerMatchesIntents`), `OneMovement` (`OneMovementPerKey`)
and `PaymentsKeepTheirTypes` (`TypeOK`) hold for any users, sessions, intents, keys,
amounts and aborted requests. The invariant has three parts. `EntriesInv`: what is
uncommitted in a wallet is the ledger entry of the request that holds its row lock,
and no session calls the wallet outside the entry its request is at, so a commit
publishes one row with the tag and amount of that request and a rollback none.
`RequestsInv`: an intent is inserted only by the request that made its id, a credit
holds the intent's row lock over a status that is not completed, and the provider
has taken the money of whatever it confirms. `RowsInv`: a completed deposit and a
payout have one committed row, other intents none. The types add to it that what a
call past its check is about to record is a natural (`MoneyTypes`) and that the event
of a request is one the provider has sent (`EventTypes`).

These are about `Spec`, where a completed checkout stays paid; with the delayed
payment methods of `SpecDelayed` the first fails (run `payments_double_credit`).
`Assumption` adds to the module's own that wallets open with naturals and that `None`
is no session and no row.

### Limits

- `CoolingOff` (`IncreaseWaits`), for any number of concurrent requests. The invariant
  must speak of every copy of the row a request holds (`CopiesAreSound`): its limits
  were settled when it was read and its increases carry their date; both facts are
  stable because requests are never forgotten and time only passes (`HistoryGrows`). A
  decision on a copy, however old, then yields a limit that was settled before
  (`StricterIsInForce`) or one that has waited (`EffectiveIsInForce`).
- `SerialCoolingOff`: if requests never overlap, `Spec => IncreaseCoolsOff`, because
  copies are fresh (`CopiesAreFresh`). The violation in `limits_stale_increase` is
  due to concurrency alone.
- `DepositsStayInReach` and `LossStaysInReach` (`DepositOvershootBounded`,
  `LossOvershootBounded`), for a user who has both limits (`BothLimits`). The bound is
  only inductive together with those that may still add to it: what was deposited today
  *and* what requests carry past their check, less what the other requests may carry at
  most, is within a limit in force (`DepositsWithin`). For losses this is so of
  the bets checked at this very time (`LossWithin`), because a payout that grows older than a day
  raises the loss without any bet.
- `LimitsKeepTheirTypes`.

Assumptions: amounts and times are naturals, a day is at least 1, requests and amounts
are finitely many, `None` is not a number.

### Services

`ServicesRunLimits` is the refinement `ServicesSpec => Spec` of `Limits`: whatever is
proved there holds beside the other components. Those are proved one after the other,
each from an invariant over its own variables.

- *Tokens.* `ServedPerReader` (`ServesItsReaders`): once a token is marked, what it has
  served and the requests between its check and their own effect are together no more
  than those that had checked it when it was first marked (`Counted`), because a marked
  token is not checked again and one that served is marked (`ServedMarked`).
  `ResetIsFinal` (`ResetClosesTokens`) is `ClosedMarked`. `ExpiredTokensAreIdle`
  (`ExpiredTokensChangeNothing`): what is left to a token a request has checked, and the
  age of the request, add up to what was left at the check (`InTime`).
- *Accounts.* `EnabledMfaHasItsSecret` (`EnabledMfaIsUsable`): what a handler holds was
  checked on its copy of the row, so it is only wrong where a request wrote over a change
  it had not read.
- *Risk.* `RiskyBurstsAreBounded` (`RiskyBurstBounded`): the risky bets of a minute plus
  those assessed and not yet committed are at most the limit less one plus the requests
  (`BurstWithin`); a bet becomes one of the latter only while the count is below the
  limit, and as long as counts are told apart they are no less than the risky ones
  (`RiskyAreCounted`).
- *Live odds.* `ShownOddsBind` (`AcceptedAsSeen`): the request carries the odds of the
  click and a leg is only resolved at them (`RequestBound`). `DeliveredOddsAreCurrent`
  (`QuietMapIsCurrent`): the last message under way that names a selection has its odds
  (`LastIsCurrent`), and a map or snapshot is right for every selection no message under
  way names (`LiveIsRight`, `RowsAreRight`), unless a message was lost in a race.
- `ServicesKeepTheirTypes` (`TypesOK`): scores between 0 and 100, capped counts, and the
  shapes of everything else.

Assumptions: what the components ask of their constants, and that `None` is no row, no
secret, no number.

### Platform

`PlatformRunsLeases` is the refinement `PlatformSpec => Spec` of `OddsLease`.

- *Lease.* `OneWriter` (`OneWriterInTime`) for any number of instances, any TTL and
  any number of unanswered commands: until a behaviour has `most` commands in a row
  without an answer such that `most + 2` ticks with their pauses exceed the TTL, no two
  instances write. The lock is renewed and deleted whoever holds it, so nothing about the
  key alone is inductive. `IInv` says how long the lease of each active instance still
  lasts at least, by where its tick or its release is, how long that has taken and what
  its unanswered commands have used up (`HoldersLast`); that whoever took the lock from
  an instance about to act on it did so since (`ClaimsLast`); and so that nobody else
  that counts holds it (`ClaimsAreHeld`). It is inductive while `LeaseOutlasts`, and
  `most` only grows (`MostGrows`), so that once `LeaseOutlasts` fails nothing more is
  claimed (`LeaseInvariance`).
- *Tenants.* `RecentAnswers` (`AnswersAreRecent`): what a lookup has read is no older than
  the lookup (`ReadsAreRecent`); what it caches, over whatever was there, is therefore at
  most one lookup old and ages with its entry (`CacheIsRecent`).
- *Pool.* `Isolation` (`OpenRequestsIsolated`) and `CleanClients` (`FreeClientsAreReset`):
  a job is in the pool at most once, queued or with one client (`OnceInPool`), and at
  each stage the client of a request has the variable the stage needs
  (`OwnsItsClients`): set between `set_config` and RESET, unset when it is released.
- *Lifecycle.* `SownOnceEach` (`SownAtMostOnceEach`): the catalogues sown plus the
  processes that found it empty and have not inserted yet are at most the replicas
  (`SownOrSowing`). `PasswordsSettle` (`RotationSettles`): replicas that have all written
  the same password for a role find it there, the last to write having been one of them
  (`WrittenByAll`).
- *Rate limit.* `BurstsAreBounded` (`BurstBounded`). In memory, what passed since the
  bucket began is at most its count and at most the maximum, and what passed before it
  within the last window is at most the maximum (`BucketBound`). In Redis a hit of an old
  window may still pass, so what passed in this window is bounded with the hits that may
  still come late or are about to pass: at most the requests plus the count of the key,
  and plus the maximum (`KeysBound`); and the key does not expire within its window
  (`KeyStays`).
- `PlatformKeepsItsTypes` (`TypesOK`).

### Only model-checked

The liveness properties `EveryRequestEnds`, `PaidIsCredited` and `TakeOver` are beyond
the prover, which reasons neither about fairness nor about ENABLED. What the theorems
under `OnePayer` and `OneWriter` say is not claimed without them: two payers decide one
bet twice (`betting_double_pay`) or leave it open (`betting_write_skew`), and two writers
lose a movement (`wallet_lost_update`).

## 5. Known limits of the code

What the models can reach and no property promises, because the code does not:

- **A payout without a debit.** `initiatePayout` calls the provider first; a refusal
  or a crash afterwards leaves money sent and nothing written. A payout returned by
  the provider is never given back to the wallet.
- **A confirmation before its intent.** A webhook whose intent is not inserted yet is
  answered and lost; `PaidIsCredited` is about intents the platform has.
- **A reopened market.** `setMarketStatus` overwrites a settlement that commits
  between its check and its write; `placeBet` still refuses because the match is over.
- **A bet nothing settles.** A placement that validated its legs before a settlement
  commits inserts the bet after it: its leg stays pending on a finished match
  (`betting.service.ts:113`), until the match is settled once more. `OpenBetsArePlayable`
  excludes it for one writer only.
- **A token that serves twice.** `consumeToken` reads `used_at` in one statement and sets
  it in another without a condition (`security.service.ts:26-32`), so two requests that
  read a reset token before either marks it both set a password, although
  `tests/security.test.ts:27` speaks of a "token de un solo uso". `ServesItsReaders` is
  what remains: the requests a token serves had all read it by then.
- **A reset cut short.** A request that ends between setting the password and closing the
  other tokens leaves those usable; `ResetClosesTokens` is about resets that finish.
- **A verification overwritten.** `submitKyc` checks the status of a row loaded before the
  provider's answer (`account.service.ts:36`) and overwrites an administrator's
  verification that commits in between; nothing says which of the two should stand.
- **A lease that runs out.** After the first unanswered command the TTL no longer covers
  two slow ticks (`odds_two_writers`), and nothing tells a leader that it lost the lock.
- **MFA that its owner cannot pass.** With two overlapping requests, `enableMfa` can
  enable a secret that `setupMfa` replaced, or that `disableMfa` removed; these
  executions have `overwrote`, which `EnabledMfaIsUsable` leaves out.
- **Two catalogues.** Replicas that seed an empty database together each insert it,
  although `db/seed.ts:45` says "Idempotente".
- **Twice the rate, and more.** A fixed window lets twice the maximum pass in a minute.
  In Redis the hits under way when a window begins come on top of its maximum, once for
  each of the two: INCR of an old window's key, which may have expired by then, starts
  again at one (`rateLimit.ts`). So the bound of `BurstBounded` is twice the maximum
  and the requests in flight together; with the requests added only once, it fails
  from three requests and commands that last two intervals.
- **A pool that waits for itself.** Each request keeps a client for its context and asks
  for another in `tx`. With as many requests as clients (`DATABASE_POOL_MAX`), all
  wait, and the pool has no timeout: `EveryRequestEnds` has one client more than
  requests.
- **A handler that outlives its response.** When a client disconnects, `close` ends
  the context while the handler runs on (`middleware/tenant.ts:74`): its statements outside a
  transaction use a client already released, perhaps as another operator.
  `OpenRequestsIsolated` is about responses that are open.
- **A forced exit.** `shutdown` ends the process after its timeout whatever is in
  flight; `Lifecycle` treats it as a crash.

## 6. Not modelled

HTTP validation, dispatch and wording; hashing, JWT signing and the arithmetic of
TOTP (library calls whose results are taken as given); the SDK and the signatures
of the payment provider, of which only statuses and events are seen; metrics, logs
and audit rows, which no decision reads; the catalogue, which is queries; the
branding of operators, which is shown only; `screenTransaction`, which raises flags
that no decision reads; age, KYC, terms and jurisdiction checks, which are fixed
facts of a user that only refuse more; and the other views of the web client, which
are presentation: what a client may send is the input of the actions.
