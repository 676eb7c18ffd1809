------------------------------ MODULE Betting ------------------------------
(***************************************************************************)
(* Bets from placement to payment: betting.service.ts,                     *)
(* settlement.service.ts and setMarketStatus of admin.service.ts, over the *)
(* wallet of module Wallet.                                                *)
(*                                                                         *)
(* A session executes one request at a time; task[p] is the request and    *)
(* what its handler has read so far.  A step is what the handler does      *)
(* between two awaits that matter to the others.  What a transaction has   *)
(* written and not committed stays in task[p] (a settlement's legs and     *)
(* bets) or in the wallet's variables; bets, matchStatus and marketStatus  *)
(* hold committed rows only.                                               *)
(***************************************************************************)
EXTENDS Payouts, Sequences

CONSTANTS
  Users, Sessions, Opening, MaxRows, None,  \* as in Wallet
  Bets,        \* bet ids, numbers: nanoid() is taken to return the least free one
  Matches, Markets, Selections,
  MatchOf,     \* markets.match_id
  TypeOf,      \* markets.type
  MarketOf,    \* selections.market_id
  NameOf,      \* selections.name
  FirstOdds,   \* the odds the catalogue opens with
  OddsRange,   \* the odds the engine moves between
  Stakes, Slips, Scores,  \* what the requests may carry
  TaxPercent,  \* the winnings tax of each user's jurisdiction
  Duties,      \* the requests each session executes
  Placed       \* the open bets the behaviour begins with

ASSUME DataAssumption ==
  /\ Bets \subseteq Nat
  /\ MatchOf \in [Markets -> Matches]
  /\ MarketOf \in [Selections -> Markets]
  /\ FirstOdds \in [Selections -> OddsRange]
  /\ OddsRange \subseteq 101..10000
  /\ Stakes \subseteq Nat \ {0}
  /\ TaxPercent \in [Users -> 0..100]

VARIABLES
  balance, written, ledger, committed, lock, call,  \* the wallet
  bets,          \* the bets and bet_legs rows of each bet id, None if there is none
  matchStatus,   \* matches.status
  marketStatus,  \* markets.status
  odds,          \* selections.odds
  task           \* the request each session executes

bvars == <<bets, matchStatus, marketStatus, odds>>
wvars == <<balance, written, ledger, committed, lock, call>>
vars  == <<wvars, bvars, task>>

Tags == {"bet_stake", "cashout", "refund", "bet_payout"} \X Bets

W == INSTANCE Wallet WITH Amounts <- Int

MatchOfLeg(s) == MatchOf[MarketOf[s]]

ASSUME SlipsAssumption ==
  \A slip \in Slips :
    /\ slip \subseteq Selections
    /\ IsFiniteSet(slip) /\ Cardinality(slip) \in 1..12
    /\ \A s, t \in slip : s # t => MatchOfLeg(s) # MatchOfLeg(t)

Statuses == {"open", "won", "lost", "void", "cashed_out"}

\* A row of bets with its rows of bet_legs: locked_odds and result.
BetRow == UNION
  {[user : Users, stake : Stakes, locked : [slip -> OddsRange],
    result : [slip -> LegResults], status : Statuses] : slip \in Slips}

\* The behaviour begins with bets on matches to come.
ASSUME PlacedAssumption ==
  /\ Placed \in [Bets -> BetRow \union {None}]
  /\ \A b \in Bets : Placed[b] # None =>
       /\ Placed[b].status = "open"
       /\ \A s \in DOMAIN Placed[b].result : Placed[b].result[s] = "pending"

ASSUME WalletAssumption ==
  /\ Opening \in [Users -> Nat]
  /\ None \notin Sessions \union W!Call \union BetRow

Idle == [op |-> "idle"]

-----------------------------------------------------------------------------
Init ==
  /\ W!Init
  /\ bets = Placed
  /\ matchStatus = [m \in Matches |-> "scheduled"]
  /\ marketStatus = [k \in Markets |-> "open"]
  /\ odds = FirstOdds
  /\ task = [p \in Sessions |-> Idle]

Existing == {b \in Bets : bets[b] # None}
LegsOn(b, m) == {s \in DOMAIN bets[b].locked : MatchOfLeg(s) = m}

Starts(p, op) == task[p] = Idle /\ op \in Duties[p]
At(p, op, stage) == task[p].op = op /\ task[p].stage = stage
Goto(p, t) == task' = [task EXCEPT ![p] = t]
Finish(p) == Goto(p, Idle)

\* The ledger entry the handler awaits has been applied.
EntryApplied(p) == call[p] = None

\* Rows a settlement in flight has written: its bets, and the match it settles.
BetRowsOf(p) == IF task[p].op = "settleMatch" THEN DOMAIN task[p].marked ELSE {}
Settling(p, m) == task[p].op = "settleMatch" /\ task[p].match = m
BetRowFree(p, b) == \A q \in Sessions \ {p} : b \notin BetRowsOf(q)

-----------------------------------------------------------------------------
\* placeBet.  The slip is free of duplicates and of two legs of one match
\* (SlipsAssumption); the loss limit and the risk score are not modelled here.
PlaceBet(p, b, u, stake, slip) ==
  /\ Starts(p, "placeBet")
  /\ LET taken == Existing \union
                  {task[q].bet : q \in {r \in Sessions : task[r].op = "placeBet"}}
     IN  b \in Bets \ taken /\ \A c \in Bets \ taken : b <= c
  /\ Goto(p, [op |-> "placeBet", stage |-> "validate", bet |-> b, user |-> u,
              stake |-> stake, slip |-> slip, locked |-> << >>])
  /\ UNCHANGED <<wvars, bvars>>

\* The checks of placeBet on the market of a leg and on its match.
Playable(s) ==
  marketStatus[MarketOf[s]] = "open" /\ matchStatus[MatchOfLeg(s)] # "finished"

\* One turn of the loop: the leg's market, match and odds, read outside the
\* transaction.  The odds are the ones the client expects, or the request fails.
ValidateLeg(p, s) ==
  /\ At(p, "placeBet", "validate")
  /\ s \in task[p].slip \ DOMAIN task[p].locked
  /\ Playable(s)
  /\ Goto(p, [task[p] EXCEPT !.locked =
                [t \in DOMAIN @ \union {s} |-> IF t = s THEN odds[s] ELSE @[t]]])
  /\ UNCHANGED <<wvars, bvars>>

\* A loop of asynchronous turns that nothing awaits.
DebitUnvalidated(p) ==
  /\ At(p, "placeBet", "validate")
  /\ W!Select(p, task[p].user, 0 - task[p].stake, <<"bet_stake", task[p].bet>>)
  /\ Goto(p, [task[p] EXCEPT !.stage = "debit"])
  /\ UNCHANGED bvars

DebitStake(p) ==
  /\ At(p, "placeBet", "validate")
  /\ DOMAIN task[p].locked = task[p].slip
  /\ W!Select(p, task[p].user, 0 - task[p].stake, <<"bet_stake", task[p].bet>>)
  /\ Goto(p, [task[p] EXCEPT !.stage = "debit"])
  /\ UNCHANGED bvars

NewBet(t) ==
  [user |-> t.user, stake |-> t.stake, locked |-> t.locked,
   result |-> [s \in DOMAIN t.locked |-> "pending"], status |-> "open"]

\* The bet inserted by a statement of its own instead of in the transaction.
CommitBetOutsideTx(p) ==
  /\ At(p, "placeBet", "debit")
  /\ W!Rollback(p)
  /\ bets' = [bets EXCEPT ![task[p].bet] = NewBet(task[p])]
  /\ Finish(p)
  /\ UNCHANGED <<matchStatus, marketStatus, odds>>

CommitBet(p) ==
  /\ At(p, "placeBet", "debit")
  /\ EntryApplied(p)
  /\ W!Commit(p)
  /\ bets' = [bets EXCEPT ![task[p].bet] = NewBet(task[p])]
  /\ Finish(p)
  /\ UNCHANGED <<matchStatus, marketStatus, odds>>

-----------------------------------------------------------------------------
\* A bet loaded without a look at its status.
LoadedInAnyStatus(b) == TRUE

\* The status check of cashOut and of settleBetIfComplete.
IsOpen(b) == bets[b].status = "open"

\* cashOut: the bet is loaded and its status checked outside the transaction.
CashOut(p, b) ==
  /\ Starts(p, "cashOut")
  /\ b \in Existing
  /\ IsOpen(b)
  /\ Goto(p, [op |-> "cashOut", stage |-> "quote", bet |-> b])
  /\ UNCHANGED <<wvars, bvars>>

\* An offer that looks only at the matches of the pending legs.
CanCashOutWithLostLegs(bet) ==
  \A s \in WithResult(bet, "pending") : matchStatus[MatchOfLeg(s)] # "finished"

CanCashOut(bet) ==
  /\ WithResult(bet, "lost") = {}
  /\ \A s \in WithResult(bet, "pending") : matchStatus[MatchOfLeg(s)] # "finished"

\* The legs, and computeCashOutValue over their matches and current odds.
QuoteCashOut(p) ==
  /\ At(p, "cashOut", "quote")
  /\ CanCashOut(bets[task[p].bet])
  /\ Goto(p, [op |-> "cashOut", stage |-> "credit", bet |-> task[p].bet,
              value |-> CashOutValue(bets[task[p].bet], odds)])
  /\ UNCHANGED <<wvars, bvars>>

CreditCashOut(p) ==
  /\ At(p, "cashOut", "credit")
  /\ W!Select(p, bets[task[p].bet].user, task[p].value, <<"cashout", task[p].bet>>)
  /\ Goto(p, [task[p] EXCEPT !.stage = "mark"])
  /\ UNCHANGED bvars

\* UPDATE bets, whatever the status is by now, and COMMIT.
CommitCashOut(p) ==
  /\ At(p, "cashOut", "mark")
  /\ EntryApplied(p)
  /\ BetRowFree(p, task[p].bet)
  /\ W!Commit(p)
  /\ bets' = [bets EXCEPT ![task[p].bet].status = "cashed_out"]
  /\ Finish(p)
  /\ UNCHANGED <<matchStatus, marketStatus, odds>>

-----------------------------------------------------------------------------
\* The bets whose leg on m an UPDATE ... WHERE result = 'pending' decides.
PendingOn(m) ==
  {b \in Existing : \E s \in LegsOn(b, m) : bets[b].result[s] = "pending"}

\* The UPDATE without its condition: a new score decides the legs again.
EveryBetOn(m) == {b \in Existing : LegsOn(b, m) # {}}

DecidedLegs(m) == PendingOn(m)

\* settleMatch up to its loop: the match row is updated first, so a second
\* settlement of the match waits here; then selections, legs and markets; then
\* the affected bets.  Nothing checks that the match was not settled before.
SettleMatch(p, m, score) ==
  /\ Starts(p, "settleMatch")
  /\ \A q \in Sessions : ~ Settling(q, m)
  /\ Goto(p, [op |-> "settleMatch", stage |-> "next", match |-> m, score |-> score,
              decided |-> DecidedLegs(m), todo |-> EveryBetOn(m), marked |-> << >>])
  /\ UNCHANGED <<wvars, bvars>>

\* A leg's result as the settling session sees it.
ResultSeenBy(t, b, s) ==
  IF b \in t.decided /\ MatchOfLeg(s) = t.match
  THEN SelectionResult(TypeOf[MarketOf[s]], NameOf[s], t.score, None)
  ELSE bets[b].result[s]

BetSeenBy(t, b) ==
  [bets[b] EXCEPT !.result = [s \in DOMAIN @ |-> ResultSeenBy(t, b, s)]]

\* settleBetIfComplete, first statement: the bet, in the order the query gave.
LoadBet(p, b) ==
  /\ At(p, "settleMatch", "next")
  /\ b \in task[p].todo
  /\ IF IsOpen(b)
     THEN Goto(p, [op |-> "settleMatch", stage |-> "legs", match |-> task[p].match,
                   score |-> task[p].score, decided |-> task[p].decided,
                   todo |-> task[p].todo \ {b}, marked |-> task[p].marked, bet |-> b])
     ELSE Goto(p, [task[p] EXCEPT !.todo = @ \ {b}])
  /\ UNCHANGED <<wvars, bvars>>

Marking(t, status) ==
  [op |-> "settleMatch", stage |-> "mark", match |-> t.match, score |-> t.score,
   decided |-> t.decided, todo |-> t.todo, marked |-> t.marked, bet |-> t.bet,
   status |-> status]

NextBet(t, marked) ==
  [op |-> "settleMatch", stage |-> "next", match |-> t.match, score |-> t.score,
   decided |-> t.decided, todo |-> t.todo, marked |-> marked]

\* settleBetIfComplete, second statement: the legs, and what they decide.
LegsPending(p) ==
  LET t == task[p] IN
  /\ At(p, "settleMatch", "legs")
  /\ WithResult(BetSeenBy(t, t.bet), "pending") # {}
  /\ Goto(p, NextBet(t, t.marked))
  /\ UNCHANGED <<wvars, bvars>>

LegsLost(p) ==
  LET t   == task[p]
      bet == BetSeenBy(t, t.bet)
  IN
  /\ At(p, "settleMatch", "legs")
  /\ WithResult(bet, "pending") = {}
  /\ WithResult(bet, "lost") # {}
  /\ Goto(p, Marking(t, "lost"))
  /\ UNCHANGED <<wvars, bvars>>

LegsVoid(p) ==
  LET t   == task[p]
      bet == BetSeenBy(t, t.bet)
  IN
  /\ At(p, "settleMatch", "legs")
  /\ WithResult(bet, "void") = DOMAIN bet.locked
  /\ W!Select(p, bet.user, bet.stake, <<"refund", t.bet>>)
  /\ Goto(p, Marking(t, "void"))
  /\ UNCHANGED bvars

\* A bet paid as soon as one leg is won, without a look at pending ones.
LegsWonEarly(p) ==
  LET t   == task[p]
      bet == BetSeenBy(t, t.bet)
      won == WithResult(bet, "won")
      net == NetPayout(bet, GrossPayout(bet, won), TaxPercent[bet.user])
  IN
  /\ At(p, "settleMatch", "legs")
  /\ won # {}
  /\ W!Select(p, bet.user, net, <<"bet_payout", t.bet>>)
  /\ Goto(p, Marking(t, "won"))
  /\ UNCHANGED bvars

LegsWon(p) ==
  LET t   == task[p]
      bet == BetSeenBy(t, t.bet)
      won == WithResult(bet, "won")
      net == NetPayout(bet, GrossPayout(bet, won), TaxPercent[bet.user])
  IN
  /\ At(p, "settleMatch", "legs")
  /\ won # {}
  /\ won \union WithResult(bet, "void") = DOMAIN bet.locked
  /\ W!Select(p, bet.user, net, <<"bet_payout", t.bet>>)
  /\ Goto(p, Marking(t, "won"))
  /\ UNCHANGED bvars

\* markBet: takes the bet's row lock.
MarkBet(p) ==
  LET t == task[p] IN
  /\ At(p, "settleMatch", "mark")
  /\ EntryApplied(p)
  /\ BetRowFree(p, t.bet)
  /\ Goto(p, NextBet(t, [b \in DOMAIN t.marked \union {t.bet} |->
                           IF b = t.bet THEN t.status ELSE t.marked[b]]))
  /\ UNCHANGED <<wvars, bvars>>

CommitSettlement(p) ==
  LET t == task[p] IN
  /\ At(p, "settleMatch", "next")
  /\ t.todo = {}
  /\ IF W!Holds(p) = {} THEN UNCHANGED wvars ELSE W!Commit(p)
  /\ bets' = [b \in Bets |->
       IF b \notin Existing THEN bets[b]
       ELSE [BetSeenBy(t, b) EXCEPT !.status =
               IF b \in DOMAIN t.marked THEN t.marked[b] ELSE @]]
  /\ matchStatus' = [matchStatus EXCEPT ![t.match] = "finished"]
  /\ marketStatus' = [k \in Markets |->
       IF MatchOf[k] = t.match THEN "settled" ELSE marketStatus[k]]
  /\ Finish(p)
  /\ UNCHANGED odds

-----------------------------------------------------------------------------
\* setMarketStatus: the read, then the write (which waits for a settlement).
SetMarketStatus(p, k, status) ==
  /\ Starts(p, "setMarketStatus")
  /\ marketStatus[k] # "settled"
  /\ Goto(p, [op |-> "setMarketStatus", stage |-> "write", market |-> k, status |-> status])
  /\ UNCHANGED <<wvars, bvars>>

WriteMarketStatus(p) ==
  LET k == task[p].market IN
  /\ At(p, "setMarketStatus", "write")
  /\ \A q \in Sessions : ~ Settling(q, MatchOf[k])
  /\ marketStatus' = [marketStatus EXCEPT ![k] = task[p].status]
  /\ Finish(p)
  /\ UNCHANGED <<wvars, bets, matchStatus, odds>>

\* The odds engine writes new odds.  Its UPDATE has no condition: a tick that
\* read a market while it was open may write after it was suspended or settled.
DriftOdds(s) ==
  /\ \A q \in Sessions : ~ Settling(q, MatchOfLeg(s))
  /\ \E o \in OddsRange \ {odds[s]} : odds' = [odds EXCEPT ![s] = o]
  /\ UNCHANGED <<wvars, bets, matchStatus, marketStatus, task>>

-----------------------------------------------------------------------------
\* A statement of applyLedgerEntry.
LedgerStep(p) ==
  /\ W!Update(p) \/ W!Insert(p)
  /\ UNCHANGED <<bvars, task>>

\* An error path that releases the client without a ROLLBACK.
FailWithoutRollback(p) ==
  /\ task[p] # Idle
  /\ call' = [call EXCEPT ![p] = None]
  /\ Finish(p)
  /\ UNCHANGED <<balance, written, ledger, committed, lock, bvars>>

\* The request ends in an error: what its transaction did is rolled back.
Fail(p) ==
  /\ task[p] # Idle
  /\ IF W!Holds(p) = {} /\ call[p] = None THEN UNCHANGED wvars ELSE W!Rollback(p)
  /\ Finish(p)
  /\ UNCHANGED bvars

\* An exception at any await: odds_changed, a timeout, a lost connection, the
\* end of the process.
Abort(p) == Fail(p)

\* An error the handler itself throws.
Rejected(p) ==
  \/ /\ At(p, "placeBet", "validate")
     /\ \E s \in task[p].slip \ DOMAIN task[p].locked : ~ Playable(s)
  \/ At(p, "cashOut", "quote") /\ ~ CanCashOut(bets[task[p].bet])
  \/ call[p] # None /\ call[p].step = "update" /\ ~ W!Affords(call[p])

Reject(p) == Rejected(p) /\ Fail(p)

\* Session p awaits a row that session q has written and not committed.
Waits(p, q) ==
  \/ call[p] # None /\ call[p].step = "update" /\ lock[call[p].user] = q /\ p # q
  \/ /\ At(p, "cashOut", "mark") \/ At(p, "settleMatch", "mark")
     /\ EntryApplied(p)
     /\ p # q /\ task[p].bet \in BetRowsOf(q)

\* A set of sessions each of which waits for another of the set.
Deadlocked(p) ==
  \E S \in SUBSET Sessions :
    /\ p \in S
    /\ \A q \in S : \E r \in S : Waits(q, r)
    /\ \A r \in S : \E q \in S : Waits(q, r)

\* PostgreSQL aborts one transaction of a deadlock.
BreakDeadlock(p) == Deadlocked(p) /\ Fail(p)

-----------------------------------------------------------------------------
Request(p) ==
  \/ \E b \in Bets, u \in Users, stake \in Stakes, slip \in Slips :
       PlaceBet(p, b, u, stake, slip)
  \/ \E b \in Bets : CashOut(p, b)
  \/ \E m \in Matches, score \in Scores : SettleMatch(p, m, score)
  \/ \E k \in Markets, status \in {"open", "suspended"} : SetMarketStatus(p, k, status)

Proceed(p) ==
  \/ \E s \in Selections : ValidateLeg(p, s)
  \/ DebitStake(p)
  \/ CommitBet(p)
  \/ QuoteCashOut(p)
  \/ CreditCashOut(p)
  \/ CommitCashOut(p)
  \/ \E b \in Bets : LoadBet(p, b)
  \/ LegsPending(p)
  \/ LegsLost(p)
  \/ LegsVoid(p)
  \/ LegsWon(p)
  \/ MarkBet(p)
  \/ CommitSettlement(p)
  \/ WriteMarketStatus(p)
  \/ LedgerStep(p)
  \/ Reject(p)
  \/ BreakDeadlock(p)

Next ==
  \/ \E p \in Sessions : Request(p) \/ Proceed(p) \/ Abort(p)
  \/ \E s \in Selections : DriftOdds(s)

Spec == Init /\ [][Next]_vars

\* The event loop resumes every handler whose statement is answered, and
\* PostgreSQL grants row locks in the order they were asked for: a handler that
\* can proceed again and again does proceed.
FairSpec == Spec /\ \A p \in Sessions : SF_vars(Proceed(p))

-----------------------------------------------------------------------------
\* Types, including what an empty or a busy session may remember.
TypeOK ==
  /\ W!TypeOK
  /\ bets \in [Bets -> BetRow \union {None}]
  /\ matchStatus \in [Matches -> {"scheduled", "finished"}]
  /\ marketStatus \in [Markets -> {"open", "suspended", "settled"}]
  /\ odds \in [Selections -> OddsRange]
  /\ \A p \in Sessions : task[p].op \in Duties[p] \union {"idle"}

\* The committed rows of transactions that name a bet.
RowsOf(b, types) ==
  {r \in UNION {{<<u, i>> : i \in 1..committed[u]} : u \in Users} :
     LET tag == ledger[r[1]][r[2]].tag IN tag[1] \in types /\ tag[2] = b}
AmountOf(r) == ledger[r[1]][r[2]].amount

StatusIn(rows) == [b \in Bets |-> IF rows[b] = None THEN "none" ELSE rows[b].status]

Credits == [b \in Bets |->
  Cardinality(RowsOf(b, {"refund", "bet_payout", "cashout"}))]

P == INSTANCE BetPromise WITH InitialStatus <- StatusIn(Placed),
                              status <- StatusIn(bets), credits <- Credits

\* The bets and the ledger together implement the promise of BetPromise: every
\* bet is decided once, and credited once if and only if it was won, voided or
\* cashed out, in the same commit.
Promise == P!Spec

\* A bet exists if and only if its stake was taken, once and in full.
StakeIffBet ==
  \A b \in {c \in Bets : Placed[c] = None} :
    LET stakes == RowsOf(b, {"bet_stake"}) IN
    /\ Cardinality(stakes) = IF bets[b] = None THEN 0 ELSE 1
    /\ \A r \in stakes : AmountOf(r) = 0 - bets[b].stake

\* What a settlement decided is what the legs say, and what it paid is what the
\* won legs are worth, whatever other settlements, cash-outs and odds did while
\* it read the bet, the legs and the wallet one after the other.
DecisionMatchesLegs ==
  \A b \in Existing :
    LET bet == bets[b]
        won == WithResult(bet, "won")
    IN
    /\ bet.status = "lost" => WithResult(bet, "lost") # {}
    /\ bet.status = "void" => WithResult(bet, "void") = DOMAIN bet.locked
    /\ bet.status = "won" => won # {} /\ won \union WithResult(bet, "void") = DOMAIN bet.locked
    /\ \A r \in RowsOf(b, {"bet_payout"}) :
         AmountOf(r) = NetPayout(bet, GrossPayout(bet, won), TaxPercent[bet.user])

\* A decided leg is never decided again, whatever scores a match is settled with.
DecidedLegsStand ==
  [][\A b \in Existing : \A s \in DOMAIN bets[b].locked :
       bets[b].result[s] # "pending" => bets'[b].result[s] = bets[b].result[s]]_vars

\* An open bet still has a leg to be decided by a match to come: no stake is
\* locked in a bet nothing will ever settle.
OpenBetIsPlayable ==
  \A b \in Existing : bets[b].status = "open" =>
    \E s \in WithResult(bets[b], "pending") : matchStatus[MatchOfLeg(s)] # "finished"

\* The most a bet can still win: nothing once a leg is lost.
BestPayout(bet) ==
  IF WithResult(bet, "lost") # {} THEN 0
  ELSE GrossPayout(bet, DOMAIN bet.locked \ WithResult(bet, "void"))

\* When a cash-out is committed it pays no more than the bet could still win,
\* however the odds have moved since it was placed.
CashOutWithinReach ==
  [][\A p \in Sessions : CommitCashOut(p) =>
       task[p].value <= BestPayout(bets[task[p].bet])]_vars

\* The two tables of the wallet agree, and a session keeps its own movements, over
\* the transactions of placeBet, cashOut and settleMatch (module Wallet).
LastRowIsBalance == W!LastRowIsBalance
OwnRowsKept == W!OwnRowsKept

\* No movement of a wallet is lost (module Wallet).
NoMovementLost == W!ChainUnbroken

\* Every request ends, in an answer or in an error: row locks taken in
\* different orders by cash-outs and settlements never block them for good.
EveryRequestEnds == \A p \in Sessions : task[p] # Idle ~> task[p] = Idle

\* A bet that was settled cannot be cashed out.
SettledBetsRefuseCashOut ==
  [][\A b \in Existing : bets[b].status \in {"won", "lost", "void"} =>
       bets'[b].status # "cashed_out"]_vars

\* The settlement of a match resolves the bets that become complete.
CompleteBetsAreSettled ==
  \A b \in Existing : bets[b].status = "open" => WithResult(bets[b], "pending") # {}
=============================================================================
