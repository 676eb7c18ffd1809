--------------------------- MODULE BettingProofs ---------------------------
(***************************************************************************)
(* What module Betting keeps of bets and wallets, for any users, matches,  *)
(* slips, odds, stakes and sessions: betting.service.ts and                *)
(* settlement.service.ts over wallet.service.ts.                           *)
(***************************************************************************)
EXTENDS Betting, PayoutsProofs

-----------------------------------------------------------------------------
\* What a request remembers between two steps.
PlaceTask(t) ==
  /\ t.op = "placeBet"
  /\ t = [op |-> "placeBet", stage |-> t.stage, bet |-> t.bet, user |-> t.user,
          stake |-> t.stake, slip |-> t.slip, locked |-> t.locked]
  /\ t.stage \in {"validate", "debit"} /\ t.bet \in Bets /\ t.user \in Users
  /\ t.stake \in Stakes /\ t.slip \in Slips
  /\ DOMAIN t.locked \subseteq t.slip /\ t.locked \in [DOMAIN t.locked -> OddsRange]
  /\ t.stage = "debit" => DOMAIN t.locked = t.slip

CashTask(t) ==
  \/ /\ t.op = "cashOut" /\ t.stage = "quote"
     /\ t = [op |-> "cashOut", stage |-> "quote", bet |-> t.bet] /\ t.bet \in Existing
  \/ /\ t.op = "cashOut" /\ t.stage \in {"credit", "mark"}
     /\ t = [op |-> "cashOut", stage |-> t.stage, bet |-> t.bet, value |-> t.value]
     /\ t.bet \in Existing /\ t.value \in Int

Marks == {"won", "lost", "void"}

SettleTask(t) ==
  /\ t.op = "settleMatch"
  /\ \/ /\ t.stage = "next"
        /\ t = [op |-> "settleMatch", stage |-> "next", match |-> t.match, score |-> t.score,
                decided |-> t.decided, todo |-> t.todo, marked |-> t.marked]
     \/ /\ t.stage = "legs"
        /\ t = [op |-> "settleMatch", stage |-> "legs", match |-> t.match, score |-> t.score,
                decided |-> t.decided, todo |-> t.todo, marked |-> t.marked, bet |-> t.bet]
        /\ t.bet \in Existing \ (t.todo \union DOMAIN t.marked)
     \/ /\ t.stage = "mark"
        /\ t = [op |-> "settleMatch", stage |-> "mark", match |-> t.match, score |-> t.score,
                decided |-> t.decided, todo |-> t.todo, marked |-> t.marked, bet |-> t.bet,
                status |-> t.status]
        /\ t.bet \in Existing \ (t.todo \union DOMAIN t.marked)
        /\ t.status \in Marks
  /\ t.match \in Matches
  /\ t.decided \subseteq Existing /\ t.todo \subseteq Existing
  /\ DOMAIN t.marked \subseteq Existing \ t.todo
  /\ t.marked \in [DOMAIN t.marked -> Marks]

MarketTask(t) ==
  /\ t.op = "setMarketStatus"
  /\ t = [op |-> "setMarketStatus", stage |-> "write", market |-> t.market, status |-> t.status]
  /\ t.market \in Markets /\ t.status \in {"open", "suspended"}

TaskOK(p) ==
  \/ task[p] = Idle
  \/ /\ task[p].op \in Duties[p]
     /\ PlaceTask(task[p]) \/ CashTask(task[p]) \/ SettleTask(task[p]) \/ MarketTask(task[p])

RowsOK ==
  /\ bets \in [Bets -> BetRow \union {None}]
  /\ matchStatus \in [Matches -> {"scheduled", "finished"}]
  /\ marketStatus \in [Markets -> {"open", "suspended", "settled"}]
  /\ odds \in [Selections -> OddsRange]
  /\ DOMAIN task = Sessions
  /\ \A p \in Sessions : TaskOK(p)

-----------------------------------------------------------------------------
\* What a settlement has decided about bet b so far.
Decides(t, b) ==
  IF b \in DOMAIN t.marked THEN t.marked[b]
  ELSE IF t.stage = "mark" /\ b = t.bet THEN t.status ELSE "nothing"

\* The ledger entries a request writes, by tag, once the wallet is selected.
Due(p) ==
  IF At(p, "placeBet", "debit") THEN {<<"bet_stake", task[p].bet>>}
  ELSE IF At(p, "cashOut", "mark") THEN {<<"cashout", task[p].bet>>}
  ELSE IF task[p].op = "settleMatch"
    THEN {tag \in Tags : \/ tag[1] = "refund" /\ Decides(task[p], tag[2]) = "void"
                         \/ tag[1] = "bet_payout" /\ Decides(task[p], tag[2]) = "won"}
    ELSE {}

\* What the legs of a bet make it worth.
Worth(bet) ==
  NetPayout(bet, GrossPayout(bet, WithResult(bet, "won")), TaxPercent[bet.user])

DueAmount(p, tag) ==
  CASE tag[1] = "bet_stake"  -> 0 - task[p].stake
    [] tag[1] = "cashout"    -> task[p].value
    [] tag[1] = "refund"     -> bets[tag[2]].stake
    [] tag[1] = "bet_payout" -> Worth(BetSeenBy(task[p], tag[2]))

SameDue(p) ==
  /\ Due(p)' = Due(p)
  /\ \A tag \in Due(p) : DueAmount(p, tag)' = DueAmount(p, tag)

\* Row n of wallet u is written by p and not committed.
Draft(p, u, n) ==
  /\ u \in Users /\ n \in Nat
  /\ lock[u] = p /\ committed[u] < n /\ n <= Len(ledger[u])

CallOK(p) ==
  call[p] # None =>
    /\ \E tag \in Due(p) : call[p].tag = tag /\ call[p].amount = DueAmount(p, tag)
    /\ call[p].step = "insert" => /\ lock[call[p].user] = p
                                  /\ call[p].wallet + call[p].amount \in Nat

DraftOK(p, u, n) ==
  \E tag \in Due(p) :
    /\ ledger[u][n].tag = tag /\ ledger[u][n].amount = DueAmount(p, tag)
    /\ call[p] # None => call[p].tag # tag

\* No two drafts of a session have a tag in common, and none is missing.
DraftsOK(p) ==
  /\ \A u, n : Draft(p, u, n) => DraftOK(p, u, n)
  /\ \A u, n, v, m : Draft(p, u, n) /\ Draft(p, v, m) /\ ledger[u][n].tag = ledger[v][m].tag
       => u = v /\ n = m
  /\ \A tag \in Due(p) :
       \/ call[p] # None /\ call[p].tag = tag
       \/ \E u, n : Draft(p, u, n) /\ ledger[u][n].tag = tag

EntriesInv ==
  /\ W!TypeOK
  /\ \A u \in Users : /\ committed[u] <= Len(ledger[u])
                      /\ lock[u] = None => committed[u] = Len(ledger[u])
  /\ \A p \in Sessions : CallOK(p) /\ DraftsOK(p)

\* A settlement reads on only when the entry it awaits has been applied.
CallsInv ==
  \A p \in Sessions :
    task[p].op = "settleMatch" /\ task[p].stage \in {"next", "legs"} => call[p] = None

-----------------------------------------------------------------------------
\* Two settlements are of two matches, two placements of two bets.
Apart ==
  /\ \A p, q \in Sessions : p # q => \A m \in Matches : ~ (Settling(p, m) /\ Settling(q, m))
  /\ \A p, q \in Sessions :
       p # q /\ task[p].op = "placeBet" /\ task[q].op = "placeBet" => task[p].bet # task[q].bet
  /\ \A p \in Sessions : task[p].op = "placeBet" => bets[task[p].bet] = None

\* What the legs of a bet must be for its settlement to give it this status.
Verdict(bet, status) ==
  /\ status \in Marks => WithResult(bet, "pending") = {}
  /\ status = "lost" => WithResult(bet, "lost") # {}
  /\ status = "void" => WithResult(bet, "void") = DOMAIN bet.locked
  /\ status = "won" => /\ WithResult(bet, "won") # {}
                       /\ WithResult(bet, "won") \union WithResult(bet, "void") = DOMAIN bet.locked

SettlesOK(p) ==
  task[p].op = "settleMatch" =>
    /\ \A b \in task[p].decided :
         \A s \in LegsOn(b, task[p].match) : bets[b].result[s] = "pending"
    /\ \A b \in Existing :
         Decides(task[p], b) # "nothing" => Verdict(BetSeenBy(task[p], b), Decides(task[p], b))

SettleInv ==
  /\ Apart
  /\ \A p \in Sessions : SettlesOK(p)
  /\ \A b \in Existing : Verdict(bets[b], bets[b].status)

\* The committed entries of a bet.
PaidOK(b) ==
  \A r \in RowsOf(b, {"bet_payout"}) :
    /\ bets[b] # None
    /\ WithResult(bets[b], "pending") = {}
    /\ AmountOf(r) = Worth(bets[b])

StakeOK(b) ==
  Placed[b] = None =>
    IF bets[b] = None THEN RowsOf(b, {"bet_stake"}) = {}
    ELSE \E r : RowsOf(b, {"bet_stake"}) = {r} /\ AmountOf(r) = 0 - bets[b].stake

MoneyInv == \A b \in Bets : PaidOK(b) /\ StakeOK(b)

Inv == RowsOK /\ EntriesInv /\ CallsInv /\ SettleInv /\ MoneyInv

-----------------------------------------------------------------------------
\* One session alone cashes out and settles.
OnePayer ==
  \A p, q \in Sessions :
    Duties[p] \intersect {"cashOut", "settleMatch"} # {}
      /\ Duties[q] \intersect {"cashOut", "settleMatch"} # {} => p = q

CreditTypes == {"refund", "bet_payout", "cashout"}

\* The bets a request is about to decide are still open.
DecidesOpen(t) ==
  /\ t.op = "cashOut" => bets[t.bet].status = "open"
  /\ t.op = "settleMatch" =>
       /\ \A b \in DOMAIN t.marked : bets[b].status = "open"
       /\ t.stage \in {"legs", "mark"} => bets[t.bet].status = "open"

\* A settlement leaves no bet open whose legs it has all decided.
LeavesNone(t) ==
  t.op = "settleMatch" =>
    \A b \in Existing :
      /\ bets[b].status = "open"
      /\ b \notin t.todo
      /\ Decides(t, b) = "nothing"
      /\ ~ (t.stage = "legs" /\ t.bet = b)
      => WithResult(BetSeenBy(t, b), "pending") # {}

OfferOK(t) ==
  t.op = "cashOut" /\ t.stage \in {"credit", "mark"} => t.value <= BestPayout(bets[t.bet])

\* A bet is credited once, and only when its status says so.
CreditedOK(b) ==
  IF bets[b] # None /\ bets[b].status \in {"won", "void", "cashed_out"}
  THEN \E r : RowsOf(b, CreditTypes) = {r}
  ELSE RowsOf(b, CreditTypes) = {}

PayerInv ==
  /\ \A p \in Sessions : DecidesOpen(task[p]) /\ LeavesNone(task[p]) /\ OfferOK(task[p])
  /\ \A b \in Bets : CreditedOK(b)
  /\ \A b \in Existing : bets[b].status = "open" => WithResult(bets[b], "pending") # {}

-----------------------------------------------------------------------------
\* One session alone writes wallets; others set market statuses meanwhile.
Writes == {"placeBet", "cashOut", "settleMatch"}

OneWriter ==
  \A p, q \in Sessions :
    Duties[p] \intersect Writes # {} /\ Duties[q] \intersect Writes # {} => p = q

\* A pending leg is on a match to come.
PendingToCome ==
  \A b \in Existing : \A s \in WithResult(bets[b], "pending") :
    matchStatus[MatchOfLeg(s)] # "finished"

\* What a request has seen of its matches still holds.
SeesMatches(t) ==
  /\ t.op = "placeBet" => \A s \in DOMAIN t.locked : matchStatus[MatchOfLeg(s)] # "finished"
  /\ t.op = "settleMatch" => \A b \in Existing : \A s \in LegsOn(b, t.match) :
                               bets[b].result[s] = "pending" => b \in t.decided

MatchInv == PendingToCome /\ \A p \in Sessions : SeesMatches(task[p])

HeldByWriter == \A u \in Users : lock[u] # None => task[lock[u]].op \in Writes

\* The balance after the last row of a wallet, committed or not.
Latest(u) == W!AfterRow(u, Len(ledger[u]))

\* Session p has written the balance of wallet u and not yet the row.
Between(p, u) == call[p] # None /\ call[p].user = u /\ call[p].step = "insert"

WalletOK(u) ==
  /\ balance[u] = W!AfterRow(u, committed[u])
  /\ lock[u] = None => written[u] = balance[u]
  /\ \A p \in Sessions :
       /\ call[p] # None /\ call[p].user = u => call[p].wallet = Latest(u)
       /\ Between(p, u) => written[u] = call[p].wallet + call[p].amount
       /\ lock[u] = p /\ ~ Between(p, u) => written[u] = Latest(u)

ChainInv == HeldByWriter /\ (\A u \in Users : WalletOK(u)) /\ W!ChainUnbroken
-----------------------------------------------------------------------------
\* What the tables hold of a bet.
LEMMA OddsAbove == \A o \in OddsRange : o \in Nat /\ o > Hundred
<1> SUFFICES ASSUME NEW o \in OddsRange PROVE o \in Nat /\ o > Hundred OBVIOUS
<1>1. o \in 101..10000 BY DataAssumption
<1>2. o \in Nat /\ o > 100 BY <1>1
<1>3. QED BY <1>2 DEF Hundred

LEMMA BetFacts ==
  ASSUME NEW bet \in BetRow
  PROVE  /\ bet = [user |-> bet.user, stake |-> bet.stake, locked |-> bet.locked,
                   result |-> bet.result, status |-> bet.status]
         /\ bet.user \in Users /\ bet.stake \in Stakes /\ bet.stake \in Nat
         /\ bet.status \in Statuses
         /\ DOMAIN bet.locked \in Slips
         /\ bet.locked \in [DOMAIN bet.locked -> OddsRange]
         /\ bet.result \in [DOMAIN bet.locked -> LegResults]
         /\ DOMAIN bet.locked # {} /\ DOMAIN bet.locked \subseteq Selections
         /\ Priced(bet)
<1>1. PICK slip \in Slips :
        bet \in [user : Users, stake : Stakes, locked : [slip -> OddsRange],
                 result : [slip -> LegResults], status : Statuses]
  BY DEF BetRow
<1>2. /\ bet = [user |-> bet.user, stake |-> bet.stake, locked |-> bet.locked,
                result |-> bet.result, status |-> bet.status]
      /\ bet.user \in Users /\ bet.stake \in Stakes /\ bet.status \in Statuses
      /\ bet.locked \in [slip -> OddsRange] /\ bet.result \in [slip -> LegResults]
  BY <1>1
<1>3. DOMAIN bet.locked = slip /\ bet.stake \in Nat BY <1>2, DataAssumption
<1>4. slip # {} /\ IsFiniteSet(slip) /\ slip \subseteq Selections
  <2>1. slip # {} BY SlipsAssumption, FS_EmptySet
  <2>2. QED BY <2>1, SlipsAssumption
<1>5. \A s \in slip : bet.locked[s] \in Nat /\ bet.locked[s] > Hundred
  BY <1>2, OddsAbove
<1>6. QED BY <1>2, <1>3, <1>4, <1>5 DEF Priced

LEMMA MakesBetRow ==
  ASSUME NEW user \in Users, NEW stake \in Stakes, NEW slip \in Slips,
         NEW locked \in [slip -> OddsRange], NEW result \in [slip -> LegResults],
         NEW status \in Statuses
  PROVE  [user |-> user, stake |-> stake, locked |-> locked, result |-> result,
          status |-> status] \in BetRow
<1>1. [user |-> user, stake |-> stake, locked |-> locked, result |-> result, status |-> status]
        \in [user : Users, stake : Stakes, locked : [slip -> OddsRange],
             result : [slip -> LegResults], status : Statuses]
  OBVIOUS
<1>2. QED BY <1>1 DEF BetRow

\* A settlement and a cash-out change the results and the status of a bet only.
LEMMA NewResult ==
  ASSUME NEW bet \in BetRow, NEW result \in [DOMAIN bet.locked -> LegResults]
  PROVE  /\ [bet EXCEPT !.result = result] \in BetRow
         /\ [bet EXCEPT !.result = result]
              = [user |-> bet.user, stake |-> bet.stake, locked |-> bet.locked,
                 result |-> result, status |-> bet.status]
<1>1. [bet EXCEPT !.result = result]
        = [user |-> bet.user, stake |-> bet.stake, locked |-> bet.locked,
           result |-> result, status |-> bet.status]
  BY BetFacts
<1>2. QED BY <1>1, BetFacts, MakesBetRow

LEMMA NewStatus ==
  ASSUME NEW bet \in BetRow, NEW status \in Statuses
  PROVE  /\ [bet EXCEPT !.status = status] \in BetRow
         /\ [bet EXCEPT !.status = status]
              = [user |-> bet.user, stake |-> bet.stake, locked |-> bet.locked,
                 result |-> bet.result, status |-> status]
<1>1. [bet EXCEPT !.status = status]
        = [user |-> bet.user, stake |-> bet.stake, locked |-> bet.locked,
           result |-> bet.result, status |-> status]
  BY BetFacts
<1>2. QED BY <1>1, BetFacts, MakesBetRow

LEMMA DecidedResult ==
  ASSUME NEW type, NEW name, NEW score
  PROVE  SelectionResult(type, name, score, None) \in LegResults \ {"pending"}
BY DEF SelectionResult, LegResults

\* A row of bets as a settlement sees it.
SeenResult(t, b, bet, s) ==
  IF b \in t.decided /\ MatchOfLeg(s) = t.match
  THEN SelectionResult(TypeOf[MarketOf[s]], NameOf[s], t.score, None)
  ELSE bet.result[s]

SeenRow(t, b, bet) == [bet EXCEPT !.result = [s \in DOMAIN @ |-> SeenResult(t, b, bet, s)]]

LEMMA SeesRow ==
  /\ \A t, b : BetSeenBy(t, b) = SeenRow(t, b, bets[b])
  /\ \A t, b : BetSeenBy(t, b)' = SeenRow(t, b, bets'[b])
<1>1. \A t, b : BetSeenBy(t, b) = SeenRow(t, b, bets[b])
  BY DEF BetSeenBy, ResultSeenBy, SeenRow, SeenResult
<1>2. \A t, b : BetSeenBy(t, b)' = SeenRow(t, b, bets'[b])
  BY DEF BetSeenBy, ResultSeenBy, SeenRow, SeenResult
<1>3. QED BY <1>1, <1>2

LEMMA SeenRowIs ==
  ASSUME NEW t, NEW b, NEW bet \in BetRow
  PROVE  /\ SeenRow(t, b, bet) \in BetRow
         /\ SeenRow(t, b, bet).user = bet.user /\ SeenRow(t, b, bet).stake = bet.stake
         /\ SeenRow(t, b, bet).locked = bet.locked /\ SeenRow(t, b, bet).status = bet.status
         /\ \A s \in DOMAIN bet.locked : SeenRow(t, b, bet).result[s] = SeenResult(t, b, bet, s)
<1>1. DOMAIN bet.result = DOMAIN bet.locked BY BetFacts
<1>2. [s \in DOMAIN bet.locked |-> SeenResult(t, b, bet, s)] \in [DOMAIN bet.locked -> LegResults]
  <2>1. ASSUME NEW s \in DOMAIN bet.locked PROVE SeenResult(t, b, bet, s) \in LegResults
    BY BetFacts, DecidedResult DEF SeenResult
  <2>2. QED BY <2>1
<1>3. SeenRow(t, b, bet) = [bet EXCEPT !.result = [s \in DOMAIN bet.locked |-> SeenResult(t, b, bet, s)]]
  BY <1>1 DEF SeenRow
<1>4. PICK result \in [DOMAIN bet.locked -> LegResults] :
        result = [s \in DOMAIN bet.locked |-> SeenResult(t, b, bet, s)]
  BY <1>2
<1>5. PICK seen : seen = SeenRow(t, b, bet) OBVIOUS
<1>6. /\ seen = [user |-> bet.user, stake |-> bet.stake, locked |-> bet.locked,
                 result |-> result, status |-> bet.status]
      /\ seen \in BetRow
  BY <1>3, <1>4, <1>5, NewResult
<1>7. \A s \in DOMAIN bet.locked : seen.result[s] = SeenResult(t, b, bet, s) BY <1>4, <1>6
<1>8. /\ seen.user = bet.user /\ seen.stake = bet.stake /\ seen.locked = bet.locked
      /\ seen.status = bet.status /\ seen.result = result
  BY <1>6
<1>9. QED BY <1>5, <1>6, <1>7, <1>8

LEMMA SeenBet ==
  ASSUME NEW t, NEW b, bets[b] \in BetRow
  PROVE  /\ BetSeenBy(t, b) \in BetRow
         /\ BetSeenBy(t, b).user = bets[b].user /\ BetSeenBy(t, b).stake = bets[b].stake
         /\ BetSeenBy(t, b).locked = bets[b].locked /\ BetSeenBy(t, b).status = bets[b].status
<1>1. PICK bet \in BetRow : bet = bets[b] OBVIOUS
<1>2. BetSeenBy(t, b) = SeenRow(t, b, bet) BY <1>1, SeesRow
<1>3. QED BY <1>1, <1>2, SeenRowIs

LEMMA WithResultIn ==
  ASSUME NEW bet \in BetRow, NEW result
  PROVE  WithResult(bet, result) \in SUBSET DOMAIN bet.locked
BY DEF WithResult

LEMMA WorthIsInt ==
  ASSUME NEW bet \in BetRow
  PROVE  Worth(bet) \in Int
<1>1. PICK won \in SUBSET DOMAIN bet.locked : won = WithResult(bet, "won") BY WithResultIn
<1>2. GrossPayout(bet, won) \in Nat /\ bet.stake <= GrossPayout(bet, won)
  BY BetFacts, WonLegsReturnTheStake
<1>3. TaxPercent[bet.user] \in 0..100 BY BetFacts, DataAssumption
<1>4. NetPayout(bet, GrossPayout(bet, won), TaxPercent[bet.user]) \in Nat
  BY <1>2, <1>3, BetFacts, TaxSparesTheStake
<1>5. QED BY <1>1, <1>4 DEF Worth

\* Bets that differ in their status only are worth the same.
LEMMA SameWorth ==
  ASSUME NEW bet \in BetRow, NEW other \in BetRow,
         other.user = bet.user, other.stake = bet.stake, other.locked = bet.locked,
         other.result = bet.result
  PROVE  /\ Worth(other) = Worth(bet)
         /\ \A status : Verdict(other, status) <=> Verdict(bet, status)
         /\ \A result : WithResult(other, result) = WithResult(bet, result)
BY DEF Worth, NetPayout, GrossPayout, WithResult, Verdict

LEMMA OfferIsInt ==
  ASSUME NEW bet \in BetRow, NEW current \in [Selections -> OddsRange]
  PROVE  CashOutValue(bet, current) \in Int
<1>1. PICK won \in SUBSET DOMAIN bet.locked : won = WithResult(bet, "won") BY WithResultIn
<1>2. PICK pending \in SUBSET DOMAIN bet.locked : pending = WithResult(bet, "pending") BY WithResultIn
<1>3. CASE pending # {}
  <2>1. \A s \in pending : current[s] \in Nat /\ current[s] > Hundred
    <3>1. pending \subseteq Selections BY BetFacts
    <3>2. \A s \in pending : current[s] \in OddsRange BY <3>1
    <3>3. QED BY <3>2, OddsAbove
  <2>2. Priced(bet) BY BetFacts
  <2>3. CashOutValue(bet, current) \in Nat BY <1>1, <1>2, <1>3, <2>1, <2>2, OfferWithinReach
  <2>4. QED BY <2>3
<1>4. CASE pending = {}
  <2>1. OddsProduct(bet.locked, pending) = 1 /\ OddsProduct(current, pending) = 1 /\ Scale(pending) = 1
    BY <1>4, ProductOfNone DEF Scale
  <2>2. CashOutValue(bet, current) = PotentialPayout(bet) BY <1>2, <2>1 DEF CashOutValue
  <2>3. PICK locked, slip : locked = bet.locked /\ slip = DOMAIN locked OBVIOUS
  <2>4. IsFiniteSet(slip) /\ \A s \in slip : locked[s] \in Nat \ {0}
    BY <2>3, BetFacts DEF Priced, Hundred
  <2>5. OddsProduct(locked, slip) \in Nat /\ Scale(slip) \in Nat \ {0}
    BY <2>4, ProductIsNat, ScaleIsNat
  <2>6. (2 * (Hundred * OddsProduct(locked, slip)) + Scale(slip)) \div (2 * Scale(slip)) \in Nat
    <3>1. /\ 2 * (Hundred * OddsProduct(locked, slip)) + Scale(slip) \in Nat
          /\ 2 * Scale(slip) \in Nat \ {0}
      BY <2>5 DEF Hundred
    <3>2. QED BY <3>1, QuotientBounds
  <2>7. TotalOdds(bet.locked) \in Nat BY <2>3, <2>6 DEF TotalOdds, RoundedQuotient
  <2>8. bet.stake * TotalOdds(bet.locked) \in Nat BY <2>7, BetFacts
  <2>9. PotentialPayout(bet) \in Nat BY <2>8, QuotientBounds DEF PotentialPayout, ComputePayout, Hundred
  <2>10. QED BY <2>2, <2>9
<1>5. QED BY <1>3, <1>4
-----------------------------------------------------------------------------
\* The committed rows do not change.
RowsStay ==
  /\ committed' = committed
  /\ \A u \in Users : \A n \in 1..committed[u] : ledger'[u][n] = ledger[u][n]

LEMMA CallTypes ==
  ASSUME W!TypeOK, NEW p \in Sessions, call[p] # None
  PROVE  /\ call[p] \in W!Call /\ call[p].user \in Users /\ call[p].amount \in Int
         /\ call[p].wallet \in Int /\ call[p].step \in {"update", "insert"}
         /\ call[p].tag \in Tags
BY DEF W!TypeOK, W!Call

LEMMA NoneIsNothing ==
  /\ \A p \in Sessions : p # None
  /\ \A c \in W!Call : c # None
  /\ \A r \in BetRow : r # None
BY WalletAssumption

\* What does not touch the wallets.
LEMMA QuietEntries ==
  ASSUME EntriesInv, UNCHANGED wvars, \A q \in Sessions : SameDue(q)
  PROVE  EntriesInv' /\ RowsStay
<1>1. UNCHANGED <<balance, written, ledger, committed, lock, call>> BY DEF wvars
<1>2. W!TypeOK' BY <1>1 DEF EntriesInv, W!TypeOK
<1>3. \A u \in Users : /\ committed'[u] <= Len(ledger'[u])
                       /\ lock'[u] = None => committed'[u] = Len(ledger'[u])
  BY <1>1 DEF EntriesInv
<1>4. ASSUME NEW q \in Sessions PROVE CallOK(q)' /\ DraftsOK(q)'
  <2>1. SameDue(q) /\ CallOK(q) /\ DraftsOK(q) BY DEF EntriesInv
  <2>2. CallOK(q)' BY <1>1, <2>1 DEF CallOK, SameDue
  <2>3. \A u, n : Draft(q, u, n)' <=> Draft(q, u, n) BY <1>1 DEF Draft
  <2>4. \A u, n : Draft(q, u, n) => DraftOK(q, u, n)' BY <1>1, <2>1 DEF DraftsOK, DraftOK, SameDue
  <2>5. QED BY <1>1, <2>1, <2>2, <2>3, <2>4 DEF DraftsOK, SameDue
<1>5. QED BY <1>1, <1>2, <1>3, <1>4 DEF EntriesInv, RowsStay

\* A request begins a ledger entry.
LEMMA SelectEntries ==
  ASSUME EntriesInv, NEW p \in Sessions, NEW u \in Users, NEW amount \in Int, NEW tag \in Tags,
         W!Select(p, u, amount, tag),
         tag \notin Due(p), Due(p)' = Due(p) \union {tag}, DueAmount(p, tag)' = amount,
         \A x \in Due(p) : DueAmount(p, x)' = DueAmount(p, x),
         \A q \in Sessions \ {p} : SameDue(q)
  PROVE  EntriesInv' /\ RowsStay
<1> DEFINE c == [user |-> u, amount |-> amount, tag |-> tag, wallet |-> W!View(p, u), step |-> "update"]
<1>1. /\ call[p] = None /\ call' = [call EXCEPT ![p] = c]
      /\ UNCHANGED <<balance, written, ledger, committed, lock>>
  BY DEF W!Select
<1>2. W!TypeOK BY DEF EntriesInv
<1>3. c \in W!Call BY <1>2 DEF W!View, W!TypeOK, W!Call
<1>4. W!TypeOK' BY <1>1, <1>2, <1>3 DEF W!TypeOK
<1>5. call'[p] = c /\ c # None /\ \A q \in Sessions : q # p => call'[q] = call[q]
  BY <1>1, <1>2, <1>3, NoneIsNothing DEF W!TypeOK
<1>6. \A u_1 \in Users : /\ committed'[u_1] <= Len(ledger'[u_1])
                         /\ lock'[u_1] = None => committed'[u_1] = Len(ledger'[u_1])
  BY <1>1 DEF EntriesInv
<1>7. ASSUME NEW q \in Sessions PROVE CallOK(q)' /\ DraftsOK(q)'
  <2>1. CallOK(q) /\ DraftsOK(q) BY DEF EntriesInv
  <2>2. \A v, n : Draft(q, v, n)' <=> Draft(q, v, n) BY <1>1 DEF Draft
  <2>3. CASE q # p
    <3>1. SameDue(q) /\ call'[q] = call[q] BY <1>5, <2>3
    <3>2. CallOK(q)' BY <1>1, <2>1, <3>1 DEF CallOK, SameDue
    <3>3. \A v, n : Draft(q, v, n) => DraftOK(q, v, n)'
      BY <1>1, <2>1, <3>1 DEF DraftsOK, DraftOK, SameDue
    <3>4. QED BY <1>1, <2>1, <2>2, <3>1, <3>2, <3>3 DEF DraftsOK, SameDue
  <2>4. CASE q = p
    <3>1. CallOK(p)' BY <1>5 DEF CallOK
    <3>2. \A v, n : Draft(p, v, n) => DraftOK(p, v, n)' /\ ledger[v][n].tag \in Due(p)
      BY <1>1, <1>5, <2>1, <2>4 DEF DraftsOK, DraftOK
    <3>3. \A x \in Due(p) : \E v, n : Draft(p, v, n) /\ ledger[v][n].tag = x
      BY <1>1, <2>1, <2>4 DEF DraftsOK
    <3>4. \A v, n, w, m : Draft(p, v, n) /\ Draft(p, w, m) /\ ledger[v][n].tag = ledger[w][m].tag
            => v = w /\ n = m
      BY <2>1, <2>4 DEF DraftsOK
    <3>5. QED BY <1>1, <1>5, <2>2, <2>4, <3>1, <3>2, <3>3, <3>4 DEF DraftsOK
  <2>5. QED BY <2>3, <2>4
<1>8. QED BY <1>1, <1>4, <1>6, <1>7 DEF EntriesInv, RowsStay

\* UPDATE wallets.
LEMMA UpdateEntries ==
  ASSUME EntriesInv, NEW p \in Sessions, W!Update(p), \A q \in Sessions : SameDue(q)
  PROVE  EntriesInv' /\ RowsStay
<1> DEFINE c == call[p]
<1>1. PICK u \in Users : u = c.user /\ c # None
  BY CallTypes DEF W!Update, EntriesInv
<1>2. /\ c # None /\ c.step = "update" /\ lock[u] \in {None, p} /\ c.wallet + c.amount >= 0
      /\ lock' = [lock EXCEPT ![u] = p]
      /\ written' = [written EXCEPT ![u] = c.wallet + c.amount]
      /\ call' = [call EXCEPT ![p].step = "insert"]
      /\ UNCHANGED <<balance, ledger, committed>>
  BY <1>1 DEF W!Update, W!Affords
<1>3. W!TypeOK BY DEF EntriesInv
<1>4. c \in W!Call /\ c.wallet + c.amount \in Nat BY <1>2, <1>3, CallTypes
<1>5. PICK d : d = [c EXCEPT !.step = "insert"] OBVIOUS
<1>6. /\ d \in W!Call /\ d.step = "insert" /\ d.user = u /\ d.tag = c.tag
      /\ d.amount = c.amount /\ d.wallet = c.wallet
  BY <1>1, <1>4, <1>5 DEF W!Call
<1>7. call'[p] = d /\ d # None /\ \A q \in Sessions : q # p => call'[q] = call[q]
  BY <1>2, <1>3, <1>5, <1>6, NoneIsNothing DEF W!TypeOK
<1>8. lock'[u] = p /\ \A v \in Users : v # u => lock'[v] = lock[v]
  BY <1>2, <1>3 DEF W!TypeOK
<1>9. W!TypeOK'
  <2>1. call' \in [Sessions -> W!Call \union {None}] BY <1>2, <1>3, <1>5, <1>6 DEF W!TypeOK
  <2>2. QED BY <1>2, <1>3, <1>4, <2>1 DEF W!TypeOK
<1>10. \A v \in Users : /\ committed'[v] <= Len(ledger'[v])
                        /\ lock'[v] = None => committed'[v] = Len(ledger'[v])
  BY <1>2, <1>8, NoneIsNothing DEF EntriesInv
<1>11. ASSUME NEW q \in Sessions, NEW v, NEW n PROVE Draft(q, v, n)' <=> Draft(q, v, n)
  <2>1. CASE v = u
    <3>1. lock[u] = None => committed[u] = Len(ledger[u]) BY DEF EntriesInv
    <3>2. committed[u] \in Nat BY <1>3 DEF W!TypeOK
    <3>3. ledger[u] \in Seq(W!Row) BY <1>3 DEF W!TypeOK
    <3>4. Len(ledger[u]) \in Nat BY <3>3
    <3>5. QED BY <1>2, <1>8, <2>1, <3>1, <3>2, <3>4, NoneIsNothing DEF Draft
  <2>2. CASE v # u BY <1>2, <1>8, <2>2 DEF Draft
  <2>3. QED BY <2>1, <2>2
<1>12. ASSUME NEW q \in Sessions PROVE CallOK(q)' /\ DraftsOK(q)'
  <2>1. SameDue(q) /\ CallOK(q) /\ DraftsOK(q) BY DEF EntriesInv
  <2>2. CASE q # p
    <3>1. call'[q] = call[q] BY <1>7, <2>2
    <3>2. call[q] # None /\ call[q].step = "insert" => lock'[call[q].user] = q
      <4>1. SUFFICES ASSUME call[q] # None, call[q].step = "insert" PROVE lock'[call[q].user] = q
        OBVIOUS
      <4>2. lock[call[q].user] = q /\ call[q].user \in Users BY <1>3, <2>1, <4>1, CallTypes DEF CallOK
      <4>3. call[q].user # u BY <1>2, <2>2, <4>2, NoneIsNothing
      <4>4. QED BY <1>8, <4>2, <4>3
    <3>3. CallOK(q)' BY <2>1, <3>1, <3>2 DEF CallOK, SameDue
    <3>4. \A v, n : Draft(q, v, n) => DraftOK(q, v, n)'
      BY <1>2, <2>1, <3>1 DEF DraftsOK, DraftOK, SameDue
    <3>5. QED BY <1>2, <1>11, <2>1, <3>1, <3>3, <3>4 DEF DraftsOK, SameDue
  <2>3. CASE q = p
    <3>1. CallOK(p)'
      <4>1. PICK tag \in Due(p) : c.tag = tag /\ c.amount = DueAmount(p, tag)
        BY <1>2, <2>1, <2>3 DEF CallOK
      <4>2. tag \in Due(p)' /\ d.tag = tag /\ d.amount = DueAmount(p, tag)'
        BY <1>6, <2>1, <2>3, <4>1 DEF SameDue
      <4>3. lock'[d.user] = p /\ d.wallet + d.amount \in Nat BY <1>4, <1>6, <1>8
      <4>4. QED BY <1>7, <4>2, <4>3 DEF CallOK
    <3>2. \A v, n : Draft(p, v, n) => DraftOK(p, v, n)'
      BY <1>2, <1>6, <1>7, <2>1, <2>3 DEF DraftsOK, DraftOK, SameDue
    <3>3. QED BY <1>2, <1>6, <1>7, <1>11, <2>1, <2>3, <3>1, <3>2 DEF DraftsOK, SameDue
  <2>4. QED BY <2>2, <2>3
<1>13. QED BY <1>2, <1>9, <1>10, <1>12 DEF EntriesInv, RowsStay

\* INSERT INTO transactions.
LEMMA InsertEntries ==
  ASSUME EntriesInv, NEW p \in Sessions, W!Insert(p), \A q \in Sessions : SameDue(q)
  PROVE  EntriesInv' /\ RowsStay
<1> DEFINE c == call[p]
<1>1. PICK u \in Users : u = c.user /\ c # None
  BY CallTypes DEF W!Insert, EntriesInv
<1>2. PICK row : row = [amount |-> c.amount, after |-> c.wallet + c.amount, tag |-> c.tag, by |-> p]
  OBVIOUS
<1>3. /\ c # None /\ c.step = "insert"
      /\ ledger' = [ledger EXCEPT ![u] = Append(ledger[u], row)]
      /\ call' = [call EXCEPT ![p] = None]
      /\ UNCHANGED <<balance, written, committed, lock>>
  BY <1>1, <1>2 DEF W!Insert
<1>4. W!TypeOK /\ CallOK(p) /\ DraftsOK(p) BY DEF EntriesInv
<1>5. PICK tag \in Due(p) : c.tag = tag /\ c.amount = DueAmount(p, tag) BY <1>3, <1>4 DEF CallOK
<1>6. lock[u] = p /\ c.wallet + c.amount \in Nat BY <1>1, <1>3, <1>4 DEF CallOK
<1>7. row \in W!Row /\ row.tag = tag /\ row.amount = DueAmount(p, tag)
  BY <1>1, <1>2, <1>4, <1>5, <1>6, CallTypes DEF W!Row
<1>8. ledger[u] \in Seq(W!Row) /\ committed[u] \in Nat /\ committed[u] <= Len(ledger[u])
      /\ Len(ledger[u]) \in Nat
  BY <1>4 DEF W!TypeOK, EntriesInv
<1>9. call'[p] = None /\ \A q \in Sessions : q # p => call'[q] = call[q] BY <1>3, <1>4 DEF W!TypeOK
<1>10. ledger'[u] = Append(ledger[u], row) /\ \A v \in Users : v # u => ledger'[v] = ledger[v]
  BY <1>3, <1>4 DEF W!TypeOK
<1>11. /\ Append(ledger[u], row) \in Seq(W!Row)
       /\ Len(ledger'[u]) = Len(ledger[u]) + 1
       /\ ledger'[u][Len(ledger[u]) + 1] = row
       /\ \A n \in 1..Len(ledger[u]) : ledger'[u][n] = ledger[u][n]
  BY <1>7, <1>8, <1>10
<1>12. W!TypeOK'
  <2>1. ledger' \in [Users -> Seq(W!Row)] BY <1>3, <1>4, <1>11 DEF W!TypeOK
  <2>2. QED BY <1>3, <1>4, <2>1 DEF W!TypeOK
<1>13. \A v \in Users : /\ committed'[v] <= Len(ledger'[v])
                        /\ lock'[v] = None => committed'[v] = Len(ledger'[v])
  <2>1. ASSUME NEW v \in Users, v # u
        PROVE  /\ committed'[v] <= Len(ledger'[v])
               /\ lock'[v] = None => committed'[v] = Len(ledger'[v])
    BY <1>3, <1>10, <2>1 DEF EntriesInv
  <2>2. committed'[u] <= Len(ledger'[u]) /\ lock'[u] # None BY <1>3, <1>6, <1>8, <1>11, NoneIsNothing
  <2>3. QED BY <2>1, <2>2
<1>14. ASSUME NEW q \in Sessions, NEW v, NEW n
       PROVE  /\ Draft(q, v, n)' <=> Draft(q, v, n) \/ (q = p /\ v = u /\ n = Len(ledger[u]) + 1)
              /\ Draft(q, v, n) => ledger'[v][n] = ledger[v][n]
  <2>1. CASE v = u BY <1>3, <1>6, <1>8, <1>11, <2>1 DEF Draft
  <2>2. CASE v # u BY <1>3, <1>10, <2>2 DEF Draft
  <2>3. QED BY <2>1, <2>2
<1>15. ASSUME NEW q \in Sessions PROVE CallOK(q)' /\ DraftsOK(q)'
  <2>1. SameDue(q) /\ CallOK(q) /\ DraftsOK(q) BY DEF EntriesInv
  <2>2. CASE q # p
    <3>1. call'[q] = call[q] BY <1>9, <2>2
    <3>2. CallOK(q)' BY <1>3, <2>1, <3>1 DEF CallOK, SameDue
    <3>3. \A v, n : Draft(q, v, n) => DraftOK(q, v, n)'
      BY <1>14, <2>1, <3>1 DEF DraftsOK, DraftOK, SameDue
    <3>4. \A v, n : Draft(q, v, n)' <=> Draft(q, v, n) BY <1>14, <2>2
    <3>5. \A x \in Due(q) : \/ call'[q] # None /\ call'[q].tag = x
                            \/ \E v, n : Draft(q, v, n)' /\ ledger'[v][n].tag = x
      BY <1>14, <2>1, <3>1, <3>4 DEF DraftsOK
    <3>6. \A v, n, w, m : Draft(q, v, n)' /\ Draft(q, w, m)' /\ ledger'[v][n].tag = ledger'[w][m].tag
            => v = w /\ n = m
      BY <1>14, <2>1, <3>4 DEF DraftsOK
    <3>7. DraftsOK(q)' BY <2>1, <3>3, <3>4, <3>5, <3>6 DEF DraftsOK, SameDue
    <3>8. QED BY <3>2, <3>7
  <2>3. CASE q = p
    <3>1. CallOK(p)' BY <1>9 DEF CallOK
    <3>k. PICK k \in Nat : k = Len(ledger[u]) + 1 BY <1>8
    <3>2. Draft(p, u, k)' /\ ledger'[u][k] = row BY <1>11, <1>14, <3>k
    <3>3. \A v, n : Draft(p, v, n)' <=> Draft(p, v, n) \/ (v = u /\ n = k) BY <1>14, <3>k
    <3>4. ASSUME NEW v, NEW n, Draft(p, v, n) PROVE DraftOK(p, v, n)' /\ ledger[v][n].tag # tag
      <4>1. PICK x \in Due(p) : /\ ledger[v][n].tag = x /\ ledger[v][n].amount = DueAmount(p, x)
                                /\ c.tag # x
        BY <1>3, <2>1, <2>3, <3>4 DEF DraftsOK, DraftOK
      <4>2. ledger'[v][n] = ledger[v][n] BY <1>14, <3>4
      <4>3. x \in Due(p)' /\ DueAmount(p, x)' = DueAmount(p, x) BY <2>1, <2>3 DEF SameDue
      <4>4. QED BY <1>5, <1>9, <4>1, <4>2, <4>3 DEF DraftOK
    <3>5. DraftOK(p, u, k)'
      <4>1. tag \in Due(p)' /\ DueAmount(p, tag)' = DueAmount(p, tag) BY <2>1, <2>3 DEF SameDue
      <4>2. QED BY <1>7, <1>9, <3>2, <4>1 DEF DraftOK
    <3>6. \A v, n : Draft(p, v, n)' => DraftOK(p, v, n)' BY <3>3, <3>4, <3>5
    <3>7. \A v, n, w, m : Draft(p, v, n)' /\ Draft(p, w, m)' /\ ledger'[v][n].tag = ledger'[w][m].tag
            => v = w /\ n = m
      BY <1>7, <1>14, <2>1, <2>3, <3>2, <3>3, <3>4 DEF DraftsOK
    <3>8. \A x \in Due(p)' : \E v, n : Draft(p, v, n)' /\ ledger'[v][n].tag = x
      <4>1. SUFFICES ASSUME NEW x \in Due(p) PROVE \E v, n : Draft(p, v, n)' /\ ledger'[v][n].tag = x
        BY <2>1, <2>3 DEF SameDue
      <4>2. CASE x = tag BY <1>7, <3>2, <4>2
      <4>3. CASE x # tag
        <5>1. PICK v, n : Draft(p, v, n) /\ ledger[v][n].tag = x BY <1>5, <2>1, <2>3, <4>3 DEF DraftsOK
        <5>2. QED BY <1>14, <3>3, <5>1
      <4>4. QED BY <4>2, <4>3
    <3>9. DraftsOK(p)' BY <3>6, <3>7, <3>8 DEF DraftsOK
    <3>10. QED BY <2>3, <3>1, <3>9
  <2>4. QED BY <2>2, <2>3
<1>16. RowsStay
  <2>1. ASSUME NEW v \in Users, NEW n \in 1..committed[v] PROVE ledger'[v][n] = ledger[v][n]
    BY <1>8, <1>10, <1>11
  <2>2. QED BY <1>3, <2>1 DEF RowsStay
<1>17. QED BY <1>12, <1>13, <1>15, <1>16 DEF EntriesInv

\* ROLLBACK.
LEMMA RollbackEntries ==
  ASSUME EntriesInv, NEW p \in Sessions, W!Rollback(p), Due(p)' = {},
         \A q \in Sessions \ {p} : SameDue(q)
  PROVE  EntriesInv' /\ RowsStay
<1>1. /\ written' = [u \in Users |-> IF lock[u] = p THEN balance[u] ELSE written[u]]
      /\ ledger' = [u \in Users |-> IF lock[u] = p THEN SubSeq(ledger[u], 1, committed[u]) ELSE ledger[u]]
      /\ lock' = [u \in Users |-> IF lock[u] = p THEN None ELSE lock[u]]
      /\ call' = [call EXCEPT ![p] = None]
      /\ UNCHANGED <<balance, committed>>
  BY DEF W!Rollback
<1>2. W!TypeOK /\ p # None BY NoneIsNothing DEF EntriesInv
<1>3. \A u \in Users : /\ ledger[u] \in Seq(W!Row) /\ committed[u] \in Nat
                       /\ committed[u] <= Len(ledger[u])
  BY <1>2 DEF EntriesInv, W!TypeOK
<1>4. ASSUME NEW u \in Users, lock[u] = p
      PROVE  /\ ledger'[u] \in Seq(W!Row) /\ Len(ledger'[u]) = committed[u]
             /\ \A n \in 1..committed[u] : ledger'[u][n] = ledger[u][n]
  <2>1. ledger'[u] = SubSeq(ledger[u], 1, committed[u]) BY <1>1, <1>4
  <2>2. ledger[u] \in Seq(W!Row) /\ committed[u] \in 0..Len(ledger[u]) BY <1>3
  <2>3. \A n \in 1..committed[u] : ledger[u][n] \in W!Row BY <2>2
  <2>4. QED BY <2>1, <2>2, <2>3
<1>5. \A u \in Users : lock[u] # p => ledger'[u] = ledger[u] /\ lock'[u] = lock[u] BY <1>1
<1>6. \A u \in Users : lock[u] = p => lock'[u] = None BY <1>1
<1>7. W!TypeOK'
  <2>1. ledger' \in [Users -> Seq(W!Row)] BY <1>1, <1>3, <1>4, <1>5
  <2>2. QED BY <1>1, <1>2, <2>1 DEF W!TypeOK
<1>8. call'[p] = None /\ \A q \in Sessions : q # p => call'[q] = call[q] BY <1>1, <1>2 DEF W!TypeOK
<1>9. \A u \in Users : /\ committed'[u] <= Len(ledger'[u])
                       /\ lock'[u] = None => committed'[u] = Len(ledger'[u])
  BY <1>1, <1>3, <1>4, <1>5, <1>6 DEF EntriesInv
<1>10. ASSUME NEW q \in Sessions, NEW v, NEW n
       PROVE  /\ Draft(q, v, n)' <=> Draft(q, v, n) /\ q # p
              /\ Draft(q, v, n) /\ q # p => ledger'[v][n] = ledger[v][n]
  BY <1>1, <1>2, <1>5, <1>6, NoneIsNothing DEF Draft
<1>11. ASSUME NEW q \in Sessions PROVE CallOK(q)' /\ DraftsOK(q)'
  <2>1. CallOK(q) /\ DraftsOK(q) BY DEF EntriesInv
  <2>2. CASE q # p
    <3>1. SameDue(q) /\ call'[q] = call[q] BY <1>8, <2>2
    <3>2. call[q] # None /\ call[q].step = "insert" => lock'[call[q].user] = q
      BY <1>2, <1>5, <2>1, <2>2, CallTypes DEF CallOK
    <3>3. CallOK(q)' BY <2>1, <3>1, <3>2 DEF CallOK, SameDue
    <3>4. \A v, n : Draft(q, v, n) => DraftOK(q, v, n)'
      BY <1>10, <2>1, <2>2, <3>1 DEF DraftsOK, DraftOK, SameDue
    <3>5. \A v, n : Draft(q, v, n)' <=> Draft(q, v, n) BY <1>10, <2>2
    <3>6. \A x \in Due(q) : \/ call'[q] # None /\ call'[q].tag = x
                            \/ \E v, n : Draft(q, v, n)' /\ ledger'[v][n].tag = x
      BY <1>10, <2>1, <2>2, <3>1, <3>5 DEF DraftsOK
    <3>7. \A v, n, w, m : Draft(q, v, n)' /\ Draft(q, w, m)' /\ ledger'[v][n].tag = ledger'[w][m].tag
            => v = w /\ n = m
      BY <1>10, <2>1, <2>2, <3>5 DEF DraftsOK
    <3>8. QED BY <3>1, <3>3, <3>4, <3>5, <3>6, <3>7 DEF DraftsOK, SameDue
  <2>3. CASE q = p BY <1>8, <1>10, <2>3 DEF CallOK, DraftsOK
  <2>4. QED BY <2>2, <2>3
<1>12. RowsStay BY <1>1, <1>4, <1>5 DEF RowsStay
<1>13. QED BY <1>7, <1>9, <1>11, <1>12 DEF EntriesInv

\* The drafts of a session on bet b, by the types of their tags.
DraftsOf(p, b, types) ==
  {r \in Users \X Nat : /\ Draft(p, r[1], r[2])
                        /\ ledger[r[1]][r[2]].tag[1] \in types
                        /\ ledger[r[1]][r[2]].tag[2] = b}

LEMMA RowsAre ==
  ASSUME NEW b, NEW types
  PROVE  \A r : r \in RowsOf(b, types) <=>
           \E u \in Users : \E n \in 1..committed[u] :
             /\ r = <<u, n>> /\ ledger[u][n].tag[1] \in types /\ ledger[u][n].tag[2] = b
BY DEF RowsOf

LEMMA SameRows ==
  ASSUME RowsStay, NEW b, NEW types
  PROVE  /\ RowsOf(b, types)' = RowsOf(b, types)
         /\ \A r \in RowsOf(b, types) : AmountOf(r)' = AmountOf(r)
<1>1. \A r : r \in RowsOf(b, types)' <=>
        \E u \in Users : \E n \in 1..committed'[u] :
          /\ r = <<u, n>> /\ ledger'[u][n].tag[1] \in types /\ ledger'[u][n].tag[2] = b
  BY DEF RowsOf
<1>2. \A r : r \in RowsOf(b, types)' <=> r \in RowsOf(b, types) BY <1>1, RowsAre DEF RowsStay
<1>3. RowsOf(b, types)' = RowsOf(b, types) BY <1>2
<1>4. ASSUME NEW r \in RowsOf(b, types) PROVE AmountOf(r)' = AmountOf(r)
  <2>1. PICK u \in Users, n \in Nat : r = <<u, n>> /\ n \in 1..committed[u] BY RowsAre
  <2>2. QED BY <2>1 DEF RowsStay, AmountOf
<1>5. QED BY <1>3, <1>4

\* COMMIT: the drafts of the session become rows.
LEMMA CommitEntries ==
  ASSUME EntriesInv, NEW p \in Sessions, W!Commit(p), Due(p)' = {},
         \A q \in Sessions \ {p} : SameDue(q)
  PROVE  /\ EntriesInv'
         /\ \A b, types : RowsOf(b, types)' = RowsOf(b, types) \union DraftsOf(p, b, types)
         /\ \A r : AmountOf(r)' = AmountOf(r)
<1>1. /\ call[p] = None /\ call' = call
      /\ balance' = [u \in Users |-> IF lock[u] = p THEN written[u] ELSE balance[u]]
      /\ committed' = [u \in Users |-> IF lock[u] = p THEN Len(ledger[u]) ELSE committed[u]]
      /\ lock' = [u \in Users |-> IF lock[u] = p THEN None ELSE lock[u]]
      /\ UNCHANGED <<written, ledger>>
  BY DEF W!Commit, W!Publish
<1>2. W!TypeOK /\ p # None BY NoneIsNothing DEF EntriesInv
<1>3. \A u \in Users : /\ committed[u] \in Nat /\ Len(ledger[u]) \in Nat
                       /\ committed[u] <= Len(ledger[u])
  BY <1>2 DEF EntriesInv, W!TypeOK
<1>4. W!TypeOK' BY <1>1, <1>2, <1>3 DEF W!TypeOK
<1>5. \A u \in Users : /\ committed'[u] <= Len(ledger'[u])
                       /\ lock'[u] = None => committed'[u] = Len(ledger'[u])
  BY <1>1, <1>3 DEF EntriesInv
<1>6. ASSUME NEW q \in Sessions, NEW v, NEW n
      PROVE  Draft(q, v, n)' <=> Draft(q, v, n) /\ q # p
  <2>1. CASE v \in Users
    <3>1. CASE lock[v] = p BY <1>1, <1>2, <1>3, <2>1, <3>1, NoneIsNothing DEF Draft
    <3>2. CASE lock[v] # p BY <1>1, <1>2, <1>3, <2>1, <3>2, NoneIsNothing DEF Draft
    <3>3. QED BY <3>1, <3>2
  <2>2. CASE v \notin Users BY <2>2 DEF Draft
  <2>3. QED BY <2>1, <2>2
<1>7. ASSUME NEW q \in Sessions PROVE CallOK(q)' /\ DraftsOK(q)'
  <2>1. CallOK(q) /\ DraftsOK(q) BY DEF EntriesInv
  <2>2. CASE q # p
    <3>1. SameDue(q) /\ call'[q] = call[q] BY <1>1, <2>2
    <3>2. call[q] # None /\ call[q].step = "insert" => lock'[call[q].user] = q
      BY <1>1, <1>2, <2>1, <2>2, CallTypes DEF CallOK
    <3>3. CallOK(q)' BY <2>1, <3>1, <3>2 DEF CallOK, SameDue
    <3>4. \A v, n : Draft(q, v, n) => DraftOK(q, v, n)'
      BY <1>1, <2>1, <2>2, <3>1 DEF DraftsOK, DraftOK, SameDue
    <3>5. \A v, n : Draft(q, v, n)' <=> Draft(q, v, n) BY <1>6, <2>2
    <3>6. DraftsOK(q)' BY <1>1, <2>1, <3>1, <3>4, <3>5 DEF DraftsOK, SameDue
    <3>7. QED BY <3>3, <3>6
  <2>3. CASE q = p BY <1>1, <1>6, <2>3 DEF CallOK, DraftsOK
  <2>4. QED BY <2>2, <2>3
<1>8. ASSUME NEW b, NEW types
      PROVE  RowsOf(b, types)' = RowsOf(b, types) \union DraftsOf(p, b, types)
  <2>1. \A r : r \in RowsOf(b, types)' <=>
          \E u \in Users : \E n \in 1..committed'[u] :
            /\ r = <<u, n>> /\ ledger[u][n].tag[1] \in types /\ ledger[u][n].tag[2] = b
    BY <1>1 DEF RowsOf
  <2>2. \A r : r \in DraftsOf(p, b, types) <=>
          \E u \in Users : \E n \in Nat :
            /\ r = <<u, n>> /\ Draft(p, u, n)
            /\ ledger[u][n].tag[1] \in types /\ ledger[u][n].tag[2] = b
    BY DEF DraftsOf
  <2>3. ASSUME NEW u \in Users, NEW n
        PROVE  n \in 1..committed'[u] <=> (n \in 1..committed[u] \/ (n \in Nat /\ Draft(p, u, n)))
    BY <1>1, <1>3 DEF Draft
  <2>4. \A r : r \in RowsOf(b, types)' <=> r \in RowsOf(b, types) \/ r \in DraftsOf(p, b, types)
    BY <2>1, <2>2, <2>3, RowsAre
  <2>5. QED BY <2>4
<1>9. \A r : AmountOf(r)' = AmountOf(r) BY <1>1 DEF AmountOf
<1>10. QED BY <1>4, <1>5, <1>7, <1>8, <1>9 DEF EntriesInv

\* The drafts of a session that awaits nothing are what its request owes.
LEMMA NoDraft ==
  ASSUME EntriesInv, NEW p \in Sessions, NEW b, NEW types,
         \A tag \in Due(p) : ~ (tag[1] \in types /\ tag[2] = b)
  PROVE  DraftsOf(p, b, types) = {}
<1>1. ASSUME NEW r \in DraftsOf(p, b, types) PROVE FALSE
  <2>1. PICK u, n : /\ u = r[1] /\ n = r[2] /\ Draft(p, u, n)
                    /\ ledger[u][n].tag[1] \in types /\ ledger[u][n].tag[2] = b
    BY DEF DraftsOf
  <2>2. ledger[u][n].tag \in Due(p) BY <2>1 DEF EntriesInv, DraftsOK, DraftOK
  <2>3. QED BY <2>1, <2>2
<1>2. QED BY <1>1

LEMMA OneDraft ==
  ASSUME EntriesInv, NEW p \in Sessions, NEW b, NEW types, call[p] = None,
         NEW tag \in Due(p), tag[1] \in types, tag[2] = b,
         \A x \in Due(p) : x[1] \in types /\ x[2] = b => x = tag
  PROVE  \E r : DraftsOf(p, b, types) = {r} /\ AmountOf(r) = DueAmount(p, tag)
<1>1. DraftsOK(p) BY DEF EntriesInv
<1>2. PICK u, n : Draft(p, u, n) /\ ledger[u][n].tag = tag BY <1>1 DEF DraftsOK
<1>3. ledger[u][n].amount = DueAmount(p, tag) BY <1>1, <1>2 DEF DraftsOK, DraftOK
<1>4. <<u, n>> \in DraftsOf(p, b, types) BY <1>2 DEF DraftsOf, Draft
<1>5. ASSUME NEW r \in DraftsOf(p, b, types) PROVE r = <<u, n>>
  <2>1. PICK v, m : /\ r = <<v, m>> /\ Draft(p, v, m)
                    /\ ledger[v][m].tag[1] \in types /\ ledger[v][m].tag[2] = b
    BY DEF DraftsOf
  <2>2. ledger[v][m].tag \in Due(p) BY <1>1, <2>1 DEF DraftsOK, DraftOK
  <2>3. ledger[v][m].tag = ledger[u][n].tag BY <1>2, <2>1, <2>2
  <2>4. QED BY <1>1, <1>2, <2>1, <2>3 DEF DraftsOK
<1>6. DraftsOf(p, b, types) = {<<u, n>>} BY <1>4, <1>5
<1>7. AmountOf(<<u, n>>) = DueAmount(p, tag) BY <1>3 DEF AmountOf
<1>8. QED BY <1>6, <1>7

\* A session that holds no wallet and awaits nothing owes nothing.
LEMMA NothingDue ==
  ASSUME EntriesInv, NEW p \in Sessions, call[p] = None, W!Holds(p) = {}
  PROVE  Due(p) = {}
BY DEF EntriesInv, DraftsOK, Draft, W!Holds
-----------------------------------------------------------------------------
\* Steps that leave the bets and the wallets alone.
OtherTasks(p) == \A q \in Sessions \ {p} : task'[q] = task[q]

IsTask(p, t) ==
  t = Idle \/ (t.op \in Duties[p] /\ (PlaceTask(t) \/ CashTask(t) \/ SettleTask(t) \/ MarketTask(t)))

LEMMA RowsStep ==
  ASSUME RowsOK, NEW p \in Sessions, NEW t, Goto(p, t), IsTask(p, t),
         Existing \subseteq Existing',
         bets' \in [Bets -> BetRow \union {None}],
         matchStatus' \in [Matches -> {"scheduled", "finished"}],
         marketStatus' \in [Markets -> {"open", "suspended", "settled"}],
         odds' \in [Selections -> OddsRange]
  PROVE  RowsOK' /\ task'[p] = t /\ OtherTasks(p)
<1>1. DOMAIN task = Sessions /\ task' = [task EXCEPT ![p] = t] BY DEF RowsOK, Goto
<1>2. DOMAIN task' = Sessions /\ task'[p] = t /\ OtherTasks(p) BY <1>1 DEF OtherTasks
<1>3. ASSUME NEW u, CashTask(u) PROVE CashTask(u)' BY <1>3 DEF CashTask
<1>4. ASSUME NEW u, SettleTask(u) PROVE SettleTask(u)'
  <2>1. \A S : S \subseteq Existing => S \subseteq Existing' OBVIOUS
  <2>2. QED BY <1>4, <2>1 DEF SettleTask
<1>5. ASSUME NEW q \in Sessions PROVE TaskOK(q)'
  <2>1. PICK u : u = task'[q] OBVIOUS
  <2>2. IsTask(q, u)
    <3>1. CASE q = p BY <1>2, <2>1, <3>1
    <3>2. CASE q # p
      <4>1. TaskOK(q) /\ u = task[q] BY <1>2, <2>1, <3>2 DEF RowsOK, OtherTasks
      <4>2. QED BY <4>1 DEF TaskOK, IsTask
    <3>3. QED BY <3>1, <3>2
  <2>3. u = Idle \/ (u.op \in Duties[q] /\ (PlaceTask(u) \/ CashTask(u)' \/ SettleTask(u)' \/ MarketTask(u)))
    BY <1>3, <1>4, <2>2 DEF IsTask
  <2>4. PlaceTask(u)' = PlaceTask(u) /\ MarketTask(u)' = MarketTask(u)
    BY DEF PlaceTask, MarketTask
  <2>5. QED BY <2>1, <2>3, <2>4 DEF TaskOK
<1>6. QED BY <1>2, <1>5 DEF RowsOK

LEMMA SameTask ==
  ASSUME NEW q \in Sessions, task'[q] = task[q], bets' = bets
  PROVE  SameDue(q) /\ (SettlesOK(q) => SettlesOK(q)')
<1>1. PICK t : t = task[q] /\ t = task'[q] OBVIOUS
<1>2. Due(q)' = Due(q) BY <1>1 DEF Due, At, Decides
<1>3. \A b : BetSeenBy(t, b)' = BetSeenBy(t, b) BY DEF BetSeenBy, ResultSeenBy
<1>4. ASSUME NEW tag PROVE DueAmount(q, tag)' = DueAmount(q, tag)
  <2>1. PICK b : b = tag[2] OBVIOUS
  <2>2. BetSeenBy(t, b)' = BetSeenBy(t, b) BY <1>3
  <2>3. QED BY <1>1, <2>1, <2>2 DEF DueAmount, Worth, NetPayout, GrossPayout, WithResult
<1>5. ASSUME SettlesOK(q) PROVE SettlesOK(q)'
  <2>1. Existing' = Existing BY DEF Existing
  <2>2. ASSUME NEW b PROVE Verdict(BetSeenBy(t, b), Decides(t, b))' = Verdict(BetSeenBy(t, b), Decides(t, b))
    BY <1>3 DEF Verdict, WithResult, Decides
  <2>3. \A b, m : LegsOn(b, m)' = LegsOn(b, m) BY DEF LegsOn
  <2>4. QED BY <1>1, <1>5, <2>1, <2>2, <2>3 DEF SettlesOK
<1>6. QED BY <1>2, <1>4, <1>5 DEF SameDue

LEMMA SameMoney ==
  ASSUME MoneyInv, RowsStay, bets' = bets
  PROVE  MoneyInv'
<1>1. ASSUME NEW b \in Bets PROVE PaidOK(b)' /\ StakeOK(b)'
  <2>1. PaidOK(b) /\ StakeOK(b) BY DEF MoneyInv
  <2>2. \A types : /\ RowsOf(b, types)' = RowsOf(b, types)
                   /\ \A r \in RowsOf(b, types) : AmountOf(r)' = AmountOf(r)
    BY SameRows
  <2>3. PaidOK(b)'
    <3>1. /\ Worth(bets[b])' = Worth(bets[b])
          /\ WithResult(bets[b], "pending")' = WithResult(bets[b], "pending")
      BY DEF Worth, NetPayout, GrossPayout, WithResult
    <3>2. QED BY <2>1, <2>2, <3>1 DEF PaidOK
  <2>4. StakeOK(b)'
    <3>1. ASSUME NEW r, RowsOf(b, {"bet_stake"}) = {r} PROVE AmountOf(r)' = AmountOf(r)
      BY <2>2, <3>1
    <3>2. QED BY <2>1, <2>2, <3>1 DEF StakeOK
  <2>5. QED BY <2>3, <2>4
<1>2. QED BY <1>1 DEF MoneyInv

LEMMA SameVerdicts ==
  ASSUME \A b \in Existing : Verdict(bets[b], bets[b].status), bets' = bets
  PROVE  (\A b \in Existing : Verdict(bets[b], bets[b].status))'
BY DEF Existing, Verdict, WithResult

\* A request is in the same placement or settlement as before.
LEMMA SameApart ==
  ASSUME Apart, RowsOK, NEW p \in Sessions, NEW t, Goto(p, t), bets' = bets,
         t.op = "placeBet" => task[p].op = "placeBet" /\ t.bet = task[p].bet,
         t.op = "settleMatch" => task[p].op = "settleMatch" /\ t.match = task[p].match
  PROVE  Apart'
<1>1. task'[p] = t /\ \A q \in Sessions : q # p => task'[q] = task[q] BY DEF Goto, RowsOK
<1>2. ASSUME NEW q \in Sessions
      PROVE  /\ task'[q].op = "placeBet" => task[q].op = "placeBet" /\ task'[q].bet = task[q].bet
             /\ \A m : Settling(q, m)' => Settling(q, m)
  BY <1>1 DEF Settling
<1>3. QED BY <1>2 DEF Apart

LEMMA SameCalls ==
  ASSUME RowsOK, CallsInv, NEW p \in Sessions, NEW t, Goto(p, t),
         \A q \in Sessions : q # p => call'[q] = call[q],
         t.op = "settleMatch" /\ t.stage \in {"next", "legs"} => call'[p] = None
  PROVE  CallsInv'
<1>1. task'[p] = t /\ \A q \in Sessions : q # p => task'[q] = task[q] BY DEF Goto, RowsOK
<1>2. QED BY <1>1 DEF CallsInv

LEMMA QuietStep ==
  ASSUME Inv, NEW p \in Sessions, NEW t, Goto(p, t), IsTask(p, t),
         t.op = "settleMatch" /\ t.stage \in {"next", "legs"} => call[p] = None,
         UNCHANGED <<wvars, bets>>,
         matchStatus' \in [Matches -> {"scheduled", "finished"}],
         marketStatus' \in [Markets -> {"open", "suspended", "settled"}],
         odds' \in [Selections -> OddsRange],
         SameDue(p), SettlesOK(p)', Apart'
  PROVE  Inv'
<1>1. bets' = bets /\ Existing' = Existing BY DEF Existing
<1>2. RowsOK' /\ OtherTasks(p) BY <1>1, RowsStep DEF Inv, RowsOK
<1>3. ASSUME NEW q \in Sessions, q # p PROVE SameDue(q) /\ SettlesOK(q)'
  BY <1>1, <1>2, <1>3, SameTask DEF Inv, SettleInv, OtherTasks
<1>4. EntriesInv' /\ RowsStay
  <2>1. \A q \in Sessions : SameDue(q) BY <1>3
  <2>2. UNCHANGED wvars OBVIOUS
  <2>3. QED BY <2>1, <2>2, QuietEntries DEF Inv
<1>5. MoneyInv' BY <1>1, <1>4, SameMoney DEF Inv
<1>6. SettleInv' BY <1>1, <1>3, SameVerdicts DEF SettleInv, Inv
<1>7. CallsInv' BY SameCalls DEF Inv, wvars
<1>8. QED BY <1>2, <1>4, <1>5, <1>6, <1>7 DEF Inv

\* Nothing is due before the wallet is selected.
Undue(t) ==
  /\ t.op = "placeBet" => t.stage # "debit"
  /\ t.op = "cashOut" => t.stage # "mark"
  /\ t.op # "settleMatch"

LEMMA UndueTask ==
  ASSUME NEW p \in Sessions
  PROVE  (Undue(task[p]) => Due(p) = {} /\ SettlesOK(p)) /\ (Undue(task'[p]) => Due(p)' = {} /\ SettlesOK(p)')
BY DEF Undue, Due, At, SettlesOK

LEMMA UndueStep ==
  ASSUME Inv, NEW p \in Sessions, NEW t, Goto(p, t), IsTask(p, t), Undue(t), Undue(task[p]),
         UNCHANGED <<wvars, bets>>,
         matchStatus' \in [Matches -> {"scheduled", "finished"}],
         marketStatus' \in [Markets -> {"open", "suspended", "settled"}],
         odds' \in [Selections -> OddsRange],
         Apart'
  PROVE  Inv'
<1>1. task'[p] = t BY DEF Goto, Inv, RowsOK
<1>2. Due(p) = {} /\ Due(p)' = {} /\ SettlesOK(p)' BY <1>1, UndueTask
<1>3. SameDue(p) BY <1>2 DEF SameDue
<1>4. t.op # "settleMatch" BY DEF Undue
<1>5. QED BY <1>2, <1>3, <1>4, QuietStep
-----------------------------------------------------------------------------
\* The steps that change no row of bets.
LEMMA TaskIs ==
  ASSUME RowsOK, NEW p \in Sessions
  PROVE  /\ task[p].op = "placeBet" => PlaceTask(task[p])
         /\ task[p].op = "cashOut" => CashTask(task[p])
         /\ task[p].op = "settleMatch" => SettleTask(task[p])
         /\ task[p].op = "setMarketStatus" => MarketTask(task[p])
         /\ task[p] # Idle => task[p].op \in Duties[p]
BY DEF RowsOK, TaskOK, Idle, PlaceTask, CashTask, SettleTask, MarketTask

LEMMA NoLegYet ==
  ASSUME NEW S
  PROVE  DOMAIN << >> = {} /\ << >> \in [{} -> S]
OBVIOUS

LEMMA TurnStep ==
  ASSUME Inv, NEW p \in Sessions, NEW t, Goto(p, t), IsTask(p, t), UNCHANGED bvars,
         t.op = "settleMatch" => t.stage = "mark",
         \A q \in Sessions : q # p => call'[q] = call[q],
         EntriesInv', RowsStay, SettlesOK(p)', Apart'
  PROVE  Inv'
<1>1. /\ bets' = bets /\ matchStatus' = matchStatus /\ marketStatus' = marketStatus
      /\ odds' = odds
  BY DEF bvars
<1>2. Existing' = Existing BY <1>1 DEF Existing
<1>3. RowsOK' /\ OtherTasks(p)
  <2>1. RowsOK BY DEF Inv
  <2>2. /\ bets' \in [Bets -> BetRow \union {None}]
        /\ matchStatus' \in [Matches -> {"scheduled", "finished"}]
        /\ marketStatus' \in [Markets -> {"open", "suspended", "settled"}]
        /\ odds' \in [Selections -> OddsRange]
    BY <1>1, <2>1 DEF RowsOK
  <2>3. QED BY <1>2, <2>1, <2>2, RowsStep
<1>4. ASSUME NEW q \in Sessions, q # p PROVE SettlesOK(q)'
  BY <1>1, <1>3, <1>4, SameTask DEF Inv, SettleInv, OtherTasks
<1>5. MoneyInv' BY <1>1, SameMoney DEF Inv
<1>6. SettleInv' BY <1>1, <1>4, SameVerdicts DEF SettleInv, Inv
<1>7. CallsInv' BY SameCalls DEF Inv
<1>8. QED BY <1>3, <1>5, <1>6, <1>7 DEF Inv

LEMMA SelectsAlone ==
  ASSUME W!TypeOK, NEW p, NEW u, NEW amount, NEW tag, W!Select(p, u, amount, tag)
  PROVE  \A q \in Sessions : q # p => call'[q] = call[q]
BY DEF W!TypeOK, W!Select

LEMMA SameTasks ==
  ASSUME Inv, task' = task, bets' = bets, matchStatus' = matchStatus,
         marketStatus' = marketStatus, odds' \in [Selections -> OddsRange],
         EntriesInv', RowsStay, CallsInv'
  PROVE  Inv'
<1>1. Existing' = Existing BY DEF Existing
<1>2. RowsOK'
  <2>1. \A p \in Sessions : TaskOK(p)'
    BY <1>1 DEF Inv, RowsOK, TaskOK, CashTask, SettleTask, PlaceTask, MarketTask
  <2>2. QED BY <2>1 DEF Inv, RowsOK
<1>3. \A q \in Sessions : SettlesOK(q)' BY SameTask DEF Inv, SettleInv
<1>4. Apart' BY DEF Inv, SettleInv, Apart, Settling
<1>5. SettleInv' BY <1>3, <1>4, SameVerdicts DEF SettleInv, Inv
<1>6. MoneyInv' BY SameMoney DEF Inv
<1>7. QED BY <1>2, <1>5, <1>6 DEF Inv

LEMMA KeepsDrift ==
  ASSUME Inv, NEW s \in Selections, DriftOdds(s)
  PROVE  Inv'
<1>1. /\ task' = task /\ bets' = bets /\ matchStatus' = matchStatus
      /\ marketStatus' = marketStatus /\ UNCHANGED wvars
  BY DEF DriftOdds
<1>2. odds' \in [Selections -> OddsRange] BY DEF DriftOdds, Inv, RowsOK
<1>3. \A q \in Sessions : SameDue(q) BY <1>1, SameTask
<1>4. EntriesInv' /\ RowsStay BY <1>1, <1>3, QuietEntries DEF Inv
<1>5. CallsInv' BY <1>1 DEF Inv, CallsInv, wvars
<1>6. QED BY <1>1, <1>2, <1>4, <1>5, SameTasks

LEMMA KeepsLedgerStep ==
  ASSUME Inv, NEW p \in Sessions, LedgerStep(p)
  PROVE  Inv' /\ RowsStay /\ bets' = bets
<1>1. /\ task' = task /\ bets' = bets /\ matchStatus' = matchStatus
      /\ marketStatus' = marketStatus /\ odds' = odds
  BY DEF LedgerStep, bvars
<1>2. \A q \in Sessions : SameDue(q) BY <1>1, SameTask
<1>3. EntriesInv' /\ RowsStay
  <2>1. CASE W!Update(p) BY <1>2, <2>1, UpdateEntries DEF Inv
  <2>2. CASE W!Insert(p) BY <1>2, <2>2, InsertEntries DEF Inv
  <2>3. QED BY <2>1, <2>2 DEF LedgerStep
<1>4. odds' \in [Selections -> OddsRange] BY <1>1 DEF Inv, RowsOK
<1>5. CallsInv'
  <2>1. \A q \in Sessions : call[q] = None => call'[q] = None
    BY DEF Inv, EntriesInv, W!TypeOK, LedgerStep, W!Update, W!Insert
  <2>2. QED BY <1>1, <2>1 DEF Inv, CallsInv
<1>6. Inv' BY <1>1, <1>3, <1>4, <1>5, SameTasks
<1>7. QED BY <1>1, <1>3, <1>6

LEMMA KeepsFail ==
  ASSUME Inv, NEW p \in Sessions, Fail(p)
  PROVE  Inv' /\ RowsStay /\ bets' = bets
<1>1. Goto(p, Idle) /\ UNCHANGED bvars /\ bets' = bets BY DEF Fail, Finish, bvars
<1>2. IsTask(p, Idle) BY DEF IsTask
<1>3. task'[p] = Idle /\ \A q \in Sessions : q # p => task'[q] = task[q]
  BY <1>1 DEF Goto, Inv, RowsOK
<1>4. Due(p)' = {} /\ SettlesOK(p)' BY <1>3 DEF Due, At, SettlesOK, Idle
<1>5. \A q \in Sessions \ {p} : SameDue(q) BY <1>1, <1>3, SameTask
<1>6. EntriesInv' /\ RowsStay
  <2>1. CASE W!Holds(p) = {} /\ call[p] = None
    <3>1. UNCHANGED wvars BY <2>1 DEF Fail
    <3>2. Due(p) = {} BY <2>1, NothingDue DEF Inv
    <3>3. SameDue(p) BY <1>4, <3>2 DEF SameDue
    <3>4. QED BY <1>5, <3>1, <3>3, QuietEntries DEF Inv
  <2>2. CASE ~ (W!Holds(p) = {} /\ call[p] = None)
    <3>1. W!Rollback(p) BY <2>2 DEF Fail
    <3>2. QED BY <1>4, <1>5, <3>1, RollbackEntries DEF Inv
  <2>3. QED BY <2>1, <2>2
<1>7. Apart' BY <1>1, SameApart DEF Inv, SettleInv, Idle
<1>8. \A q \in Sessions : q # p => call'[q] = call[q]
  BY DEF Fail, W!Rollback, wvars, Inv, EntriesInv, W!TypeOK
<1>9. Inv' BY <1>1, <1>2, <1>4, <1>6, <1>7, <1>8, TurnStep DEF Idle
<1>10. QED BY <1>1, <1>6, <1>9

-----------------------------------------------------------------------------
\* placeBet up to its commit, and setMarketStatus.
LEMMA KeepsPlaceBet ==
  ASSUME Inv, NEW p \in Sessions, NEW b \in Bets, NEW u \in Users, NEW stake \in Stakes,
         NEW slip \in Slips, PlaceBet(p, b, u, stake, slip)
  PROVE  Inv'
<1>1. PICK t : t = [op |-> "placeBet", stage |-> "validate", bet |-> b, user |-> u,
                    stake |-> stake, slip |-> slip, locked |-> << >>]
  OBVIOUS
<1>2. /\ Goto(p, t) /\ task[p] = Idle /\ "placeBet" \in Duties[p] /\ UNCHANGED <<wvars, bvars>>
      /\ b \notin Existing
      /\ \A q \in Sessions : task[q].op = "placeBet" => b # task[q].bet
  BY <1>1 DEF PlaceBet, Starts
<1>3. PlaceTask(t) BY <1>1, NoLegYet DEF PlaceTask
<1>4. IsTask(p, t) /\ Undue(t) /\ Undue(task[p]) BY <1>1, <1>2, <1>3 DEF IsTask, Undue, Idle
<1>5. /\ bets' = bets /\ matchStatus' = matchStatus /\ marketStatus' = marketStatus
      /\ odds' = odds /\ UNCHANGED <<wvars, bets>>
  BY <1>2 DEF bvars
<1>6. task'[p] = t /\ \A q \in Sessions : q # p => task'[q] = task[q]
  BY <1>2 DEF Goto, Inv, RowsOK
<1>7. Apart'
  <2>1. Apart BY DEF Inv, SettleInv
  <2>2. \A q \in Sessions : \A m : Settling(q, m)' => Settling(q, m)
    BY <1>1, <1>6 DEF Settling
  <2>3. bets'[b] = None BY <1>2, <1>5 DEF Existing
  <2>4. \A q \in Sessions : task'[q].op = "placeBet" =>
          /\ bets'[task'[q].bet] = None
          /\ q # p => task[q].op = "placeBet" /\ task'[q].bet = task[q].bet
          /\ q = p => task'[q].bet = b
    BY <1>1, <1>5, <1>6, <2>1, <2>3 DEF Apart
  <2>5. QED BY <1>2, <2>1, <2>2, <2>4 DEF Apart
<1>8. QED BY <1>2, <1>4, <1>5, <1>7, UndueStep DEF Inv, RowsOK

LEMMA KeepsValidateLeg ==
  ASSUME Inv, NEW p \in Sessions, NEW s \in Selections, ValidateLeg(p, s)
  PROVE  Inv'
<1>1. PICK u : u = task[p] OBVIOUS
<1>2. /\ u.op = "placeBet" /\ u.stage = "validate" /\ s \in u.slip \ DOMAIN u.locked
      /\ Goto(p, [u EXCEPT !.locked =
                    [l \in DOMAIN u.locked \union {s} |-> IF l = s THEN odds[s] ELSE u.locked[l]]])
      /\ UNCHANGED <<wvars, bvars>>
  BY <1>1 DEF ValidateLeg, At
<1>3. PlaceTask(u) BY <1>1, <1>2, TaskIs DEF Inv
<1>4. PICK locked : locked = [l \in DOMAIN u.locked \union {s} |->
                                IF l = s THEN odds[s] ELSE u.locked[l]]
  OBVIOUS
<1>5. locked \in [DOMAIN u.locked \union {s} -> OddsRange]
  BY <1>3, <1>4 DEF PlaceTask, Inv, RowsOK
<1>6. PICK t : t = [u EXCEPT !.locked = locked] OBVIOUS
<1>7. t = [op |-> "placeBet", stage |-> "validate", bet |-> u.bet, user |-> u.user,
           stake |-> u.stake, slip |-> u.slip, locked |-> locked]
  BY <1>2, <1>3, <1>6 DEF PlaceTask
<1>8. PlaceTask(t) BY <1>2, <1>3, <1>5, <1>7 DEF PlaceTask
<1>9. u.op \in Duties[p] BY <1>1, <1>2, TaskIs DEF Inv, Idle
<1>10. Goto(p, t) /\ IsTask(p, t) /\ Undue(t) /\ Undue(task[p])
  BY <1>1, <1>2, <1>4, <1>6, <1>7, <1>8, <1>9 DEF IsTask, Undue
<1>11. /\ bets' = bets /\ matchStatus' = matchStatus /\ marketStatus' = marketStatus
       /\ odds' = odds /\ UNCHANGED <<wvars, bets>>
  BY <1>2 DEF bvars
<1>12. Apart' BY <1>1, <1>2, <1>7, <1>10, <1>11, SameApart DEF Inv, SettleInv
<1>13. QED BY <1>10, <1>11, <1>12, UndueStep DEF Inv, RowsOK

LEMMA KeepsDebitStake ==
  ASSUME Inv, NEW p \in Sessions, DebitStake(p)
  PROVE  Inv'
<1>1. PICK u : u = task[p] OBVIOUS
<1>2. PICK t : t = [u EXCEPT !.stage = "debit"] OBVIOUS
<1>3. PICK amount, tag : amount = 0 - u.stake /\ tag = <<"bet_stake", u.bet>> OBVIOUS
<1>4. /\ u.op = "placeBet" /\ u.stage = "validate" /\ DOMAIN u.locked = u.slip
      /\ W!Select(p, u.user, amount, tag) /\ Goto(p, t) /\ UNCHANGED bvars
  BY <1>1, <1>2, <1>3 DEF DebitStake, At
<1>5. PlaceTask(u) BY <1>1, <1>4, TaskIs DEF Inv
<1>6. t = [op |-> "placeBet", stage |-> "debit", bet |-> u.bet, user |-> u.user,
           stake |-> u.stake, slip |-> u.slip, locked |-> u.locked]
  BY <1>2, <1>4, <1>5 DEF PlaceTask
<1>7. PlaceTask(t) BY <1>4, <1>5, <1>6 DEF PlaceTask
<1>8. IsTask(p, t) BY <1>1, <1>4, <1>6, <1>7, TaskIs DEF IsTask, Inv, Idle
<1>9. task'[p] = t /\ bets' = bets /\ \A q \in Sessions : q # p => task'[q] = task[q]
  BY <1>4 DEF Goto, Inv, RowsOK, bvars
<1>10. Due(p) = {} /\ Due(p)' = {tag} /\ DueAmount(p, tag)' = amount
  BY <1>1, <1>3, <1>4, <1>6, <1>9 DEF Due, At, DueAmount
<1>11. \A q \in Sessions \ {p} : SameDue(q) BY <1>9, SameTask
<1>12. amount \in Int /\ tag \in Tags /\ u.user \in Users
  BY <1>3, <1>5, DataAssumption DEF PlaceTask, Tags
<1>13. EntriesInv' /\ RowsStay
  BY <1>4, <1>10, <1>11, <1>12, SelectEntries DEF Inv
<1>14. SettlesOK(p)' BY <1>6, <1>9 DEF SettlesOK
<1>15. Apart' BY <1>1, <1>4, <1>6, <1>9, SameApart DEF Inv, SettleInv
<1>16. \A q \in Sessions : q # p => call'[q] = call[q]
  BY <1>4, SelectsAlone DEF Inv, EntriesInv
<1>17. QED BY <1>4, <1>6, <1>8, <1>13, <1>14, <1>15, <1>16, TurnStep

LEMMA KeepsSetMarketStatus ==
  ASSUME Inv, NEW p \in Sessions, NEW k \in Markets, NEW status \in {"open", "suspended"},
         SetMarketStatus(p, k, status)
  PROVE  Inv'
<1>1. PICK t : t = [op |-> "setMarketStatus", stage |-> "write", market |-> k, status |-> status]
  OBVIOUS
<1>2. /\ Goto(p, t) /\ task[p] = Idle /\ "setMarketStatus" \in Duties[p]
      /\ UNCHANGED <<wvars, bvars>>
  BY <1>1 DEF SetMarketStatus, Starts
<1>3. MarketTask(t) BY <1>1 DEF MarketTask
<1>4. IsTask(p, t) /\ Undue(t) /\ Undue(task[p]) BY <1>1, <1>2, <1>3 DEF IsTask, Undue, Idle
<1>5. /\ bets' = bets /\ matchStatus' = matchStatus /\ marketStatus' = marketStatus
      /\ odds' = odds /\ UNCHANGED <<wvars, bets>>
  BY <1>2 DEF bvars
<1>6. Apart' BY <1>1, <1>2, <1>5, SameApart DEF Inv, SettleInv
<1>7. QED BY <1>2, <1>4, <1>5, <1>6, UndueStep DEF Inv, RowsOK

LEMMA KeepsWriteMarketStatus ==
  ASSUME Inv, NEW p \in Sessions, WriteMarketStatus(p)
  PROVE  Inv'
<1>1. PICK u : u = task[p] OBVIOUS
<1>2. /\ u.op = "setMarketStatus" /\ Goto(p, Idle)
      /\ marketStatus' = [marketStatus EXCEPT ![u.market] = u.status]
      /\ UNCHANGED <<wvars, bets, matchStatus, odds>>
  BY <1>1 DEF WriteMarketStatus, At, Finish
<1>3. MarketTask(u) BY <1>1, <1>2, TaskIs DEF Inv
<1>4. marketStatus' \in [Markets -> {"open", "suspended", "settled"}]
  BY <1>2, <1>3 DEF MarketTask, Inv, RowsOK
<1>5. IsTask(p, Idle) /\ Undue(Idle) /\ Undue(task[p])
  BY <1>1, <1>2 DEF IsTask, Undue, Idle
<1>6. Apart' BY <1>2, SameApart DEF Inv, SettleInv, Idle
<1>7. UNCHANGED <<wvars, bets>> /\ matchStatus' = matchStatus /\ odds' = odds BY <1>2
<1>8. QED BY <1>2, <1>4, <1>5, <1>6, <1>7, UndueStep DEF Inv, RowsOK

-----------------------------------------------------------------------------
\* cashOut up to its commit.
LEMMA KeepsCashOut ==
  ASSUME Inv, NEW p \in Sessions, NEW b \in Bets, CashOut(p, b)
  PROVE  Inv'
<1>1. PICK t : t = [op |-> "cashOut", stage |-> "quote", bet |-> b] OBVIOUS
<1>2. /\ Goto(p, t) /\ task[p] = Idle /\ "cashOut" \in Duties[p] /\ b \in Existing
      /\ UNCHANGED <<wvars, bvars>>
  BY <1>1 DEF CashOut, Starts
<1>3. CashTask(t) BY <1>1, <1>2 DEF CashTask
<1>4. IsTask(p, t) /\ Undue(t) /\ Undue(task[p]) BY <1>1, <1>2, <1>3 DEF IsTask, Undue, Idle
<1>5. /\ bets' = bets /\ matchStatus' = matchStatus /\ marketStatus' = marketStatus
      /\ odds' = odds /\ UNCHANGED <<wvars, bets>>
  BY <1>2 DEF bvars
<1>6. Apart' BY <1>1, <1>2, <1>5, SameApart DEF Inv, SettleInv
<1>7. QED BY <1>2, <1>4, <1>5, <1>6, UndueStep DEF Inv, RowsOK

LEMMA KeepsQuoteCashOut ==
  ASSUME Inv, NEW p \in Sessions, QuoteCashOut(p)
  PROVE  Inv'
<1>1. PICK u : u = task[p] OBVIOUS
<1>2. PICK value : value = CashOutValue(bets[u.bet], odds) OBVIOUS
<1>3. PICK t : t = [op |-> "cashOut", stage |-> "credit", bet |-> u.bet, value |-> value] OBVIOUS
<1>4. u.op = "cashOut" /\ u.stage = "quote" /\ Goto(p, t) /\ UNCHANGED <<wvars, bvars>>
  BY <1>1, <1>2, <1>3 DEF QuoteCashOut, At
<1>5. u.bet \in Existing BY <1>1, <1>4, TaskIs DEF Inv, CashTask
<1>6. value \in Int
  <2>1. bets[u.bet] \in BetRow BY <1>5 DEF Existing, Inv, RowsOK
  <2>2. odds \in [Selections -> OddsRange] BY DEF Inv, RowsOK
  <2>3. QED BY <1>2, <2>1, <2>2, OfferIsInt
<1>7. CashTask(t) BY <1>3, <1>5, <1>6 DEF CashTask
<1>8. u.op \in Duties[p] BY <1>1, <1>4, TaskIs DEF Inv, Idle
<1>9. IsTask(p, t) /\ Undue(t) /\ Undue(task[p])
  BY <1>1, <1>3, <1>4, <1>7, <1>8 DEF IsTask, Undue
<1>10. /\ bets' = bets /\ matchStatus' = matchStatus /\ marketStatus' = marketStatus
       /\ odds' = odds /\ UNCHANGED <<wvars, bets>>
  BY <1>4 DEF bvars
<1>11. Apart' BY <1>3, <1>4, <1>10, SameApart DEF Inv, SettleInv
<1>12. QED BY <1>4, <1>9, <1>10, <1>11, UndueStep DEF Inv, RowsOK

LEMMA KeepsCreditCashOut ==
  ASSUME Inv, NEW p \in Sessions, CreditCashOut(p)
  PROVE  Inv'
<1>1. PICK u : u = task[p] OBVIOUS
<1>2. PICK t : t = [u EXCEPT !.stage = "mark"] OBVIOUS
<1>3. PICK user, tag : user = bets[u.bet].user /\ tag = <<"cashout", u.bet>> OBVIOUS
<1>4. /\ u.op = "cashOut" /\ u.stage = "credit"
      /\ W!Select(p, user, u.value, tag) /\ Goto(p, t) /\ UNCHANGED bvars
  BY <1>1, <1>2, <1>3 DEF CreditCashOut, At
<1>5. /\ u = [op |-> "cashOut", stage |-> "credit", bet |-> u.bet, value |-> u.value]
      /\ u.bet \in Existing /\ u.value \in Int
  BY <1>1, <1>4, TaskIs DEF Inv, CashTask
<1>6. t = [op |-> "cashOut", stage |-> "mark", bet |-> u.bet, value |-> u.value]
  BY <1>2, <1>5
<1>7. CashTask(t) BY <1>5, <1>6 DEF CashTask
<1>8. IsTask(p, t) BY <1>1, <1>4, <1>6, <1>7, TaskIs DEF IsTask, Inv, Idle
<1>9. task'[p] = t /\ bets' = bets /\ \A q \in Sessions : q # p => task'[q] = task[q]
  BY <1>4 DEF Goto, Inv, RowsOK, bvars
<1>10. Due(p) = {} /\ Due(p)' = {tag} /\ DueAmount(p, tag)' = u.value
  BY <1>1, <1>3, <1>4, <1>6, <1>9 DEF Due, At, DueAmount
<1>11. \A q \in Sessions \ {p} : SameDue(q) BY <1>9, SameTask
<1>12. u.value \in Int /\ tag \in Tags /\ user \in Users
  <2>1. bets[u.bet] \in BetRow /\ u.bet \in Bets BY <1>5 DEF Existing, Inv, RowsOK
  <2>2. QED BY <1>3, <1>5, <2>1, BetFacts DEF Tags
<1>13. EntriesInv' /\ RowsStay
  BY <1>4, <1>10, <1>11, <1>12, SelectEntries DEF Inv
<1>14. SettlesOK(p)' BY <1>6, <1>9 DEF SettlesOK
<1>15. Apart' BY <1>1, <1>4, <1>6, <1>9, SameApart DEF Inv, SettleInv
<1>16. \A q \in Sessions : q # p => call'[q] = call[q]
  BY <1>4, SelectsAlone DEF Inv, EntriesInv
<1>17. QED BY <1>4, <1>6, <1>8, <1>13, <1>14, <1>15, <1>16, TurnStep
-----------------------------------------------------------------------------
\* settleMatch up to its commit.
LEMMA DueOfSettlement ==
  ASSUME NEW p \in Sessions, task[p].op = "settleMatch"
  PROVE  \A tag : tag \in Due(p) <=>
           /\ tag \in Tags
           /\ \/ tag[1] = "refund" /\ Decides(task[p], tag[2]) = "void"
              \/ tag[1] = "bet_payout" /\ Decides(task[p], tag[2]) = "won"
BY DEF Due, At

\* What a settlement does to its task: bet by bet, it decides more.
LEMMA SettleTurn ==
  ASSUME RowsOK, NEW p \in Sessions, NEW u, u = task[p], NEW t, Goto(p, t), bets' = bets,
         u.op = "settleMatch", t.op = "settleMatch", t.match = u.match, t.score = u.score,
         t.decided = u.decided, SettlesOK(p),
         \A b \in Existing : Decides(t, b) \notin {"nothing", Decides(u, b)} =>
           Verdict(BetSeenBy(u, b), Decides(t, b))
  PROVE  /\ SettlesOK(p)'
         /\ \A tag : tag[1] \in {"refund", "bet_payout"} => DueAmount(p, tag)' = DueAmount(p, tag)
<1>1. task'[p] = t BY DEF Goto, RowsOK
<1>2. Existing' = Existing /\ \A b, m : LegsOn(b, m)' = LegsOn(b, m) BY DEF Existing, LegsOn
<1>3. ASSUME NEW b PROVE BetSeenBy(t, b)' = BetSeenBy(u, b)
  BY DEF BetSeenBy, ResultSeenBy
<1>4. \A b : Decides(t, b)' = Decides(t, b) BY DEF Decides
<1>5. SettlesOK(p)'
  <2>1. \A b \in t.decided : \A s \in LegsOn(b, t.match) : bets[b].result[s] = "pending"
    BY DEF SettlesOK
  <2>2. ASSUME NEW b \in Existing, Decides(t, b) # "nothing"
        PROVE  Verdict(BetSeenBy(u, b), Decides(t, b))
    BY <2>2 DEF SettlesOK
  <2>3. ASSUME NEW b \in Existing, Decides(t, b) # "nothing"
        PROVE  Verdict(BetSeenBy(t, b)', Decides(t, b)')
    <3>1. PICK bet, status : bet = BetSeenBy(u, b) /\ status = Decides(t, b) OBVIOUS
    <3>2. Verdict(bet, status) BY <2>2, <2>3, <3>1
    <3>3. bet = BetSeenBy(t, b)' /\ status = Decides(t, b)' BY <1>3, <1>4, <3>1
    <3>4. QED BY <3>2, <3>3
  <2>4. ASSUME NEW b PROVE Verdict(BetSeenBy(t, b), Decides(t, b))' <=> Verdict(BetSeenBy(t, b)', Decides(t, b)')
    BY DEF Verdict, WithResult
  <2>5. QED BY <1>1, <1>2, <1>4, <2>1, <2>3, <2>4 DEF SettlesOK
<1>6. ASSUME NEW tag, tag[1] \in {"refund", "bet_payout"}
      PROVE  DueAmount(p, tag)' = DueAmount(p, tag)
  <2>1. PICK b : b = tag[2] OBVIOUS
  <2>2. BetSeenBy(t, b)' = BetSeenBy(u, b) BY <1>3
  <2>3. CASE tag[1] = "refund" BY <2>3 DEF DueAmount
  <2>4. CASE tag[1] = "bet_payout"
    <3>1. Worth(BetSeenBy(t, b))' = Worth(BetSeenBy(u, b))
      BY <2>2 DEF Worth, NetPayout, GrossPayout, WithResult
    <3>2. QED BY <1>1, <2>1, <2>4, <3>1 DEF DueAmount
  <2>5. QED BY <1>6, <2>3, <2>4
<1>7. QED BY <1>5, <1>6

\* The settlement reads, or marks a bet without a payment.
LEMMA SettleQuietly ==
  ASSUME Inv, NEW p \in Sessions, NEW u, u = task[p], NEW t, Goto(p, t), SettleTask(t),
         UNCHANGED <<wvars, bvars>>,
         u.op = "settleMatch", t.match = u.match, t.score = u.score, t.decided = u.decided,
         t.stage \in {"next", "legs"} => call[p] = None,
         \A b \in Bets : Decides(t, b) # Decides(u, b) =>
           /\ Decides(u, b) = "nothing"
           /\ Decides(t, b) = "lost"
           /\ b \in Existing => Verdict(BetSeenBy(u, b), "lost")
  PROVE  Inv'
<1>1. t.op = "settleMatch" BY DEF SettleTask
<1>2. /\ bets' = bets /\ matchStatus' = matchStatus /\ marketStatus' = marketStatus
      /\ odds' = odds /\ UNCHANGED <<wvars, bets>>
  BY DEF bvars
<1>3. task'[p] = t BY DEF Goto, Inv, RowsOK
<1>4. \A b \in Existing : b \in Bets BY DEF Existing
<1>5. /\ SettlesOK(p)'
      /\ \A tag : tag[1] \in {"refund", "bet_payout"} => DueAmount(p, tag)' = DueAmount(p, tag)
  BY <1>1, <1>2, <1>4, SettleTurn DEF Inv, SettleInv
<1>6. \A b : Decides(t, b)' = Decides(t, b) BY DEF Decides
<1>7. ASSUME NEW tag PROVE tag \in Due(p)' <=> tag \in Due(p)
  <2>1. tag \in Tags => tag[2] \in Bets BY DEF Tags
  <2>2. tag \in Due(p) <=>
           /\ tag \in Tags
           /\ \/ tag[1] = "refund" /\ Decides(u, tag[2]) = "void"
              \/ tag[1] = "bet_payout" /\ Decides(u, tag[2]) = "won"
    BY DueOfSettlement
  <2>3. tag \in Due(p)' <=>
           /\ tag \in Tags
           /\ \/ tag[1] = "refund" /\ Decides(t, tag[2]) = "void"
              \/ tag[1] = "bet_payout" /\ Decides(t, tag[2]) = "won"
    BY <1>1, <1>3, <1>6 DEF Due, At
  <2>4. QED BY <2>1, <2>2, <2>3
<1>8. SameDue(p)
  <2>1. Due(p)' = Due(p)
    <3>1. Due(p) \subseteq Tags BY DueOfSettlement
    <3>2. PICK D, E : D = Due(p) /\ E = Due(p)' OBVIOUS
    <3>3. Due(p)' \subseteq Tags BY <1>1, <1>3 DEF Due, At
    <3>4. \A tag : tag \in E <=> tag \in D BY <1>7, <3>2
    <3>5. D \subseteq Tags /\ E \subseteq Tags BY <3>1, <3>2, <3>3
    <3>6. D = E BY <3>4, <3>5
    <3>7. QED BY <3>2, <3>6
  <2>2. \A tag \in Due(p) : tag[1] \in {"refund", "bet_payout"} BY DueOfSettlement
  <2>3. QED BY <1>5, <2>1, <2>2 DEF SameDue
<1>9. Apart' BY <1>1, <1>2, SameApart DEF Inv, SettleInv
<1>10. IsTask(p, t) BY <1>1, TaskIs DEF IsTask, Inv, Idle
<1>11. QED BY <1>2, <1>5, <1>8, <1>9, <1>10, QuietStep DEF Inv, RowsOK

\* The settlement begins to pay for the bet it has read.
LEMMA SettlePays ==
  ASSUME Inv, NEW p \in Sessions, NEW u, u = task[p], At(p, "settleMatch", "legs"),
         NEW status, NEW type, NEW amount \in Int, NEW user, NEW b, b = u.bet, user = bets[b].user,
         (status = "void" /\ type = "refund") \/ (status = "won" /\ type = "bet_payout"),
         W!Select(p, user, amount, <<type, b>>),
         Goto(p, Marking(u, status)), UNCHANGED bvars,
         Verdict(BetSeenBy(u, b), status),
         DueAmount(p, <<type, b>>) = amount
  PROVE  Inv'
<1>1. PICK t : t = Marking(u, status) OBVIOUS
<1>2. PICK tag : tag = <<type, b>> OBVIOUS
<1>3. u.op = "settleMatch" /\ u.stage = "legs" /\ Goto(p, t) BY <1>1 DEF At
<1>4. SettleTask(u) BY <1>3, TaskIs DEF Inv
<1>5. t = [op |-> "settleMatch", stage |-> "mark", match |-> u.match, score |-> u.score,
           decided |-> u.decided, todo |-> u.todo, marked |-> u.marked, bet |-> b,
           status |-> status]
  BY <1>1 DEF Marking
<1>6. SettleTask(t) /\ b \in Existing /\ b \notin DOMAIN u.marked
  BY <1>3, <1>4, <1>5 DEF SettleTask, Marks
<1>7. IsTask(p, t) BY <1>3, <1>5, <1>6, TaskIs DEF IsTask, Inv, Idle
<1>8. task'[p] = t /\ bets' = bets /\ \A q \in Sessions : q # p => task'[q] = task[q]
  BY <1>3 DEF Goto, Inv, RowsOK, bvars
<1>9. \A c : Decides(t, c) = IF c = b THEN status ELSE Decides(u, c)
  BY <1>3, <1>5, <1>6 DEF Decides
<1>10. Decides(u, b) = "nothing" BY <1>3, <1>6 DEF Decides
<1>11. /\ SettlesOK(p)'
       /\ \A x : x[1] \in {"refund", "bet_payout"} => DueAmount(p, x)' = DueAmount(p, x)
  BY <1>3, <1>5, <1>8, <1>9, SettleTurn DEF Inv, SettleInv
<1>12. tag \in Tags /\ user \in Users
  <2>1. b \in Bets /\ bets[b] \in BetRow BY <1>6 DEF Existing, Inv, RowsOK
  <2>2. QED BY <1>2, <2>1, BetFacts DEF Tags
<1>13. tag[1] = type /\ tag[2] = b BY <1>2
<1>14. tag \notin Due(p) BY <1>3, <1>10, <1>13, DueOfSettlement
<1>15. ASSUME NEW x \in Tags PROVE x \in Due(p)' <=> x \in Due(p) \/ x = tag
  <2>1. x \in Due(p) <=> \/ x[1] = "refund" /\ Decides(u, x[2]) = "void"
                         \/ x[1] = "bet_payout" /\ Decides(u, x[2]) = "won"
    BY <1>3, DueOfSettlement
  <2>2. \A c : Decides(t, c)' = Decides(t, c) BY DEF Decides
  <2>3. x \in Due(p)' <=> \/ x[1] = "refund" /\ Decides(t, x[2]) = "void"
                          \/ x[1] = "bet_payout" /\ Decides(t, x[2]) = "won"
    BY <1>5, <1>8, <2>2 DEF Due, At
  <2>4. CASE x[2] = b
    <3>1. x = <<x[1], x[2]>> BY DEF Tags
    <3>2. x = tag <=> x[1] = type BY <1>2, <2>4, <3>1
    <3>3. QED BY <1>9, <1>10, <2>1, <2>3, <2>4, <3>2
  <2>5. CASE x[2] # b BY <1>9, <1>13, <2>1, <2>3, <2>5
  <2>6. QED BY <2>4, <2>5
<1>16. Due(p)' = Due(p) \union {tag}
  <2>1. Due(p) \subseteq Tags BY <1>3, DueOfSettlement
  <2>2. Due(p)' \subseteq Tags BY <1>5, <1>8 DEF Due, At
  <2>3. PICK D, E : D = Due(p) /\ E = Due(p)' OBVIOUS
  <2>4. \A x \in Tags : x \in E <=> x \in D \/ x = tag BY <1>15, <2>3
  <2>5. D \subseteq Tags /\ E \subseteq Tags BY <2>1, <2>2, <2>3
  <2>6. E = D \union {tag} BY <1>12, <2>4, <2>5
  <2>7. QED BY <2>3, <2>6
<1>17. DueAmount(p, tag)' = amount BY <1>2, <1>11, <1>13
<1>18. \A x \in Due(p) : DueAmount(p, x)' = DueAmount(p, x)
  BY <1>3, <1>11, DueOfSettlement
<1>19. \A q \in Sessions \ {p} : SameDue(q) BY <1>8, SameTask
<1>20. W!Select(p, user, amount, tag) BY <1>2
<1>21. EntriesInv' /\ RowsStay
  BY <1>12, <1>14, <1>16, <1>17, <1>18, <1>19, <1>20, SelectEntries DEF Inv
<1>22. Apart' BY <1>3, <1>5, <1>8, SameApart DEF Inv, SettleInv
<1>23. \A q \in Sessions : q # p => call'[q] = call[q]
  BY <1>20, SelectsAlone DEF Inv, EntriesInv
<1>24. QED BY <1>3, <1>5, <1>7, <1>11, <1>21, <1>22, <1>23, TurnStep

\* A leg on a match is the only one of its bet.
LEMMA OneLegPerMatch ==
  ASSUME NEW b, bets[b] \in BetRow, NEW m
  PROVE  \A s, r \in LegsOn(b, m) : s = r
<1>1. DOMAIN bets[b].locked \in Slips BY BetFacts
<1>2. QED BY <1>1, SlipsAssumption DEF LegsOn

LEMMA KeepsSettleMatch ==
  ASSUME Inv, NEW p \in Sessions, NEW m \in Matches, NEW score \in Scores,
         SettleMatch(p, m, score)
  PROVE  Inv'
<1>1. PICK decided, todo : decided = DecidedLegs(m) /\ todo = EveryBetOn(m) OBVIOUS
<1>2. PICK t : t = [op |-> "settleMatch", stage |-> "next", match |-> m, score |-> score,
                    decided |-> decided, todo |-> todo, marked |-> << >>]
  OBVIOUS
<1>3. /\ Goto(p, t) /\ task[p] = Idle /\ "settleMatch" \in Duties[p]
      /\ UNCHANGED <<wvars, bvars>> /\ \A q \in Sessions : ~ Settling(q, m)
  BY <1>1, <1>2 DEF SettleMatch, Starts
<1>4. decided \subseteq Existing /\ todo \subseteq Existing
  BY <1>1 DEF DecidedLegs, PendingOn, EveryBetOn
<1>5. SettleTask(t)
  <2>1. t.marked \in [DOMAIN t.marked -> Marks] /\ DOMAIN t.marked = {} BY <1>2, NoLegYet
  <2>2. QED BY <1>2, <1>4, <2>1 DEF SettleTask
<1>6. IsTask(p, t) BY <1>2, <1>3, <1>5 DEF IsTask
<1>7. /\ bets' = bets /\ matchStatus' = matchStatus /\ marketStatus' = marketStatus
      /\ odds' = odds /\ UNCHANGED <<wvars, bets>>
  BY <1>3 DEF bvars
<1>8. task'[p] = t /\ \A q \in Sessions : q # p => task'[q] = task[q]
  BY <1>3 DEF Goto, Inv, RowsOK
<1>9. \A b : Decides(t, b) = "nothing" /\ Decides(t, b)' = "nothing"
  BY <1>2, NoLegYet DEF Decides
<1>10. Due(p) = {} BY <1>3 DEF Due, At, Idle
<1>11. Due(p)' = {} BY <1>2, <1>8, <1>9 DEF Due, At
<1>12. SameDue(p) /\ call[p] = None BY <1>10, <1>11 DEF SameDue, Inv, EntriesInv, CallOK
<1>13. ASSUME NEW b \in decided, NEW s \in LegsOn(b, m) PROVE bets[b].result[s] = "pending"
  <2>1. bets[b] \in BetRow BY <1>4 DEF Existing, Inv, RowsOK
  <2>2. PICK r \in LegsOn(b, m) : bets[b].result[r] = "pending"
    BY <1>1 DEF DecidedLegs, PendingOn
  <2>3. r = s BY <2>1, <2>2, OneLegPerMatch
  <2>4. QED BY <2>2, <2>3
<1>14. SettlesOK(p)'
  <2>1. \A b, k : LegsOn(b, k)' = LegsOn(b, k) BY <1>7 DEF LegsOn
  <2>2. QED BY <1>2, <1>7, <1>8, <1>9, <1>13, <2>1 DEF SettlesOK
<1>15. Apart'
  <2>1. Apart BY DEF Inv, SettleInv
  <2>2. \A q \in Sessions : \A k :
          Settling(q, k)' <=> IF q = p THEN k = m ELSE Settling(q, k)
    BY <1>2, <1>8 DEF Settling
  <2>3. \A q \in Sessions : task'[q].op = "placeBet" => task[q].op = "placeBet" /\ task'[q].bet = task[q].bet
    BY <1>2, <1>8
  <2>4. \A q, r \in Sessions : q # r => \A k \in Matches : ~ (Settling(q, k)' /\ Settling(r, k)')
    BY <1>3, <2>1, <2>2 DEF Apart
  <2>5. \A q, r \in Sessions : q # r /\ task'[q].op = "placeBet" /\ task'[r].op = "placeBet"
          => task'[q].bet # task'[r].bet
    BY <2>1, <2>3 DEF Apart
  <2>6. \A q \in Sessions : task'[q].op = "placeBet" => bets'[task'[q].bet] = None
    BY <1>7, <2>1, <2>3 DEF Apart
  <2>7. QED BY <2>4, <2>5, <2>6 DEF Apart
<1>16. QED BY <1>3, <1>6, <1>7, <1>12, <1>14, <1>15, QuietStep DEF Inv, RowsOK

LEMMA KeepsLoadBet ==
  ASSUME Inv, NEW p \in Sessions, NEW b \in Bets, LoadBet(p, b)
  PROVE  Inv'
<1>1. PICK u : u = task[p] OBVIOUS
<1>2. /\ u.op = "settleMatch" /\ u.stage = "next" /\ b \in u.todo /\ UNCHANGED <<wvars, bvars>>
  BY <1>1 DEF LoadBet, At
<1>3. SettleTask(u) BY <1>1, <1>2, TaskIs DEF Inv
<1>4. u = [op |-> "settleMatch", stage |-> "next", match |-> u.match, score |-> u.score,
           decided |-> u.decided, todo |-> u.todo, marked |-> u.marked]
  BY <1>2, <1>3 DEF SettleTask
<1>5. CASE IsOpen(b)
  <2>1. PICK t : t = [op |-> "settleMatch", stage |-> "legs", match |-> u.match,
                      score |-> u.score, decided |-> u.decided, todo |-> u.todo \ {b},
                      marked |-> u.marked, bet |-> b]
    OBVIOUS
  <2>2. Goto(p, t) BY <1>1, <1>5, <2>1 DEF LoadBet
  <2>3. SettleTask(t) BY <1>2, <1>3, <2>1 DEF SettleTask
  <2>4. \A c : Decides(t, c) = Decides(u, c) BY <1>2, <2>1 DEF Decides
  <2>5. t.match = u.match /\ t.score = u.score /\ t.decided = u.decided BY <2>1
  <2>6. QED BY <1>1, <1>2, <2>2, <2>3, <2>4, <2>5, SettleQuietly DEF Inv, CallsInv
<1>6. CASE ~ IsOpen(b)
  <2>1. PICK t : t = [u EXCEPT !.todo = @ \ {b}] OBVIOUS
  <2>2. Goto(p, t) BY <1>1, <1>6, <2>1 DEF LoadBet
  <2>3. t = [op |-> "settleMatch", stage |-> "next", match |-> u.match,
             score |-> u.score, decided |-> u.decided, todo |-> u.todo \ {b},
             marked |-> u.marked]
    BY <1>4, <2>1
  <2>4. SettleTask(t) BY <1>2, <1>3, <2>3 DEF SettleTask
  <2>5. \A c : Decides(t, c) = Decides(u, c) BY <1>2, <2>3 DEF Decides
  <2>6. t.match = u.match /\ t.score = u.score /\ t.decided = u.decided BY <2>3
  <2>7. QED BY <1>1, <1>2, <2>2, <2>4, <2>5, <2>6, SettleQuietly DEF Inv, CallsInv
<1>7. QED BY <1>5, <1>6

LEMMA KeepsLegsPending ==
  ASSUME Inv, NEW p \in Sessions, LegsPending(p)
  PROVE  Inv'
<1>1. PICK u : u = task[p] OBVIOUS
<1>2. PICK t : t = NextBet(u, u.marked) OBVIOUS
<1>3. u.op = "settleMatch" /\ u.stage = "legs" /\ Goto(p, t) /\ UNCHANGED <<wvars, bvars>>
  BY <1>1, <1>2 DEF LegsPending, At
<1>4. SettleTask(u) BY <1>1, <1>3, TaskIs DEF Inv
<1>5. t = [op |-> "settleMatch", stage |-> "next", match |-> u.match, score |-> u.score,
           decided |-> u.decided, todo |-> u.todo, marked |-> u.marked]
  BY <1>2 DEF NextBet
<1>6. SettleTask(t) BY <1>4, <1>5 DEF SettleTask
<1>7. \A c : Decides(t, c) = Decides(u, c) BY <1>3, <1>5 DEF Decides
<1>8. t.match = u.match /\ t.score = u.score /\ t.decided = u.decided BY <1>5
<1>9. QED BY <1>1, <1>3, <1>6, <1>7, <1>8, SettleQuietly DEF Inv, CallsInv

LEMMA KeepsLegsLost ==
  ASSUME Inv, NEW p \in Sessions, LegsLost(p)
  PROVE  Inv'
<1>1. PICK u : u = task[p] OBVIOUS
<1>2. PICK t : t = Marking(u, "lost") OBVIOUS
<1>3. /\ u.op = "settleMatch" /\ u.stage = "legs" /\ Goto(p, t) /\ UNCHANGED <<wvars, bvars>>
      /\ WithResult(BetSeenBy(u, u.bet), "pending") = {}
      /\ WithResult(BetSeenBy(u, u.bet), "lost") # {}
  BY <1>1, <1>2 DEF LegsLost, At
<1>4. SettleTask(u) BY <1>1, <1>3, TaskIs DEF Inv
<1>5. t = [op |-> "settleMatch", stage |-> "mark", match |-> u.match, score |-> u.score,
           decided |-> u.decided, todo |-> u.todo, marked |-> u.marked, bet |-> u.bet,
           status |-> "lost"]
  BY <1>2 DEF Marking
<1>6. SettleTask(t) /\ u.bet \notin DOMAIN u.marked BY <1>3, <1>4, <1>5 DEF SettleTask, Marks
<1>7. \A c : Decides(t, c) = IF c = u.bet THEN "lost" ELSE Decides(u, c)
  BY <1>3, <1>5, <1>6 DEF Decides
<1>8. Decides(u, u.bet) = "nothing" BY <1>3, <1>6 DEF Decides
<1>9. Verdict(BetSeenBy(u, u.bet), "lost") BY <1>3 DEF Verdict
<1>10. t.match = u.match /\ t.score = u.score /\ t.decided = u.decided BY <1>5
<1>11. \A b \in Bets : Decides(t, b) # Decides(u, b) =>
           /\ Decides(u, b) = "nothing"
           /\ Decides(t, b) = "lost"
           /\ b \in Existing => Verdict(BetSeenBy(u, b), "lost")
  BY <1>7, <1>8, <1>9
<1>12. QED BY <1>1, <1>3, <1>5, <1>6, <1>10, <1>11, SettleQuietly

LEMMA KeepsMarkBet ==
  ASSUME Inv, NEW p \in Sessions, MarkBet(p)
  PROVE  Inv'
<1>1. PICK u : u = task[p] OBVIOUS
<1>2. PICK marked : marked = [b \in DOMAIN u.marked \union {u.bet} |->
                                IF b = u.bet THEN u.status ELSE u.marked[b]]
  OBVIOUS
<1>3. PICK t : t = NextBet(u, marked) OBVIOUS
<1>4. /\ u.op = "settleMatch" /\ u.stage = "mark" /\ Goto(p, t) /\ UNCHANGED <<wvars, bvars>>
      /\ call[p] = None
  BY <1>1, <1>2, <1>3 DEF MarkBet, At, EntryApplied
<1>5. SettleTask(u) BY <1>1, <1>4, TaskIs DEF Inv
<1>6. t = [op |-> "settleMatch", stage |-> "next", match |-> u.match, score |-> u.score,
           decided |-> u.decided, todo |-> u.todo, marked |-> marked]
  BY <1>3 DEF NextBet
<1>7. u.bet \in Existing /\ u.bet \notin u.todo \union DOMAIN u.marked /\ u.status \in Marks
  BY <1>4, <1>5 DEF SettleTask
<1>8. DOMAIN marked = DOMAIN u.marked \union {u.bet} /\ marked \in [DOMAIN marked -> Marks]
  BY <1>2, <1>5, <1>7 DEF SettleTask
<1>9. SettleTask(t) BY <1>5, <1>6, <1>7, <1>8 DEF SettleTask
<1>10. \A c : Decides(t, c) = Decides(u, c) BY <1>2, <1>4, <1>6, <1>7, <1>8 DEF Decides
<1>11. t.match = u.match /\ t.score = u.score /\ t.decided = u.decided BY <1>6
<1>12. QED BY <1>1, <1>4, <1>9, <1>10, <1>11, SettleQuietly

LEMMA KeepsLegsVoid ==
  ASSUME Inv, NEW p \in Sessions, LegsVoid(p)
  PROVE  Inv'
<1>1. PICK u, b : u = task[p] /\ b = u.bet OBVIOUS
<1>2. PICK seen : seen = BetSeenBy(u, b) OBVIOUS
<1>3. /\ At(p, "settleMatch", "legs") /\ WithResult(seen, "void") = DOMAIN seen.locked
      /\ W!Select(p, seen.user, seen.stake, <<"refund", b>>)
      /\ Goto(p, Marking(u, "void")) /\ UNCHANGED bvars
  BY <1>1, <1>2 DEF LegsVoid
<1>4. b \in Existing /\ bets[b] \in BetRow
  <2>1. SettleTask(u) BY <1>1, <1>3, TaskIs DEF Inv, At
  <2>2. b \in Existing BY <1>1, <1>3, <2>1 DEF SettleTask, At
  <2>3. QED BY <2>2 DEF Existing, Inv, RowsOK
<1>5. seen \in BetRow /\ seen.user = bets[b].user /\ seen.stake = bets[b].stake
  BY <1>2, <1>4, SeenBet
<1>6. Verdict(seen, "void") BY <1>3 DEF Verdict, WithResult
<1>7. PICK user, amount : user = bets[b].user /\ amount = bets[b].stake OBVIOUS
<1>8. DueAmount(p, <<"refund", b>>) = amount BY <1>7 DEF DueAmount
<1>9. amount \in Int BY <1>4, <1>7, BetFacts
<1>10. W!Select(p, user, amount, <<"refund", b>>) BY <1>3, <1>5, <1>7
<1>11. QED BY <1>1, <1>2, <1>3, <1>6, <1>7, <1>8, <1>9, <1>10, SettlePays

LEMMA KeepsLegsWon ==
  ASSUME Inv, NEW p \in Sessions, LegsWon(p)
  PROVE  Inv'
<1>1. PICK u, b : u = task[p] /\ b = u.bet OBVIOUS
<1>2. PICK seen : seen = BetSeenBy(u, b) OBVIOUS
<1>3. PICK amount : amount = Worth(seen) OBVIOUS
<1>4. /\ At(p, "settleMatch", "legs") /\ WithResult(seen, "won") # {}
      /\ WithResult(seen, "won") \union WithResult(seen, "void") = DOMAIN seen.locked
      /\ W!Select(p, seen.user, amount, <<"bet_payout", b>>)
      /\ Goto(p, Marking(u, "won")) /\ UNCHANGED bvars
  BY <1>1, <1>2, <1>3 DEF LegsWon, Worth
<1>5. b \in Existing /\ bets[b] \in BetRow
  <2>1. SettleTask(u) BY <1>1, <1>4, TaskIs DEF Inv, At
  <2>2. b \in Existing BY <1>1, <1>4, <2>1 DEF SettleTask, At
  <2>3. QED BY <2>2 DEF Existing, Inv, RowsOK
<1>6. seen \in BetRow /\ seen.user = bets[b].user
  BY <1>2, <1>5, SeenBet
<1>7. Verdict(seen, "won") BY <1>4 DEF Verdict, WithResult
<1>8. PICK user : user = bets[b].user OBVIOUS
<1>9. DueAmount(p, <<"bet_payout", b>>) = amount BY <1>1, <1>2, <1>3 DEF DueAmount
<1>10. amount \in Int BY <1>3, <1>6, WorthIsInt
<1>11. W!Select(p, user, amount, <<"bet_payout", b>>) BY <1>4, <1>6, <1>8
<1>12. QED BY <1>1, <1>2, <1>4, <1>7, <1>8, <1>9, <1>10, <1>11, SettlePays
-----------------------------------------------------------------------------
\* The three commits, which alone change rows of bets.  A commit of session p
\* keeps what a bet was placed with and the results it already has.
Kept(p) ==
  \A b \in Existing :
    /\ bets'[b] # None
    /\ bets'[b].user = bets[b].user /\ bets'[b].stake = bets[b].stake
    /\ bets'[b].locked = bets[b].locked
    /\ \A s \in DOMAIN bets[b].locked :
         \/ bets'[b].result[s] = bets[b].result[s]
         \/ bets[b].result[s] = "pending" /\ Settling(p, MatchOfLeg(s))

LEMMA SameResults ==
  ASSUME NEW bet \in BetRow, NEW other \in BetRow, other.locked = bet.locked,
         \A s \in DOMAIN bet.locked : other.result[s] = bet.result[s]
  PROVE  other.result = bet.result
<1>1. /\ bet.result \in [DOMAIN bet.locked -> LegResults]
      /\ other.result \in [DOMAIN bet.locked -> LegResults]
  BY BetFacts
<1>2. QED BY <1>1

\* What a bet without a pending leg is worth, it stays worth.
LEMMA DecidedStays ==
  ASSUME RowsOK, bets' \in [Bets -> BetRow \union {None}], NEW p \in Sessions, Kept(p),
         NEW b \in Existing, WithResult(bets[b], "pending") = {}
  PROVE  /\ bets'[b].result = bets[b].result
         /\ Worth(bets'[b]) = Worth(bets[b])
         /\ \A result : WithResult(bets'[b], result) = WithResult(bets[b], result)
         /\ \A status : Verdict(bets'[b], status) <=> Verdict(bets[b], status)
<1>1. PICK bet \in BetRow : bet = bets[b] BY DEF RowsOK, Existing
<1>2. PICK other \in BetRow : other = bets'[b] BY DEF Existing, Kept
<1>3. /\ other.user = bet.user /\ other.stake = bet.stake /\ other.locked = bet.locked
      /\ \A s \in DOMAIN bet.locked :
           other.result[s] = bet.result[s] \/ bet.result[s] = "pending"
  BY <1>1, <1>2 DEF Kept
<1>4. \A s \in DOMAIN bet.locked : bet.result[s] # "pending" BY <1>1 DEF WithResult
<1>5. other.result = bet.result BY <1>3, <1>4, SameResults
<1>6. /\ Worth(other) = Worth(bet)
      /\ \A status : Verdict(other, status) <=> Verdict(bet, status)
      /\ \A result : WithResult(other, result) = WithResult(bet, result)
  BY <1>3, <1>5, SameWorth
<1>7. QED BY <1>1, <1>2, <1>5, <1>6

\* What another settlement has decided of a bet, it has decided for good.
LEMMA DecidesTheSame ==
  ASSUME RowsOK, bets' \in [Bets -> BetRow \union {None}], NEW p \in Sessions, Kept(p),
         NEW t, NEW b \in Existing, WithResult(BetSeenBy(t, b), "pending") = {}
  PROVE  /\ Worth(BetSeenBy(t, b))' = Worth(BetSeenBy(t, b))
         /\ \A status : Verdict(BetSeenBy(t, b), status) => Verdict(BetSeenBy(t, b)', status)
<1>1. PICK bet \in BetRow : bet = bets[b] BY DEF RowsOK, Existing
<1>2. PICK other \in BetRow : other = bets'[b] BY DEF Existing, Kept
<1>3. /\ other.user = bet.user /\ other.stake = bet.stake /\ other.locked = bet.locked
      /\ \A s \in DOMAIN bet.locked :
           other.result[s] = bet.result[s] \/ bet.result[s] = "pending"
  BY <1>1, <1>2 DEF Kept
<1>4. PICK old, new : old = SeenRow(t, b, bet) /\ new = SeenRow(t, b, other) OBVIOUS
<1>5. /\ old \in BetRow /\ old.user = bet.user /\ old.stake = bet.stake
      /\ old.locked = bet.locked
      /\ \A s \in DOMAIN bet.locked : old.result[s] = SeenResult(t, b, bet, s)
  BY <1>4, SeenRowIs
<1>6. /\ new \in BetRow /\ new.user = bet.user /\ new.stake = bet.stake
      /\ new.locked = bet.locked
      /\ \A s \in DOMAIN bet.locked : new.result[s] = SeenResult(t, b, other, s)
  BY <1>3, <1>4, SeenRowIs
<1>7. old = BetSeenBy(t, b) /\ new = BetSeenBy(t, b)' BY <1>1, <1>2, <1>4, SeesRow
<1>8. \A s \in DOMAIN bet.locked : old.result[s] # "pending"
  BY <1>5, <1>7 DEF WithResult
<1>9. \A s \in DOMAIN bet.locked : new.result[s] = old.result[s]
  BY <1>3, <1>5, <1>6, <1>8 DEF SeenResult
<1>10. new.result = old.result BY <1>5, <1>6, <1>9, SameResults
<1>11. /\ Worth(new) = Worth(old)
       /\ \A status : Verdict(new, status) <=> Verdict(old, status)
  BY <1>5, <1>6, <1>10, SameWorth
<1>12. Worth(BetSeenBy(t, b))' = Worth(new)
  BY <1>7 DEF Worth, NetPayout, GrossPayout, WithResult
<1>13. QED BY <1>7, <1>11, <1>12

LEMMA NextBets ==
  /\ \A b : Worth(bets[b])' = Worth(bets'[b])
  /\ \A b, result : WithResult(bets[b], result)' = WithResult(bets'[b], result)
  /\ \A b, status : Verdict(bets[b], status)' <=> Verdict(bets'[b], status)
<1>1. \A b : Worth(bets[b])' = Worth(bets'[b])
  BY DEF Worth, NetPayout, GrossPayout, WithResult
<1>2. \A b, result : WithResult(bets[b], result)' = WithResult(bets'[b], result)
  BY DEF WithResult
<1>3. \A b, status : Verdict(bets[b], status)' <=> Verdict(bets'[b], status)
  BY DEF Verdict, WithResult
<1>4. QED BY <1>1, <1>2, <1>3

LEMMA OthersKept ==
  ASSUME RowsOK, Apart, bets' \in [Bets -> BetRow \union {None}], NEW p \in Sessions, Kept(p),
         NEW q \in Sessions, q # p, task'[q] = task[q], SettlesOK(q)
  PROVE  SameDue(q) /\ SettlesOK(q)'
<1>1. PICK t : t = task[q] /\ t = task'[q] OBVIOUS
<1>2. Due(q)' = Due(q) BY <1>1 DEF Due, At, Decides
<1>3. ASSUME t.op = "settleMatch", NEW b, Decides(t, b) # "nothing"
      PROVE  /\ b \in Existing
             /\ Worth(BetSeenBy(t, b))' = Worth(BetSeenBy(t, b))
             /\ Verdict(BetSeenBy(t, b)', Decides(t, b))
  <2>1. SettleTask(t) BY <1>1, <1>3, TaskIs
  <2>2. b \in Existing /\ Decides(t, b) \in Marks BY <1>3, <2>1 DEF SettleTask, Decides
  <2>3. Verdict(BetSeenBy(t, b), Decides(t, b)) BY <1>1, <1>3, <2>2 DEF SettlesOK
  <2>4. WithResult(BetSeenBy(t, b), "pending") = {} BY <2>2, <2>3 DEF Verdict
  <2>5. QED BY <2>2, <2>3, <2>4, DecidesTheSame
<1>4. ASSUME NEW tag \in Due(q) PROVE DueAmount(q, tag)' = DueAmount(q, tag)
  <2>1. CASE t.op # "settleMatch" BY <1>1, <2>1 DEF Due, At, DueAmount
  <2>2. CASE t.op = "settleMatch"
    <3>1. PICK b : b = tag[2] OBVIOUS
    <3>2. /\ tag[1] \in {"refund", "bet_payout"} /\ Decides(t, b) # "nothing"
      BY <1>1, <2>2, <3>1, DueOfSettlement
    <3>3. b \in Existing /\ Worth(BetSeenBy(t, b))' = Worth(BetSeenBy(t, b))
      BY <1>3, <2>2, <3>2
    <3>4. bets'[b].stake = bets[b].stake BY <3>3 DEF Kept
    <3>5. QED BY <1>1, <3>1, <3>2, <3>3, <3>4 DEF DueAmount
  <2>3. QED BY <2>1, <2>2
<1>5. SettlesOK(q)'
  <2>1. SUFFICES ASSUME t.op = "settleMatch" PROVE SettlesOK(q)' BY <1>1 DEF SettlesOK
  <2>2. SettleTask(t) BY <1>1, <2>1, TaskIs
  <2>3. ASSUME NEW b \in t.decided, NEW s \in LegsOn(b, t.match)' PROVE bets'[b].result[s] = "pending"
    <3>1. b \in Existing BY <2>2 DEF SettleTask
    <3>2. s \in LegsOn(b, t.match) BY <3>1 DEF LegsOn, Kept
    <3>3. bets[b].result[s] = "pending" BY <1>1, <2>1, <3>2 DEF SettlesOK
    <3>4. ~ Settling(p, t.match) BY <1>1, <2>1, <2>2 DEF Apart, Settling, SettleTask
    <3>5. s \in DOMAIN bets[b].locked /\ MatchOfLeg(s) = t.match BY <3>2 DEF LegsOn
    <3>6. QED BY <3>1, <3>3, <3>4, <3>5 DEF Kept
  <2>4. \A b : Decides(t, b)' = Decides(t, b) BY DEF Decides
  <2>5. ASSUME NEW b, Decides(t, b) # "nothing" PROVE Verdict(BetSeenBy(t, b), Decides(t, b))'
    <3>1. Verdict(BetSeenBy(t, b)', Decides(t, b)) BY <1>3, <2>1, <2>5
    <3>2. QED BY <2>4, <3>1 DEF Verdict, WithResult
  <2>6. QED BY <1>1, <2>3, <2>4, <2>5 DEF SettlesOK
<1>6. QED BY <1>2, <1>4, <1>5 DEF SameDue

\* A bet exists once its stake is committed, and was placed in that commit.
StakesTaken(p) ==
  /\ \A b \in Bets : bets[b] = None /\ bets'[b] # None =>
       /\ <<"bet_stake", b>> \in Due(p)
       /\ DueAmount(p, <<"bet_stake", b>>) = 0 - bets'[b].stake
  /\ \A b \in Bets : <<"bet_stake", b>> \in Due(p) => bets[b] = None /\ bets'[b] # None

PaysWorth(p) ==
  \A b \in Bets : <<"bet_payout", b>> \in Due(p) =>
    /\ bets'[b] # None
    /\ WithResult(bets'[b], "pending") = {}
    /\ DueAmount(p, <<"bet_payout", b>>) = Worth(bets'[b])

\* The rows of a bet after a commit, or after a step that commits no row.
NewRows(p, b, types) == RowsOf(b, types)' = RowsOf(b, types) \union DraftsOf(p, b, types)

LEMMA DueTags ==
  ASSUME RowsOK, NEW p \in Sessions
  PROVE  \A tag \in Due(p) : tag = <<tag[1], tag[2]>> /\ tag[2] \in Bets
<1>1. \A tag \in Tags : tag = <<tag[1], tag[2]>> /\ tag[2] \in Bets BY DEF Tags
<1>2. CASE At(p, "placeBet", "debit")
  <2>1. task[p].bet \in Bets BY <1>2, TaskIs DEF At, PlaceTask
  <2>2. QED BY <1>2, <2>1 DEF Due
<1>3. CASE At(p, "cashOut", "mark")
  <2>1. task[p].bet \in Bets BY <1>3, TaskIs DEF At, CashTask, Existing
  <2>2. QED BY <1>3, <2>1 DEF Due, At
<1>4. CASE task[p].op = "settleMatch" BY <1>1, <1>4, DueOfSettlement
<1>5. QED BY <1>2, <1>3, <1>4 DEF Due

LEMMA DraftTags ==
  ASSUME EntriesInv, RowsOK, NEW p \in Sessions, NEW b, NEW type, NEW r \in DraftsOf(p, b, {type})
  PROVE  <<type, b>> \in Due(p) /\ AmountOf(r) = DueAmount(p, <<type, b>>) /\ b \in Bets
<1>1. PICK u, n : /\ r = <<u, n>> /\ Draft(p, u, n)
                  /\ ledger[u][n].tag[1] \in {type} /\ ledger[u][n].tag[2] = b
  BY DEF DraftsOf
<1>2. PICK tag \in Due(p) : ledger[u][n].tag = tag /\ ledger[u][n].amount = DueAmount(p, tag)
  BY <1>1 DEF EntriesInv, DraftsOK, DraftOK
<1>3. tag = <<type, b>> /\ b \in Bets BY <1>1, <1>2, DueTags
<1>4. QED BY <1>1, <1>2, <1>3 DEF AmountOf

LEMMA CommitStep ==
  ASSUME Inv, NEW p \in Sessions, Goto(p, Idle), Kept(p), call[p] = None,
         bets' \in [Bets -> BetRow \union {None}],
         matchStatus' \in [Matches -> {"scheduled", "finished"}],
         marketStatus' \in [Markets -> {"open", "suspended", "settled"}],
         odds' \in [Selections -> OddsRange],
         W!Commit(p) \/ (UNCHANGED wvars /\ Due(p) = {}),
         \A b \in Bets : bets'[b] # None => Verdict(bets'[b], bets'[b].status),
         \A b \in Bets : bets[b] = None /\ bets'[b] # None =>
           task[p].op = "placeBet" /\ b = task[p].bet,
         StakesTaken(p), PaysWorth(p)
  PROVE  Inv' /\ \A b, types : NewRows(p, b, types)
<1>1. Existing \subseteq Existing' BY DEF Existing, Kept
<1>2. RowsOK' /\ task'[p] = Idle /\ OtherTasks(p)
  <2>1. RowsOK /\ IsTask(p, Idle) BY DEF Inv, IsTask
  <2>2. QED BY <1>1, <2>1, RowsStep
<1>3. ASSUME NEW q \in Sessions, q # p PROVE SameDue(q) /\ SettlesOK(q)'
  BY <1>2, <1>3, OthersKept DEF Inv, SettleInv, OtherTasks
<1>4. Due(p)' = {} /\ SettlesOK(p)' BY <1>2 DEF Due, At, SettlesOK, Idle
<1>5. /\ EntriesInv' /\ \A b, types : NewRows(p, b, types)
      /\ \A b, types : \A r \in RowsOf(b, types) : AmountOf(r)' = AmountOf(r)
      /\ \A b, types : \A r \in DraftsOf(p, b, types) : AmountOf(r)' = AmountOf(r)
  <2>1. CASE W!Commit(p) BY <1>3, <1>4, <2>1, CommitEntries DEF Inv, NewRows
  <2>2. CASE UNCHANGED wvars /\ Due(p) = {}
    <3>1. \A q \in Sessions : SameDue(q) BY <1>3, <1>4, <2>2 DEF SameDue
    <3>2. EntriesInv' /\ RowsStay BY <2>2, <3>1, QuietEntries DEF Inv
    <3>3. \A b, types : DraftsOf(p, b, types) = {} BY <2>2, NoDraft DEF Inv
    <3>4. QED BY <3>2, <3>3, SameRows DEF NewRows
  <2>3. QED BY <2>1, <2>2
<1>6. CallsInv'
  <2>1. \A q \in Sessions : call'[q] = call[q] BY DEF W!Commit, wvars
  <2>2. QED BY <1>2, <2>1 DEF Inv, CallsInv, OtherTasks, Idle
<1>7. SettleInv'
  <2>1. Apart BY DEF Inv, SettleInv
  <2>2. \A q \in Sessions : \A m : Settling(q, m)' => Settling(q, m)
    BY <1>2 DEF Settling, OtherTasks, Idle
  <2>3. \A q \in Sessions : task'[q].op = "placeBet" =>
          q # p /\ task[q].op = "placeBet" /\ task'[q].bet = task[q].bet
    BY <1>2 DEF OtherTasks, Idle
  <2>4. ASSUME NEW q \in Sessions, task'[q].op = "placeBet" PROVE bets'[task'[q].bet] = None
    <3>1. q # p /\ task[q].op = "placeBet" /\ task'[q].bet = task[q].bet BY <2>3, <2>4
    <3>2. bets[task[q].bet] = None /\ task[q].bet \in Bets
      BY <2>1, <3>1, TaskIs DEF Apart, PlaceTask, Inv
    <3>3. ~ (task[p].op = "placeBet" /\ task[q].bet = task[p].bet) BY <2>1, <3>1 DEF Apart
    <3>4. QED BY <3>1, <3>2, <3>3
  <2>5. Apart' BY <2>1, <2>2, <2>3, <2>4 DEF Apart
  <2>6. (\A b \in Existing : Verdict(bets[b], bets[b].status))'
    <3>1. \A b \in Existing' : Verdict(bets'[b], bets'[b].status) BY DEF Existing
    <3>2. QED BY <3>1 DEF Verdict, WithResult
  <2>7. \A q \in Sessions : SettlesOK(q)' BY <1>3, <1>4
  <2>8. QED BY <2>5, <2>6, <2>7 DEF SettleInv
<1>8. ASSUME NEW b \in Bets PROVE PaidOK(b)'
  <2>1. PaidOK(b) BY DEF Inv, MoneyInv
  <2>2. ASSUME NEW r \in RowsOf(b, {"bet_payout"})'
        PROVE  /\ bets'[b] # None /\ WithResult(bets'[b], "pending") = {}
               /\ AmountOf(r)' = Worth(bets'[b])
    <3>1. CASE r \in RowsOf(b, {"bet_payout"})
      <4>1. /\ b \in Existing /\ WithResult(bets[b], "pending") = {}
            /\ AmountOf(r) = Worth(bets[b])
        BY <2>1, <3>1 DEF PaidOK, Existing
      <4>2. AmountOf(r)' = AmountOf(r) BY <1>5, <3>1
      <4>3. QED BY <4>1, <4>2, DecidedStays DEF Kept, Inv
    <3>2. CASE r \in DraftsOf(p, b, {"bet_payout"})
      <4>1. /\ <<"bet_payout", b>> \in Due(p)
            /\ AmountOf(r) = DueAmount(p, <<"bet_payout", b>>)
        BY <3>2, DraftTags DEF Inv
      <4>2. AmountOf(r)' = AmountOf(r) BY <1>5, <3>2
      <4>3. QED BY <4>1, <4>2 DEF PaysWorth
    <3>3. QED BY <1>5, <2>2, <3>1, <3>2 DEF NewRows
  <2>3. QED BY <2>2, NextBets DEF PaidOK
<1>9. ASSUME NEW b \in Bets PROVE StakeOK(b)'
  <2>1. SUFFICES ASSUME Placed[b] = None
        PROVE  IF bets'[b] = None THEN RowsOf(b, {"bet_stake"})' = {}
               ELSE \E r : RowsOf(b, {"bet_stake"})' = {r} /\ AmountOf(r)' = 0 - bets'[b].stake
    BY DEF StakeOK
  <2>2. StakeOK(b) BY DEF Inv, MoneyInv
  <2>3. RowsOf(b, {"bet_stake"})' = RowsOf(b, {"bet_stake"}) \union DraftsOf(p, b, {"bet_stake"})
    BY <1>5 DEF NewRows
  <2>4. CASE bets[b] = None /\ bets'[b] # None
    <3>1. PICK tag : tag = <<"bet_stake", b>> OBVIOUS
    <3>2. tag \in Due(p) /\ DueAmount(p, tag) = 0 - bets'[b].stake BY <2>4, <3>1 DEF StakesTaken
    <3>3. \A x \in Due(p) : x[1] \in {"bet_stake"} /\ x[2] = b => x = tag
      BY <3>1, DueTags DEF Inv
    <3>4. tag[1] \in {"bet_stake"} /\ tag[2] = b BY <3>1
    <3>5. PICK r : DraftsOf(p, b, {"bet_stake"}) = {r} /\ AmountOf(r) = DueAmount(p, tag)
      BY <3>2, <3>3, <3>4, OneDraft DEF Inv
    <3>6. AmountOf(r)' = AmountOf(r)
      <4>1. r \in DraftsOf(p, b, {"bet_stake"}) BY <3>5
      <4>2. QED BY <1>5, <4>1
    <3>7. RowsOf(b, {"bet_stake"}) = {} BY <2>1, <2>2, <2>4 DEF StakeOK
    <3>8. QED BY <2>3, <2>4, <3>2, <3>5, <3>6, <3>7
  <2>5. CASE ~ (bets[b] = None /\ bets'[b] # None)
    <3>1. <<"bet_stake", b>> \notin Due(p) BY <2>5 DEF StakesTaken
    <3>2. DraftsOf(p, b, {"bet_stake"}) = {} BY <3>1, DraftTags DEF Inv
    <3>3. RowsOf(b, {"bet_stake"})' = RowsOf(b, {"bet_stake"}) BY <2>3, <3>2
    <3>4. CASE bets[b] = None BY <2>1, <2>2, <2>5, <3>3, <3>4 DEF StakeOK
    <3>5. CASE bets[b] # None
      <4>1. bets'[b] # None /\ bets'[b].stake = bets[b].stake BY <3>5 DEF Kept, Existing
      <4>2. PICK r : RowsOf(b, {"bet_stake"}) = {r} /\ AmountOf(r) = 0 - bets[b].stake
        BY <2>1, <2>2, <3>5 DEF StakeOK
      <4>3. AmountOf(r)' = AmountOf(r)
        <5>1. r \in RowsOf(b, {"bet_stake"}) BY <4>2
        <5>2. QED BY <1>5, <5>1
      <4>4. QED BY <3>3, <4>1, <4>2, <4>3
    <3>6. QED BY <3>4, <3>5
  <2>6. QED BY <2>4, <2>5
<1>10. MoneyInv' BY <1>8, <1>9 DEF MoneyInv
<1>11. QED BY <1>2, <1>5, <1>6, <1>7, <1>10 DEF Inv
LEMMA OpenVerdict ==
  ASSUME NEW bet, NEW status \in {"open", "cashed_out"}
  PROVE  Verdict(bet, status)
BY DEF Verdict, Marks

LEMMA CommitBetIs ==
  ASSUME Inv, NEW p \in Sessions, CommitBet(p)
  PROVE  /\ task[p].op = "placeBet" /\ task[p].bet \in Bets /\ bets[task[p].bet] = None
         /\ bets'[task[p].bet] \in BetRow /\ bets'[task[p].bet].status = "open"
         /\ bets'[task[p].bet].stake = task[p].stake
         /\ bets'[task[p].bet].locked = task[p].locked
         /\ \A s \in DOMAIN bets'[task[p].bet].locked :
              bets'[task[p].bet].result[s] = "pending"
         /\ \A b \in Bets : b # task[p].bet => bets'[b] = bets[b]
         /\ Due(p) = {<<"bet_stake", task[p].bet>>}
         /\ DueAmount(p, <<"bet_stake", task[p].bet>>) = 0 - task[p].stake
         /\ bets' \in [Bets -> BetRow \union {None}] /\ Kept(p) /\ DOMAIN task[p].locked # {}
<1>1. PICK u : u = task[p] OBVIOUS
<1>2. u.op = "placeBet" /\ u.stage = "debit" /\ bets' = [bets EXCEPT ![u.bet] = NewBet(u)]
  BY <1>1 DEF CommitBet, At
<1>3. PlaceTask(u) BY <1>1, <1>2, TaskIs DEF Inv
<1>4. PICK result : result = [s \in DOMAIN u.locked |-> "pending"] OBVIOUS
<1>5. PICK new : new = [user |-> u.user, stake |-> u.stake, locked |-> u.locked,
                        result |-> result, status |-> "open"]
  OBVIOUS
<1>6. new = NewBet(u) BY <1>4, <1>5 DEF NewBet
<1>7. new \in BetRow
  <2>1. /\ u.user \in Users /\ u.stake \in Stakes /\ u.slip \in Slips
        /\ u.locked \in [u.slip -> OddsRange]
    BY <1>2, <1>3 DEF PlaceTask
  <2>2. DOMAIN u.locked = u.slip BY <2>1
  <2>3. result \in [u.slip -> LegResults] BY <1>4, <2>2 DEF LegResults
  <2>4. "open" \in Statuses BY DEF Statuses
  <2>5. QED BY <1>5, <2>1, <2>3, <2>4, MakesBetRow
<1>8. u.bet \in Bets /\ bets[u.bet] = None
  BY <1>1, <1>2, <1>3 DEF PlaceTask, Inv, SettleInv, Apart
<1>9. /\ bets'[u.bet] = new /\ \A b \in Bets : b # u.bet => bets'[b] = bets[b]
      /\ bets' \in [Bets -> BetRow \union {None}]
  BY <1>2, <1>6, <1>7, <1>8 DEF Inv, RowsOK
<1>10. /\ new.status = "open" /\ new.stake = u.stake /\ new.locked = u.locked
       /\ \A s \in DOMAIN new.locked : new.result[s] = "pending"
  BY <1>4, <1>5
<1>11. Kept(p)
  <2>1. \A b \in Existing : b \in Bets /\ bets'[b] = bets[b] BY <1>8, <1>9 DEF Existing
  <2>2. \A b \in Existing : bets[b] # None BY DEF Existing
  <2>3. QED BY <2>1, <2>2 DEF Kept
<1>12. /\ Due(p) = {<<"bet_stake", u.bet>>}
       /\ DueAmount(p, <<"bet_stake", u.bet>>) = 0 - u.stake
  BY <1>1, <1>2 DEF Due, At, DueAmount
<1>13. DOMAIN u.locked # {} BY <1>7, <1>10, BetFacts
<1>14. QED BY <1>1, <1>2, <1>7, <1>8, <1>9, <1>10, <1>11, <1>12, <1>13

LEMMA KeepsCommitBet ==
  ASSUME Inv, NEW p \in Sessions, CommitBet(p)
  PROVE  Inv' /\ \A b, types : NewRows(p, b, types)
<1>1. PICK u, new : u = task[p] /\ new = bets'[u.bet] OBVIOUS
<1>2. /\ u.op = "placeBet" /\ u.bet \in Bets /\ bets[u.bet] = None
      /\ new \in BetRow /\ new.status = "open" /\ new.stake = u.stake
      /\ \A b \in Bets : b # u.bet => bets'[b] = bets[b]
      /\ Due(p) = {<<"bet_stake", u.bet>>}
      /\ DueAmount(p, <<"bet_stake", u.bet>>) = 0 - u.stake
      /\ bets' \in [Bets -> BetRow \union {None}] /\ Kept(p)
  BY <1>1, CommitBetIs
<1>3. /\ Goto(p, Idle) /\ call[p] = None /\ W!Commit(p)
      /\ matchStatus' = matchStatus /\ marketStatus' = marketStatus /\ odds' = odds
  BY DEF CommitBet, Finish, EntryApplied
<1>4. \A b \in Bets : bets'[b] # None => Verdict(bets'[b], bets'[b].status)
  <2>1. ASSUME NEW b \in Bets, b # u.bet, bets'[b] # None
        PROVE  Verdict(bets'[b], bets'[b].status)
    BY <1>2, <2>1 DEF Inv, SettleInv, Existing
  <2>2. Verdict(bets'[u.bet], bets'[u.bet].status) BY <1>1, <1>2, OpenVerdict
  <2>3. QED BY <2>1, <2>2
<1>5. StakesTaken(p)
  <2>1. \A b \in Bets : bets[b] = None /\ bets'[b] # None => b = u.bet BY <1>2
  <2>2. \A b \in Bets : <<"bet_stake", b>> \in Due(p) => b = u.bet BY <1>2
  <2>3. bets'[u.bet] # None BY <1>1, <1>2, NoneIsNothing
  <2>4. QED BY <1>1, <1>2, <2>1, <2>2, <2>3 DEF StakesTaken
<1>6. PaysWorth(p) BY <1>2 DEF PaysWorth
<1>7. \A b \in Bets : bets[b] = None /\ bets'[b] # None =>
        task[p].op = "placeBet" /\ b = task[p].bet
  BY <1>1, <1>2
<1>8. QED BY <1>2, <1>3, <1>4, <1>5, <1>6, <1>7, CommitStep DEF Inv, RowsOK

LEMMA CommitCashOutIs ==
  ASSUME Inv, NEW p \in Sessions, CommitCashOut(p)
  PROVE  /\ task[p].op = "cashOut" /\ task[p].bet \in Existing
         /\ bets'[task[p].bet] \in BetRow /\ bets'[task[p].bet].status = "cashed_out"
         /\ bets'[task[p].bet].result = bets[task[p].bet].result
         /\ bets'[task[p].bet].locked = bets[task[p].bet].locked
         /\ \A b \in Bets : b # task[p].bet => bets'[b] = bets[b]
         /\ Due(p) = {<<"cashout", task[p].bet>>}
         /\ bets' \in [Bets -> BetRow \union {None}] /\ Kept(p)
<1>1. PICK u : u = task[p] OBVIOUS
<1>2. /\ u.op = "cashOut" /\ u.stage = "mark"
      /\ bets' = [bets EXCEPT ![u.bet].status = "cashed_out"]
  BY <1>1 DEF CommitCashOut, At
<1>3. u.bet \in Existing /\ u.bet \in Bets BY <1>1, <1>2, TaskIs DEF Inv, CashTask, Existing
<1>4. PICK bet \in BetRow : bet = bets[u.bet] BY <1>3 DEF Existing, Inv, RowsOK
<1>5. PICK new : new = [bet EXCEPT !.status = "cashed_out"] OBVIOUS
<1>6. /\ new \in BetRow
      /\ new = [user |-> bet.user, stake |-> bet.stake, locked |-> bet.locked,
                result |-> bet.result, status |-> "cashed_out"]
  BY <1>5, NewStatus DEF Statuses
<1>7. /\ bets'[u.bet] = new /\ \A b \in Bets : b # u.bet => bets'[b] = bets[b]
      /\ bets' \in [Bets -> BetRow \union {None}]
  BY <1>2, <1>3, <1>4, <1>5, <1>6 DEF Inv, RowsOK
<1>8. /\ new.status = "cashed_out" /\ new.stake = bet.stake /\ new.locked = bet.locked
      /\ new.result = bet.result /\ new.user = bet.user
  BY <1>6
<1>9. Kept(p)
  <2>1. \A b \in Existing : b # u.bet => b \in Bets /\ bets[b] # None /\ bets'[b] = bets[b]
    BY <1>7 DEF Existing
  <2>2. new # None BY <1>6, NoneIsNothing
  <2>3. QED BY <1>4, <1>7, <1>8, <2>1, <2>2 DEF Kept
<1>10. Due(p) = {<<"cashout", u.bet>>} BY <1>1, <1>2 DEF Due, At
<1>11. QED BY <1>1, <1>2, <1>3, <1>4, <1>6, <1>7, <1>8, <1>9, <1>10

LEMMA KeepsCommitCashOut ==
  ASSUME Inv, NEW p \in Sessions, CommitCashOut(p)
  PROVE  Inv' /\ \A b, types : NewRows(p, b, types)
<1>1. PICK u, new : u = task[p] /\ new = bets'[u.bet] OBVIOUS
<1>2. /\ u.op = "cashOut" /\ u.bet \in Existing
      /\ new \in BetRow /\ new.status = "cashed_out"
      /\ \A b \in Bets : b # u.bet => bets'[b] = bets[b]
      /\ Due(p) = {<<"cashout", u.bet>>}
      /\ bets' \in [Bets -> BetRow \union {None}] /\ Kept(p)
  BY <1>1, CommitCashOutIs
<1>3. /\ Goto(p, Idle) /\ call[p] = None /\ W!Commit(p)
      /\ matchStatus' = matchStatus /\ marketStatus' = marketStatus /\ odds' = odds
  BY DEF CommitCashOut, Finish, EntryApplied
<1>4. \A b \in Bets : bets'[b] # None => Verdict(bets'[b], bets'[b].status)
  <2>1. ASSUME NEW b \in Bets, b # u.bet, bets'[b] # None
        PROVE  Verdict(bets'[b], bets'[b].status)
    BY <1>2, <2>1 DEF Inv, SettleInv, Existing
  <2>2. Verdict(bets'[u.bet], bets'[u.bet].status) BY <1>1, <1>2, OpenVerdict
  <2>3. QED BY <2>1, <2>2
<1>5. \A b \in Bets : bets[b] = None => bets'[b] = None BY <1>2 DEF Existing
<1>6. StakesTaken(p) BY <1>2, <1>5 DEF StakesTaken
<1>7. PaysWorth(p) BY <1>2 DEF PaysWorth
<1>8. QED BY <1>2, <1>3, <1>4, <1>5, <1>6, <1>7, CommitStep DEF Inv, RowsOK

\* The bets after a settlement: every bet as the settlement sees it, and decided
\* if it is marked.
LEMMA CommitSettlementIs ==
  ASSUME Inv, NEW p \in Sessions, CommitSettlement(p), NEW b \in Existing
  PROVE  /\ bets'[b] \in BetRow
         /\ bets'[b].user = bets[b].user /\ bets'[b].stake = bets[b].stake
         /\ bets'[b].locked = bets[b].locked
         /\ bets'[b].result = BetSeenBy(task[p], b).result
         /\ \A s \in DOMAIN bets[b].locked : bets'[b].result[s] = ResultSeenBy(task[p], b, s)
         /\ bets'[b].status = IF b \in DOMAIN task[p].marked THEN task[p].marked[b]
                              ELSE bets[b].status
<1>1. PICK u : u = task[p] OBVIOUS
<1>2. u.op = "settleMatch" BY <1>1 DEF CommitSettlement, At
<1>3. SettleTask(u) BY <1>1, <1>2, TaskIs DEF Inv
<1>4. PICK bet \in BetRow : bet = bets[b] BY DEF Existing, Inv, RowsOK
<1>5. PICK seen : seen = SeenRow(u, b, bet) OBVIOUS
<1>6. /\ seen \in BetRow /\ seen.user = bet.user /\ seen.stake = bet.stake
      /\ seen.locked = bet.locked /\ seen.status = bet.status
      /\ \A s \in DOMAIN bet.locked : seen.result[s] = SeenResult(u, b, bet, s)
  BY <1>5, SeenRowIs
<1>7. seen = BetSeenBy(u, b) BY <1>4, <1>5, SeesRow
<1>8. PICK status : status = IF b \in DOMAIN u.marked THEN u.marked[b] ELSE seen.status OBVIOUS
<1>9. status \in Statuses
  <2>1. seen.status \in Statuses BY <1>6, BetFacts
  <2>2. QED BY <1>3, <1>8, <2>1 DEF SettleTask, Marks, Statuses
<1>10. bets'[b] = [seen EXCEPT !.status = status]
  <2>1. bets'[b] = [BetSeenBy(u, b) EXCEPT !.status =
                      IF b \in DOMAIN u.marked THEN u.marked[b] ELSE @]
    BY <1>1 DEF CommitSettlement, Existing
  <2>2. QED BY <1>7, <1>8, <2>1
<1>11. PICK new : new = [seen EXCEPT !.status = status] OBVIOUS
<1>12. /\ new \in BetRow
       /\ new = [user |-> seen.user, stake |-> seen.stake, locked |-> seen.locked,
                 result |-> seen.result, status |-> status]
  BY <1>6, <1>9, <1>11, NewStatus
<1>13. /\ new.user = bet.user /\ new.stake = bet.stake /\ new.locked = bet.locked
       /\ new.result = seen.result /\ new.status = status
  BY <1>6, <1>12
<1>14. \A s \in DOMAIN bet.locked : new.result[s] = ResultSeenBy(u, b, s)
  BY <1>4, <1>6, <1>13 DEF ResultSeenBy, SeenResult
<1>15. QED BY <1>1, <1>4, <1>6, <1>7, <1>8, <1>10, <1>11, <1>12, <1>13, <1>14

LEMMA SettlementKeeps ==
  ASSUME Inv, NEW p \in Sessions, CommitSettlement(p)
  PROVE  Kept(p) /\ bets' \in [Bets -> BetRow \union {None}]
         /\ \A b \in Bets : bets[b] = None => bets'[b] = None
<1>1. PICK u : u = task[p] OBVIOUS
<1>2. u.op = "settleMatch" BY <1>1 DEF CommitSettlement, At
<1>3. ASSUME NEW b \in Existing
      PROVE  /\ bets'[b] \in BetRow /\ bets'[b] # None
             /\ bets'[b].user = bets[b].user /\ bets'[b].stake = bets[b].stake
             /\ bets'[b].locked = bets[b].locked
             /\ \A s \in DOMAIN bets[b].locked :
                  \/ bets'[b].result[s] = bets[b].result[s]
                  \/ bets[b].result[s] = "pending" /\ Settling(p, MatchOfLeg(s))
  <2>1. /\ bets'[b] \in BetRow
        /\ bets'[b].user = bets[b].user /\ bets'[b].stake = bets[b].stake
        /\ bets'[b].locked = bets[b].locked
        /\ \A s \in DOMAIN bets[b].locked : bets'[b].result[s] = ResultSeenBy(u, b, s)
    BY <1>1, CommitSettlementIs
  <2>2. ASSUME NEW s \in DOMAIN bets[b].locked
        PROVE  \/ ResultSeenBy(u, b, s) = bets[b].result[s]
               \/ bets[b].result[s] = "pending" /\ Settling(p, MatchOfLeg(s))
    <3>1. CASE b \in u.decided /\ MatchOfLeg(s) = u.match
      <4>1. s \in LegsOn(b, u.match) BY <3>1 DEF LegsOn
      <4>2. bets[b].result[s] = "pending"
        BY <1>1, <1>2, <3>1, <4>1 DEF Inv, SettleInv, SettlesOK
      <4>3. QED BY <1>1, <1>2, <3>1, <4>2 DEF Settling
    <3>2. CASE ~ (b \in u.decided /\ MatchOfLeg(s) = u.match) BY <3>2 DEF ResultSeenBy
    <3>3. QED BY <3>1, <3>2
  <2>3. QED BY <2>1, <2>2, NoneIsNothing
<1>4. \A b \in Bets : bets[b] = None => bets'[b] = None
  BY DEF CommitSettlement, Existing
<1>5. bets' \in [Bets -> BetRow \union {None}]
  <2>1. \A b \in Bets : bets'[b] \in BetRow \union {None} BY <1>3, <1>4 DEF Existing
  <2>2. DOMAIN bets' = Bets /\ bets' = [b \in DOMAIN bets' |-> bets'[b]]
    BY DEF CommitSettlement
  <2>3. QED BY <2>1, <2>2
<1>6. QED BY <1>3, <1>4, <1>5 DEF Kept

LEMMA KeepsCommitSettlement ==
  ASSUME Inv, NEW p \in Sessions, CommitSettlement(p)
  PROVE  Inv' /\ \A b, types : NewRows(p, b, types)
<1>1. PICK u : u = task[p] OBVIOUS
<1>2. /\ u.op = "settleMatch" /\ u.stage = "next" /\ Goto(p, Idle)
      /\ matchStatus' = [matchStatus EXCEPT ![u.match] = "finished"]
      /\ marketStatus' = [k \in Markets |->
           IF MatchOf[k] = u.match THEN "settled" ELSE marketStatus[k]]
      /\ odds' = odds
      /\ (W!Holds(p) = {} /\ UNCHANGED wvars) \/ W!Commit(p)
  BY <1>1 DEF CommitSettlement, At, Finish
<1>3. SettleTask(u) BY <1>1, <1>2, TaskIs DEF Inv
<1>4. call[p] = None BY <1>1, <1>2 DEF Inv, CallsInv
<1>5. W!Commit(p) \/ (UNCHANGED wvars /\ Due(p) = {}) BY <1>2, <1>4, NothingDue DEF Inv
<1>6. Kept(p) /\ bets' \in [Bets -> BetRow \union {None}]
      /\ \A b \in Bets : bets[b] = None => bets'[b] = None
  BY SettlementKeeps
<1>7. /\ matchStatus' \in [Matches -> {"scheduled", "finished"}]
      /\ marketStatus' \in [Markets -> {"open", "suspended", "settled"}]
      /\ odds' \in [Selections -> OddsRange]
  BY <1>2 DEF Inv, RowsOK
<1>8. \A b : Decides(u, b) = IF b \in DOMAIN u.marked THEN u.marked[b] ELSE "nothing"
  BY <1>2 DEF Decides
<1>9. ASSUME NEW b \in Existing, b \in DOMAIN u.marked
      PROVE  /\ Verdict(bets'[b], u.marked[b]) /\ u.marked[b] \in Marks
             /\ Worth(bets'[b]) = Worth(BetSeenBy(u, b))
             /\ bets'[b].status = u.marked[b]
  <2>1. PICK seen \in BetRow : seen = BetSeenBy(u, b) /\ seen.user = bets[b].user
          /\ seen.stake = bets[b].stake /\ seen.locked = bets[b].locked
    BY SeenBet DEF Existing, Inv, RowsOK
  <2>2. PICK new \in BetRow : new = bets'[b] /\ new.user = bets[b].user
          /\ new.stake = bets[b].stake /\ new.locked = bets[b].locked
          /\ new.result = seen.result /\ new.status = u.marked[b]
    BY <1>1, <1>9, <2>1, CommitSettlementIs
  <2>3. u.marked[b] \in Marks BY <1>3, <1>9 DEF SettleTask
  <2>4. Verdict(seen, u.marked[b])
    BY <1>1, <1>2, <1>8, <1>9, <2>1, <2>3 DEF Inv, SettleInv, SettlesOK, Marks
  <2>5. /\ Worth(new) = Worth(seen)
        /\ \A status : Verdict(new, status) <=> Verdict(seen, status)
    BY <2>1, <2>2, SameWorth
  <2>6. QED BY <2>1, <2>2, <2>3, <2>4, <2>5
<1>10. \A b \in Bets : bets'[b] # None => Verdict(bets'[b], bets'[b].status)
  <2>1. SUFFICES ASSUME NEW b \in Existing PROVE Verdict(bets'[b], bets'[b].status)
    BY <1>6 DEF Existing
  <2>2. CASE b \in DOMAIN u.marked BY <1>9, <2>2
  <2>3. CASE b \notin DOMAIN u.marked
    <3>1. bets'[b].status = bets[b].status BY <1>1, <2>3, CommitSettlementIs
    <3>2. Verdict(bets[b], bets[b].status) BY DEF Inv, SettleInv
    <3>3. bets[b].status \in Statuses BY BetFacts DEF Existing, Inv, RowsOK
    <3>4. CASE bets[b].status \in {"open", "cashed_out"} BY <3>1, <3>4, OpenVerdict
    <3>5. CASE bets[b].status \in Marks
      <4>1. WithResult(bets[b], "pending") = {} BY <3>2, <3>5 DEF Verdict
      <4>2. QED BY <1>6, <3>1, <3>2, <4>1, DecidedStays DEF Inv
    <3>6. QED BY <3>3, <3>4, <3>5 DEF Statuses, Marks
  <2>4. QED BY <2>2, <2>3
<1>11. StakesTaken(p)
  <2>1. \A b : <<"bet_stake", b>> \notin Due(p) BY <1>1, <1>2, DueOfSettlement
  <2>2. QED BY <1>6, <2>1 DEF StakesTaken
<1>12. PaysWorth(p)
  <2>1. SUFFICES ASSUME NEW b \in Bets, <<"bet_payout", b>> \in Due(p)
        PROVE  /\ bets'[b] # None
               /\ WithResult(bets'[b], "pending") = {}
               /\ DueAmount(p, <<"bet_payout", b>>) = Worth(bets'[b])
    BY DEF PaysWorth
  <2>2. Decides(u, b) = "won" BY <1>1, <1>2, <2>1, DueOfSettlement
  <2>3. b \in DOMAIN u.marked /\ u.marked[b] = "won" BY <1>8, <2>2
  <2>4. b \in Existing BY <1>3, <2>3 DEF SettleTask
  <2>5. WithResult(bets'[b], "pending") = {} BY <1>9, <2>3, <2>4 DEF Verdict
  <2>6. DueAmount(p, <<"bet_payout", b>>) = Worth(BetSeenBy(u, b)) BY <1>1 DEF DueAmount
  <2>7. bets'[b] # None BY <1>6, <2>4 DEF Kept
  <2>8. QED BY <1>9, <2>3, <2>4, <2>5, <2>6, <2>7
<1>13. \A b \in Bets : bets[b] = None /\ bets'[b] # None =>
        task[p].op = "placeBet" /\ b = task[p].bet
  BY <1>6
<1>14. QED BY <1>2, <1>4, <1>5, <1>6, <1>7, <1>10, <1>11, <1>12, <1>13, CommitStep

-----------------------------------------------------------------------------
\* The invariant of every behaviour.
LEMMA InitInv == Init => Inv
<1> SUFFICES ASSUME Init PROVE Inv OBVIOUS
<1>1. /\ bets = Placed /\ \A p \in Sessions : task[p] = Idle /\ call[p] = None
      /\ \A u \in Users : ledger[u] = << >> /\ committed[u] = 0 /\ lock[u] = None
  BY DEF Init, W!Init
<1>2. RowsOK
  <2>1. DOMAIN task = Sessions /\ \A p \in Sessions : TaskOK(p) BY <1>1 DEF Init, TaskOK
  <2>2. matchStatus \in [Matches -> {"scheduled", "finished"}] BY DEF Init
  <2>3. marketStatus \in [Markets -> {"open", "suspended", "settled"}] BY DEF Init
  <2>4. odds \in [Selections -> OddsRange] BY DataAssumption DEF Init
  <2>5. bets \in [Bets -> BetRow \union {None}] BY <1>1, PlacedAssumption
  <2>6. QED BY <2>1, <2>2, <2>3, <2>4, <2>5 DEF RowsOK
<1>3. \A p \in Sessions : Due(p) = {} BY <1>1 DEF Due, At, Idle
<1>4. EntriesInv
  <2>1. << >> \in Seq(W!Row) /\ Len(<< >>) = 0 OBVIOUS
  <2>2. W!TypeOK BY <1>1, <2>1, WalletAssumption DEF Init, W!Init, W!TypeOK
  <2>3. ASSUME NEW p \in Sessions PROVE CallOK(p) /\ DraftsOK(p)
    <3>1. \A u, n : ~ Draft(p, u, n) BY <1>1, NoneIsNothing DEF Draft
    <3>2. QED BY <1>1, <1>3, <3>1 DEF CallOK, DraftsOK
  <2>4. \A u \in Users : /\ committed[u] <= Len(ledger[u])
                         /\ lock[u] = None => committed[u] = Len(ledger[u])
    BY <1>1, <2>1
  <2>5. QED BY <2>2, <2>3, <2>4 DEF EntriesInv
<1>5. CallsInv BY <1>1 DEF CallsInv
<1>6. SettleInv
  <2>1. Apart BY <1>1 DEF Apart, Settling, Idle
  <2>2. \A p \in Sessions : SettlesOK(p) BY <1>1 DEF SettlesOK, Idle
  <2>3. \A b \in Existing : Verdict(bets[b], bets[b].status)
    BY <1>1, PlacedAssumption, OpenVerdict DEF Existing
  <2>4. QED BY <2>1, <2>2, <2>3 DEF SettleInv
<1>7. MoneyInv
  <2>1. \A b, types : RowsOf(b, types) = {}
    <3>1. \A u \in Users : 1..committed[u] = {} BY <1>1
    <3>2. QED BY <3>1, RowsAre
  <2>2. QED BY <1>1, <2>1 DEF MoneyInv, PaidOK, StakeOK
<1>8. QED BY <1>2, <1>4, <1>5, <1>6, <1>7 DEF Inv

LEMMA KeepsRequest ==
  ASSUME Inv, NEW p \in Sessions, Request(p)
  PROVE  Inv'
BY KeepsPlaceBet, KeepsCashOut, KeepsSettleMatch, KeepsSetMarketStatus DEF Request

LEMMA KeepsProceed ==
  ASSUME Inv, NEW p \in Sessions, Proceed(p)
  PROVE  Inv'
<1>1. ASSUME NEW s \in Selections, ValidateLeg(p, s) PROVE Inv' BY <1>1, KeepsValidateLeg
<1>2. ASSUME NEW b \in Bets, LoadBet(p, b) PROVE Inv' BY <1>2, KeepsLoadBet
<1>3. ASSUME DebitStake(p) \/ CreditCashOut(p) \/ LegsVoid(p) \/ LegsWon(p) PROVE Inv'
  BY <1>3, KeepsDebitStake, KeepsCreditCashOut, KeepsLegsVoid, KeepsLegsWon
<1>4. ASSUME CommitBet(p) \/ CommitCashOut(p) \/ CommitSettlement(p) PROVE Inv'
  BY <1>4, KeepsCommitBet, KeepsCommitCashOut, KeepsCommitSettlement
<1>5. ASSUME QuoteCashOut(p) \/ LegsPending(p) \/ LegsLost(p) \/ MarkBet(p) PROVE Inv'
  BY <1>5, KeepsQuoteCashOut, KeepsLegsPending, KeepsLegsLost, KeepsMarkBet
<1>6. ASSUME WriteMarketStatus(p) \/ LedgerStep(p) PROVE Inv'
  BY <1>6, KeepsWriteMarketStatus, KeepsLedgerStep
<1>7. ASSUME Reject(p) \/ BreakDeadlock(p) PROVE Inv'
  BY <1>7, KeepsFail DEF Reject, BreakDeadlock
<1>8. QED BY <1>1, <1>2, <1>3, <1>4, <1>5, <1>6, <1>7 DEF Proceed

LEMMA NextInv == Inv /\ [Next]_vars => Inv'
<1> SUFFICES ASSUME Inv, [Next]_vars PROVE Inv' OBVIOUS
<1>1. CASE UNCHANGED vars
  <2>1. /\ task' = task /\ bets' = bets /\ matchStatus' = matchStatus
        /\ marketStatus' = marketStatus /\ odds' = odds /\ UNCHANGED wvars
    BY <1>1 DEF vars, bvars
  <2>2. \A q \in Sessions : SameDue(q) BY <2>1, SameTask
  <2>3. EntriesInv' /\ RowsStay BY <2>1, <2>2, QuietEntries DEF Inv
  <2>4. CallsInv' BY <2>1 DEF Inv, CallsInv, wvars
  <2>5. QED BY <2>1, <2>3, <2>4, SameTasks DEF Inv, RowsOK
<1>2. ASSUME NEW p \in Sessions, Request(p) \/ Proceed(p) \/ Abort(p) PROVE Inv'
  BY <1>2, KeepsRequest, KeepsProceed, KeepsFail DEF Abort
<1>3. ASSUME NEW s \in Selections, DriftOdds(s) PROVE Inv' BY <1>3, KeepsDrift
<1>4. QED BY <1>1, <1>2, <1>3 DEF Next

LEMMA Invariance == Spec => []Inv
BY InitInv, NextInv, PTL DEF Spec

-----------------------------------------------------------------------------
\* What a session executes is a request of its own.
LEMMA IdleIsNobodys == Inv => \A p \in Sessions : task[p].op \in Duties[p] \union {"idle"}
BY DEF Inv, RowsOK, TaskOK, Idle

\* Every row of the tables is one the schema allows, a wallet is never
\* overdrawn, and a session only executes the requests that are its own,
\* whatever requests run at once and wherever one is cut short.
THEOREM BetsKeepTheirTypes == Spec => []TypeOK
<1>1. Inv => TypeOK BY IdleIsNobodys DEF Inv, RowsOK, EntriesInv, TypeOK
<1>2. QED BY <1>1, Invariance, PTL

\* A bet exists if and only if its stake was taken, once and in full: no
\* interleaving and no error of placeBet separates the bet from its stake.
THEOREM StakesAreTakenOnce == Spec => []StakeIffBet
<1>1. Inv => StakeIffBet
  <2>1. SUFFICES ASSUME Inv, NEW b \in Bets, Placed[b] = None
        PROVE  /\ Cardinality(RowsOf(b, {"bet_stake"})) = IF bets[b] = None THEN 0 ELSE 1
               /\ \A r \in RowsOf(b, {"bet_stake"}) : AmountOf(r) = 0 - bets[b].stake
    BY DEF StakeIffBet
  <2>2. StakeOK(b) BY <2>1 DEF Inv, MoneyInv
  <2>3. CASE bets[b] = None
    <3>1. RowsOf(b, {"bet_stake"}) = {} BY <2>1, <2>2, <2>3 DEF StakeOK
    <3>2. QED BY <2>3, <3>1, FS_EmptySet
  <2>4. CASE bets[b] # None
    <3>1. PICK r : RowsOf(b, {"bet_stake"}) = {r} /\ AmountOf(r) = 0 - bets[b].stake
      BY <2>1, <2>2, <2>4 DEF StakeOK
    <3>2. Cardinality({r}) = 1 BY FS_Singleton
    <3>3. QED BY <2>4, <3>1, <3>2
  <2>5. QED BY <2>3, <2>4
<1>2. QED BY <1>1, Invariance, PTL

\* What a settlement decided of a bet is what its legs say, and what it paid is
\* what the won legs are worth, whatever other settlements and cash-outs did
\* while it read the bet, its legs and the wallet.
THEOREM DecisionsMatchTheLegs == Spec => []DecisionMatchesLegs
<1>1. Inv => DecisionMatchesLegs
  <2>1. SUFFICES ASSUME Inv, NEW b \in Existing
        PROVE  LET bet == bets[b]
                   won == WithResult(bet, "won")
               IN  /\ bet.status = "lost" => WithResult(bet, "lost") # {}
                   /\ bet.status = "void" => WithResult(bet, "void") = DOMAIN bet.locked
                   /\ bet.status = "won" =>
                        won # {} /\ won \union WithResult(bet, "void") = DOMAIN bet.locked
                   /\ \A r \in RowsOf(b, {"bet_payout"}) :
                        AmountOf(r) = NetPayout(bet, GrossPayout(bet, won), TaxPercent[bet.user])
    BY DEF DecisionMatchesLegs
  <2>2. Verdict(bets[b], bets[b].status) BY <2>1 DEF Inv, SettleInv
  <2>3. PaidOK(b) BY <2>1 DEF Inv, MoneyInv, Existing
  <2>4. \A r \in RowsOf(b, {"bet_payout"}) : AmountOf(r) = Worth(bets[b]) BY <2>3 DEF PaidOK
  <2>5. QED BY <2>2, <2>4 DEF Verdict, Worth
<1>2. QED BY <1>1, Invariance, PTL

-----------------------------------------------------------------------------
\* A step either leaves the bets and the committed rows alone or is one of the
\* three commits.
LEMMA RowsStayPut ==
  ASSUME UNCHANGED wvars \/ (\E p, u, amount, tag : W!Select(p, u, amount, tag))
  PROVE  RowsStay
<1>1. committed' = committed /\ ledger' = ledger BY DEF wvars, W!Select
<1>2. QED BY <1>1 DEF RowsStay

LEMMA BetsChange ==
  ASSUME Inv, [Next]_vars
  PROVE  \/ bets' = bets /\ RowsStay
         \/ \E p \in Sessions : CommitBet(p) \/ CommitCashOut(p) \/ CommitSettlement(p)
<1> DEFINE Still == bets' = bets /\ RowsStay
<1>1. CASE UNCHANGED vars BY <1>1, RowsStayPut DEF vars, bvars
<1>2. ASSUME NEW p \in Sessions, Request(p) PROVE Still
  <2>1. bets' = bets /\ UNCHANGED wvars
    BY <1>2 DEF Request, PlaceBet, CashOut, SettleMatch, SetMarketStatus, bvars
  <2>2. QED BY <2>1, RowsStayPut
<1>3. ASSUME NEW p \in Sessions, Fail(p) PROVE Still BY <1>3, KeepsFail
<1>4. ASSUME NEW p \in Sessions, Proceed(p)
      PROVE  Still \/ CommitBet(p) \/ CommitCashOut(p) \/ CommitSettlement(p)
  <2>1. ASSUME NEW s \in Selections, ValidateLeg(p, s) PROVE Still
    <3>1. bets' = bets /\ UNCHANGED wvars BY <2>1 DEF ValidateLeg, bvars
    <3>2. QED BY <3>1, RowsStayPut
  <2>2. ASSUME NEW b \in Bets, LoadBet(p, b) PROVE Still
    <3>1. bets' = bets /\ UNCHANGED wvars BY <2>2 DEF LoadBet, bvars
    <3>2. QED BY <3>1, RowsStayPut
  <2>3. ASSUME DebitStake(p) \/ CreditCashOut(p) \/ LegsVoid(p) \/ LegsWon(p) PROVE Still
    <3>1. bets' = bets /\ \E q, u, amount, tag : W!Select(q, u, amount, tag)
      BY <2>3 DEF DebitStake, CreditCashOut, LegsVoid, LegsWon, bvars
    <3>2. QED BY <3>1, RowsStayPut
  <2>4. ASSUME QuoteCashOut(p) \/ LegsPending(p) \/ LegsLost(p) \/ MarkBet(p) PROVE Still
    <3>1. bets' = bets /\ UNCHANGED wvars
      BY <2>4 DEF QuoteCashOut, LegsPending, LegsLost, MarkBet, bvars
    <3>2. QED BY <3>1, RowsStayPut
  <2>5. ASSUME WriteMarketStatus(p) PROVE Still
    <3>1. bets' = bets /\ UNCHANGED wvars BY <2>5 DEF WriteMarketStatus
    <3>2. QED BY <3>1, RowsStayPut
  <2>6. ASSUME LedgerStep(p) PROVE Still BY <2>6, KeepsLedgerStep
  <2>7. ASSUME Reject(p) \/ BreakDeadlock(p) PROVE Still
    BY <1>3, <2>7 DEF Reject, BreakDeadlock
  <2>8. QED BY <1>4, <2>1, <2>2, <2>3, <2>4, <2>5, <2>6, <2>7 DEF Proceed
<1>5. ASSUME NEW s \in Selections, DriftOdds(s) PROVE Still
  <2>1. bets' = bets /\ UNCHANGED wvars BY <1>5 DEF DriftOdds
  <2>2. QED BY <2>1, RowsStayPut
<1>6. QED BY <1>1, <1>2, <1>3, <1>4, <1>5 DEF Next, Abort

\* A decided leg is never decided again, whatever scores a match is settled with
\* and however many settlements and cash-outs run at once.
THEOREM DecidedLegsAreFinal == Spec => DecidedLegsStand
<1> DEFINE Stands == \A b \in Existing : \A s \in DOMAIN bets[b].locked :
                       bets[b].result[s] # "pending" => bets'[b].result[s] = bets[b].result[s]
<1>1. ASSUME Inv, [Next]_vars PROVE Stands
  <2>1. CASE bets' = bets BY <2>1
  <2>2. ASSUME NEW p \in Sessions, Kept(p) PROVE Stands BY <2>2 DEF Kept
  <2>3. ASSUME NEW p \in Sessions, CommitBet(p) \/ CommitCashOut(p) \/ CommitSettlement(p)
        PROVE  Kept(p)
    BY <1>1, <2>3, CommitBetIs, CommitCashOutIs, SettlementKeeps
  <2>4. QED BY <1>1, <2>1, <2>2, <2>3, BetsChange
<1>2. QED BY <1>1, Invariance, PTL DEF Spec, DecidedLegsStand
-----------------------------------------------------------------------------
\* When one session alone cashes out and settles.
LEMMA PayerIsAlone ==
  ASSUME RowsOK, OnePayer, NEW p \in Sessions, NEW q \in Sessions,
         task[p].op \in {"cashOut", "settleMatch"}, task[q].op \in {"cashOut", "settleMatch"}
  PROVE  p = q
<1>1. ASSUME NEW r \in Sessions, task[r].op \in {"cashOut", "settleMatch"}
      PROVE  Duties[r] \intersect {"cashOut", "settleMatch"} # {}
  <2>1. task[r].op \in Duties[r] BY <1>1, TaskIs DEF Idle
  <2>2. QED BY <1>1, <2>1
<1>2. QED BY <1>1 DEF OnePayer

LEMMA SamePayer ==
  ASSUME NEW t, bets' = bets
  PROVE  /\ DecidesOpen(t)' <=> DecidesOpen(t)
         /\ LeavesNone(t)' <=> LeavesNone(t)
         /\ OfferOK(t)' <=> OfferOK(t)
<1>1. Existing' = Existing /\ \A b : Decides(t, b)' = Decides(t, b) BY DEF Existing, Decides
<1>2. \A b : BetSeenBy(t, b)' = BetSeenBy(t, b) BY SeesRow
<1>3. DecidesOpen(t)' <=> DecidesOpen(t) BY DEF DecidesOpen
<1>4. LeavesNone(t)' <=> LeavesNone(t) BY <1>1, <1>2 DEF LeavesNone, WithResult
<1>5. OfferOK(t)' <=> OfferOK(t) BY DEF OfferOK, BestPayout, GrossPayout, WithResult
<1>6. QED BY <1>3, <1>4, <1>5

\* A step that changes no row keeps PayerInv if its own session's task does.
LEMMA PayerTurn ==
  ASSUME Inv, PayerInv, bets' = bets, RowsStay, NEW p \in Sessions, NEW t, Goto(p, t),
         DecidesOpen(t), LeavesNone(t), OfferOK(t)
  PROVE  PayerInv'
<1>1. task'[p] = t /\ \A q \in Sessions : q # p => task'[q] = task[q]
  BY DEF Goto, Inv, RowsOK
<1>2. ASSUME NEW q \in Sessions
      PROVE  (DecidesOpen(task[q]) /\ LeavesNone(task[q]) /\ OfferOK(task[q]))'
  <2>1. PICK u : u = task'[q] OBVIOUS
  <2>2. DecidesOpen(u) /\ LeavesNone(u) /\ OfferOK(u) BY <1>1, <2>1 DEF PayerInv
  <2>3. DecidesOpen(u)' /\ LeavesNone(u)' /\ OfferOK(u)' BY <2>2, SamePayer
  <2>4. QED BY <2>1, <2>3 DEF DecidesOpen, LeavesNone, OfferOK, Decides, BetSeenBy, ResultSeenBy
<1>3. \A b \in Bets : CreditedOK(b)'
  <2>1. ASSUME NEW b \in Bets PROVE CreditedOK(b)'
    <3>1. RowsOf(b, CreditTypes)' = RowsOf(b, CreditTypes) BY SameRows
    <3>2. CreditedOK(b) BY DEF PayerInv
    <3>3. QED BY <3>1, <3>2 DEF CreditedOK, CreditTypes
  <2>2. QED BY <2>1
<1>4. (\A b \in Existing : bets[b].status = "open" => WithResult(bets[b], "pending") # {})'
  BY DEF PayerInv, Existing, WithResult
<1>5. QED BY <1>2, <1>3, <1>4 DEF PayerInv

\* Requests that are neither a cash-out nor a settlement, and the end of any.
LEMMA NoPayer ==
  ASSUME NEW t, t.op \notin {"cashOut", "settleMatch"}
  PROVE  DecidesOpen(t) /\ LeavesNone(t) /\ OfferOK(t)
BY DEF DecidesOpen, LeavesNone, OfferOK

LEMMA PayerFail ==
  ASSUME Inv, PayerInv, NEW p \in Sessions, Fail(p)
  PROVE  PayerInv'
<1>1. Goto(p, Idle) BY DEF Fail, Finish
<1>2. Idle.op \notin {"cashOut", "settleMatch"} BY DEF Idle
<1>3. DecidesOpen(Idle) /\ LeavesNone(Idle) /\ OfferOK(Idle) BY <1>2, NoPayer
<1>4. QED BY <1>1, <1>3, KeepsFail, PayerTurn

LEMMA SettlementTurn ==
  ASSUME Inv, PayerInv, NEW p \in Sessions, NEW u, u = task[p], u.op = "settleMatch",
         NEW t, Goto(p, t), bets' = bets, RowsStay,
         t.op = "settleMatch", t.match = u.match, t.score = u.score, t.decided = u.decided,
         DecidesOpen(t),
         \A b \in Existing :
           (/\ bets[b].status = "open" /\ b \notin t.todo /\ Decides(t, b) = "nothing"
            /\ ~ (t.stage = "legs" /\ t.bet = b))
           => \/ WithResult(BetSeenBy(u, b), "pending") # {}
              \/ (/\ b \notin u.todo /\ Decides(u, b) = "nothing"
                  /\ ~ (u.stage = "legs" /\ u.bet = b))
  PROVE  PayerInv'
<1>1. \A b : BetSeenBy(t, b) = BetSeenBy(u, b) BY DEF BetSeenBy, ResultSeenBy
<1>2. LeavesNone(u) BY DEF PayerInv
<1>3. LeavesNone(t) BY <1>1, <1>2 DEF LeavesNone
<1>4. OfferOK(t) BY DEF OfferOK
<1>5. QED BY <1>3, <1>4, PayerTurn

\* The offer of a cash-out is within what the bet can still win.
LEMMA OfferIsOK ==
  ASSUME NEW bet \in BetRow, NEW current \in [Selections -> OddsRange],
         WithResult(bet, "pending") # {}, WithResult(bet, "lost") = {}
  PROVE  CashOutValue(bet, current) <= BestPayout(bet)
<1>1. PICK pending \in SUBSET DOMAIN bet.locked : pending = WithResult(bet, "pending") BY WithResultIn
<1>2. \A s \in pending : current[s] \in Nat /\ current[s] > Hundred
  <2>1. pending \subseteq Selections BY BetFacts
  <2>2. QED BY <2>1, OddsAbove
<1>3. PICK kept : kept = DOMAIN bet.locked \ WithResult(bet, "void") OBVIOUS
<1>4. bet.result \in [DOMAIN bet.locked -> LegResults] /\ Priced(bet) BY BetFacts
<1>5. PICK won \in SUBSET DOMAIN bet.locked : won = WithResult(bet, "won") BY WithResultIn
<1>6. CashOutValue(bet, current) <= GrossPayout(bet, won \union pending)
  BY <1>1, <1>2, <1>4, <1>5, OfferWithinReach
<1>7. won \union pending = kept
  BY <1>1, <1>3, <1>4, <1>5 DEF WithResult, LegResults
<1>8. QED BY <1>3, <1>6, <1>7 DEF BestPayout

-----------------------------------------------------------------------------
\* PayerInv, action by action.
LEMMA PayerRequest ==
  ASSUME Inv, PayerInv, NEW p \in Sessions, Request(p)
  PROVE  PayerInv'
<1>1. bets' = bets /\ RowsStay
  <2>1. bets' = bets /\ UNCHANGED wvars
    BY DEF Request, PlaceBet, CashOut, SettleMatch, SetMarketStatus, bvars
  <2>2. QED BY <2>1, RowsStayPut
<1>2. ASSUME NEW b \in Bets, NEW u \in Users, NEW stake \in Stakes, NEW slip \in Slips,
             PlaceBet(p, b, u, stake, slip)
      PROVE  PayerInv'
  <2>1. PICK t : t = [op |-> "placeBet", stage |-> "validate", bet |-> b, user |-> u,
                      stake |-> stake, slip |-> slip, locked |-> << >>]
    OBVIOUS
  <2>2. Goto(p, t) BY <1>2, <2>1 DEF PlaceBet
  <2>3. t.op \notin {"cashOut", "settleMatch"} BY <2>1
  <2>4. DecidesOpen(t) /\ LeavesNone(t) /\ OfferOK(t) BY <2>3, NoPayer
  <2>5. QED BY <1>1, <2>2, <2>4, PayerTurn
<1>3. ASSUME NEW k \in Markets, NEW status \in {"open", "suspended"}, SetMarketStatus(p, k, status)
      PROVE  PayerInv'
  <2>1. PICK t : t = [op |-> "setMarketStatus", stage |-> "write", market |-> k, status |-> status]
    OBVIOUS
  <2>2. Goto(p, t) BY <1>3, <2>1 DEF SetMarketStatus
  <2>3. t.op \notin {"cashOut", "settleMatch"} BY <2>1
  <2>4. DecidesOpen(t) /\ LeavesNone(t) /\ OfferOK(t) BY <2>3, NoPayer
  <2>5. QED BY <1>1, <2>2, <2>4, PayerTurn
<1>4. ASSUME NEW b \in Bets, CashOut(p, b) PROVE PayerInv'
  <2>1. PICK t : t = [op |-> "cashOut", stage |-> "quote", bet |-> b] OBVIOUS
  <2>2. Goto(p, t) /\ bets[b].status = "open" BY <1>4, <2>1 DEF CashOut, IsOpen
  <2>3. DecidesOpen(t) /\ LeavesNone(t) /\ OfferOK(t)
    BY <2>1, <2>2 DEF DecidesOpen, LeavesNone, OfferOK
  <2>4. QED BY <1>1, <2>2, <2>3, PayerTurn
<1>5. ASSUME NEW m \in Matches, NEW score \in Scores, SettleMatch(p, m, score) PROVE PayerInv'
  <2>1. PICK decided, todo : decided = DecidedLegs(m) /\ todo = EveryBetOn(m) OBVIOUS
  <2>2. PICK t : t = [op |-> "settleMatch", stage |-> "next", match |-> m, score |-> score,
                      decided |-> decided, todo |-> todo, marked |-> << >>]
    OBVIOUS
  <2>3. Goto(p, t) BY <1>5, <2>1, <2>2 DEF SettleMatch
  <2>4. DecidesOpen(t) BY <2>2, NoLegYet DEF DecidesOpen
  <2>5. ASSUME NEW b \in Existing, bets[b].status = "open", b \notin todo
        PROVE  WithResult(BetSeenBy(t, b), "pending") # {}
    <3>1. PICK bet \in BetRow : bet = bets[b] BY DEF Inv, RowsOK, Existing
    <3>2. PICK seen : seen = SeenRow(t, b, bet) OBVIOUS
    <3>3. PICK s \in DOMAIN bet.locked : bet.result[s] = "pending"
      BY <2>5, <3>1 DEF PayerInv, WithResult
    <3>4. LegsOn(b, m) = {} BY <2>1, <2>5 DEF EveryBetOn
    <3>5. MatchOfLeg(s) # t.match BY <2>2, <3>1, <3>3, <3>4 DEF LegsOn
    <3>6. seen.locked = bet.locked /\ seen.result[s] = "pending"
      BY <3>2, <3>3, <3>5, SeenRowIs DEF SeenResult
    <3>7. s \in WithResult(seen, "pending") BY <3>3, <3>6 DEF WithResult
    <3>8. QED BY <3>1, <3>2, <3>7, SeesRow
  <2>6. LeavesNone(t) BY <2>2, <2>5 DEF LeavesNone
  <2>7. OfferOK(t) BY <2>2 DEF OfferOK
  <2>8. QED BY <1>1, <2>3, <2>4, <2>6, <2>7, PayerTurn
<1>6. QED BY <1>2, <1>3, <1>4, <1>5 DEF Request

LEMMA PayerPlaces ==
  ASSUME Inv, PayerInv, NEW p \in Sessions,
         (\E s \in Selections : ValidateLeg(p, s)) \/ DebitStake(p) \/ WriteMarketStatus(p)
  PROVE  PayerInv'
<1>1. bets' = bets /\ RowsStay
  <2>1. bets' = bets /\ (UNCHANGED wvars \/ \E q, u, amount, tag : W!Select(q, u, amount, tag))
    BY DEF ValidateLeg, DebitStake, WriteMarketStatus, bvars
  <2>2. QED BY <2>1, RowsStayPut
<1>2. PICK u : u = task[p] OBVIOUS
<1>3. ASSUME NEW s \in Selections, ValidateLeg(p, s)
      PROVE  \E t : Goto(p, t) /\ t.op \notin {"cashOut", "settleMatch"}
  <2>1. u.op = "placeBet" BY <1>2, <1>3 DEF ValidateLeg, At
  <2>2. PlaceTask(u) BY <1>2, <2>1, TaskIs DEF Inv
  <2>3. PICK locked : locked = [l \in DOMAIN u.locked \union {s} |->
                                  IF l = s THEN odds[s] ELSE u.locked[l]]
    OBVIOUS
  <2>4. PICK t : t = [u EXCEPT !.locked = locked] OBVIOUS
  <2>5. Goto(p, t) BY <1>2, <1>3, <2>3, <2>4 DEF ValidateLeg
  <2>6. t.op = "placeBet" BY <2>2, <2>4 DEF PlaceTask
  <2>7. QED BY <2>5, <2>6
<1>4. ASSUME DebitStake(p) PROVE \E t : Goto(p, t) /\ t.op \notin {"cashOut", "settleMatch"}
  <2>1. u.op = "placeBet" BY <1>2, <1>4 DEF DebitStake, At
  <2>2. PlaceTask(u) BY <1>2, <2>1, TaskIs DEF Inv
  <2>3. PICK t : t = [u EXCEPT !.stage = "debit"] OBVIOUS
  <2>4. Goto(p, t) BY <1>2, <1>4, <2>3 DEF DebitStake
  <2>5. t.op = "placeBet" BY <2>2, <2>3 DEF PlaceTask
  <2>6. QED BY <2>4, <2>5
<1>5. ASSUME WriteMarketStatus(p) PROVE \E t : Goto(p, t) /\ t.op \notin {"cashOut", "settleMatch"}
  <2>1. Goto(p, Idle) BY <1>5 DEF WriteMarketStatus, Finish
  <2>2. Idle.op \notin {"cashOut", "settleMatch"} BY DEF Idle
  <2>3. QED BY <2>1, <2>2
<1>6. PICK t : Goto(p, t) /\ t.op \notin {"cashOut", "settleMatch"} BY <1>3, <1>4, <1>5
<1>7. DecidesOpen(t) /\ LeavesNone(t) /\ OfferOK(t) BY <1>6, NoPayer
<1>8. QED BY <1>1, <1>6, <1>7, PayerTurn

LEMMA PayerCashesOut ==
  ASSUME Inv, PayerInv, NEW p \in Sessions, QuoteCashOut(p) \/ CreditCashOut(p)
  PROVE  PayerInv'
<1>1. bets' = bets /\ RowsStay
  <2>1. bets' = bets /\ (UNCHANGED wvars \/ \E q, u, amount, tag : W!Select(q, u, amount, tag))
    BY DEF QuoteCashOut, CreditCashOut, bvars
  <2>2. QED BY <2>1, RowsStayPut
<1>2. PICK u : u = task[p] OBVIOUS
<1>3. u.op = "cashOut" BY <1>2 DEF QuoteCashOut, CreditCashOut, At
<1>4. CashTask(u) /\ DecidesOpen(u) /\ OfferOK(u) BY <1>2, <1>3, TaskIs DEF Inv, PayerInv
<1>5. u.bet \in Existing /\ bets[u.bet].status = "open"
  BY <1>3, <1>4 DEF CashTask, DecidesOpen
<1>6. CASE QuoteCashOut(p)
  <2>1. PICK value : value = CashOutValue(bets[u.bet], odds) OBVIOUS
  <2>2. PICK t : t = [op |-> "cashOut", stage |-> "credit", bet |-> u.bet, value |-> value]
    OBVIOUS
  <2>3. Goto(p, t) /\ WithResult(bets[u.bet], "lost") = {}
    BY <1>2, <1>6, <2>1, <2>2 DEF QuoteCashOut, CanCashOut
  <2>4. value <= BestPayout(bets[u.bet])
    <3>1. bets[u.bet] \in BetRow /\ odds \in [Selections -> OddsRange]
      BY <1>5 DEF Existing, Inv, RowsOK
    <3>2. WithResult(bets[u.bet], "pending") # {} BY <1>5 DEF PayerInv
    <3>3. QED BY <2>1, <2>3, <3>1, <3>2, OfferIsOK
  <2>5. DecidesOpen(t) /\ LeavesNone(t) /\ OfferOK(t)
    BY <1>5, <2>2, <2>4 DEF DecidesOpen, LeavesNone, OfferOK
  <2>6. QED BY <1>1, <2>3, <2>5, PayerTurn
<1>7. CASE CreditCashOut(p)
  <2>1. PICK t : t = [u EXCEPT !.stage = "mark"] OBVIOUS
  <2>2. Goto(p, t) /\ u.stage = "credit" BY <1>2, <1>7, <2>1 DEF CreditCashOut, At
  <2>3. u = [op |-> "cashOut", stage |-> "credit", bet |-> u.bet, value |-> u.value]
    BY <1>3, <1>4, <2>2 DEF CashTask
  <2>4. t = [op |-> "cashOut", stage |-> "mark", bet |-> u.bet, value |-> u.value]
    BY <2>1, <2>3
  <2>5. u.value <= BestPayout(bets[u.bet]) BY <1>3, <1>4, <2>2 DEF OfferOK
  <2>6. DecidesOpen(t) /\ LeavesNone(t) /\ OfferOK(t)
    BY <1>5, <2>4, <2>5 DEF DecidesOpen, LeavesNone, OfferOK
  <2>7. QED BY <1>1, <2>2, <2>6, PayerTurn
<1>8. QED BY <1>6, <1>7

LEMMA PayerLoads ==
  ASSUME Inv, PayerInv, NEW p \in Sessions, NEW b \in Bets, LoadBet(p, b)
  PROVE  PayerInv'
<1>1. PICK u : u = task[p] OBVIOUS
<1>2. /\ u.op = "settleMatch" /\ u.stage = "next" /\ b \in u.todo
      /\ UNCHANGED wvars /\ bets' = bets
  BY <1>1 DEF LoadBet, At, bvars
<1>3. RowsStay BY <1>2, RowsStayPut
<1>4. SettleTask(u) /\ DecidesOpen(u) BY <1>1, <1>2, TaskIs DEF Inv, PayerInv
<1>5. u = [op |-> "settleMatch", stage |-> "next", match |-> u.match, score |-> u.score,
           decided |-> u.decided, todo |-> u.todo, marked |-> u.marked]
  BY <1>2, <1>4 DEF SettleTask
<1>6. \A c \in DOMAIN u.marked : bets[c].status = "open" BY <1>2, <1>4 DEF DecidesOpen
<1>7. CASE IsOpen(b)
  <2>1. PICK t : t = [op |-> "settleMatch", stage |-> "legs", match |-> u.match,
                      score |-> u.score, decided |-> u.decided, todo |-> u.todo \ {b},
                      marked |-> u.marked, bet |-> b]
    OBVIOUS
  <2>2. Goto(p, t) BY <1>1, <1>7, <2>1 DEF LoadBet
  <2>3. DecidesOpen(t) BY <1>6, <1>7, <2>1 DEF DecidesOpen, IsOpen
  <2>4. \A c : Decides(t, c) = Decides(u, c) BY <1>2, <2>1 DEF Decides
  <2>5. t.op = "settleMatch" /\ t.stage = "legs" /\ t.match = u.match /\ t.score = u.score
        /\ t.decided = u.decided /\ t.todo = u.todo \ {b} /\ t.bet = b
    BY <2>1
  <2>6. QED BY <1>1, <1>2, <1>3, <2>2, <2>3, <2>4, <2>5, SettlementTurn
<1>8. CASE ~ IsOpen(b)
  <2>1. PICK t : t = [u EXCEPT !.todo = @ \ {b}] OBVIOUS
  <2>2. Goto(p, t) BY <1>1, <1>8, <2>1 DEF LoadBet
  <2>3. t = [op |-> "settleMatch", stage |-> "next", match |-> u.match,
             score |-> u.score, decided |-> u.decided, todo |-> u.todo \ {b},
             marked |-> u.marked]
    BY <1>5, <2>1
  <2>4. DecidesOpen(t) BY <1>6, <2>3 DEF DecidesOpen
  <2>5. \A c : Decides(t, c) = Decides(u, c) BY <1>2, <2>3 DEF Decides
  <2>6. t.op = "settleMatch" /\ t.stage = "next" /\ t.match = u.match /\ t.score = u.score
        /\ t.decided = u.decided /\ t.todo = u.todo \ {b}
    BY <2>3
  <2>7. bets[b].status # "open" BY <1>8 DEF IsOpen
  <2>8. QED BY <1>1, <1>2, <1>3, <2>2, <2>4, <2>5, <2>6, <2>7, SettlementTurn
<1>9. QED BY <1>7, <1>8

LEMMA PayerLeavesPending ==
  ASSUME Inv, PayerInv, NEW p \in Sessions, LegsPending(p)
  PROVE  PayerInv'
<1>1. PICK u : u = task[p] OBVIOUS
<1>2. PICK t : t = NextBet(u, u.marked) OBVIOUS
<1>3. /\ u.op = "settleMatch" /\ u.stage = "legs" /\ Goto(p, t)
      /\ WithResult(BetSeenBy(u, u.bet), "pending") # {}
      /\ UNCHANGED wvars /\ bets' = bets
  BY <1>1, <1>2 DEF LegsPending, At, bvars
<1>4. RowsStay BY <1>3, RowsStayPut
<1>5. DecidesOpen(u) BY <1>1 DEF PayerInv
<1>6. t = [op |-> "settleMatch", stage |-> "next", match |-> u.match, score |-> u.score,
           decided |-> u.decided, todo |-> u.todo, marked |-> u.marked]
  BY <1>2 DEF NextBet
<1>7. DecidesOpen(t) BY <1>3, <1>5, <1>6 DEF DecidesOpen
<1>8. \A c : Decides(t, c) = Decides(u, c) BY <1>3, <1>6 DEF Decides
<1>9. t.op = "settleMatch" /\ t.stage = "next" /\ t.match = u.match /\ t.score = u.score
      /\ t.decided = u.decided /\ t.todo = u.todo
  BY <1>6
<1>10. QED BY <1>1, <1>3, <1>4, <1>7, <1>8, <1>9, SettlementTurn

LEMMA PayerDecides ==
  ASSUME Inv, PayerInv, NEW p \in Sessions, LegsLost(p) \/ LegsVoid(p) \/ LegsWon(p)
  PROVE  PayerInv'
<1>1. PICK u : u = task[p] OBVIOUS
<1>2. PICK status \in Marks : Goto(p, Marking(u, status))
  BY <1>1 DEF LegsLost, LegsVoid, LegsWon, Marks
<1>3. PICK t : t = Marking(u, status) OBVIOUS
<1>4. u.op = "settleMatch" /\ u.stage = "legs" /\ Goto(p, t) /\ bets' = bets
  BY <1>1, <1>2, <1>3 DEF LegsLost, LegsVoid, LegsWon, At, bvars
<1>5. RowsStay
  <2>1. UNCHANGED wvars \/ \E q, v, amount, tag : W!Select(q, v, amount, tag)
    BY DEF LegsLost, LegsVoid, LegsWon
  <2>2. QED BY <2>1, RowsStayPut
<1>6. DecidesOpen(u) BY <1>1 DEF PayerInv
<1>7. t = [op |-> "settleMatch", stage |-> "mark", match |-> u.match, score |-> u.score,
           decided |-> u.decided, todo |-> u.todo, marked |-> u.marked, bet |-> u.bet,
           status |-> status]
  BY <1>3 DEF Marking
<1>8. DecidesOpen(t) BY <1>4, <1>6, <1>7 DEF DecidesOpen
<1>9. t.op = "settleMatch" /\ t.match = u.match /\ t.score = u.score
      /\ t.decided = u.decided /\ t.todo = u.todo
  BY <1>7
<1>10. \A c : Decides(t, c) = "nothing" => Decides(u, c) = "nothing" /\ u.bet # c
  <2>1. status # "nothing" BY DEF Marks
  <2>2. t.marked = u.marked /\ t.stage = "mark" /\ t.bet = u.bet /\ t.status = status BY <1>7
  <2>3. SettleTask(u) BY <1>1, <1>4, TaskIs DEF Inv
  <2>4. u.bet \notin DOMAIN u.marked BY <1>4, <2>3 DEF SettleTask
  <2>5. QED BY <1>4, <2>1, <2>2, <2>4 DEF Decides
<1>11. QED BY <1>1, <1>4, <1>5, <1>8, <1>9, <1>10, SettlementTurn

LEMMA PayerMarks ==
  ASSUME Inv, PayerInv, NEW p \in Sessions, MarkBet(p)
  PROVE  PayerInv'
<1>1. PICK u : u = task[p] OBVIOUS
<1>2. PICK marked : marked = [b \in DOMAIN u.marked \union {u.bet} |->
                                IF b = u.bet THEN u.status ELSE u.marked[b]]
  OBVIOUS
<1>3. PICK t : t = NextBet(u, marked) OBVIOUS
<1>4. /\ u.op = "settleMatch" /\ u.stage = "mark" /\ Goto(p, t)
      /\ UNCHANGED wvars /\ bets' = bets
  BY <1>1, <1>2, <1>3 DEF MarkBet, At, bvars
<1>5. RowsStay BY <1>4, RowsStayPut
<1>6. SettleTask(u) /\ DecidesOpen(u) BY <1>1, <1>4, TaskIs DEF Inv, PayerInv
<1>7. t = [op |-> "settleMatch", stage |-> "next", match |-> u.match, score |-> u.score,
           decided |-> u.decided, todo |-> u.todo, marked |-> marked]
  BY <1>3 DEF NextBet
<1>8. DOMAIN marked = DOMAIN u.marked \union {u.bet} BY <1>2
<1>9. DecidesOpen(t) BY <1>4, <1>6, <1>7, <1>8 DEF DecidesOpen
<1>10. u.bet \notin DOMAIN u.marked BY <1>4, <1>6 DEF SettleTask
<1>11. \A c : Decides(t, c) = Decides(u, c) BY <1>2, <1>4, <1>7, <1>8, <1>10 DEF Decides
<1>12. t.op = "settleMatch" /\ t.stage = "next" /\ t.match = u.match /\ t.score = u.score
       /\ t.decided = u.decided /\ t.todo = u.todo
  BY <1>7
<1>13. QED BY <1>1, <1>4, <1>5, <1>9, <1>11, <1>12, SettlementTurn

-----------------------------------------------------------------------------
\* The three commits keep PayerInv: what other sessions than the payer do
\* decides no bet.
LEMMA PayerCommit ==
  ASSUME Inv, PayerInv, NEW p \in Sessions, Goto(p, Idle),
         Existing \subseteq Existing',
         \A b \in Existing' \ Existing : \A t :
           b \notin t.decided => WithResult(BetSeenBy(t, b)', "pending") # {},
         \A q \in Sessions : q # p /\ task[q].op \in {"cashOut", "settleMatch"} =>
           \A b \in Existing : bets'[b] = bets[b],
         \A b \in Bets : CreditedOK(b)',
         \A b \in Existing' : bets'[b].status = "open" => WithResult(bets'[b], "pending") # {}
  PROVE  PayerInv'
<1>1. task'[p] = Idle /\ \A q \in Sessions : q # p => task'[q] = task[q]
  BY DEF Goto, Inv, RowsOK
<1>2. ASSUME NEW q \in Sessions
      PROVE  (DecidesOpen(task[q]) /\ LeavesNone(task[q]) /\ OfferOK(task[q]))'
  <2>1. PICK u : u = task'[q] OBVIOUS
  <2>2. CASE u.op \notin {"cashOut", "settleMatch"}
    BY <2>1, <2>2 DEF DecidesOpen, LeavesNone, OfferOK
  <2>3. CASE u.op \in {"cashOut", "settleMatch"}
    <3>1. q # p /\ u = task[q] BY <1>1, <2>1, <2>3 DEF Idle
    <3>2. DecidesOpen(u) /\ LeavesNone(u) /\ OfferOK(u) BY <3>1 DEF PayerInv
    <3>3. \A b \in Existing : bets'[b] = bets[b] BY <2>3, <3>1
    <3>4. CASE u.op = "cashOut"
      <4>1. u.bet \in Existing BY <3>1, <3>4, TaskIs DEF Inv, CashTask
      <4>2. bets'[u.bet] = bets[u.bet] BY <3>3, <4>1
      <4>3. DecidesOpen(u)' BY <3>2, <3>4, <4>2 DEF DecidesOpen
      <4>4. LeavesNone(u)' BY <3>4 DEF LeavesNone
      <4>5. OfferOK(u)' BY <3>2, <4>2 DEF OfferOK, BestPayout, GrossPayout, WithResult
      <4>6. QED BY <2>1, <4>3, <4>4, <4>5
            DEF DecidesOpen, LeavesNone, OfferOK, Decides, BetSeenBy, ResultSeenBy
    <3>5. CASE u.op = "settleMatch"
      <4>1. SettleTask(u) BY <3>1, <3>5, TaskIs DEF Inv
      <4>2. DecidesOpen(u)' BY <3>2, <3>3, <3>5, <4>1 DEF DecidesOpen, SettleTask
      <4>3. OfferOK(u)' BY <3>5 DEF OfferOK
      <4>4. ASSUME NEW b \in Existing', bets'[b].status = "open", b \notin u.todo,
                   Decides(u, b) = "nothing", ~ (u.stage = "legs" /\ u.bet = b)
            PROVE  WithResult(BetSeenBy(u, b)', "pending") # {}
        <5>1. CASE b \in Existing
          <6>1. bets'[b] = bets[b] BY <3>3, <5>1
          <6>2. BetSeenBy(u, b)' = BetSeenBy(u, b) BY <6>1, SeesRow
          <6>3. WithResult(BetSeenBy(u, b), "pending") # {}
            BY <3>2, <3>5, <4>4, <5>1, <6>1 DEF LeavesNone
          <6>4. QED BY <6>2, <6>3
        <5>2. CASE b \notin Existing
          <6>1. b \notin u.decided BY <4>1, <5>2 DEF SettleTask
          <6>2. QED BY <5>2, <6>1
        <5>3. QED BY <5>1, <5>2
      <4>5. \A b : Decides(u, b)' = Decides(u, b) BY DEF Decides
      <4>6. LeavesNone(u)' BY <4>4, <4>5 DEF LeavesNone, WithResult
      <4>7. QED BY <2>1, <4>2, <4>3, <4>6
            DEF DecidesOpen, LeavesNone, OfferOK, Decides, BetSeenBy, ResultSeenBy
    <3>6. QED BY <2>3, <3>4, <3>5
  <2>4. QED BY <2>2, <2>3
<1>3. (\A b \in Existing : bets[b].status = "open" => WithResult(bets[b], "pending") # {})'
  <2>1. \A b \in Existing' : bets'[b].status = "open" => WithResult(bets'[b], "pending") # {}
    OBVIOUS
  <2>2. QED BY <2>1 DEF WithResult
<1>4. QED BY <1>2, <1>3 DEF PayerInv

\* The credits of a bet after a commit.
LEMMA NoCreditAdded ==
  ASSUME Inv, PayerInv, NEW p \in Sessions, NEW b \in Bets, NewRows(p, b, CreditTypes),
         \A tag \in Due(p) : tag[1] \in CreditTypes => tag[2] # b,
         (bets[b] = None /\ bets'[b] # None /\ bets'[b].status = "open")
           \/ (bets[b] = None /\ bets'[b] = None)
           \/ (/\ bets[b] # None /\ bets'[b] # None
               /\ bets'[b].status = bets[b].status \/ (/\ bets[b].status = "open"
                                                      /\ bets'[b].status = "lost"))
  PROVE  CreditedOK(b)'
<1>1. DraftsOf(p, b, CreditTypes) = {} BY NoDraft DEF Inv
<1>2. RowsOf(b, CreditTypes)' = RowsOf(b, CreditTypes) BY <1>1 DEF NewRows
<1>3. CreditedOK(b) BY DEF PayerInv
<1>4. QED BY <1>2, <1>3 DEF CreditedOK, CreditTypes

LEMMA CreditAdded ==
  ASSUME Inv, PayerInv, NEW p \in Sessions, NEW b \in Existing, NewRows(p, b, CreditTypes),
         call[p] = None, NEW tag \in Due(p), tag[1] \in CreditTypes, tag[2] = b,
         \A x \in Due(p) : x[1] \in CreditTypes /\ x[2] = b => x = tag,
         bets[b].status = "open", bets'[b] # None,
         bets'[b].status \in {"won", "void", "cashed_out"}
  PROVE  CreditedOK(b)'
<1>1. PICK r : DraftsOf(p, b, CreditTypes) = {r} /\ AmountOf(r) = DueAmount(p, tag)
  BY OneDraft DEF Inv
<1>2. RowsOf(b, CreditTypes) = {} BY DEF PayerInv, CreditedOK, Existing
<1>3. RowsOf(b, CreditTypes)' = {r} BY <1>1, <1>2 DEF NewRows
<1>4. QED BY <1>3 DEF CreditedOK, CreditTypes

LEMMA PayerCommitsBet ==
  ASSUME Inv, PayerInv, NEW p \in Sessions, CommitBet(p)
  PROVE  PayerInv'
<1>1. PICK u, new : u = task[p] /\ new = bets'[u.bet] OBVIOUS
<1>2. /\ u.op = "placeBet" /\ u.bet \in Bets /\ bets[u.bet] = None
      /\ new \in BetRow /\ new.status = "open"
      /\ \A s \in DOMAIN new.locked : new.result[s] = "pending"
      /\ \A b \in Bets : b # u.bet => bets'[b] = bets[b]
      /\ Due(p) = {<<"bet_stake", u.bet>>}
  BY <1>1, CommitBetIs
<1>3. new # None /\ DOMAIN new.locked # {} BY <1>2, NoneIsNothing, BetFacts
<1>4. \A b, types : NewRows(p, b, types) BY KeepsCommitBet
<1>5. /\ \A b \in Existing : bets'[b] = bets[b]
      /\ Existing \subseteq Existing' /\ Existing' \ Existing \subseteq {u.bet}
  BY <1>2 DEF Existing
<1>6. ASSUME NEW t, u.bet \notin t.decided PROVE WithResult(BetSeenBy(t, u.bet)', "pending") # {}
  <2>1. PICK seen : seen = SeenRow(t, u.bet, new) OBVIOUS
  <2>2. PICK s \in DOMAIN new.locked : new.result[s] = "pending" BY <1>2, <1>3
  <2>3. seen.locked = new.locked /\ seen.result[s] = "pending"
    BY <1>2, <1>6, <2>1, <2>2, SeenRowIs DEF SeenResult
  <2>4. s \in WithResult(seen, "pending") BY <2>2, <2>3 DEF WithResult
  <2>5. QED BY <1>1, <2>1, <2>4, SeesRow
<1>7. ASSUME NEW b \in Bets PROVE CreditedOK(b)'
  <2>1. \A tag \in Due(p) : tag[1] \notin CreditTypes BY <1>2 DEF CreditTypes
  <2>2. CASE b = u.bet BY <1>1, <1>2, <1>3, <1>4, <2>1, <2>2, NoCreditAdded
  <2>3. CASE b # u.bet BY <1>2, <1>4, <2>1, <2>3, NoCreditAdded
  <2>4. QED BY <2>2, <2>3
<1>8. ASSUME NEW b \in Existing', bets'[b].status = "open"
      PROVE  WithResult(bets'[b], "pending") # {}
  <2>1. CASE b \in Existing BY <1>5, <1>8, <2>1 DEF PayerInv
  <2>2. CASE b \notin Existing
    <3>1. bets'[b] = new BY <1>1, <1>5, <2>2
    <3>2. QED BY <1>2, <1>3, <3>1 DEF WithResult
  <2>3. QED BY <2>1, <2>2
<1>9. Goto(p, Idle) BY DEF CommitBet, Finish
<1>10. \A b \in Existing' \ Existing : \A t :
         b \notin t.decided => WithResult(BetSeenBy(t, b)', "pending") # {}
  BY <1>5, <1>6
<1>11. QED BY <1>5, <1>7, <1>8, <1>9, <1>10, PayerCommit

LEMMA PayerCommitsCashOut ==
  ASSUME Inv, PayerInv, OnePayer, NEW p \in Sessions, CommitCashOut(p)
  PROVE  PayerInv'
<1>1. PICK u, new : u = task[p] /\ new = bets'[u.bet] OBVIOUS
<1>2. /\ u.op = "cashOut" /\ u.bet \in Existing
      /\ new \in BetRow /\ new.status = "cashed_out"
      /\ \A b \in Bets : b # u.bet => bets'[b] = bets[b]
      /\ Due(p) = {<<"cashout", u.bet>>}
  BY <1>1, CommitCashOutIs
<1>3. new # None /\ u.bet \in Bets BY <1>2, NoneIsNothing DEF Existing
<1>4. \A b, types : NewRows(p, b, types) BY KeepsCommitCashOut
<1>5. Existing' = Existing BY <1>1, <1>2, <1>3 DEF Existing
<1>6. bets[u.bet].status = "open" BY <1>1, <1>2 DEF PayerInv, DecidesOpen
<1>7. ASSUME NEW b \in Bets PROVE CreditedOK(b)'
  <2>1. PICK tag : tag = <<"cashout", u.bet>> OBVIOUS
  <2>2. tag \in Due(p) /\ tag[1] \in CreditTypes /\ tag[2] = u.bet
    BY <1>2, <2>1 DEF CreditTypes
  <2>3. \A x \in Due(p) : x = tag BY <1>2, <2>1
  <2>4. call[p] = None BY DEF CommitCashOut, EntryApplied
  <2>5. CASE b = u.bet
    BY <1>1, <1>2, <1>3, <1>4, <1>6, <2>2, <2>3, <2>4, <2>5, CreditAdded
  <2>6. CASE b # u.bet BY <1>2, <1>4, <2>2, <2>3, <2>6, NoCreditAdded
  <2>7. QED BY <2>5, <2>6
<1>8. ASSUME NEW b \in Existing', bets'[b].status = "open"
      PROVE  WithResult(bets'[b], "pending") # {}
  <2>1. b # u.bet BY <1>1, <1>2, <1>8
  <2>2. b \in Existing /\ bets'[b] = bets[b] BY <1>2, <1>5, <2>1 DEF Existing
  <2>3. QED BY <1>8, <2>2 DEF PayerInv
<1>9. Goto(p, Idle) BY DEF CommitCashOut, Finish
<1>10. \A q \in Sessions : q # p => task[q].op \notin {"cashOut", "settleMatch"}
  BY <1>1, <1>2, PayerIsAlone DEF Inv
<1>11. QED BY <1>5, <1>7, <1>8, <1>9, <1>10, PayerCommit

LEMMA PayerCommitsSettlement ==
  ASSUME Inv, PayerInv, OnePayer, NEW p \in Sessions, CommitSettlement(p)
  PROVE  PayerInv'
<1>1. PICK u : u = task[p] OBVIOUS
<1>2. u.op = "settleMatch" /\ u.stage = "next" /\ u.todo = {} /\ Goto(p, Idle)
  BY <1>1 DEF CommitSettlement, At, Finish
<1>3. SettleTask(u) /\ DecidesOpen(u) /\ LeavesNone(u) BY <1>1, <1>2, TaskIs DEF Inv, PayerInv
<1>4. Kept(p) /\ \A b \in Bets : bets[b] = None => bets'[b] = None BY SettlementKeeps
<1>5. Existing' = Existing BY <1>4 DEF Existing, Kept
<1>6. \A b, types : NewRows(p, b, types) BY KeepsCommitSettlement
<1>7. \A b : Decides(u, b) = IF b \in DOMAIN u.marked THEN u.marked[b] ELSE "nothing"
  BY <1>2 DEF Decides
<1>8. \A b \in Existing : bets'[b].status = IF b \in DOMAIN u.marked THEN u.marked[b]
                                            ELSE bets[b].status
  BY <1>1, CommitSettlementIs
<1>9. \A b \in DOMAIN u.marked : /\ b \in Existing /\ u.marked[b] \in Marks
                                  /\ bets[b].status = "open"
  BY <1>2, <1>3 DEF SettleTask, DecidesOpen
<1>10. \A tag : tag \in Due(p) <=>
           /\ tag \in Tags
           /\ \/ tag[1] = "refund" /\ Decides(u, tag[2]) = "void"
              \/ tag[1] = "bet_payout" /\ Decides(u, tag[2]) = "won"
  BY <1>1, <1>2, DueOfSettlement
<1>11. call[p] = None BY <1>1, <1>2 DEF Inv, CallsInv
<1>12. ASSUME NEW b \in Bets PROVE CreditedOK(b)'
  <2>1. CASE b \in DOMAIN u.marked /\ u.marked[b] \in {"won", "void"}
    <3>1. PICK tag : tag = <<IF u.marked[b] = "won" THEN "bet_payout" ELSE "refund", b>> OBVIOUS
    <3>2. tag \in Due(p) /\ tag[1] \in CreditTypes /\ tag[2] = b
      BY <1>7, <1>10, <2>1, <3>1 DEF Tags, CreditTypes
    <3>3. \A x \in Due(p) : x[1] \in CreditTypes /\ x[2] = b => x = tag
      <4>1. \A x \in Tags : x = <<x[1], x[2]>> BY DEF Tags
      <4>2. ASSUME NEW x \in Due(p), x[2] = b PROVE x = tag
        <5>1. x = <<x[1], b>> BY <1>10, <4>1, <4>2
        <5>2. x[1] = tag[1] BY <1>7, <1>10, <2>1, <3>1, <4>2
        <5>3. QED BY <3>1, <5>1, <5>2
      <4>3. QED BY <4>2
    <3>4. b \in Existing /\ bets[b].status = "open" BY <1>9, <2>1
    <3>5. bets'[b] # None /\ bets'[b].status \in {"won", "void", "cashed_out"}
      BY <1>4, <1>8, <2>1, <3>4 DEF Kept
    <3>6. QED BY <1>6, <1>11, <3>2, <3>3, <3>4, <3>5, CreditAdded
  <2>2. CASE ~ (b \in DOMAIN u.marked /\ u.marked[b] \in {"won", "void"})
    <3>1. \A tag \in Due(p) : tag[2] # b BY <1>7, <1>10, <2>2
    <3>2. CASE bets[b] = None BY <1>4, <1>6, <3>1, <3>2, NoCreditAdded
    <3>3. CASE bets[b] # None
      <4>1. b \in Existing /\ bets'[b] # None BY <1>4, <3>3 DEF Existing, Kept
      <4>2. \/ bets'[b].status = bets[b].status
            \/ bets[b].status = "open" /\ bets'[b].status = "lost"
        BY <1>8, <1>9, <2>2, <4>1 DEF Marks
      <4>3. QED BY <1>6, <3>1, <3>3, <4>1, <4>2, NoCreditAdded
    <3>4. QED BY <3>2, <3>3
  <2>3. QED BY <2>1, <2>2
<1>13. ASSUME NEW b \in Existing, bets'[b].status = "open"
       PROVE  WithResult(bets'[b], "pending") # {}
  <2>1. b \notin DOMAIN u.marked BY <1>8, <1>9, <1>13 DEF Marks
  <2>2. bets[b].status = "open" /\ Decides(u, b) = "nothing" BY <1>7, <1>8, <1>13, <2>1
  <2>3. WithResult(BetSeenBy(u, b), "pending") # {} BY <1>2, <1>3, <2>2 DEF LeavesNone
  <2>4. BetSeenBy(u, b).locked = bets[b].locked BY SeenBet DEF Existing, Inv, RowsOK
  <2>5. /\ bets'[b].result = BetSeenBy(u, b).result /\ bets'[b].locked = bets[b].locked
    BY <1>1, CommitSettlementIs
  <2>6. WithResult(bets'[b], "pending") = WithResult(BetSeenBy(u, b), "pending")
    BY <2>4, <2>5 DEF WithResult
  <2>7. QED BY <2>3, <2>6
<1>14. \A q \in Sessions : q # p => task[q].op \notin {"cashOut", "settleMatch"}
  BY <1>1, <1>2, PayerIsAlone DEF Inv
<1>15. QED BY <1>2, <1>5, <1>12, <1>13, <1>14, PayerCommit
LEMMA InitPayer == Init => PayerInv
<1> SUFFICES ASSUME Init PROVE PayerInv OBVIOUS
<1>1. bets = Placed /\ \A p \in Sessions : task[p] = Idle BY DEF Init
<1>2. \A p \in Sessions : DecidesOpen(task[p]) /\ LeavesNone(task[p]) /\ OfferOK(task[p])
  BY <1>1, NoPayer DEF Idle
<1>3. \A b \in Bets : CreditedOK(b)
  <2>1. \A u \in Users : 1..committed[u] = {} BY DEF Init, W!Init
  <2>2. \A b : RowsOf(b, CreditTypes) = {} BY <2>1, RowsAre
  <2>3. QED BY <1>1, <2>2, PlacedAssumption DEF CreditedOK
<1>4. ASSUME NEW b \in Existing PROVE WithResult(bets[b], "pending") # {}
  <2>1. PICK bet \in BetRow : bet = bets[b] BY <1>1, PlacedAssumption DEF Existing
  <2>2. \A s \in DOMAIN bet.result : bet.result[s] = "pending"
    BY <1>1, <2>1, PlacedAssumption DEF Existing
  <2>3. DOMAIN bet.locked # {} /\ DOMAIN bet.result = DOMAIN bet.locked BY BetFacts
  <2>4. QED BY <2>1, <2>2, <2>3 DEF WithResult
<1>5. QED BY <1>2, <1>3, <1>4 DEF PayerInv

LEMMA PayerStay ==
  ASSUME Inv, PayerInv, bets' = bets, RowsStay, task' = task
  PROVE  PayerInv'
<1>1. ASSUME NEW q \in Sessions
      PROVE  (DecidesOpen(task[q]) /\ LeavesNone(task[q]) /\ OfferOK(task[q]))'
  <2>1. PICK u : u = task'[q] /\ u = task[q] OBVIOUS
  <2>2. DecidesOpen(u) /\ LeavesNone(u) /\ OfferOK(u) BY <2>1 DEF PayerInv
  <2>3. DecidesOpen(u)' /\ LeavesNone(u)' /\ OfferOK(u)' BY <2>2, SamePayer
  <2>4. QED BY <2>1, <2>3 DEF DecidesOpen, LeavesNone, OfferOK, Decides, BetSeenBy, ResultSeenBy
<1>2. ASSUME NEW b \in Bets PROVE CreditedOK(b)'
  <2>1. RowsOf(b, CreditTypes)' = RowsOf(b, CreditTypes) BY SameRows
  <2>2. CreditedOK(b) BY DEF PayerInv
  <2>3. QED BY <2>1, <2>2 DEF CreditedOK, CreditTypes
<1>3. (\A b \in Existing : bets[b].status = "open" => WithResult(bets[b], "pending") # {})'
  BY DEF PayerInv, Existing, WithResult
<1>4. QED BY <1>1, <1>2, <1>3 DEF PayerInv

LEMMA NextPayer ==
  ASSUME OnePayer, Inv, PayerInv, [Next]_vars
  PROVE  PayerInv'
<1>1. CASE UNCHANGED vars
  <2>1. bets' = bets /\ task' = task /\ UNCHANGED wvars BY <1>1 DEF vars, bvars
  <2>2. QED BY <2>1, RowsStayPut, PayerStay
<1>2. ASSUME NEW p \in Sessions, Proceed(p) PROVE PayerInv'
  <2>1. ASSUME NEW b \in Bets, LoadBet(p, b) PROVE PayerInv' BY <2>1, PayerLoads
  <2>2. ASSUME LedgerStep(p) PROVE PayerInv'
    <3>1. task' = task BY <2>2 DEF LedgerStep
    <3>2. QED BY <2>2, <3>1, KeepsLedgerStep, PayerStay
  <2>3. ASSUME CommitBet(p) \/ CommitCashOut(p) \/ CommitSettlement(p) PROVE PayerInv'
    BY <2>3, PayerCommitsBet, PayerCommitsCashOut, PayerCommitsSettlement
  <2>4. ASSUME (\E s \in Selections : ValidateLeg(p, s)) \/ DebitStake(p) \/ WriteMarketStatus(p)
        PROVE  PayerInv'
    BY <2>4, PayerPlaces
  <2>5. ASSUME QuoteCashOut(p) \/ CreditCashOut(p) PROVE PayerInv' BY <2>5, PayerCashesOut
  <2>6. ASSUME LegsPending(p) PROVE PayerInv' BY <2>6, PayerLeavesPending
  <2>7. ASSUME LegsLost(p) \/ LegsVoid(p) \/ LegsWon(p) PROVE PayerInv' BY <2>7, PayerDecides
  <2>8. ASSUME MarkBet(p) PROVE PayerInv' BY <2>8, PayerMarks
  <2>9. ASSUME Reject(p) \/ BreakDeadlock(p) PROVE PayerInv'
    BY <2>9, PayerFail DEF Reject, BreakDeadlock
  <2>10. QED BY <1>2, <2>1, <2>2, <2>3, <2>4, <2>5, <2>6, <2>7, <2>8, <2>9 DEF Proceed
<1>3. ASSUME NEW p \in Sessions, Request(p) PROVE PayerInv' BY <1>3, PayerRequest
<1>4. ASSUME NEW p \in Sessions, Abort(p) PROVE PayerInv' BY <1>4, PayerFail DEF Abort
<1>5. ASSUME NEW s \in Selections, DriftOdds(s) PROVE PayerInv'
  <2>1. bets' = bets /\ task' = task /\ UNCHANGED wvars BY <1>5 DEF DriftOdds
  <2>2. QED BY <2>1, RowsStayPut, PayerStay
<1>6. QED BY <1>1, <1>2, <1>3, <1>4, <1>5 DEF Next

LEMMA PayerInvariance ==
  ASSUME OnePayer
  PROVE  Spec => [](Inv /\ PayerInv)
<1>1. Init => Inv /\ PayerInv BY InitInv, InitPayer
<1>2. Inv /\ PayerInv /\ [Next]_vars => (Inv /\ PayerInv)' BY NextInv, NextPayer
<1>3. QED BY <1>1, <1>2, PTL DEF Spec

-----------------------------------------------------------------------------
\* The credits of a bet are told by its status.
CreditsTold ==
  \A b \in Bets :
    Credits[b] = IF StatusIn(bets)[b] \in {"won", "void", "cashed_out"} THEN 1 ELSE 0

LEMMA CreditsByStatus == PayerInv => CreditsTold
<1> SUFFICES ASSUME PayerInv, NEW b \in Bets
             PROVE  Credits[b] = IF StatusIn(bets)[b] \in {"won", "void", "cashed_out"} THEN 1 ELSE 0
  BY DEF CreditsTold
<1>1. CreditedOK(b) BY DEF PayerInv
<1>2. StatusIn(bets)[b] = IF bets[b] = None THEN "none" ELSE bets[b].status BY DEF StatusIn
<1>3. Credits[b] = Cardinality(RowsOf(b, CreditTypes)) BY DEF Credits, CreditTypes
<1>4. CASE bets[b] # None /\ bets[b].status \in {"won", "void", "cashed_out"}
  <2>1. PICK r : RowsOf(b, CreditTypes) = {r} BY <1>1, <1>4 DEF CreditedOK
  <2>2. Cardinality({r}) = 1 BY FS_Singleton
  <2>3. QED BY <1>2, <1>3, <1>4, <2>1, <2>2
<1>5. CASE ~ (bets[b] # None /\ bets[b].status \in {"won", "void", "cashed_out"})
  <2>1. RowsOf(b, CreditTypes) = {} BY <1>1, <1>5 DEF CreditedOK
  <2>2. QED BY <1>2, <1>3, <1>5, <2>1, FS_EmptySet
<1>6. QED BY <1>4, <1>5

LEMMA NextCreditsByStatus == PayerInv' => CreditsTold'
BY CreditsByStatus, PTL

\* What a step does to the statuses, one by one.
StatusStep(b) ==
  LET old == StatusIn(bets)[b]
      new == StatusIn(bets)'[b]
  IN  \/ new = old
      \/ old = "none" /\ new = "open"
      \/ old = "open" /\ new \in {"won", "lost", "void", "cashed_out"}

LEMMA StatusSteps ==
  ASSUME Inv, PayerInv, [Next]_vars, NEW b \in Bets
  PROVE  StatusStep(b)
<1>1. /\ StatusIn(bets)[b] = IF bets[b] = None THEN "none" ELSE bets[b].status
      /\ StatusIn(bets)'[b] = IF bets'[b] = None THEN "none" ELSE bets'[b].status
  BY DEF StatusIn
<1>2. CASE bets'[b] = bets[b] BY <1>1, <1>2 DEF StatusStep
<1>3. ASSUME NEW p \in Sessions, CommitBet(p) PROVE StatusStep(b)
  <2>1. PICK u : u = task[p] OBVIOUS
  <2>2. /\ bets[u.bet] = None /\ bets'[u.bet].status = "open" /\ bets'[u.bet] \in BetRow
        /\ \A c \in Bets : c # u.bet => bets'[c] = bets[c]
    BY <1>3, <2>1, CommitBetIs
  <2>3. CASE b = u.bet BY <1>1, <2>2, <2>3, NoneIsNothing DEF StatusStep
  <2>4. QED BY <1>2, <2>2, <2>3
<1>4. ASSUME NEW p \in Sessions, CommitCashOut(p) PROVE StatusStep(b)
  <2>1. PICK u : u = task[p] OBVIOUS
  <2>2. /\ u.op = "cashOut" /\ bets'[u.bet].status = "cashed_out" /\ bets'[u.bet] \in BetRow
        /\ \A c \in Bets : c # u.bet => bets'[c] = bets[c]
        /\ u.bet \in Existing
    BY <1>4, <2>1, CommitCashOutIs
  <2>3. bets[u.bet].status = "open" BY <2>1, <2>2 DEF PayerInv, DecidesOpen
  <2>4. CASE b = u.bet BY <1>1, <2>2, <2>3, <2>4, NoneIsNothing DEF StatusStep, Existing
  <2>5. QED BY <1>2, <2>2, <2>4
<1>5. ASSUME NEW p \in Sessions, CommitSettlement(p) PROVE StatusStep(b)
  <2>1. PICK u : u = task[p] OBVIOUS
  <2>2. u.op = "settleMatch" /\ u.stage = "next" BY <1>5, <2>1 DEF CommitSettlement, At
  <2>3. SettleTask(u) /\ DecidesOpen(u) BY <2>1, <2>2, TaskIs DEF Inv, PayerInv
  <2>4. CASE bets[b] = None BY <1>2, <1>5, <2>4, SettlementKeeps
  <2>5. CASE bets[b] # None
    <3>1. b \in Existing BY <2>5 DEF Existing
    <3>2. /\ bets'[b].status = IF b \in DOMAIN u.marked THEN u.marked[b] ELSE bets[b].status
          /\ bets'[b] \in BetRow
      BY <1>5, <2>1, <3>1, CommitSettlementIs
    <3>3. b \in DOMAIN u.marked => bets[b].status = "open" /\ u.marked[b] \in Marks
      BY <2>2, <2>3 DEF SettleTask, DecidesOpen
    <3>4. QED BY <1>1, <2>5, <3>2, <3>3, NoneIsNothing DEF StatusStep, Marks
  <2>6. QED BY <2>4, <2>5
<1>6. QED BY <1>2, <1>3, <1>4, <1>5, BetsChange

\* The bets and the ledger implement the promise of BetPromise, step by step:
\* a bet is decided once and for good, and credited once if and only if it was
\* won, voided or cashed out, in the commit that decides it.  This needs one
\* session alone to cash out and settle (MCBettingDoublePay shows why); bets may
\* be placed, markets closed and odds moved by any number of others meanwhile.
THEOREM BetsKeepThePromise ==
  ASSUME OnePayer
  PROVE  Spec => Promise
<1>1. ASSUME Init, PayerInv PROVE P!Init
  <2>1. \A b \in Bets : Placed[b] # None => Placed[b].status = "open" BY PlacedAssumption
  <2>2. bets = Placed BY <1>1 DEF Init
  <2>3. StatusIn(bets) = StatusIn(Placed) BY <2>2
  <2>4. ASSUME NEW b \in Bets PROVE Credits[b] = 0
    <3>1. StatusIn(bets)[b] \notin {"won", "void", "cashed_out"}
      BY <2>1, <2>2 DEF StatusIn
    <3>2. QED BY <1>1, <3>1, CreditsByStatus DEF CreditsTold
  <2>5. Credits = [b \in Bets |-> Credits[b]] BY DEF Credits
  <2>6. Credits = [b \in Bets |-> 0] BY <2>4, <2>5
  <2>7. QED BY <2>3, <2>6 DEF P!Init
<1>2. ASSUME Inv, PayerInv, PayerInv', [Next]_vars PROVE P!Next
  <2>1. DOMAIN StatusIn(bets)' = Bets /\ DOMAIN Credits' = Bets BY DEF StatusIn, Credits
  <2>2. ASSUME NEW b \in Bets PROVE P!Place(b) \/ P!Decide(b) \/ P!Keep(b)
    <3>1. PICK old, new, before, after : /\ old = StatusIn(bets)[b] /\ new = StatusIn(bets)'[b]
                                         /\ before = Credits[b] /\ after = Credits'[b]
      OBVIOUS
    <3>2. before = IF old \in {"won", "void", "cashed_out"} THEN 1 ELSE 0
      BY <1>2, <3>1, CreditsByStatus DEF CreditsTold
    <3>3. after = IF new \in {"won", "void", "cashed_out"} THEN 1 ELSE 0
      <4>1. Credits'[b] = IF StatusIn(bets)'[b] \in {"won", "void", "cashed_out"} THEN 1 ELSE 0
        BY <1>2, NextCreditsByStatus DEF CreditsTold
      <4>2. QED BY <3>1, <4>1
    <3>4. \/ new = old
          \/ old = "none" /\ new = "open"
          \/ old = "open" /\ new \in {"won", "lost", "void", "cashed_out"}
      BY <1>2, <3>1, StatusSteps DEF StatusStep
    <3>5. CASE new = old BY <3>1, <3>2, <3>3, <3>5 DEF P!Keep
    <3>6. CASE old = "none" /\ new = "open" BY <3>1, <3>2, <3>3, <3>6 DEF P!Place
    <3>7. CASE old = "open" /\ new \in {"won", "lost", "void", "cashed_out"}
      BY <3>1, <3>2, <3>3, <3>7 DEF P!Decide, P!Credited
    <3>8. QED BY <3>4, <3>5, <3>6, <3>7
  <2>3. QED BY <2>1, <2>2 DEF P!Next
<1>3. QED BY <1>1, <1>2, PayerInvariance, PTL DEF Spec, Promise, P!Spec

\* When a cash-out is committed it pays no more than the bet could still win,
\* however the odds have moved since it was placed and between the offer and
\* the commit, if nobody else settles or cashes out meanwhile.
THEOREM CashOutsStayWithinReach ==
  ASSUME OnePayer
  PROVE  Spec => CashOutWithinReach
<1> DEFINE Within == \A p \in Sessions : CommitCashOut(p) =>
                       task[p].value <= BestPayout(bets[task[p].bet])
<1>1. ASSUME PayerInv PROVE Within BY <1>1 DEF PayerInv, OfferOK, CommitCashOut, At
<1>2. QED BY <1>1, PayerInvariance, PTL DEF CashOutWithinReach

\* Under the same condition a settlement leaves no bet open whose legs are all
\* decided.
THEOREM CompleteBetsAreAllSettled ==
  ASSUME OnePayer
  PROVE  Spec => []CompleteBetsAreSettled
<1>1. PayerInv => CompleteBetsAreSettled BY DEF PayerInv, CompleteBetsAreSettled
<1>2. QED BY <1>1, PayerInvariance, PTL
-----------------------------------------------------------------------------
\* When one session alone writes wallets.
LEMMA WriterIsAlone ==
  ASSUME RowsOK, OneWriter, NEW p \in Sessions, NEW q \in Sessions,
         task[p].op \in Writes, task[q].op \in Writes
  PROVE  p = q
<1>1. ASSUME NEW r \in Sessions, task[r].op \in Writes PROVE Duties[r] \intersect Writes # {}
  <2>1. task[r].op \in Duties[r] BY <1>1, TaskIs DEF Idle, Writes
  <2>2. QED BY <1>1, <2>1
<1>2. QED BY <1>1 DEF OneWriter

LEMMA WriterIsPayer == OneWriter => OnePayer
BY DEF OneWriter, OnePayer, Writes

\* Nobody else has a wallet in hand.
Solo(p) ==
  /\ \A q \in Sessions : q # p => call[q] = None
  /\ \A u \in Users : lock[u] \in {None, p}

LEMMA CallerWrites ==
  ASSUME Inv, NEW p \in Sessions, call[p] # None
  PROVE  task[p].op \in Writes
<1>1. Due(p) # {} BY DEF Inv, EntriesInv, CallOK
<1>2. QED BY <1>1 DEF Due, At, Writes

LEMMA WriterIsSolo ==
  ASSUME Inv, HeldByWriter, OneWriter, NEW p \in Sessions, task[p].op \in Writes
  PROVE  Solo(p)
<1>1. \A q \in Sessions : q # p => call[q] = None
  BY CallerWrites, WriterIsAlone DEF Inv
<1>2. \A u \in Users : lock[u] \in {None, p}
  BY WriterIsAlone DEF Inv, HeldByWriter, EntriesInv, W!TypeOK
<1>3. QED BY <1>1, <1>2 DEF Solo

\* The wallets of ChainInv.
Chained == (\A u \in Users : WalletOK(u)) /\ W!ChainUnbroken

LEMMA ChainedQuietly ==
  ASSUME Chained, UNCHANGED wvars
  PROVE  Chained'
<1>1. UNCHANGED <<balance, written, ledger, committed, lock, call>> BY DEF wvars
<1>2. \A u \in Users : WalletOK(u)' BY <1>1 DEF Chained, WalletOK, Latest, Between, W!AfterRow
<1>3. W!ChainUnbroken' BY <1>1 DEF Chained, W!ChainUnbroken, W!BaseOfRow, W!AfterRow
<1>4. QED BY <1>2, <1>3 DEF Chained

\* What the wallet of user u holds, in numbers.
LEMMA WalletFacts ==
  ASSUME EntriesInv, NEW u \in Users
  PROVE  /\ ledger[u] \in Seq(W!Row) /\ Len(ledger[u]) \in Nat /\ committed[u] \in Nat
         /\ committed[u] <= Len(ledger[u]) /\ balance[u] \in Nat /\ written[u] \in Nat
         /\ lock[u] = None => committed[u] = Len(ledger[u])
         /\ \A n \in 0..Len(ledger[u]) : W!AfterRow(u, n) \in Nat
         /\ Latest(u) \in Nat
<1>1. W!TypeOK BY DEF EntriesInv
<1>2. ledger[u] \in Seq(W!Row) BY <1>1 DEF W!TypeOK
<1>3. \A n \in 1..Len(ledger[u]) : ledger[u][n] \in W!Row BY <1>2
<1>4. Opening[u] \in Nat BY WalletAssumption
<1>5. \A n \in 0..Len(ledger[u]) : W!AfterRow(u, n) \in Nat BY <1>3, <1>4 DEF W!AfterRow, W!Row
<1>6. Len(ledger[u]) \in Nat BY <1>2
<1>7. QED BY <1>1, <1>2, <1>5, <1>6 DEF EntriesInv, W!TypeOK, Latest

LEMMA SelectChained ==
  ASSUME EntriesInv, Chained, NEW p \in Sessions, Solo(p), NEW u \in Users, NEW amount \in Int,
         NEW tag, W!Select(p, u, amount, tag)
  PROVE  Chained'
<1>1. PICK c : c = [user |-> u, amount |-> amount, tag |-> tag, wallet |-> W!View(p, u),
                    step |-> "update"]
  OBVIOUS
<1>2. /\ call[p] = None /\ call' = [call EXCEPT ![p] = c]
      /\ UNCHANGED <<balance, written, ledger, committed, lock>>
  BY <1>1 DEF W!Select
<1>3. call'[p] = c /\ \A q \in Sessions : q # p => call'[q] = None
  BY <1>2 DEF Solo, EntriesInv, W!TypeOK
<1>4. c.user = u /\ c.step = "update" /\ c.wallet = W!View(p, u) BY <1>1
<1>5. W!View(p, u) = Latest(u)
  <2>1. WalletOK(u) BY DEF Chained
  <2>2. CASE lock[u] = p
    <3>1. ~ Between(p, u) BY <1>2 DEF Between
    <3>2. QED BY <2>1, <2>2, <3>1 DEF WalletOK, W!View
  <2>3. CASE lock[u] # p
    <3>1. lock[u] = None BY <2>3 DEF Solo
    <3>2. committed[u] = Len(ledger[u]) BY <3>1, WalletFacts
    <3>3. QED BY <2>1, <2>3, <3>2 DEF WalletOK, W!View, Latest
  <2>4. QED BY <2>2, <2>3
<1>6. ASSUME NEW v \in Users PROVE WalletOK(v)'
  <2>1. WalletOK(v) BY DEF Chained
  <2>2. /\ Latest(v)' = Latest(v) /\ W!AfterRow(v, committed[v])' = W!AfterRow(v, committed[v])
    BY <1>2 DEF Latest, W!AfterRow
  <2>3. ASSUME NEW q \in Sessions PROVE ~ Between(q, v)' /\ ~ Between(q, v)
    BY <1>2, <1>3, <1>4 DEF Between, Solo
  <2>4. QED BY <1>2, <1>3, <1>4, <1>5, <2>1, <2>2, <2>3 DEF WalletOK
<1>7. W!ChainUnbroken' BY <1>2 DEF Chained, W!ChainUnbroken, W!BaseOfRow, W!AfterRow
<1>8. QED BY <1>6, <1>7 DEF Chained

LEMMA UpdateChained ==
  ASSUME EntriesInv, Chained, NEW p \in Sessions, Solo(p), W!Update(p)
  PROVE  Chained'
<1>1. PICK c : c = call[p] OBVIOUS
<1>2. c # None /\ c \in W!Call /\ c.user \in Users BY <1>1, CallTypes DEF W!Update, EntriesInv
<1>3. PICK u \in Users : u = c.user BY <1>2
<1>4. PICK d : d = [c EXCEPT !.step = "insert"] OBVIOUS
<1>5. /\ d \in W!Call /\ d.step = "insert" /\ d.user = u /\ d.wallet = c.wallet
      /\ d.amount = c.amount /\ d # None
  BY <1>2, <1>3, <1>4, NoneIsNothing DEF W!Call
<1>6. /\ lock' = [lock EXCEPT ![u] = p]
      /\ written' = [written EXCEPT ![u] = c.wallet + c.amount]
      /\ call' = [call EXCEPT ![p] = d]
      /\ UNCHANGED <<balance, ledger, committed>>
  BY <1>1, <1>3, <1>4 DEF W!Update
<1>7. /\ call'[p] = d /\ \A q \in Sessions : q # p => call'[q] = None
      /\ lock'[u] = p /\ written'[u] = c.wallet + c.amount
      /\ \A v \in Users : v # u => lock'[v] = lock[v] /\ written'[v] = written[v]
  BY <1>6 DEF Solo, EntriesInv, W!TypeOK
<1>8. ASSUME NEW v \in Users PROVE WalletOK(v)'
  <2>1. WalletOK(v) BY DEF Chained
  <2>2. /\ Latest(v)' = Latest(v) /\ W!AfterRow(v, committed[v])' = W!AfterRow(v, committed[v])
    BY <1>6 DEF Latest, W!AfterRow
  <2>3. CASE v = u
    <3>1. Between(p, u)' BY <1>5, <1>7 DEF Between
    <3>2. c.wallet = Latest(u) BY <1>1, <1>2, <1>3, <2>1, <2>3 DEF WalletOK
    <3>3. ASSUME NEW q \in Sessions
          PROVE  /\ call'[q] # None /\ call'[q].user = u => call'[q].wallet = Latest(u)'
                 /\ Between(q, u)' => written'[u] = call'[q].wallet + call'[q].amount
                 /\ lock'[u] = q /\ ~ Between(q, u)' => written'[u] = Latest(u)'
      <4>1. CASE q = p BY <1>5, <1>7, <2>2, <2>3, <3>1, <3>2, <4>1
      <4>2. CASE q # p BY <1>7, <4>2 DEF Between
      <4>3. QED BY <4>1, <4>2
    <3>4. lock'[u] # None BY <1>7, NoneIsNothing
    <3>5. QED BY <1>6, <2>1, <2>2, <2>3, <3>3, <3>4 DEF WalletOK
  <2>4. CASE v # u
    <3>1. ASSUME NEW q \in Sessions
          PROVE  (call'[q] # None => call'[q].user # v) /\ ~ Between(q, v)' /\ ~ Between(q, v)
      BY <1>1, <1>3, <1>5, <1>7, <2>4 DEF Between, Solo
    <3>2. QED BY <1>6, <1>7, <2>1, <2>2, <2>4, <3>1 DEF WalletOK
  <2>5. QED BY <2>3, <2>4
<1>9. W!ChainUnbroken' BY <1>6 DEF Chained, W!ChainUnbroken, W!BaseOfRow, W!AfterRow
<1>10. QED BY <1>8, <1>9 DEF Chained

LEMMA InsertChained ==
  ASSUME EntriesInv, Chained, NEW p \in Sessions, Solo(p), W!Insert(p)
  PROVE  Chained'
<1>1. PICK c : c = call[p] OBVIOUS
<1>2. c # None /\ c.step = "insert" /\ c.user \in Users /\ c.amount \in Int /\ c.wallet \in Int
  BY <1>1, CallTypes DEF W!Insert, EntriesInv
<1>3. PICK u \in Users : u = c.user BY <1>2
<1>4. PICK row : row = [amount |-> c.amount, after |-> c.wallet + c.amount, tag |-> c.tag, by |-> p]
  OBVIOUS
<1>5. /\ ledger' = [ledger EXCEPT ![u] = Append(ledger[u], row)]
      /\ call' = [call EXCEPT ![p] = None]
      /\ UNCHANGED <<balance, written, committed, lock>>
  BY <1>1, <1>3, <1>4 DEF W!Insert
<1>6. row.amount = c.amount /\ row.after = c.wallet + c.amount BY <1>4
<1>7. \A q \in Sessions : call'[q] = None BY <1>5 DEF Solo, EntriesInv, W!TypeOK
<1>8. ledger'[u] = Append(ledger[u], row) /\ \A v \in Users : v # u => ledger'[v] = ledger[v]
  BY <1>5 DEF EntriesInv, W!TypeOK
<1>9. PICK k \in Nat : k = Len(ledger[u]) BY WalletFacts
<1>10. /\ Len(ledger'[u]) = k + 1 /\ ledger'[u][k + 1] = row
       /\ \A n \in 1..k : ledger'[u][n] = ledger[u][n]
  BY <1>8, <1>9, WalletFacts
<1>11. \A n \in 0..k : W!AfterRow(u, n)' = W!AfterRow(u, n) BY <1>10 DEF W!AfterRow
<1>12. c.wallet = Latest(u) /\ written[u] = c.wallet + c.amount
  BY <1>1, <1>2, <1>3 DEF Chained, WalletOK, Between
<1>13. Latest(u)' = c.wallet + c.amount BY <1>6, <1>9, <1>10 DEF Latest, W!AfterRow
<1>14. ASSUME NEW v \in Users PROVE WalletOK(v)'
  <2>1. WalletOK(v) BY DEF Chained
  <2>2. \A q \in Sessions : ~ Between(q, v)' BY <1>7 DEF Between
  <2>3. CASE v = u
    <3>1. committed[u] \in 0..k BY <1>9, WalletFacts
    <3>2. W!AfterRow(u, committed[u])' = W!AfterRow(u, committed[u]) BY <1>5, <1>10, <3>1 DEF W!AfterRow
    <3>3. written'[u] = Latest(u)' BY <1>5, <1>12, <1>13
    <3>4. QED BY <1>5, <1>7, <2>1, <2>2, <2>3, <3>2, <3>3 DEF WalletOK
  <2>4. CASE v # u
    <3>1. Latest(v)' = Latest(v) /\ W!AfterRow(v, committed[v])' = W!AfterRow(v, committed[v])
      BY <1>5, <1>8, <2>4 DEF Latest, W!AfterRow
    <3>2. \A q \in Sessions : ~ Between(q, v) BY <1>1, <1>3, <2>4 DEF Between, Solo
    <3>3. QED BY <1>5, <1>7, <2>1, <2>2, <3>1, <3>2 DEF WalletOK
  <2>5. QED BY <2>3, <2>4
<1>15. W!ChainUnbroken'
  <2>1. ASSUME NEW v \in Users, NEW i \in 1..Len(ledger'[v])
        PROVE  W!BaseOfRow(v, i)' = W!AfterRow(v, i - 1)'
    <3>1. CASE v # u BY <1>8, <2>1, <3>1 DEF Chained, W!ChainUnbroken, W!BaseOfRow, W!AfterRow
    <3>2. CASE v = u /\ i \in 1..k
      <4>1. W!BaseOfRow(u, i) = W!AfterRow(u, i - 1)
        BY <1>9, <3>2 DEF Chained, W!ChainUnbroken
      <4>2. W!BaseOfRow(u, i)' = W!BaseOfRow(u, i) BY <1>10, <3>2 DEF W!BaseOfRow
      <4>3. i - 1 \in 0..k BY <1>9, <3>2
      <4>4. W!AfterRow(u, i - 1)' = W!AfterRow(u, i - 1) BY <1>10, <4>3 DEF W!AfterRow
      <4>5. QED BY <3>2, <4>1, <4>2, <4>4
    <3>3. CASE v = u /\ i = k + 1
      <4>1. W!BaseOfRow(u, i)' = c.wallet BY <1>2, <1>6, <1>10, <3>3 DEF W!BaseOfRow
      <4>2. i - 1 = k BY <3>3
      <4>3. W!AfterRow(u, i - 1)' = W!AfterRow(u, k) BY <1>10, <4>2 DEF W!AfterRow
      <4>4. QED BY <1>9, <1>12, <3>3, <4>1, <4>3 DEF Latest
    <3>4. QED BY <1>9, <1>10, <2>1, <3>1, <3>2, <3>3
  <2>2. QED BY <2>1 DEF W!ChainUnbroken
<1>16. QED BY <1>14, <1>15 DEF Chained

LEMMA CommitChained ==
  ASSUME EntriesInv, Chained, NEW p \in Sessions, Solo(p), W!Commit(p)
  PROVE  Chained'
<1>1. /\ call[p] = None /\ call' = call
      /\ balance' = [u \in Users |-> IF lock[u] = p THEN written[u] ELSE balance[u]]
      /\ committed' = [u \in Users |-> IF lock[u] = p THEN Len(ledger[u]) ELSE committed[u]]
      /\ lock' = [u \in Users |-> IF lock[u] = p THEN None ELSE lock[u]]
      /\ UNCHANGED <<written, ledger>>
  BY DEF W!Commit, W!Publish
<1>2. \A q \in Sessions : call[q] = None BY <1>1 DEF Solo
<1>3. ASSUME NEW u \in Users PROVE WalletOK(u)'
  <2>1. WalletOK(u) BY DEF Chained
  <2>2. \A q \in Sessions : ~ Between(q, u) /\ ~ Between(q, u)' BY <1>1, <1>2 DEF Between
  <2>3. Latest(u)' = Latest(u) /\ \A n : W!AfterRow(u, n)' = W!AfterRow(u, n)
    BY <1>1 DEF Latest, W!AfterRow
  <2>4. lock'[u] = None
    BY <1>1 DEF Solo
  <2>5. balance'[u] = written[u]
    BY <1>1, <2>1 DEF Solo, WalletOK
  <2>6. W!AfterRow(u, committed[u])' = balance'[u]
    <3>1. CASE lock[u] = p
      <4>1. committed'[u] = Len(ledger[u]) /\ written[u] = Latest(u)
        BY <1>1, <2>1, <2>2, <3>1 DEF WalletOK
      <4>2. QED BY <1>1, <2>5, <4>1 DEF Latest, W!AfterRow
    <3>2. CASE lock[u] # p
      <4>1. committed'[u] = committed[u] /\ balance'[u] = balance[u] BY <1>1, <3>2
      <4>2. QED BY <1>1, <2>1, <4>1 DEF WalletOK, W!AfterRow
    <3>3. QED BY <3>1, <3>2
  <2>7. \A q \in Sessions : lock'[u] # q BY <2>4, NoneIsNothing
  <2>8. QED BY <1>1, <1>2, <2>2, <2>5, <2>6, <2>7 DEF WalletOK
<1>4. W!ChainUnbroken' BY <1>1 DEF Chained, W!ChainUnbroken, W!BaseOfRow, W!AfterRow
<1>5. QED BY <1>3, <1>4 DEF Chained

LEMMA RollbackChained ==
  ASSUME EntriesInv, Chained, NEW p \in Sessions, Solo(p), W!Rollback(p)
  PROVE  Chained'
<1>1. /\ written' = [u \in Users |-> IF lock[u] = p THEN balance[u] ELSE written[u]]
      /\ ledger' = [u \in Users |-> IF lock[u] = p THEN SubSeq(ledger[u], 1, committed[u]) ELSE ledger[u]]
      /\ lock' = [u \in Users |-> IF lock[u] = p THEN None ELSE lock[u]]
      /\ call' = [call EXCEPT ![p] = None]
      /\ UNCHANGED <<balance, committed>>
  BY DEF W!Rollback
<1>2. \A q \in Sessions : call'[q] = None BY <1>1 DEF Solo, EntriesInv, W!TypeOK
<1>3. ASSUME NEW u \in Users
      PROVE  /\ Len(ledger'[u]) \in Nat /\ Len(ledger'[u]) <= Len(ledger[u])
             /\ committed[u] <= Len(ledger'[u])
             /\ \A n \in 1..Len(ledger'[u]) : ledger'[u][n] = ledger[u][n]
  <2>1. /\ ledger[u] \in Seq(W!Row) /\ committed[u] \in 0..Len(ledger[u])
        /\ committed[u] \in Nat /\ Len(ledger[u]) \in Nat
    BY WalletFacts
  <2>2. CASE lock[u] = p
    <3>1. ledger'[u] = SubSeq(ledger[u], 1, committed[u]) BY <1>1, <2>2
    <3>2. QED BY <2>1, <3>1
  <2>3. CASE lock[u] # p
    <3>1. ledger'[u] = ledger[u] BY <1>1, <2>3
    <3>2. QED BY <2>1, <3>1
  <2>4. QED BY <2>2, <2>3
<1>4. ASSUME NEW u \in Users PROVE WalletOK(u)'
  <2>1. WalletOK(u) BY DEF Chained
  <2>2. lock'[u] = None /\ written'[u] = balance[u] BY <1>1, <2>1 DEF Solo, WalletOK
  <2>3. committed[u] \in 0..Len(ledger'[u]) BY <1>3, WalletFacts
  <2>4. W!AfterRow(u, committed[u])' = W!AfterRow(u, committed[u])
    BY <1>1, <1>3, <2>3 DEF W!AfterRow
  <2>5. \A q \in Sessions : lock'[u] # q /\ ~ Between(q, u)'
    BY <1>2, <2>2, NoneIsNothing DEF Between
  <2>6. QED BY <1>1, <1>2, <2>1, <2>2, <2>4, <2>5 DEF WalletOK
<1>5. W!ChainUnbroken'
  <2>1. ASSUME NEW u \in Users, NEW i \in 1..Len(ledger'[u])
        PROVE  W!BaseOfRow(u, i)' = W!AfterRow(u, i - 1)'
    <3>1. i \in 1..Len(ledger[u]) /\ i - 1 \in 0..Len(ledger'[u]) BY <1>3, WalletFacts
    <3>2. W!BaseOfRow(u, i) = W!AfterRow(u, i - 1) BY <3>1 DEF Chained, W!ChainUnbroken
    <3>3. W!BaseOfRow(u, i)' = W!BaseOfRow(u, i) BY <1>3, <2>1 DEF W!BaseOfRow
    <3>4. W!AfterRow(u, i - 1)' = W!AfterRow(u, i - 1) BY <1>3, <3>1 DEF W!AfterRow
    <3>5. QED BY <3>2, <3>3, <3>4
  <2>2. QED BY <2>1 DEF W!ChainUnbroken
<1>6. QED BY <1>4, <1>5 DEF Chained
-----------------------------------------------------------------------------
\* What a step does to the requests: it begins one, ends one or goes on.
Continues(u, t) ==
  /\ t.op = u.op
  /\ u.op = "settleMatch" => t.match = u.match /\ t.decided = u.decided
  /\ u.op = "placeBet" => \A s \in DOMAIN t.locked : s \in DOMAIN u.locked \/ Playable(s)

LEMMA SettlementContinues ==
  ASSUME Inv, NEW p \in Sessions,
         \/ \E b \in Bets : LoadBet(p, b)
         \/ LegsPending(p) \/ LegsLost(p) \/ LegsVoid(p) \/ LegsWon(p) \/ MarkBet(p)
  PROVE  \E t : Goto(p, t) /\ Continues(task[p], t)
<1>1. PICK u : u = task[p] OBVIOUS
<1>2. u.op = "settleMatch"
  BY <1>1 DEF LoadBet, LegsPending, LegsLost, LegsVoid, LegsWon, MarkBet, At
<1>3. SettleTask(u) BY <1>1, <1>2, TaskIs DEF Inv
<1>4. ASSUME NEW b \in Bets, LoadBet(p, b) PROVE \E t : Goto(p, t) /\ Continues(u, t)
  <2>1. u = [op |-> "settleMatch", stage |-> "next", match |-> u.match, score |-> u.score,
             decided |-> u.decided, todo |-> u.todo, marked |-> u.marked]
    BY <1>1, <1>3, <1>4 DEF SettleTask, LoadBet, At
  <2>2. PICK t : t = IF IsOpen(b)
                     THEN [op |-> "settleMatch", stage |-> "legs", match |-> u.match,
                           score |-> u.score, decided |-> u.decided, todo |-> u.todo \ {b},
                           marked |-> u.marked, bet |-> b]
                     ELSE [u EXCEPT !.todo = @ \ {b}]
    OBVIOUS
  <2>3. Goto(p, t) BY <1>1, <1>4, <2>2 DEF LoadBet
  <2>4. t.op = "settleMatch" /\ t.match = u.match /\ t.decided = u.decided BY <2>1, <2>2
  <2>5. QED BY <1>2, <2>3, <2>4 DEF Continues
<1>5. ASSUME NEW status, Goto(p, Marking(u, status)) PROVE \E t : Goto(p, t) /\ Continues(u, t)
  <2>1. PICK t : t = Marking(u, status) OBVIOUS
  <2>2. t.op = "settleMatch" /\ t.match = u.match /\ t.decided = u.decided BY <2>1 DEF Marking
  <2>3. QED BY <1>2, <1>5, <2>1, <2>2 DEF Continues
<1>6. ASSUME NEW marked, Goto(p, NextBet(u, marked)) PROVE \E t : Goto(p, t) /\ Continues(u, t)
  <2>1. PICK t : t = NextBet(u, marked) OBVIOUS
  <2>2. t.op = "settleMatch" /\ t.match = u.match /\ t.decided = u.decided BY <2>1 DEF NextBet
  <2>3. QED BY <1>2, <1>6, <2>1, <2>2 DEF Continues
<1>7. LegsLost(p) \/ LegsVoid(p) \/ LegsWon(p) => \E status : Goto(p, Marking(u, status))
  BY <1>1 DEF LegsLost, LegsVoid, LegsWon
<1>8. LegsPending(p) \/ MarkBet(p) => \E marked : Goto(p, NextBet(u, marked))
  BY <1>1 DEF LegsPending, MarkBet
<1>9. QED BY <1>1, <1>4, <1>5, <1>6, <1>7, <1>8

LEMMA CashOutContinues ==
  ASSUME Inv, NEW p \in Sessions, QuoteCashOut(p) \/ CreditCashOut(p)
  PROVE  \E t : Goto(p, t) /\ Continues(task[p], t)
<1>1. PICK u : u = task[p] OBVIOUS
<1>2. u.op = "cashOut" BY <1>1 DEF QuoteCashOut, CreditCashOut, At
<1>3. CASE QuoteCashOut(p)
  <2>1. PICK t : t = [op |-> "cashOut", stage |-> "credit", bet |-> u.bet,
                      value |-> CashOutValue(bets[u.bet], odds)]
    OBVIOUS
  <2>2. Goto(p, t) BY <1>1, <1>3, <2>1 DEF QuoteCashOut
  <2>3. QED BY <1>1, <1>2, <2>1, <2>2 DEF Continues
<1>4. CASE CreditCashOut(p)
  <2>1. u = [op |-> "cashOut", stage |-> "credit", bet |-> u.bet, value |-> u.value]
    BY <1>1, <1>2, <1>4, TaskIs DEF Inv, CashTask, CreditCashOut, At
  <2>2. PICK t : t = [u EXCEPT !.stage = "mark"] OBVIOUS
  <2>3. Goto(p, t) BY <1>1, <1>4, <2>2 DEF CreditCashOut
  <2>4. t.op = "cashOut" BY <2>1, <2>2
  <2>5. QED BY <1>1, <1>2, <2>3, <2>4 DEF Continues
<1>5. QED BY <1>3, <1>4

LEMMA PlacementContinues ==
  ASSUME Inv, NEW p \in Sessions, (\E s \in Selections : ValidateLeg(p, s)) \/ DebitStake(p)
  PROVE  \E t : Goto(p, t) /\ Continues(task[p], t)
<1>1. PICK u : u = task[p] OBVIOUS
<1>2. u.op = "placeBet" BY <1>1 DEF ValidateLeg, DebitStake, At
<1>3. PlaceTask(u) BY <1>1, <1>2, TaskIs DEF Inv
<1>4. u = [op |-> "placeBet", stage |-> u.stage, bet |-> u.bet, user |-> u.user,
           stake |-> u.stake, slip |-> u.slip, locked |-> u.locked]
  BY <1>3 DEF PlaceTask
<1>5. ASSUME NEW s \in Selections, ValidateLeg(p, s) PROVE \E t : Goto(p, t) /\ Continues(u, t)
  <2>1. PICK locked : locked = [l \in DOMAIN u.locked \union {s} |->
                                  IF l = s THEN odds[s] ELSE u.locked[l]]
    OBVIOUS
  <2>2. PICK t : t = [u EXCEPT !.locked = locked] OBVIOUS
  <2>3. Goto(p, t) /\ Playable(s) BY <1>1, <1>5, <2>1, <2>2 DEF ValidateLeg
  <2>4. t.op = "placeBet" /\ t.locked = locked BY <1>4, <2>2
  <2>5. DOMAIN t.locked = DOMAIN u.locked \union {s} BY <2>1, <2>4
  <2>6. QED BY <1>2, <2>3, <2>4, <2>5 DEF Continues
<1>6. ASSUME DebitStake(p) PROVE \E t : Goto(p, t) /\ Continues(u, t)
  <2>1. PICK t : t = [u EXCEPT !.stage = "debit"] OBVIOUS
  <2>2. Goto(p, t) BY <1>1, <1>6, <2>1 DEF DebitStake
  <2>3. t.op = "placeBet" /\ t.locked = u.locked BY <1>4, <2>1
  <2>4. QED BY <1>2, <2>2, <2>3 DEF Continues
<1>7. QED BY <1>1, <1>5, <1>6

-----------------------------------------------------------------------------
\* What a step does to the wallets: a step of Wallet, or nothing.
Selects(p) ==
  /\ task[p].op \in Writes
  /\ \E u \in Users, amount \in Int, tag \in Tags : W!Select(p, u, amount, tag)

LEMMA DebitSelects ==
  ASSUME Inv, NEW p \in Sessions, DebitStake(p)
  PROVE  Selects(p)
<1>1. PICK u : u = task[p] OBVIOUS
<1>2. PICK amount, tag : amount = 0 - u.stake /\ tag = <<"bet_stake", u.bet>> OBVIOUS
<1>3. u.op = "placeBet" /\ W!Select(p, u.user, amount, tag) BY <1>1, <1>2 DEF DebitStake, At
<1>4. PlaceTask(u) BY <1>1, <1>3, TaskIs DEF Inv
<1>5. u.user \in Users /\ amount \in Int /\ tag \in Tags
  BY <1>2, <1>4, DataAssumption DEF PlaceTask, Tags
<1>6. QED BY <1>1, <1>3, <1>5 DEF Selects, Writes

LEMMA CreditSelects ==
  ASSUME Inv, NEW p \in Sessions, CreditCashOut(p)
  PROVE  Selects(p)
<1>1. PICK u : u = task[p] OBVIOUS
<1>2. PICK user, tag : user = bets[u.bet].user /\ tag = <<"cashout", u.bet>> OBVIOUS
<1>3. u.op = "cashOut" /\ u.stage = "credit" /\ W!Select(p, user, u.value, tag)
  BY <1>1, <1>2 DEF CreditCashOut, At
<1>4. u.bet \in Existing /\ u.value \in Int BY <1>1, <1>3, TaskIs DEF Inv, CashTask
<1>5. bets[u.bet] \in BetRow /\ u.bet \in Bets BY <1>4 DEF Existing, Inv, RowsOK
<1>6. user \in Users /\ tag \in Tags BY <1>2, <1>5, BetFacts DEF Tags
<1>7. QED BY <1>1, <1>3, <1>4, <1>6 DEF Selects, Writes

LEMMA PayoutSelects ==
  ASSUME Inv, NEW p \in Sessions, LegsVoid(p) \/ LegsWon(p)
  PROVE  Selects(p)
<1>1. PICK u, b : u = task[p] /\ b = u.bet OBVIOUS
<1>2. u.op = "settleMatch" /\ u.stage = "legs" BY <1>1 DEF LegsVoid, LegsWon, At
<1>3. SettleTask(u) BY <1>1, <1>2, TaskIs DEF Inv
<1>4. b \in Existing /\ b \in Bets /\ bets[b] \in BetRow
  BY <1>1, <1>2, <1>3 DEF SettleTask, Existing, Inv, RowsOK
<1>5. PICK seen \in BetRow : seen = BetSeenBy(u, b) BY <1>4, SeenBet
<1>6. \/ W!Select(p, seen.user, seen.stake, <<"refund", b>>)
      \/ W!Select(p, seen.user, Worth(seen), <<"bet_payout", b>>)
  BY <1>1, <1>5 DEF LegsVoid, LegsWon, Worth
<1>7. seen.user \in Users /\ seen.stake \in Int /\ Worth(seen) \in Int BY BetFacts, WorthIsInt
<1>8. <<"refund", b>> \in Tags /\ <<"bet_payout", b>> \in Tags BY <1>4 DEF Tags
<1>9. QED BY <1>1, <1>2, <1>6, <1>7, <1>8 DEF Selects, Writes

\* What becomes of a request, and of the wallets while it does.
Begins(p) == task[p] = Idle /\ UNCHANGED wvars /\ Request(p)
GoesOn(p) ==
  /\ Continues(task[p], task'[p])
  /\ UNCHANGED wvars \/ Selects(p)
Writing(p) == (W!Update(p) \/ W!Insert(p)) /\ task' = task
Ends(p) ==
  /\ task'[p] = Idle
  /\ \/ UNCHANGED wvars /\ (W!Holds(p) = {} \/ task[p].op \notin Writes)
     \/ W!Commit(p)
     \/ W!Rollback(p)

Turns(p) ==
  /\ Begins(p) \/ GoesOn(p) \/ Writing(p) \/ Ends(p)
  /\ \A q \in Sessions : q # p => task'[q] = task[q]

LEMMA FailEnds ==
  ASSUME Inv, NEW p \in Sessions, Fail(p)
  PROVE  Turns(p)
<1>1. task'[p] = Idle /\ \A q \in Sessions : q # p => task'[q] = task[q]
  BY DEF Fail, Finish, Goto, Inv, RowsOK
<1>2. W!Rollback(p) \/ (UNCHANGED wvars /\ W!Holds(p) = {}) BY DEF Fail
<1>3. QED BY <1>1, <1>2 DEF Turns, Ends

LEMMA RequestBegins ==
  ASSUME Inv, NEW p \in Sessions, Request(p)
  PROVE  Turns(p)
<1>1. task[p] = Idle /\ UNCHANGED wvars /\ \E t : Goto(p, t)
  BY DEF Request, PlaceBet, CashOut, SettleMatch, SetMarketStatus, Starts
<1>2. QED BY <1>1 DEF Turns, Begins, Goto, Inv, RowsOK

LEMMA RequestProceeds ==
  ASSUME Inv, NEW p \in Sessions, Proceed(p)
  PROVE  Turns(p)
<1>1. ASSUME NEW t, Goto(p, t)
      PROVE  task'[p] = t /\ \A q \in Sessions : q # p => task'[q] = task[q]
  BY <1>1 DEF Goto, Inv, RowsOK
<1>2. ASSUME \/ \E s \in Selections : ValidateLeg(p, s)
             \/ \E b \in Bets : LoadBet(p, b)
             \/ QuoteCashOut(p) \/ LegsPending(p) \/ LegsLost(p) \/ MarkBet(p)
      PROVE  Turns(p)
  <2>1. PICK t : Goto(p, t) /\ Continues(task[p], t)
    BY <1>2, PlacementContinues, CashOutContinues, SettlementContinues
  <2>2. UNCHANGED wvars
    BY <1>2 DEF ValidateLeg, LoadBet, QuoteCashOut, LegsPending, LegsLost, MarkBet
  <2>3. QED BY <1>1, <2>1, <2>2 DEF Turns, GoesOn
<1>3. ASSUME DebitStake(p) \/ CreditCashOut(p) \/ LegsVoid(p) \/ LegsWon(p) PROVE Turns(p)
  <2>1. PICK t : Goto(p, t) /\ Continues(task[p], t)
    BY <1>3, PlacementContinues, CashOutContinues, SettlementContinues
  <2>2. Selects(p) BY <1>3, DebitSelects, CreditSelects, PayoutSelects
  <2>3. QED BY <1>1, <2>1, <2>2 DEF Turns, GoesOn
<1>4. ASSUME CommitBet(p) \/ CommitCashOut(p) PROVE Turns(p)
  <2>1. Goto(p, Idle) /\ W!Commit(p) BY <1>4 DEF CommitBet, CommitCashOut, Finish
  <2>2. QED BY <1>1, <2>1 DEF Turns, Ends
<1>5. ASSUME CommitSettlement(p) PROVE Turns(p)
  <2>1. Goto(p, Idle) /\ (W!Commit(p) \/ (UNCHANGED wvars /\ W!Holds(p) = {}))
    BY <1>5 DEF CommitSettlement, Finish
  <2>2. QED BY <1>1, <2>1 DEF Turns, Ends
<1>6. ASSUME WriteMarketStatus(p) PROVE Turns(p)
  <2>1. Goto(p, Idle) /\ UNCHANGED wvars /\ task[p].op \notin Writes
    BY <1>6 DEF WriteMarketStatus, Finish, At, Writes
  <2>2. QED BY <1>1, <2>1 DEF Turns, Ends
<1>7. ASSUME LedgerStep(p) PROVE Turns(p) BY <1>7 DEF LedgerStep, Turns, Writing
<1>8. ASSUME Reject(p) \/ BreakDeadlock(p) PROVE Turns(p)
  BY <1>8, FailEnds DEF Reject, BreakDeadlock
<1>9. QED BY <1>2, <1>3, <1>4, <1>5, <1>6, <1>7, <1>8 DEF Proceed

LEMMA StepTurns ==
  ASSUME Inv, [Next]_vars
  PROVE  (UNCHANGED wvars /\ task' = task) \/ \E p \in Sessions : Turns(p)
<1>1. UNCHANGED vars => UNCHANGED wvars /\ task' = task BY DEF vars
<1>2. \A s \in Selections : DriftOdds(s) => UNCHANGED wvars /\ task' = task BY DEF DriftOdds
<1>3. QED BY <1>1, <1>2, RequestBegins, RequestProceeds, FailEnds DEF Next, Abort

\* The wallets of Betting are the wallets of Wallet: whatever requests do, each
\* of their steps is one of applyLedgerEntry, a COMMIT, a ROLLBACK, or nothing.
THEOREM BetsUseTheWallet == Spec => W!Spec
<1>1. Init => W!Init BY DEF Init
<1>2. ASSUME Inv, [Next]_vars PROVE [W!Next]_wvars
  <2>1. ASSUME NEW p \in Sessions, Turns(p) PROVE UNCHANGED wvars \/ W!Next
    BY <2>1 DEF Turns, Begins, GoesOn, Writing, Ends, Selects, W!Next
  <2>2. QED BY <1>2, <2>1, StepTurns
<1>3. Inv /\ [Next]_vars => [W!Next]_W!wvars BY <1>2 DEF wvars, W!wvars
<1>4. QED BY <1>1, <1>3, Invariance, PTL DEF Spec, W!Spec

\* What is proved of Wallet alone.
WP == INSTANCE WalletProofs WITH Amounts <- Int

LEMMA WalletAssumed == WP!WalletAssumption
BY WalletAssumption DEF WP!WalletAssumption, WP!Call, W!Call

LEMMA SameWallet == WP!Spec <=> W!Spec
BY DEF WP!Spec, WP!Init, WP!Next, WP!wvars, WP!Select, WP!View, WP!Update, WP!Affords,
       WP!Insert, WP!Commit, WP!Publish, WP!Rollback, WP!Holds,
       W!Spec, W!Init, W!Next, W!wvars, W!Select, W!View, W!Update, W!Affords,
       W!Insert, W!Commit, W!Publish, W!Rollback, W!Holds

\* However bets, cash-outs and settlements overlap and wherever they fail, the balance
\* of a wallet is the balance_after of its last committed row.
THEOREM BetsKeepTheTables == Spec => []LastRowIsBalance
<1>1. WP!Spec => []WP!LastRowIsBalance BY WalletAssumed, WP!BalanceMatchesLedger
<1>2. WP!LastRowIsBalance => LastRowIsBalance
  BY DEF WP!LastRowIsBalance, WP!AfterRow, LastRowIsBalance, W!LastRowIsBalance, W!AfterRow
<1>3. QED BY <1>1, <1>2, BetsUseTheWallet, SameWallet, PTL

\* No session loses a movement of its own, over all the entries of a settlement, and
\* none builds on what another has not committed.
THEOREM BetsKeepTheirMovements == Spec => []OwnRowsKept
<1>1. WP!Spec => []WP!OwnRowsKept BY WalletAssumed, WP!OwnMovementsKept
<1>2. WP!OwnRowsKept => OwnRowsKept
  BY DEF WP!OwnRowsKept, WP!BuildsOn, WP!BaseOfRow, WP!AfterRow,
         OwnRowsKept, W!OwnRowsKept, W!BuildsOn, W!BaseOfRow, W!AfterRow
<1>3. QED BY <1>1, <1>2, BetsUseTheWallet, SameWallet, PTL

-----------------------------------------------------------------------------
\* ChainInv.
LEMMA NextChain ==
  ASSUME OneWriter, Inv, ChainInv, [Next]_vars
  PROVE  ChainInv'
<1>1. EntriesInv /\ Chained /\ HeldByWriter BY DEF Inv, ChainInv, Chained
<1>2. ASSUME NEW p \in Sessions, Turns(p), ~ UNCHANGED wvars
      PROVE  /\ task[p].op \in Writes
             /\ \/ Selects(p) /\ task'[p].op = task[p].op
                \/ Writing(p)
                \/ W!Commit(p)
                \/ W!Rollback(p)
  <2>1. \/ Selects(p) /\ task'[p].op = task[p].op
        \/ Writing(p)
        \/ W!Commit(p)
        \/ W!Rollback(p)
    BY <1>2 DEF Turns, Begins, GoesOn, Ends, Continues
  <2>2. Writing(p) => call[p] # None BY DEF Writing, W!Update, W!Insert
  <2>3. W!Commit(p) \/ W!Rollback(p) => call[p] # None \/ W!Holds(p) # {}
    BY DEF W!Commit, W!Rollback
  <2>4. W!Holds(p) # {} => task[p].op \in Writes
    BY <1>1, NoneIsNothing DEF HeldByWriter, W!Holds
  <2>5. QED BY <2>1, <2>2, <2>3, <2>4, CallerWrites DEF Selects
<1>3. CASE UNCHANGED wvars
  <2>1. Chained' BY <1>1, <1>3, ChainedQuietly
  <2>2. lock' = lock BY <1>3 DEF wvars
  <2>3. ASSUME NEW u \in Users, lock[u] # None PROVE task'[lock[u]].op \in Writes
    <3>1. PICK r \in Sessions : r = lock[u] BY <1>1, <2>3 DEF EntriesInv, W!TypeOK
    <3>2. task[r].op \in Writes /\ W!Holds(r) # {}
      BY <1>1, <2>3, <3>1 DEF HeldByWriter, W!Holds
    <3>3. ASSUME NEW p \in Sessions, Turns(p) PROVE task'[r].op = task[r].op
      <4>1. CASE r # p BY <3>3, <4>1 DEF Turns
      <4>2. CASE r = p /\ Ends(p)
        <5>1. ~ W!Commit(p)
          <6>1. W!Commit(p) => lock'[u] = None BY <3>1, <4>2 DEF W!Commit, W!Publish
          <6>2. QED BY <2>2, <2>3, <6>1
        <5>2. ~ W!Rollback(p)
          <6>1. W!Rollback(p) => lock'[u] = None BY <3>1, <4>2 DEF W!Rollback
          <6>2. QED BY <2>2, <2>3, <6>1
        <5>3. QED BY <3>2, <4>2, <5>1, <5>2 DEF Ends
      <4>3. CASE r = p /\ ~ Ends(p)
        BY <3>2, <3>3, <4>3 DEF Turns, Begins, GoesOn, Writing, Continues, Idle, Writes
      <4>4. QED BY <4>1, <4>2, <4>3
    <3>4. QED BY <3>1, <3>2, <3>3, StepTurns
  <2>4. QED BY <2>1, <2>2, <2>3 DEF ChainInv, Chained, HeldByWriter
<1>4. ASSUME NEW p \in Sessions, Turns(p), ~ UNCHANGED wvars PROVE ChainInv'
  <2>1. Solo(p) BY <1>1, <1>2, <1>4, WriterIsSolo
  <2>2. Chained'
    BY <1>1, <1>2, <1>4, <2>1, SelectChained, UpdateChained, InsertChained, CommitChained,
       RollbackChained
    DEF Selects, Writing
  <2>3. HeldByWriter'
    <3>1. CASE Selects(p) /\ task'[p].op = task[p].op
      <4>1. lock' = lock BY <3>1 DEF Selects, W!Select
      <4>2. QED BY <1>2, <1>4, <2>1, <3>1, <4>1 DEF Solo, HeldByWriter
    <3>2. CASE Writing(p)
      <4>1. \A u \in Users : lock'[u] \in {None, p}
        BY <1>1, <2>1, <3>2 DEF Writing, W!Update, W!Insert, Solo, EntriesInv, W!TypeOK
      <4>2. QED BY <1>2, <1>4, <3>2, <4>1 DEF Writing, HeldByWriter
    <3>3. CASE W!Commit(p) \/ W!Rollback(p)
      <4>1. \A u \in Users : lock'[u] = None
        BY <2>1, <3>3 DEF W!Commit, W!Publish, W!Rollback, Solo
      <4>2. QED BY <4>1 DEF HeldByWriter
    <3>4. QED BY <1>2, <1>4, <3>1, <3>2, <3>3
  <2>4. QED BY <2>2, <2>3 DEF ChainInv, Chained
<1>5. QED BY <1>3, <1>4, StepTurns

LEMMA InitChain == Init => ChainInv
<1> SUFFICES ASSUME Init PROVE ChainInv OBVIOUS
<1>1. /\ balance = Opening /\ written = Opening /\ ledger = [u \in Users |-> << >>]
      /\ committed = [u \in Users |-> 0] /\ lock = [u \in Users |-> None]
      /\ call = [p \in Sessions |-> None]
  BY DEF Init, W!Init
<1>2. \A u \in Users : Len(ledger[u]) = 0 /\ committed[u] = 0 BY <1>1
<1>3. \A u \in Users : WalletOK(u)
  BY <1>1, <1>2, NoneIsNothing DEF WalletOK, Latest, Between, W!AfterRow
<1>4. HeldByWriter BY <1>1 DEF HeldByWriter
<1>5. W!ChainUnbroken
  <2>1. \A u \in Users : 1..Len(ledger[u]) = {} BY <1>2
  <2>2. QED BY <2>1 DEF W!ChainUnbroken
<1>6. QED BY <1>3, <1>4, <1>5 DEF ChainInv

\* No movement of a wallet is lost while one session alone places, cashes out
\* and settles, whatever fails midway, and while others set market statuses.
THEOREM OneWriterLosesNothing ==
  ASSUME OneWriter
  PROVE  Spec => []NoMovementLost
<1>1. Init => Inv /\ ChainInv BY InitInv, InitChain
<1>2. Inv /\ ChainInv /\ [Next]_vars => (Inv /\ ChainInv)' BY NextInv, NextChain
<1>3. ChainInv => NoMovementLost BY DEF ChainInv, NoMovementLost
<1>4. QED BY <1>1, <1>2, <1>3, PTL DEF Spec
-----------------------------------------------------------------------------
\* MatchInv.
LEMMA SameMatches ==
  ASSUME NEW t, bets' = bets, matchStatus' = matchStatus, SeesMatches(t)
  PROVE  SeesMatches(t)'
<1>1. Existing' = Existing /\ \A b, m : LegsOn(b, m)' = LegsOn(b, m) BY DEF Existing, LegsOn
<1>2. QED BY <1>1 DEF SeesMatches

\* Requests that neither place nor settle have seen no match.
LEMMA SeesNone ==
  ASSUME NEW t, t.op \notin {"placeBet", "settleMatch"}
  PROVE  SeesMatches(t)
BY DEF SeesMatches

LEMMA RequestSees ==
  ASSUME Inv, MatchInv, NEW p \in Sessions, Request(p)
  PROVE  SeesMatches(task'[p])
<1>1. ASSUME NEW t, Goto(p, t) PROVE task'[p] = t BY <1>1 DEF Goto, Inv, RowsOK
<1>2. ASSUME NEW b \in Bets, NEW u \in Users, NEW stake \in Stakes, NEW slip \in Slips,
             PlaceBet(p, b, u, stake, slip)
      PROVE  SeesMatches(task'[p])
  <2>1. PICK t : t = [op |-> "placeBet", stage |-> "validate", bet |-> b, user |-> u,
                      stake |-> stake, slip |-> slip, locked |-> << >>]
    OBVIOUS
  <2>2. Goto(p, t) BY <1>2, <2>1 DEF PlaceBet
  <2>3. t.op = "placeBet" /\ DOMAIN t.locked = {} BY <2>1, NoLegYet
  <2>4. SeesMatches(t) BY <2>3 DEF SeesMatches
  <2>5. QED BY <1>1, <2>2, <2>4
<1>3. ASSUME NEW m \in Matches, NEW score \in Scores, SettleMatch(p, m, score)
      PROVE  SeesMatches(task'[p])
  <2>1. PICK decided, todo : decided = DecidedLegs(m) /\ todo = EveryBetOn(m) OBVIOUS
  <2>2. PICK t : t = [op |-> "settleMatch", stage |-> "next", match |-> m, score |-> score,
                      decided |-> decided, todo |-> todo, marked |-> << >>]
    OBVIOUS
  <2>3. Goto(p, t) BY <1>3, <2>1, <2>2 DEF SettleMatch
  <2>4. t.op = "settleMatch" /\ t.match = m /\ t.decided = decided BY <2>2
  <2>5. \A b \in Existing : \A s \in LegsOn(b, m) :
          bets[b].result[s] = "pending" => b \in decided
    BY <2>1 DEF DecidedLegs, PendingOn
  <2>6. SeesMatches(t) BY <2>4, <2>5 DEF SeesMatches
  <2>7. QED BY <1>1, <2>3, <2>6
<1>4. ASSUME NEW b \in Bets, CashOut(p, b) PROVE SeesMatches(task'[p])
  <2>1. PICK t : t = [op |-> "cashOut", stage |-> "quote", bet |-> b] OBVIOUS
  <2>2. Goto(p, t) /\ t.op = "cashOut" BY <1>4, <2>1 DEF CashOut
  <2>3. QED BY <1>1, <2>2, SeesNone
<1>5. ASSUME NEW k \in Markets, NEW status \in {"open", "suspended"}, SetMarketStatus(p, k, status)
      PROVE  SeesMatches(task'[p])
  <2>1. PICK t : t = [op |-> "setMarketStatus", stage |-> "write", market |-> k, status |-> status]
    OBVIOUS
  <2>2. Goto(p, t) /\ t.op = "setMarketStatus" BY <1>5, <2>1 DEF SetMarketStatus
  <2>3. QED BY <1>1, <2>2, SeesNone
<1>6. QED BY <1>2, <1>3, <1>4, <1>5 DEF Request

\* A step that commits neither a bet nor a match.
LEMMA QuietMatches ==
  ASSUME Inv, MatchInv, [Next]_vars, bets' = bets, matchStatus' = matchStatus
  PROVE  MatchInv'
<1>1. Existing' = Existing BY DEF Existing
<1>2. PendingToCome' BY <1>1 DEF MatchInv, PendingToCome, WithResult
<1>3. ASSUME NEW q \in Sessions PROVE SeesMatches(task[q])'
  <2>1. PICK t : t = task'[q] OBVIOUS
  <2>2. SeesMatches(task[q]) BY DEF MatchInv
  <2>3. ASSUME NEW p \in Sessions, Turns(p) PROVE SeesMatches(t)
    <3>1. CASE q # p \/ Writing(p) BY <2>1, <2>2, <2>3, <3>1 DEF Turns, Writing
    <3>2. CASE q = p /\ Begins(p) BY <2>1, <3>2, RequestSees DEF Begins
    <3>3. CASE q = p /\ Ends(p)
      <4>1. t = Idle BY <2>1, <3>3 DEF Ends
      <4>2. t.op \notin {"placeBet", "settleMatch"} BY <4>1 DEF Idle
      <4>3. QED BY <4>2, SeesNone
    <3>4. CASE q = p /\ GoesOn(p)
      <4>1. Continues(task[q], t) BY <2>1, <3>4 DEF GoesOn
      <4>2. QED BY <2>2, <4>1 DEF SeesMatches, Continues, Playable
    <3>5. QED BY <2>3, <3>1, <3>2, <3>3, <3>4 DEF Turns
  <2>4. SeesMatches(t) BY <2>1, <2>2, <2>3, StepTurns
  <2>5. SeesMatches(t)' BY <2>4, SameMatches
  <2>6. QED BY <2>1, <2>5 DEF SeesMatches, LegsOn
<1>4. QED BY <1>2, <1>3 DEF MatchInv

\* When the writer commits, nobody else has seen a match.
LEMMA WriterCommits ==
  ASSUME OneWriter, Inv, NEW p \in Sessions, task[p].op \in Writes, Goto(p, Idle),
         PendingToCome'
  PROVE  MatchInv'
<1>1. ASSUME NEW q \in Sessions PROVE SeesMatches(task[q])'
  <2>1. PICK t : t = task'[q] OBVIOUS
  <2>2. t.op \notin {"placeBet", "settleMatch"}
    <3>1. q # p => t = task[q] BY <2>1 DEF Goto, Inv, RowsOK
    <3>2. q = p => t = Idle BY <2>1 DEF Goto, Inv, RowsOK
    <3>3. q # p => task[q].op \notin Writes BY WriterIsAlone DEF Inv
    <3>4. QED BY <3>1, <3>2, <3>3 DEF Idle, Writes
  <2>3. QED BY <2>1, <2>2 DEF SeesMatches
<1>2. QED BY <1>1 DEF MatchInv

LEMMA BetCommitMatches ==
  ASSUME OneWriter, Inv, MatchInv, NEW p \in Sessions, CommitBet(p) \/ CommitCashOut(p)
  PROVE  MatchInv'
<1>1. PICK u : u = task[p] OBVIOUS
<1>2. matchStatus' = matchStatus /\ Goto(p, Idle) BY DEF CommitBet, CommitCashOut, Finish
<1>3. /\ u.op \in Writes /\ u.bet \in Bets /\ bets'[u.bet] \in BetRow
      /\ \A b \in Bets : b # u.bet => bets'[b] = bets[b]
  <2>1. CASE CommitBet(p) BY <1>1, <2>1, CommitBetIs DEF Writes
  <2>2. CASE CommitCashOut(p) BY <1>1, <2>2, CommitCashOutIs DEF Writes, Existing
  <2>3. QED BY <2>1, <2>2
<1>4. \A s \in WithResult(bets'[u.bet], "pending") : matchStatus[MatchOfLeg(s)] # "finished"
  <2>1. CASE CommitBet(p)
    <3>1. u.op = "placeBet" /\ bets'[u.bet].locked = u.locked BY <1>1, <2>1, CommitBetIs
    <3>2. SeesMatches(u) BY <1>1 DEF MatchInv
    <3>3. QED BY <3>1, <3>2 DEF SeesMatches, WithResult
  <2>2. CASE CommitCashOut(p)
    <3>1. /\ u.bet \in Existing /\ bets'[u.bet].result = bets[u.bet].result
          /\ bets'[u.bet].locked = bets[u.bet].locked
      BY <1>1, <2>2, CommitCashOutIs
    <3>2. QED BY <3>1 DEF MatchInv, PendingToCome, WithResult
  <2>3. QED BY <2>1, <2>2
<1>5. PendingToCome'
  <2>1. ASSUME NEW b \in Existing', NEW s \in WithResult(bets'[b], "pending")
        PROVE  matchStatus'[MatchOfLeg(s)] # "finished"
    <3>1. CASE b = u.bet BY <1>2, <1>4, <2>1, <3>1
    <3>2. CASE b # u.bet
      <4>1. b \in Existing /\ bets'[b] = bets[b] BY <1>3, <3>2 DEF Existing
      <4>2. QED BY <1>2, <2>1, <4>1 DEF MatchInv, PendingToCome
    <3>3. QED BY <3>1, <3>2
  <2>2. QED BY <2>1 DEF PendingToCome, WithResult, MatchOfLeg
<1>6. QED BY <1>1, <1>2, <1>3, <1>5, WriterCommits

LEMMA SettlementCommitMatches ==
  ASSUME OneWriter, Inv, MatchInv, NEW p \in Sessions, CommitSettlement(p)
  PROVE  MatchInv'
<1>1. PICK u : u = task[p] OBVIOUS
<1>2. /\ u.op = "settleMatch" /\ u.op \in Writes /\ Goto(p, Idle)
      /\ matchStatus' = [matchStatus EXCEPT ![u.match] = "finished"]
  BY <1>1 DEF CommitSettlement, At, Finish, Writes
<1>3. ASSUME NEW b \in Existing', NEW s \in WithResult(bets'[b], "pending")
      PROVE  matchStatus'[MatchOfLeg(s)] # "finished"
  <2>1. b \in Existing BY SettlementKeeps DEF Existing
  <2>2. PICK bet \in BetRow : bet = bets[b] BY <2>1 DEF Existing, Inv, RowsOK
  <2>3. /\ bets'[b].locked = bet.locked
        /\ \A l \in DOMAIN bet.locked : bets'[b].result[l] = ResultSeenBy(u, b, l)
    BY <1>1, <2>1, <2>2, CommitSettlementIs
  <2>4. s \in DOMAIN bet.locked /\ ResultSeenBy(u, b, s) = "pending" BY <1>3, <2>3 DEF WithResult
  <2>5. ~ (b \in u.decided /\ MatchOfLeg(s) = u.match)
    BY <2>4, DecidedResult DEF ResultSeenBy
  <2>6. bet.result[s] = "pending" BY <2>2, <2>4, <2>5 DEF ResultSeenBy
  <2>7. MatchOfLeg(s) # u.match
    <3>1. SeesMatches(u) BY <1>1 DEF MatchInv
    <3>2. MatchOfLeg(s) = u.match => s \in LegsOn(b, u.match) BY <2>2, <2>4 DEF LegsOn
    <3>3. QED BY <1>2, <2>1, <2>2, <2>5, <2>6, <3>1, <3>2 DEF SeesMatches
  <2>8. s \in WithResult(bets[b], "pending") BY <2>2, <2>4, <2>6 DEF WithResult
  <2>9. matchStatus[MatchOfLeg(s)] # "finished" BY <2>1, <2>8 DEF MatchInv, PendingToCome
  <2>10. QED BY <1>2, <2>7, <2>9 DEF Inv, RowsOK
<1>4. PendingToCome' BY <1>3 DEF PendingToCome, WithResult, MatchOfLeg
<1>5. QED BY <1>1, <1>2, <1>4, WriterCommits

LEMMA MatchesStay ==
  ASSUME [Next]_vars
  PROVE  matchStatus' = matchStatus \/ \E p \in Sessions : CommitSettlement(p)
<1>1. ASSUME NEW p \in Sessions, Request(p) PROVE matchStatus' = matchStatus
  BY <1>1 DEF Request, PlaceBet, CashOut, SettleMatch, SetMarketStatus, bvars
<1>2. ASSUME NEW p \in Sessions, Fail(p) PROVE matchStatus' = matchStatus BY <1>2 DEF Fail, bvars
<1>3. ASSUME NEW p \in Sessions, Proceed(p)
      PROVE  matchStatus' = matchStatus \/ CommitSettlement(p)
  <2>1. ASSUME NEW s \in Selections, ValidateLeg(p, s) PROVE matchStatus' = matchStatus
    BY <2>1 DEF ValidateLeg, bvars
  <2>2. ASSUME NEW b \in Bets, LoadBet(p, b) PROVE matchStatus' = matchStatus
    BY <2>2 DEF LoadBet, bvars
  <2>3. ASSUME \/ DebitStake(p) \/ CreditCashOut(p) \/ LegsVoid(p) \/ LegsWon(p)
               \/ QuoteCashOut(p) \/ LegsPending(p) \/ LegsLost(p) \/ MarkBet(p)
        PROVE  matchStatus' = matchStatus
    BY <2>3 DEF DebitStake, CreditCashOut, LegsVoid, LegsWon, QuoteCashOut, LegsPending,
                LegsLost, MarkBet, bvars
  <2>4. ASSUME CommitBet(p) \/ CommitCashOut(p) \/ WriteMarketStatus(p) \/ LedgerStep(p)
        PROVE  matchStatus' = matchStatus
    BY <2>4 DEF CommitBet, CommitCashOut, WriteMarketStatus, LedgerStep, bvars
  <2>5. ASSUME Reject(p) \/ BreakDeadlock(p) PROVE matchStatus' = matchStatus
    BY <1>2, <2>5 DEF Reject, BreakDeadlock
  <2>6. QED BY <1>3, <2>1, <2>2, <2>3, <2>4, <2>5 DEF Proceed
<1>4. ASSUME NEW s \in Selections, DriftOdds(s) PROVE matchStatus' = matchStatus
  BY <1>4 DEF DriftOdds
<1>5. UNCHANGED vars => matchStatus' = matchStatus BY DEF vars, bvars
<1>6. QED BY <1>1, <1>2, <1>3, <1>4, <1>5 DEF Next, Abort

LEMMA NextMatches ==
  ASSUME OneWriter, Inv, MatchInv, [Next]_vars
  PROVE  MatchInv'
<1>1. ASSUME NEW p \in Sessions, CommitBet(p) \/ CommitCashOut(p) PROVE MatchInv'
  BY <1>1, BetCommitMatches
<1>2. ASSUME NEW p \in Sessions, CommitSettlement(p) PROVE MatchInv'
  BY <1>2, SettlementCommitMatches
<1>3. CASE bets' = bets /\ matchStatus' = matchStatus BY <1>3, QuietMatches
<1>4. QED BY <1>1, <1>2, <1>3, BetsChange, MatchesStay

LEMMA InitMatches == Init => MatchInv
<1> SUFFICES ASSUME Init PROVE MatchInv OBVIOUS
<1>1. /\ bets = Placed /\ matchStatus = [m \in Matches |-> "scheduled"]
      /\ \A p \in Sessions : task[p] = Idle
  BY DEF Init
<1>2. \A s \in Selections : matchStatus[MatchOfLeg(s)] = "scheduled"
  BY <1>1, DataAssumption DEF MatchOfLeg
<1>3. \A b \in Existing : DOMAIN bets[b].locked \subseteq Selections
  BY <1>1, PlacedAssumption, BetFacts DEF Existing
<1>4. PendingToCome BY <1>2, <1>3 DEF PendingToCome, WithResult
<1>5. QED BY <1>1, <1>4, SeesNone DEF MatchInv, Idle

\* No stake stays locked in a bet nothing will ever settle while one session
\* alone places, cashes out and settles: an open bet has a pending leg on a match
\* that is not finished.  MCBettingWriteSkew shows a second session lose this.
THEOREM OpenBetsArePlayable ==
  ASSUME OneWriter
  PROVE  Spec => []OpenBetIsPlayable
<1>1. OnePayer BY WriterIsPayer
<1>2. Init => MatchInv BY InitMatches
<1>3. Inv /\ MatchInv /\ [Next]_vars => MatchInv' BY NextMatches
<1>4. Spec => [](Inv /\ PayerInv) BY <1>1, PayerInvariance
<1>5. PayerInv /\ MatchInv => OpenBetIsPlayable
  <2>1. ASSUME PayerInv, MatchInv, NEW b \in Existing, bets[b].status = "open"
        PROVE  \E s \in WithResult(bets[b], "pending") : matchStatus[MatchOfLeg(s)] # "finished"
    BY <2>1 DEF PayerInv, MatchInv, PendingToCome
  <2>2. QED BY <2>1 DEF OpenBetIsPlayable
<1>6. QED BY <1>2, <1>3, <1>4, <1>5, PTL DEF Spec

\* A bet that a settlement decided is not cashed out afterwards, if one session
\* alone pays; MCBettingDoublePay shows two sessions do it.
THEOREM OnePayerRefusesSettled ==
  ASSUME OnePayer
  PROVE  Spec => SettledBetsRefuseCashOut
<1> DEFINE Refuses == \A b \in Existing : bets[b].status \in {"won", "lost", "void"} =>
                        bets'[b].status # "cashed_out"
<1>1. ASSUME Inv, PayerInv, [Next]_vars PROVE Refuses
  <2>1. SUFFICES ASSUME NEW b \in Existing, bets[b].status \in {"won", "lost", "void"}
                 PROVE  bets'[b].status # "cashed_out"
    OBVIOUS
  <2>2. b \in Bets /\ bets[b] # None BY DEF Existing
  <2>3. StatusStep(b) BY <1>1, <2>2, StatusSteps
  <2>4. StatusIn(bets)[b] = bets[b].status BY <2>2 DEF StatusIn
  <2>5. StatusIn(bets)'[b] = IF bets'[b] = None THEN "none" ELSE bets'[b].status
    BY <2>2 DEF StatusIn
  <2>6. StatusIn(bets)'[b] \in {"won", "lost", "void"} BY <2>1, <2>3, <2>4 DEF StatusStep
  <2>7. QED BY <2>5, <2>6
<1>2. QED BY <1>1, PayerInvariance, PTL DEF Spec, SettledBetsRefuseCashOut
=============================================================================
