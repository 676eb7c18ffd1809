-------------------------------- MODULE Risk --------------------------------
(***************************************************************************)
(* The risk score of one user's bets (fraud.service.ts) between its reads  *)
(* and the transaction of placeBet that stores the bet: the velocity is    *)
(* counted over bets already committed.                                    *)
(***************************************************************************)
EXTENDS Integers, FiniteSets, Functions

CONSTANTS
  Requests,   \* bets that may be in flight at once
  None,       \* no bet
  MaxBets,    \* fraudMaxBetsPerMinute
  Minute,     \* intervals in a minute
  Patience    \* BOUND: the intervals that a bet may last in flight

\* What every instance assumes of the constants.
RiskAssumption ==
  /\ MaxBets \in Nat \ {0} /\ Minute \in Nat /\ Patience \in 0..(Minute - 1)

VARIABLES
  sharing,    \* accounts registered from the same IP: 0, 1 (to 2), 3 (or more)
  young,      \* the account is less than ten minutes old
  flight,     \* the bet of each request: its signals, score, stage and ages
  recent,     \* committed bets by the age of their placed_at
  risky       \* history: likewise those that the other signals made risky

vars == <<sharing, young, flight, recent, risky>>

NoBet == [stage |-> "idle", score |-> 0, risky |-> FALSE, age |-> 0, placed |-> 0]
Ages == 0..(Minute - 1)

Init ==
  /\ sharing \in {0, 1, 3} /\ young \in BOOLEAN
  /\ flight = [r \in Requests |-> NoBet]
  /\ recent = [n \in Ages |-> 0] /\ risky = [n \in Ages |-> 0]

Sum(counts) == FoldFunction(LAMBDA n, sum : n + sum, 0, counts)

-----------------------------------------------------------------------------
\* The signals of assessBetRisk.  A stake is told by the share of maxStake, in
\* percent, that it reaches: nothing, 50, 80 or all of it.
StakeShares == {0, 50, 80, 100}

VelocityLow(n) == IF 2 * n >= MaxBets THEN 15 ELSE 0
Velocity(n) == IF n >= MaxBets THEN 40 ELSE VelocityLow(n)
StakeScore(stake) == CASE stake = 100 -> 25 [] stake = 80 -> 10 [] OTHER -> 0
OddsScore(extreme) == IF extreme THEN 15 ELSE 0
SharingScore == CASE sharing = 3 -> 25 [] sharing = 1 -> 10 [] OTHER -> 0
YoungScore(stake) == IF young /\ stake >= 50 THEN 15 ELSE 0

OtherSignals(stake, extreme) == StakeScore(stake) + OddsScore(extreme) + SharingScore + YoungScore(stake)
Score(stake, extreme) ==
  LET score == Velocity(Sum(recent)) + OtherSignals(stake, extreme)
  IN  IF score > 100 THEN 100 ELSE score

HardBlockThreshold == 80
FlagThreshold == 40

\* The points that velocity_alta adds are enough to block the bet.
IsRisky(stake, extreme) == OtherSignals(stake, extreme) >= HardBlockThreshold - 40

-----------------------------------------------------------------------------
Assess(r, stake, extreme) ==
  /\ flight[r].stage = "idle"
  /\ flight' = [flight EXCEPT ![r] = [NoBet EXCEPT !.stage = "assessed", !.score = Score(stake, extreme),
                                                   !.risky = IsRisky(stake, extreme)]]
  /\ UNCHANGED <<sharing, young, recent, risky>>

\* enforceBetRisk raises bet_blocked and refuses the bet.
Block(r) ==
  /\ flight[r].stage = "assessed"
  /\ flight[r].score >= HardBlockThreshold
  /\ flight' = [flight EXCEPT ![r] = NoBet]
  /\ UNCHANGED <<sharing, young, recent, risky>>

\* It raises bet_high_risk, and goes on.
Flag(r) ==
  /\ flight[r].stage = "assessed"
  /\ flight[r].score \in FlagThreshold..(HardBlockThreshold - 1)
  /\ flight' = [flight EXCEPT ![r].stage = "flagged"]
  /\ UNCHANGED <<sharing, young, recent, risky>>

\* placed_at is the time before the transaction begins.
Place(r) ==
  /\ \/ flight[r].stage = "flagged"
     \/ flight[r].stage = "assessed" /\ flight[r].score < FlagThreshold
  /\ flight' = [flight EXCEPT ![r].stage = "placing"]
  /\ UNCHANGED <<sharing, young, recent, risky>>

\* Counts beyond those that decide anything are not told apart.
AtMost(n, max) == IF n > max THEN max ELSE n

Commit(r) ==
  LET age == flight[r].placed
  IN  /\ flight[r].stage = "placing"
      /\ recent' = [recent EXCEPT ![age] = AtMost(@ + 1, MaxBets)]
      /\ risky' = IF flight[r].risky
                  THEN [risky EXCEPT ![age] = AtMost(@ + 1, MaxBets + Cardinality(Requests))]
                  ELSE risky
      /\ flight' = [flight EXCEPT ![r] = NoBet]
      /\ UNCHANGED <<sharing, young>>

\* Any other refusal or error: insufficient funds, a failed statement.
Fail(r) ==
  /\ flight[r].stage # "idle"
  /\ flight' = [flight EXCEPT ![r] = NoBet]
  /\ UNCHANGED <<sharing, young, recent, risky>>

Older(counts) == [n \in Ages |-> IF n = 0 THEN 0 ELSE counts[n - 1]]

Elapse ==
  /\ \A r \in Requests : flight[r].stage = "idle" \/ flight[r].age < Patience
  /\ flight' = [r \in Requests |->
                  IF flight[r].stage = "idle" THEN NoBet
                  ELSE [flight[r] EXCEPT !.age = @ + 1,
                                         !.placed = IF flight[r].stage = "placing" THEN @ + 1 ELSE 0]]
  /\ recent' = Older(recent) /\ risky' = Older(risky)
  /\ UNCHANGED <<sharing, young>>

Next ==
  \/ \E r \in Requests :
       \/ \E stake \in StakeShares, extreme \in BOOLEAN : Assess(r, stake, extreme)
       \/ Block(r) \/ Flag(r) \/ Place(r) \/ Commit(r) \/ Fail(r)
  \/ Elapse

Spec == Init /\ [][Next]_vars

-----------------------------------------------------------------------------
Flights == [stage : {"idle", "assessed", "flagged", "placing"}, score : 0..100, risky : BOOLEAN,
            age : 0..Patience, placed : 0..Patience]

TypeOK ==
  /\ sharing \in {0, 1, 3} /\ young \in BOOLEAN
  /\ flight \in [Requests -> Flights]
  /\ recent \in [Ages -> 0..MaxBets]
  /\ risky \in [Ages -> 0..(MaxBets + Cardinality(Requests))]

\* Bets that a burst makes unacceptable exceed the limit of a minute by at most
\* the ones that were assessed together.
RiskyBurstBounded == Sum(risky) <= MaxBets - 1 + Cardinality(Requests)
=============================================================================
