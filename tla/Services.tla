------------------------------ MODULE Services ------------------------------
(***************************************************************************)
(* What a customer does around the bets, side by side: responsible         *)
(* gambling (Limits), one-use tokens, the account, the risk score and live *)
(* odds.  They share no state, so `focus` names the one that a behaviour   *)
(* is about and the others stay as they began.                             *)
(***************************************************************************)
EXTENDS Limits

CONSTANTS
  Tokens, TypeOf, TokenTtl, TokenPatience,     \* Tokens
  Secrets,                                     \* Accounts
  MaxBets, Minute, BetPatience,                \* Risk
  Selections, MatchOf, Prices, OpeningOdds, MaxOddsMoves, MaxFailures  \* LiveOdds

VARIABLES
  focus,
  tokens, job, password, verified, applied, readers, closed,  \* Tokens
  rows, wallets, user, errand, shown, confirmed, overwrote,   \* Accounts
  sharing, young, flight, recent, risky,                      \* Risk
  odds, updates, channel, socket, snapshot, live, slip, request, bet,
  oddsMoves, failures, raced                                  \* LiveOdds

tokenVars   == <<tokens, job, password, verified, applied, readers, closed>>
accountVars == <<rows, wallets, user, errand, shown, confirmed, overwrote>>
riskVars    == <<sharing, young, flight, recent, risky>>
oddsVars    == <<odds, updates, channel, socket, snapshot, live, slip, request, bet,
                 oddsMoves, failures, raced>>

-----------------------------------------------------------------------------
Tok  == INSTANCE Tokens WITH Requests <- Sessions, Ttl <- TokenTtl, Patience <- TokenPatience
Acc  == INSTANCE Accounts WITH Requests <- Sessions, task <- errand
Rsk  == INSTANCE Risk WITH Requests <- Sessions, Patience <- BetPatience
Live == INSTANCE LiveOdds WITH Opening <- OpeningOdds, MaxMoves <- MaxOddsMoves, moves <- oddsMoves

ASSUME ServicesAssumption ==
  Tok!TokensAssumption /\ Acc!AccountsAssumption /\ Rsk!RiskAssumption /\ Live!LiveOddsAssumption

-----------------------------------------------------------------------------
Components == {"limits", "tokens", "account", "risk", "odds"}
everything == <<focus, vars, tokenVars, accountVars, riskVars, oddsVars>>

ServicesInit ==
  /\ focus \in Components
  /\ Init /\ Tok!Init /\ Acc!Init /\ Rsk!Init /\ Live!Init
  /\ focus # "risk" => sharing = 0 /\ ~young

ServicesNext ==
  \/ focus = "limits" /\ Next
     /\ UNCHANGED <<focus, tokenVars, accountVars, riskVars, oddsVars>>
  \/ focus = "tokens" /\ Tok!Next
     /\ UNCHANGED <<focus, vars, accountVars, riskVars, oddsVars>>
  \/ focus = "account" /\ Acc!Next
     /\ UNCHANGED <<focus, vars, tokenVars, riskVars, oddsVars>>
  \/ focus = "risk" /\ Rsk!Next
     /\ UNCHANGED <<focus, vars, tokenVars, accountVars, oddsVars>>
  \/ focus = "odds" /\ Live!Next
     /\ UNCHANGED <<focus, vars, tokenVars, accountVars, riskVars>>

ServicesSpec == ServicesInit /\ [][ServicesNext]_everything

-----------------------------------------------------------------------------
\* The types of every component's state.
TypesOK ==
  CASE focus = "limits"  -> TypeOK
    [] focus = "tokens"  -> Tok!TypeOK
    [] focus = "account" -> Acc!TypeOK
    [] focus = "risk"    -> Rsk!TypeOK
    [] focus = "odds"    -> Live!TypeOK

\* A token serves no request that checks it after it was marked (consumeToken).
ServesItsReaders == focus = "tokens" => Tok!ServesItsReaders
\* A finished resetPassword leaves no reset token usable that it found.
ResetClosesTokens == focus = "tokens" => Tok!ResetClosesTokens
\* Expired tokens neither set passwords nor verify e-mails.
ExpiredTokensChangeNothing == Tok!ExpiredTokensChangeNothing
\* Enabled MFA has the secret whose code enabled it (enableMfa).
EnabledMfaIsUsable == focus = "account" => Acc!EnabledMfaIsUsable
\* A burst of risky bets exceeds the velocity limit by at most those in flight.
RiskyBurstBounded == focus = "risk" => Rsk!RiskyBurstBounded
\* A bet is accepted at the odds the customer saw (MatchesView, placeBet).
AcceptedAsSeen == focus = "odds" => Live!AcceptedAsSeen
\* Odds on screen are those in force once everything is delivered (useLiveOdds).
QuietMapIsCurrent == focus = "odds" => Live!QuietMapIsCurrent
=============================================================================
