----------------------------- MODULE BetPromise -----------------------------
(***************************************************************************)
(* What a betting house promises of every bet, whatever happens inside: a  *)
(* bet is placed once, decided at most once and for good, and a bet that   *)
(* is won, voided or cashed out is credited exactly once, at the moment it *)
(* is decided.                                                             *)
(***************************************************************************)
EXTENDS Naturals

CONSTANTS Bets, InitialStatus

VARIABLES
  status,   \* the customer's view of each bet
  credits   \* how many times each bet has been credited

Credited == {"won", "void", "cashed_out"}

Init ==
  /\ status = InitialStatus
  /\ credits = [b \in Bets |-> 0]

Place(b) ==
  /\ status[b] = "none"
  /\ status'[b] = "open"
  /\ credits'[b] = credits[b]

Decide(b) ==
  /\ status[b] = "open"
  /\ \/ status'[b] = "lost" /\ credits'[b] = credits[b]
     \/ status'[b] \in Credited /\ credits'[b] = credits[b] + 1

Keep(b) == status'[b] = status[b] /\ credits'[b] = credits[b]

\* A settlement decides several bets in one step.
Next ==
  /\ DOMAIN status' = Bets
  /\ DOMAIN credits' = Bets
  /\ \A b \in Bets : Place(b) \/ Decide(b) \/ Keep(b)

Spec == Init /\ [][Next]_<<status, credits>>
=============================================================================
