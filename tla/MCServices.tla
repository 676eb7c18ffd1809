----------------------------- MODULE MCServices -----------------------------
(***************************************************************************)
(* Services for TLC: two requests of one customer in flight.               *)
(***************************************************************************)
EXTENDS Services, TLC

CONSTANTS
  s1, s2,          \* two requests in flight
  x, y,            \* MFA secrets
  home, draw       \* selections of two matches

MCSessions == {s1, s2}
MCSymmetry == Permutations(MCSessions)
MCKinds    == {"deposit", "loss"}
MCOpening  == [k \in MCKinds |-> 1]

MCTokens   == 1..3
MCTypeOf   == [t \in MCTokens |-> IF t = 1 THEN "email_verify" ELSE "password_reset"]
MCTokenTtl == [type \in {"email_verify", "password_reset"} |-> IF type = "email_verify" THEN 2 ELSE 1]

MCSelections  == {home, draw}
MCMatchOf     == [s \in MCSelections |-> s]
MCOpeningOdds == [s \in MCSelections |-> 150]
=============================================================================
