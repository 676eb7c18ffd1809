------------------------------ MODULE MCLimits ------------------------------
\* One user with two requests in flight; a day is one unit of time.
EXTENDS Limits, TLC

CONSTANTS s1, s2

MCSessions   == {s1, s2}
MCKinds      == {"deposit", "loss"}
MCOpening    == [k \in MCKinds |-> 1]
MCSymmetry   == Permutations(MCSessions)
=============================================================================
