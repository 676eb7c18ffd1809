------------------------------ MODULE MCLease ------------------------------
\* Two instances of the odds engine, with the TTL of oddsEngine.ts: five intervals.
EXTENDS OddsLease, TLC

CONSTANTS i1, i2

MCSymmetry == Permutations(Instances)
=============================================================================
