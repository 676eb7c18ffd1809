------------------------------ MODULE MCWallet ------------------------------
\* Two concurrent requests over two wallets: bets debited, wins credited.
EXTENDS Wallet, TLC

CONSTANTS u1, u2, s1, s2, bet

MCUsers    == {u1, u2}
MCSessions == {s1, s2}
MCAmounts  == {-2, 1}
MCTags     == {bet}
MCOpening  == [u \in MCUsers |-> IF u = u1 THEN 2 ELSE 1]
MCMaxRows  == 3
MCSymmetry == Permutations(MCSessions)
=============================================================================
