----------------------------- MODULE MCBetting -----------------------------
\* Two matches with one market each, one customer, two bets (a single and a
\* combination share a leg), as many sessions as the configuration names.
EXTENDS Betting, TLC

CONSTANTS u1, s1, s2, m1, m2, k1, k2, over, under, yes

MCUsers      == {u1}
MCSessions   == {s1, s2}
MCBets       == {1, 2}
MCMatches    == {m1, m2}
MCMarkets    == {k1, k2}
MCSelections == {over, under, yes}
MCTwoSelections == {under, yes}
MCMatchOf    == [k \in MCMarkets |-> IF k = k1 THEN m1 ELSE m2]
MCMarketOf   == [s \in Selections |-> IF s = yes THEN k2 ELSE k1]
MCNameOf     == [s \in Selections |-> CASE s = over -> "Mas de 2.5"
                                          [] s = under -> "Menos de 2.5"
                                          [] OTHER -> "Si"]
MCTypeOf     == [k \in MCMarkets |-> IF k = k1 THEN "over_under_2_5" ELSE "btts"]
MCScores     == {<<0, 0>>, <<2, 1>>}
MCOneScore   == {<<2, 1>>}
MCFirstOdds  == [s \in Selections |-> 150]
MCTaxPercent == [u \in MCUsers |-> 6]
MCOpening    == [u \in MCUsers |-> 200]
MCStakes     == {100}

\* A market of a type the settlement does not know is voided.
MCVoidTypeOf == [k \in MCMarkets |-> IF k = k1 THEN "over_under_2_5" ELSE "handicap"]

MCOnePayer   == [p \in MCSessions |->
                   IF p = s1 THEN {"cashOut", "settleMatch", "setMarketStatus"} ELSE {"placeBet"}]
MCPayers     == [p \in MCSessions |-> {"cashOut", "settleMatch"}]

MCSlips      == {{over}, {over, yes}}
MCVoidSlips  == {{yes}, {under, yes}}
MCPaySlips   == {{under}, {over, yes}}

Open(slip)   == [user |-> u1, stake |-> 100, locked |-> [s \in slip |-> 150],
                 result |-> [s \in slip |-> "pending"], status |-> "open"]
MCPairPlaced == [b \in MCBets |-> IF b = 1 THEN Open({under, yes}) ELSE None]
MCOnePlaced  == [b \in MCBets |-> IF b = 1 THEN Open({over}) ELSE None]
MCTwoPlaced  == [b \in MCBets |-> IF b = 1 THEN Open({under}) ELSE Open({over, yes})]
=============================================================================
