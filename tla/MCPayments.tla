----------------------------- MODULE MCPayments -----------------------------
\* One customer, two requests at a time, two intents that may share a key.
EXTENDS Payments, TLC

CONSTANTS u1, s1, s2, key1, key2

MCUsers          == {u1}
MCSessions       == {s1, s2}
MCKeys           == {key1, key2}
MCOneKey         == {key1}
MCIntents        == {1, 2}
MCOneIntent      == {1}
MCOpening        == [u \in MCUsers |-> 5]
MCDepositAmounts == {10}
MCPayoutAmounts  == {10}
MCNoAmounts      == {}
MCDepositLimit   == [u \in MCUsers |-> 15]
MCResults        == {"pending", "completed"}
MCStripeResults  == {"pending"}
=============================================================================
