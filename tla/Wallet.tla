------------------------------- MODULE Wallet -------------------------------
(***************************************************************************)
(* The wallet of wallet.service.ts inside a PostgreSQL transaction.        *)
(*                                                                         *)
(* applyLedgerEntry is three statements with an await between each: SELECT *)
(* the balance (no FOR UPDATE), UPDATE wallets to an absolute value,       *)
(* INSERT the transactions row.  Every caller runs it on the client of a   *)
(* Db.tx, so the statements of one session are published together by       *)
(* COMMIT or dropped together by ROLLBACK.  Other sessions interleave at   *)
(* every await, under READ COMMITTED: a SELECT sees committed rows and the *)
(* session's own writes, an UPDATE waits for the row lock of another       *)
(* transaction and then writes.                                            *)
(***************************************************************************)
EXTENDS Integers, Sequences

CONSTANTS
  Users,     \* the owners of wallets
  Sessions,  \* the requests in flight, each with its database client
  Amounts,   \* signed amounts, in minor units
  Tags,      \* the (type, ref_id) pairs written to transactions
  Opening,   \* each wallet's balance when the behaviour begins
  MaxRows,   \* BOUND: transactions rows per wallet
  None       \* no session, no call

VARIABLES
  balance,    \* wallets.balance, as committed
  written,    \* wallets.balance, as the holder of the row lock sees it
  ledger,     \* transactions rows of each wallet, in the order inserted
  committed,  \* how many of those rows are committed
  lock,       \* the session holding the row lock of each wallets row
  call        \* the applyLedgerEntry each session is executing

wvars == <<balance, written, ledger, committed, lock, call>>

-----------------------------------------------------------------------------
\* A transactions row; `by` is not a column: it names the session that
\* inserted the row, so that properties can speak of it.
Row == [amount : Int, after : Nat, tag : Tags, by : Sessions]

\* An applyLedgerEntry between its first and its last statement: `wallet` is
\* the balance it has read, `step` the statement to run next.
Call == [user : Users, amount : Int, tag : Tags, wallet : Int,
         step : {"update", "insert"}]

WalletAssumption ==
  /\ Amounts \subseteq Int
  /\ Opening \in [Users -> Nat]
  /\ None \notin Sessions \union Call

\* A SELECT sent through the pool instead of the transaction's own client.
ViewThroughPool(p, u) == balance[u]

\* wallets.balance as a SELECT of session p, in its transaction, sees it.
View(p, u) == IF lock[u] = p THEN written[u] ELSE balance[u]

\* The check before the UPDATE: otherwise the call throws insufficient_funds
\* and its transaction ends in Rollback.
AffordsNothingChecked(c) == TRUE
Affords(c) == c.wallet + c.amount >= 0

Holds(p) == {u \in Users : lock[u] = p}

-----------------------------------------------------------------------------
Init ==
  /\ balance = Opening
  /\ written = Opening
  /\ ledger = [u \in Users |-> << >>]
  /\ committed = [u \in Users |-> 0]
  /\ lock = [u \in Users |-> None]
  /\ call = [p \in Sessions |-> None]

\* SELECT balance FROM wallets.
Select(p, u, amount, tag) ==
  /\ call[p] = None
  /\ call' = [call EXCEPT ![p] = [user |-> u, amount |-> amount, tag |-> tag,
                                  wallet |-> View(p, u), step |-> "update"]]
  /\ UNCHANGED <<balance, written, ledger, committed, lock>>

\* UPDATE wallets SET balance = newBalance: takes the row lock.
Update(p) ==
  LET c == call[p] IN
  /\ c # None
  /\ c.step = "update"
  /\ Affords(c)
  /\ lock[c.user] \in {None, p}
  /\ Len(ledger[c.user]) < MaxRows
  /\ lock' = [lock EXCEPT ![c.user] = p]
  /\ written' = [written EXCEPT ![c.user] = c.wallet + c.amount]
  /\ call' = [call EXCEPT ![p].step = "insert"]
  /\ UNCHANGED <<balance, ledger, committed>>

\* INSERT sent through the pool instead of the transaction's own client.
InsertThroughPool(p) ==
  LET c == call[p] IN
  /\ c # None
  /\ c.step = "insert"
  /\ ledger' = [ledger EXCEPT ![c.user] =
                  Append(@, [amount |-> c.amount, after |-> c.wallet + c.amount,
                             tag |-> c.tag, by |-> p])]
  /\ committed' = [committed EXCEPT ![c.user] = @ + 1]
  /\ call' = [call EXCEPT ![p] = None]
  /\ UNCHANGED <<balance, written, lock>>

\* INSERT INTO transactions, and the return of applyLedgerEntry.
Insert(p) ==
  LET c == call[p] IN
  /\ c # None
  /\ c.step = "insert"
  /\ ledger' = [ledger EXCEPT ![c.user] =
                  Append(@, [amount |-> c.amount, after |-> c.wallet + c.amount,
                             tag |-> c.tag, by |-> p])]
  /\ call' = [call EXCEPT ![p] = None]
  /\ UNCHANGED <<balance, written, committed, lock>>

Publish(p) ==
  /\ balance' = [u \in Users |-> IF lock[u] = p THEN written[u] ELSE balance[u]]
  /\ committed' = [u \in Users |->
                     IF lock[u] = p THEN Len(ledger[u]) ELSE committed[u]]
  /\ lock' = [u \in Users |-> IF lock[u] = p THEN None ELSE lock[u]]
  /\ UNCHANGED <<written, ledger>>

\* COMMIT: publishes what the session wrote and releases its row locks.
Commit(p) ==
  /\ Holds(p) # {}
  /\ call[p] = None
  /\ Publish(p)
  /\ UNCHANGED call

\* ROLLBACK, at any await: an exception of the handler (insufficient_funds
\* among them), a deadlock that PostgreSQL broke, a lost connection, a crash.
Rollback(p) ==
  /\ Holds(p) # {} \/ call[p] # None
  /\ written' = [u \in Users |-> IF lock[u] = p THEN balance[u] ELSE written[u]]
  /\ ledger' = [u \in Users |->
                  IF lock[u] = p THEN SubSeq(ledger[u], 1, committed[u])
                                 ELSE ledger[u]]
  /\ lock' = [u \in Users |-> IF lock[u] = p THEN None ELSE lock[u]]
  /\ call' = [call EXCEPT ![p] = None]
  /\ UNCHANGED <<balance, committed>>

Next ==
  \E p \in Sessions :
    \/ \E u \in Users, amount \in Amounts, tag \in Tags : Select(p, u, amount, tag)
    \/ Update(p)
    \/ Insert(p)
    \/ Commit(p)
    \/ Rollback(p)

Spec == Init /\ [][Next]_wvars

-----------------------------------------------------------------------------
\* Row 0 stands for what the wallet held when the behaviour began.
AfterRow(u, i) == IF i = 0 THEN Opening[u] ELSE ledger[u][i].after

\* What row i was computed from: the balance its SELECT returned.
BaseOfRow(u, i) == ledger[u][i].after - ledger[u][i].amount

\* Row i was computed from row j, and every row between is another session's.
BuildsOn(u, i, j) ==
  /\ BaseOfRow(u, i) = AfterRow(u, j)
  /\ \A k \in (j + 1)..(i - 1) : ledger[u][k].by # ledger[u][i].by

\* Types; a balance, committed or not, is never negative.
TypeOK ==
  /\ balance \in [Users -> Nat]
  /\ written \in [Users -> Nat]
  /\ ledger \in [Users -> Seq(Row)]
  /\ committed \in [Users -> Nat]
  /\ lock \in [Users -> Sessions \union {None}]
  /\ call \in [Sessions -> Call \union {None}]

\* The committed balance of a wallet is the balance_after of its last committed
\* row: the two tables applyLedgerEntry writes never disagree, whatever
\* transaction is cut short and wherever.
LastRowIsBalance ==
  \A u \in Users : /\ committed[u] <= Len(ledger[u])
                   /\ balance[u] = AfterRow(u, committed[u])

\* The balance_after of a row was computed from a balance the wallet really
\* had (never from a write that was rolled back later) and the rows it skipped
\* are all by other sessions: a session never loses its own movements, within
\* one transaction (a settlement paying several bets of a user) or across them.
OwnRowsKept ==
  \A u \in Users : \A i \in 1..Len(ledger[u]) :
    \E j \in 0..(i - 1) : BuildsOn(u, i, j)

\* Every row is computed from the row before it: no movement is lost.  True of
\* one session at a time, not of the code under concurrent requests.
ChainUnbroken ==
  \A u \in Users : \A i \in 1..Len(ledger[u]) : BaseOfRow(u, i) = AfterRow(u, i - 1)
=============================================================================
