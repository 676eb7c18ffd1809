---------------------------- MODULE WalletProofs ----------------------------
(***************************************************************************)
(* What holds of the wallet for any number of users, sessions, amounts and *)
(* rows, in every interleaving and after every rollback.                   *)
(***************************************************************************)
EXTENDS Wallet, TLAPS

\* The UPDATE of session p's call is done and its INSERT is not.
Inserting(p, u) == call[p] # None /\ call[p].step = "insert" /\ call[p].user = u

\* How many rows of u's wallet session p can see.
Visible(p, u) == IF lock[u] = p THEN Len(ledger[u]) ELSE committed[u]

\* Nothing is uncommitted in a wallet nobody holds.
UnlockedIsClean ==
  \A u \in Users : lock[u] = None => /\ written[u] = balance[u]
                                     /\ committed[u] = Len(ledger[u])

\* Uncommitted rows were inserted by the holder of the row lock.
UncommittedByHolder ==
  \A u \in Users : \A i \in (committed[u] + 1)..Len(ledger[u]) :
    ledger[u][i].by = lock[u]

\* Between two calls the holder sees the balance_after of the last row.
WrittenIsLastRow ==
  \A u \in Users : \A p \in Sessions :
    lock[u] = p /\ ~ Inserting(p, u) => written[u] = AfterRow(u, Len(ledger[u]))

\* Between UPDATE and INSERT the session holds the lock and the balance it wrote.
InsertingHolds ==
  \A p \in Sessions : \A u \in Users :
    Inserting(p, u) => /\ lock[u] = p
                       /\ written[u] = call[p].wallet + call[p].amount

\* `wallet` is the balance_after of a row session p still sees of u's ledger,
\* and no later row is the session's own.
HasBase(p, u, wallet) ==
  \E j \in 0..Visible(p, u) :
    /\ wallet = AfterRow(u, j)
    /\ \A k \in (j + 1)..Len(ledger[u]) : ledger[u][k].by # p

\* The balance a call has read stays one that its row may be computed from.
CallHasBase ==
  \A p \in Sessions :
    call[p] # None => HasBase(p, call[p].user, call[p].wallet)

IInv ==
  /\ TypeOK
  /\ LastRowIsBalance
  /\ UnlockedIsClean
  /\ UncommittedByHolder
  /\ WrittenIsLastRow
  /\ InsertingHolds
  /\ CallHasBase
  /\ OwnRowsKept

-----------------------------------------------------------------------------
\* The wallets a behaviour begins with satisfy the invariant.
LEMMA InitKeeps == ASSUME WalletAssumption, Init PROVE IInv
<1>1. TypeOK
  BY DEF WalletAssumption, Init, TypeOK
<1>2. LastRowIsBalance /\ UnlockedIsClean
  BY DEF Init, LastRowIsBalance, UnlockedIsClean, AfterRow
<1>3. UncommittedByHolder /\ OwnRowsKept
  BY DEF Init, UncommittedByHolder, OwnRowsKept
<1>4. WrittenIsLastRow /\ InsertingHolds /\ CallHasBase
  BY DEF WalletAssumption, Init, WrittenIsLastRow, InsertingHolds, CallHasBase, Inserting
<1> QED
  BY <1>1, <1>2, <1>3, <1>4 DEF IInv

\* SELECT balance: what a call reads is the base of a row it may insert, and
\* its own rows are behind it.
LEMMA SelectKeeps ==
  ASSUME WalletAssumption, IInv, NEW p \in Sessions, NEW u \in Users, NEW amount \in Amounts,
         NEW tag \in Tags, Select(p, u, amount, tag)
  PROVE  IInv'
<1> DEFINE c == [user |-> u, amount |-> amount, tag |-> tag,
                 wallet |-> View(p, u), step |-> "update"]
<1>1. TypeOK /\ LastRowIsBalance /\ UnlockedIsClean /\ UncommittedByHolder
      /\ WrittenIsLastRow /\ InsertingHolds /\ CallHasBase /\ OwnRowsKept
  BY DEF IInv
<1>2. /\ call[p] = None
      /\ call' = [call EXCEPT ![p] = c]
      /\ UNCHANGED <<balance, written, ledger, committed, lock>>
  BY DEF Select
<1>3. c \in Call
  BY <1>1 DEF WalletAssumption, Call, View, TypeOK
<1>4. TypeOK'
  BY <1>1, <1>2, <1>3 DEF TypeOK
<1>5. LastRowIsBalance' /\ UnlockedIsClean' /\ UncommittedByHolder' /\ OwnRowsKept'
  BY <1>1, <1>2 DEF LastRowIsBalance, UnlockedIsClean, UncommittedByHolder,
                    OwnRowsKept, BuildsOn, BaseOfRow, AfterRow
<1>6. \A q \in Sessions : \A v \in Users : Inserting(q, v)' <=> Inserting(q, v)
  BY <1>1, <1>2, <1>3 DEF WalletAssumption, Inserting, TypeOK
<1>7. WrittenIsLastRow'
  BY <1>1, <1>2, <1>6 DEF WrittenIsLastRow, AfterRow
<1>8. InsertingHolds'
  BY <1>1, <1>2, <1>6 DEF InsertingHolds, Inserting, TypeOK
<1>9. HasBase(p, u, View(p, u))
  <2>1. committed[u] \in Nat /\ Len(ledger[u]) \in Nat
    BY <1>1 DEF TypeOK
  <2>2. CASE lock[u] = p
    <3>1. ~ Inserting(p, u)
      BY <1>2 DEF Inserting
    <3>2. View(p, u) = AfterRow(u, Len(ledger[u]))
      BY <1>1, <2>2, <3>1 DEF WrittenIsLastRow, View
    <3> QED
      BY <2>1, <2>2, <3>2 DEF HasBase, Visible
  <2>3. CASE lock[u] # p
    <3>1. View(p, u) = AfterRow(u, committed[u])
      BY <1>1, <2>3 DEF LastRowIsBalance, View
    <3>2. \A k \in (committed[u] + 1)..Len(ledger[u]) : ledger[u][k].by # p
      BY <1>1, <2>3 DEF UncommittedByHolder
    <3> QED
      BY <2>1, <2>3, <3>1, <3>2 DEF HasBase, Visible
  <2> QED
    BY <2>2, <2>3
<1>10. CallHasBase'
  <2> SUFFICES ASSUME NEW q \in Sessions, call'[q] # None
               PROVE  HasBase(q, call[q].user, call[q].wallet)'
    BY DEF CallHasBase
  <2>1. CASE q # p
    BY <1>1, <1>2, <2>1 DEF CallHasBase, HasBase, Visible, AfterRow, TypeOK
  <2>2. CASE q = p
    <3>1. call'[q].user = u /\ call'[q].wallet = View(p, u)
      BY <1>1, <1>2, <2>2 DEF TypeOK
    <3> QED
      BY <1>2, <1>9, <2>2, <3>1 DEF HasBase, Visible, AfterRow
  <2> QED
    BY <2>1, <2>2
<1> QED
  BY <1>4, <1>5, <1>7, <1>8, <1>10 DEF IInv

\* UPDATE wallets takes the row lock: only the check of newBalance keeps the
\* balance from going below zero, because the balance read may be stale.
LEMMA UpdateKeeps ==
  ASSUME WalletAssumption, IInv, NEW p \in Sessions, Update(p)
  PROVE  IInv'
<1> DEFINE c == call[p]
           u == c.user
<1>1. TypeOK /\ LastRowIsBalance /\ UnlockedIsClean /\ UncommittedByHolder
      /\ WrittenIsLastRow /\ InsertingHolds /\ CallHasBase /\ OwnRowsKept
  BY DEF IInv
<1>2. /\ c # None /\ c.step = "update" /\ c.wallet + c.amount >= 0
      /\ lock[u] \in {None, p}
      /\ lock' = [lock EXCEPT ![u] = p]
      /\ written' = [written EXCEPT ![u] = c.wallet + c.amount]
      /\ call' = [call EXCEPT ![p] = [c EXCEPT !.step = "insert"]]
      /\ UNCHANGED <<balance, ledger, committed>>
  BY DEF Update, Affords
<1>3. c \in Call /\ u \in Users /\ [c EXCEPT !.step = "insert"] \in Call
  BY <1>1, <1>2 DEF TypeOK, Call
<1>4. TypeOK'
  <2>1. c.wallet + c.amount \in Nat
    BY <1>2, <1>3 DEF Call
  <2> QED
    BY <1>1, <1>2, <1>3, <2>1 DEF TypeOK
<1>5. LastRowIsBalance' /\ OwnRowsKept'
  BY <1>1, <1>2 DEF LastRowIsBalance, OwnRowsKept, BuildsOn, BaseOfRow, AfterRow
<1>6. UnlockedIsClean'
  BY <1>1, <1>2, <1>3 DEF WalletAssumption, UnlockedIsClean, TypeOK
<1>7. UncommittedByHolder'
  BY <1>1, <1>2, <1>3 DEF UncommittedByHolder, UnlockedIsClean, TypeOK
<1>8. Inserting(p, u)'
  BY <1>1, <1>2, <1>3 DEF WalletAssumption, Inserting, TypeOK, Call
<1>9. \A q \in Sessions, v \in Users :
        q # p => (Inserting(q, v)' <=> Inserting(q, v))
  BY <1>1, <1>2 DEF Inserting, TypeOK
<1>10. \A v \in Users : ~ Inserting(p, v)
  BY <1>2 DEF Inserting
<1>11. WrittenIsLastRow'
  <2> SUFFICES ASSUME NEW v \in Users, NEW q \in Sessions,
                      lock'[v] = q, ~ Inserting(q, v)'
               PROVE  written'[v] = AfterRow(v, Len(ledger[v]))'
    BY DEF WrittenIsLastRow
  <2>1. v # u
    BY <1>1, <1>2, <1>8 DEF TypeOK
  <2>2. lock[v] = q /\ ~ Inserting(q, v)
    BY <1>1, <1>2, <1>9, <1>10, <2>1 DEF TypeOK
  <2> QED
    BY <1>1, <1>2, <2>1, <2>2 DEF WrittenIsLastRow, AfterRow, TypeOK
<1>12. InsertingHolds'
  <2> SUFFICES ASSUME NEW q \in Sessions, NEW v \in Users, Inserting(q, v)'
               PROVE  /\ lock'[v] = q
                      /\ written'[v] = call'[q].wallet + call'[q].amount
    BY DEF InsertingHolds
  <2>1. CASE q = p
    BY <1>1, <1>2, <1>3, <2>1 DEF Inserting, TypeOK, Call
  <2>2. CASE q # p
    <3>1. Inserting(q, v)
      BY <1>9, <2>2
    <3>2. lock[v] = q /\ written[v] = call[q].wallet + call[q].amount
      BY <1>1, <3>1 DEF InsertingHolds
    <3>3. v # u
      BY <1>2, <2>2, <3>2 DEF WalletAssumption
    <3> QED
      BY <1>1, <1>2, <2>2, <3>2, <3>3 DEF TypeOK
  <2> QED
    BY <2>1, <2>2
<1>13. CallHasBase'
  <2> SUFFICES ASSUME NEW q \in Sessions, call'[q] # None
               PROVE  HasBase(q, call[q].user, call[q].wallet)'
    BY DEF CallHasBase
  <2> DEFINE v == call[q].user
             w == call[q].wallet
  <2>1. call[q] # None /\ call'[q].user = v /\ call'[q].wallet = w
    BY <1>1, <1>2, <1>3 DEF TypeOK, Call
  <2>2. v \in Users /\ committed[v] \in Nat /\ Len(ledger[v]) \in Nat
        /\ committed[v] <= Len(ledger[v])
    BY <1>1, <2>1 DEF TypeOK, Call, LastRowIsBalance
  <2>3. Visible(q, v) \in Nat /\ Visible(q, v)' \in Nat /\ Visible(q, v) <= Visible(q, v)'
    BY <1>1, <1>2, <1>3, <2>2 DEF WalletAssumption, Visible, TypeOK
  <2>4. PICK j \in 0..Visible(q, v) :
          /\ w = AfterRow(v, j)
          /\ \A k \in (j + 1)..Len(ledger[v]) : ledger[v][k].by # q
    BY <1>1, <2>1 DEF CallHasBase, HasBase
  <2>5. HasBase(q, v, w)'
    BY <1>2, <2>1, <2>3, <2>4 DEF HasBase, AfterRow
  <2> QED
    BY <1>2, <2>1, <2>5 DEF HasBase, Visible, AfterRow
<1> QED
  BY <1>4, <1>5, <1>6, <1>7, <1>11, <1>12, <1>13 DEF IInv

\* INSERT INTO transactions: the new row builds on the row the call read.
LEMMA InsertKeeps ==
  ASSUME WalletAssumption, IInv, NEW p \in Sessions, Insert(p)
  PROVE  IInv'
<1> DEFINE c == call[p]
           u == c.user
           row == [amount |-> c.amount, after |-> c.wallet + c.amount,
                   tag |-> c.tag, by |-> p]
           n == Len(ledger[u])
<1>1. TypeOK /\ LastRowIsBalance /\ UnlockedIsClean /\ UncommittedByHolder
      /\ WrittenIsLastRow /\ InsertingHolds /\ CallHasBase /\ OwnRowsKept
  BY DEF IInv
<1>2. /\ c # None /\ c.step = "insert"
      /\ ledger' = [ledger EXCEPT ![u] = Append(@, row)]
      /\ call' = [call EXCEPT ![p] = None]
      /\ UNCHANGED <<balance, written, committed, lock>>
  BY DEF Insert
<1>3. c \in Call /\ u \in Users /\ n \in Nat
  BY <1>1, <1>2 DEF TypeOK, Call
<1>4. Inserting(p, u) /\ lock[u] = p /\ written[u] = c.wallet + c.amount
  BY <1>1, <1>2, <1>3 DEF Inserting, InsertingHolds
<1>5. row \in Row
  <2>1. c.wallet + c.amount \in Nat
    BY <1>1, <1>3, <1>4 DEF TypeOK
  <2> QED
    BY <1>3, <2>1 DEF Row, Call
<1>6. /\ ledger'[u] = Append(ledger[u], row)
      /\ Len(ledger'[u]) = n + 1
      /\ \A i \in 1..n : ledger'[u][i] = ledger[u][i]
      /\ ledger'[u][n + 1] = row
      /\ \A v \in Users : v # u => ledger'[v] = ledger[v]
  BY <1>1, <1>2, <1>3, <1>5 DEF TypeOK
<1>7. TypeOK'
  BY <1>1, <1>2, <1>3, <1>5 DEF TypeOK
<1>8. \A v \in Users : \A i \in 0..Len(ledger[v]) : AfterRow(v, i)' = AfterRow(v, i)
  <2> SUFFICES ASSUME NEW v \in Users, NEW i \in 0..Len(ledger[v])
               PROVE  AfterRow(v, i)' = AfterRow(v, i)
    OBVIOUS
  <2>1. CASE v = u
    BY <1>3, <1>6, <2>1 DEF AfterRow
  <2>2. CASE v # u
    BY <1>6, <2>2 DEF AfterRow
  <2> QED
    BY <2>1, <2>2
<1>9. LastRowIsBalance'
  BY <1>1, <1>2, <1>3, <1>6, <1>8 DEF LastRowIsBalance, TypeOK
<1>10. UnlockedIsClean'
  BY <1>1, <1>2, <1>4, <1>6 DEF WalletAssumption, UnlockedIsClean
<1>11. UncommittedByHolder'
  <2> SUFFICES ASSUME NEW v \in Users, NEW i \in (committed[v] + 1)..Len(ledger'[v])
               PROVE  ledger'[v][i].by = lock[v]
    BY <1>2 DEF UncommittedByHolder
  <2>1. committed[v] \in Nat /\ Len(ledger[v]) \in Nat
    BY <1>1 DEF TypeOK
  <2>2. CASE v = u /\ i = n + 1
    BY <1>4, <1>6, <2>2
  <2>3. CASE ~ (v = u /\ i = n + 1)
    <3>1. i \in 1..Len(ledger[v]) /\ i \in (committed[v] + 1)..Len(ledger[v])
      BY <1>3, <1>6, <2>1, <2>3
    <3>2. ledger'[v][i] = ledger[v][i]
      BY <1>6, <3>1
    <3> QED
      BY <1>1, <3>1, <3>2 DEF UncommittedByHolder
  <2> QED
    BY <2>2, <2>3
<1>12. \A q \in Sessions, v \in Users :
         (q # p => (Inserting(q, v)' <=> Inserting(q, v))) /\ ~ Inserting(p, v)'
  BY <1>1, <1>2 DEF Inserting, TypeOK
<1>13. WrittenIsLastRow'
  <2> SUFFICES ASSUME NEW v \in Users, NEW q \in Sessions,
                      lock'[v] = q, ~ Inserting(q, v)'
               PROVE  written'[v] = AfterRow(v, Len(ledger[v]))'
    BY DEF WrittenIsLastRow
  <2>1. CASE v = u
    BY <1>2, <1>3, <1>4, <1>6, <2>1 DEF AfterRow
  <2>2. CASE v # u
    <3>1. ~ Inserting(q, v)
      BY <1>12, <2>2 DEF Inserting
    <3> QED
      BY <1>1, <1>2, <1>6, <2>2, <3>1 DEF WrittenIsLastRow, AfterRow
  <2> QED
    BY <2>1, <2>2
<1>14. InsertingHolds'
  BY <1>1, <1>2, <1>12 DEF InsertingHolds, Inserting, TypeOK
<1>15. CallHasBase'
  <2> SUFFICES ASSUME NEW q \in Sessions, call'[q] # None
               PROVE  HasBase(q, call[q].user, call[q].wallet)'
    BY DEF CallHasBase
  <2> DEFINE v == call[q].user
             w == call[q].wallet
  <2>1. q # p /\ call'[q] = call[q]
    BY <1>1, <1>2 DEF TypeOK
  <2>2. v \in Users /\ committed[v] \in Nat /\ committed[v] <= Len(ledger[v])
        /\ Len(ledger[v]) \in Nat
    BY <1>1, <2>1 DEF TypeOK, Call, LastRowIsBalance
  <2>3. PICK j \in 0..Visible(q, v) :
          /\ w = AfterRow(v, j)
          /\ \A k \in (j + 1)..Len(ledger[v]) : ledger[v][k].by # q
    BY <1>1, <2>1 DEF CallHasBase, HasBase
  <2>4. j \in 0..Len(ledger[v]) /\ j \in 0..Visible(q, v)'
    BY <1>2, <1>4, <1>6, <2>1, <2>2, <2>3 DEF Visible
  <2>5. \A k \in (j + 1)..Len(ledger'[v]) : ledger'[v][k].by # q
    <3>1. CASE v = u
      <4> SUFFICES ASSUME NEW k \in (j + 1)..(n + 1)
                   PROVE  ledger'[v][k].by # q
        BY <1>6, <3>1
      <4>1. CASE k = n + 1
        BY <1>6, <2>1, <3>1, <4>1
      <4>2. CASE k \in (j + 1)..n
        <5>1. k \in 1..n /\ k \in (j + 1)..Len(ledger[v])
          BY <1>3, <2>4, <3>1, <4>2
        <5>2. ledger'[v][k] = ledger[v][k]
          BY <1>6, <3>1, <5>1
        <5> QED
          BY <2>3, <5>1, <5>2
      <4> QED
        BY <1>3, <2>4, <3>1, <4>1, <4>2
    <3>2. CASE v # u
      BY <1>6, <2>2, <2>3, <3>2
    <3> QED
      BY <3>1, <3>2
  <2> QED
    BY <1>8, <2>1, <2>2, <2>3, <2>4, <2>5 DEF HasBase
<1>16. OwnRowsKept'
  <2> SUFFICES ASSUME NEW v \in Users, NEW i \in 1..Len(ledger'[v])
               PROVE  \E j \in 0..(i - 1) : BuildsOn(v, i, j)'
    BY DEF OwnRowsKept
  <2>1. CASE v = u /\ i = n + 1
    <3>1. PICK j \in 0..Visible(p, v) :
            /\ c.wallet = AfterRow(v, j)
            /\ \A k \in (j + 1)..n : ledger[v][k].by # p
      BY <1>1, <1>2, <2>1 DEF CallHasBase, HasBase
    <3>2. j \in 0..n
      BY <1>4, <2>1, <3>1 DEF Visible
    <3>3. BaseOfRow(v, i)' = c.wallet
      BY <1>3, <1>6, <2>1 DEF BaseOfRow, Call
    <3>4. BaseOfRow(v, i)' = AfterRow(v, j)'
      BY <1>8, <2>1, <3>1, <3>2, <3>3
    <3>5. ledger'[v][i].by = p
      BY <1>6, <2>1
    <3>6. ASSUME NEW k \in (j + 1)..(i - 1)
          PROVE  ledger'[v][k].by # p
      <4>1. k \in 1..n /\ k \in (j + 1)..n
        BY <1>3, <2>1, <3>2
      <4>2. ledger'[v][k] = ledger[v][k]
        BY <1>6, <2>1, <4>1
      <4> QED
        BY <3>1, <4>1, <4>2
    <3> QED
      BY <1>3, <2>1, <3>2, <3>4, <3>5, <3>6 DEF BuildsOn
  <2>2. CASE ~ (v = u /\ i = n + 1)
    <3>1. i \in 1..Len(ledger[v]) /\ Len(ledger[v]) \in Nat
      BY <1>1, <1>3, <1>6, <2>2 DEF TypeOK
    <3>2. PICK j \in 0..(i - 1) : BuildsOn(v, i, j)
      BY <1>1, <3>1 DEF OwnRowsKept
    <3>3. \A k \in 1..Len(ledger[v]) : ledger'[v][k] = ledger[v][k]
      BY <1>6
    <3>4. AfterRow(v, j)' = AfterRow(v, j)
      BY <1>8, <3>1, <3>2
    <3>5. BaseOfRow(v, i)' = AfterRow(v, j)'
      BY <3>1, <3>2, <3>3, <3>4 DEF BuildsOn, BaseOfRow
    <3>6. ASSUME NEW k \in (j + 1)..(i - 1)
          PROVE  ledger'[v][k].by # ledger'[v][i].by
      <4>1. k \in 1..Len(ledger[v])
        BY <3>1, <3>2
      <4> QED
        BY <3>1, <3>2, <3>3, <4>1 DEF BuildsOn
    <3> QED
      BY <3>5, <3>6 DEF BuildsOn
  <2> QED
    BY <2>1, <2>2
<1> QED
  BY <1>7, <1>9, <1>10, <1>11, <1>13, <1>14, <1>15, <1>16 DEF IInv

\* COMMIT publishes the last row and its balance_after together.
LEMMA CommitKeeps ==
  ASSUME WalletAssumption, IInv, NEW p \in Sessions, Commit(p)
  PROVE  IInv'
<1>1. TypeOK /\ LastRowIsBalance /\ UnlockedIsClean /\ UncommittedByHolder
      /\ WrittenIsLastRow /\ InsertingHolds /\ CallHasBase /\ OwnRowsKept
  BY DEF IInv
<1>2. /\ call[p] = None /\ call' = call
      /\ balance' = [u \in Users |-> IF lock[u] = p THEN written[u] ELSE balance[u]]
      /\ committed' = [u \in Users |->
                         IF lock[u] = p THEN Len(ledger[u]) ELSE committed[u]]
      /\ lock' = [u \in Users |-> IF lock[u] = p THEN None ELSE lock[u]]
      /\ written' = written /\ ledger' = ledger
  BY DEF Commit, Publish
<1>3. \A u \in Users : Len(ledger[u]) \in Nat
  BY <1>1 DEF TypeOK
<1>4. TypeOK'
  BY <1>1, <1>2, <1>3 DEF TypeOK
<1>5. \A u \in Users : ~ Inserting(p, u)
  BY <1>2 DEF Inserting
<1>6. \A u \in Users : lock[u] = p => written[u] = AfterRow(u, Len(ledger[u]))
  BY <1>1, <1>5 DEF WrittenIsLastRow
<1>7. LastRowIsBalance'
  BY <1>1, <1>2, <1>3, <1>6 DEF LastRowIsBalance, AfterRow
<1>8. UnlockedIsClean'
  BY <1>1, <1>2 DEF UnlockedIsClean
<1>9. UncommittedByHolder'
  BY <1>1, <1>2, <1>3 DEF UncommittedByHolder, TypeOK
<1>10. \A q \in Sessions, u \in Users : lock'[u] = q => lock[u] = q /\ q # p
  BY <1>2 DEF WalletAssumption
<1>11. WrittenIsLastRow'
  BY <1>1, <1>2, <1>10 DEF WrittenIsLastRow, AfterRow, Inserting
<1>12. InsertingHolds'
  BY <1>1, <1>2 DEF InsertingHolds, Inserting
<1>13. CallHasBase'
  <2> SUFFICES ASSUME NEW q \in Sessions, call[q] # None
               PROVE  HasBase(q, call[q].user, call[q].wallet)'
    BY <1>2 DEF CallHasBase
  <2>1. q # p /\ call[q].user \in Users
    BY <1>1, <1>2 DEF TypeOK, Call
  <2>2. \A u \in Users : Visible(q, u) <= Visible(q, u)'
                         /\ Visible(q, u) \in Nat /\ Visible(q, u)' \in Nat
    BY <1>1, <1>2, <1>3, <2>1 DEF WalletAssumption, Visible, TypeOK, LastRowIsBalance
  <2>3. HasBase(q, call[q].user, call[q].wallet)
    BY <1>1 DEF CallHasBase
  <2> QED
    BY <1>2, <2>1, <2>2, <2>3 DEF HasBase, AfterRow
<1>14. OwnRowsKept'
  BY <1>1, <1>2 DEF OwnRowsKept, BuildsOn, BaseOfRow, AfterRow
<1> QED
  BY <1>4, <1>7, <1>8, <1>9, <1>11, <1>12, <1>13, <1>14 DEF IInv

\* ROLLBACK drops the rows and the balance of one session together, and no
\* call of another session has read them.
LEMMA RollbackKeeps ==
  ASSUME WalletAssumption, IInv, NEW p \in Sessions, Rollback(p)
  PROVE  IInv'
<1>1. TypeOK /\ LastRowIsBalance /\ UnlockedIsClean /\ UncommittedByHolder
      /\ WrittenIsLastRow /\ InsertingHolds /\ CallHasBase /\ OwnRowsKept
  BY DEF IInv
<1>2. /\ written' = [u \in Users |-> IF lock[u] = p THEN balance[u] ELSE written[u]]
      /\ ledger' = [u \in Users |->
                      IF lock[u] = p THEN SubSeq(ledger[u], 1, committed[u])
                                     ELSE ledger[u]]
      /\ lock' = [u \in Users |-> IF lock[u] = p THEN None ELSE lock[u]]
      /\ call' = [call EXCEPT ![p] = None]
      /\ balance' = balance /\ committed' = committed
  BY DEF Rollback
<1>3. \A u \in Users : Len(ledger[u]) \in Nat /\ committed[u] \in 0..Len(ledger[u])
  <2> SUFFICES ASSUME NEW u \in Users
               PROVE  Len(ledger[u]) \in Nat /\ committed[u] \in 0..Len(ledger[u])
    OBVIOUS
  <2>1. Len(ledger[u]) \in Nat /\ committed[u] \in Nat
    BY <1>1 DEF TypeOK
  <2>2. committed[u] <= Len(ledger[u])
    BY <1>1 DEF LastRowIsBalance
  <2> QED
    BY <2>1, <2>2
<1>4. \A u \in Users : /\ Len(ledger'[u]) \in committed[u]..Len(ledger[u])
                       /\ lock[u] = p => Len(ledger'[u]) = committed[u]
                       /\ lock[u] # p => ledger'[u] = ledger[u]
                       /\ ledger'[u] \in Seq(Row)
  BY <1>1, <1>2, <1>3 DEF TypeOK
<1>5. \A u \in Users : \A i \in 1..Len(ledger'[u]) : ledger'[u][i] = ledger[u][i]
  BY <1>1, <1>2, <1>3, <1>4 DEF TypeOK
<1>6. TypeOK'
  BY <1>1, <1>2, <1>4 DEF TypeOK
<1>7. \A u \in Users : \A i \in 0..Len(ledger'[u]) : AfterRow(u, i)' = AfterRow(u, i)
  <2> SUFFICES ASSUME NEW u \in Users, NEW i \in 0..Len(ledger'[u])
               PROVE  AfterRow(u, i)' = AfterRow(u, i)
    OBVIOUS
  <2>1. i # 0 => ledger'[u][i] = ledger[u][i]
    BY <1>3, <1>4, <1>5
  <2> QED
    BY <2>1 DEF AfterRow
<1>8. LastRowIsBalance'
  BY <1>1, <1>2, <1>3, <1>4, <1>7 DEF LastRowIsBalance
<1>9. UnlockedIsClean'
  BY <1>1, <1>2, <1>4 DEF UnlockedIsClean
<1>10. UncommittedByHolder'
  BY <1>1, <1>2, <1>3, <1>4, <1>5 DEF UncommittedByHolder
<1>11. \A q \in Sessions, u \in Users : lock'[u] = q => lock[u] = q /\ q # p
  BY <1>2 DEF WalletAssumption
<1>12. \A q \in Sessions : q # p => call'[q] = call[q]
  BY <1>1, <1>2 DEF TypeOK
<1>13. call'[p] = None
  BY <1>1, <1>2 DEF TypeOK
<1>14. WrittenIsLastRow'
  <2> SUFFICES ASSUME NEW u \in Users, NEW q \in Sessions,
                      lock'[u] = q, ~ Inserting(q, u)'
               PROVE  written'[u] = AfterRow(u, Len(ledger[u]))'
    BY DEF WrittenIsLastRow
  <2>1. lock[u] = q /\ q # p /\ ~ Inserting(q, u)
    BY <1>11, <1>12 DEF Inserting
  <2> QED
    BY <1>1, <1>2, <1>4, <2>1 DEF WrittenIsLastRow, AfterRow
<1>15. InsertingHolds'
  BY <1>1, <1>2, <1>12, <1>13 DEF InsertingHolds, Inserting
<1>16. CallHasBase'
  <2> SUFFICES ASSUME NEW q \in Sessions, call'[q] # None
               PROVE  HasBase(q, call[q].user, call[q].wallet)'
    BY DEF CallHasBase
  <2> DEFINE v == call[q].user
             w == call[q].wallet
  <2>1. q # p /\ call'[q] = call[q]
    BY <1>12, <1>13
  <2>2. v \in Users
    BY <1>1, <2>1 DEF TypeOK, Call
  <2>3. PICK j \in 0..Visible(q, v) :
          /\ w = AfterRow(v, j)
          /\ \A k \in (j + 1)..Len(ledger[v]) : ledger[v][k].by # q
    BY <1>1, <2>1 DEF CallHasBase, HasBase
  <2>4. j \in 0..Len(ledger'[v]) /\ j \in 0..Visible(q, v)'
    BY <1>2, <1>3, <1>4, <2>1, <2>2, <2>3 DEF WalletAssumption, Visible
  <2>5. ASSUME NEW k \in (j + 1)..Len(ledger'[v])
        PROVE  ledger'[v][k].by # q
    <3>1. k \in 1..Len(ledger'[v]) /\ k \in (j + 1)..Len(ledger[v])
      BY <1>3, <1>4, <2>2, <2>4
    <3> QED
      BY <1>5, <2>2, <2>3, <3>1
  <2> QED
    BY <1>7, <2>1, <2>2, <2>3, <2>4, <2>5 DEF HasBase
<1>17. OwnRowsKept'
  <2> SUFFICES ASSUME NEW v \in Users, NEW i \in 1..Len(ledger'[v])
               PROVE  \E j \in 0..(i - 1) : BuildsOn(v, i, j)'
    BY DEF OwnRowsKept
  <2>1. i \in 1..Len(ledger[v])
    BY <1>3, <1>4
  <2>2. PICK j \in 0..(i - 1) : BuildsOn(v, i, j)
    BY <1>1, <2>1 DEF OwnRowsKept
  <2>3. \A k \in 1..i : ledger'[v][k] = ledger[v][k]
    BY <1>3, <1>4, <1>5, <2>1
  <2>4. AfterRow(v, j)' = AfterRow(v, j)
    BY <1>3, <1>4, <1>7, <2>1, <2>2
  <2>5. BaseOfRow(v, i)' = AfterRow(v, j)'
    BY <2>1, <2>2, <2>3, <2>4, <1>3 DEF BuildsOn, BaseOfRow
  <2>6. ASSUME NEW k \in (j + 1)..(i - 1)
        PROVE  ledger'[v][k].by # ledger'[v][i].by
    <3>1. k \in 1..i /\ i \in 1..i
      BY <1>3, <2>1, <2>2
    <3> QED
      BY <2>2, <2>3, <3>1 DEF BuildsOn
  <2> QED
    BY <2>5, <2>6 DEF BuildsOn
<1> QED
  BY <1>6, <1>8, <1>9, <1>10, <1>14, <1>15, <1>16, <1>17 DEF IInv

\* Every step of every session keeps the invariant.
LEMMA StepKeeps == ASSUME WalletAssumption, IInv, [Next]_wvars PROVE IInv'
<1>1. CASE UNCHANGED wvars
  BY <1>1 DEF IInv, wvars, TypeOK, LastRowIsBalance, UnlockedIsClean,
     UncommittedByHolder, WrittenIsLastRow, InsertingHolds, CallHasBase, OwnRowsKept,
     Inserting, HasBase, Visible, AfterRow, BuildsOn, BaseOfRow
<1>2. CASE Next
  <2>1. PICK p \in Sessions :
          \/ \E u \in Users, amount \in Amounts, tag \in Tags : Select(p, u, amount, tag)
          \/ Update(p) \/ Insert(p) \/ Commit(p) \/ Rollback(p)
    BY <1>2 DEF Next
  <2> QED
    BY <2>1, SelectKeeps, UpdateKeeps, InsertKeeps, CommitKeeps, RollbackKeeps
<1> QED
  BY <1>1, <1>2

-----------------------------------------------------------------------------
\* The inductive invariant of applyLedgerEntry and its transactions.
THEOREM Invariance == ASSUME WalletAssumption PROVE Spec => []IInv
<1>1. Init => IInv BY InitKeeps
<1>2. IInv /\ [Next]_wvars => IInv' BY StepKeeps
<1> QED BY <1>1, <1>2, PTL DEF Spec

\* Types, and no wallet is ever overdrawn, committed or in a transaction,
\* although the check of applyLedgerEntry reads a balance that may be stale.
THEOREM NeverOverdrawn == ASSUME WalletAssumption PROVE Spec => []TypeOK
<1>1. IInv => TypeOK
  BY DEF IInv
<1> QED
  BY <1>1, Invariance, PTL

\* wallets.balance is always the balance_after of the last committed row.
THEOREM BalanceMatchesLedger == ASSUME WalletAssumption PROVE Spec => []LastRowIsBalance
<1>1. IInv => LastRowIsBalance
  BY DEF IInv
<1> QED
  BY <1>1, Invariance, PTL

\* No session loses a movement of its own, and none builds on a dirty read.
THEOREM OwnMovementsKept == ASSUME WalletAssumption PROVE Spec => []OwnRowsKept
<1>1. IInv => OwnRowsKept
  BY DEF IInv
<1> QED
  BY <1>1, Invariance, PTL

\* If at most one session ever runs, the ledger is an unbroken chain: what the
\* concurrent system loses, it loses to concurrency alone.
THEOREM SerialChain ==
  ASSUME WalletAssumption, \A p, q \in Sessions : p = q
  PROVE  Spec => []ChainUnbroken
<1>1. IInv => ChainUnbroken
  <2> SUFFICES ASSUME IInv, NEW u \in Users, NEW i \in 1..Len(ledger[u])
               PROVE  BaseOfRow(u, i) = AfterRow(u, i - 1)
    BY DEF ChainUnbroken
  <2>1. TypeOK /\ OwnRowsKept
    BY DEF IInv
  <2>2. PICK j \in 0..(i - 1) : BuildsOn(u, i, j)
    BY <2>1 DEF OwnRowsKept
  <2>3. Len(ledger[u]) \in Nat
        /\ \A k \in 1..Len(ledger[u]) : ledger[u][k].by \in Sessions
    <3>1. ledger[u] \in Seq(Row)
      BY <2>1 DEF TypeOK
    <3>2. ASSUME NEW k \in 1..Len(ledger[u])
          PROVE  ledger[u][k].by \in Sessions
      <4>1. ledger[u][k] \in Row
        BY <3>1
      <4> QED
        BY <4>1 DEF Row
    <3> QED
      BY <3>1, <3>2
  <2>4. j = i - 1
    <3>1. SUFFICES ASSUME j + 1 \in (j + 1)..(i - 1) PROVE FALSE
      BY <2>2, <2>3
    <3>2. ledger[u][j + 1].by # ledger[u][i].by
      BY <2>2, <3>1 DEF BuildsOn
    <3> QED
      BY <2>2, <2>3, <3>1, <3>2
  <2> QED
    BY <2>2, <2>4 DEF BuildsOn
<1> QED
  BY <1>1, Invariance, PTL
=============================================================================
