--------------------------- MODULE PaymentsProofs ---------------------------
(***************************************************************************)
(* The ledger and payment_intents agree, and one idempotency key moves the *)
(* wallet at most once, for any users, intents, keys, amounts and requests *)
(* (payments.service.ts), as long as a completed checkout stays paid.      *)
(***************************************************************************)
EXTENDS Payments, TLAPS, FiniteSetTheorems

IntentRow ==
  [user : Users, key : Keys, type : {"deposit", "payout"},
   amount : DepositAmounts \union PayoutAmounts, status : {"pending", "completed", "failed"}]
LedgerRow == [amount : Int, after : Int, tag : Tags, by : Sessions]
EntryCall == [user : Users, amount : Int, tag : Tags, wallet : Int, step : {"update", "insert"}]

\* What the theorems assume of the constants.
Assumption ==
  /\ PaymentsAssumption
  /\ Opening \in [Users -> Nat]
  /\ None \notin Sessions \union EntryCall \union IntentRow

-----------------------------------------------------------------------------
\* The ledger entry that a request writes, in which wallet and under which name.
Crediting(p) == At(p, "creditDeposit", "credit")
Debiting(p) == At(p, "initiatePayout", "insert")
InEntry(p) == Crediting(p) \/ Debiting(p)
EntryUser(p) == IF Crediting(p) THEN intents[task[p].intent].user ELSE task[p].user
EntryTag(p) == <<IF Crediting(p) THEN "deposit" ELSE "withdrawal", task[p].intent>>
EntryAmount(p) == IF Crediting(p) THEN intents[task[p].intent].amount ELSE 0 - task[p].amount

SameEntry(p) ==
  /\ InEntry(p)' <=> InEntry(p)
  /\ InEntry(p) => /\ EntryUser(p)' = EntryUser(p)
                   /\ EntryTag(p)' = EntryTag(p)
                   /\ EntryAmount(p)' = EntryAmount(p)

WalletTypes ==
  /\ balance \in [Users -> Int] /\ written \in [Users -> Int]
  /\ ledger \in [Users -> Seq(LedgerRow)]
  /\ committed \in [Users -> Nat]
  /\ lock \in [Users -> Sessions \union {None}]
  /\ call \in [Sessions -> EntryCall \union {None}]

\* What is uncommitted in a wallet is the entry of the session that holds it.
LastIs(u, p) ==
  /\ Len(ledger[u]) = committed[u] + 1
  /\ ledger[u][committed[u] + 1].tag = EntryTag(p)
  /\ ledger[u][committed[u] + 1].amount = EntryAmount(p)

HolderWrites(u) ==
  IF lock[u] = None THEN Len(ledger[u]) = committed[u]
  ELSE /\ InEntry(lock[u]) /\ EntryUser(lock[u]) = u
       /\ IF call[lock[u]] # None
          THEN call[lock[u]].step = "insert" /\ Len(ledger[u]) = committed[u]
          ELSE LastIs(u, lock[u])

CallWrites(p) ==
  call[p] # None =>
    /\ InEntry(p)
    /\ call[p].user = EntryUser(p) /\ call[p].tag = EntryTag(p) /\ call[p].amount = EntryAmount(p)
    /\ call[p].step = "insert" => lock[call[p].user] = p

EntriesInv ==
  /\ WalletTypes
  /\ \A u \in Users : HolderWrites(u)
  /\ \A p \in Sessions : CallWrites(p)

\* The committed rows do not change.
RowsStay ==
  /\ committed' = committed
  /\ \A u \in Users : \A n \in 1..committed[u] : ledger'[u][n] = ledger[u][n]

-----------------------------------------------------------------------------
\* What does not touch the wallets.
LEMMA QuietEntries ==
  ASSUME Assumption, EntriesInv, UNCHANGED wvars,
         \A q \in Sessions : SameEntry(q) \/ (call[q] = None /\ \A u \in Users : lock[u] # q)
  PROVE  EntriesInv' /\ RowsStay
<1>1. UNCHANGED <<balance, written, ledger, committed, lock, call>> BY DEF wvars
<1>2. WalletTypes' BY <1>1 DEF EntriesInv, WalletTypes
<1>3. ASSUME NEW u \in Users PROVE HolderWrites(u)'
  <2>1. HolderWrites(u) /\ lock[u] \in Sessions \union {None} BY DEF EntriesInv, WalletTypes
  <2>2. CASE lock[u] = None BY <1>1, <2>1, <2>2 DEF HolderWrites
  <2>3. CASE lock[u] # None
    <3>1. SameEntry(lock[u]) BY <2>1, <2>3
    <3>2. QED BY <1>1, <2>1, <2>3, <3>1 DEF HolderWrites, SameEntry, LastIs
  <2>4. QED BY <2>2, <2>3
<1>4. ASSUME NEW q \in Sessions PROVE CallWrites(q)'
  <2>1. CallWrites(q) BY DEF EntriesInv
  <2>2. QED BY <1>1, <2>1 DEF CallWrites, SameEntry
<1>5. QED BY <1>1, <1>2, <1>3, <1>4 DEF EntriesInv, RowsStay

\* A request begins its ledger entry.
LEMMA SelectEntries ==
  ASSUME Assumption, EntriesInv, NEW p \in Sessions, NEW u \in Users, NEW amount \in Int,
         NEW tag \in Tags, W!Select(p, u, amount, tag),
         ~InEntry(p), InEntry(p)', EntryUser(p)' = u, EntryTag(p)' = tag, EntryAmount(p)' = amount,
         \A q \in Sessions \ {p} : SameEntry(q)
  PROVE  EntriesInv' /\ RowsStay
<1> DEFINE c == [user |-> u, amount |-> amount, tag |-> tag, wallet |-> W!View(p, u), step |-> "update"]
<1>1. /\ call[p] = None /\ call' = [call EXCEPT ![p] = c]
      /\ UNCHANGED <<balance, written, ledger, committed, lock>>
  BY DEF W!Select
<1>2. WalletTypes BY DEF EntriesInv
<1>3. c \in EntryCall BY <1>2 DEF W!View, WalletTypes, EntryCall
<1>4. WalletTypes' BY <1>1, <1>2, <1>3 DEF WalletTypes
<1>5. call'[p] = c /\ c # None /\ c.step = "update" BY <1>1, <1>2, <1>3 DEF WalletTypes, Assumption
<1>6. ASSUME NEW v \in Users PROVE HolderWrites(v)'
  <2>1. HolderWrites(v) /\ lock[v] \in Sessions \union {None} BY DEF EntriesInv, WalletTypes
  <2>2. CASE lock[v] = None BY <1>1, <2>1, <2>2 DEF HolderWrites
  <2>3. CASE lock[v] # None
    <3>1. lock[v] # p BY <2>1, <2>3 DEF HolderWrites
    <3>2. SameEntry(lock[v]) /\ call'[lock[v]] = call[lock[v]] BY <1>1, <2>1, <2>3, <3>1
    <3>3. QED BY <1>1, <2>1, <2>3, <3>2 DEF HolderWrites, SameEntry, LastIs
  <2>4. QED BY <2>2, <2>3
<1>7. ASSUME NEW q \in Sessions PROVE CallWrites(q)'
  <2>1. CASE q = p BY <1>5, <2>1 DEF CallWrites
  <2>2. CASE q # p
    <3>1. CallWrites(q) /\ SameEntry(q) /\ call'[q] = call[q] BY <1>1, <1>2, <2>2 DEF EntriesInv, WalletTypes
    <3>2. QED BY <1>1, <3>1 DEF CallWrites, SameEntry
  <2>3. QED BY <2>1, <2>2
<1>8. QED BY <1>1, <1>4, <1>6, <1>7 DEF EntriesInv, RowsStay

\* UPDATE wallets.
LEMMA UpdateEntries ==
  ASSUME Assumption, EntriesInv, NEW p \in Sessions, W!Update(p), \A q \in Sessions : SameEntry(q)
  PROVE  EntriesInv' /\ RowsStay
<1> DEFINE c == call[p]  u == call[p].user
<1>1. /\ c # None /\ c.step = "update" /\ lock[u] \in {None, p}
      /\ lock' = [lock EXCEPT ![u] = p]
      /\ written' = [written EXCEPT ![u] = c.wallet + c.amount]
      /\ call' = [call EXCEPT ![p].step = "insert"]
      /\ UNCHANGED <<balance, ledger, committed>>
  BY DEF W!Update
<1>2. WalletTypes /\ CallWrites(p) BY DEF EntriesInv
<1>3. c \in EntryCall /\ u \in Users /\ c.wallet + c.amount \in Int
  BY <1>1, <1>2 DEF WalletTypes, EntryCall
<1>4. [c EXCEPT !.step = "insert"] \in EntryCall BY <1>3 DEF EntryCall
<1>5. call'[p] = [c EXCEPT !.step = "insert"] /\ \A q \in Sessions : q # p => call'[q] = call[q]
  BY <1>1, <1>2 DEF WalletTypes
<1>6. /\ call'[p] # None /\ call'[p].step = "insert" /\ call'[p].user = u
      /\ call'[p].tag = c.tag /\ call'[p].amount = c.amount
  <2>1. call'[p] # None BY <1>4, <1>5 DEF Assumption
  <2>2. QED BY <1>3, <1>5, <2>1 DEF EntryCall
<1>7. WalletTypes' BY <1>1, <1>2, <1>3, <1>4 DEF WalletTypes
<1>8. lock[u] = None
  <2>1. HolderWrites(u) BY <1>3 DEF EntriesInv
  <2>2. QED BY <1>1, <2>1 DEF HolderWrites
<1>9. lock'[u] = p /\ \A v \in Users : v # u => lock'[v] = lock[v] BY <1>1, <1>2, <1>3 DEF WalletTypes
<1>10. Len(ledger[u]) = committed[u]
  <2>1. HolderWrites(u) BY <1>3 DEF EntriesInv
  <2>2. QED BY <1>8, <2>1 DEF HolderWrites
<1>11. InEntry(p)' /\ EntryUser(p)' = u /\ EntryTag(p)' = c.tag /\ EntryAmount(p)' = c.amount
  BY <1>1, <1>2 DEF CallWrites, SameEntry
<1>12. ASSUME NEW v \in Users PROVE HolderWrites(v)'
  <2>1. CASE v = u
    <3>1. Len(ledger'[v]) = committed'[v] BY <1>1, <1>10, <2>1
    <3>2. p # None BY DEF Assumption
    <3>3. QED BY <1>6, <1>9, <1>11, <2>1, <3>1, <3>2 DEF HolderWrites
  <2>2. CASE v # u
    <3>1. HolderWrites(v) /\ lock[v] \in Sessions \union {None} BY <1>2 DEF EntriesInv, WalletTypes
    <3>2. CASE lock[v] = None BY <1>1, <1>9, <2>2, <3>1, <3>2 DEF HolderWrites
    <3>3. CASE lock[v] # None
      <4>1. lock[v] # p
        <5>1. lock[v] = p => EntryUser(p) = v BY <3>1, <3>3 DEF HolderWrites
        <5>2. EntryUser(p) = u BY <1>1, <1>2 DEF CallWrites
        <5>3. QED BY <2>2, <5>1, <5>2
      <4>2. SameEntry(lock[v]) /\ call'[lock[v]] = call[lock[v]] BY <1>5, <3>1, <3>3, <4>1
      <4>3. QED BY <1>1, <1>9, <2>2, <3>1, <3>3, <4>2 DEF HolderWrites, SameEntry, LastIs
    <3>4. QED BY <3>2, <3>3
  <2>3. QED BY <2>1, <2>2
<1>13. ASSUME NEW q \in Sessions PROVE CallWrites(q)'
  <2>1. CASE q = p BY <1>6, <1>9, <1>11, <2>1 DEF CallWrites
  <2>2. CASE q # p
    <3>1. CallWrites(q) /\ SameEntry(q) /\ call'[q] = call[q] BY <1>5, <2>2 DEF EntriesInv
    <3>2. call[q] # None => call[q].user \in Users BY <1>2 DEF WalletTypes, EntryCall
    <3>3. call[q] # None /\ call[q].step = "insert" => lock'[call[q].user] = q
      BY <1>8, <1>9, <3>1, <3>2 DEF CallWrites, Assumption
    <3>4. QED BY <3>1, <3>3 DEF CallWrites, SameEntry
  <2>3. QED BY <2>1, <2>2
<1>14. QED BY <1>1, <1>7, <1>12, <1>13 DEF EntriesInv, RowsStay

\* INSERT INTO transactions.
LEMMA InsertEntries ==
  ASSUME Assumption, EntriesInv, NEW p \in Sessions, W!Insert(p), \A q \in Sessions : SameEntry(q)
  PROVE  EntriesInv' /\ RowsStay
<1> DEFINE c == call[p]  u == call[p].user
           row == [amount |-> c.amount, after |-> c.wallet + c.amount, tag |-> c.tag, by |-> p]
<1>1. /\ c # None /\ c.step = "insert"
      /\ ledger' = [ledger EXCEPT ![u] = Append(ledger[u], row)]
      /\ call' = [call EXCEPT ![p] = None]
      /\ UNCHANGED <<balance, written, committed, lock>>
  BY DEF W!Insert
<1>2. WalletTypes /\ CallWrites(p) BY DEF EntriesInv
<1>3. c \in EntryCall /\ u \in Users BY <1>1, <1>2 DEF WalletTypes, EntryCall
<1>4. row \in LedgerRow BY <1>3 DEF EntryCall, LedgerRow
<1>5. ledger[u] \in Seq(LedgerRow) /\ committed[u] \in Nat BY <1>2, <1>3 DEF WalletTypes
<1>6. WalletTypes' BY <1>1, <1>2, <1>3, <1>4, <1>5 DEF WalletTypes
<1>7. call'[p] = None /\ \A q \in Sessions : q # p => call'[q] = call[q] BY <1>1, <1>2 DEF WalletTypes
<1>8. ledger'[u] = Append(ledger[u], row) /\ \A v \in Users : v # u => ledger'[v] = ledger[v]
  BY <1>1, <1>2, <1>3 DEF WalletTypes
<1>9. lock[u] = p /\ Len(ledger[u]) = committed[u]
  <2>1. lock[u] = p BY <1>1, <1>2 DEF CallWrites
  <2>2. HolderWrites(u) /\ p # None BY <1>3 DEF EntriesInv, Assumption
  <2>3. QED BY <1>1, <2>1, <2>2 DEF HolderWrites
<1>10. /\ Len(ledger'[u]) = committed[u] + 1 /\ ledger'[u][committed[u] + 1] = row
       /\ \A n \in 1..committed[u] : ledger'[u][n] = ledger[u][n]
  BY <1>4, <1>5, <1>8, <1>9
<1>11. /\ InEntry(p)' /\ EntryUser(p)' = u /\ EntryUser(p) = u
       /\ row.tag = EntryTag(p)' /\ row.amount = EntryAmount(p)'
  BY <1>1, <1>2 DEF CallWrites, SameEntry
<1>12. ASSUME NEW v \in Users PROVE HolderWrites(v)'
  <2>1. CASE v = u
    <3>1. LastIs(v, p)' BY <1>1, <1>10, <1>11, <2>1 DEF LastIs
    <3>2. p # None BY DEF Assumption
    <3>3. lock'[v] = p BY <1>1, <1>9, <2>1
    <3>4. QED BY <1>7, <1>11, <2>1, <3>1, <3>2, <3>3 DEF HolderWrites
  <2>2. CASE v # u
    <3>1. HolderWrites(v) /\ lock[v] \in Sessions \union {None} BY <1>2 DEF EntriesInv, WalletTypes
    <3>2. CASE lock[v] = None BY <1>1, <1>8, <2>2, <3>1, <3>2 DEF HolderWrites
    <3>3. CASE lock[v] # None
      <4>1. lock[v] # p BY <1>11, <2>2, <3>1, <3>3 DEF HolderWrites
      <4>2. SameEntry(lock[v]) /\ call'[lock[v]] = call[lock[v]] BY <1>7, <3>1, <3>3, <4>1
      <4>3. QED BY <1>1, <1>8, <2>2, <3>1, <3>3, <4>2 DEF HolderWrites, SameEntry, LastIs
    <3>4. QED BY <3>2, <3>3
  <2>3. QED BY <2>1, <2>2
<1>13. ASSUME NEW q \in Sessions PROVE CallWrites(q)'
  <2>1. CASE q = p BY <1>7, <2>1 DEF CallWrites
  <2>2. CASE q # p
    <3>1. CallWrites(q) /\ SameEntry(q) /\ call'[q] = call[q] BY <1>7, <2>2 DEF EntriesInv
    <3>2. QED BY <1>1, <3>1 DEF CallWrites, SameEntry
  <2>3. QED BY <2>1, <2>2
<1>14. RowsStay BY <1>1, <1>8, <1>10 DEF RowsStay
<1>15. QED BY <1>6, <1>12, <1>13, <1>14 DEF EntriesInv

\* What a session without an entry would publish is nothing.
LEMMA NothingHeld ==
  ASSUME Assumption, EntriesInv, NEW p \in Sessions, ~InEntry(p)
  PROVE  call[p] = None /\ \A u \in Users : lock[u] # p
<1>1. CallWrites(p) /\ \A u \in Users : HolderWrites(u) BY DEF EntriesInv
<1>2. call[p] = None BY <1>1 DEF CallWrites
<1>3. p # None BY DEF Assumption
<1>4. ASSUME NEW u \in Users, lock[u] = p PROVE FALSE BY <1>1, <1>3, <1>4 DEF HolderWrites
<1>5. QED BY <1>2, <1>4

\* ROLLBACK.
LEMMA RollbackEntries ==
  ASSUME Assumption, EntriesInv, NEW p \in Sessions, W!Rollback(p),
         \A q \in Sessions \ {p} : SameEntry(q)
  PROVE  EntriesInv' /\ RowsStay
<1>1. /\ written' = [u \in Users |-> IF lock[u] = p THEN balance[u] ELSE written[u]]
      /\ ledger' = [u \in Users |-> IF lock[u] = p THEN SubSeq(ledger[u], 1, committed[u]) ELSE ledger[u]]
      /\ lock' = [u \in Users |-> IF lock[u] = p THEN None ELSE lock[u]]
      /\ call' = [call EXCEPT ![p] = None]
      /\ UNCHANGED <<balance, committed>>
  BY DEF W!Rollback
<1>2. WalletTypes /\ p # None BY DEF EntriesInv, Assumption
<1>3. \A u \in Users : /\ HolderWrites(u) /\ ledger[u] \in Seq(LedgerRow)
                       /\ committed[u] \in Nat /\ lock[u] \in Sessions \union {None}
  BY <1>2 DEF EntriesInv, WalletTypes
<1>4. \A u \in Users : committed[u] <= Len(ledger[u]) BY <1>3 DEF HolderWrites, LastIs
<1>5. ASSUME NEW u \in Users, lock[u] = p
      PROVE  /\ ledger'[u] \in Seq(LedgerRow) /\ Len(ledger'[u]) = committed[u]
             /\ \A n \in 1..committed[u] : ledger'[u][n] = ledger[u][n]
  <2>1. ledger'[u] = SubSeq(ledger[u], 1, committed[u]) BY <1>1, <1>5
  <2>2. ledger[u] \in Seq(LedgerRow) /\ committed[u] \in 0..Len(ledger[u]) BY <1>3, <1>4
  <2>3. \A n \in 1..committed[u] : ledger[u][n] \in LedgerRow BY <2>2
  <2>4. QED BY <2>1, <2>2, <2>3
<1>6. \A u \in Users : lock[u] # p => ledger'[u] = ledger[u] /\ lock'[u] = lock[u] BY <1>1
<1>7. \A u \in Users : lock[u] = p => lock'[u] = None BY <1>1
<1>8. WalletTypes'
  <2>1. ledger' \in [Users -> Seq(LedgerRow)] BY <1>1, <1>3, <1>5, <1>6
  <2>2. QED BY <1>1, <1>2, <2>1 DEF WalletTypes
<1>9. call'[p] = None /\ \A q \in Sessions : q # p => call'[q] = call[q] BY <1>1, <1>2 DEF WalletTypes
<1>10. ASSUME NEW u \in Users PROVE HolderWrites(u)'
  <2>1. CASE lock[u] = p BY <1>1, <1>5, <1>7, <2>1 DEF HolderWrites
  <2>2. CASE lock[u] # p
    <3>1. CASE lock[u] = None BY <1>1, <1>3, <1>6, <2>2, <3>1 DEF HolderWrites
    <3>2. CASE lock[u] # None
      <4>1. SameEntry(lock[u]) /\ call'[lock[u]] = call[lock[u]] /\ HolderWrites(u)
        BY <1>3, <1>9, <2>2, <3>2
      <4>2. QED BY <1>1, <1>6, <2>2, <3>2, <4>1 DEF HolderWrites, SameEntry, LastIs
    <3>3. QED BY <3>1, <3>2
  <2>3. QED BY <2>1, <2>2
<1>11. ASSUME NEW q \in Sessions PROVE CallWrites(q)'
  <2>1. CASE q = p BY <1>9, <2>1 DEF CallWrites
  <2>2. CASE q # p
    <3>1. CallWrites(q) /\ SameEntry(q) /\ call'[q] = call[q] BY <1>9, <2>2 DEF EntriesInv
    <3>2. call[q] # None => call[q].user \in Users BY <1>2 DEF WalletTypes, EntryCall
    <3>3. call[q] # None /\ call[q].step = "insert" => lock'[call[q].user] = q
      BY <1>6, <2>2, <3>1, <3>2 DEF CallWrites
    <3>4. QED BY <3>1, <3>3 DEF CallWrites, SameEntry
  <2>3. QED BY <2>1, <2>2
<1>12. RowsStay BY <1>1, <1>5, <1>6 DEF RowsStay
<1>13. QED BY <1>8, <1>10, <1>11, <1>12 DEF EntriesInv

\* COMMIT: one row more, the entry of the session.
LEMMA CommitEntries ==
  ASSUME Assumption, EntriesInv, NEW p \in Sessions, W!Commit(p), InEntry(p),
         \A q \in Sessions \ {p} : SameEntry(q)
  PROVE  /\ EntriesInv' /\ ledger' = ledger
         /\ EntryUser(p) \in Users
         /\ committed' = [committed EXCEPT ![EntryUser(p)] = committed[EntryUser(p)] + 1]
         /\ ledger[EntryUser(p)][committed[EntryUser(p)] + 1].tag = EntryTag(p)
         /\ ledger[EntryUser(p)][committed[EntryUser(p)] + 1].amount = EntryAmount(p)
<1>1. /\ call[p] = None /\ call' = call
      /\ balance' = [u \in Users |-> IF lock[u] = p THEN written[u] ELSE balance[u]]
      /\ committed' = [u \in Users |-> IF lock[u] = p THEN Len(ledger[u]) ELSE committed[u]]
      /\ lock' = [u \in Users |-> IF lock[u] = p THEN None ELSE lock[u]]
      /\ UNCHANGED <<written, ledger>>
      /\ \E u \in Users : lock[u] = p
  BY DEF W!Commit, W!Publish, W!Holds
<1>2. WalletTypes /\ p # None BY DEF EntriesInv, Assumption
<1>3. \A u \in Users : /\ HolderWrites(u) /\ ledger[u] \in Seq(LedgerRow)
                       /\ committed[u] \in Nat /\ lock[u] \in Sessions \union {None}
  BY <1>2 DEF EntriesInv, WalletTypes
<1>4. PICK u \in Users : lock[u] = p BY <1>1
<1>5. u = EntryUser(p) /\ LastIs(u, p) BY <1>1, <1>2, <1>3, <1>4 DEF HolderWrites
<1>6. \A v \in Users : v # u => lock[v] # p BY <1>2, <1>3, <1>5 DEF HolderWrites
<1>7. Len(ledger[u]) = committed[u] + 1 BY <1>5 DEF LastIs
<1>8. committed' = [committed EXCEPT ![u] = committed[u] + 1]
  <2>1. \A v \in Users : committed'[v] = [committed EXCEPT ![u] = committed[u] + 1][v]
    BY <1>1, <1>2, <1>4, <1>6, <1>7 DEF WalletTypes
  <2>2. QED BY <1>1, <1>2, <2>1 DEF WalletTypes
<1>9. WalletTypes' BY <1>1, <1>2, <1>3, <1>8 DEF WalletTypes
<1>10. lock'[u] = None /\ \A v \in Users : v # u => lock'[v] = lock[v] BY <1>1, <1>4, <1>6
<1>11. committed'[u] = committed[u] + 1 /\ \A v \in Users : v # u => committed'[v] = committed[v]
  BY <1>2, <1>8 DEF WalletTypes
<1>12. ASSUME NEW v \in Users PROVE HolderWrites(v)'
  <2>1. CASE v = u BY <1>1, <1>7, <1>10, <1>11, <2>1 DEF HolderWrites
  <2>2. CASE v # u
    <3>1. CASE lock[v] = None BY <1>1, <1>3, <1>10, <1>11, <2>2, <3>1 DEF HolderWrites
    <3>2. CASE lock[v] # None
      <4>1. SameEntry(lock[v]) /\ HolderWrites(v) BY <1>3, <1>6, <2>2, <3>2
      <4>2. QED BY <1>1, <1>10, <1>11, <2>2, <3>2, <4>1 DEF HolderWrites, SameEntry, LastIs
    <3>3. QED BY <3>1, <3>2
  <2>3. QED BY <2>1, <2>2
<1>13. ASSUME NEW q \in Sessions PROVE CallWrites(q)'
  <2>1. CASE q = p BY <1>1, <2>1 DEF CallWrites
  <2>2. CASE q # p
    <3>1. CallWrites(q) /\ SameEntry(q) BY <2>2 DEF EntriesInv
    <3>2. call[q] # None => call[q].user \in Users BY <1>2 DEF WalletTypes, EntryCall
    <3>3. call[q] # None /\ call[q].step = "insert" => lock'[call[q].user] = q
      BY <1>4, <1>10, <2>2, <3>1, <3>2 DEF CallWrites
    <3>4. QED BY <1>1, <3>1, <3>3 DEF CallWrites, SameEntry
  <2>3. QED BY <2>1, <2>2
<1>14. QED BY <1>1, <1>5, <1>8, <1>9, <1>12, <1>13 DEF EntriesInv, LastIs

-----------------------------------------------------------------------------
\* The requests, the intents and what the provider knows of them.
InitTask ==
  [op : {"initiateDeposit", "initiatePayout"}, stage : {"create", "insert", "debit"},
   intent : Intents, user : Users, key : Keys,
   amount : DepositAmounts \union PayoutAmounts, result : {"pending", "completed"}]
HookTask ==
  [op : {"creditDeposit", "failIntent"}, stage : {"check", "credit", "update"},
   intent : Intents, event : Events \union {None}]

RequestTypes ==
  /\ intents \in [Intents -> IntentRow \union {None}]
  /\ intentLock \in [Intents -> Sessions \union {None}]
  /\ provider \in [Intents -> {"none", "created", "paid", "failed", "sent", "returned", "arrived"}]
  /\ task \in [Sessions -> {Idle} \union InitTask \union HookTask]

Initiating(p) == task[p].op \in {"initiateDeposit", "initiatePayout"}

\* Where a request stands, the intent it works on stands too.
InStep(p, i) ==
  /\ task[p].op = "initiateDeposit" =>
       /\ task[p].stage \in {"create", "insert"} /\ intents[i] = None
       /\ task[p].stage = "create" => provider[i] = "none"
       /\ task[p].stage = "insert" => provider[i] \in {"created", "paid"}
       /\ task[p].stage = "insert" /\ task[p].result = "completed" => provider[i] = "paid"
  /\ task[p].op = "initiatePayout" =>
       /\ intents[i] = None
       /\ IF task[p].stage = "create" THEN provider[i] = "none"
          ELSE provider[i] \in {"sent", "returned", "arrived"}
  /\ task[p].op = "creditDeposit" =>
       /\ task[p].stage \in {"check", "credit"}
       /\ intents[i] # None /\ intents[i].type = "deposit" /\ provider[i] = "paid"
       /\ task[p].stage = "credit" => intentLock[i] = p /\ intents[i].status # "completed"
  /\ task[p].op = "failIntent" =>
       /\ task[p].stage = "update"
       /\ intents[i] # None /\ provider[i] \in {"failed", "returned"}

IntentAgrees(i) ==
  /\ intents[i] # None /\ intents[i].type = "deposit" =>
       /\ provider[i] \in {"created", "paid", "failed"}
       /\ intents[i].status = "completed" => provider[i] = "paid"
  /\ intents[i] # None /\ intents[i].type = "payout" =>
       provider[i] \in {"sent", "returned", "arrived"}
  /\ <<i, "completed">> \in emitted => provider[i] \in {"paid", "arrived"}
  /\ <<i, "failed">> \in emitted => provider[i] \in {"failed", "returned"}

RequestsInv ==
  /\ RequestTypes
  /\ \A p \in Sessions : task[p] # Idle => InStep(p, task[p].intent)
  /\ \A p, q \in Sessions :
       Initiating(p) /\ Initiating(q) /\ task[p].intent = task[q].intent => p = q
  /\ \A i \in Intents : IntentAgrees(i)
  /\ \A i, j \in Existing :
       intents[i].user = intents[j].user /\ intents[i].key = intents[j].key => i = j

\* A completed deposit has one committed row, of its amount; so has a payout.
Deposited(i) == i \in Existing /\ intents[i].type = "deposit" /\ intents[i].status = "completed"
PaidOut(i) == i \in Existing /\ intents[i].type = "payout"
CreditRow(i) ==
  IF Deposited(i)
  THEN \E u \in Users : \E n \in 1..committed[u] :
         Movements(i, "deposit") = {<<u, n>>} /\ ledger[u][n].amount = intents[i].amount
  ELSE Movements(i, "deposit") = {}
DebitRow(i) ==
  IF PaidOut(i) THEN \E r : Movements(i, "withdrawal") = {r} ELSE Movements(i, "withdrawal") = {}

RowsInv == \A i \in Intents : CreditRow(i) /\ DebitRow(i)
Inv == EntriesInv /\ RequestsInv /\ RowsInv

-----------------------------------------------------------------------------
LEMMA MovementsAre ==
  ASSUME NEW i, NEW type, NEW r
  PROVE  r \in Movements(i, type) <=>
           \E u \in Users : \E n \in 1..committed[u] : r = <<u, n>> /\ ledger[u][n].tag = <<type, i>>
BY DEF Movements

\* Rows that stay are the same movements.
LEMMA SameMovements ==
  ASSUME WalletTypes, RowsStay, NEW i, NEW type
  PROVE  Movements(i, type)' = Movements(i, type)
<1>1. committed' = committed /\ \A u \in Users : \A n \in 1..committed[u] : ledger'[u][n] = ledger[u][n]
  BY DEF RowsStay
<1>2. ASSUME NEW r PROVE r \in Movements(i, type)' <=> r \in Movements(i, type)
  <2>1. r \in Movements(i, type)' <=>
          \E u \in Users : \E n \in 1..committed[u] : r = <<u, n>> /\ ledger[u][n].tag = <<type, i>>
    BY <1>1 DEF Movements
  <2>2. QED BY <2>1, MovementsAre
<1>3. QED BY <1>2

\* A committed entry is one movement more.
LEMMA MoreMovements ==
  ASSUME WalletTypes, NEW u \in Users, NEW i, NEW type, ledger' = ledger,
         committed' = [committed EXCEPT ![u] = committed[u] + 1]
  PROVE  Movements(i, type)' = Movements(i, type) \union
           (IF ledger[u][committed[u] + 1].tag = <<type, i>> THEN {<<u, committed[u] + 1>>} ELSE {})
<1>1. /\ \A v \in Users : committed[v] \in Nat
      /\ committed'[u] = committed[u] + 1 /\ \A v \in Users : v # u => committed'[v] = committed[v]
  BY DEF WalletTypes
<1>2. 1..committed'[u] = 1..committed[u] \union {committed[u] + 1} BY <1>1
<1>3. ASSUME NEW r
      PROVE  r \in Movements(i, type)' <=>
               r \in Movements(i, type) \/ (ledger[u][committed[u] + 1].tag = <<type, i>> /\ r = <<u, committed[u] + 1>>)
  <2>1. r \in Movements(i, type)' <=>
          \E v \in Users : \E n \in 1..committed'[v] : r = <<v, n>> /\ ledger[v][n].tag = <<type, i>>
    BY DEF Movements
  <2>2. ASSUME NEW v \in Users, NEW n \in Nat
        PROVE  n \in 1..committed'[v] <=> n \in 1..committed[v] \/ (v = u /\ n = committed[u] + 1)
    BY <1>1, <1>2
  <2>3. committed[u] + 1 \in 1..committed'[u] BY <1>1
  <2>4. r \in Movements(i, type) <=>
          \E v \in Users : \E n \in 1..committed[v] : r = <<v, n>> /\ ledger[v][n].tag = <<type, i>>
    BY MovementsAre
  <2>5. \A v \in Users : \A n : n \in 1..committed'[v] \/ n \in 1..committed[v] => n \in Nat
    BY <1>1
  <2>6. QED BY <2>1, <2>2, <2>3, <2>4, <2>5
<1>4. QED BY <1>3

\* No row is added and no intent is completed or paid out.
LEMMA SameRows ==
  ASSUME WalletTypes, RowsInv, RowsStay,
         \A i \in Intents : /\ Deposited(i)' <=> Deposited(i)
                            /\ PaidOut(i)' <=> PaidOut(i)
                            /\ Deposited(i) => intents'[i].amount = intents[i].amount
  PROVE  RowsInv'
<1>1. \A i \in Intents : /\ Movements(i, "deposit")' = Movements(i, "deposit")
                         /\ Movements(i, "withdrawal")' = Movements(i, "withdrawal")
  BY SameMovements
<1>2. committed' = committed /\ \A u \in Users : \A n \in 1..committed[u] : ledger'[u][n] = ledger[u][n]
  BY DEF RowsStay
<1>3. ASSUME NEW i \in Intents PROVE CreditRow(i)'
  <2>1. CreditRow(i) BY DEF RowsInv
  <2>2. QED BY <1>1, <1>2, <2>1 DEF CreditRow
<1>4. ASSUME NEW i \in Intents PROVE DebitRow(i)'
  <2>1. DebitRow(i) BY DEF RowsInv
  <2>2. QED BY <1>1, <2>1 DEF DebitRow
<1>5. QED BY <1>3, <1>4 DEF RowsInv

LEMMA SameIntents ==
  ASSUME WalletTypes, RowsInv, RowsStay, intents' = intents
  PROVE  RowsInv'
BY SameRows DEF Deposited, PaidOut, Existing

\* A session that stays where it is, and whose intent keeps user and amount,
\* writes the same entry.
LEMMA Bystander ==
  ASSUME NEW q, task'[q] = task[q],
         Crediting(q) => /\ intents'[task[q].intent].user = intents[task[q].intent].user
                         /\ intents'[task[q].intent].amount = intents[task[q].intent].amount
  PROVE  SameEntry(q)
BY DEF SameEntry, InEntry, Crediting, Debiting, At, EntryUser, EntryTag, EntryAmount

-----------------------------------------------------------------------------
Tasks == {Idle} \union InitTask \union HookTask

\* The request that begins has an intent of its own.
Fresh(p, t) ==
  t.op \in {"initiateDeposit", "initiatePayout"} =>
    \A q \in Sessions \ {p} : Initiating(q) => task[q].intent # t.intent

\* A request moves on, and nothing else changes.
LEMMA TaskOnly ==
  ASSUME Assumption, Inv, NEW p \in Sessions, NEW t \in Tasks, Goto(p, t),
         UNCHANGED <<wvars, intents, intentLock, provider, emitted>>,
         ~InEntry(p), ~InEntry(p)', t # Idle => InStep(p, t.intent)', Fresh(p, t)
  PROVE  Inv'
<1>1. /\ EntriesInv /\ RequestsInv /\ RowsInv /\ RequestTypes /\ WalletTypes
      /\ UNCHANGED wvars /\ intents' = intents /\ intentLock' = intentLock
      /\ provider' = provider /\ emitted' = emitted
  BY DEF Inv, RequestsInv, EntriesInv
<1>2. task'[p] = t /\ \A q \in Sessions : q # p => task'[q] = task[q] BY <1>1 DEF RequestTypes, Goto
<1>3. RequestTypes' BY <1>1 DEF RequestTypes, Goto, Tasks
<1>4. ASSUME NEW q \in Sessions, task'[q] # Idle PROVE InStep(q, task[q].intent)' BY <1>1, <1>2, <1>4 DEF RequestsInv, InStep
<1>5. ASSUME NEW q \in Sessions, NEW r \in Sessions, Initiating(q)', Initiating(r)',
             task'[q].intent = task'[r].intent
      PROVE  q = r
  BY <1>1, <1>2, <1>5 DEF RequestsInv, Initiating, Fresh
<1>6. \A i \in Intents : IntentAgrees(i)' BY <1>1 DEF RequestsInv, IntentAgrees
<1>7. RequestsInv' BY <1>1, <1>3, <1>4, <1>5, <1>6 DEF RequestsInv, Existing
<1>8. \A q \in Sessions : SameEntry(q) \/ (call[q] = None /\ \A u \in Users : lock[u] # q)
  <2>1. ASSUME NEW q \in Sessions, q # p PROVE SameEntry(q) BY <1>1, <1>2, <2>1, Bystander
  <2>2. call[p] = None /\ \A u \in Users : lock[u] # p BY <1>1, NothingHeld
  <2>3. QED BY <2>1, <2>2
<1>9. EntriesInv' /\ RowsStay BY <1>1, <1>8, QuietEntries
<1>10. RowsInv' BY <1>1, <1>9, SameIntents
<1>11. QED BY <1>7, <1>9, <1>10 DEF Inv

\* A new request.
LEMMA Begins ==
  ASSUME Assumption, Inv, NEW p \in Sessions, NEW i, NewId(i), task[p] = Idle,
         NEW op \in {"initiateDeposit", "initiatePayout"}, NEW u \in Users, NEW key \in Keys,
         NEW amount \in DepositAmounts \union PayoutAmounts,
         Goto(p, [op |-> op, stage |-> "create", intent |-> i, user |-> u,
                  key |-> key, amount |-> amount, result |-> "pending"]),
         UNCHANGED <<wvars, pvars>>
  PROVE  Inv'
<1> DEFINE t == [op |-> op, stage |-> "create", intent |-> i, user |-> u,
                 key |-> key, amount |-> amount, result |-> "pending"]
<1>1. /\ RequestsInv /\ RequestTypes /\ i \in Intents /\ provider[i] = "none"
      /\ UNCHANGED <<wvars, intents, intentLock, provider, emitted>>
  BY DEF Inv, RequestsInv, NewId, pvars
<1>2. intents[i] = None
  <2>1. IntentAgrees(i) BY <1>1 DEF RequestsInv
  <2>2. intents[i] # None => intents[i].type \in {"deposit", "payout"} BY <1>1 DEF RequestTypes, IntentRow
  <2>3. QED BY <1>1, <2>1, <2>2 DEF IntentAgrees
<1>3. t \in Tasks BY <1>1 DEF Tasks, InitTask
<1>4. task'[p] = t BY <1>1 DEF RequestTypes, Goto
<1>5. ~InEntry(p) /\ ~InEntry(p)' BY <1>4 DEF InEntry, Crediting, Debiting, At, Idle
<1>6. InStep(p, t.intent)' BY <1>1, <1>2, <1>4 DEF InStep
<1>7. Fresh(p, t) BY DEF NewId, Fresh, Initiating
<1>8. QED BY <1>1, <1>3, <1>5, <1>6, <1>7, TaskOnly

LEMMA RequestInv ==
  ASSUME Assumption, Inv, NEW p \in Sessions, Request(p)
  PROVE  Inv'
<1>1. PICK i \in Intents, u \in Users, key \in Keys :
        \/ \E amount \in DepositAmounts : InitiateDeposit(p, i, u, key, amount)
        \/ \E amount \in PayoutAmounts : InitiatePayout(p, i, u, key, amount)
  BY DEF Request
<1>2. CASE \E amount \in DepositAmounts : InitiateDeposit(p, i, u, key, amount)
  <2>1. PICK amount \in DepositAmounts : InitiateDeposit(p, i, u, key, amount) BY <1>2
  <2>2. QED BY <2>1, Begins DEF InitiateDeposit
<1>3. CASE \E amount \in PayoutAmounts : InitiatePayout(p, i, u, key, amount)
  <2>1. PICK amount \in PayoutAmounts : InitiatePayout(p, i, u, key, amount) BY <1>3
  <2>2. QED BY <2>1, Begins DEF InitiatePayout
<1>4. QED BY <1>1, <1>2, <1>3

\* A webhook begins, or is answered.
LEMMA DeliverInv ==
  ASSUME Assumption, Inv, NEW e \in Events, Deliver(e)
  PROVE  Inv'
<1>1. PICK p \in Sessions : IgnoreWebhook(p, e) \/ ReceiveCompleted(p, e) \/ ReceiveFailed(p, e)
  BY DEF Deliver
<1>2. RequestsInv /\ RequestTypes /\ EntriesInv /\ RowsInv BY DEF Inv, RequestsInv
<1>3. e = <<e[1], e[2]>> /\ e[1] \in Intents BY DEF Events
<1>4. CASE IgnoreWebhook(p, e)
  <2>1. UNCHANGED <<wvars, intents, intentLock, provider, emitted, task>> BY <1>4 DEF IgnoreWebhook
  <2>2. \A q \in Sessions : SameEntry(q) BY <2>1, Bystander
  <2>3. EntriesInv' /\ RowsStay BY <1>2, <2>1, <2>2, QuietEntries
  <2>4. RowsInv' BY <1>2, <2>1, <2>3, SameIntents DEF EntriesInv
  <2>5. RequestsInv'
    BY <1>2, <2>1 DEF RequestsInv, RequestTypes, InStep, Initiating, IntentAgrees, Existing
  <2>6. QED BY <2>3, <2>4, <2>5 DEF Inv
<1>5. CASE ReceiveCompleted(p, e)
  <2> DEFINE t == [op |-> "creditDeposit", stage |-> "check", intent |-> e[1], event |-> e]
  <2>1. /\ task[p] = Idle /\ Goto(p, t) /\ <<e[1], "completed">> \in emitted
        /\ intents[e[1]] # None /\ intents[e[1]].type = "deposit"
        /\ UNCHANGED <<wvars, intents, intentLock, provider, emitted>>
    BY <1>3, <1>5 DEF ReceiveCompleted, pvars, Existing
  <2>2. t \in Tasks BY <1>3 DEF Tasks, HookTask
  <2>3. task'[p] = t BY <1>2, <2>1 DEF RequestTypes, Goto
  <2>4. ~InEntry(p) /\ ~InEntry(p)' BY <2>1, <2>3 DEF InEntry, Crediting, Debiting, At, Idle
  <2>5. provider[e[1]] = "paid"
    <3>1. IntentAgrees(e[1]) BY <1>2, <1>3 DEF RequestsInv
    <3>2. QED BY <2>1, <3>1 DEF IntentAgrees
  <2>6. InStep(p, t.intent)' BY <2>1, <2>3, <2>5 DEF InStep
  <2>7. QED BY <2>1, <2>2, <2>4, <2>6, TaskOnly DEF Fresh
<1>6. CASE ReceiveFailed(p, e)
  <2> DEFINE t == [op |-> "failIntent", stage |-> "update", intent |-> e[1], event |-> e]
  <2>1. /\ task[p] = Idle /\ Goto(p, t) /\ <<e[1], "failed">> \in emitted /\ intents[e[1]] # None
        /\ UNCHANGED <<wvars, intents, intentLock, provider, emitted>>
    BY <1>3, <1>6 DEF ReceiveFailed, pvars, Existing
  <2>2. t \in Tasks BY <1>3 DEF Tasks, HookTask
  <2>3. task'[p] = t BY <1>2, <2>1 DEF RequestTypes, Goto
  <2>4. ~InEntry(p) /\ ~InEntry(p)' BY <2>1, <2>3 DEF InEntry, Crediting, Debiting, At, Idle
  <2>5. provider[e[1]] \in {"failed", "returned"}
    <3>1. IntentAgrees(e[1]) BY <1>2, <1>3 DEF RequestsInv
    <3>2. QED BY <2>1, <3>1 DEF IntentAgrees
  <2>6. InStep(p, t.intent)' BY <2>1, <2>3, <2>5 DEF InStep
  <2>7. QED BY <2>1, <2>2, <2>4, <2>6, TaskOnly DEF Fresh
<1>7. QED BY <1>1, <1>4, <1>5, <1>6

LEMMA AlreadyCreditedInv ==
  ASSUME Assumption, Inv, NEW p \in Sessions, AlreadyCredited(p)
  PROVE  Inv'
<1>1. /\ task[p].stage = "check" /\ Goto(p, Idle)
      /\ UNCHANGED <<wvars, intents, intentLock, provider, emitted>>
  BY DEF AlreadyCredited, Answer, Finish, At
<1>2. RequestTypes BY DEF Inv, RequestsInv
<1>3. task'[p] = Idle BY <1>1, <1>2 DEF RequestTypes, Goto
<1>4. ~InEntry(p) /\ ~InEntry(p)' BY <1>1, <1>3 DEF InEntry, Crediting, Debiting, At, Idle
<1>5. QED BY <1>1, <1>4, TaskOnly DEF Fresh, Tasks, Idle

-----------------------------------------------------------------------------
\* No one else works on the intent of a request that creates it.
LEMMA AloneOnIntent ==
  ASSUME RequestsInv, NEW p \in Sessions, Initiating(p), NEW q \in Sessions, q # p, task[q] # Idle
  PROVE  task[q].intent # task[p].intent /\ task[q].intent \in Intents
<1>1. task[q] \in InitTask \union HookTask /\ InStep(q, task[q].intent) BY DEF RequestsInv, RequestTypes
<1>2. task[p] # Idle /\ InStep(p, task[p].intent) BY DEF RequestsInv, Initiating, Idle
<1>3. intents[task[p].intent] = None BY <1>2 DEF InStep, Initiating
<1>4. task[q].intent \in Intents BY <1>1 DEF InitTask, HookTask
<1>5. CASE Initiating(q) BY <1>4, <1>5 DEF RequestsInv
<1>6. CASE ~Initiating(q)
  <2>1. task[q].op \in {"creditDeposit", "failIntent"} BY <1>1, <1>6 DEF InitTask, HookTask, Initiating
  <2>2. intents[task[q].intent] # None BY <1>1, <2>1 DEF InStep
  <2>3. QED BY <1>3, <1>4, <2>2
<1>7. QED BY <1>5, <1>6

\* The provider creates what the request asked for.
LEMMA CreateInv ==
  ASSUME Assumption, Inv, NEW p \in Sessions, Initiating(p), task[p].stage = "create",
         NEW t \in InitTask, t.op = task[p].op, t.intent = task[p].intent, Goto(p, t),
         NEW s, provider' = [provider EXCEPT ![task[p].intent] = s],
         \/ t.op = "initiateDeposit" /\ t.stage = "insert" /\ s \in {"created", "paid"}
            /\ (t.result = "completed" => s = "paid")
         \/ t.op = "initiatePayout" /\ t.stage = "debit" /\ s = "sent",
         UNCHANGED <<wvars, intents, intentLock, emitted>>
  PROVE  Inv'
<1> DEFINE i == t.intent
<1>1. /\ EntriesInv /\ RequestsInv /\ RowsInv /\ RequestTypes /\ WalletTypes /\ i \in Intents
      /\ UNCHANGED wvars /\ intents' = intents /\ intentLock' = intentLock /\ emitted' = emitted
  BY DEF Inv, RequestsInv, EntriesInv, InitTask
<1>2. task'[p] = t /\ \A q \in Sessions : q # p => task'[q] = task[q] BY <1>1 DEF RequestTypes, Goto
<1>3. provider'[i] = s /\ \A j \in Intents : j # i => provider'[j] = provider[j] BY <1>1 DEF RequestTypes
<1>4. RequestTypes' BY <1>1 DEF RequestTypes, Goto
<1>5. task[p] # Idle /\ InStep(p, i) BY <1>1 DEF RequestsInv, Initiating, Idle
<1>6. intents[i] = None /\ provider[i] = "none" BY <1>5 DEF InStep, Initiating
<1>7. InStep(p, i)' BY <1>1, <1>2, <1>3, <1>6 DEF InStep
<1>8. ASSUME NEW q \in Sessions, task'[q] # Idle PROVE InStep(q, task[q].intent)'
  <2>1. CASE q = p BY <1>2, <1>7, <2>1
  <2>2. CASE q # p
    <3>1. task'[q] = task[q] /\ task[q] # Idle BY <1>2, <1>8, <2>2
    <3>2. task[q].intent # i /\ task[q].intent \in Intents BY <1>1, <2>2, <3>1, AloneOnIntent
    <3>3. InStep(q, task[q].intent) BY <1>1, <3>1 DEF RequestsInv
    <3>4. QED BY <1>1, <1>3, <3>1, <3>2, <3>3 DEF InStep
  <2>3. QED BY <2>1, <2>2
<1>9. ASSUME NEW q \in Sessions, NEW r \in Sessions, Initiating(q)', Initiating(r)',
             task'[q].intent = task'[r].intent
      PROVE  q = r
  <2>1. \A x \in Sessions : (Initiating(x)' <=> Initiating(x)) /\ (Initiating(x) => task'[x].intent = task[x].intent)
    BY <1>2 DEF Initiating
  <2>2. QED BY <1>1, <1>9, <2>1 DEF RequestsInv
<1>10. ASSUME NEW j \in Intents PROVE IntentAgrees(j)'
  <2>1. IntentAgrees(j) BY <1>1 DEF RequestsInv
  <2>2. QED BY <1>1, <1>3, <1>6, <2>1 DEF IntentAgrees
<1>11. RequestsInv' BY <1>1, <1>4, <1>8, <1>9, <1>10 DEF RequestsInv, Existing
<1>12. ~InEntry(p) BY DEF InEntry, Crediting, Debiting, At
<1>13. \A q \in Sessions : SameEntry(q) \/ (call[q] = None /\ \A u \in Users : lock[u] # q)
  <2>1. ASSUME NEW q \in Sessions, q # p PROVE SameEntry(q) BY <1>1, <1>2, <2>1, Bystander
  <2>2. call[p] = None /\ \A u \in Users : lock[u] # p BY <1>1, <1>12, NothingHeld
  <2>3. QED BY <2>1, <2>2
<1>14. EntriesInv' /\ RowsStay BY <1>1, <1>13, QuietEntries
<1>15. RowsInv' BY <1>1, <1>14, SameIntents
<1>16. QED BY <1>11, <1>14, <1>15 DEF Inv

LEMMA CreateDepositInv ==
  ASSUME Assumption, Inv, NEW p \in Sessions, CreateDeposit(p)
  PROVE  Inv'
<1>1. PICK result \in ProviderResults :
        /\ provider' = [provider EXCEPT ![task[p].intent] = IF result = "completed" THEN "paid" ELSE "created"]
        /\ Goto(p, [task[p] EXCEPT !.stage = "insert", !.result = result])
  BY DEF CreateDeposit
<1> DEFINE t == [task[p] EXCEPT !.stage = "insert", !.result = result]
<1>2. At(p, "initiateDeposit", "create") /\ UNCHANGED <<wvars, intents, intentLock, emitted>>
  BY DEF CreateDeposit
<1>3. task[p] \in InitTask BY <1>2 DEF Inv, RequestsInv, RequestTypes, At, Idle, HookTask
<1>4. result \in {"pending", "completed"} BY DEF Assumption, PaymentsAssumption
<1>5. /\ t \in InitTask /\ t.op = task[p].op /\ t.intent = task[p].intent
      /\ t.stage = "insert" /\ t.result = result
  BY <1>3, <1>4 DEF InitTask
<1>6. Initiating(p) /\ task[p].stage = "create" /\ t.op = "initiateDeposit" BY <1>2, <1>5 DEF Initiating, At
<1>7. Goto(p, t) BY <1>1
<1> HIDE DEF t
<1>8. QED BY <1>1, <1>2, <1>5, <1>6, <1>7, CreateInv

LEMMA CreatePayoutInv ==
  ASSUME Assumption, Inv, NEW p \in Sessions, CreatePayout(p)
  PROVE  Inv'
<1>1. PICK result \in ProviderResults : Goto(p, [task[p] EXCEPT !.stage = "debit", !.result = result])
  BY DEF CreatePayout
<1> DEFINE t == [task[p] EXCEPT !.stage = "debit", !.result = result]
<1>2. /\ At(p, "initiatePayout", "create") /\ UNCHANGED <<wvars, intents, intentLock, emitted>>
      /\ provider' = [provider EXCEPT ![task[p].intent] = "sent"]
  BY DEF CreatePayout
<1>3. task[p] \in InitTask BY <1>2 DEF Inv, RequestsInv, RequestTypes, At, Idle, HookTask
<1>4. result \in {"pending", "completed"} BY DEF Assumption, PaymentsAssumption
<1>5. /\ t \in InitTask /\ t.op = task[p].op /\ t.intent = task[p].intent /\ t.stage = "debit"
  BY <1>3, <1>4 DEF InitTask
<1>6. Initiating(p) /\ task[p].stage = "create" /\ t.op = "initiatePayout" BY <1>2, <1>5 DEF Initiating, At
<1>7. Goto(p, t) BY <1>1
<1> HIDE DEF t
<1>8. QED BY <1>2, <1>5, <1>6, <1>7, CreateInv

-----------------------------------------------------------------------------
\* What the provider tells changes its side of one intent, forward.
LEMMA TellsInv ==
  ASSUME Assumption, Inv, NEW i \in Intents, NEW s, NEW event, Tells(i, s, event),
         \/ provider[i] = "created" /\ i \in Existing /\ s = "paid" /\ event = "completed"
         \/ provider[i] = "paid" /\ s = "paid" /\ event = "completed"
         \/ provider[i] = "created" /\ i \in Existing /\ s = "failed" /\ event = "failed"
         \/ provider[i] = "sent" /\ s = "returned" /\ event = "failed"
         \/ provider[i] = "sent" /\ s = "arrived" /\ event = "completed"
  PROVE  Inv'
<1>1. /\ EntriesInv /\ RequestsInv /\ RowsInv /\ RequestTypes /\ WalletTypes
      /\ provider' = [provider EXCEPT ![i] = s] /\ emitted' = emitted \union {<<i, event>>}
      /\ UNCHANGED wvars /\ intents' = intents /\ intentLock' = intentLock /\ task' = task
  BY DEF Inv, RequestsInv, EntriesInv, Tells
<1>2. provider'[i] = s /\ \A j \in Intents : j # i => provider'[j] = provider[j] BY <1>1 DEF RequestTypes
<1>3. RequestTypes' BY <1>1 DEF RequestTypes
<1>4. ASSUME NEW q \in Sessions, task'[q] # Idle PROVE InStep(q, task[q].intent)'
  <2>1. task[q] \in InitTask \union HookTask /\ InStep(q, task[q].intent)
    BY <1>1, <1>4 DEF RequestsInv, RequestTypes
  <2>2. task[q].intent \in Intents BY <2>1 DEF InitTask, HookTask
  <2>3. CASE task[q].intent # i BY <1>1, <1>2, <2>1, <2>2, <2>3 DEF InStep
  <2>4. CASE task[q].intent = i BY <1>1, <1>2, <2>1, <2>4 DEF InStep, Existing
  <2>5. QED BY <2>3, <2>4
<1>5. ASSUME NEW j \in Intents PROVE IntentAgrees(j)'
  <2>1. IntentAgrees(j) BY <1>1 DEF RequestsInv
  <2>2. CASE j # i BY <1>1, <1>2, <2>1, <2>2 DEF IntentAgrees
  <2>3. CASE j = i BY <1>1, <1>2, <2>1, <2>3 DEF IntentAgrees
  <2>4. QED BY <2>2, <2>3
<1>6. RequestsInv' BY <1>1, <1>3, <1>4, <1>5 DEF RequestsInv, Initiating, Existing
<1>7. \A q \in Sessions : SameEntry(q) BY <1>1, Bystander
<1>8. EntriesInv' /\ RowsStay BY <1>1, <1>7, QuietEntries
<1>9. RowsInv' BY <1>1, <1>8, SameIntents
<1>10. QED BY <1>6, <1>8, <1>9 DEF Inv

LEMMA ProviderInv ==
  ASSUME Assumption, Inv, NEW i \in Intents,
         \/ CheckoutPaid(i) \/ PaidConfirmed(i) \/ CheckoutFailed(i)
         \/ PayoutReturned(i) \/ PayoutArrived(i)
  PROVE  Inv'
<1>1. provider[i] # "processing" BY DEF Inv, RequestsInv, RequestTypes
<1>2. CASE CheckoutPaid(i) BY <1>1, <1>2, TellsInv DEF CheckoutPaid
<1>3. CASE PaidConfirmed(i) BY <1>3, TellsInv DEF PaidConfirmed
<1>4. CASE CheckoutFailed(i) BY <1>1, <1>4, TellsInv DEF CheckoutFailed
<1>5. CASE PayoutReturned(i) BY <1>5, TellsInv DEF PayoutReturned
<1>6. CASE PayoutArrived(i) BY <1>6, TellsInv DEF PayoutArrived
<1>7. QED BY <1>2, <1>3, <1>4, <1>5, <1>6

-----------------------------------------------------------------------------
\* A new intent: the requests and the provider stay in agreement.
LEMMA NewIntentRequests ==
  ASSUME Assumption, RequestsInv, NEW p \in Sessions, Initiating(p),
         KeyFree(task[p].user, task[p].key),
         NEW row \in IntentRow, row.user = task[p].user, row.key = task[p].key,
         intents' = [intents EXCEPT ![task[p].intent] = row],
         \/ row.type = "deposit" /\ row.status # "completed"
            /\ provider[task[p].intent] \in {"created", "paid"}
         \/ row.type = "payout" /\ provider[task[p].intent] \in {"sent", "returned", "arrived"},
         NEW t \in Tasks, Goto(p, t), ~Initiating(p)', t # Idle => InStep(p, t.intent)',
         intentLock' \in [Intents -> Sessions \union {None}], intentLock' = intentLock,
         UNCHANGED <<provider, emitted>>
  PROVE  RequestsInv'
<1> DEFINE i == task[p].intent
<1>1. RequestTypes /\ task[p] \in InitTask /\ i \in Intents
  BY DEF RequestsInv, RequestTypes, Initiating, Idle, HookTask, InitTask
<1>2. task'[p] = t /\ \A q \in Sessions : q # p => task'[q] = task[q] BY <1>1 DEF RequestTypes, Goto
<1>3. intents'[i] = row /\ \A j \in Intents : j # i => intents'[j] = intents[j] BY <1>1 DEF RequestTypes
<1>4. row # None /\ intents[i] = None
  <2>1. row # None BY DEF Assumption
  <2>2. task[p] # Idle BY DEF Initiating, Idle
  <2>3. QED BY <2>1, <2>2 DEF RequestsInv, InStep, Initiating
<1>5. RequestTypes' BY <1>1, <1>2 DEF RequestTypes, Goto, Tasks
<1>6. ASSUME NEW q \in Sessions, task'[q] # Idle PROVE InStep(q, task[q].intent)'
  <2>1. CASE q = p BY <1>2, <1>6, <2>1
  <2>2. CASE q # p
    <3>1. task'[q] = task[q] /\ task[q] # Idle BY <1>2, <1>6, <2>2
    <3>2. task[q].intent # i /\ task[q].intent \in Intents BY <2>2, <3>1, AloneOnIntent
    <3>3. InStep(q, task[q].intent) BY <3>1 DEF RequestsInv
    <3>4. QED BY <1>3, <3>1, <3>2, <3>3 DEF InStep
  <2>3. QED BY <2>1, <2>2
<1>7. ASSUME NEW q \in Sessions, NEW r \in Sessions, Initiating(q)', Initiating(r)',
             task'[q].intent = task'[r].intent
      PROVE  q = r
  BY <1>2, <1>7 DEF RequestsInv, Initiating
<1>8. ASSUME NEW j \in Intents PROVE IntentAgrees(j)'
  <2>1. IntentAgrees(j) BY DEF RequestsInv
  <2>2. QED BY <1>3, <2>1 DEF IntentAgrees
<1>9. Existing' = Existing \union {i} BY <1>1, <1>3, <1>4 DEF Existing
<1>10. ASSUME NEW j \in Existing', NEW k \in Existing',
              intents'[j].user = intents'[k].user, intents'[j].key = intents'[k].key
       PROVE  j = k
  <2>1. i \notin Existing /\ Existing \subseteq Intents BY <1>4 DEF Existing
  <2>2. \A x \in Existing : intents'[x] = intents[x]
                            /\ ~(intents[x].user = row.user /\ intents[x].key = row.key)
    BY <1>3, <2>1 DEF KeyFree
  <2>3. QED BY <1>3, <1>9, <1>10, <2>2 DEF RequestsInv
<1>11. QED BY <1>5, <1>6, <1>7, <1>8, <1>10 DEF RequestsInv

LEMMA InsertDepositInv ==
  ASSUME Assumption, Inv, NEW p \in Sessions, InsertDeposit(p)
  PROVE  Inv'
<1> DEFINE i == task[p].intent
           row == NewIntent(task[p], "deposit", "pending")
           next == IF task[p].result = "completed"
                   THEN [op |-> "creditDeposit", stage |-> "check", intent |-> i, event |-> None]
                   ELSE Idle
<1>1. /\ EntriesInv /\ RequestsInv /\ RowsInv /\ RequestTypes /\ WalletTypes
      /\ At(p, "initiateDeposit", "insert") /\ KeyFree(task[p].user, task[p].key)
      /\ intents' = [intents EXCEPT ![i] = row] /\ Goto(p, next)
      /\ UNCHANGED wvars /\ intentLock' = intentLock /\ provider' = provider /\ emitted' = emitted
  BY DEF Inv, RequestsInv, EntriesInv, InsertDeposit, Finish
<1>2. task[p] \in InitTask /\ i \in Intents /\ task[p] # Idle
  BY <1>1 DEF RequestTypes, At, Idle, HookTask, InitTask
<1>3. /\ row \in IntentRow /\ row.user = task[p].user /\ row.key = task[p].key
      /\ row.type = "deposit" /\ row.status = "pending"
  BY <1>2 DEF NewIntent, InitTask, IntentRow
<1>0. next \in Tasks BY <1>2 DEF Tasks, HookTask
<1>t. PICK t \in Tasks : t = next BY <1>0
<1>4. task'[p] = t /\ \A q \in Sessions : q # p => task'[q] = task[q] BY <1>1, <1>t DEF RequestTypes, Goto
<1>5. intents'[i] = row /\ \A j \in Intents : j # i => intents'[j] = intents[j]
  BY <1>1, <1>2 DEF RequestTypes
<1>6. row # None BY <1>3 DEF Assumption
<1>7. /\ intents[i] = None /\ provider[i] \in {"created", "paid"}
      /\ task[p].result = "completed" => provider[i] = "paid"
  <2>1. InStep(p, i) BY <1>1, <1>2 DEF RequestsInv
  <2>2. QED BY <1>1, <2>1 DEF InStep, At
<1>8. Goto(p, t) BY <1>1, <1>t
<1>9. ~Initiating(p)' /\ ~InEntry(p)' /\ ~InEntry(p) /\ Initiating(p)
  BY <1>1, <1>4, <1>t DEF Initiating, InEntry, Crediting, Debiting, At, Idle
<1>10. t # Idle => InStep(p, t.intent)'
  <2>1. CASE task[p].result = "completed" BY <1>1, <1>3, <1>4, <1>5, <1>6, <1>7, <1>t, <2>1 DEF InStep
  <2>2. QED BY <1>t, <2>1
<1>11. RequestsInv'
  <2>1. intentLock' \in [Intents -> Sessions \union {None}] BY <1>1 DEF RequestTypes
  <2> HIDE DEF row, next
  <2>2. QED BY <1>1, <1>3, <1>7, <1>8, <1>9, <1>10, <2>1, NewIntentRequests
<1>12. ASSUME NEW q \in Sessions, q # p PROVE SameEntry(q)
  <2>1. Crediting(q) => intents'[task[q].intent] = intents[task[q].intent]
    <3>1. Crediting(q) => task[q] # Idle BY DEF Crediting, At, Idle
    <3>2. QED BY <1>1, <1>5, <1>9, <1>12, <3>1, AloneOnIntent
  <2>2. QED BY <1>4, <1>12, <2>1, Bystander
<1>13. \A q \in Sessions : SameEntry(q) \/ (call[q] = None /\ \A u \in Users : lock[u] # q)
  BY <1>1, <1>9, <1>12, NothingHeld
<1>14. EntriesInv' /\ RowsStay BY <1>1, <1>13, QuietEntries
<1>15. \A j \in Intents : /\ Deposited(j)' <=> Deposited(j)
                          /\ PaidOut(j)' <=> PaidOut(j)
                          /\ Deposited(j) => intents'[j].amount = intents[j].amount
  BY <1>3, <1>5, <1>7 DEF Deposited, PaidOut, Existing
<1>16. RowsInv' BY <1>1, <1>14, <1>15, SameRows
<1>17. QED BY <1>11, <1>14, <1>16 DEF Inv

\* A failed event changes a status that is not "completed".
LEMMA FailIntentInv ==
  ASSUME Assumption, Inv, NEW p \in Sessions, FailIntent(p)
  PROVE  Inv'
<1> DEFINE i == task[p].intent
<1>1. /\ EntriesInv /\ RequestsInv /\ RowsInv /\ RequestTypes /\ WalletTypes
      /\ At(p, "failIntent", "update") /\ intentLock[i] = None
      /\ intents' = [intents EXCEPT ![i].status = "failed"] /\ Goto(p, Idle)
      /\ UNCHANGED wvars /\ intentLock' = intentLock /\ provider' = provider /\ emitted' = emitted
  BY DEF Inv, RequestsInv, EntriesInv, FailIntent, Answer, Finish
<1>2. task[p] \in HookTask /\ i \in Intents /\ task[p] # Idle
  BY <1>1 DEF RequestTypes, At, Idle, HookTask, InitTask
<1>3. intents[i] # None /\ provider[i] \in {"failed", "returned"} /\ intents[i] \in IntentRow
  <2>1. InStep(p, i) BY <1>1, <1>2 DEF RequestsInv
  <2>2. intents[i] # None /\ provider[i] \in {"failed", "returned"} BY <1>1, <2>1 DEF InStep, At
  <2>3. QED BY <1>1, <1>2, <2>2 DEF RequestTypes
<1>4. task'[p] = Idle /\ \A q \in Sessions : q # p => task'[q] = task[q] BY <1>1 DEF RequestTypes, Goto
<1>5. /\ intents'[i] \in IntentRow /\ intents'[i] # None
      /\ intents'[i].user = intents[i].user /\ intents'[i].key = intents[i].key
      /\ intents'[i].type = intents[i].type /\ intents'[i].amount = intents[i].amount
      /\ intents'[i].status = "failed"
  <2>1. intents'[i] = [intents[i] EXCEPT !.status = "failed"] BY <1>1, <1>2 DEF RequestTypes
  <2>2. QED BY <1>3, <2>1 DEF IntentRow, Assumption
<1>6. \A j \in Intents : j # i => intents'[j] = intents[j] BY <1>1, <1>2 DEF RequestTypes
<1>7. RequestTypes' BY <1>1, <1>5 DEF RequestTypes, Goto
<1>8. ASSUME NEW q \in Sessions, task'[q] # Idle PROVE InStep(q, task[q].intent)'
  <2>1. q # p /\ task'[q] = task[q] /\ InStep(q, task[q].intent) BY <1>1, <1>4, <1>8 DEF RequestsInv
  <2>2. task[q].intent \in Intents BY <1>1, <1>8, <2>1 DEF RequestTypes, InitTask, HookTask
  <2>3. CASE task[q].intent = i BY <1>1, <1>3, <1>5, <2>1, <2>3 DEF InStep
  <2>4. CASE task[q].intent # i BY <1>1, <1>6, <2>1, <2>2, <2>4 DEF InStep
  <2>5. QED BY <2>3, <2>4
<1>9. ASSUME NEW q \in Sessions, NEW r \in Sessions, Initiating(q)', Initiating(r)',
             task'[q].intent = task'[r].intent
      PROVE  q = r
  BY <1>1, <1>4, <1>9 DEF RequestsInv, Initiating, Idle
<1>10. ASSUME NEW j \in Intents PROVE IntentAgrees(j)'
  <2>1. IntentAgrees(j) BY <1>1 DEF RequestsInv
  <2>2. QED BY <1>1, <1>3, <1>5, <1>6, <2>1 DEF IntentAgrees
<1>11. Existing' = Existing BY <1>2, <1>3, <1>5, <1>6 DEF Existing
<1>12. \A j \in Existing : intents'[j].user = intents[j].user /\ intents'[j].key = intents[j].key
  BY <1>5, <1>6 DEF Existing
<1>13. RequestsInv' BY <1>1, <1>7, <1>8, <1>9, <1>10, <1>11, <1>12 DEF RequestsInv
<1>14. ~InEntry(p) BY <1>1 DEF InEntry, Crediting, Debiting, At
<1>15. ASSUME NEW q \in Sessions, q # p PROVE SameEntry(q)
  <2>1. Crediting(q) => task[q].intent \in Intents
    BY <1>1 DEF Crediting, At, RequestTypes, Idle, InitTask, HookTask
  <2>2. QED BY <1>4, <1>5, <1>6, <1>15, <2>1, Bystander
<1>16. \A q \in Sessions : SameEntry(q) \/ (call[q] = None /\ \A u \in Users : lock[u] # q)
  BY <1>1, <1>14, <1>15, NothingHeld
<1>17. EntriesInv' /\ RowsStay BY <1>1, <1>16, QuietEntries
<1>18. intents[i].status # "completed" \/ intents[i].type # "deposit"
  BY <1>1, <1>2, <1>3 DEF RequestsInv, IntentAgrees
<1>19. \A j \in Intents : /\ Deposited(j)' <=> Deposited(j)
                          /\ PaidOut(j)' <=> PaidOut(j)
                          /\ Deposited(j) => intents'[j].amount = intents[j].amount
  BY <1>5, <1>6, <1>11, <1>18 DEF Deposited, PaidOut
<1>20. RowsInv' BY <1>1, <1>17, <1>19, SameRows
<1>21. QED BY <1>13, <1>17, <1>20 DEF Inv

-----------------------------------------------------------------------------
\* A ledger entry begins.
LEMMA LockAndCheckInv ==
  ASSUME Assumption, Inv, NEW p \in Sessions, LockAndCheck(p)
  PROVE  Inv'
<1> DEFINE i == task[p].intent
<1>1. /\ EntriesInv /\ RequestsInv /\ RowsInv /\ RequestTypes /\ WalletTypes
      /\ At(p, "creditDeposit", "check") /\ intentLock[i] = None /\ intents[i].status # "completed"
      /\ intentLock' = [intentLock EXCEPT ![i] = p]
      /\ W!Select(p, intents[i].user, intents[i].amount, <<"deposit", i>>)
      /\ Goto(p, [task[p] EXCEPT !.stage = "credit"])
      /\ intents' = intents /\ provider' = provider /\ emitted' = emitted
  BY DEF Inv, RequestsInv, EntriesInv, LockAndCheck
<1>2. task[p] \in HookTask /\ i \in Intents /\ task[p] # Idle
  BY <1>1 DEF RequestTypes, At, Idle, HookTask, InitTask
<1>3. intents[i] # None /\ intents[i].type = "deposit" /\ provider[i] = "paid" /\ intents[i] \in IntentRow
  <2>1. InStep(p, i) BY <1>1, <1>2 DEF RequestsInv
  <2>2. QED BY <1>1, <1>2, <2>1 DEF InStep, At, RequestTypes
<1>4. /\ task'[p] \in HookTask /\ task'[p].op = "creditDeposit" /\ task'[p].stage = "credit"
      /\ task'[p].intent = i
  <2>1. task'[p] = [task[p] EXCEPT !.stage = "credit"] BY <1>1 DEF RequestTypes, Goto
  <2>2. QED BY <1>1, <1>2, <2>1 DEF HookTask, At
<1>5. \A q \in Sessions : q # p => task'[q] = task[q] BY <1>1 DEF RequestTypes, Goto
<1>6. intentLock'[i] = p /\ \A j \in Intents : j # i => intentLock'[j] = intentLock[j]
  BY <1>1, <1>2 DEF RequestTypes
<1>7. RequestTypes'
  <2>1. [task[p] EXCEPT !.stage = "credit"] \in HookTask BY <1>2 DEF HookTask
  <2>2. QED BY <1>1, <2>1 DEF RequestTypes, Goto
<1>8. ASSUME NEW q \in Sessions, task'[q] # Idle PROVE InStep(q, task[q].intent)'
  <2>1. CASE q = p BY <1>1, <1>3, <1>4, <1>6, <2>1 DEF InStep
  <2>2. CASE q # p
    <3>1. task'[q] = task[q] /\ InStep(q, task[q].intent) BY <1>1, <1>5, <1>8, <2>2 DEF RequestsInv
    <3>2. task[q].intent \in Intents BY <1>1, <1>8, <3>1 DEF RequestTypes, InitTask, HookTask
    <3>3. q # None BY DEF Assumption
    <3>4. QED BY <1>1, <1>6, <3>1, <3>2, <3>3 DEF InStep
  <2>3. QED BY <2>1, <2>2
<1>9. ASSUME NEW q \in Sessions, NEW r \in Sessions, Initiating(q)', Initiating(r)',
             task'[q].intent = task'[r].intent
      PROVE  q = r
  BY <1>1, <1>4, <1>5, <1>9 DEF RequestsInv, Initiating
<1>10. \A j \in Intents : IntentAgrees(j)' BY <1>1 DEF RequestsInv, IntentAgrees
<1>11. RequestsInv' BY <1>1, <1>7, <1>8, <1>9, <1>10 DEF RequestsInv, Existing
<1>12. ~InEntry(p) BY <1>1 DEF InEntry, Crediting, Debiting, At
<1>13. /\ InEntry(p)' /\ EntryUser(p)' = intents[i].user /\ EntryTag(p)' = <<"deposit", i>>
       /\ EntryAmount(p)' = intents[i].amount
  BY <1>1, <1>4 DEF InEntry, Crediting, At, EntryUser, EntryTag, EntryAmount
<1>14. ASSUME NEW q \in Sessions \ {p} PROVE SameEntry(q) BY <1>1, <1>5, Bystander
<1>15. intents[i].user \in Users /\ intents[i].amount \in Int /\ <<"deposit", i>> \in Tags
  BY <1>2, <1>3 DEF IntentRow, Tags, Assumption, PaymentsAssumption
<1>16. EntriesInv' /\ RowsStay BY <1>1, <1>12, <1>13, <1>14, <1>15, SelectEntries
<1>17. RowsInv' BY <1>1, <1>16, SameIntents
<1>18. QED BY <1>11, <1>16, <1>17 DEF Inv

LEMMA DebitPayoutInv ==
  ASSUME Assumption, Inv, NEW p \in Sessions, DebitPayout(p)
  PROVE  Inv'
<1> DEFINE i == task[p].intent
<1>1. /\ EntriesInv /\ RequestsInv /\ RowsInv /\ RequestTypes /\ WalletTypes
      /\ At(p, "initiatePayout", "debit")
      /\ W!Select(p, task[p].user, 0 - task[p].amount, <<"withdrawal", i>>)
      /\ Goto(p, [task[p] EXCEPT !.stage = "insert"])
      /\ intents' = intents /\ provider' = provider /\ emitted' = emitted /\ intentLock' = intentLock
  BY DEF Inv, RequestsInv, EntriesInv, DebitPayout, pvars
<1>2. task[p] \in InitTask /\ i \in Intents /\ task[p] # Idle
  BY <1>1 DEF RequestTypes, At, Idle, HookTask, InitTask
<1>3. InStep(p, i) BY <1>1, <1>2 DEF RequestsInv
<1>4. [task[p] EXCEPT !.stage = "insert"] \in InitTask BY <1>2 DEF InitTask
<1>5. /\ task'[p].op = "initiatePayout" /\ task'[p].stage = "insert" /\ task'[p].intent = i
      /\ task'[p].user = task[p].user /\ task'[p].amount = task[p].amount
  <2>1. task'[p] = [task[p] EXCEPT !.stage = "insert"] BY <1>1 DEF RequestTypes, Goto
  <2>2. QED BY <1>1, <1>2, <2>1 DEF InitTask, At
<1>6. \A q \in Sessions : q # p => task'[q] = task[q] BY <1>1 DEF RequestTypes, Goto
<1>7. RequestTypes' BY <1>1, <1>4 DEF RequestTypes, Goto
<1>8. ASSUME NEW q \in Sessions, task'[q] # Idle PROVE InStep(q, task[q].intent)'
  <2>1. CASE q = p BY <1>1, <1>3, <1>5, <2>1 DEF InStep, At
  <2>2. CASE q # p BY <1>1, <1>6, <1>8, <2>2 DEF RequestsInv, InStep
  <2>3. QED BY <2>1, <2>2
<1>9. ASSUME NEW q \in Sessions, NEW r \in Sessions, Initiating(q)', Initiating(r)',
             task'[q].intent = task'[r].intent
      PROVE  q = r
  BY <1>1, <1>5, <1>6, <1>9 DEF RequestsInv, Initiating, At
<1>10. \A j \in Intents : IntentAgrees(j)' BY <1>1 DEF RequestsInv, IntentAgrees
<1>11. RequestsInv' BY <1>1, <1>7, <1>8, <1>9, <1>10 DEF RequestsInv, Existing
<1>12. ~InEntry(p) BY <1>1 DEF InEntry, Crediting, Debiting, At
<1>13. /\ InEntry(p)' /\ EntryUser(p)' = task[p].user /\ EntryTag(p)' = <<"withdrawal", i>>
       /\ EntryAmount(p)' = 0 - task[p].amount
  BY <1>5 DEF InEntry, Crediting, Debiting, At, EntryUser, EntryTag, EntryAmount
<1>14. ASSUME NEW q \in Sessions \ {p} PROVE SameEntry(q) BY <1>1, <1>6, Bystander
<1>15. task[p].user \in Users /\ 0 - task[p].amount \in Int /\ <<"withdrawal", i>> \in Tags
  BY <1>2 DEF InitTask, Tags, Assumption, PaymentsAssumption
<1>16. EntriesInv' /\ RowsStay BY <1>1, <1>12, <1>13, <1>14, <1>15, SelectEntries
<1>17. RowsInv' BY <1>1, <1>16, SameIntents
<1>18. QED BY <1>11, <1>16, <1>17 DEF Inv

LEMMA LedgerStepInv ==
  ASSUME Assumption, Inv, NEW p \in Sessions, LedgerStep(p)
  PROVE  Inv'
<1>1. /\ EntriesInv /\ RequestsInv /\ RowsInv /\ WalletTypes
      /\ W!Update(p) \/ W!Insert(p)
      /\ intents' = intents /\ provider' = provider /\ emitted' = emitted
      /\ intentLock' = intentLock /\ task' = task
  BY DEF Inv, EntriesInv, LedgerStep, pvars
<1>2. \A q \in Sessions : SameEntry(q) BY <1>1, Bystander
<1>3. EntriesInv' /\ RowsStay BY <1>1, <1>2, UpdateEntries, InsertEntries
<1>4. RowsInv' BY <1>1, <1>3, SameIntents
<1>5. RequestsInv'
  BY <1>1 DEF RequestsInv, RequestTypes, InStep, Initiating, IntentAgrees, Existing
<1>6. QED BY <1>3, <1>4, <1>5 DEF Inv

\* A request ends, and its transaction is rolled back.
LEMMA FailInv ==
  ASSUME Assumption, Inv, NEW p \in Sessions, Fail(p)
  PROVE  Inv'
<1>1. /\ EntriesInv /\ RequestsInv /\ RowsInv /\ RequestTypes /\ WalletTypes
      /\ IF W!Holds(p) = {} /\ call[p] = None THEN UNCHANGED wvars ELSE W!Rollback(p)
      /\ intentLock' = [i \in Intents |-> IF intentLock[i] = p THEN None ELSE intentLock[i]]
      /\ Goto(p, Idle) /\ intents' = intents /\ provider' = provider /\ emitted' = emitted
  BY DEF Inv, RequestsInv, EntriesInv, Fail, Finish
<1>2. task'[p] = Idle /\ \A q \in Sessions : q # p => task'[q] = task[q] BY <1>1 DEF RequestTypes, Goto
<1>3. RequestTypes' BY <1>1 DEF RequestTypes, Goto
<1>4. ASSUME NEW q \in Sessions, task'[q] # Idle PROVE InStep(q, task[q].intent)'
  <2>1. q # p /\ task'[q] = task[q] /\ InStep(q, task[q].intent) BY <1>1, <1>2, <1>4 DEF RequestsInv
  <2>2. task[q].intent \in Intents BY <1>1, <1>4, <2>1 DEF RequestTypes, InitTask, HookTask
  <2>3. intentLock[task[q].intent] = q => intentLock'[task[q].intent] = q BY <1>1, <2>1, <2>2
  <2>4. QED BY <1>1, <2>1, <2>3 DEF InStep
<1>5. ASSUME NEW q \in Sessions, NEW r \in Sessions, Initiating(q)', Initiating(r)',
             task'[q].intent = task'[r].intent
      PROVE  q = r
  BY <1>1, <1>2, <1>5 DEF RequestsInv, Initiating, Idle
<1>6. \A j \in Intents : IntentAgrees(j)' BY <1>1 DEF RequestsInv, IntentAgrees
<1>7. RequestsInv' BY <1>1, <1>3, <1>4, <1>5, <1>6 DEF RequestsInv, Existing
<1>8. ASSUME NEW q \in Sessions \ {p} PROVE SameEntry(q) BY <1>1, <1>2, Bystander
<1>9. EntriesInv' /\ RowsStay
  <2>1. CASE W!Holds(p) = {} /\ call[p] = None
    <3>1. UNCHANGED wvars /\ \A u \in Users : lock[u] # p BY <1>1, <2>1 DEF W!Holds
    <3>2. \A q \in Sessions : SameEntry(q) \/ (call[q] = None /\ \A u \in Users : lock[u] # q)
      BY <1>8, <2>1, <3>1
    <3>3. QED BY <1>1, <3>1, <3>2, QuietEntries
  <2>2. CASE ~(W!Holds(p) = {} /\ call[p] = None) BY <1>1, <1>8, <2>2, RollbackEntries
  <2>3. QED BY <2>1, <2>2
<1>10. RowsInv' BY <1>1, <1>9, SameIntents
<1>11. QED BY <1>7, <1>9, <1>10 DEF Inv

-----------------------------------------------------------------------------
\* The committed entry is the row its intent needs.
LEMMA NewRow ==
  ASSUME WalletTypes, RowsInv, NEW u \in Users, NEW i \in Intents, NEW type,
         ledger' = ledger, committed' = [committed EXCEPT ![u] = committed[u] + 1],
         ledger[u][committed[u] + 1].tag = <<type, i>>,
         ~Deposited(i) /\ ~PaidOut(i),
         \/ /\ type = "deposit" /\ Deposited(i)' /\ ~PaidOut(i)'
            /\ ledger[u][committed[u] + 1].amount = intents'[i].amount
         \/ type = "withdrawal" /\ PaidOut(i)' /\ ~Deposited(i)',
         \A j \in Intents : j # i => /\ Deposited(j)' <=> Deposited(j)
                                     /\ PaidOut(j)' <=> PaidOut(j)
                                     /\ intents'[j] = intents[j]
  PROVE  RowsInv'
<1> DEFINE n == committed[u] + 1
<1>1. \A v \in Users : committed[v] \in Nat BY DEF WalletTypes
<1>2. \A v \in Users : 1..committed[v] \subseteq 1..committed'[v] /\ committed'[u] = n
  BY <1>1 DEF WalletTypes
<1>3. n \in 1..committed'[u] BY <1>1, <1>2
<1>4. \A j, ty : Movements(j, ty)' = Movements(j, ty) \union (IF <<type, i>> = <<ty, j>> THEN {<<u, n>>} ELSE {})
  BY MoreMovements
<1>5. ASSUME NEW j \in Intents PROVE CreditRow(j)'
  <2>1. CreditRow(j) BY DEF RowsInv
  <2>2. CASE j = i /\ type = "deposit"
    <3>1. Movements(j, "deposit")' = {<<u, n>>} BY <1>4, <2>1, <2>2 DEF CreditRow
    <3>2. ledger'[u][n].amount = intents'[j].amount /\ Deposited(j)' BY <2>2
    <3>3. QED BY <1>3, <3>1, <3>2 DEF CreditRow
  <2>3. CASE ~(j = i /\ type = "deposit")
    <3>1. Movements(j, "deposit")' = Movements(j, "deposit") BY <1>4, <2>3
    <3>2. (Deposited(j)' <=> Deposited(j)) /\ (Deposited(j) => intents'[j] = intents[j]) BY <2>3
    <3>3. CASE Deposited(j)
      <4>1. PICK v \in Users : \E m \in 1..committed[v] :
              Movements(j, "deposit") = {<<v, m>>} /\ ledger[v][m].amount = intents[j].amount
        BY <2>1, <3>3 DEF CreditRow
      <4>2. 1..committed[v] \subseteq 1..committed'[v] BY <1>2
      <4>3. QED BY <3>1, <3>2, <3>3, <4>1, <4>2 DEF CreditRow
    <3>4. CASE ~Deposited(j) BY <2>1, <3>1, <3>2, <3>4 DEF CreditRow
    <3>5. QED BY <3>3, <3>4
  <2>4. QED BY <2>2, <2>3
<1>6. ASSUME NEW j \in Intents PROVE DebitRow(j)'
  <2>1. DebitRow(j) BY DEF RowsInv
  <2>2. CASE j = i /\ type = "withdrawal"
    <3>1. Movements(j, "withdrawal")' = {<<u, n>>} BY <1>4, <2>1, <2>2 DEF DebitRow
    <3>2. QED BY <2>2, <3>1 DEF DebitRow
  <2>3. CASE ~(j = i /\ type = "withdrawal")
    <3>1. Movements(j, "withdrawal")' = Movements(j, "withdrawal") BY <1>4, <2>3
    <3>2. PaidOut(j)' <=> PaidOut(j) BY <2>3
    <3>3. QED BY <2>1, <3>1, <3>2 DEF DebitRow
  <2>4. QED BY <2>2, <2>3
<1>7. QED BY <1>5, <1>6 DEF RowsInv

LEMMA CommitPayoutInv ==
  ASSUME Assumption, Inv, NEW p \in Sessions, CommitPayout(p)
  PROVE  Inv'
<1> DEFINE i == task[p].intent
           row == NewIntent(task[p], "payout", task[p].result)
           u == EntryUser(p)
<1>1. /\ EntriesInv /\ RequestsInv /\ RowsInv /\ RequestTypes /\ WalletTypes
      /\ At(p, "initiatePayout", "insert") /\ KeyFree(task[p].user, task[p].key) /\ W!Commit(p)
      /\ intents' = [intents EXCEPT ![i] = row] /\ Goto(p, Idle)
      /\ intentLock' = intentLock /\ provider' = provider /\ emitted' = emitted
  BY DEF Inv, RequestsInv, EntriesInv, CommitPayout, Finish
<1>2. task[p] \in InitTask /\ i \in Intents /\ task[p] # Idle
  BY <1>1 DEF RequestTypes, At, Idle, HookTask, InitTask
<1>3. /\ row \in IntentRow /\ row.user = task[p].user /\ row.key = task[p].key /\ row.type = "payout"
  BY <1>2 DEF NewIntent, InitTask, IntentRow
<1>4. task'[p] = Idle /\ \A q \in Sessions : q # p => task'[q] = task[q] BY <1>1 DEF RequestTypes, Goto
<1>5. intents'[i] = row /\ \A j \in Intents : j # i => intents'[j] = intents[j]
  BY <1>1, <1>2 DEF RequestTypes
<1>6. row # None BY <1>3 DEF Assumption
<1>7. intents[i] = None /\ provider[i] \in {"sent", "returned", "arrived"}
  <2>1. InStep(p, i) BY <1>1, <1>2 DEF RequestsInv
  <2>2. QED BY <1>1, <2>1 DEF InStep, At
<1>8. Initiating(p) /\ ~Initiating(p)' /\ Idle \in Tasks
  BY <1>1, <1>4 DEF Initiating, At, Idle, Tasks
<1>9. RequestsInv'
  <2>1. intentLock' \in [Intents -> Sessions \union {None}] BY <1>1 DEF RequestTypes
  <2> HIDE DEF row
  <2>2. QED BY <1>1, <1>3, <1>7, <1>8, <2>1, NewIntentRequests
<1>10. InEntry(p) /\ EntryTag(p) = <<"withdrawal", i>>
  BY <1>1 DEF InEntry, Crediting, Debiting, At, EntryTag
<1>11. ASSUME NEW q \in Sessions \ {p} PROVE SameEntry(q)
  <2>1. Crediting(q) => intents'[task[q].intent] = intents[task[q].intent]
    <3>1. Crediting(q) => task[q] # Idle BY DEF Crediting, At, Idle
    <3>2. QED BY <1>1, <1>5, <1>8, <3>1, AloneOnIntent
  <2>2. QED BY <1>4, <2>1, Bystander
<1>12. /\ EntriesInv' /\ ledger' = ledger /\ u \in Users
       /\ committed' = [committed EXCEPT ![u] = committed[u] + 1]
       /\ ledger[u][committed[u] + 1].tag = <<"withdrawal", i>>
  BY <1>1, <1>10, <1>11, CommitEntries
<1>k. PICK k \in Intents : k = i BY <1>2
<1>13. ~Deposited(k) /\ ~PaidOut(k) /\ PaidOut(k)' /\ ~Deposited(k)'
  BY <1>3, <1>5, <1>6, <1>7, <1>k DEF Deposited, PaidOut, Existing
<1>14. \A j \in Intents : j # k => /\ Deposited(j)' <=> Deposited(j)
                                   /\ PaidOut(j)' <=> PaidOut(j)
                                   /\ intents'[j] = intents[j]
  BY <1>5, <1>k DEF Deposited, PaidOut, Existing
<1>15. RowsInv'
  <2>1. ledger[u][committed[u] + 1].tag = <<"withdrawal", k>> BY <1>12, <1>k
  <2> HIDE DEF u, i
  <2>2. QED BY <1>1, <1>12, <1>13, <1>14, <2>1, NewRow
<1>16. QED BY <1>9, <1>12, <1>15 DEF Inv

LEMMA CommitCreditInv ==
  ASSUME Assumption, Inv, NEW p \in Sessions, CommitCredit(p)
  PROVE  Inv'
<1> DEFINE i == task[p].intent
           u == EntryUser(p)
<1>1. /\ EntriesInv /\ RequestsInv /\ RowsInv /\ RequestTypes /\ WalletTypes
      /\ At(p, "creditDeposit", "credit") /\ W!Commit(p)
      /\ intents' = [intents EXCEPT ![i].status = "completed"]
      /\ intentLock' = [intentLock EXCEPT ![i] = None] /\ Goto(p, Idle)
      /\ provider' = provider /\ emitted' = emitted
  BY DEF Inv, RequestsInv, EntriesInv, CommitCredit, Answer, Finish
<1>2. task[p] \in HookTask /\ i \in Intents /\ task[p] # Idle
  BY <1>1 DEF RequestTypes, At, Idle, HookTask, InitTask
<1>3. /\ intents[i] # None /\ intents[i].type = "deposit" /\ intents[i].status # "completed"
      /\ provider[i] = "paid" /\ intentLock[i] = p /\ intents[i] \in IntentRow
  <2>1. InStep(p, i) BY <1>1, <1>2 DEF RequestsInv
  <2>2. QED BY <1>1, <1>2, <2>1 DEF InStep, At, RequestTypes
<1>4. task'[p] = Idle /\ \A q \in Sessions : q # p => task'[q] = task[q] BY <1>1 DEF RequestTypes, Goto
<1>5. /\ intents'[i] \in IntentRow /\ intents'[i] # None
      /\ intents'[i].user = intents[i].user /\ intents'[i].key = intents[i].key
      /\ intents'[i].type = "deposit" /\ intents'[i].amount = intents[i].amount
      /\ intents'[i].status = "completed"
  <2>1. intents'[i] = [intents[i] EXCEPT !.status = "completed"] BY <1>1, <1>2 DEF RequestTypes
  <2>2. QED BY <1>3, <2>1 DEF IntentRow, Assumption
<1>6. /\ \A j \in Intents : j # i => intents'[j] = intents[j] /\ intentLock'[j] = intentLock[j]
      /\ intentLock'[i] = None
  BY <1>1, <1>2 DEF RequestTypes
<1>7. RequestTypes' BY <1>1, <1>5 DEF RequestTypes, Goto
<1>8. ASSUME NEW q \in Sessions, task'[q] # Idle PROVE InStep(q, task[q].intent)'
  <2>1. q # p /\ task'[q] = task[q] /\ InStep(q, task[q].intent) BY <1>1, <1>4, <1>8 DEF RequestsInv
  <2>2. task[q].intent \in Intents BY <1>1, <1>8, <2>1 DEF RequestTypes, InitTask, HookTask
  <2>3. CASE task[q].intent = i BY <1>1, <1>3, <1>5, <2>1, <2>3 DEF InStep
  <2>4. CASE task[q].intent # i BY <1>1, <1>6, <2>1, <2>2, <2>4 DEF InStep
  <2>5. QED BY <2>3, <2>4
<1>9. ASSUME NEW q \in Sessions, NEW r \in Sessions, Initiating(q)', Initiating(r)',
             task'[q].intent = task'[r].intent
      PROVE  q = r
  BY <1>1, <1>4, <1>9 DEF RequestsInv, Initiating, Idle
<1>10. ASSUME NEW j \in Intents PROVE IntentAgrees(j)'
  <2>1. IntentAgrees(j) BY <1>1 DEF RequestsInv
  <2>2. QED BY <1>1, <1>3, <1>5, <1>6, <2>1 DEF IntentAgrees
<1>11. Existing' = Existing BY <1>2, <1>3, <1>5, <1>6 DEF Existing
<1>12. \A j \in Existing : intents'[j].user = intents[j].user /\ intents'[j].key = intents[j].key
  BY <1>5, <1>6 DEF Existing
<1>13. RequestsInv' BY <1>1, <1>7, <1>8, <1>9, <1>10, <1>11, <1>12 DEF RequestsInv
<1>14. InEntry(p) /\ EntryTag(p) = <<"deposit", i>> /\ EntryAmount(p) = intents[i].amount
  BY <1>1 DEF InEntry, Crediting, At, EntryTag, EntryAmount
<1>15. ASSUME NEW q \in Sessions \ {p} PROVE SameEntry(q)
  <2>1. Crediting(q) => task[q].intent \in Intents
    BY <1>1 DEF Crediting, At, RequestTypes, Idle, InitTask, HookTask
  <2>2. QED BY <1>4, <1>5, <1>6, <2>1, Bystander
<1>16. /\ EntriesInv' /\ ledger' = ledger /\ u \in Users
       /\ committed' = [committed EXCEPT ![u] = committed[u] + 1]
       /\ ledger[u][committed[u] + 1].tag = <<"deposit", i>>
       /\ ledger[u][committed[u] + 1].amount = intents[i].amount
  BY <1>1, <1>14, <1>15, CommitEntries
<1>k. PICK k \in Intents : k = i BY <1>2
<1>17. ~Deposited(k) /\ ~PaidOut(k) /\ Deposited(k)' /\ ~PaidOut(k)'
  BY <1>3, <1>5, <1>k DEF Deposited, PaidOut, Existing
<1>18. \A j \in Intents : j # k => /\ Deposited(j)' <=> Deposited(j)
                                   /\ PaidOut(j)' <=> PaidOut(j)
                                   /\ intents'[j] = intents[j]
  BY <1>6, <1>11, <1>k DEF Deposited, PaidOut
<1>19. RowsInv'
  <2>1. /\ ledger[u][committed[u] + 1].tag = <<"deposit", k>>
        /\ ledger[u][committed[u] + 1].amount = intents'[k].amount
    BY <1>5, <1>16, <1>k
  <2> HIDE DEF u, i
  <2>2. QED BY <1>1, <1>16, <1>17, <1>18, <2>1, NewRow
<1>20. QED BY <1>13, <1>16, <1>19 DEF Inv

-----------------------------------------------------------------------------
LEMMA InitInv ==
  ASSUME Assumption, Init
  PROVE  Inv
<1>1. /\ W!Init /\ intents = [i \in Intents |-> None] /\ intentLock = [i \in Intents |-> None]
      /\ provider = [i \in Intents |-> "none"] /\ emitted = {}
      /\ task = [p \in Sessions |-> Idle]
  BY DEF Init
<1>2. EntriesInv
  <2>1. WalletTypes BY <1>1 DEF W!Init, WalletTypes, Assumption
  <2>2. \A u \in Users : HolderWrites(u) BY <1>1 DEF W!Init, HolderWrites
  <2>3. \A p \in Sessions : CallWrites(p) BY <1>1 DEF W!Init, CallWrites
  <2>4. QED BY <2>1, <2>2, <2>3 DEF EntriesInv
<1>3. RequestsInv
  BY <1>1 DEF RequestsInv, RequestTypes, Initiating, Idle, IntentAgrees, Existing
<1>4. RowsInv
  <2>1. \A u \in Users : committed[u] = 0 BY <1>1 DEF W!Init
  <2>2. \A i, type : Movements(i, type) = {} BY <2>1, MovementsAre
  <2>3. \A i \in Intents : ~Deposited(i) /\ ~PaidOut(i) BY <1>1 DEF Deposited, PaidOut, Existing
  <2>4. QED BY <2>2, <2>3 DEF RowsInv, CreditRow, DebitRow
<1>5. QED BY <1>2, <1>3, <1>4 DEF Inv

LEMMA NextInv ==
  ASSUME Assumption, Inv, [Next]_vars
  PROVE  Inv'
<1>1. ASSUME NEW p \in Sessions, Proceed(p) PROVE Inv'
  <2>1. CASE CreateDeposit(p) BY <2>1, CreateDepositInv
  <2>2. CASE InsertDeposit(p) BY <2>2, InsertDepositInv
  <2>3. CASE AlreadyCredited(p) BY <2>3, AlreadyCreditedInv
  <2>4. CASE LockAndCheck(p) BY <2>4, LockAndCheckInv
  <2>5. CASE CommitCredit(p) BY <2>5, CommitCreditInv
  <2>6. CASE CreatePayout(p) BY <2>6, CreatePayoutInv
  <2>7. CASE DebitPayout(p) BY <2>7, DebitPayoutInv
  <2>8. CASE CommitPayout(p) BY <2>8, CommitPayoutInv
  <2>9. CASE FailIntent(p) BY <2>9, FailIntentInv
  <2>10. CASE LedgerStep(p) BY <2>10, LedgerStepInv
  <2>11. CASE Reject(p) BY <2>11, FailInv DEF Reject
  <2>12. QED BY <1>1, <2>1, <2>2, <2>3, <2>4, <2>5, <2>6, <2>7, <2>8, <2>9, <2>10, <2>11 DEF Proceed
<1>2. ASSUME NEW p \in Sessions, Abort(p) PROVE Inv' BY <1>2, FailInv DEF Abort
<1>3. CASE UNCHANGED vars
  <2>1. UNCHANGED <<wvars, intents, intentLock, provider, emitted, task>> BY <1>3 DEF vars, pvars
  <2>2. EntriesInv /\ RequestsInv /\ RowsInv /\ WalletTypes BY DEF Inv, EntriesInv
  <2>3. \A q \in Sessions : SameEntry(q) BY <2>1, Bystander
  <2>4. EntriesInv' /\ RowsStay BY <2>1, <2>2, <2>3, QuietEntries
  <2>5. RowsInv' BY <2>1, <2>2, <2>4, SameIntents
  <2>6. RequestsInv'
    BY <2>1, <2>2 DEF RequestsInv, RequestTypes, InStep, Initiating, IntentAgrees, Existing
  <2>7. QED BY <2>4, <2>5, <2>6 DEF Inv
<1>4. QED BY <1>1, <1>2, <1>3, RequestInv, DeliverInv, ProviderInv DEF Next

LEMMA Invariance ==
  ASSUME Assumption
  PROVE  Spec => []Inv
<1>1. Init => Inv BY InitInv
<1>2. Inv /\ [Next]_vars => Inv' BY NextInv
<1>3. QED BY <1>1, <1>2, PTL DEF Spec

\* How many movements an intent has.
LEMMA MovementCounts ==
  ASSUME Inv, NEW i \in Intents
  PROVE  /\ Cardinality(Movements(i, "deposit")) = IF Deposited(i) THEN 1 ELSE 0
         /\ Cardinality(Movements(i, "withdrawal")) = IF PaidOut(i) THEN 1 ELSE 0
<1>1. CreditRow(i) /\ DebitRow(i) BY DEF Inv, RowsInv
<1>2. QED BY <1>1, FS_EmptySet, FS_Singleton DEF CreditRow, DebitRow

\* A deposit is completed exactly when its amount was credited, once, and a
\* payout intent exists exactly when it was debited, once (creditDeposit,
\* initiatePayout): for any webhooks repeated, raced or cut short.
THEOREM IntentsHaveTheirRows == ASSUME Assumption PROVE Spec => []LedgerMatchesIntents
<1>1. Inv => LedgerMatchesIntents
  <2>1. SUFFICES ASSUME Inv, NEW i \in Intents
                 PROVE  /\ TimesCredited(i) =
                             IF i \in Existing /\ intents[i].type = "deposit" /\ intents[i].status = "completed"
                             THEN 1 ELSE 0
                        /\ Cardinality(Movements(i, "withdrawal")) =
                             IF i \in Existing /\ intents[i].type = "payout" THEN 1 ELSE 0
                        /\ \A r \in Movements(i, "deposit") : ledger[r[1]][r[2]].amount = intents[i].amount
    BY DEF LedgerMatchesIntents
  <2>2. TimesCredited(i) = IF Deposited(i) THEN 1 ELSE 0 BY <2>1, MovementCounts DEF TimesCredited
  <2>3. Cardinality(Movements(i, "withdrawal")) = IF PaidOut(i) THEN 1 ELSE 0 BY <2>1, MovementCounts
  <2>4. \A r \in Movements(i, "deposit") : ledger[r[1]][r[2]].amount = intents[i].amount
    BY <2>1 DEF Inv, RowsInv, CreditRow
  <2>5. QED BY <2>2, <2>3, <2>4 DEF Deposited, PaidOut
<1>2. QED BY <1>1, Invariance, PTL

\* However often a client repeats a request with one key, the wallet moves at
\* most once (findIntentByKey and the unique index on user_id, idempotency_key).
THEOREM OneMovement == ASSUME Assumption PROVE Spec => []OneMovementPerKey
<1>1. Inv => OneMovementPerKey
  <2> DEFINE Same(u, key) == {j \in Existing : intents[j].user = u /\ intents[j].key = key}
             Both(i) == Movements(i, "deposit") \union Movements(i, "withdrawal")
             All(u, key) == UNION {Both(i) : i \in Same(u, key)}
  <2>1. SUFFICES ASSUME Inv, NEW u \in Users, NEW key \in Keys
                 PROVE  Cardinality(All(u, key)) <= 1
    BY DEF OneMovementPerKey
  <2>2. All(u, key) = {} \/ \E r : All(u, key) = {r}
    <3>1. CASE Same(u, key) = {}
      <4>1. All(u, key) = {} BY <3>1
      <4>2. QED BY <4>1
    <3>2. CASE Same(u, key) # {}
      <4>1. PICK i : i \in Same(u, key) BY <3>2
      <4>2. \A j \in Same(u, key) : j = i BY <2>1, <4>1 DEF Inv, RequestsInv
      <4>3. All(u, key) = Both(i) BY <4>1, <4>2
      <4>4. i \in Intents /\ ~(Deposited(i) /\ PaidOut(i)) BY <4>1 DEF Existing, Deposited, PaidOut
      <4>5. CreditRow(i) /\ DebitRow(i) BY <2>1, <4>4 DEF Inv, RowsInv
      <4>6. Movements(i, "deposit") = {} \/ \E r : Movements(i, "deposit") = {r} BY <4>5 DEF CreditRow
      <4>7. Movements(i, "withdrawal") = {} \/ \E r : Movements(i, "withdrawal") = {r} BY <4>5 DEF DebitRow
      <4>8. Movements(i, "deposit") = {} \/ Movements(i, "withdrawal") = {}
        BY <4>4, <4>5 DEF CreditRow, DebitRow
      <4>9. Both(i) = {} \/ \E r : Both(i) = {r} BY <4>6, <4>7, <4>8
      <4>10. QED BY <4>3, <4>9
    <3>3. QED BY <3>1, <3>2
  <2> HIDE DEF All
  <2>3. Cardinality(All(u, key)) \in {0, 1} BY <2>2, FS_EmptySet, FS_Singleton
  <2>4. QED BY <2>3
<1>2. QED BY <1>1, Invariance, PTL

-----------------------------------------------------------------------------
\* What the wallet holds is never negative (the check before the UPDATE), and
\* only an event the provider has sent is processed or answered.
MoneyTypes ==
  /\ balance \in [Users -> Nat] /\ written \in [Users -> Nat]
  /\ \A u \in Users : \A n \in 1..Len(ledger[u]) : ledger[u][n].after \in Nat
  /\ \A p \in Sessions :
       call[p] # None /\ call[p].step = "insert" => call[p].wallet + call[p].amount \in Nat

Told(p) == task[p].op \in {"creditDeposit", "failIntent"} => task[p].event \in emitted \union {None}
EventTypes ==
  /\ answered \subseteq emitted /\ emitted \subseteq Events
  /\ \A p \in Sessions : Told(p)

LEMMA QuietMoney ==
  ASSUME MoneyTypes, UNCHANGED wvars
  PROVE  MoneyTypes'
BY DEF MoneyTypes, wvars

LEMMA SelectMoney ==
  ASSUME WalletTypes, MoneyTypes, NEW p \in Sessions, NEW u, NEW amount, NEW tag,
         W!Select(p, u, amount, tag)
  PROVE  MoneyTypes'
<1> DEFINE c == [user |-> u, amount |-> amount, tag |-> tag, wallet |-> W!View(p, u), step |-> "update"]
<1>1. call' = [call EXCEPT ![p] = c] /\ UNCHANGED <<balance, written, ledger>> BY DEF W!Select
<1>2. call'[p].step # "insert" /\ \A q \in Sessions : q # p => call'[q] = call[q]
  BY <1>1 DEF WalletTypes
<1>3. QED BY <1>1, <1>2 DEF MoneyTypes

LEMMA UpdateMoney ==
  ASSUME Assumption, WalletTypes, MoneyTypes, NEW p \in Sessions, W!Update(p)
  PROVE  MoneyTypes'
<1> DEFINE c == call[p]
<1>1. /\ c # None /\ c.wallet + c.amount >= 0
      /\ written' = [written EXCEPT ![c.user] = c.wallet + c.amount]
      /\ call' = [call EXCEPT ![p].step = "insert"]
      /\ UNCHANGED <<balance, ledger>>
  BY DEF W!Update, W!Affords
<1>2. c \in EntryCall /\ c.user \in Users BY <1>1 DEF WalletTypes, EntryCall
<1>3. c.wallet \in Int /\ c.amount \in Int BY <1>2 DEF EntryCall
<1>4. c.wallet + c.amount \in Nat BY <1>1, <1>3
<1>5. written' \in [Users -> Nat] BY <1>1, <1>4 DEF MoneyTypes
<1>6. call'[p] = [c EXCEPT !.step = "insert"] /\ \A q \in Sessions : q # p => call'[q] = call[q]
  BY <1>1 DEF WalletTypes
<1>7. call'[p].wallet = c.wallet /\ call'[p].amount = c.amount BY <1>2, <1>6 DEF EntryCall
<1>8. QED BY <1>1, <1>4, <1>5, <1>6, <1>7 DEF MoneyTypes

LEMMA InsertMoney ==
  ASSUME Assumption, WalletTypes, MoneyTypes, NEW p \in Sessions, W!Insert(p)
  PROVE  MoneyTypes'
<1> DEFINE c == call[p]
           row == [amount |-> c.amount, after |-> c.wallet + c.amount, tag |-> c.tag, by |-> p]
<1>1. /\ c # None /\ c.step = "insert"
      /\ ledger' = [ledger EXCEPT ![c.user] = Append(ledger[c.user], row)]
      /\ call' = [call EXCEPT ![p] = None]
      /\ UNCHANGED <<balance, written>>
  BY DEF W!Insert
<1>2. c \in EntryCall /\ c.user \in Users BY <1>1 DEF WalletTypes, EntryCall
<1>3. row.after \in Nat /\ row \in LedgerRow BY <1>1, <1>2 DEF MoneyTypes, EntryCall, LedgerRow
<1>4. ASSUME NEW u \in Users, NEW n \in 1..Len(ledger'[u]) PROVE ledger'[u][n].after \in Nat
  <2>1. ledger[u] \in Seq(LedgerRow) BY DEF WalletTypes
  <2>2. CASE u # c.user
    <3>1. ledger'[u] = ledger[u] BY <1>1, <2>2 DEF WalletTypes
    <3>2. QED BY <1>4, <3>1 DEF MoneyTypes
  <2>3. CASE u = c.user
    <3>1. ledger'[u] = Append(ledger[u], row) BY <1>1, <2>3 DEF WalletTypes
    <3> HIDE DEF row
    <3>2. Len(ledger'[u]) = Len(ledger[u]) + 1 /\ Len(ledger[u]) \in Nat BY <1>3, <2>1, <3>1
    <3>3. CASE n = Len(ledger[u]) + 1
      <4>1. ledger'[u][n] = row BY <1>3, <2>1, <3>1, <3>3
      <4>2. QED BY <1>3, <4>1
    <3>4. CASE n # Len(ledger[u]) + 1
      <4>1. n \in 1..Len(ledger[u]) BY <1>4, <3>2, <3>4
      <4>2. ledger'[u][n] = ledger[u][n] BY <1>3, <2>1, <3>1, <4>1
      <4>3. QED BY <4>1, <4>2 DEF MoneyTypes
    <3>5. QED BY <3>3, <3>4
  <2>4. QED BY <2>2, <2>3
<1>5. call'[p] = None /\ \A q \in Sessions : q # p => call'[q] = call[q] BY <1>1 DEF WalletTypes
<1>6. QED BY <1>1, <1>4, <1>5 DEF MoneyTypes

LEMMA CommitMoney ==
  ASSUME WalletTypes, MoneyTypes, NEW p \in Sessions, W!Commit(p)
  PROVE  MoneyTypes'
<1>1. /\ balance' = [u \in Users |-> IF lock[u] = p THEN written[u] ELSE balance[u]]
      /\ UNCHANGED <<written, ledger, call>>
  BY DEF W!Commit, W!Publish
<1>2. balance' \in [Users -> Nat] BY <1>1 DEF MoneyTypes
<1>3. QED BY <1>1, <1>2 DEF MoneyTypes

LEMMA RollbackMoney ==
  ASSUME Assumption, EntriesInv, MoneyTypes, NEW p \in Sessions, W!Rollback(p)
  PROVE  MoneyTypes'
<1>1. /\ written' = [u \in Users |-> IF lock[u] = p THEN balance[u] ELSE written[u]]
      /\ ledger' = [u \in Users |-> IF lock[u] = p THEN SubSeq(ledger[u], 1, committed[u]) ELSE ledger[u]]
      /\ call' = [call EXCEPT ![p] = None]
      /\ balance' = balance
  BY DEF W!Rollback
<1>2. WalletTypes BY DEF EntriesInv
<1>3. written' \in [Users -> Nat] BY <1>1 DEF MoneyTypes
<1>4. ASSUME NEW u \in Users, NEW n \in 1..Len(ledger'[u]) PROVE ledger'[u][n].after \in Nat
  <2>1. /\ ledger[u] \in Seq(LedgerRow) /\ HolderWrites(u) /\ committed[u] \in Nat
        /\ lock[u] \in Sessions \union {None}
    BY <1>2 DEF EntriesInv, WalletTypes
  <2>2. committed[u] \in 0..Len(ledger[u]) BY <2>1 DEF HolderWrites, LastIs
  <2>3. CASE lock[u] # p
    <3>1. ledger'[u] = ledger[u] BY <1>1, <2>3
    <3>2. QED BY <1>4, <3>1 DEF MoneyTypes
  <2>4. CASE lock[u] = p
    <3>1. ledger'[u] = SubSeq(ledger[u], 1, committed[u]) BY <1>1, <2>4
    <3>2. Len(ledger'[u]) = committed[u] BY <2>1, <2>2, <3>1
    <3>3. n \in 1..Len(ledger[u]) /\ n \in 1..committed[u] BY <1>4, <2>2, <3>2
    <3>4. ledger'[u][n] = ledger[u][n] BY <2>1, <2>2, <3>1, <3>3
    <3>5. QED BY <3>3, <3>4 DEF MoneyTypes
  <2>5. QED BY <2>3, <2>4
<1>5. call'[p] = None /\ \A q \in Sessions : q # p => call'[q] = call[q] BY <1>1, <1>2 DEF WalletTypes
<1>6. QED BY <1>1, <1>3, <1>4, <1>5 DEF MoneyTypes

\* What a session does to the wallets, whatever else the step does.
WalletStep(p) ==
  \/ UNCHANGED wvars
  \/ \E u, amount, tag : W!Select(p, u, amount, tag)
  \/ W!Update(p)
  \/ W!Insert(p)
  \/ W!Commit(p)
  \/ W!Rollback(p)

LEMMA StepMoney ==
  ASSUME Assumption, EntriesInv, MoneyTypes, NEW p \in Sessions, WalletStep(p)
  PROVE  MoneyTypes'
BY QuietMoney, SelectMoney, UpdateMoney, InsertMoney, CommitMoney, RollbackMoney
   DEF WalletStep, EntriesInv

LEMMA FailSteps ==
  ASSUME NEW p \in Sessions, Fail(p)
  PROVE  WalletStep(p) /\ Goto(p, Idle) /\ answered' = answered /\ emitted' = emitted
BY DEF Fail, Finish, WalletStep

\* A session touches the wallets by WalletStep, whatever its request does.
LEMMA ProceedMoney ==
  ASSUME NEW p \in Sessions, Proceed(p)
  PROVE  WalletStep(p)
<1>1. CASE LockAndCheck(p) BY <1>1 DEF LockAndCheck, WalletStep
<1>2. CASE DebitPayout(p) BY <1>2 DEF DebitPayout, WalletStep
<1>3. CASE CommitCredit(p) BY <1>3 DEF CommitCredit, WalletStep
<1>4. CASE CommitPayout(p) BY <1>4 DEF CommitPayout, WalletStep
<1>5. CASE LedgerStep(p) BY <1>5 DEF LedgerStep, WalletStep
<1>6. CASE Reject(p) BY <1>6, FailSteps DEF Reject
<1>7. CASE CreateDeposit(p) \/ InsertDeposit(p) \/ AlreadyCredited(p) \/ CreatePayout(p) \/ FailIntent(p)
  BY <1>7 DEF CreateDeposit, InsertDeposit, AlreadyCredited, CreatePayout, FailIntent, WalletStep
<1>8. QED BY <1>1, <1>2, <1>3, <1>4, <1>5, <1>6, <1>7 DEF Proceed

LEMMA NextMoney ==
  ASSUME Assumption, EntriesInv, MoneyTypes, [Next]_vars
  PROVE  MoneyTypes'
<1>1. ASSUME NEW p \in Sessions, Proceed(p) PROVE MoneyTypes' BY <1>1, ProceedMoney, StepMoney
<1>2. ASSUME NEW p \in Sessions, Abort(p) PROVE MoneyTypes' BY <1>2, FailSteps, StepMoney DEF Abort
<1>3. ASSUME NEW p \in Sessions, Request(p) PROVE MoneyTypes'
  <2>1. UNCHANGED wvars BY <1>3 DEF Request, InitiateDeposit, InitiatePayout
  <2>2. QED BY <2>1, QuietMoney
<1>4. ASSUME NEW e \in Events, Deliver(e) PROVE MoneyTypes'
  <2>1. UNCHANGED wvars BY <1>4 DEF Deliver, IgnoreWebhook, ReceiveCompleted, ReceiveFailed
  <2>2. QED BY <2>1, QuietMoney
<1>5. ASSUME NEW i \in Intents,
             \/ CheckoutPaid(i) \/ PaidConfirmed(i) \/ CheckoutFailed(i)
             \/ PayoutReturned(i) \/ PayoutArrived(i)
      PROVE  MoneyTypes'
  <2>1. UNCHANGED wvars
    BY <1>5 DEF CheckoutPaid, PaidConfirmed, CheckoutFailed, PayoutReturned, PayoutArrived, Tells
  <2>2. QED BY <2>1, QuietMoney
<1>6. CASE UNCHANGED vars BY <1>6, QuietMoney DEF vars
<1>7. QED BY <1>1, <1>2, <1>3, <1>4, <1>5, <1>6 DEF Next

-----------------------------------------------------------------------------
\* A request moves to a task that carries no event, or its own, or one sent.
LEMMA TaskEvents ==
  ASSUME RequestTypes, EventTypes, NEW p \in Sessions, NEW t, Goto(p, t),
         t.op \in {"creditDeposit", "failIntent"} => t.event \in emitted \union {None},
         emitted' = emitted, answered' \subseteq emitted
  PROVE  EventTypes'
<1>1. task'[p] = t /\ \A q \in Sessions : q # p => task'[q] = task[q] BY DEF RequestTypes, Goto
<1>2. ASSUME NEW q \in Sessions PROVE Told(q)' BY <1>1 DEF EventTypes, Told
<1>3. QED BY <1>2 DEF EventTypes

LEMMA SameTasks ==
  ASSUME EventTypes, task' = task, emitted \subseteq emitted', emitted' \subseteq Events,
         answered' \subseteq emitted'
  PROVE  EventTypes'
BY DEF EventTypes, Told

\* An answer answers the event of the task.
LEMMA AnswerEvents ==
  ASSUME RequestTypes, EventTypes, NEW p \in Sessions, Answer(p), emitted' = emitted,
         task[p].op \in {"creditDeposit", "failIntent"}
  PROVE  EventTypes'
<1>1. Goto(p, Idle) BY DEF Answer, Finish
<1>2. answered' \subseteq emitted BY DEF Answer, EventTypes, Told
<1>3. Idle.op \notin {"creditDeposit", "failIntent"} BY DEF Idle
<1>4. QED BY <1>1, <1>2, <1>3, TaskEvents

\* The requests that carry on with no event of their own.
LEMMA InitiatingEvents ==
  ASSUME RequestTypes, EventTypes, NEW p \in Sessions,
         \/ CreateDeposit(p) \/ InsertDeposit(p) \/ CreatePayout(p) \/ DebitPayout(p) \/ CommitPayout(p)
  PROVE  EventTypes'
<1>1. task[p].op \in {"initiateDeposit", "initiatePayout"} => task[p] \in InitTask
  BY DEF RequestTypes, Idle, HookTask
<1>2. emitted' = emitted /\ answered' \subseteq emitted
  BY DEF CreateDeposit, InsertDeposit, CreatePayout, DebitPayout, CommitPayout, pvars, EventTypes
<1>3. CASE CreateDeposit(p)
  <2>1. PICK result : Goto(p, [task[p] EXCEPT !.stage = "insert", !.result = result])
    BY <1>3 DEF CreateDeposit
  <2>2. task[p] \in InitTask BY <1>1, <1>3 DEF CreateDeposit, At
  <2>3. [task[p] EXCEPT !.stage = "insert", !.result = result].op \in {"initiateDeposit", "initiatePayout"}
    BY <2>2 DEF InitTask
  <2>4. PICK t : t = [task[p] EXCEPT !.stage = "insert", !.result = result] OBVIOUS
  <2>5. QED BY <1>2, <2>1, <2>3, <2>4, TaskEvents
<1>4. CASE CreatePayout(p)
  <2>1. PICK result : Goto(p, [task[p] EXCEPT !.stage = "debit", !.result = result])
    BY <1>4 DEF CreatePayout
  <2>2. task[p] \in InitTask BY <1>1, <1>4 DEF CreatePayout, At
  <2>3. [task[p] EXCEPT !.stage = "debit", !.result = result].op \in {"initiateDeposit", "initiatePayout"}
    BY <2>2 DEF InitTask
  <2>4. PICK t : t = [task[p] EXCEPT !.stage = "debit", !.result = result] OBVIOUS
  <2>5. QED BY <1>2, <2>1, <2>3, <2>4, TaskEvents
<1>5. CASE DebitPayout(p)
  <2>1. Goto(p, [task[p] EXCEPT !.stage = "insert"]) BY <1>5 DEF DebitPayout
  <2>2. task[p] \in InitTask BY <1>1, <1>5 DEF DebitPayout, At
  <2>3. [task[p] EXCEPT !.stage = "insert"].op \in {"initiateDeposit", "initiatePayout"} BY <2>2 DEF InitTask
  <2>4. PICK t : t = [task[p] EXCEPT !.stage = "insert"] OBVIOUS
  <2>5. QED BY <1>2, <2>1, <2>3, <2>4, TaskEvents
<1>6. CASE InsertDeposit(p)
  <2>1. \/ Goto(p, [op |-> "creditDeposit", stage |-> "check", intent |-> task[p].intent, event |-> None])
        \/ Goto(p, Idle)
    BY <1>6 DEF InsertDeposit, Finish
  <2>2. QED BY <1>2, <2>1, TaskEvents DEF Idle
<1>7. CASE CommitPayout(p)
  <2>1. Goto(p, Idle) BY <1>7 DEF CommitPayout, Finish
  <2>2. QED BY <1>2, <2>1, TaskEvents DEF Idle
<1>8. QED BY <1>3, <1>4, <1>5, <1>6, <1>7

LEMMA ProceedEvents ==
  ASSUME RequestTypes, EventTypes, NEW p \in Sessions, Proceed(p)
  PROVE  EventTypes'
<1>1. CASE CreateDeposit(p) \/ InsertDeposit(p) \/ CreatePayout(p) \/ DebitPayout(p) \/ CommitPayout(p)
  BY <1>1, InitiatingEvents
<1>2. CASE AlreadyCredited(p) BY <1>2, AnswerEvents DEF AlreadyCredited, At
<1>3. CASE CommitCredit(p) BY <1>3, AnswerEvents DEF CommitCredit, At
<1>4. CASE FailIntent(p) BY <1>4, AnswerEvents DEF FailIntent, At
<1>5. CASE LockAndCheck(p)
  <2>1. /\ At(p, "creditDeposit", "check") /\ Goto(p, [task[p] EXCEPT !.stage = "credit"])
        /\ emitted' = emitted /\ answered' = answered
    BY <1>5 DEF LockAndCheck
  <2>2. task[p] \in HookTask BY <2>1 DEF RequestTypes, At, Idle, InitTask
  <2>3. [task[p] EXCEPT !.stage = "credit"].event = task[p].event BY <2>2 DEF HookTask
  <2>4. task[p].event \in emitted \union {None} BY <2>1 DEF EventTypes, Told, At
  <2>5. PICK t : t = [task[p] EXCEPT !.stage = "credit"] OBVIOUS
  <2>6. answered' \subseteq emitted BY <2>1 DEF EventTypes
  <2>7. QED BY <2>1, <2>3, <2>4, <2>5, <2>6, TaskEvents
<1>6. CASE LedgerStep(p)
  <2>1. task' = task /\ emitted' = emitted /\ answered' = answered BY <1>6 DEF LedgerStep, pvars
  <2>2. QED BY <2>1, SameTasks DEF EventTypes
<1>7. CASE Reject(p)
  <2>1. Goto(p, Idle) /\ answered' = answered /\ emitted' = emitted BY <1>7, FailSteps DEF Reject
  <2>2. QED BY <2>1, TaskEvents DEF Idle, EventTypes
<1>8. QED BY <1>1, <1>2, <1>3, <1>4, <1>5, <1>6, <1>7 DEF Proceed

LEMMA DeliverEvents ==
  ASSUME RequestTypes, EventTypes, NEW e \in Events, Deliver(e)
  PROVE  EventTypes'
<1>1. PICK p \in Sessions : IgnoreWebhook(p, e) \/ ReceiveCompleted(p, e) \/ ReceiveFailed(p, e)
  BY DEF Deliver
<1>2. CASE IgnoreWebhook(p, e)
  <2>1. task' = task /\ emitted' = emitted /\ answered' \subseteq emitted
    BY <1>2 DEF IgnoreWebhook, EventTypes
  <2>2. QED BY <2>1, SameTasks DEF EventTypes
<1>3. CASE ReceiveCompleted(p, e)
  <2>1. /\ e \in emitted /\ emitted' = emitted /\ answered' \subseteq emitted
        /\ Goto(p, [op |-> "creditDeposit", stage |-> "check", intent |-> e[1], event |-> e])
    BY <1>3 DEF ReceiveCompleted, pvars, EventTypes
  <2>2. QED BY <2>1, TaskEvents
<1>4. CASE ReceiveFailed(p, e)
  <2>1. /\ e \in emitted /\ emitted' = emitted /\ answered' \subseteq emitted
        /\ Goto(p, [op |-> "failIntent", stage |-> "update", intent |-> e[1], event |-> e])
    BY <1>4 DEF ReceiveFailed, pvars, EventTypes
  <2>2. QED BY <2>1, TaskEvents
<1>5. QED BY <1>1, <1>2, <1>3, <1>4

LEMMA NextEvents ==
  ASSUME RequestTypes, EventTypes, [Next]_vars
  PROVE  EventTypes'
<1>1. ASSUME NEW p \in Sessions, Proceed(p) PROVE EventTypes' BY <1>1, ProceedEvents
<1>2. ASSUME NEW p \in Sessions, Abort(p) PROVE EventTypes'
  <2>1. Goto(p, Idle) /\ answered' = answered /\ emitted' = emitted BY <1>2, FailSteps DEF Abort
  <2>2. QED BY <2>1, TaskEvents DEF Idle, EventTypes
<1>3. ASSUME NEW p \in Sessions, Request(p) PROVE EventTypes'
  <2> DEFINE t(op, i, u, key, amount) ==
                 [op |-> op, stage |-> "create", intent |-> i, user |-> u,
                  key |-> key, amount |-> amount, result |-> "pending"]
  <2>1. emitted' = emitted /\ answered' \subseteq emitted
    BY <1>3 DEF Request, InitiateDeposit, InitiatePayout, pvars, EventTypes
  <2>2. PICK i, u, key, amount :
          Goto(p, t("initiateDeposit", i, u, key, amount)) \/ Goto(p, t("initiatePayout", i, u, key, amount))
    BY <1>3 DEF Request, InitiateDeposit, InitiatePayout
  <2>3. CASE Goto(p, t("initiateDeposit", i, u, key, amount)) BY <2>1, <2>3, TaskEvents
  <2>4. CASE Goto(p, t("initiatePayout", i, u, key, amount)) BY <2>1, <2>4, TaskEvents
  <2>5. QED BY <2>2, <2>3, <2>4
<1>4. ASSUME NEW e \in Events, Deliver(e) PROVE EventTypes' BY <1>4, DeliverEvents
<1>5. ASSUME NEW i \in Intents, NEW s, NEW event \in {"completed", "failed"}, Tells(i, s, event)
      PROVE  EventTypes'
  <2>1. task' = task /\ emitted' = emitted \union {<<i, event>>} /\ answered' = answered
    BY <1>5 DEF Tells
  <2>2. <<i, event>> \in Events BY <1>5 DEF Events
  <2>3. QED BY <2>1, <2>2, SameTasks DEF EventTypes
<1>6. ASSUME NEW i \in Intents,
             \/ CheckoutPaid(i) \/ PaidConfirmed(i) \/ CheckoutFailed(i)
             \/ PayoutReturned(i) \/ PayoutArrived(i)
      PROVE  EventTypes'
  BY <1>5, <1>6 DEF CheckoutPaid, PaidConfirmed, CheckoutFailed, PayoutReturned, PayoutArrived
<1>7. CASE UNCHANGED vars
  <2>1. task' = task /\ emitted' = emitted /\ answered' = answered BY <1>7 DEF vars, pvars
  <2>2. QED BY <2>1, SameTasks DEF EventTypes
<1>8. QED BY <1>1, <1>2, <1>3, <1>4, <1>6, <1>7 DEF Next

-----------------------------------------------------------------------------
\* Types of the wallet, the intents and the requests: no balance and no
\* balance_after is ever negative (insufficient_funds), and no webhook is
\* answered that the provider has not sent.
THEOREM PaymentsKeepTheirTypes == ASSUME Assumption PROVE Spec => []TypeOK
<1>1. Init => MoneyTypes /\ EventTypes
  <2>1. SUFFICES ASSUME Init PROVE MoneyTypes /\ EventTypes OBVIOUS
  <2>2. MoneyTypes BY <2>1 DEF Init, W!Init, MoneyTypes, Assumption
  <2>3. EventTypes BY <2>1 DEF Init, EventTypes, Told, Idle
  <2>4. QED BY <2>2, <2>3
<1>2. Inv /\ MoneyTypes /\ EventTypes /\ [Next]_vars => MoneyTypes' /\ EventTypes'
  BY NextMoney, NextEvents DEF Inv, RequestsInv
<1>3. ASSUME Inv, MoneyTypes, EventTypes PROVE TypeOK
  <2>1. WalletTypes /\ RequestTypes BY <1>3 DEF Inv, EntriesInv, RequestsInv
  <2>2. ledger \in [Users -> Seq(W!Row)]
    <3>1. ASSUME NEW u \in Users PROVE ledger[u] \in Seq(W!Row)
      <4>1. ledger[u] \in Seq(LedgerRow) BY <2>1 DEF WalletTypes
      <4>2. ASSUME NEW n \in 1..Len(ledger[u]) PROVE ledger[u][n] \in W!Row
        <5>1. ledger[u][n] \in LedgerRow BY <4>1
        <5>2. ledger[u][n].after \in Nat BY <1>3 DEF MoneyTypes
        <5>3. QED BY <5>1, <5>2 DEF LedgerRow, W!Row
      <4>3. QED BY <4>1, <4>2
    <3>2. QED BY <2>1, <3>1 DEF WalletTypes
  <2>3. EntryCall = W!Call BY DEF EntryCall, W!Call
  <2>4. W!TypeOK BY <1>3, <2>1, <2>2, <2>3 DEF W!TypeOK, WalletTypes, MoneyTypes
  <2>5. \A p \in Sessions :
          task[p].op \in {"idle", "initiateDeposit", "initiatePayout", "creditDeposit", "failIntent"}
    BY <2>1 DEF RequestTypes, Idle, InitTask, HookTask
  <2>6. QED BY <1>3, <2>1, <2>4, <2>5 DEF TypeOK, RequestTypes, IntentRow, EventTypes
<1>4. QED BY <1>1, <1>2, <1>3, Invariance, PTL DEF Spec
=============================================================================
