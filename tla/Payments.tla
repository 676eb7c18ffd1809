------------------------------ MODULE Payments ------------------------------
(***************************************************************************)
(* Deposits, payouts and webhooks: payments.service.ts, with the provider  *)
(* behind provider.ts (sandbox.ts, stripe.ts) as its environment, over the *)
(* wallet of module Wallet.                                                *)
(*                                                                         *)
(* The provider takes the customer's money, or gives up, and tells the     *)
(* platform by webhooks: each event is delivered again until a request     *)
(* that carries it is answered, it may be delivered again after that, and  *)
(* two events may arrive in either order.                                  *)
(***************************************************************************)
EXTENDS Integers, Sequences, FiniteSets, Functions

CONSTANTS
  Users, Sessions, Opening, MaxRows, None,  \* as in Wallet
  Intents,         \* payment_intents ids, numbers: nanoid() returns the least free
  Keys,            \* idempotency keys the clients use
  DepositAmounts, PayoutAmounts,
  DepositLimit,    \* users.daily_deposit_limit; all of a behaviour is one day
  ProviderResults, \* status createDeposit, createPayout may return: "pending" (stripe),
                   \* "completed" (sandbox); provider.ts leaves it open at each call
  DelayedMethods,  \* whether a completed checkout may still fail to be paid
  MaxAborts        \* BOUND: requests ended by a crash or a lost connection

\* What every instance assumes of the constants.
PaymentsAssumption ==
  /\ Intents \subseteq Nat
  /\ DepositAmounts \union PayoutAmounts \subseteq Nat \ {0}
  /\ DepositLimit \in [Users -> Nat]
  /\ ProviderResults \subseteq {"pending", "completed"}
  /\ DelayedMethods \in BOOLEAN
  /\ MaxAborts \in Nat

VARIABLES
  balance, written, ledger, committed, lock, call,  \* the wallet
  intents,     \* payment_intents rows as committed, None where there is none
  intentLock,  \* the session holding the row lock of each intent
  provider,    \* the provider's side of each intent
  emitted,     \* webhook events the provider has sent
  answered,    \* those it has seen answered
  task,        \* the request each session executes
  aborts       \* how many requests were cut short

wvars == <<balance, written, ledger, committed, lock, call>>
pvars == <<intents, intentLock, provider, emitted, answered>>
vars  == <<wvars, pvars, task, aborts>>

Tags == {"deposit", "withdrawal"} \X Intents
W == INSTANCE Wallet WITH Amounts <- Int

Idle == [op |-> "idle"]

Init ==
  /\ W!Init
  /\ intents = [i \in Intents |-> None]
  /\ intentLock = [i \in Intents |-> None]
  /\ provider = [i \in Intents |-> "none"]
  /\ emitted = {}
  /\ answered = {}
  /\ task = [p \in Sessions |-> Idle]
  /\ aborts = 0

Existing == {i \in Intents : intents[i] # None}
At(p, op, stage) == task[p].op = op /\ task[p].stage = stage
Goto(p, t) == task' = [task EXCEPT ![p] = t]
Finish(p) == Goto(p, Idle)
EntryApplied(p) == call[p] = None

\* No committed intent of the user has the key (findIntentByKey, and the unique
\* index on user_id, idempotency_key that an INSERT meets).
KeyNotChecked(u, key) == TRUE
KeyFree(u, key) == \A i \in Existing : ~ (intents[i].user = u /\ intents[i].key = key)

\* Ids are made by each request; no two requests make the same.
NewId(i) ==
  LET taken == {j \in Intents : provider[j] # "none"} \union
               {task[q].intent : q \in {r \in Sessions :
                                          task[r].op \in {"initiateDeposit", "initiatePayout"}}}
  IN  i \in Intents \ taken /\ \A j \in Intents \ taken : i <= j

DepositsLast24h(u) ==
  LET rows == {n \in 1..committed[u] : ledger[u][n].tag[1] = "deposit"}
  IN  SumFunctionOnSet([n \in rows |-> ledger[u][n].amount], rows)

-----------------------------------------------------------------------------
\* initiateDeposit up to the provider's answer: a known key returns its intent
\* and changes nothing.
InitiateDeposit(p, i, u, key, amount) ==
  /\ task[p] = Idle
  /\ NewId(i)
  /\ KeyFree(u, key)
  /\ DepositsLast24h(u) + amount <= DepositLimit[u]
  /\ Goto(p, [op |-> "initiateDeposit", stage |-> "create", intent |-> i, user |-> u,
              key |-> key, amount |-> amount, result |-> "pending"])
  /\ UNCHANGED <<wvars, pvars, aborts>>

\* createDeposit opens a checkout, or takes the money at once.
CreateDeposit(p) ==
  LET i == task[p].intent IN
  /\ At(p, "initiateDeposit", "create")
  /\ \E result \in ProviderResults :
       /\ provider' = [provider EXCEPT ![i] = IF result = "completed" THEN "paid" ELSE "created"]
       /\ Goto(p, [task[p] EXCEPT !.stage = "insert", !.result = result])
  /\ UNCHANGED <<wvars, intents, intentLock, emitted, answered, aborts>>

NewIntent(t, type, status) ==
  [user |-> t.user, key |-> t.key, type |-> type, amount |-> t.amount, status |-> status]

\* insertIntent, in autocommit; with a completed result creditDeposit follows.
InsertDeposit(p) ==
  LET t == task[p] IN
  /\ At(p, "initiateDeposit", "insert")
  /\ KeyFree(t.user, t.key)
  /\ intents' = [intents EXCEPT ![t.intent] = NewIntent(t, "deposit", "pending")]
  /\ IF t.result = "completed"
     THEN Goto(p, [op |-> "creditDeposit", stage |-> "check", intent |-> t.intent,
                   event |-> None])
     ELSE Finish(p)
  /\ UNCHANGED <<wvars, intentLock, provider, emitted, answered, aborts>>

-----------------------------------------------------------------------------
\* What is left of the request is to answer it.
Answer(p) ==
  /\ Finish(p)
  /\ answered' = IF task[p].event = None THEN answered ELSE answered \union {task[p].event}

\* creditDeposit of an intent already completed.
AlreadyCredited(p) ==
  LET i == task[p].intent IN
  /\ At(p, "creditDeposit", "check")
  /\ intentLock[i] = None
  /\ intents[i].status = "completed"
  /\ Answer(p)
  /\ UNCHANGED <<wvars, intents, intentLock, provider, emitted, aborts>>

\* The same SELECT without FOR UPDATE.
CheckWithoutLock(p) ==
  LET i == task[p].intent IN
  /\ At(p, "creditDeposit", "check")
  /\ intents[i].status # "completed"
  /\ W!Select(p, intents[i].user, intents[i].amount, <<"deposit", i>>)
  /\ Goto(p, [task[p] EXCEPT !.stage = "credit"])
  /\ UNCHANGED <<pvars, aborts>>

\* SELECT status ... FOR UPDATE, then the ledger entry begins.
LockAndCheck(p) ==
  LET i == task[p].intent IN
  /\ At(p, "creditDeposit", "check")
  /\ intentLock[i] = None
  /\ intents[i].status # "completed"
  /\ intentLock' = [intentLock EXCEPT ![i] = p]
  /\ W!Select(p, intents[i].user, intents[i].amount, <<"deposit", i>>)
  /\ Goto(p, [task[p] EXCEPT !.stage = "credit"])
  /\ UNCHANGED <<intents, provider, emitted, answered, aborts>>

CommitCredit(p) ==
  LET i == task[p].intent IN
  /\ At(p, "creditDeposit", "credit")
  /\ EntryApplied(p)
  /\ W!Commit(p)
  /\ intents' = [intents EXCEPT ![i].status = "completed"]
  /\ intentLock' = [intentLock EXCEPT ![i] = None]
  /\ Answer(p)
  /\ UNCHANGED <<provider, emitted, aborts>>

-----------------------------------------------------------------------------
\* initiatePayout: the provider is called before the wallet is debited.
InitiatePayout(p, i, u, key, amount) ==
  /\ task[p] = Idle
  /\ NewId(i)
  /\ KeyFree(u, key)
  /\ Goto(p, [op |-> "initiatePayout", stage |-> "create", intent |-> i, user |-> u,
              key |-> key, amount |-> amount, result |-> "pending"])
  /\ UNCHANGED <<wvars, pvars, aborts>>

CreatePayout(p) ==
  /\ At(p, "initiatePayout", "create")
  /\ provider' = [provider EXCEPT ![task[p].intent] = "sent"]
  /\ \E result \in ProviderResults :
       Goto(p, [task[p] EXCEPT !.stage = "debit", !.result = result])
  /\ UNCHANGED <<wvars, intents, intentLock, emitted, answered, aborts>>

DebitPayout(p) ==
  LET t == task[p] IN
  /\ At(p, "initiatePayout", "debit")
  /\ W!Select(p, t.user, 0 - t.amount, <<"withdrawal", t.intent>>)
  /\ Goto(p, [t EXCEPT !.stage = "insert"])
  /\ UNCHANGED <<pvars, aborts>>

\* insertIntent in the transaction of the debit, and COMMIT.
CommitPayout(p) ==
  LET t == task[p] IN
  /\ At(p, "initiatePayout", "insert")
  /\ EntryApplied(p)
  /\ KeyFree(t.user, t.key)
  /\ W!Commit(p)
  /\ intents' = [intents EXCEPT ![t.intent] = NewIntent(t, "payout", t.result)]
  /\ Finish(p)
  /\ UNCHANGED <<intentLock, provider, emitted, answered, aborts>>

-----------------------------------------------------------------------------
\* handleWebhook: an event that matches no intent is answered and forgotten,
\* and so is the completion of a payout.
IgnoreWebhook(p, e) ==
  /\ task[p] = Idle
  /\ e \in emitted
  /\ \/ e[1] \notin Existing
     \/ e[1] \in Existing /\ e[2] = "completed" /\ intents[e[1]].type = "payout"
  /\ answered' = answered \union {e}
  /\ UNCHANGED <<wvars, intents, intentLock, provider, emitted, task, aborts>>

\* A webhook answered as soon as it is read, and processed afterwards.
ReceiveAndAnswer(p, e) ==
  /\ task[p] = Idle
  /\ e \in emitted
  /\ e[1] \in Existing
  /\ e[2] = "completed"
  /\ answered' = answered \union {e}
  /\ Goto(p, [op |-> "creditDeposit", stage |-> "check", intent |-> e[1], event |-> None])
  /\ UNCHANGED <<wvars, intents, intentLock, provider, emitted, aborts>>

ReceiveCompleted(p, e) ==
  /\ task[p] = Idle
  /\ e \in emitted
  /\ e[1] \in Existing
  /\ e[2] = "completed"
  /\ intents[e[1]].type = "deposit"
  /\ Goto(p, [op |-> "creditDeposit", stage |-> "check", intent |-> e[1], event |-> e])
  /\ UNCHANGED <<wvars, pvars, aborts>>

ReceiveFailed(p, e) ==
  /\ task[p] = Idle
  /\ e \in emitted
  /\ e[1] \in Existing
  /\ e[2] = "failed"
  /\ Goto(p, [op |-> "failIntent", stage |-> "update", intent |-> e[1], event |-> e])
  /\ UNCHANGED <<wvars, pvars, aborts>>

\* UPDATE payment_intents SET status = 'failed', whatever the status was; it
\* waits for a creditDeposit that holds the row.
FailIntent(p) ==
  LET i == task[p].intent IN
  /\ At(p, "failIntent", "update")
  /\ intentLock[i] = None
  /\ intents' = [intents EXCEPT ![i].status = "failed"]
  /\ Answer(p)
  /\ UNCHANGED <<wvars, intentLock, provider, emitted, aborts>>

-----------------------------------------------------------------------------
LedgerStep(p) ==
  /\ W!Update(p) \/ W!Insert(p)
  /\ UNCHANGED <<pvars, task, aborts>>

\* The request ends in an error and its transaction is rolled back; a webhook
\* is not answered.
Fail(p) ==
  /\ task[p] # Idle
  /\ IF W!Holds(p) = {} /\ call[p] = None THEN UNCHANGED wvars ELSE W!Rollback(p)
  /\ intentLock' = [i \in Intents |-> IF intentLock[i] = p THEN None ELSE intentLock[i]]
  /\ Finish(p)
  /\ UNCHANGED <<intents, provider, emitted, answered>>

Abort(p) ==
  /\ aborts < MaxAborts
  /\ aborts' = aborts + 1
  /\ Fail(p)

\* insufficient_funds, or the unique index refuses a second intent of the key.
Rejected(p) ==
  \/ call[p] # None /\ call[p].step = "update" /\ ~ W!Affords(call[p])
  \/ /\ At(p, "initiateDeposit", "insert") \/ At(p, "initiatePayout", "insert")
     /\ EntryApplied(p)
     /\ ~ KeyFree(task[p].user, task[p].key)

Reject(p) == Rejected(p) /\ Fail(p) /\ UNCHANGED aborts

-----------------------------------------------------------------------------
\* The provider.  A customer learns of a checkout from the answer of
\* initiateDeposit, so after its intent was inserted.
Tells(i, status, event) ==
  /\ provider' = [provider EXCEPT ![i] = status]
  /\ emitted' = emitted \union {<<i, event>>}
  /\ UNCHANGED <<wvars, intents, intentLock, answered, task, aborts>>

CheckoutPaid(i) ==
  /\ provider[i] \in {"created", "processing"}
  /\ i \in Existing
  /\ Tells(i, "paid", "completed")

\* The webhook of a deposit that createDeposit already reported as completed may
\* come before, during or after its synchronous credit, or before the INSERT.
PaidConfirmed(i) ==
  /\ provider[i] = "paid"
  /\ <<i, "completed">> \notin emitted
  /\ Tells(i, "paid", "completed")

CheckoutFailed(i) ==
  /\ provider[i] \in {"created", "processing"}
  /\ i \in Existing
  /\ Tells(i, "failed", "failed")

\* checkout.session.completed of a payment method that settles days later.
CheckoutProcessing(i) ==
  /\ DelayedMethods
  /\ provider[i] = "created"
  /\ i \in Existing
  /\ Tells(i, "processing", "completed")

PayoutReturned(i) == provider[i] = "sent" /\ Tells(i, "returned", "failed")
PayoutArrived(i)  == provider[i] = "sent" /\ Tells(i, "arrived", "completed")

-----------------------------------------------------------------------------
Request(p) ==
  \E i \in Intents, u \in Users, key \in Keys :
    \/ \E amount \in DepositAmounts : InitiateDeposit(p, i, u, key, amount)
    \/ \E amount \in PayoutAmounts : InitiatePayout(p, i, u, key, amount)

Deliver(e) ==
  \E p \in Sessions : IgnoreWebhook(p, e) \/ ReceiveCompleted(p, e) \/ ReceiveFailed(p, e)

Proceed(p) ==
  \/ CreateDeposit(p) \/ InsertDeposit(p)
  \/ AlreadyCredited(p) \/ LockAndCheck(p) \/ CommitCredit(p)
  \/ CreatePayout(p) \/ DebitPayout(p) \/ CommitPayout(p)
  \/ FailIntent(p)
  \/ LedgerStep(p)
  \/ Reject(p)

Events == Intents \X {"completed", "failed"}

Next ==
  \/ \E p \in Sessions : Request(p) \/ Proceed(p) \/ Abort(p)
  \/ \E e \in Events : Deliver(e)
  \/ \E i \in Intents :
       \/ CheckoutPaid(i) \/ PaidConfirmed(i) \/ CheckoutFailed(i)
       \/ PayoutReturned(i) \/ PayoutArrived(i)

\* A provider with delayed payment methods has one more thing to tell.
NextDelayed == Next \/ \E i \in Intents : CheckoutProcessing(i)

Spec == Init /\ [][Next]_vars
SpecDelayed == Init /\ [][NextDelayed]_vars

\* The event loop resumes every handler, and the provider sends an event again
\* until it is answered.
FairSpec ==
  /\ Spec
  /\ \A p \in Sessions : SF_vars(Proceed(p))
  /\ \A e \in Events : SF_vars(e \notin answered /\ Deliver(e))

-----------------------------------------------------------------------------
TypeOK ==
  /\ W!TypeOK
  /\ intents \in [Intents -> {None} \union
       [user : Users, key : Keys, type : {"deposit", "payout"},
        amount : DepositAmounts \union PayoutAmounts,
        status : {"pending", "completed", "failed"}]]
  /\ intentLock \in [Intents -> Sessions \union {None}]
  /\ provider \in [Intents -> {"none", "created", "processing", "paid", "failed",
                               "sent", "returned", "arrived"}]
  /\ answered \subseteq emitted /\ emitted \subseteq Events
  /\ \A p \in Sessions :
       task[p].op \in {"idle", "initiateDeposit", "initiatePayout", "creditDeposit", "failIntent"}

Movements(i, type) ==
  {r \in UNION {{<<u, n>> : n \in 1..committed[u]} : u \in Users} :
     ledger[r[1]][r[2]].tag = <<type, i>>}
TimesCredited(i) == Cardinality(Movements(i, "deposit"))

\* A deposit is completed exactly when its amount was credited, once; a payout
\* intent exists exactly when its amount was debited, once: whatever webhooks are
\* repeated, raced against the synchronous answer or cut short.
LedgerMatchesIntents ==
  \A i \in Intents :
    /\ TimesCredited(i) =
         IF i \in Existing /\ intents[i].type = "deposit" /\ intents[i].status = "completed"
         THEN 1 ELSE 0
    /\ Cardinality(Movements(i, "withdrawal")) =
         IF i \in Existing /\ intents[i].type = "payout" THEN 1 ELSE 0
    /\ \A r \in Movements(i, "deposit") : ledger[r[1]][r[2]].amount = intents[i].amount

\* However often a client repeats a request with the same key, the wallet moves
\* at most once.
OneMovementPerKey ==
  \A u \in Users, key \in Keys :
    Cardinality(UNION {Movements(i, "deposit") \union Movements(i, "withdrawal") :
      i \in {j \in Existing : intents[j].user = u /\ intents[j].key = key}}) <= 1

\* The confirmation of a deposit the platform knows ends in its credit, although
\* requests are cut short and the synchronous credit competes with it.
PaidIsCredited ==
  \A i \in Intents :
    (i \in Existing /\ provider[i] = "paid" /\ <<i, "completed">> \in emitted \ answered)
      ~> TimesCredited(i) > 0

\* A deposit is credited a single time.
CreditedOnce == \A i \in Intents : TimesCredited(i) <= 1
=============================================================================
