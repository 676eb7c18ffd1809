----------------------------- MODULE TenantPool -----------------------------
(***************************************************************************)
(* The clients of the pool and their session variable app.operator_id:     *)
(* runWithContext and tx of db/index.ts, under the middlewares that keep   *)
(* the context of a request until its response finishes or closes          *)
(* (tenant.ts, app.ts).  A request is used once.                           *)
(***************************************************************************)
EXTENDS Integers, Sequences, FiniteSets

CONSTANTS
  Clients,     \* max of pg.Pool
  Requests,
  OperatorOf,  \* what resolveOperatorId answers for each request, "__system__" included
  None,        \* the variable is not set; nobody holds the client
  MaxTx        \* BOUND: transactions of one request

\* What every instance assumes of the constants.
TenantPoolAssumption ==
  /\ None \notin Clients /\ None \notin Requests \X {"context", "tx"}
  /\ \A r \in Requests : OperatorOf[r] # None
  /\ MaxTx \in Nat

VARIABLES
  setting,     \* app.operator_id in the session of each client
  holder,      \* the job that has each client
  waiting,     \* jobs in the queue of pool.connect
  context,     \* stage of its runWithContext
  store,       \* the client in its TenantStore
  handler,     \* stage of its handler
  txs          \* transactions begun

pool == <<setting, holder, waiting>>
request == <<context, store, handler, txs>>
vars == <<pool, request>>

Context(r) == <<r, "context">>
Tx(r) == <<r, "tx">>
Jobs == Requests \X {"context", "tx"}

Init ==
  /\ setting = [c \in Clients |-> None]
  /\ holder = [c \in Clients |-> None]
  /\ waiting = <<>>
  /\ context = [r \in Requests |-> "none"]
  /\ store = [r \in Requests |-> None]
  /\ handler = [r \in Requests |-> "none"]
  /\ txs = [r \in Requests |-> 0]

Has(job, c) == holder[c] = job
Connect(job) == waiting' = Append(waiting, job) /\ UNCHANGED <<setting, holder>>
SetConfig(c, value) == setting' = [setting EXCEPT ![c] = value] /\ UNCHANGED <<holder, waiting>>
Unset(c, r) == UNCHANGED pool
Configure(c, r) == SetConfig(c, OperatorOf[r])
NoReset(c) == UNCHANGED pool
Reset(c) == SetConfig(c, None)
Leak(c) == UNCHANGED pool
Release(c) == holder' = [holder EXCEPT ![c] = None] /\ UNCHANGED <<setting, waiting>>
ContextGoto(r, stage) == context' = [context EXCEPT ![r] = stage]
HandlerGoto(r, stage) == handler' = [handler EXCEPT ![r] = stage]

-----------------------------------------------------------------------------
\* pool.connect: a client that is free goes to the first in the queue.
Grant(c) ==
  /\ holder[c] = None
  /\ waiting # <<>>
  /\ holder' = [holder EXCEPT ![c] = Head(waiting)]
  /\ waiting' = Tail(waiting)
  /\ UNCHANGED <<setting, request>>

\* runWithContext.
Arrive(r) ==
  /\ context[r] = "none"
  /\ ContextGoto(r, "asking")
  /\ Connect(Context(r))
  /\ UNCHANGED <<store, handler, txs>>

\* set_config, and the handler starts.
OpenContext(r, c) ==
  /\ context[r] = "asking" /\ Has(Context(r), c)
  /\ Configure(c, r)
  /\ store' = [store EXCEPT ![r] = c]
  /\ ContextGoto(r, "open")
  /\ HandlerGoto(r, "running")
  /\ UNCHANGED <<txs>>

ContextFails(r, c) ==
  /\ context[r] = "asking" /\ Has(Context(r), c)
  /\ ContextGoto(r, "closing")
  /\ HandlerGoto(r, "ended")
  /\ UNCHANGED <<pool, store, txs>>

\* The handler answers, with a result or an error.
HandlerEnds(r) ==
  /\ handler[r] = "running"
  /\ HandlerGoto(r, "ended")
  /\ IF context[r] = "open" THEN ContextGoto(r, "closing") ELSE UNCHANGED context
  /\ UNCHANGED <<pool, store, txs>>

\* The customer goes away: the response closes and the handler does not.
Disconnect(r) ==
  /\ context[r] = "open"
  /\ ContextGoto(r, "closing")
  /\ UNCHANGED <<pool, store, handler, txs>>

ContextReset(r, c) ==
  /\ context[r] = "closing" /\ Has(Context(r), c)
  /\ Reset(c)
  /\ ContextGoto(r, "reset")
  /\ UNCHANGED <<store, handler, txs>>

ContextRelease(r, c) ==
  /\ context[r] = "reset" /\ Has(Context(r), c)
  /\ Release(c)
  /\ ContextGoto(r, "closed")
  /\ UNCHANGED <<store, handler, txs>>

-----------------------------------------------------------------------------
\* tx: the same operator on a second client.
TxConnect(r) ==
  /\ handler[r] = "running"
  /\ txs[r] < MaxTx
  /\ txs' = [txs EXCEPT ![r] = @ + 1]
  /\ HandlerGoto(r, "asking")
  /\ Connect(Tx(r))
  /\ UNCHANGED <<context, store>>

TxBegin(r, c) ==
  /\ handler[r] = "asking" /\ Has(Tx(r), c)
  /\ Configure(c, r)
  /\ HandlerGoto(r, "tx")
  /\ UNCHANGED <<context, store, txs>>

\* COMMIT, or ROLLBACK wherever it failed.
TxEnd(r) ==
  /\ handler[r] = "tx" \/ (handler[r] = "asking" /\ \E c \in Clients : Has(Tx(r), c))
  /\ HandlerGoto(r, "over")
  /\ UNCHANGED <<pool, context, store, txs>>

TxReset(r, c) ==
  /\ handler[r] = "over" /\ Has(Tx(r), c)
  /\ Reset(c)
  /\ HandlerGoto(r, "reset")
  /\ UNCHANGED <<context, store, txs>>

TxRelease(r, c) ==
  /\ handler[r] = "reset" /\ Has(Tx(r), c)
  /\ Release(c)
  /\ HandlerGoto(r, "running")
  /\ UNCHANGED <<context, store, txs>>

-----------------------------------------------------------------------------
Proceed(r) ==
  \/ HandlerEnds(r) \/ TxEnd(r)
  \/ \E c \in Clients :
       \/ OpenContext(r, c) \/ ContextFails(r, c) \/ ContextReset(r, c) \/ ContextRelease(r, c)
       \/ TxBegin(r, c) \/ TxReset(r, c) \/ TxRelease(r, c)

Next ==
  \/ \E c \in Clients : Grant(c)
  \/ \E r \in Requests : Arrive(r) \/ Proceed(r) \/ Disconnect(r) \/ TxConnect(r)

Spec == Init /\ [][Next]_vars
Fairness == \A c \in Clients : WF_vars(Grant(c)) /\ \A r \in Requests : WF_vars(Proceed(r))
FairSpec == Spec /\ Fairness

-----------------------------------------------------------------------------
Operators == {OperatorOf[r] : r \in Requests}
ContextStages == {"none", "asking", "open", "closing", "reset", "closed"}
HandlerStages == {"none", "running", "asking", "tx", "over", "reset", "ended"}

TypeOK ==
  /\ setting \in [Clients -> Operators \union {None}]
  /\ holder \in [Clients -> Jobs \union {None}]
  /\ \A n \in 1..Len(waiting) : waiting[n] \in Jobs
  /\ context \in [Requests -> ContextStages]
  /\ store \in [Requests -> Clients \union {None}]
  /\ handler \in [Requests -> HandlerStages]
  /\ txs \in [Requests -> 0..MaxTx]

Handling(r) == handler[r] \notin {"none", "ended"}

\* The operator that PostgreSQL sees when the handler runs a statement outside a
\* transaction (exec).
RunsAs(r) == setting[store[r]]

\* Until its response closes a request works as its own operator, in its context
\* and in its transactions, whoever had the clients before.  (A handler that goes on
\* after its customer disconnected runs outside a transaction on a client given
\* back, and then perhaps as another operator; in a transaction it never does.)
OpenRequestsIsolated ==
  \A r \in Requests :
    /\ Handling(r) /\ context[r] = "open" => RunsAs(r) = OperatorOf[r]
    /\ handler[r] = "tx" => \E c \in Clients : Has(Tx(r), c) /\ setting[c] = OperatorOf[r]

\* Nobody's variable stays on a client that goes back to the pool.
FreeClientsAreReset == \A c \in Clients : holder[c] = None => setting[c] = None

\* Every request ends and gives its clients back, as long as the pool has one more
\* client than there are requests.
EveryRequestEnds ==
  \A r \in Requests : context[r] = "asking" ~> context[r] = "closed" /\ handler[r] = "ended"
=============================================================================
