------------------------------ MODULE Accounts ------------------------------
(***************************************************************************)
(* One customer's account: register (auth.service.ts), setupMfa, enableMfa *)
(* and disableMfa (security.service.ts), submitKyc (account.service.ts)    *)
(* and forceKycStatus (admin.service.ts).  A handler checks the copy of    *)
(* the users row that loadUser gave it, and writes in a later statement.   *)
(***************************************************************************)
EXTENDS Integers

CONSTANTS
  Requests,    \* requests that may be in flight at once
  Secrets,     \* what generateSecret may return
  None         \* no row, no secret

\* What every instance assumes of the constants.
AccountsAssumption == None \notin Secrets

VARIABLES
  rows,        \* how many users rows have the customer's email
  wallets,     \* how many wallets they have
  user,        \* mfa_enabled, mfa_secret, kyc_status of the row
  task,        \* what each request does, with its copy of the row
  shown,       \* secrets given to the customer, whose codes it can compute
  confirmed,   \* the secret whose code enabled MFA
  overwrote    \* history: a write followed another that its request had not read

vars == <<rows, wallets, user, task, shown, confirmed, overwrote>>

Kyc == {"pending", "verified", "rejected"}
Registered == [enabled |-> FALSE, secret |-> None, kyc |-> "pending"]
Idle == [op |-> "idle", copy |-> Registered, secret |-> None]

Init ==
  /\ rows = 0 /\ wallets = 0
  /\ user = Registered
  /\ task = [r \in Requests |-> Idle]
  /\ shown = {} /\ confirmed = None
  /\ overwrote = FALSE

IsIdle(r) == task[r] = Idle
Doing(r, op) == task[r].op = op
Begin(r, op, secret) == task' = [task EXCEPT ![r] = [op |-> op, copy |-> user, secret |-> secret]]
End(r) == task' = [task EXCEPT ![r] = Idle]

-----------------------------------------------------------------------------
\* register: no user has the email.
Register(r) ==
  /\ IsIdle(r)
  /\ rows = 0
  /\ Begin(r, "register", None)
  /\ UNCHANGED <<rows, wallets, user, shown, confirmed, overwrote>>

\* Whether insertUser succeeds, without and with the unique index on the email.
AnyEmail == TRUE
EmailFree == rows = 0

\* The transaction of insertUser, createWallet and audit.
CommitRegistration(r) ==
  /\ Doing(r, "register")
  /\ IF EmailFree THEN rows' = rows + 1 /\ wallets' = wallets + 1
                  ELSE UNCHANGED <<rows, wallets>>
  /\ End(r)
  /\ UNCHANGED <<user, shown, confirmed, overwrote>>

-----------------------------------------------------------------------------
\* The request's copy is not what its write replaces.
Stale(r) == [user EXCEPT !.kyc = "pending"] # [task[r].copy EXCEPT !.kyc = "pending"]

SetupUnchecked == rows = 1
SetupAllowed == rows = 1 /\ ~user.enabled

\* setupMfa: loadUser and its check.
SetupMfa(r) ==
  /\ IsIdle(r)
  /\ SetupAllowed
  /\ \E s \in Secrets \ shown : Begin(r, "setup", s) /\ \A q \in Requests : task[q].secret # s
  /\ UNCHANGED <<rows, wallets, user, shown, confirmed, overwrote>>

\* The UPDATE, and the answer.
WriteSecret(r) ==
  /\ Doing(r, "setup")
  /\ user' = [user EXCEPT !.secret = task[r].secret]
  /\ shown' = shown \union {task[r].secret}
  /\ overwrote' = (overwrote \/ Stale(r))
  /\ End(r)
  /\ UNCHANGED <<rows, wallets, confirmed>>

\* enableMfa: loadUser and its checks; the code is of the copy's secret.
EnableMfa(r) ==
  /\ IsIdle(r) /\ rows = 1
  /\ user.secret \in shown
  /\ Begin(r, "enable", user.secret)
  /\ UNCHANGED <<rows, wallets, user, shown, confirmed, overwrote>>

WriteEnabled(r) ==
  /\ Doing(r, "enable")
  /\ user' = [user EXCEPT !.enabled = TRUE]
  /\ confirmed' = task[r].secret
  /\ overwrote' = (overwrote \/ Stale(r))
  /\ End(r)
  /\ UNCHANGED <<rows, wallets, shown>>

\* disableMfa: without MFA enabled it returns.
DisableMfa(r) ==
  /\ IsIdle(r) /\ rows = 1
  /\ user.enabled /\ user.secret \in shown
  /\ Begin(r, "disable", user.secret)
  /\ UNCHANGED <<rows, wallets, user, shown, confirmed, overwrote>>

WriteDisabled(r) ==
  /\ Doing(r, "disable")
  /\ user' = [user EXCEPT !.enabled = FALSE, !.secret = None]
  /\ overwrote' = (overwrote \/ Stale(r))
  /\ End(r)
  /\ UNCHANGED <<rows, wallets, shown, confirmed>>

-----------------------------------------------------------------------------
SubmitAllowed == rows = 1 /\ user.kyc # "verified"

\* submitKyc: loadUser and its check.
SubmitKyc(r) ==
  /\ IsIdle(r)
  /\ SubmitAllowed
  /\ Begin(r, "kyc", None)
  /\ UNCHANGED <<rows, wallets, user, shown, confirmed, overwrote>>

\* The provider's answer is written in a transaction with its case.
WriteKyc(r, status) ==
  /\ Doing(r, "kyc")
  /\ user' = [user EXCEPT !.kyc = status]
  /\ End(r)
  /\ UNCHANGED <<rows, wallets, shown, confirmed, overwrote>>

ForceKycStatus(status) ==
  /\ rows = 1
  /\ user' = [user EXCEPT !.kyc = status]
  /\ UNCHANGED <<rows, wallets, task, shown, confirmed, overwrote>>

\* The UPDATE fails or the process ends.
Fail(r) ==
  /\ ~IsIdle(r)
  /\ End(r)
  /\ UNCHANGED <<rows, wallets, user, shown, confirmed, overwrote>>

Next ==
  \/ \E r \in Requests :
       \/ Register(r) \/ CommitRegistration(r)
       \/ SetupMfa(r) \/ WriteSecret(r) \/ EnableMfa(r) \/ WriteEnabled(r)
       \/ DisableMfa(r) \/ WriteDisabled(r)
       \/ SubmitKyc(r) \/ \E status \in {"verified", "rejected"} : WriteKyc(r, status)
       \/ Fail(r)
  \/ \E status \in Kyc : ForceKycStatus(status)

Spec == Init /\ [][Next]_vars

-----------------------------------------------------------------------------
UserRow == [enabled : BOOLEAN, secret : Secrets \union {None}, kyc : Kyc]

TypeOK ==
  /\ rows \in 0..1 /\ wallets = rows
  /\ user \in UserRow
  /\ task \in [Requests -> [op : {"idle", "register", "setup", "enable", "disable", "kyc"},
                            copy : UserRow, secret : Secrets \union {None}]]
  /\ shown \subseteq Secrets
  /\ confirmed \in Secrets \union {None}
  /\ overwrote \in BOOLEAN

\* As long as no request writes MFA over a change it has not read, an account with
\* MFA enabled has the secret that the customer confirmed with a code: login asks
\* for codes, and the customer can give them.
EnabledMfaIsUsable == user.enabled /\ ~overwrote => user.secret # None /\ user.secret = confirmed
=============================================================================
