------------------------------- MODULE Tokens -------------------------------
(***************************************************************************)
(* The one-use tokens of one user (createToken, consumeToken,              *)
(* requestEmailVerification, verifyEmail, requestPasswordReset and         *)
(* resetPassword of security.service.ts).  Nothing here is inside a        *)
(* transaction: requests interleave, and fail, between any two statements. *)
(***************************************************************************)
EXTENDS Integers, FiniteSets

CONSTANTS
  Tokens, TypeOf,  \* rows of auth_tokens, numbers, and the type of each
  Requests,        \* requests that may be in flight at once
  None,            \* not issued; no token
  Ttl,             \* the intervals that a token of each type is good for
  Patience         \* BOUND: the intervals that a request may last

\* What every instance assumes of the constants.
TokensAssumption ==
  /\ Tokens \subseteq Nat /\ None \notin Tokens
  /\ TypeOf \in [Tokens -> {"email_verify", "password_reset"}]
  /\ Ttl \in [{"email_verify", "password_reset"} -> Nat]
  /\ Patience \in Nat
  /\ None \notin [used : BOOLEAN, left : Int] /\ IsFiniteSet(Requests)

VARIABLES
  tokens,     \* used_at, and the time to expires_at, of each token issued
  job,        \* the token a request consumes, how far it is, and for how long
  password,   \* the token by which the password in force was set, or None
  verified,   \* likewise users.email_verified
  applied,    \* history: how many requests each token has served
  readers,    \* history: how many had checked each token when it was first marked
  closed      \* history: reset tokens that a finished reset found issued

vars == <<tokens, job, password, verified, applied, readers, closed>>

Idle == [stage |-> "idle", token |-> None, age |-> 0]
Issued == {t \in Tokens : tokens[t] # None}
ResetTokens == {t \in Issued : TypeOf[t] = "password_reset"}

Init ==
  /\ tokens = [t \in Tokens |-> None]
  /\ job = [r \in Requests |-> Idle]
  /\ password = None /\ verified = None
  /\ applied = [t \in Tokens |-> 0] /\ readers = [t \in Tokens |-> 0]
  /\ closed = {}

At(r, stage) == job[r].stage = stage
Goto(r, stage) == job' = [job EXCEPT ![r].stage = stage]
End(r) == job' = [job EXCEPT ![r] = Idle]

-----------------------------------------------------------------------------
\* requestEmailVerification, requestPasswordReset; nanoid() returns the least id.
CreateToken(t) ==
  /\ t \notin Issued
  /\ \A s \in Tokens \ Issued : TypeOf[s] = TypeOf[t] => t <= s
  /\ tokens' = [tokens EXCEPT ![t] = [used |-> FALSE, left |-> Ttl[TypeOf[t]]]]
  /\ UNCHANGED <<job, password, verified, applied, readers, closed>>

Unused(t) == ~tokens[t].used
Usable(t) == Unused(t) /\ tokens[t].left >= 0

\* consumeToken, the SELECT and its checks.
Check(r, t) ==
  /\ At(r, "idle")
  /\ t \in Issued /\ Usable(t)
  /\ job' = [job EXCEPT ![r] = [stage |-> "checked", token |-> t, age |-> 0]]
  /\ UNCHANGED <<tokens, password, verified, applied, readers, closed>>

NotUsed(row) == row
Used(row) == [row EXCEPT !.used = TRUE]

Reading(t) == {r \in Requests : At(r, "checked") /\ job[r].token = t}
Mark(S) ==
  /\ tokens' = [t \in Tokens |-> IF t \in S THEN Used(tokens[t]) ELSE tokens[t]]
  /\ readers' = [t \in Tokens |-> IF t \in S /\ Unused(t) THEN Cardinality(Reading(t)) ELSE readers[t]]

\* consumeToken, the UPDATE: whether or not it was used since.
Consume(r) ==
  /\ At(r, "checked")
  /\ Mark({job[r].token})
  /\ Goto(r, "consumed")
  /\ UNCHANGED <<password, verified, applied, closed>>

Serve(t) == applied' = [applied EXCEPT ![t] = @ + 1]

VerifyEmail(r) ==
  /\ At(r, "consumed")
  /\ TypeOf[job[r].token] = "email_verify"
  /\ verified' = job[r].token
  /\ Serve(job[r].token)
  /\ End(r)
  /\ UNCHANGED <<tokens, password, readers, closed>>

SetPassword(r) ==
  /\ At(r, "consumed")
  /\ TypeOf[job[r].token] = "password_reset"
  /\ password' = job[r].token
  /\ Serve(job[r].token)
  /\ Goto(r, "set")
  /\ UNCHANGED <<tokens, verified, readers, closed>>

\* The tokens that the last UPDATE of resetPassword closes.
OwnToken(r) == {job[r].token}
EveryReset(r) == ResetTokens

InvalidateOthers(r) ==
  /\ At(r, "set")
  /\ Mark(EveryReset(r))
  /\ closed' = closed \union ResetTokens
  /\ End(r)
  /\ UNCHANGED <<password, verified, applied>>

\* A statement fails, or the process ends: what was written stays.
Fail(r) ==
  /\ ~At(r, "idle")
  /\ End(r)
  /\ UNCHANGED <<tokens, password, verified, applied, readers, closed>>

Elapse ==
  /\ \A r \in Requests : At(r, "idle") \/ job[r].age < Patience
  /\ job' = [r \in Requests |-> IF At(r, "idle") THEN Idle ELSE [job[r] EXCEPT !.age = @ + 1]]
  /\ tokens' = [t \in Tokens |->
                  IF t \notin Issued \/ tokens[t].left < -Patience THEN tokens[t]
                  ELSE [tokens[t] EXCEPT !.left = @ - 1]]
  /\ UNCHANGED <<password, verified, applied, readers, closed>>

Next ==
  \/ \E t \in Tokens : CreateToken(t)
  \/ \E r \in Requests :
       \/ \E t \in Tokens : Check(r, t)
       \/ Consume(r) \/ VerifyEmail(r) \/ SetPassword(r) \/ InvalidateOthers(r) \/ Fail(r)
  \/ Elapse

Spec == Init /\ [][Next]_vars

-----------------------------------------------------------------------------
Row == UNION {[used : BOOLEAN, left : (-Patience - 1)..Ttl[type]] : type \in DOMAIN Ttl}
Job == [stage : {"checked", "consumed", "set"}, token : Tokens, age : 0..Patience]

TypeOK ==
  /\ tokens \in [Tokens -> Row \union {None}]
  /\ job \in [Requests -> Job \union {Idle}]
  /\ password \in Tokens \union {None} /\ verified \in Tokens \union {None}
  /\ applied \in [Tokens -> Nat] /\ readers \in [Tokens -> Nat]
  /\ closed \subseteq Issued

\* consumeToken checks and marks in two statements, and security.test.ts says that a
\* token is for one use: it serves no request but those that had checked it when it
\* was first marked, which is one where requests follow each other.
ServesItsReaders == \A t \in Tokens : applied[t] <= readers[t]

\* Once a password reset is over, no other reset token issued before it can start
\* another reset, used or not.
ResetClosesTokens == \A t \in closed : ~Usable(t)

\* No password is set and no email verified by a token that had expired when the
\* request checked it, however long ago that was.
ExpiredTokensChangeNothing ==
  [][ \A r \in Requests :
        VerifyEmail(r) \/ SetPassword(r) => tokens[job[r].token].left + job[r].age >= 0 ]_vars
=============================================================================
