--------------------------- MODULE ServicesProofs ---------------------------
(***************************************************************************)
(* The components of Services, one after the other, for any number of      *)
(* requests in flight: the one-use tokens of security.service.ts and how   *)
(* long they are good for, the odds that the check of expectedOdds in      *)
(* placeBet binds a bet to, the account that concurrent handlers write,    *)
(* the odds on screen once every message is delivered, and the risky bets  *)
(* that pass the score of fraud.service.ts together.                       *)
(***************************************************************************)
EXTENDS Services, LimitsProofs, Sequences

\* Each component runs by itself: Services implements Limits, so that what is proved
\* of the limits is so in Services.
THEOREM ServicesRunLimits == ServicesSpec => Spec
<1>1. ServicesInit => Init BY DEF ServicesInit
<1>2. [ServicesNext]_everything => [Next]_vars BY DEF ServicesNext, everything
<1>3. QED BY <1>1, <1>2, PTL DEF ServicesSpec, Spec

-----------------------------------------------------------------------------
\* Tokens.
TokenRows == [used : BOOLEAN, left : Int]
TokenJobs == [stage : {"idle", "checked", "consumed", "set"}, token : Tokens \union {None}, age : Int]

\* The requests that a marked token has served may still be joined by those that had
\* checked it; an unused token has served nobody.
Holders(t) == {r \in Sessions : job[r].stage \in {"checked", "consumed"} /\ job[r].token = t}
Marked(t) == t \in Tok!Issued /\ tokens[t].used

TokenTypes ==
  /\ tokens \in [Tokens -> TokenRows \union {None}]
  /\ job \in [Sessions -> TokenJobs]
  /\ applied \in [Tokens -> Nat] /\ readers \in [Tokens -> Nat]
JobsHaveTokens == \A r \in Sessions : job[r].stage # "idle" => job[r].token \in Tok!Issued
ConsumedMarked == \A r \in Sessions : job[r].stage \in {"consumed", "set"} => Marked(job[r].token)
Counted == \A t \in Tokens : Marked(t) => applied[t] + Cardinality(Holders(t)) <= readers[t]
ServedMarked == \A t \in Tokens : applied[t] # 0 => Marked(t)
ClosedMarked == \A t \in closed : Marked(t)

TokensInv == TokenTypes /\ JobsHaveTokens /\ ConsumedMarked /\ Counted /\ ServedMarked /\ ClosedMarked

-----------------------------------------------------------------------------
\* FiniteSets as Tokens sees it.
LEMMA SameCardinality == ASSUME NEW S PROVE Tok!Cardinality(S) = Cardinality(S)
BY Zenon DEF Cardinality, Tok!Cardinality

LEMMA TokenConstants ==
  ASSUME Tok!TokensAssumption
  PROVE  /\ IsFiniteSet(Sessions) /\ None \notin TokenRows
         /\ TypeOf \in [Tokens -> {"email_verify", "password_reset"}]
         /\ TokenTtl \in [{"email_verify", "password_reset"} -> Nat] /\ TokenPatience \in Nat
<1>1. Tok!IsFiniteSet(Sessions) <=> IsFiniteSet(Sessions) BY Zenon DEF IsFiniteSet, Tok!IsFiniteSet
<1>2. QED BY <1>1 DEF Tok!TokensAssumption, TokenRows

LEMMA HoldersCount ==
  ASSUME Tok!TokensAssumption, NEW t \in Tokens
  PROVE  IsFiniteSet(Holders(t)) /\ Cardinality(Holders(t)) \in Nat
<1>1. Holders(t) \subseteq Sessions BY DEF Holders
<1>2. QED BY <1>1, FS_Subset, FS_CardinalityType, TokenConstants

LEMMA HoldersShrink ==
  ASSUME Tok!TokensAssumption, NEW t \in Tokens, Holders(t)' \subseteq Holders(t)
  PROVE  Cardinality(Holders(t)') \in Nat /\ Cardinality(Holders(t)') <= Cardinality(Holders(t))
BY HoldersCount, FS_Subset, FS_CardinalityType

\* A step counts who had checked the tokens that it is the first to mark.
FirstMarksCount ==
  \A t \in Tokens : Marked(t)' => readers'[t] = IF Marked(t) THEN readers[t] ELSE Cardinality(Holders(t))

\* A step after which no token is less marked, that serves nobody and lets no new
\* request in.
LEMMA QuietTokenStep ==
  ASSUME Tok!TokensAssumption, TokensInv, TokenTypes', UNCHANGED applied,
         \A t \in Tokens : Marked(t) => Marked(t)', FirstMarksCount,
         \A t \in Tok!Issued : t \in Tok!Issued',
         \A r \in Sessions : job'[r].stage = "idle"
            \/ (job'[r].stage = job[r].stage /\ job'[r].token = job[r].token),
         \A t \in closed' : t \in Tokens /\ (t \in closed \/ Marked(t)')
  PROVE  TokensInv'
<1>1. TokenTypes /\ JobsHaveTokens /\ ConsumedMarked /\ Counted /\ ServedMarked /\ ClosedMarked BY DEF TokensInv
<1>2. JobsHaveTokens' BY <1>1 DEF JobsHaveTokens
<1>3. ConsumedMarked'
  <2> SUFFICES ASSUME NEW r \in Sessions, job'[r].stage \in {"consumed", "set"}
               PROVE  Marked(job[r].token)' /\ job'[r].token = job[r].token
    BY DEF ConsumedMarked, Marked
  <2>1. job'[r].stage = job[r].stage /\ job'[r].token = job[r].token OBVIOUS
  <2>2. Marked(job[r].token) BY <1>1, <2>1 DEF ConsumedMarked
  <2>3. job[r].token \in Tokens BY <2>2 DEF Marked, Tok!Issued
  <2>4. tokens'[job[r].token].used /\ job[r].token \in Tok!Issued' BY <2>2, <2>3 DEF Marked
  <2>5. QED BY <2>1, <2>4 DEF Marked
<1>4. Counted'
  <2> SUFFICES ASSUME NEW t \in Tokens, Marked(t)'
               PROVE  applied[t] + Cardinality(Holders(t)') <= readers'[t]
    BY DEF Counted
  <2>1. Holders(t)' \subseteq Holders(t) BY DEF Holders
  <2>2. /\ Cardinality(Holders(t)') \in Nat /\ Cardinality(Holders(t)') <= Cardinality(Holders(t))
        /\ Cardinality(Holders(t)) \in Nat /\ applied[t] \in Nat /\ readers[t] \in Nat
    BY <1>1, <2>1, HoldersShrink, HoldersCount DEF TokenTypes
  <2>3. CASE Marked(t)
    <3>1. readers'[t] = readers[t] BY <2>3 DEF FirstMarksCount
    <3>2. applied[t] + Cardinality(Holders(t)) <= readers[t] BY <1>1, <2>3 DEF Counted
    <3>3. QED BY <2>2, <3>1, <3>2
  <2>4. CASE ~Marked(t)
    <3>1. readers'[t] = Cardinality(Holders(t)) BY <2>4 DEF FirstMarksCount
    <3>2. applied[t] = 0 BY <1>1, <2>4 DEF ServedMarked
    <3>3. QED BY <2>2, <3>1, <3>2
  <2>5. QED BY <2>3, <2>4
<1>5. ServedMarked' BY <1>1 DEF ServedMarked
<1>6. ClosedMarked' BY <1>1 DEF ClosedMarked
<1>7. QED BY <1>2, <1>3, <1>4, <1>5, <1>6 DEF TokensInv

\* VerifyEmail and SetPassword: a token serves a request that had consumed it.
LEMMA ServeKeeps ==
  ASSUME Tok!TokensAssumption, TokensInv, NEW r \in Sessions, Tok!At(r, "consumed"), Tok!Serve(job[r].token),
         UNCHANGED <<tokens, readers, closed>>, job' \in [Sessions -> TokenJobs],
         \A q \in Sessions \ {r} : job'[q] = job[q],
         job'[r].stage = "idle" \/ (job'[r].stage = "set" /\ job'[r].token = job[r].token)
  PROVE  TokensInv'
<1>1. TokenTypes /\ JobsHaveTokens /\ ConsumedMarked /\ Counted /\ ServedMarked /\ ClosedMarked BY DEF TokensInv
<1> DEFINE u == job[r].token
<1>2. Marked(u) /\ u \in Tokens BY <1>1 DEF ConsumedMarked, Tok!At, Marked, Tok!Issued
<1>3. applied' = [applied EXCEPT ![u] = applied[u] + 1] BY DEF Tok!Serve
<1>4. TokenTypes' BY <1>1, <1>2, <1>3 DEF TokenTypes
<1>5. JobsHaveTokens' BY <1>1, <1>2 DEF JobsHaveTokens, Marked, Tok!Issued
<1>6. ConsumedMarked' BY <1>1, <1>2 DEF ConsumedMarked, Marked, Tok!Issued
<1>7. Counted'
  <2> SUFFICES ASSUME NEW t \in Tokens, Marked(t)
               PROVE  applied'[t] + Cardinality(Holders(t)') <= readers[t]
    BY DEF Counted, Marked, Tok!Issued
  <2>1. Holders(t)' \subseteq Holders(t) BY DEF Holders
  <2>2. applied[t] + Cardinality(Holders(t)) <= readers[t] /\ applied[t] \in Nat /\ readers[t] \in Nat
    BY <1>1 DEF Counted, TokenTypes
  <2>3. CASE t # u
    <3>1. applied'[t] = applied[t] BY <1>1, <1>2, <1>3, <2>3 DEF TokenTypes
    <3>2. QED BY <2>1, <2>2, <3>1, HoldersShrink, HoldersCount
  <2>4. CASE t = u
    <3>1. r \in Holders(t) /\ Holders(t)' \subseteq Holders(t) \ {r} BY <2>1, <2>4 DEF Holders, Tok!At
    <3>2. IsFiniteSet(Holders(t)) /\ Cardinality(Holders(t)) \in Nat BY HoldersCount
    <3>3. Cardinality(Holders(t) \ {r}) = Cardinality(Holders(t)) - 1 /\ IsFiniteSet(Holders(t) \ {r})
      BY <3>1, <3>2, FS_RemoveElement
    <3>4. Cardinality(Holders(t)') <= Cardinality(Holders(t)) - 1 BY <3>1, <3>3, FS_Subset
    <3>5. Cardinality(Holders(t)') \in Nat BY <2>1, HoldersShrink
    <3>6. applied'[t] = applied[t] + 1 BY <1>1, <1>2, <1>3, <2>4 DEF TokenTypes
    <3>7. QED BY <2>2, <3>2, <3>4, <3>5, <3>6
  <2>5. QED BY <2>3, <2>4
<1>8. ServedMarked' BY <1>1, <1>2, <1>3 DEF ServedMarked, Marked, Tok!Issued, TokenTypes
<1>9. ClosedMarked' BY <1>1 DEF ClosedMarked, Marked, Tok!Issued
<1>10. QED BY <1>4, <1>5, <1>6, <1>7, <1>8, <1>9 DEF TokensInv

-----------------------------------------------------------------------------
LEMMA IdleIsJob == Tok!TokensAssumption => Tok!Idle \in TokenJobs
BY DEF Tok!Idle, TokenJobs

\* consumeToken: the two statements.
LEMMA CheckKeeps ==
  ASSUME Tok!TokensAssumption, TokensInv, NEW r \in Sessions, NEW t \in Tokens, Tok!Check(r, t)
  PROVE  TokensInv'
<1>1. TokenTypes /\ JobsHaveTokens /\ ConsumedMarked /\ Counted /\ ServedMarked /\ ClosedMarked BY DEF TokensInv
<1>2. /\ job' = [job EXCEPT ![r] = [stage |-> "checked", token |-> t, age |-> 0]]
      /\ UNCHANGED <<tokens, applied, readers, closed>> /\ t \in Tok!Issued /\ ~tokens[t].used
  BY DEF Tok!Check, Tok!Usable, Tok!Unused
<1>3. TokenTypes' BY <1>1, <1>2 DEF TokenTypes, TokenJobs
<1>4. JobsHaveTokens' BY <1>1, <1>2 DEF JobsHaveTokens, TokenTypes, Tok!Issued
<1>5. ConsumedMarked' BY <1>1, <1>2 DEF ConsumedMarked, TokenTypes, Marked, Tok!Issued
<1>6. Counted'
  <2> SUFFICES ASSUME NEW u \in Tokens, Marked(u)
               PROVE  applied[u] + Cardinality(Holders(u)') <= readers[u]
    BY <1>2 DEF Counted, Marked, Tok!Issued
  <2>1. u # t BY <1>2 DEF Marked
  <2>2. Holders(u)' \subseteq Holders(u) BY <1>1, <1>2, <2>1 DEF Holders, TokenTypes
  <2>3. applied[u] + Cardinality(Holders(u)) <= readers[u] /\ applied[u] \in Nat /\ readers[u] \in Nat
    BY <1>1 DEF Counted, TokenTypes
  <2>4. QED BY <2>2, <2>3, HoldersShrink, HoldersCount
<1>7. ServedMarked' BY <1>1, <1>2 DEF ServedMarked, Marked, Tok!Issued
<1>8. ClosedMarked' BY <1>1, <1>2 DEF ClosedMarked, Marked, Tok!Issued
<1>9. QED BY <1>3, <1>4, <1>5, <1>6, <1>7, <1>8 DEF TokensInv

\* consumeToken and resetPassword, the UPDATE of tokens that were issued: the marks.
LEMMA MarkMarks ==
  ASSUME Tok!TokensAssumption, TokensInv, NEW S, S \subseteq Tok!Issued, Tok!Mark(S)
  PROVE  /\ tokens' \in [Tokens -> TokenRows \union {None}] /\ readers' \in [Tokens -> Nat]
         /\ \A t \in Tok!Issued : t \in Tok!Issued'
         /\ \A t \in Tokens : Marked(t) => Marked(t)'
         /\ \A t \in S : t \in Tokens /\ Marked(t)'
         /\ FirstMarksCount
<1>1. TokenTypes /\ JobsHaveTokens /\ ConsumedMarked BY DEF TokensInv
<1>2. /\ tokens' = [t \in Tokens |-> IF t \in S THEN [tokens[t] EXCEPT !.used = TRUE] ELSE tokens[t]]
      /\ readers' = [t \in Tokens |-> IF t \in S /\ ~tokens[t].used THEN Tok!Cardinality(Tok!Reading(t))
                                      ELSE readers[t]]
  BY DEF Tok!Mark, Tok!Used, Tok!Unused
<1>3. \A t \in S : t \in Tokens /\ tokens[t] \in TokenRows BY <1>1 DEF Tok!Issued, TokenTypes
<1>4. \A t \in S : [tokens[t] EXCEPT !.used = TRUE] \in TokenRows /\ [tokens[t] EXCEPT !.used = TRUE].used = TRUE
  BY <1>3 DEF TokenRows
<1>5. tokens' \in [Tokens -> TokenRows \union {None}] BY <1>1, <1>2, <1>4 DEF TokenTypes
<1>6. \A t \in Tokens : /\ t \in S => tokens'[t].used = TRUE /\ tokens'[t] \in TokenRows
                        /\ t \notin S => tokens'[t] = tokens[t]
  BY <1>2, <1>4
<1>7. \A t \in Tok!Issued : t \in Tok!Issued'
  BY <1>6, TokenConstants DEF Tok!Issued
<1>8. \A t \in S : t \in Tokens /\ Marked(t)'
  BY <1>3, <1>6, <1>7 DEF Marked, Tok!Issued
<1>9. \A t \in Tokens : Marked(t) => Marked(t)'
  BY <1>6, <1>7 DEF Marked
<1>10. ASSUME NEW t \in Tokens, ~Marked(t), t \in Tok!Issued
       PROVE  Tok!Cardinality(Tok!Reading(t)) = Cardinality(Holders(t))
  <2>1. \A r \in Sessions : job[r].token = t => job[r].stage \notin {"consumed", "set"}
    BY <1>1, <1>10 DEF ConsumedMarked
  <2>2. Tok!Reading(t) = Holders(t) BY <2>1 DEF Tok!Reading, Holders, Tok!At
  <2>3. QED BY <2>2, SameCardinality
<1>11. readers' \in [Tokens -> Nat]
  <2>1. ASSUME NEW t \in Tokens, t \in S, ~tokens[t].used PROVE Tok!Cardinality(Tok!Reading(t)) \in Nat
    BY <1>10, <2>1, HoldersCount DEF Marked
  <2>2. QED BY <1>1, <1>2, <2>1 DEF TokenTypes
<1>12. FirstMarksCount
  <2> SUFFICES ASSUME NEW t \in Tokens, Marked(t)'
               PROVE  readers'[t] = IF Marked(t) THEN readers[t] ELSE Cardinality(Holders(t))
    BY DEF FirstMarksCount
  <2>1. readers'[t] = IF t \in S /\ ~tokens[t].used THEN Tok!Cardinality(Tok!Reading(t)) ELSE readers[t]
    BY <1>2
  <2>2. CASE Marked(t) BY <2>1, <2>2 DEF Marked
  <2>3. CASE ~Marked(t)
    <3>1. t \in S
      <4>1. CASE t \notin S BY <1>6, <2>3, <4>1 DEF Marked, Tok!Issued
      <4>2. QED BY <4>1
    <3>2. t \in Tok!Issued /\ ~tokens[t].used BY <2>3, <3>1 DEF Marked
    <3>3. QED BY <1>10, <2>1, <2>3, <3>1, <3>2
  <2>4. QED BY <2>2, <2>3
<1>13. QED BY <1>5, <1>7, <1>8, <1>9, <1>11, <1>12

LEMMA ConsumeKeeps == ASSUME Tok!TokensAssumption, TokensInv, NEW r \in Sessions, Tok!Consume(r) PROVE TokensInv'
<1>1. TokenTypes /\ JobsHaveTokens /\ ConsumedMarked /\ Counted /\ ServedMarked /\ ClosedMarked BY DEF TokensInv
<1> DEFINE u == job[r].token
<1>2. /\ Tok!Mark({u})
      /\ job' = [job EXCEPT ![r].stage = "consumed"]
      /\ UNCHANGED <<applied, closed>> /\ job[r].stage = "checked"
  BY DEF Tok!Consume, Tok!Goto, Tok!At
<1>3. {u} \subseteq Tok!Issued /\ u \in Tokens BY <1>1, <1>2 DEF JobsHaveTokens, Tok!Issued
<1>4. /\ tokens' \in [Tokens -> TokenRows \union {None}] /\ readers' \in [Tokens -> Nat]
      /\ \A t \in Tok!Issued : t \in Tok!Issued'
      /\ \A t \in Tokens : Marked(t) => Marked(t)'
      /\ Marked(u)' /\ FirstMarksCount
  BY <1>2, <1>3, MarkMarks
<1>5. [job[r] EXCEPT !.stage = "consumed"] \in TokenJobs BY <1>1 DEF TokenTypes, TokenJobs
<1>6. TokenTypes' BY <1>1, <1>2, <1>4, <1>5 DEF TokenTypes
<1>7. \A q \in Sessions : /\ job'[q].token = job[q].token
                          /\ q # r => job'[q] = job[q]
  BY <1>1, <1>2 DEF TokenTypes, TokenJobs
<1>8. job'[r].stage = "consumed" BY <1>1, <1>2 DEF TokenTypes, TokenJobs
<1>9. JobsHaveTokens' BY <1>1, <1>3, <1>4, <1>7 DEF JobsHaveTokens
<1>10. ConsumedMarked'
  <2> SUFFICES ASSUME NEW q \in Sessions, job'[q].stage \in {"consumed", "set"}
               PROVE  tokens'[job'[q].token].used /\ job'[q].token \in Tok!Issued'
    BY DEF ConsumedMarked, Marked
  <2>1. CASE q = r BY <1>4, <1>7, <2>1 DEF Marked
  <2>2. CASE q # r
    <3>1. Marked(job[q].token) BY <1>1, <1>7, <2>2 DEF ConsumedMarked
    <3>2. job[q].token \in Tokens BY <3>1 DEF Marked, Tok!Issued
    <3>3. tokens'[job[q].token].used /\ job[q].token \in Tok!Issued' BY <1>4, <3>1, <3>2 DEF Marked
    <3>4. QED BY <1>7, <3>3
  <2>3. QED BY <2>1, <2>2
<1>11. Counted'
  <2> SUFFICES ASSUME NEW t \in Tokens, Marked(t)'
               PROVE  applied[t] + Cardinality(Holders(t)') <= readers'[t]
    BY <1>2 DEF Counted
  <2>1. Holders(t)' = Holders(t) BY <1>2, <1>7, <1>8 DEF Holders
  <2>2. CASE Marked(t) BY <1>1, <1>4, <2>1, <2>2 DEF Counted, FirstMarksCount
  <2>3. CASE ~Marked(t)
    <3>1. readers'[t] = Cardinality(Holders(t)) /\ applied[t] = 0
      BY <1>1, <1>4, <2>3 DEF FirstMarksCount, ServedMarked
    <3>2. QED BY <2>1, <3>1, HoldersCount
  <2>4. QED BY <2>2, <2>3
<1>12. ServedMarked' BY <1>1, <1>2, <1>4 DEF ServedMarked
<1>13. ClosedMarked' BY <1>1, <1>2, <1>4 DEF ClosedMarked, Marked, Tok!Issued
<1>14. QED BY <1>6, <1>9, <1>10, <1>11, <1>12, <1>13 DEF TokensInv

\* What the other requests and the clock do.
LEMMA RequestsKeepTokens ==
  ASSUME Tok!TokensAssumption, TokensInv, NEW r \in Sessions,
         Tok!VerifyEmail(r) \/ Tok!SetPassword(r) \/ Tok!InvalidateOthers(r) \/ Tok!Fail(r)
  PROVE  TokensInv'
<1> USE IdleIsJob
<1>1. TokenTypes /\ JobsHaveTokens /\ ConsumedMarked /\ Counted /\ ServedMarked /\ ClosedMarked BY DEF TokensInv
<1>2. CASE Tok!VerifyEmail(r)
  <2>1. job' = [job EXCEPT ![r] = Tok!Idle] BY <1>2 DEF Tok!VerifyEmail, Tok!End
  <2>2. job' \in [Sessions -> TokenJobs] /\ (\A q \in Sessions \ {r} : job'[q] = job[q]) /\ job'[r].stage = "idle"
    BY <1>1, <2>1 DEF TokenTypes, Tok!Idle
  <2>3. QED BY <1>2, <2>2, ServeKeeps DEF Tok!VerifyEmail
<1>3. CASE Tok!SetPassword(r)
  <2>1. job' = [job EXCEPT ![r].stage = "set"] BY <1>3 DEF Tok!SetPassword, Tok!Goto
  <2>2. job' \in [Sessions -> TokenJobs] /\ (\A q \in Sessions \ {r} : job'[q] = job[q])
        /\ job'[r].stage = "set" /\ job'[r].token = job[r].token
    BY <1>1, <2>1 DEF TokenTypes, TokenJobs
  <2>3. QED BY <1>3, <2>2, ServeKeeps DEF Tok!SetPassword
<1>4. CASE Tok!InvalidateOthers(r)
  <2>1. /\ job' = [job EXCEPT ![r] = Tok!Idle] /\ UNCHANGED applied
        /\ Tok!Mark(Tok!ResetTokens) /\ closed' = closed \union Tok!ResetTokens
    BY <1>4 DEF Tok!InvalidateOthers, Tok!End, Tok!EveryReset
  <2>2. Tok!ResetTokens \subseteq Tok!Issued BY DEF Tok!ResetTokens
  <2>3. /\ tokens' \in [Tokens -> TokenRows \union {None}] /\ readers' \in [Tokens -> Nat]
        /\ \A t \in Tok!Issued : t \in Tok!Issued'
        /\ \A t \in Tokens : Marked(t) => Marked(t)'
        /\ \A t \in Tok!ResetTokens : t \in Tokens /\ Marked(t)'
        /\ FirstMarksCount
    BY <2>1, <2>2, MarkMarks
  <2>4. TokenTypes' BY <1>1, <2>1, <2>3 DEF TokenTypes
  <2>5. \A q \in Sessions : job'[q].stage = "idle"
           \/ (job'[q].stage = job[q].stage /\ job'[q].token = job[q].token)
    BY <1>1, <2>1 DEF TokenTypes, Tok!Idle
  <2>6. \A t \in closed' : t \in Tokens /\ (t \in closed \/ Marked(t)')
    BY <1>1, <2>1, <2>3 DEF ClosedMarked, Marked, Tok!Issued
  <2>7. QED BY <2>1, <2>3, <2>4, <2>5, <2>6, QuietTokenStep
<1>5. CASE Tok!Fail(r)
  <2>1. job' = [job EXCEPT ![r] = Tok!Idle] /\ UNCHANGED <<tokens, applied, readers, closed>> BY <1>5 DEF Tok!Fail, Tok!End
  <2>2. TokenTypes' BY <1>1, <2>1 DEF TokenTypes
  <2>3. \A q \in Sessions : job'[q].stage = "idle"
           \/ (job'[q].stage = job[q].stage /\ job'[q].token = job[q].token)
    BY <1>1, <2>1 DEF TokenTypes, Tok!Idle
  <2>4. /\ \A t \in Tokens : Marked(t) => Marked(t)'
        /\ \A t \in Tok!Issued : t \in Tok!Issued'
        /\ \A t \in closed' : t \in Tokens /\ (t \in closed \/ Marked(t)')
        /\ FirstMarksCount
    BY <1>1, <2>1 DEF Marked, Tok!Issued, ClosedMarked, FirstMarksCount
  <2>5. QED BY <2>1, <2>2, <2>3, <2>4, QuietTokenStep
<1>6. QED BY <1>2, <1>3, <1>4, <1>5

\* createToken.
LEMMA CreateTokenKeeps == ASSUME Tok!TokensAssumption, TokensInv, NEW u \in Tokens, Tok!CreateToken(u) PROVE TokensInv'
<1>1. TokenTypes /\ JobsHaveTokens /\ ConsumedMarked /\ Counted /\ ServedMarked /\ ClosedMarked BY DEF TokensInv
<1>2. /\ tokens' = [tokens EXCEPT ![u] = [used |-> FALSE, left |-> TokenTtl[TypeOf[u]]]]
      /\ UNCHANGED <<job, applied, readers, closed>> /\ u \notin Tok!Issued
  BY DEF Tok!CreateToken
<1>3. [used |-> FALSE, left |-> TokenTtl[TypeOf[u]]] \in TokenRows BY TokenConstants DEF TokenRows
<1>4. TokenTypes' BY <1>1, <1>2, <1>3 DEF TokenTypes
<1>5. \A t \in Tokens : t # u => tokens'[t] = tokens[t] BY <1>1, <1>2 DEF TokenTypes
<1>6. \A t \in Tok!Issued : t \in Tok!Issued' BY <1>2, <1>5 DEF Tok!Issued
<1>7. \A t \in Tokens : Marked(t) => Marked(t)' BY <1>2, <1>5, <1>6 DEF Marked
<1>8. \A t \in closed' : t \in Tokens /\ (t \in closed \/ Marked(t)')
  BY <1>1, <1>2 DEF ClosedMarked, Marked, Tok!Issued
<1>9. FirstMarksCount BY <1>1, <1>2, <1>3, <1>5 DEF FirstMarksCount, Marked, Tok!Issued, TokenTypes
<1>10. QED BY <1>2, <1>4, <1>6, <1>7, <1>8, <1>9, QuietTokenStep

LEMMA TokensAge == ASSUME Tok!TokensAssumption, TokensInv, Tok!Elapse PROVE TokensInv'
<1>1. TokenTypes /\ JobsHaveTokens /\ ConsumedMarked /\ Counted /\ ServedMarked /\ ClosedMarked BY DEF TokensInv
<1>2. /\ job' = [r \in Sessions |-> IF Tok!At(r, "idle") THEN Tok!Idle ELSE [job[r] EXCEPT !.age = job[r].age + 1]]
      /\ tokens' = [t \in Tokens |-> IF t \notin Tok!Issued \/ tokens[t].left < -TokenPatience THEN tokens[t]
                                     ELSE [tokens[t] EXCEPT !.left = tokens[t].left - 1]]
      /\ UNCHANGED <<applied, readers, closed>>
  BY DEF Tok!Elapse
<1>3. \A r \in Sessions : /\ job'[r] \in TokenJobs
                          /\ job'[r].stage = "idle"
                               \/ (job'[r].stage = job[r].stage /\ job'[r].token = job[r].token)
  <2> SUFFICES ASSUME NEW r \in Sessions
               PROVE  /\ job'[r] \in TokenJobs
                      /\ job'[r].stage = "idle"
                           \/ (job'[r].stage = job[r].stage /\ job'[r].token = job[r].token)
    OBVIOUS
  <2>1. job[r] \in TokenJobs BY <1>1 DEF TokenTypes
  <2>2. CASE Tok!At(r, "idle") BY <1>2, <2>2, IdleIsJob DEF Tok!Idle
  <2>3. CASE ~Tok!At(r, "idle")
    <3>1. job'[r] = [job[r] EXCEPT !.age = job[r].age + 1] BY <1>2, <2>3
    <3>2. QED BY <2>1, <3>1 DEF TokenJobs
  <2>4. QED BY <2>2, <2>3
<1>4. \A t \in Tokens : /\ tokens'[t] \in TokenRows \union {None}
                        /\ t \in Tok!Issued => tokens'[t] # None /\ tokens'[t].used = tokens[t].used
                        /\ t \notin Tok!Issued => tokens'[t] = tokens[t]
  <2> SUFFICES ASSUME NEW t \in Tokens
               PROVE  /\ tokens'[t] \in TokenRows \union {None}
                      /\ t \in Tok!Issued => tokens'[t] # None /\ tokens'[t].used = tokens[t].used
                      /\ t \notin Tok!Issued => tokens'[t] = tokens[t]
    OBVIOUS
  <2>1. CASE t \notin Tok!Issued \/ tokens[t].left < -TokenPatience
    <3>1. tokens'[t] = tokens[t] BY <1>2, <2>1
    <3>2. QED BY <1>1, <3>1 DEF TokenTypes, Tok!Issued
  <2>2. CASE ~(t \notin Tok!Issued \/ tokens[t].left < -TokenPatience)
    <3>1. tokens'[t] = [tokens[t] EXCEPT !.left = tokens[t].left - 1] BY <1>2, <2>2
    <3>2. tokens[t] \in TokenRows BY <1>1, <2>2 DEF TokenTypes, Tok!Issued
    <3>3. tokens'[t] \in TokenRows /\ tokens'[t].used = tokens[t].used BY <3>1, <3>2 DEF TokenRows
    <3>4. t \in Tok!Issued BY <2>2
    <3>5. QED BY <3>3, <3>4, TokenConstants
  <2>3. QED BY <2>1, <2>2
<1>5. TokenTypes'
  <2>1. job' = [r \in Sessions |-> job'[r]] /\ tokens' = [t \in Tokens |-> tokens'[t]] BY <1>2
  <2>2. QED BY <1>1, <1>2, <1>3, <1>4, <2>1 DEF TokenTypes
<1>6. \A t \in Tok!Issued : t \in Tok!Issued' BY <1>4 DEF Tok!Issued
<1>7. \A t \in Tokens : Marked(t) => Marked(t)' BY <1>4, <1>6 DEF Marked
<1>8. \A t \in closed' : t \in Tokens /\ (t \in closed \/ Marked(t)')
  BY <1>1, <1>2 DEF ClosedMarked, Marked, Tok!Issued
<1>9. FirstMarksCount BY <1>2, <1>4 DEF FirstMarksCount, Marked, Tok!Issued
<1>10. QED BY <1>2, <1>3, <1>5, <1>6, <1>7, <1>8, <1>9, QuietTokenStep

-----------------------------------------------------------------------------
\* The tokens' part of every behaviour.
LEMMA TokensStart == ASSUME Tok!TokensAssumption, Tok!Init PROVE TokensInv
<1>1. TokenTypes BY IdleIsJob DEF Tok!Init, TokenTypes
<1>2. Tok!Issued = {} /\ closed = {} BY DEF Tok!Init, Tok!Issued
<1>3. \A r \in Sessions : job[r].stage = "idle" BY DEF Tok!Init, Tok!Idle
<1>4. JobsHaveTokens /\ ConsumedMarked BY <1>3 DEF JobsHaveTokens, ConsumedMarked
<1>5. Counted BY <1>2 DEF Counted, Marked
<1>6. ServedMarked /\ ClosedMarked BY <1>2 DEF Tok!Init, ServedMarked, ClosedMarked
<1>7. QED BY <1>1, <1>4, <1>5, <1>6 DEF TokensInv

LEMMA TokensStep ==
  ASSUME Tok!TokensAssumption, TokensInv, Tok!Next \/ UNCHANGED tokenVars PROVE TokensInv'
<1>1. CASE Tok!Next
  BY <1>1, CreateTokenKeeps, CheckKeeps, ConsumeKeeps, RequestsKeepTokens, TokensAge DEF Tok!Next
<1>2. CASE UNCHANGED tokenVars
  BY <1>2 DEF tokenVars, TokensInv, TokenTypes, JobsHaveTokens, ConsumedMarked, Counted, ServedMarked,
              ClosedMarked, Holders, Marked, Tok!Issued
<1>3. QED BY <1>1, <1>2

-----------------------------------------------------------------------------

\* What a request in flight carries: the odds shown at the click, sent as the
\* expected ones, and for the legs resolved so far the same odds.
BetRequest == [expected |-> request.expected, legs |-> request.legs, live |-> request.live, seen |-> request.seen]
RequestBound ==
  request # None =>
    /\ request = BetRequest
    /\ request.seen = request.expected
    /\ request.expected = [s \in DOMAIN request.expected |-> request.expected[s]]
    /\ DOMAIN request.expected # {}
    /\ DOMAIN request.legs \subseteq DOMAIN request.expected
    /\ DOMAIN request.legs = {} \/ request.legs = [s \in DOMAIN request.legs |-> request.expected[s]]

LiveOddsInv == RequestBound /\ Live!AcceptedAsSeen

-----------------------------------------------------------------------------
\* place, in the browser: what is sent is what is shown.
LEMMA PlaceKeeps == ASSUME LiveOddsInv, Live!Place PROVE LiveOddsInv'
<1>1. /\ Live!OnSlip # {} /\ UNCHANGED bet
      /\ request' = [expected |-> [s \in Live!OnSlip |-> Live!Displayed[s]], legs |-> <<>>,
                     live |-> live, seen |-> [s \in Live!OnSlip |-> Live!Displayed[s]]]
  BY DEF Live!Place, Live!Expected
<1>2. DOMAIN request'.expected = Live!OnSlip /\ DOMAIN request'.legs = {} BY <1>1
<1>3. RequestBound' BY <1>1, <1>2 DEF RequestBound, BetRequest
<1>4. QED BY <1>1, <1>3 DEF LiveOddsInv, Live!AcceptedAsSeen

\* placeBet: a leg is resolved only at the odds that were expected.
LEMMA ResolveKeeps == ASSUME LiveOddsInv, NEW s \in Selections, Live!ResolveLeg(s) PROVE LiveOddsInv'
<1>1. /\ request # None /\ odds[s] = request.expected[s] /\ UNCHANGED bet
      /\ s \in DOMAIN request.expected /\ s \notin DOMAIN request.legs
      /\ request' = [request EXCEPT !.legs = Live!With(request.legs, s, odds[s])]
  BY DEF Live!ResolveLeg, Live!Unresolved
<1>2. /\ request = BetRequest /\ request.seen = request.expected
      /\ request.expected = [t \in DOMAIN request.expected |-> request.expected[t]]
      /\ DOMAIN request.legs \subseteq DOMAIN request.expected
      /\ DOMAIN request.legs = {} \/ request.legs = [t \in DOMAIN request.legs |-> request.expected[t]]
  BY <1>1 DEF LiveOddsInv, RequestBound
<1> DEFINE legs == Live!With(request.legs, s, odds[s])
<1>3. request' = [expected |-> request.expected, legs |-> legs, live |-> request.live, seen |-> request.seen]
  BY <1>1, <1>2 DEF BetRequest
<1>4. /\ DOMAIN legs = DOMAIN request.legs \union {s}
      /\ legs = [t \in DOMAIN request.legs \union {s} |-> request.expected[t]]
  <2>1. \A t \in DOMAIN request.legs : request.legs[t] = request.expected[t] BY <1>2
  <2>2. QED BY <1>1, <2>1 DEF Live!With
<1>5. request'.expected = request.expected /\ request'.legs = legs /\ request'.live = request.live
      /\ request'.seen = request.seen
  BY <1>3
<1>6. RequestBound' BY <1>1, <1>2, <1>3, <1>4, <1>5 DEF RequestBound, BetRequest
<1>7. QED BY <1>1, <1>6 DEF LiveOddsInv, Live!AcceptedAsSeen

\* The bet is stored once every leg is resolved.
LEMMA AcceptKeeps == ASSUME LiveOddsInv, Live!Accept PROVE LiveOddsInv'
<1>1. /\ request # None /\ request' = None
      /\ DOMAIN request.expected \subseteq DOMAIN request.legs
      /\ bet' = [legs |-> request.legs, seen |-> request.seen]
  BY DEF Live!Accept, Live!Unresolved
<1>2. /\ request.seen = request.expected /\ DOMAIN request.expected # {}
      /\ request.expected = [s \in DOMAIN request.expected |-> request.expected[s]]
      /\ DOMAIN request.legs \subseteq DOMAIN request.expected
      /\ DOMAIN request.legs = {} \/ request.legs = [s \in DOMAIN request.legs |-> request.expected[s]]
  BY <1>1 DEF LiveOddsInv, RequestBound
<1>3. request.legs = request.seen BY <1>1, <1>2
<1>4. QED BY <1>1, <1>3 DEF LiveOddsInv, RequestBound, Live!AcceptedAsSeen

-----------------------------------------------------------------------------
LEMMA LiveOddsStart == ASSUME Live!Init PROVE LiveOddsInv
BY DEF Live!Init, LiveOddsInv, RequestBound, Live!AcceptedAsSeen

LEMMA LiveOddsStep == ASSUME LiveOddsInv, Live!Next \/ UNCHANGED oddsVars PROVE LiveOddsInv'
<1>1. ASSUME UNCHANGED <<request, bet>> PROVE LiveOddsInv'
  BY <1>1 DEF LiveOddsInv, RequestBound, BetRequest, Live!AcceptedAsSeen
<1>2. ASSUME request' = None, UNCHANGED bet PROVE LiveOddsInv'
  BY <1>2 DEF LiveOddsInv, RequestBound, Live!AcceptedAsSeen
<1>3. ASSUME NEW s \in Selections, Live!Toggle(s) \/ (\E price \in Prices : Live!Drift(s, price))
      PROVE  LiveOddsInv'
  BY <1>1, <1>3 DEF Live!Toggle, Live!Drift, Live!screen
<1>4. ASSUME NEW s \in Selections, Live!OddsChanged(s) PROVE LiveOddsInv'
  BY <1>2, <1>4 DEF Live!OddsChanged
<1>5. CASE Live!Publish \/ Live!TickFails \/ Live!Broadcast \/ Live!MessageLost
  BY <1>1, <1>5 DEF Live!Publish, Live!TickFails, Live!Broadcast, Live!MessageLost, Live!screen
<1>6. CASE \/ Live!Connect \/ Live!SnapshotRead \/ Live!SnapshotSend \/ Live!SnapshotFails
           \/ Live!Disconnect
  BY <1>1, <1>6 DEF Live!Connect, Live!SnapshotRead, Live!SnapshotSend, Live!SnapshotFails,
                    Live!Disconnect, Live!screen
<1>7. CASE Live!RequestFails BY <1>2, <1>7 DEF Live!RequestFails
<1>8. CASE UNCHANGED oddsVars BY <1>1, <1>8 DEF oddsVars
<1>9. QED
  BY <1>3, <1>4, <1>5, <1>6, <1>7, <1>8, PlaceKeeps, ResolveKeeps, AcceptKeeps DEF Live!Next

-----------------------------------------------------------------------------
\* What each step of Services is to one component.
LEMMA TokensAlone ==
  ASSUME [ServicesNext]_everything PROVE (Tok!Next \/ UNCHANGED tokenVars) /\ UNCHANGED focus
BY DEF ServicesNext, everything

LEMMA LiveOddsAlone ==
  ASSUME [ServicesNext]_everything PROVE (Live!Next \/ UNCHANGED oddsVars) /\ UNCHANGED focus
BY DEF ServicesNext, everything

THEOREM TokensInvariance == ServicesSpec => []TokensInv
<1>1. ServicesInit => TokensInv BY ServicesAssumption, TokensStart DEF ServicesInit
<1>2. TokensInv /\ [ServicesNext]_everything => TokensInv' BY ServicesAssumption, TokensAlone, TokensStep
<1>3. QED BY <1>1, <1>2, PTL DEF ServicesSpec

\* consumeToken: a token serves only requests that had checked it when it was first
\* marked, so one where requests follow each other.
THEOREM ServedPerReader == ServicesSpec => []ServesItsReaders
<1>1. TokensInv => ServesItsReaders
  <2> SUFFICES ASSUME TokensInv, NEW t \in Tokens PROVE applied[t] <= readers[t]
    BY DEF ServesItsReaders, Tok!ServesItsReaders
  <2>1. applied[t] \in Nat /\ readers[t] \in Nat BY DEF TokensInv, TokenTypes
  <2>2. Cardinality(Holders(t)) \in Nat BY HoldersCount, ServicesAssumption
  <2>3. CASE Marked(t) BY <2>1, <2>2, <2>3 DEF TokensInv, Counted
  <2>4. CASE ~Marked(t) BY <2>1, <2>4 DEF TokensInv, ServedMarked
  <2>5. QED BY <2>3, <2>4
<1>2. QED BY <1>1, TokensInvariance, PTL

\* resetPassword: what its last statement finds issued is usable no more, whichever
\* requests were between check and mark.
THEOREM ResetIsFinal == ServicesSpec => []ResetClosesTokens
<1>1. TokensInv => ResetClosesTokens
  BY DEF TokensInv, ClosedMarked, Marked, ResetClosesTokens, Tok!ResetClosesTokens, Tok!Usable, Tok!Unused
<1>2. QED BY <1>1, TokensInvariance, PTL

\* placeBet: no bet is accepted at other odds than the slip showed at the click.
THEOREM ShownOddsBind == ServicesSpec => []AcceptedAsSeen
<1>1. ServicesInit => LiveOddsInv BY LiveOddsStart DEF ServicesInit
<1>2. LiveOddsInv /\ [ServicesNext]_everything => LiveOddsInv' BY LiveOddsAlone, LiveOddsStep
<1>3. LiveOddsInv => AcceptedAsSeen BY DEF LiveOddsInv, AcceptedAsSeen
<1>4. QED BY <1>1, <1>2, <1>3, PTL DEF ServicesSpec

-----------------------------------------------------------------------------
\* Types of the tokens, and that a request has no token longer than it lasts: what
\* is left to a token a request has checked is at least minus its age.
InTime ==
  \A r \in Sessions : job[r].stage \in {"checked", "consumed"} => tokens[job[r].token].left + job[r].age >= 0

TimesInv == Tok!TypeOK /\ InTime

LEMMA RowIs ==
  ASSUME Tok!TokensAssumption, NEW entry \in Tok!Row
  PROVE  /\ entry \in TokenRows /\ entry # None /\ entry.left >= -TokenPatience - 1
         /\ \E type \in DOMAIN TokenTtl : TokenTtl[type] \in Nat /\ entry.left <= TokenTtl[type]
         /\ entry = [used |-> entry.used, left |-> entry.left] /\ entry.used \in BOOLEAN /\ entry.left \in Int
<1>1. PICK type \in DOMAIN TokenTtl : entry \in [used : BOOLEAN, left : (-TokenPatience - 1)..TokenTtl[type]]
  BY DEF Tok!Row
<1>2. TokenTtl[type] \in Nat /\ TokenPatience \in Nat BY TokenConstants
<1>3. QED BY <1>1, <1>2, TokenConstants DEF TokenRows

LEMMA IsRow ==
  ASSUME Tok!TokensAssumption, NEW used \in BOOLEAN, NEW left \in Int, left >= -TokenPatience - 1,
         NEW type \in DOMAIN TokenTtl, left <= TokenTtl[type]
  PROVE  [used |-> used, left |-> left] \in Tok!Row
<1>1. TokenTtl[type] \in Nat /\ TokenPatience \in Nat BY TokenConstants
<1>2. left \in (-TokenPatience - 1)..TokenTtl[type] BY <1>1
<1>3. [used |-> used, left |-> left] \in [used : BOOLEAN, left : (-TokenPatience - 1)..TokenTtl[type]] BY <1>2
<1>4. QED BY <1>3 DEF Tok!Row

LEMMA UsedRow ==
  ASSUME Tok!TokensAssumption, NEW entry \in Tok!Row
  PROVE  Tok!Used(entry) \in Tok!Row /\ Tok!Used(entry).left = entry.left
<1>1. PICK type \in DOMAIN TokenTtl : entry \in [used : BOOLEAN, left : (-TokenPatience - 1)..TokenTtl[type]]
  BY DEF Tok!Row
<1>2. /\ Tok!Used(entry) \in [used : BOOLEAN, left : (-TokenPatience - 1)..TokenTtl[type]]
      /\ Tok!Used(entry).left = entry.left
  BY <1>1 DEF Tok!Used
<1>3. QED BY <1>2 DEF Tok!Row

\* Steps that leave every token the time it has, and begin no request.
LEMMA TimelessStep ==
  ASSUME Tok!TokensAssumption, TokensInv, TimesInv, tokens' \in [Tokens -> Tok!Row \union {None}],
         job' \in [Sessions -> Tok!Job \union {Tok!Idle}],
         \A t \in Tok!Issued : tokens'[t] # None /\ tokens'[t].left = tokens[t].left,
         \A r \in Sessions : job'[r].stage \in {"checked", "consumed"} =>
            /\ job[r].stage \in {"checked", "consumed"}
            /\ job'[r].token = job[r].token /\ job'[r].age = job[r].age,
         password' \in Tokens \union {None}, verified' \in Tokens \union {None},
         applied' \in [Tokens -> Nat], readers' \in [Tokens -> Nat], closed' \subseteq Tok!Issued'
  PROVE  TimesInv'
<1>1. Tok!TypeOK' BY DEF TimesInv, Tok!TypeOK
<1>2. InTime'
  <2> SUFFICES ASSUME NEW r \in Sessions, job'[r].stage \in {"checked", "consumed"}
               PROVE  tokens'[job'[r].token].left + job'[r].age >= 0
    BY DEF InTime
  <2>1. job[r].stage \in {"checked", "consumed"} /\ job'[r].token = job[r].token /\ job'[r].age = job[r].age
    OBVIOUS
  <2>2. tokens[job[r].token].left + job[r].age >= 0 BY <2>1 DEF TimesInv, InTime
  <2>3. job[r].token \in Tok!Issued BY <2>1 DEF TokensInv, JobsHaveTokens
  <2>4. QED BY <2>1, <2>2, <2>3
<1>3. QED BY <1>1, <1>2 DEF TimesInv

LEMMA JobIs ==
  ASSUME TimesInv, NEW r \in Sessions, job[r].stage # "idle"
  PROVE  /\ job[r] \in Tok!Job /\ job[r].token \in Tokens /\ job[r].age \in 0..TokenPatience
<1>1. job[r] \in Tok!Job BY DEF TimesInv, Tok!TypeOK, Tok!Idle
<1>2. QED BY <1>1 DEF Tok!Job

LEMMA RequestsKeepTimes ==
  ASSUME Tok!TokensAssumption, TokensInv, TimesInv, NEW r \in Sessions,
         \/ Tok!Consume(r) \/ Tok!VerifyEmail(r) \/ Tok!SetPassword(r)
         \/ Tok!InvalidateOthers(r) \/ Tok!Fail(r)
  PROVE  TimesInv'
<1>1. /\ tokens \in [Tokens -> Tok!Row \union {None}] /\ job \in [Sessions -> Tok!Job \union {Tok!Idle}]
      /\ password \in Tokens \union {None} /\ verified \in Tokens \union {None}
      /\ applied \in [Tokens -> Nat] /\ readers \in [Tokens -> Nat] /\ closed \subseteq Tok!Issued
  BY DEF TimesInv, Tok!TypeOK
<1>2. job[r].stage # "idle" BY DEF Tok!Consume, Tok!VerifyEmail, Tok!SetPassword, Tok!InvalidateOthers, Tok!Fail, Tok!At
<1>3. job[r] \in Tok!Job /\ job[r].token \in Tok!Issued /\ job[r].token \in Tokens
  BY <1>2, JobIs DEF TokensInv, JobsHaveTokens
<1>4. \A t \in Tok!Issued : t \in Tokens /\ tokens[t] \in Tok!Row /\ tokens[t] # None BY <1>1 DEF Tok!Issued
<1>5. ASSUME Tok!End(r)
      PROVE  /\ job' \in [Sessions -> Tok!Job \union {Tok!Idle}]
             /\ \A q \in Sessions : job'[q].stage \in {"checked", "consumed"} => job'[q] = job[q]
  <2>1. job' = [job EXCEPT ![r] = Tok!Idle] BY <1>5 DEF Tok!End
  <2>2. \A q \in Sessions : job'[q] = IF q = r THEN Tok!Idle ELSE job[q] BY <1>1, <2>1
  <2>3. Tok!Idle.stage = "idle" BY DEF Tok!Idle
  <2>4. QED BY <1>1, <2>1, <2>2, <2>3
<1>6. ASSUME NEW stage \in {"consumed", "set"}, Tok!Goto(r, stage), job[r].stage = "checked" \/ stage = "set"
      PROVE  /\ job' \in [Sessions -> Tok!Job \union {Tok!Idle}]
             /\ \A q \in Sessions : job'[q].stage \in {"checked", "consumed"} =>
                  /\ job[q].stage \in {"checked", "consumed"}
                  /\ job'[q].token = job[q].token /\ job'[q].age = job[q].age
  <2> DEFINE j == [job[r] EXCEPT !.stage = stage]
  <2>1. job' = [job EXCEPT ![r] = j] BY <1>6 DEF Tok!Goto
  <2>2. j \in Tok!Job /\ j.stage = stage /\ j.token = job[r].token /\ j.age = job[r].age
    BY <1>3, <1>6 DEF Tok!Job
  <2> HIDE DEF j
  <2>3. \A q \in Sessions : job'[q] = IF q = r THEN j ELSE job[q] BY <1>1, <2>1
  <2>4. QED BY <1>1, <1>6, <2>1, <2>2, <2>3
<1>7. ASSUME NEW S, S \subseteq Tok!Issued, Tok!Mark(S)
      PROVE  /\ tokens' \in [Tokens -> Tok!Row \union {None}] /\ readers' \in [Tokens -> Nat]
             /\ \A t \in Tok!Issued : tokens'[t] # None /\ tokens'[t].left = tokens[t].left
             /\ Tok!Issued \subseteq Tok!Issued'
  <2>1. tokens' = [t \in Tokens |-> IF t \in S THEN Tok!Used(tokens[t]) ELSE tokens[t]]
    BY <1>7 DEF Tok!Mark
  <2>2. \A t \in Tok!Issued : Tok!Used(tokens[t]) \in Tok!Row /\ Tok!Used(tokens[t]).left = tokens[t].left
    BY <1>4, UsedRow
  <2>3. tokens' \in [Tokens -> Tok!Row \union {None}] BY <1>1, <1>7, <2>1, <2>2
  <2>4. \A t \in Tok!Issued : tokens'[t] \in Tok!Row /\ tokens'[t].left = tokens[t].left
    BY <1>4, <2>1, <2>2
  <2>5. \A t \in Tok!Issued : tokens'[t] # None BY <2>4, RowIs
  <2>6. Tok!Issued \subseteq Tok!Issued' BY <1>4, <2>5 DEF Tok!Issued
  <2>7. readers' \in [Tokens -> Nat] BY <1>7, MarkMarks
  <2>8. QED BY <2>3, <2>4, <2>5, <2>6, <2>7
<1>8. CASE Tok!Consume(r)
  <2>1. /\ Tok!Mark({job[r].token}) /\ Tok!Goto(r, "consumed") /\ job[r].stage = "checked"
        /\ UNCHANGED <<password, verified, applied, closed>>
    BY <1>8 DEF Tok!Consume, Tok!At
  <2>2. {job[r].token} \subseteq Tok!Issued BY <1>3
  <2>3. /\ tokens' \in [Tokens -> Tok!Row \union {None}] /\ readers' \in [Tokens -> Nat]
        /\ \A t \in Tok!Issued : tokens'[t] # None /\ tokens'[t].left = tokens[t].left
        /\ Tok!Issued \subseteq Tok!Issued'
    BY <1>7, <2>1, <2>2
  <2>4. QED BY <1>1, <1>6, <2>1, <2>3, TimelessStep
<1>9. CASE Tok!VerifyEmail(r)
  <2>1. /\ applied' = [applied EXCEPT ![job[r].token] = applied[job[r].token] + 1] /\ verified' = job[r].token
        /\ Tok!End(r) /\ UNCHANGED <<tokens, password, readers, closed>>
    BY <1>9 DEF Tok!VerifyEmail, Tok!Serve
  <2>2. applied' \in [Tokens -> Nat] BY <1>1, <1>3, <2>1
  <2>3. closed' \subseteq Tok!Issued' BY <1>1, <2>1 DEF Tok!Issued
  <2>4. QED BY <1>1, <1>3, <1>4, <1>5, <2>1, <2>2, <2>3, TimelessStep
<1>10. CASE Tok!SetPassword(r)
  <2>1. /\ applied' = [applied EXCEPT ![job[r].token] = applied[job[r].token] + 1] /\ password' = job[r].token
        /\ Tok!Goto(r, "set") /\ UNCHANGED <<tokens, verified, readers, closed>>
    BY <1>10 DEF Tok!SetPassword, Tok!Serve
  <2>2. applied' \in [Tokens -> Nat] BY <1>1, <1>3, <2>1
  <2>3. closed' \subseteq Tok!Issued' BY <1>1, <2>1 DEF Tok!Issued
  <2>4. QED BY <1>1, <1>3, <1>4, <1>6, <2>1, <2>2, <2>3, TimelessStep
<1>11. CASE Tok!InvalidateOthers(r)
  <2>1. /\ Tok!Mark(Tok!ResetTokens) /\ closed' = closed \union Tok!ResetTokens
        /\ Tok!End(r) /\ UNCHANGED <<password, verified, applied>>
    BY <1>11 DEF Tok!InvalidateOthers, Tok!EveryReset
  <2>2. Tok!ResetTokens \subseteq Tok!Issued BY DEF Tok!ResetTokens
  <2>3. /\ tokens' \in [Tokens -> Tok!Row \union {None}] /\ readers' \in [Tokens -> Nat]
        /\ \A t \in Tok!Issued : tokens'[t] # None /\ tokens'[t].left = tokens[t].left
        /\ Tok!Issued \subseteq Tok!Issued'
    BY <1>7, <2>1, <2>2
  <2>4. closed' \subseteq Tok!Issued' BY <1>1, <2>1, <2>2, <2>3
  <2>5. QED BY <1>1, <1>5, <2>1, <2>3, <2>4, TimelessStep
<1>12. CASE Tok!Fail(r)
  <2>1. Tok!End(r) /\ UNCHANGED <<tokens, password, verified, applied, readers, closed>> BY <1>12 DEF Tok!Fail
  <2>2. closed' \subseteq Tok!Issued' BY <1>1, <2>1 DEF Tok!Issued
  <2>3. QED BY <1>1, <1>4, <1>5, <2>1, <2>2, TimelessStep
<1>13. QED BY <1>8, <1>9, <1>10, <1>11, <1>12

\* createToken, and the SELECT of consumeToken.
LEMMA NewcomersKeepTimes ==
  ASSUME Tok!TokensAssumption, TokensInv, TimesInv, NEW t \in Tokens,
         Tok!CreateToken(t) \/ \E r \in Sessions : Tok!Check(r, t)
  PROVE  TimesInv'
<1>1. /\ tokens \in [Tokens -> Tok!Row \union {None}] /\ job \in [Sessions -> Tok!Job \union {Tok!Idle}]
      /\ password \in Tokens \union {None} /\ verified \in Tokens \union {None}
      /\ applied \in [Tokens -> Nat] /\ readers \in [Tokens -> Nat] /\ closed \subseteq Tok!Issued
  BY DEF TimesInv, Tok!TypeOK
<1>2. CASE Tok!CreateToken(t)
  <2> DEFINE entry == [used |-> FALSE, left |-> TokenTtl[TypeOf[t]]]
  <2>1. /\ t \notin Tok!Issued /\ tokens' = [tokens EXCEPT ![t] = entry]
        /\ UNCHANGED <<job, password, verified, applied, readers, closed>>
    BY <1>2 DEF Tok!CreateToken
  <2>2. TypeOf[t] \in DOMAIN TokenTtl /\ TokenTtl[TypeOf[t]] \in Nat /\ TokenPatience \in Nat BY TokenConstants
  <2>3. FALSE \in BOOLEAN /\ TokenTtl[TypeOf[t]] \in Int /\ TokenTtl[TypeOf[t]] >= -TokenPatience - 1 BY <2>2
  <2>4. entry \in Tok!Row
    <3>1. TokenTtl[TypeOf[t]] <= TokenTtl[TypeOf[t]] BY <2>2
    <3>2. QED BY <2>2, <2>3, <3>1, IsRow
  <2> HIDE DEF entry
  <2>5. tokens' \in [Tokens -> Tok!Row \union {None}] BY <1>1, <2>1, <2>4
  <2>6. \A u \in Tok!Issued : u \in Tokens /\ u # t /\ tokens'[u] = tokens[u] /\ tokens[u] # None
    BY <1>1, <2>1 DEF Tok!Issued
  <2>7. closed' \subseteq Tok!Issued' BY <1>1, <2>1, <2>6 DEF Tok!Issued
  <2>8. QED BY <1>1, <2>1, <2>5, <2>6, <2>7, TimelessStep
<1>3. ASSUME NEW r \in Sessions, Tok!Check(r, t) PROVE TimesInv'
  <2> DEFINE j == [stage |-> "checked", token |-> t, age |-> 0]
  <2>1. /\ t \in Tok!Issued /\ tokens[t].left >= 0 /\ job' = [job EXCEPT ![r] = j]
        /\ UNCHANGED <<tokens, password, verified, applied, readers, closed>>
    BY <1>3 DEF Tok!Check, Tok!Usable
  <2>2. j \in Tok!Job /\ j.token = t /\ j.age = 0 BY TokenConstants DEF Tok!Job
  <2> HIDE DEF j
  <2>3. \A q \in Sessions : job'[q] = IF q = r THEN j ELSE job[q] BY <1>1, <2>1
  <2>4. tokens[t] \in Tok!Row BY <1>1, <2>1 DEF Tok!Issued
  <2>5. tokens[t].left + j.age >= 0 BY <2>1, <2>2, <2>4, RowIs
  <2>6. InTime' BY <2>1, <2>2, <2>3, <2>5 DEF TimesInv, InTime
  <2>7. job' \in [Sessions -> Tok!Job \union {Tok!Idle}] BY <1>1, <2>1, <2>2
  <2>8. Tok!TypeOK' BY <1>1, <2>1, <2>7 DEF Tok!TypeOK, Tok!Issued
  <2>9. QED BY <2>6, <2>8 DEF TimesInv
<1>4. QED BY <1>2, <1>3

LEMMA TimesAge == ASSUME Tok!TokensAssumption, TokensInv, TimesInv, Tok!Elapse PROVE TimesInv'
<1>1. /\ tokens \in [Tokens -> Tok!Row \union {None}] /\ job \in [Sessions -> Tok!Job \union {Tok!Idle}]
      /\ closed \subseteq Tok!Issued
  BY DEF TimesInv, Tok!TypeOK
<1>2. /\ \A r \in Sessions : Tok!At(r, "idle") \/ job[r].age < TokenPatience
      /\ job' = [r \in Sessions |-> IF Tok!At(r, "idle") THEN Tok!Idle ELSE [job[r] EXCEPT !.age = job[r].age + 1]]
      /\ tokens' = [t \in Tokens |-> IF t \notin Tok!Issued \/ tokens[t].left < -TokenPatience THEN tokens[t]
                                     ELSE [tokens[t] EXCEPT !.left = tokens[t].left - 1]]
      /\ UNCHANGED <<password, verified, applied, readers, closed>>
  BY DEF Tok!Elapse
<1>3. TokenPatience \in Nat BY TokenConstants
<1>4. ASSUME NEW r \in Sessions
      PROVE  /\ job'[r] \in Tok!Job \union {Tok!Idle}
             /\ job'[r].stage # "idle" => /\ job[r].stage = job'[r].stage
                                          /\ job'[r].token = job[r].token
                                          /\ job'[r].age = job[r].age + 1
  <2>1. CASE job[r].stage = "idle"
    <3>1. job'[r] = Tok!Idle BY <1>2, <2>1 DEF Tok!At
    <3>2. QED BY <3>1 DEF Tok!Idle
  <2>2. CASE job[r].stage # "idle"
    <3>1. job'[r] = [job[r] EXCEPT !.age = job[r].age + 1] /\ job[r].age < TokenPatience
      BY <1>2, <2>2 DEF Tok!At
    <3>2. job[r] \in Tok!Job /\ job[r].age + 1 \in 0..TokenPatience BY <1>3, <2>2, <3>1, JobIs
    <3>3. QED BY <3>1, <3>2 DEF Tok!Job
  <2>3. QED BY <2>1, <2>2
<1>5. ASSUME NEW t \in Tok!Issued
      PROVE  tokens'[t] \in Tok!Row /\ tokens[t] \in Tok!Row /\ tokens'[t].left >= tokens[t].left - 1
  <2>1. t \in Tokens /\ tokens[t] \in Tok!Row BY <1>1 DEF Tok!Issued
  <2>2. CASE tokens[t].left < -TokenPatience
    <3>1. tokens'[t] = tokens[t] BY <1>2, <2>1, <2>2
    <3>2. QED BY <2>1, <3>1, RowIs
  <2>3. CASE ~(tokens[t].left < -TokenPatience)
    <3>1. PICK type \in DOMAIN TokenTtl : TokenTtl[type] \in Nat /\ tokens[t].left <= TokenTtl[type] BY <2>1, RowIs
    <3>2. tokens[t] = [used |-> tokens[t].used, left |-> tokens[t].left] /\ tokens[t].used \in BOOLEAN
          /\ tokens[t].left \in Int
      BY <2>1, RowIs
    <3>3. tokens'[t] = [tokens[t] EXCEPT !.left = tokens[t].left - 1] BY <1>2, <2>1, <2>3
    <3>4. tokens'[t] = [used |-> tokens[t].used, left |-> tokens[t].left - 1] BY <3>2, <3>3
    <3>5. tokens[t].left - 1 \in Int /\ tokens[t].left - 1 >= -TokenPatience - 1 /\ tokens[t].left - 1 <= TokenTtl[type]
      BY <1>3, <2>3, <3>1, <3>2
    <3>6. [used |-> tokens[t].used, left |-> tokens[t].left - 1] \in Tok!Row BY <3>1, <3>2, <3>5, IsRow
    <3>7. tokens'[t].left = tokens[t].left - 1 BY <3>4
    <3>8. QED BY <2>1, <3>2, <3>4, <3>6, <3>7
  <2>4. QED BY <2>2, <2>3
<1>6. tokens' \in [Tokens -> Tok!Row \union {None}]
  <2>1. \A t \in Tokens : t \notin Tok!Issued => tokens'[t] = tokens[t] BY <1>2
  <2>2. \A t \in Tokens : tokens'[t] \in Tok!Row \union {None} BY <1>1, <1>5, <2>1
  <2>3. tokens' = [t \in Tokens |-> tokens'[t]] BY <1>2
  <2>4. QED BY <2>2, <2>3
<1>7. job' \in [Sessions -> Tok!Job \union {Tok!Idle}]
  <2>1. job' = [r \in Sessions |-> job'[r]] BY <1>2
  <2>2. QED BY <1>4, <2>1
<1>8. closed' \subseteq Tok!Issued'
  <2>1. \A t \in Tok!Issued : tokens'[t] # None BY <1>5, RowIs
  <2>2. QED BY <1>1, <1>2, <2>1 DEF Tok!Issued
<1>9. Tok!TypeOK' BY <1>2, <1>6, <1>7, <1>8 DEF TimesInv, Tok!TypeOK
<1>10. InTime'
  <2> SUFFICES ASSUME NEW r \in Sessions, job'[r].stage \in {"checked", "consumed"}
               PROVE  tokens'[job'[r].token].left + job'[r].age >= 0
    BY DEF InTime
  <2>1. job[r].stage = job'[r].stage /\ job'[r].token = job[r].token /\ job'[r].age = job[r].age + 1 BY <1>4
  <2>2. tokens[job[r].token].left + job[r].age >= 0 BY <2>1 DEF TimesInv, InTime
  <2>3. job[r].token \in Tok!Issued BY <2>1 DEF TokensInv, JobsHaveTokens
  <2>4. job[r].age \in Int BY <2>1, JobIs
  <2>5. /\ tokens'[job[r].token].left >= tokens[job[r].token].left - 1
        /\ tokens'[job[r].token].left \in Int /\ tokens[job[r].token].left \in Int
    BY <1>5, <2>3, RowIs
  <2>6. QED BY <2>1, <2>2, <2>4, <2>5
<1>11. QED BY <1>9, <1>10 DEF TimesInv

LEMMA TimesStart == ASSUME Tok!TokensAssumption, Tok!Init PROVE TimesInv
<1>1. Tok!TypeOK BY DEF Tok!Init, Tok!TypeOK
<1>2. InTime BY DEF Tok!Init, Tok!Idle, InTime
<1>3. QED BY <1>1, <1>2 DEF TimesInv

LEMMA TimesStep ==
  ASSUME Tok!TokensAssumption, TokensInv, TimesInv, Tok!Next \/ UNCHANGED tokenVars
  PROVE  TimesInv'
<1>1. CASE Tok!Next BY <1>1, RequestsKeepTimes, NewcomersKeepTimes, TimesAge DEF Tok!Next
<1>2. CASE UNCHANGED tokenVars BY <1>2 DEF tokenVars, TimesInv, InTime, Tok!TypeOK, Tok!Issued
<1>3. QED BY <1>1, <1>2

LEMMA TimesInvariance == ServicesSpec => []TimesInv
<1>1. ServicesInit => TimesInv BY ServicesAssumption, TimesStart DEF ServicesInit
<1>2. TokensInv /\ TimesInv /\ [ServicesNext]_everything => TimesInv'
  BY ServicesAssumption, TokensAlone, TimesStep
<1>3. QED BY <1>1, <1>2, TokensInvariance, PTL DEF ServicesSpec

\* verifyEmail, resetPassword: what they write is by a token that had not expired when
\* the request checked it.
THEOREM ExpiredTokensAreIdle == ServicesSpec => ExpiredTokensChangeNothing
<1> DEFINE Timely ==
      \A r \in Sessions :
        Tok!VerifyEmail(r) \/ Tok!SetPassword(r) => tokens[job[r].token].left + job[r].age >= 0
<1>1. TimesInv => Timely
  BY DEF TimesInv, InTime, Tok!VerifyEmail, Tok!SetPassword, Tok!At
<1>2. QED
  BY <1>1, TimesInvariance, PTL DEF ExpiredTokensChangeNothing, Tok!ExpiredTokensChangeNothing

-----------------------------------------------------------------------------
\* Accounts: what the copy of a request was when its handler checked it.
SetupsFoundItOff ==
  \A r \in Sessions : errand[r].op = "setup" => ~errand[r].copy.enabled /\ errand[r].secret # None
EnablesKeepTheSecret ==
  \A r \in Sessions : errand[r].op = "enable" => errand[r].secret = errand[r].copy.secret /\ errand[r].secret # None

AccountsInv ==
  /\ Acc!TypeOK /\ SetupsFoundItOff /\ EnablesKeepTheSecret
  /\ Acc!EnabledMfaIsUsable

Errand == [op : {"idle", "register", "setup", "enable", "disable", "kyc"},
           copy : Acc!UserRow, secret : Secrets \union {None}]

LEMMA IdleErrand == Acc!Idle \in Errand
BY DEF Acc!Idle, Acc!Registered, Acc!UserRow, Acc!Kyc, Errand

\* A step of one request that leaves the row of the customer as it is.
LEMMA ErrandStep ==
  ASSUME AccountsInv, NEW r \in Sessions, NEW e \in Errand, errand' = [errand EXCEPT ![r] = e],
         UNCHANGED <<user, shown, confirmed, overwrote>>, rows' \in 0..1, wallets' = rows',
         e.op = "setup" => ~e.copy.enabled /\ e.secret # None,
         e.op = "enable" => e.secret = e.copy.secret /\ e.secret # None
  PROVE  AccountsInv'
<1>1. errand \in [Sessions -> Errand] BY DEF AccountsInv, Acc!TypeOK, Errand
<1>2. errand' \in [Sessions -> Errand] BY <1>1
<1>3. Acc!TypeOK' BY <1>2 DEF AccountsInv, Acc!TypeOK, Errand
<1>4. \A q \in Sessions : errand'[q] = IF q = r THEN e ELSE errand[q] BY <1>1
<1>5. (SetupsFoundItOff /\ EnablesKeepTheSecret)'
  BY <1>4 DEF AccountsInv, SetupsFoundItOff, EnablesKeepTheSecret
<1>6. QED BY <1>3, <1>5 DEF AccountsInv, Acc!EnabledMfaIsUsable

\* The write that ends a request.
LEMMA ErrandWrites ==
  ASSUME AccountsInv, NEW r \in Sessions, errand' = [errand EXCEPT ![r] = Acc!Idle],
         UNCHANGED <<rows, wallets>>, user' \in Acc!UserRow,
         shown' \subseteq Secrets, confirmed' \in Secrets \union {None}, overwrote' \in BOOLEAN,
         Acc!EnabledMfaIsUsable'
  PROVE  AccountsInv'
<1>1. errand \in [Sessions -> Errand] BY DEF AccountsInv, Acc!TypeOK, Errand
<1>2. errand' \in [Sessions -> Errand] BY <1>1, IdleErrand
<1>3. Acc!TypeOK' BY <1>2 DEF AccountsInv, Acc!TypeOK, Errand
<1>4. \A q \in Sessions : errand'[q] = IF q = r THEN Acc!Idle ELSE errand[q] BY <1>1
<1>5. (SetupsFoundItOff /\ EnablesKeepTheSecret)'
  BY <1>4 DEF AccountsInv, SetupsFoundItOff, EnablesKeepTheSecret, Acc!Idle
<1>6. QED BY <1>3, <1>5 DEF AccountsInv

\* Handlers before their write: register, setupMfa, enableMfa, disableMfa,
\* submitKyc, and any that fails.
LEMMA ChecksKeepAccounts ==
  ASSUME Acc!AccountsAssumption, AccountsInv, NEW r \in Sessions,
         \/ Acc!Register(r) \/ Acc!CommitRegistration(r) \/ Acc!SetupMfa(r)
         \/ Acc!EnableMfa(r) \/ Acc!DisableMfa(r) \/ Acc!SubmitKyc(r) \/ Acc!Fail(r)
  PROVE  AccountsInv'
<1>1. /\ user \in Acc!UserRow /\ rows \in 0..1 /\ wallets = rows /\ shown \subseteq Secrets
      /\ user.secret \in Secrets \union {None} /\ user.enabled \in BOOLEAN
  BY DEF AccountsInv, Acc!TypeOK, Acc!UserRow
<1>2. ASSUME NEW op \in {"register", "setup", "enable", "disable", "kyc"},
             NEW s \in Secrets \union {None}, Acc!Begin(r, op, s), UNCHANGED <<rows, wallets>>,
             UNCHANGED <<user, shown, confirmed, overwrote>>,
             op = "setup" => ~user.enabled /\ s # None,
             op = "enable" => s = user.secret /\ s # None
      PROVE  AccountsInv'
  <2> DEFINE e == [op |-> op, copy |-> user, secret |-> s]
  <2>1. e \in Errand /\ errand' = [errand EXCEPT ![r] = e] BY <1>1, <1>2 DEF Acc!Begin, Errand
  <2>2. e.op = op /\ e.copy = user /\ e.secret = s OBVIOUS
  <2> HIDE DEF e
  <2>3. QED BY <1>1, <1>2, <2>1, <2>2, ErrandStep
<1>3. ASSUME Acc!End(r), UNCHANGED <<user, shown, confirmed, overwrote>>, rows' \in 0..1, wallets' = rows'
      PROVE  AccountsInv'
  <2>1. Acc!Idle.op = "idle" BY DEF Acc!Idle
  <2>2. QED BY <1>3, <2>1, IdleErrand, ErrandStep DEF Acc!End
<1>4. CASE Acc!Register(r) BY <1>2, <1>4 DEF Acc!Register
<1>5. CASE Acc!CommitRegistration(r)
  <2>1. rows' \in 0..1 /\ wallets' = rows' BY <1>1, <1>5 DEF Acc!CommitRegistration, Acc!EmailFree
  <2>2. QED BY <1>3, <1>5, <2>1 DEF Acc!CommitRegistration
<1>6. CASE Acc!SetupMfa(r) BY <1>2, <1>6 DEF Acc!SetupMfa, Acc!SetupAllowed, Acc!AccountsAssumption
<1>7. CASE Acc!EnableMfa(r)
  <2>1. user.secret # None BY <1>1, <1>7 DEF Acc!EnableMfa, Acc!AccountsAssumption
  <2>2. QED BY <1>1, <1>2, <1>7, <2>1 DEF Acc!EnableMfa
<1>8. CASE Acc!DisableMfa(r) BY <1>1, <1>2, <1>8 DEF Acc!DisableMfa
<1>9. CASE Acc!SubmitKyc(r) BY <1>2, <1>9 DEF Acc!SubmitKyc
<1>10. CASE Acc!Fail(r) BY <1>1, <1>3, <1>10 DEF Acc!Fail
<1>11. QED BY <1>4, <1>5, <1>6, <1>7, <1>8, <1>9, <1>10

\* A write that is not stale finds the MFA fields of its copy.
LEMMA FreshWrite ==
  ASSUME AccountsInv, NEW r \in Sessions, ~Acc!Stale(r)
  PROVE  user.enabled = errand[r].copy.enabled /\ user.secret = errand[r].copy.secret
<1>1. user \in Acc!UserRow /\ errand[r].copy \in Acc!UserRow BY DEF AccountsInv, Acc!TypeOK
<1>2. [user EXCEPT !.kyc = "pending"] = [errand[r].copy EXCEPT !.kyc = "pending"] BY DEF Acc!Stale
<1> DEFINE a == [user EXCEPT !.kyc = "pending"]
           b == [errand[r].copy EXCEPT !.kyc = "pending"]
<1>3. a.enabled = user.enabled /\ a.secret = user.secret BY <1>1 DEF Acc!UserRow
<1>4. b.enabled = errand[r].copy.enabled /\ b.secret = errand[r].copy.secret BY <1>1 DEF Acc!UserRow
<1>5. QED BY <1>2, <1>3, <1>4

\* The UPDATE of setupMfa, enableMfa and disableMfa.
LEMMA MfaWritesKeepAccounts ==
  ASSUME Acc!AccountsAssumption, AccountsInv, NEW r \in Sessions,
         Acc!WriteSecret(r) \/ Acc!WriteEnabled(r) \/ Acc!WriteDisabled(r)
  PROVE  AccountsInv'
<1>1. /\ user \in Acc!UserRow /\ shown \subseteq Secrets /\ confirmed \in Secrets \union {None}
      /\ overwrote \in BOOLEAN /\ errand[r].secret \in Secrets \union {None}
      /\ errand[r] \in Errand
  BY DEF AccountsInv, Acc!TypeOK, Errand
<1>2. Acc!Stale(r) \in BOOLEAN BY DEF Acc!Stale
<1>3. CASE Acc!WriteSecret(r)
  <2>1. /\ user' = [user EXCEPT !.secret = errand[r].secret] /\ errand[r].op = "setup"
        /\ overwrote' = (overwrote \/ Acc!Stale(r)) /\ shown' = shown \union {errand[r].secret}
        /\ UNCHANGED <<rows, wallets, confirmed>> /\ errand' = [errand EXCEPT ![r] = Acc!Idle]
    BY <1>3 DEF Acc!WriteSecret, Acc!Doing, Acc!End
  <2>2. user' \in Acc!UserRow /\ user'.enabled = user.enabled BY <1>1, <2>1 DEF Acc!UserRow
  <2>3. Acc!EnabledMfaIsUsable'
    <3>1. overwrote' \/ ~user.enabled BY <2>1, FreshWrite DEF AccountsInv, SetupsFoundItOff
    <3>2. QED BY <2>2, <3>1 DEF Acc!EnabledMfaIsUsable
  <2>4. errand[r].secret \in Secrets
    BY <1>1, <2>1 DEF AccountsInv, SetupsFoundItOff
  <2>5. QED BY <1>1, <1>2, <2>1, <2>2, <2>3, <2>4, ErrandWrites
<1>4. CASE Acc!WriteEnabled(r)
  <2>1. /\ user' = [user EXCEPT !.enabled = TRUE] /\ errand[r].op = "enable"
        /\ overwrote' = (overwrote \/ Acc!Stale(r)) /\ confirmed' = errand[r].secret
        /\ UNCHANGED <<rows, wallets, shown>> /\ errand' = [errand EXCEPT ![r] = Acc!Idle]
    BY <1>4 DEF Acc!WriteEnabled, Acc!Doing, Acc!End
  <2>2. user' \in Acc!UserRow /\ user'.secret = user.secret BY <1>1, <2>1 DEF Acc!UserRow
  <2>3. Acc!EnabledMfaIsUsable'
    <3>1. errand[r].secret = errand[r].copy.secret /\ errand[r].secret # None
      BY <2>1 DEF AccountsInv, EnablesKeepTheSecret
    <3>2. overwrote' \/ user.secret = errand[r].copy.secret BY <2>1, FreshWrite
    <3>3. QED BY <2>1, <2>2, <3>1, <3>2 DEF Acc!EnabledMfaIsUsable
  <2>4. QED BY <1>1, <1>2, <2>1, <2>2, <2>3, ErrandWrites
<1>5. CASE Acc!WriteDisabled(r)
  <2>1. /\ user' = [user EXCEPT !.enabled = FALSE, !.secret = None]
        /\ overwrote' = (overwrote \/ Acc!Stale(r))
        /\ UNCHANGED <<rows, wallets, shown, confirmed>> /\ errand' = [errand EXCEPT ![r] = Acc!Idle]
    BY <1>5 DEF Acc!WriteDisabled, Acc!End
  <2>2. user' \in Acc!UserRow /\ user'.enabled = FALSE BY <1>1, <2>1 DEF Acc!UserRow
  <2>3. QED BY <1>1, <1>2, <2>1, <2>2, ErrandWrites DEF Acc!EnabledMfaIsUsable
<1>6. QED BY <1>3, <1>4, <1>5

\* submitKyc and forceKycStatus write users.kyc_status.
LEMMA KycKeepsAccounts ==
  ASSUME AccountsInv, NEW s \in Acc!Kyc, Acc!ForceKycStatus(s) \/ \E r \in Sessions : Acc!WriteKyc(r, s)
  PROVE  AccountsInv'
<1>1. user \in Acc!UserRow BY DEF AccountsInv, Acc!TypeOK
<1>2. user' = [user EXCEPT !.kyc = s] /\ UNCHANGED <<rows, wallets, shown, confirmed, overwrote>>
  BY DEF Acc!ForceKycStatus, Acc!WriteKyc
<1>3. user' \in Acc!UserRow /\ user'.enabled = user.enabled /\ user'.secret = user.secret
  BY <1>1, <1>2 DEF Acc!UserRow
<1>4. Acc!EnabledMfaIsUsable' BY <1>2, <1>3 DEF AccountsInv, Acc!EnabledMfaIsUsable
<1>5. CASE Acc!ForceKycStatus(s)
  BY <1>2, <1>3, <1>4, <1>5
     DEF Acc!ForceKycStatus, AccountsInv, Acc!TypeOK, SetupsFoundItOff, EnablesKeepTheSecret
<1>6. ASSUME NEW r \in Sessions, Acc!WriteKyc(r, s) PROVE AccountsInv'
  <2>1. errand' = [errand EXCEPT ![r] = Acc!Idle] BY <1>6 DEF Acc!WriteKyc, Acc!End
  <2>2. QED BY <1>2, <1>3, <1>4, <2>1, ErrandWrites DEF AccountsInv, Acc!TypeOK
<1>7. QED BY <1>5, <1>6

LEMMA AccountsStart == ASSUME Acc!AccountsAssumption, Acc!Init PROVE AccountsInv
<1>1. Acc!Registered \in Acc!UserRow /\ Acc!Registered.enabled = FALSE
  BY DEF Acc!Registered, Acc!UserRow, Acc!Kyc
<1>2. errand \in [Sessions -> Errand] /\ \A r \in Sessions : errand[r].op = "idle"
  BY IdleErrand DEF Acc!Init, Acc!Idle
<1>3. Acc!TypeOK
  <2>1. user \in Acc!UserRow /\ rows = 0 /\ wallets = 0 /\ shown = {} /\ confirmed = None /\ overwrote = FALSE
    BY <1>1 DEF Acc!Init
  <2>2. overwrote \in BOOLEAN BY Zenon, <2>1
  <2>3. rows \in 0..1 /\ wallets = rows
    <3>1. rows = 0 /\ wallets = 0 BY <2>1
    <3>2. QED BY <3>1
  <2>4. shown \subseteq Secrets /\ confirmed \in Secrets \union {None} BY <2>1
  <2>5. QED BY <1>2, <2>1, <2>2, <2>3, <2>4 DEF Acc!TypeOK, Errand
<1>4. QED
  BY <1>1, <1>2, <1>3
     DEF Acc!Init, AccountsInv, SetupsFoundItOff, EnablesKeepTheSecret,
         Acc!EnabledMfaIsUsable

LEMMA AccountsStep ==
  ASSUME Acc!AccountsAssumption, AccountsInv, Acc!Next \/ UNCHANGED accountVars PROVE AccountsInv'
<1>1. ASSUME NEW r \in Sessions, NEW s \in {"verified", "rejected"}, Acc!WriteKyc(r, s) PROVE AccountsInv'
  BY <1>1, KycKeepsAccounts DEF Acc!Kyc
<1>2. ASSUME NEW s \in Acc!Kyc, Acc!ForceKycStatus(s) PROVE AccountsInv' BY <1>2, KycKeepsAccounts
<1>3. CASE UNCHANGED accountVars
  BY <1>3 DEF accountVars, AccountsInv, Acc!TypeOK, SetupsFoundItOff, EnablesKeepTheSecret,
              Acc!EnabledMfaIsUsable
<1>4. QED BY <1>1, <1>2, <1>3, ChecksKeepAccounts, MfaWritesKeepAccounts DEF Acc!Next

LEMMA AccountsAlone ==
  ASSUME [ServicesNext]_everything PROVE (Acc!Next \/ UNCHANGED accountVars) /\ UNCHANGED focus
BY DEF ServicesNext, everything

THEOREM AccountsInvariance == ServicesSpec => []AccountsInv
<1>1. ServicesInit => AccountsInv BY ServicesAssumption, AccountsStart DEF ServicesInit
<1>2. AccountsInv /\ [ServicesNext]_everything => AccountsInv'
  BY ServicesAssumption, AccountsAlone, AccountsStep
<1>3. QED BY <1>1, <1>2, PTL DEF ServicesSpec

\* enableMfa: unless a request wrote over a change it had not read, MFA that is
\* enabled asks for codes of the secret whose code enabled it.
THEOREM EnabledMfaHasItsSecret == ServicesSpec => []EnabledMfaIsUsable
<1>1. AccountsInv => EnabledMfaIsUsable BY DEF AccountsInv, EnabledMfaIsUsable
<1>2. QED BY <1>1, AccountsInvariance, PTL

-----------------------------------------------------------------------------
\* What is written and not delivered yet is told by the messages under way: the
\* last that names a selection has its odds.  A map that was right when it was
\* read, or that got every message since, is right for all the others.
Named(s) == \E n \in 1..Len(channel) : s \in DOMAIN channel[n]
LastNamed(s, n) ==
  /\ n \in 1..Len(channel) /\ s \in DOMAIN channel[n]
  /\ \A k \in 1..Len(channel) : k > n => s \notin DOMAIN channel[k]
RightBut(map) ==
  \A s \in Selections \ DOMAIN updates : ~Named(s) => map[s] = odds[s]

OddsTypes ==
  /\ odds \in [Selections -> Prices] /\ updates \in Live!Partial /\ channel \in Seq(Live!Partial)
  /\ live \in Live!Maps /\ slip \in Live!Maps
  /\ socket \in {"closed", "open"}
  /\ snapshot.stage \in {"none", "asked", "read"} /\ snapshot.rows \in Live!Maps
  /\ snapshot = Live!NoSnapshot \/ (snapshot.stage # "none" /\ socket = "open")
  /\ request # None =>
       request.expected \in Live!Partial /\ request.legs \in Live!Partial /\ request.live \in Live!Maps
  /\ oddsMoves \in 0..MaxOddsMoves /\ failures \in 0..MaxFailures
UpdatesAreOdds == \A s \in DOMAIN updates : updates[s] = odds[s]
LastIsCurrent ==
  ~raced => \A s \in Selections \ DOMAIN updates : \A n \in 1..Len(channel) :
              LastNamed(s, n) => channel[n][s] = odds[s]
LiveIsRight == ~raced /\ socket = "open" /\ snapshot.stage = "none" => RightBut(live)
RowsAreRight == ~raced /\ snapshot.stage = "read" => RightBut(snapshot.rows)

QuietInv == OddsTypes /\ UpdatesAreOdds /\ LastIsCurrent /\ LiveIsRight /\ RowsAreRight

-----------------------------------------------------------------------------
LEMMA PartialIs ==
  ASSUME NEW m
  PROVE  m \in Live!Partial <=> (DOMAIN m \subseteq Selections /\ m = [s \in DOMAIN m |-> m[s]]
                                   /\ \A s \in DOMAIN m : m[s] \in Prices)
<1>1. ASSUME m \in Live!Partial
      PROVE  DOMAIN m \subseteq Selections /\ m = [s \in DOMAIN m |-> m[s]] /\ \A s \in DOMAIN m : m[s] \in Prices
  <2>1. PICK S \in SUBSET Selections : m \in [S -> Prices] BY <1>1 DEF Live!Partial
  <2>2. QED BY <2>1
<1>2. ASSUME DOMAIN m \subseteq Selections, m = [s \in DOMAIN m |-> m[s]], \A s \in DOMAIN m : m[s] \in Prices
      PROVE  m \in Live!Partial
  <2>1. DOMAIN m \in SUBSET Selections /\ m \in [DOMAIN m -> Prices] BY <1>2
  <2>2. QED BY <2>1 DEF Live!Partial
<1>3. QED BY <1>1, <1>2

LEMMA WithIs ==
  ASSUME NEW m \in Live!Partial, NEW s \in Selections, NEW price \in Prices
  PROVE  /\ Live!With(m, s, price) \in Live!Partial
         /\ DOMAIN Live!With(m, s, price) = DOMAIN m \union {s}
         /\ \A t \in DOMAIN m \union {s} : Live!With(m, s, price)[t] = IF t = s THEN price ELSE m[t]
<1>1. DOMAIN m \subseteq Selections /\ \A t \in DOMAIN m : m[t] \in Prices BY PartialIs
<1> DEFINE w == Live!With(m, s, price)
<1>2. DOMAIN w = DOMAIN m \union {s} /\ \A t \in DOMAIN w : w[t] = IF t = s THEN price ELSE m[t]
  BY DEF Live!With
<1>3. w = [t \in DOMAIN w |-> w[t]] BY DEF Live!With
<1>4. w \in Live!Partial BY <1>1, <1>2, <1>3, PartialIs
<1>5. QED BY <1>2, <1>4

LEMMA NothingIsPartial == << >> \in Live!Partial /\ DOMAIN << >> = {}
<1>1. DOMAIN << >> = {} OBVIOUS
<1>2. << >> = [s \in {} |-> << >>[s]] OBVIOUS
<1>3. QED BY <1>1, <1>2, PartialIs

LEMMA AppliedIs ==
  ASSUME NEW map \in Live!Maps, NEW data, DOMAIN data \subseteq Selections,
         \A s \in DOMAIN data : data[s] \in Prices \union {None}
  PROVE  /\ Live!Applied(map, data) \in Live!Maps
         /\ \A s \in Selections : Live!Applied(map, data)[s] = IF s \in DOMAIN data THEN data[s] ELSE map[s]
BY DEF Live!Applied, Live!Maps

\* Steps of the customer's slip and requests.
LEMMA ScreenKeepsQuiet ==
  ASSUME QuietInv, UNCHANGED <<odds, updates, channel, socket, snapshot, live, raced, oddsMoves>>,
         slip' \in Live!Maps, failures' \in 0..MaxFailures,
         request' # None => request'.expected \in Live!Partial /\ request'.legs \in Live!Partial
                            /\ request'.live \in Live!Maps
  PROVE  QuietInv'
<1>1. OddsTypes' BY DEF QuietInv, OddsTypes
<1>2. UpdatesAreOdds' /\ LastIsCurrent' /\ LiveIsRight' /\ RowsAreRight'
  BY DEF QuietInv, UpdatesAreOdds, LastIsCurrent, LastNamed, LiveIsRight, RowsAreRight, RightBut, Named
<1>3. QED BY <1>1, <1>2 DEF QuietInv

LEMMA ConnectionsKeepQuiet ==
  ASSUME Live!LiveOddsAssumption, QuietInv,
         \/ Live!Connect \/ Live!SnapshotRead \/ Live!SnapshotSend \/ Live!SnapshotFails
         \/ Live!Disconnect
  PROVE  QuietInv'
<1>1. OddsTypes /\ UpdatesAreOdds /\ LastIsCurrent /\ LiveIsRight /\ RowsAreRight BY DEF QuietInv
<1>2. UNCHANGED <<odds, updates, channel, slip, request, oddsMoves>> /\ failures' \in 0..MaxFailures
  BY <1>1 DEF Live!Connect, Live!SnapshotRead, Live!SnapshotSend, Live!SnapshotFails, Live!Disconnect,
              Live!screen, Live!counts, Live!CountFailure, Live!LiveOddsAssumption, OddsTypes
<1>3. UpdatesAreOdds' BY <1>1, <1>2 DEF UpdatesAreOdds
<1>4. \A map : RightBut(map)' <=> RightBut(map) BY <1>2 DEF RightBut, Named
<1>5. Live!Empty \in Live!Maps /\ odds \in Live!Maps BY <1>1 DEF Live!Empty, Live!Maps, OddsTypes
<1>6. ASSUME raced' \/ ~raced \/ channel = << >> PROVE LastIsCurrent'
  BY <1>1, <1>2, <1>6 DEF LastIsCurrent, LastNamed
<1>7. CASE Live!Connect
  <2>1. /\ socket' = "open" /\ snapshot' = [stage |-> "asked", rows |-> Live!Empty] /\ UNCHANGED live
        /\ raced' = (raced /\ channel # << >>)
    BY <1>7 DEF Live!Connect
  <2>2. OddsTypes' BY <1>1, <1>2, <1>5, <2>1 DEF OddsTypes
  <2>3. LiveIsRight' /\ RowsAreRight' BY <2>1 DEF LiveIsRight, RowsAreRight
  <2>4. QED BY <1>3, <1>6, <2>1, <2>2, <2>3 DEF QuietInv
<1>8. CASE Live!SnapshotRead
  <2>1. /\ snapshot' = [stage |-> "read", rows |-> odds] /\ UNCHANGED <<socket, live, raced>>
        /\ snapshot.stage = "asked"
    BY <1>8 DEF Live!SnapshotRead
  <2>2. socket = "open" BY <1>1, <2>1 DEF OddsTypes, Live!NoSnapshot
  <2>3. OddsTypes' BY <1>1, <1>2, <1>5, <2>1, <2>2 DEF OddsTypes
  <2>4. LiveIsRight' /\ RowsAreRight' BY <1>2, <2>1 DEF LiveIsRight, RowsAreRight, RightBut
  <2>5. QED BY <1>3, <1>6, <2>1, <2>3, <2>4 DEF QuietInv
<1>9. CASE Live!SnapshotSend
  <2>1. /\ live' = Live!Applied(live, snapshot.rows) /\ snapshot' = Live!NoSnapshot
        /\ UNCHANGED <<socket, raced>> /\ snapshot.stage = "read"
    BY <1>9 DEF Live!SnapshotSend
  <2>2. snapshot.rows \in [Selections -> Prices \union {None}] /\ live \in Live!Maps
    BY <1>1 DEF OddsTypes, Live!Maps
  <2>3. live' \in Live!Maps /\ \A s \in Selections : live'[s] = snapshot.rows[s] BY <2>1, <2>2, AppliedIs
  <2>4. OddsTypes'
    BY <1>1, <1>2, <1>5, <2>1, <2>3 DEF OddsTypes, Live!NoSnapshot
  <2>5. LiveIsRight' /\ RowsAreRight'
    BY <1>1, <1>2, <2>1, <2>3 DEF LiveIsRight, RowsAreRight, RightBut, Live!NoSnapshot, Named
  <2>6. QED BY <1>3, <1>6, <2>1, <2>4, <2>5 DEF QuietInv
<1>10. CASE Live!SnapshotFails
  <2>1. snapshot' = Live!NoSnapshot /\ raced' = TRUE /\ UNCHANGED <<socket, live>>
    BY <1>10 DEF Live!SnapshotFails
  <2>2. OddsTypes' BY <1>1, <1>2, <1>5, <2>1 DEF OddsTypes, Live!NoSnapshot
  <2>3. raced' BY <2>1
  <2>4. LiveIsRight' /\ RowsAreRight' BY <2>3 DEF LiveIsRight, RowsAreRight
  <2>5. QED BY <1>3, <1>6, <2>2, <2>3, <2>4 DEF QuietInv
<1>11. CASE Live!Disconnect
  <2>1. socket' = "closed" /\ snapshot' = Live!NoSnapshot /\ UNCHANGED <<live, raced>>
    BY <1>11 DEF Live!Disconnect
  <2>2. OddsTypes' BY <1>1, <1>2, <1>5, <2>1 DEF OddsTypes, Live!NoSnapshot
  <2>3. LiveIsRight' /\ RowsAreRight' BY <2>1 DEF LiveIsRight, RowsAreRight, Live!NoSnapshot
  <2>4. QED BY <1>3, <1>6, <2>1, <2>2, <2>3 DEF QuietInv
<1>12. QED BY <1>7, <1>8, <1>9, <1>10, <1>11

\* tick: one selection moves, and is named by what the tick will publish.
LEMMA DriftKeepsQuiet ==
  ASSUME QuietInv, NEW s \in Selections, NEW price \in Prices, Live!Drift(s, price)
  PROVE  QuietInv'
<1>1. OddsTypes /\ UpdatesAreOdds /\ LastIsCurrent /\ LiveIsRight /\ RowsAreRight BY DEF QuietInv
<1>2. /\ odds' = [odds EXCEPT ![s] = price] /\ updates' = Live!With(updates, s, price)
      /\ oddsMoves' = oddsMoves + 1 /\ oddsMoves < MaxOddsMoves
      /\ UNCHANGED <<channel, socket, snapshot, live, raced, slip, request, failures>>
  BY DEF Live!Drift, Live!wire, Live!screen
<1>3. odds \in [Selections -> Prices] /\ updates \in Live!Partial BY <1>1 DEF OddsTypes
<1>4. /\ updates' \in Live!Partial /\ DOMAIN updates' = DOMAIN updates \union {s}
      /\ \A t \in DOMAIN updates' : updates'[t] = IF t = s THEN price ELSE updates[t]
  <2> DEFINE w == Live!With(updates, s, price)
  <2>1. w \in Live!Partial /\ DOMAIN w = DOMAIN updates \union {s} BY <1>3, WithIs
  <2>2. \A t \in DOMAIN updates \union {s} : w[t] = IF t = s THEN price ELSE updates[t] BY DEF Live!With
  <2>3. updates' = w BY <1>2
  <2> HIDE DEF w
  <2>4. QED BY <2>1, <2>2, <2>3
<1>5. odds' \in [Selections -> Prices] /\ \A t \in Selections : odds'[t] = IF t = s THEN price ELSE odds[t]
  BY <1>2, <1>3
<1>6. oddsMoves' \in 0..MaxOddsMoves BY <1>1, <1>2, ServicesAssumption DEF OddsTypes, Live!LiveOddsAssumption
<1>7. OddsTypes' BY <1>1, <1>2, <1>4, <1>5, <1>6 DEF OddsTypes
<1>8. UpdatesAreOdds'
  <2>1. DOMAIN updates' \subseteq Selections BY <1>4, PartialIs
  <2>2. QED BY <1>1, <1>4, <1>5, <2>1 DEF UpdatesAreOdds
<1>9. \A t \in Selections \ DOMAIN updates' : t \in Selections \ DOMAIN updates /\ odds'[t] = odds[t]
  BY <1>4, <1>5
<1>10. LastIsCurrent' BY <1>1, <1>2, <1>9 DEF LastIsCurrent, LastNamed
<1>11. \A map : RightBut(map) => RightBut(map)' BY <1>2, <1>9 DEF RightBut, Named
<1>12. LiveIsRight' /\ RowsAreRight' BY <1>1, <1>2, <1>11 DEF LiveIsRight, RowsAreRight, RightBut
<1>13. QED BY <1>7, <1>8, <1>10, <1>12 DEF QuietInv

LEMMA PublishKeepsQuiet == ASSUME QuietInv, Live!Publish PROVE QuietInv'
<1>1. OddsTypes /\ UpdatesAreOdds /\ LastIsCurrent /\ LiveIsRight /\ RowsAreRight BY DEF QuietInv
<1>2. /\ channel' = Append(channel, updates) /\ updates' = << >>
      /\ UNCHANGED <<odds, socket, snapshot, live, raced, slip, request, oddsMoves, failures>>
  BY DEF Live!Publish, Live!NoUpdates, Live!wire, Live!screen, Live!counts
<1>3. channel \in Seq(Live!Partial) /\ updates \in Live!Partial BY <1>1 DEF OddsTypes
<1>4. /\ channel' \in Seq(Live!Partial) /\ Len(channel') = Len(channel) + 1 /\ Len(channel) \in Nat
      /\ channel'[Len(channel) + 1] = updates
      /\ \A n \in 1..Len(channel) : channel'[n] = channel[n]
  BY <1>2, <1>3
<1>5. updates' \in Live!Partial /\ DOMAIN updates' = {} BY <1>2, NothingIsPartial
<1>6. OddsTypes' BY <1>1, <1>2, <1>4, <1>5 DEF OddsTypes
<1>7. UpdatesAreOdds' BY <1>5 DEF UpdatesAreOdds
<1>8. LastIsCurrent'
  <2> SUFFICES ASSUME ~raced, NEW s \in Selections, NEW n \in 1..Len(channel'), LastNamed(s, n)'
               PROVE  channel'[n][s] = odds[s]
    BY <1>2 DEF LastIsCurrent
  <2>1. CASE n = Len(channel) + 1
    BY <1>1, <1>4, <2>1 DEF LastNamed, UpdatesAreOdds
  <2>2. CASE n # Len(channel) + 1
    <3>1. n \in 1..Len(channel) /\ Len(channel) + 1 \in 1..Len(channel') /\ Len(channel) + 1 > n BY <1>4, <2>2
    <3>2. s \in DOMAIN channel[n] /\ s \notin DOMAIN updates BY <1>4, <3>1 DEF LastNamed
    <3>3. \A k \in 1..Len(channel) : k > n => s \notin DOMAIN channel[k] BY <1>4 DEF LastNamed
    <3>4. LastNamed(s, n) BY <3>1, <3>2, <3>3 DEF LastNamed
    <3>5. QED BY <1>1, <1>4, <3>1, <3>2, <3>4 DEF LastIsCurrent
  <2>3. QED BY <2>1, <2>2
<1>9. \A s \in Selections : ~Named(s)' => s \notin DOMAIN updates /\ ~Named(s)
  <2>1. Len(channel) + 1 \in 1..Len(channel') /\ 1..Len(channel) \subseteq 1..Len(channel') BY <1>4
  <2>2. QED BY <1>4, <2>1 DEF Named
<1>10. \A map : RightBut(map) => RightBut(map)' BY <1>2, <1>9 DEF RightBut
<1>11. LiveIsRight' /\ RowsAreRight' BY <1>1, <1>2, <1>9 DEF LiveIsRight, RowsAreRight, RightBut
<1>12. QED BY <1>6, <1>7, <1>8, <1>11 DEF QuietInv

LEMMA TickFailsKeepsQuiet == ASSUME QuietInv, Live!TickFails PROVE QuietInv'
<1>1. /\ updates' = << >> /\ raced' = TRUE /\ failures < MaxFailures /\ failures' = failures + 1
      /\ UNCHANGED <<odds, channel, socket, snapshot, live, slip, request, oddsMoves>>
  BY DEF Live!TickFails, Live!NoUpdates, Live!CountFailure, Live!screen
<1>2. raced' BY <1>1
<1>3. failures' \in 0..MaxFailures BY <1>1, ServicesAssumption DEF QuietInv, OddsTypes, Live!LiveOddsAssumption
<1>4. OddsTypes' BY <1>1, <1>3, NothingIsPartial DEF QuietInv, OddsTypes
<1>5. UpdatesAreOdds' BY <1>1, NothingIsPartial DEF UpdatesAreOdds
<1>6. QED BY <1>2, <1>4, <1>5 DEF QuietInv, LastIsCurrent, LiveIsRight, RowsAreRight

LEMMA TailIs ==
  ASSUME channel \in Seq(Live!Partial), channel # << >>, channel' = Tail(channel)
  PROVE  /\ channel' \in Seq(Live!Partial) /\ Len(channel') = Len(channel) - 1 /\ Len(channel) \in Nat \ {0}
         /\ \A n \in 1..Len(channel') : n + 1 \in 1..Len(channel) /\ channel'[n] = channel[n + 1]
         /\ Head(channel) = channel[1] /\ channel[1] \in Live!Partial
OBVIOUS

LEMMA MessageLostKeepsQuiet == ASSUME QuietInv, Live!MessageLost PROVE QuietInv'
<1>1. /\ channel # << >> /\ channel' = Tail(channel) /\ raced' = TRUE
      /\ failures < MaxFailures /\ failures' = failures + 1
      /\ UNCHANGED <<odds, updates, socket, snapshot, live, slip, request, oddsMoves>>
  BY DEF Live!MessageLost, Live!CountFailure, Live!screen
<1>2. raced' BY <1>1
<1>3. failures' \in 0..MaxFailures BY <1>1, ServicesAssumption DEF QuietInv, OddsTypes, Live!LiveOddsAssumption
<1>4. channel' \in Seq(Live!Partial) BY <1>1, TailIs DEF QuietInv, OddsTypes
<1>5. OddsTypes' BY <1>1, <1>3, <1>4 DEF QuietInv, OddsTypes
<1>6. UpdatesAreOdds' BY <1>1 DEF QuietInv, UpdatesAreOdds
<1>7. QED BY <1>2, <1>5, <1>6 DEF QuietInv, LastIsCurrent, LiveIsRight, RowsAreRight

\* broadcastLocal: the map takes what the message says of the selections it names.
LEMMA BroadcastKeepsQuiet == ASSUME QuietInv, Live!Broadcast PROVE QuietInv'
<1>1. OddsTypes /\ UpdatesAreOdds /\ LastIsCurrent /\ LiveIsRight /\ RowsAreRight BY DEF QuietInv
<1>2. /\ channel # << >> /\ channel' = Tail(channel)
      /\ UNCHANGED <<odds, updates, socket, snapshot, slip, request, oddsMoves, failures>>
      /\ socket = "open" => live' = Live!Applied(live, Head(channel)) /\ raced' = (raced \/ snapshot.stage = "read")
      /\ socket # "open" => UNCHANGED <<live, raced>>
  BY DEF Live!Broadcast, Live!screen, Live!counts
<1>3. /\ channel' \in Seq(Live!Partial) /\ Len(channel') = Len(channel) - 1 /\ Len(channel) \in Nat \ {0}
      /\ \A n \in 1..Len(channel') : n + 1 \in 1..Len(channel) /\ channel'[n] = channel[n + 1]
      /\ Head(channel) = channel[1] /\ channel[1] \in Live!Partial
  BY <1>1, <1>2, TailIs DEF OddsTypes
<1>4. live \in Live!Maps /\ DOMAIN channel[1] \subseteq Selections
      /\ \A s \in DOMAIN channel[1] : channel[1][s] \in Prices
  BY <1>1, <1>3, PartialIs DEF OddsTypes
<1>5. socket = "open" =>
        /\ live' \in Live!Maps
        /\ \A s \in Selections : live'[s] = IF s \in DOMAIN channel[1] THEN channel[1][s] ELSE live[s]
  BY <1>2, <1>3, <1>4, AppliedIs
<1>6. OddsTypes' BY <1>1, <1>2, <1>3, <1>5 DEF OddsTypes
<1>7. UpdatesAreOdds' BY <1>1, <1>2 DEF UpdatesAreOdds
<1>8. ~raced' => ~raced BY <1>2
<1>9. ASSUME NEW s, NEW n \in 1..Len(channel'), LastNamed(s, n)' PROVE LastNamed(s, n + 1)
  <2>1. n + 1 \in 1..Len(channel) /\ s \in DOMAIN channel[n + 1] BY <1>3, <1>9 DEF LastNamed
  <2>2. ASSUME NEW k \in 1..Len(channel), k > n + 1 PROVE s \notin DOMAIN channel[k]
    <3>1. k - 1 \in 1..Len(channel') /\ k - 1 > n /\ channel'[k - 1] = channel[k] BY <1>3, <2>2
    <3>2. QED BY <1>9, <3>1 DEF LastNamed
  <2>3. QED BY <2>1, <2>2 DEF LastNamed
<1>10. LastIsCurrent'
  <2> SUFFICES ASSUME ~raced', NEW s \in Selections \ DOMAIN updates, NEW n \in 1..Len(channel'), LastNamed(s, n)'
               PROVE  channel'[n][s] = odds[s]
    BY <1>2 DEF LastIsCurrent
  <2>1. LastNamed(s, n + 1) /\ n + 1 \in 1..Len(channel) BY <1>3, <1>9
  <2>2. QED BY <1>1, <1>3, <1>8, <2>1 DEF LastIsCurrent
<1>11. ASSUME NEW s \in Selections, ~Named(s)'
       PROVE  s \in DOMAIN channel[1] => LastNamed(s, 1)
  <2>1. ASSUME NEW k \in 1..Len(channel), k > 1 PROVE s \notin DOMAIN channel[k]
    <3>1. k - 1 \in 1..Len(channel') /\ channel'[k - 1] = channel[k] BY <1>3, <2>1
    <3>2. QED BY <1>11, <3>1 DEF Named
  <2>2. 1 \in 1..Len(channel) BY <1>3
  <2>3. QED BY <2>1, <2>2 DEF LastNamed
<1>12. ASSUME NEW s \in Selections, ~Named(s)', s \notin DOMAIN channel[1] PROVE ~Named(s)
  <2>1. ASSUME NEW k \in 1..Len(channel) PROVE s \notin DOMAIN channel[k]
    <3>1. CASE k = 1 BY <1>12, <3>1
    <3>2. CASE k # 1
      <4>1. k - 1 \in 1..Len(channel') /\ channel'[k - 1] = channel[k] BY <1>3, <3>2
      <4>2. QED BY <1>12, <4>1 DEF Named
    <3>3. QED BY <3>1, <3>2
  <2>2. QED BY <2>1 DEF Named
<1>13. LiveIsRight'
  <2> SUFFICES ASSUME ~raced', socket = "open", snapshot.stage = "none",
                      NEW s \in Selections \ DOMAIN updates, ~Named(s)'
               PROVE  live'[s] = odds[s]
    BY <1>2 DEF LiveIsRight, RightBut
  <2>1. CASE s \in DOMAIN channel[1]
    <3>1. LastNamed(s, 1) /\ 1 \in 1..Len(channel) BY <1>11, <2>1 DEF LastNamed
    <3>2. channel[1][s] = odds[s] BY <1>1, <1>8, <3>1 DEF LastIsCurrent
    <3>3. QED BY <1>5, <2>1, <3>2
  <2>2. CASE s \notin DOMAIN channel[1]
    <3>1. ~Named(s) BY <1>12, <2>2
    <3>2. live[s] = odds[s] BY <1>1, <1>8, <3>1 DEF LiveIsRight, RightBut
    <3>3. QED BY <1>5, <2>2, <3>2
  <2>3. QED BY <2>1, <2>2
<1>14. RowsAreRight'
  <2>1. snapshot.stage = "read" => socket = "open" BY <1>1 DEF OddsTypes, Live!NoSnapshot
  <2>2. snapshot.stage = "read" => raced' BY <1>2, <2>1
  <2>3. QED BY <1>2, <2>2 DEF RowsAreRight
<1>15. QED BY <1>6, <1>7, <1>10, <1>13, <1>14 DEF QuietInv

-----------------------------------------------------------------------------
\* The slip: what is shown of a selection on it is a price.
LEMMA OrIs ==
  ASSUME NEW a \in Live!Maps, NEW b \in Live!Maps
  PROVE  Live!Or(a, b) \in Live!Maps /\ \A s \in Selections : b[s] # None => Live!Or(a, b)[s] \in Prices
BY DEF Live!Or, Live!Maps

LEMMA CustomerKeepsQuiet ==
  ASSUME Live!LiveOddsAssumption, QuietInv, LiveOddsInv,
         \/ Live!Place \/ Live!Accept \/ Live!RequestFails
         \/ \E s \in Selections : Live!Toggle(s) \/ Live!ResolveLeg(s) \/ Live!OddsChanged(s)
  PROVE  QuietInv'
<1>1. OddsTypes BY DEF QuietInv
<1>2. live \in Live!Maps /\ slip \in Live!Maps /\ odds \in [Selections -> Prices] /\ failures \in 0..MaxFailures
      /\ MaxFailures \in Nat
  BY <1>1 DEF OddsTypes, Live!LiveOddsAssumption
<1>3. Live!Empty \in Live!Maps BY DEF Live!Empty, Live!Maps
<1>4. CASE Live!Place
  <2>1. /\ request' = [expected |-> [s \in Live!OnSlip |-> Live!Displayed[s]], legs |-> << >>,
                       live |-> live, seen |-> [s \in Live!OnSlip |-> Live!Displayed[s]]]
        /\ UNCHANGED <<odds, updates, channel, socket, snapshot, live, raced, oddsMoves, slip, failures>>
    BY <1>4 DEF Live!Place, Live!Expected, Live!wire, Live!counts
  <2> DEFINE e == [s \in Live!OnSlip |-> Live!Displayed[s]]
  <2>2. \A s \in Live!OnSlip : s \in Selections /\ Live!Displayed[s] \in Prices
    BY <1>2, OrIs DEF Live!OnSlip, Live!Displayed
  <2>3. DOMAIN e \subseteq Selections /\ (\A s \in DOMAIN e : e[s] \in Prices) /\ e = [s \in DOMAIN e |-> e[s]]
    BY <2>2
  <2>4. e \in Live!Partial BY <2>3, PartialIs
  <2>5. request'.expected \in Live!Partial /\ request'.legs \in Live!Partial /\ request'.live \in Live!Maps
    BY <1>2, <2>1, <2>4, NothingIsPartial
  <2>6. QED BY <1>2, <2>1, <2>5, ScreenKeepsQuiet
<1>5. CASE Live!Accept
  BY <1>2, <1>3, <1>5, ScreenKeepsQuiet DEF Live!Accept, Live!wire, Live!counts
<1>6. CASE Live!RequestFails
  <2>1. failures' \in 0..MaxFailures BY <1>2, <1>6 DEF Live!RequestFails, Live!CountFailure
  <2>2. QED BY <1>2, <1>6, <2>1, ScreenKeepsQuiet DEF Live!RequestFails, Live!wire, Live!CountFailure
<1>7. ASSUME NEW s \in Selections, Live!Toggle(s) PROVE QuietInv'
  <2>1. Live!OddsFor(s) \in Prices \union {None}
    <3>1. OpeningOdds \in Live!Maps BY DEF Live!LiveOddsAssumption, Live!Maps
    <3>2. QED BY <1>2, <3>1, OrIs DEF Live!OddsFor, Live!Maps
  <2>2. slip' \in Live!Maps
    <3>1. \A t \in Selections : slip'[t] \in Prices \union {None}
      BY <1>2, <1>7, <2>1 DEF Live!Toggle, Live!Maps
    <3>2. slip' = [t \in Selections |-> slip'[t]] BY <1>7 DEF Live!Toggle
    <3>3. QED BY <3>1, <3>2 DEF Live!Maps
  <2>3. QED BY <1>1, <1>2, <1>7, <2>2, ScreenKeepsQuiet DEF Live!Toggle, Live!wire, Live!counts, OddsTypes
<1>8. ASSUME NEW s \in Selections, Live!OddsChanged(s) PROVE QuietInv'
  <2>1. /\ slip' = [t \in Selections |-> IF slip[t] = None THEN None ELSE Live!Or(request.live, slip)[t]]
        /\ request # None
    BY <1>8 DEF Live!OddsChanged
  <2>2. slip' \in Live!Maps
    <3>1. request.live \in Live!Maps BY <1>1, <2>1 DEF OddsTypes
    <3>2. Live!Or(request.live, slip) \in Live!Maps BY <1>2, <3>1, OrIs
    <3>3. QED BY <2>1, <3>2 DEF Live!Maps
  <2>3. QED BY <1>2, <1>8, <2>2, ScreenKeepsQuiet DEF Live!OddsChanged, Live!wire, Live!counts
<1>9. ASSUME NEW s \in Selections, Live!ResolveLeg(s) PROVE QuietInv'
  <2>1. /\ request # None /\ request' = [request EXCEPT !.legs = Live!With(request.legs, s, odds[s])]
        /\ UNCHANGED <<odds, updates, channel, socket, snapshot, live, raced, oddsMoves, slip, failures>>
    BY <1>9 DEF Live!ResolveLeg, Live!wire, Live!counts
  <2>2. request = BetRequest BY <2>1 DEF LiveOddsInv, RequestBound
  <2> DEFINE legs == Live!With(request.legs, s, odds[s])
  <2>3. request' = [expected |-> request.expected, legs |-> legs, live |-> request.live, seen |-> request.seen]
    BY <2>1, <2>2 DEF BetRequest
  <2>4. request.expected \in Live!Partial /\ request.legs \in Live!Partial /\ request.live \in Live!Maps
    BY <1>1, <2>1 DEF OddsTypes
  <2>5. legs \in Live!Partial BY <1>2, <2>4, WithIs
  <2>6. request'.expected \in Live!Partial /\ request'.legs \in Live!Partial /\ request'.live \in Live!Maps
    BY <2>3, <2>4, <2>5
  <2>7. QED BY <1>2, <2>1, <2>6, ScreenKeepsQuiet
<1>10. QED BY <1>4, <1>5, <1>6, <1>7, <1>8, <1>9

LEMMA QuietStart == ASSUME Live!LiveOddsAssumption, Live!Init PROVE QuietInv
<1>1. /\ odds = OpeningOdds /\ updates = << >> /\ channel = << >> /\ socket = "closed"
      /\ snapshot = Live!NoSnapshot /\ live = Live!Empty /\ slip = Live!Empty /\ request = None
      /\ oddsMoves = 0 /\ failures = 0
  BY DEF Live!Init, Live!NoUpdates
<1>2. Live!Empty \in Live!Maps BY DEF Live!Empty, Live!Maps
<1>3. channel \in Seq(Live!Partial) /\ Len(channel) = 0 BY <1>1
<1>4. Live!NoSnapshot.stage = "none" /\ Live!NoSnapshot.rows = Live!Empty BY DEF Live!NoSnapshot
<1>5. updates \in Live!Partial /\ DOMAIN updates = {} BY <1>1, NothingIsPartial
<1>6. oddsMoves \in 0..MaxOddsMoves /\ failures \in 0..MaxFailures BY <1>1 DEF Live!LiveOddsAssumption
<1>7. OddsTypes BY <1>1, <1>2, <1>3, <1>4, <1>5, <1>6 DEF OddsTypes, Live!LiveOddsAssumption
<1>8. UpdatesAreOdds BY <1>5 DEF UpdatesAreOdds
<1>9. LastIsCurrent BY <1>3 DEF LastIsCurrent
<1>10. LiveIsRight /\ RowsAreRight BY <1>1, <1>4 DEF LiveIsRight, RowsAreRight
<1>11. QED BY <1>7, <1>8, <1>9, <1>10 DEF QuietInv

LEMMA QuietStep ==
  ASSUME Live!LiveOddsAssumption, QuietInv, LiveOddsInv, Live!Next \/ UNCHANGED oddsVars
  PROVE  QuietInv'
<1>1. CASE UNCHANGED oddsVars
  <2>1. UNCHANGED <<odds, updates, channel, socket, snapshot, live, raced, oddsMoves, slip, request, failures>>
    BY <1>1 DEF oddsVars
  <2>2. QED BY <2>1, ScreenKeepsQuiet DEF QuietInv, OddsTypes
<1>2. CASE Live!Next
  BY <1>2, CustomerKeepsQuiet, ConnectionsKeepQuiet, DriftKeepsQuiet, PublishKeepsQuiet, TickFailsKeepsQuiet,
     MessageLostKeepsQuiet, BroadcastKeepsQuiet DEF Live!Next
<1>3. QED BY <1>1, <1>2

LEMMA QuietInvariance == ServicesSpec => [](LiveOddsInv /\ QuietInv)
<1>1. ServicesInit => LiveOddsInv /\ QuietInv BY ServicesAssumption, LiveOddsStart, QuietStart DEF ServicesInit
<1>2. LiveOddsInv /\ QuietInv /\ [ServicesNext]_everything => (LiveOddsInv /\ QuietInv)'
  BY ServicesAssumption, LiveOddsAlone, LiveOddsStep, QuietStep
<1>3. QED BY <1>1, <1>2, PTL DEF ServicesSpec

\* useLiveOdds: once every message is delivered the map shows the odds in force,
\* whatever came before, between or after the rows of the snapshot it covers.
THEOREM DeliveredOddsAreCurrent == ServicesSpec => []QuietMapIsCurrent
<1>1. ASSUME QuietInv PROVE Live!QuietMapIsCurrent
  <2> SUFFICES ASSUME socket = "open", snapshot = Live!NoSnapshot, updates = << >>, channel = << >>, ~raced
               PROVE  live = odds
    BY DEF Live!QuietMapIsCurrent, Live!NoUpdates
  <2>1. snapshot.stage = "none" BY DEF Live!NoSnapshot
  <2>2. RightBut(live) BY <1>1, <2>1 DEF QuietInv, LiveIsRight
  <2>3. DOMAIN updates = {} /\ Len(channel) = 0 BY NothingIsPartial
  <2>4. \A s \in Selections : live[s] = odds[s] BY <2>2, <2>3 DEF RightBut, Named
  <2>5. live \in [Selections -> Prices \union {None}] /\ odds \in [Selections -> Prices]
    BY <1>1 DEF QuietInv, OddsTypes, Live!Maps
  <2>6. QED BY <2>4, <2>5
<1>2. QuietInv => QuietMapIsCurrent BY <1>1 DEF QuietMapIsCurrent
<1>3. QED BY <1>2, QuietInvariance, PTL

-----------------------------------------------------------------------------
\* The risk score.  As long as the counts of committed bets are told apart, none is
\* exceeded by the risky ones; bets that go on have a score that does not block, and
\* those of them that are risky are the only ones yet to be committed.
Bets == [stage : {"idle", "assessed", "flagged", "placing"}, score : Int, risky : BOOLEAN, age : Int, placed : Int]

RiskTypes ==
  /\ flight \in [Sessions -> Bets]
  /\ recent \in [Rsk!Ages -> Nat] /\ risky \in [Rsk!Ages -> Nat]
  /\ \A r \in Sessions : /\ 0 <= flight[r].placed /\ flight[r].placed <= flight[r].age
                         /\ flight[r].age <= BetPatience

RiskyAreCounted == \A n \in Rsk!Ages : recent[n] < MaxBets => risky[n] <= recent[n]
BlockedGoNoFurther == \A r \in Sessions : flight[r].stage \in {"flagged", "placing"} => flight[r].score < 80

Dangerous == {r \in Sessions : flight[r].stage # "idle" /\ flight[r].risky /\ flight[r].score < 80}
BurstWithin == Summed(risky, Rsk!Ages) + Cardinality(Dangerous) <= MaxBets - 1 + Cardinality(Sessions)

RiskInv == RiskTypes /\ RiskyAreCounted /\ BlockedGoNoFurther /\ BurstWithin

LEMMA RiskConstants ==
  ASSUME Rsk!RiskAssumption
  PROVE  /\ MaxBets \in Nat \ {0} /\ Minute \in Nat /\ Minute - 1 \in Nat
         /\ BetPatience \in Nat /\ BetPatience <= Minute - 1
         /\ IsFiniteSet(Rsk!Ages) /\ Rsk!Ages = 0..(Minute - 1) /\ 0 \in Rsk!Ages
<1>1. /\ MaxBets \in Nat \ {0} /\ Minute \in Nat /\ Minute - 1 \in Nat
      /\ BetPatience \in Nat /\ BetPatience <= Minute - 1
  BY DEF Rsk!RiskAssumption
<1>2. IsFiniteSet(0..(Minute - 1)) BY <1>1, FS_Interval
<1>3. QED BY <1>1, <1>2 DEF Rsk!Ages

LEMMA RiskSum ==
  ASSUME NEW counts
  PROVE  Rsk!Sum(counts) = Summed(counts, DOMAIN counts)
BY DEF Rsk!Sum, Rsk!FoldFunction, Rsk!FoldFunctionOnSet, Rsk!MapThenFoldSet, Summed, Folded, Iterated, Turn,
       Unit, Combine, Chosen

LEMMA DangerousCount ==
  /\ IsFiniteSet(Dangerous) /\ Cardinality(Dangerous) \in Nat /\ Cardinality(Sessions) \in Nat
  /\ Cardinality(Dangerous) <= Cardinality(Sessions)
<1>1. Dangerous \subseteq Sessions /\ IsFiniteSet(Sessions) BY FiniteAssumption DEF Dangerous
<1>2. QED BY <1>1, FS_Subset, FS_CardinalityType

LEMMA RiskSums ==
  ASSUME RiskTypes, Rsk!RiskAssumption
  PROVE  /\ Summed(risky, Rsk!Ages) \in Nat /\ Summed(recent, Rsk!Ages) \in Nat
         /\ \A n \in Rsk!Ages : recent[n] <= Summed(recent, Rsk!Ages)
<1>1. \A n \in Rsk!Ages : risky[n] \in Nat BY DEF RiskTypes
<1>2. \A n \in Rsk!Ages : recent[n] \in Nat BY DEF RiskTypes
<1>3. IsFiniteSet(Rsk!Ages) BY RiskConstants
<1>4. Summed(risky, Rsk!Ages) \in Nat BY <1>1, <1>3, SumIsNat
<1>5. QED BY <1>2, <1>3, <1>4, SumIsNat

\* A bet goes on with t, and no bet is committed.
LEMMA BetGoesOn ==
  ASSUME RiskInv, Rsk!RiskAssumption, NEW r \in Sessions, NEW t \in Bets, flight' = [flight EXCEPT ![r] = t],
         UNCHANGED <<recent, risky>>, 0 <= t.placed, t.placed <= t.age, t.age <= BetPatience,
         t.stage \in {"flagged", "placing"} => t.score < 80,
         \/ Summed(risky, Rsk!Ages) <= MaxBets - 1
         \/ t.stage = "idle"
         \/ /\ flight[r].stage # "idle" /\ t.risky = flight[r].risky /\ t.score = flight[r].score
  PROVE  RiskInv'
<1>1. RiskTypes /\ RiskyAreCounted /\ BlockedGoNoFurther /\ BurstWithin BY DEF RiskInv
<1>2. \A q \in Sessions : flight'[q] = IF q = r THEN t ELSE flight[q] BY <1>1 DEF RiskTypes
<1>3. RiskTypes'
  <2>1. flight' \in [Sessions -> Bets] BY <1>1 DEF RiskTypes
  <2>2. QED BY <1>1, <1>2, <2>1 DEF RiskTypes
<1>4. RiskyAreCounted' BY <1>1 DEF RiskyAreCounted
<1>5. BlockedGoNoFurther' BY <1>1, <1>2 DEF BlockedGoNoFurther
<1>6. BurstWithin'
  <2>1. /\ Cardinality(Dangerous) \in Nat /\ Cardinality(Dangerous)' \in Nat /\ Cardinality(Sessions) \in Nat
        /\ Cardinality(Dangerous)' <= Cardinality(Sessions) /\ Summed(risky, Rsk!Ages) \in Nat /\ MaxBets \in Nat
        /\ Summed(risky, Rsk!Ages)' = Summed(risky, Rsk!Ages)
    <3>1. IsFiniteSet(Sessions) /\ Dangerous' \subseteq Sessions BY FiniteAssumption DEF Dangerous
    <3>2. Cardinality(Dangerous)' \in Nat /\ Cardinality(Dangerous)' <= Cardinality(Sessions)
      BY <3>1, FS_Subset, FS_CardinalityType
    <3>3. QED BY <1>1, <3>2, DangerousCount, RiskSums, RiskConstants DEF Rsk!Ages
  <2>2. CASE Summed(risky, Rsk!Ages) <= MaxBets - 1 BY <2>1, <2>2 DEF BurstWithin
  <2>3. CASE t.stage = "idle" \/ (flight[r].stage # "idle" /\ t.risky = flight[r].risky /\ t.score = flight[r].score)
    <3>1. Dangerous' \subseteq Dangerous BY <1>2, <2>3 DEF Dangerous
    <3>2. Cardinality(Dangerous)' <= Cardinality(Dangerous) BY <3>1, DangerousCount, FS_Subset
    <3>3. QED BY <1>1, <2>1, <3>2 DEF BurstWithin
  <2>4. QED BY <2>2, <2>3
<1>7. QED BY <1>3, <1>4, <1>5, <1>6 DEF RiskInv

\* What a risky bet that is not blocked says of the bets committed.
LEMMA FewRisky ==
  ASSUME RiskInv, Rsk!RiskAssumption, NEW stake \in Rsk!StakeShares, NEW extreme \in BOOLEAN,
         Rsk!IsRisky(stake, extreme), Rsk!Score(stake, extreme) < 80
  PROVE  Summed(risky, Rsk!Ages) <= MaxBets - 1
<1> DEFINE n == Rsk!Sum(recent)
           other == Rsk!OtherSignals(stake, extreme)
<1>1. other \in Int /\ other >= 40
  BY DEF Rsk!IsRisky, Rsk!HardBlockThreshold, Rsk!OtherSignals, Rsk!StakeScore, Rsk!OddsScore, Rsk!SharingScore,
         Rsk!YoungScore
<1>2. n = Summed(recent, Rsk!Ages)
  <2>1. DOMAIN recent = Rsk!Ages BY DEF RiskInv, RiskTypes
  <2>2. QED BY <2>1, RiskSum
<1>3. n \in Nat /\ MaxBets \in Nat BY <1>2, RiskSums, RiskConstants DEF RiskInv
<1>4. n < MaxBets
  <2>1. SUFFICES ASSUME n >= MaxBets PROVE FALSE BY <1>3
  <2>2. Rsk!Velocity(n) = 40 BY <2>1 DEF Rsk!Velocity
  <2>3. Rsk!Score(stake, extreme) = IF 40 + other > 100 THEN 100 ELSE 40 + other BY <2>2 DEF Rsk!Score
  <2> HIDE DEF other
  <2>4. QED BY <1>1, <2>3
<1>5. \A m \in Rsk!Ages : risky[m] \in Int /\ recent[m] \in Int /\ risky[m] <= recent[m]
  <2> SUFFICES ASSUME NEW m \in Rsk!Ages PROVE risky[m] \in Int /\ recent[m] \in Int /\ risky[m] <= recent[m]
    OBVIOUS
  <2>1. risky[m] \in Nat /\ recent[m] \in Nat BY DEF RiskInv, RiskTypes
  <2>2. recent[m] < MaxBets BY <1>2, <1>3, <1>4, <2>1, RiskSums DEF RiskInv
  <2>3. QED BY <2>1, <2>2 DEF RiskInv, RiskyAreCounted
<1>6. Summed(risky, Rsk!Ages) <= Summed(recent, Rsk!Ages) BY <1>5, RiskConstants, SumMonotone
<1>7. Summed(risky, Rsk!Ages) \in Nat BY RiskSums DEF RiskInv
<1> HIDE DEF n
<1>8. QED BY <1>2, <1>3, <1>4, <1>6, <1>7

LEMMA AssessKeeps ==
  ASSUME RiskInv, Rsk!RiskAssumption, NEW r \in Sessions, NEW stake \in Rsk!StakeShares, NEW extreme \in BOOLEAN,
         Rsk!Assess(r, stake, extreme)
  PROVE  RiskInv'
<1> DEFINE score == Rsk!Score(stake, extreme)
           danger == Rsk!IsRisky(stake, extreme)
           t == [Rsk!NoBet EXCEPT !.stage = "assessed", !.score = score, !.risky = danger]
<1>1. flight' = [flight EXCEPT ![r] = t] /\ UNCHANGED <<recent, risky>> BY DEF Rsk!Assess
<1>2. danger \in BOOLEAN BY DEF Rsk!IsRisky
<1>3. score \in Int
  <2>1. Rsk!OtherSignals(stake, extreme) \in Int
    BY DEF Rsk!OtherSignals, Rsk!StakeScore, Rsk!OddsScore, Rsk!SharingScore, Rsk!YoungScore
  <2>2. Rsk!Velocity(Rsk!Sum(recent)) \in Int BY DEF Rsk!Velocity, Rsk!VelocityLow
  <2>3. QED BY <2>1, <2>2 DEF Rsk!Score
<1>4. score < 80 /\ danger => Summed(risky, Rsk!Ages) <= MaxBets - 1 BY FewRisky
<1> HIDE DEF score, danger
<1>5. t \in Bets /\ t.stage = "assessed" /\ t.score = score /\ t.risky = danger /\ t.placed = 0 /\ t.age = 0
  <2> DEFINE base == Rsk!NoBet
  <2>1. /\ base \in [stage : {"idle"}, score : {0}, risky : BOOLEAN, age : {0}, placed : {0}]
    BY DEF Rsk!NoBet
  <2> HIDE DEF base
  <2>2. [base EXCEPT !.stage = "assessed", !.score = score] \in
           [stage : {"assessed"}, score : {score}, risky : BOOLEAN, age : {0}, placed : {0}]
    BY <2>1
  <2> DEFINE half == [base EXCEPT !.stage = "assessed", !.score = score]
  <2>3. t = [half EXCEPT !.risky = danger] BY DEF base
  <2> HIDE DEF half
  <2>4. /\ [half EXCEPT !.risky = danger].risky = danger
        /\ [half EXCEPT !.risky = danger] \in
             [stage : {"assessed"}, score : {score}, risky : BOOLEAN, age : {0}, placed : {0}]
    BY <1>2, <2>2 DEF half
  <2> HIDE DEF t
  <2>5. t \in [stage : {"assessed"}, score : {score}, risky : BOOLEAN, age : {0}, placed : {0}] /\ t.risky = danger
    BY <2>3, <2>4
  <2>6. QED BY <1>3, <2>5 DEF Bets
<1> HIDE DEF t
<1>6. RiskTypes /\ RiskyAreCounted /\ BlockedGoNoFurther /\ BurstWithin BY DEF RiskInv
<1>7. CASE Summed(risky, Rsk!Ages) <= MaxBets - 1
  <2>1. /\ t \in Bets /\ 0 <= t.placed /\ t.placed <= t.age /\ t.age <= BetPatience
        /\ t.stage \notin {"flagged", "placing"}
    BY <1>5, RiskConstants
  <2>2. QED BY <1>1, <1>7, <2>1, BetGoesOn
<1>8. CASE ~(score < 80 /\ danger)
  <2>1. \A q \in Sessions : flight'[q] = IF q = r THEN t ELSE flight[q] BY <1>1, <1>6 DEF RiskTypes
  <2>2. RiskTypes'
    <3>1. flight' \in [Sessions -> Bets] BY <1>1, <1>5, <1>6 DEF RiskTypes
    <3>2. BetPatience \in Nat BY RiskConstants
    <3>3. QED BY <1>1, <1>5, <1>6, <2>1, <3>1, <3>2 DEF RiskTypes
  <2>3. RiskyAreCounted' BY <1>1, <1>6 DEF RiskyAreCounted
  <2>4. BlockedGoNoFurther' BY <1>5, <1>6, <2>1 DEF BlockedGoNoFurther
  <2>5. ~(t.score < 80 /\ t.risky) BY <1>5, <1>8
  <2>6. Dangerous' \subseteq Dangerous BY <2>1, <2>5 DEF Dangerous
  <2>7. /\ Cardinality(Dangerous)' <= Cardinality(Dangerous) /\ Cardinality(Dangerous)' \in Nat
        /\ Cardinality(Dangerous) \in Nat
    BY <2>6, DangerousCount, FS_Subset, FS_CardinalityType
  <2>8. BurstWithin'
    <3>1. Summed(risky, Rsk!Ages)' = Summed(risky, Rsk!Ages) BY <1>1 DEF Rsk!Ages
    <3>2. QED BY <1>6, <2>7, <3>1, DangerousCount, RiskSums, RiskConstants DEF BurstWithin
  <2>9. QED BY <2>2, <2>3, <2>4, <2>8 DEF RiskInv
<1>9. QED BY <1>4, <1>7, <1>8

LEMMA GoingOnKeeps ==
  ASSUME RiskInv, Rsk!RiskAssumption, NEW r \in Sessions,
         Rsk!Block(r) \/ Rsk!Flag(r) \/ Rsk!Place(r) \/ Rsk!Fail(r)
  PROVE  RiskInv'
<1>1. RiskTypes /\ BlockedGoNoFurther /\ flight[r] \in Bets BY DEF RiskInv, RiskTypes
<1>2. UNCHANGED <<recent, risky>> BY DEF Rsk!Block, Rsk!Flag, Rsk!Place, Rsk!Fail
<1>3. CASE Rsk!Block(r) \/ Rsk!Fail(r)
  <2>1. flight' = [flight EXCEPT ![r] = Rsk!NoBet] BY <1>3 DEF Rsk!Block, Rsk!Fail
  <2>2. Rsk!NoBet \in Bets /\ Rsk!NoBet.stage = "idle" /\ Rsk!NoBet.placed = 0 /\ Rsk!NoBet.age = 0
    BY DEF Rsk!NoBet, Bets
  <2> DEFINE t == Rsk!NoBet
  <2>3. /\ t \in Bets /\ 0 <= t.placed /\ t.placed <= t.age /\ t.age <= BetPatience
        /\ t.stage \notin {"flagged", "placing"} /\ t.stage = "idle"
    BY <2>2, RiskConstants
  <2>4. flight' = [flight EXCEPT ![r] = t] BY <2>1
  <2> HIDE DEF t
  <2>5. QED BY <1>2, <2>3, <2>4, BetGoesOn
<1>4. ASSUME NEW stage \in {"flagged", "placing"}, flight' = [flight EXCEPT ![r].stage = stage],
             flight[r].stage # "idle", flight[r].score < 80
      PROVE  RiskInv'
  <2> DEFINE t == [flight[r] EXCEPT !.stage = stage]
  <2>1. flight' = [flight EXCEPT ![r] = t] BY <1>4
  <2>2. t \in Bets BY <1>1, <1>4 DEF Bets
  <2>3. /\ t.score = flight[r].score /\ t.age = flight[r].age /\ t.placed = flight[r].placed
    BY <1>1, <1>4 DEF Bets
  <2>4. t.risky = flight[r].risky BY <1>1 DEF Bets
  <2> HIDE DEF t
  <2>5. 0 <= t.placed /\ t.placed <= t.age /\ t.age <= BetPatience /\ t.score < 80 BY <1>1, <1>4, <2>3 DEF RiskTypes
  <2>6. \/ Summed(risky, Rsk!Ages) <= MaxBets - 1
        \/ t.stage = "idle"
        \/ /\ flight[r].stage # "idle" /\ t.risky = flight[r].risky /\ t.score = flight[r].score
    BY <1>4, <2>3, <2>4
  <2>7. recent' = recent /\ risky' = risky BY <1>2
  <2>8. /\ 0 <= t.placed /\ t.placed <= t.age /\ t.age <= BetPatience
        /\ t.stage \in {"flagged", "placing"} => t.score < 80
    BY <2>5
  <2>9. QED BY <2>1, <2>2, <2>6, <2>7, <2>8, BetGoesOn, Zenon
<1>5. CASE Rsk!Flag(r)
  <2>1. flight' = [flight EXCEPT ![r].stage = "flagged"] /\ flight[r].stage # "idle" /\ flight[r].score < 80
    BY <1>5 DEF Rsk!Flag, Rsk!HardBlockThreshold, Rsk!FlagThreshold
  <2>2. QED BY <1>4, <2>1
<1>6. CASE Rsk!Place(r)
  <2>1. flight' = [flight EXCEPT ![r].stage = "placing"] /\ flight[r].stage # "idle" /\ flight[r].score < 80
    <3>1. flight[r].score \in Int BY <1>1 DEF Bets
    <3>2. QED BY <1>1, <1>6, <3>1 DEF Rsk!Place, Rsk!FlagThreshold, BlockedGoNoFurther
  <2>2. QED BY <1>4, <2>1
<1>7. QED BY <1>3, <1>5, <1>6

\* A bet is stored; if it is risky, it is one of those that are dangerous no longer.
LEMMA CommitKeeps ==
  ASSUME RiskInv, Rsk!RiskAssumption, NEW r \in Sessions, Rsk!Commit(r)
  PROVE  RiskInv'
<1> DEFINE age == flight[r].placed
           danger == flight[r].risky
           most == MaxBets + Cardinality(Sessions)
<1>1. /\ flight[r].stage = "placing" /\ flight' = [flight EXCEPT ![r] = Rsk!NoBet]
      /\ recent' = [recent EXCEPT ![age] = Rsk!AtMost(@ + 1, MaxBets)]
  BY DEF Rsk!Commit
<1>2. risky' = IF danger THEN [risky EXCEPT ![age] = Rsk!AtMost(@ + 1, most)] ELSE risky
  <2>1. Rsk!Cardinality(Sessions) = Cardinality(Sessions) BY Zenon DEF Cardinality, Rsk!Cardinality
  <2>2. QED BY <2>1 DEF Rsk!Commit
<1>3. RiskTypes /\ RiskyAreCounted /\ BlockedGoNoFurther /\ BurstWithin /\ flight[r] \in Bets
  BY DEF RiskInv, RiskTypes
<1>4. age \in Rsk!Ages
  <2>1. age \in Int BY <1>3 DEF Bets
  <2>2. 0 <= age /\ age <= flight[r].age /\ flight[r].age <= BetPatience /\ flight[r].age \in Int
    BY <1>3 DEF RiskTypes, Bets
  <2>3. QED BY <2>1, <2>2, RiskConstants
<1>5. /\ recent \in [Rsk!Ages -> Nat] /\ risky \in [Rsk!Ages -> Nat] /\ MaxBets \in Nat \ {0}
      /\ most \in Nat
  BY <1>3, RiskConstants, DangerousCount DEF RiskTypes
<1>6. danger \in BOOLEAN BY <1>3 DEF Bets
<1> HIDE DEF age, danger, most
<1>7. \A n \in Rsk!Ages : recent'[n] = IF n = age THEN Rsk!AtMost(recent[n] + 1, MaxBets) ELSE recent[n]
  BY <1>1, <1>5
<1>8. \A n \in Rsk!Ages : risky'[n] = IF danger /\ n = age THEN Rsk!AtMost(risky[n] + 1, most) ELSE risky[n]
  BY <1>2, <1>5
<1>9. recent' \in [Rsk!Ages -> Nat] /\ risky' \in [Rsk!Ages -> Nat]
  <2>1. \A n, m \in Nat : Rsk!AtMost(n + 1, m) \in Nat BY DEF Rsk!AtMost
  <2>2. recent' \in [Rsk!Ages -> Nat] BY <1>1, <1>4, <1>5, <2>1
  <2>3. [risky EXCEPT ![age] = Rsk!AtMost(@ + 1, most)] \in [Rsk!Ages -> Nat] BY <1>4, <1>5, <2>1
  <2>4. QED BY <1>2, <1>5, <2>2, <2>3
<1>10. \A q \in Sessions : flight'[q] = IF q = r THEN Rsk!NoBet ELSE flight[q] BY <1>1, <1>3 DEF RiskTypes
<1>11. Rsk!NoBet \in Bets /\ Rsk!NoBet.stage = "idle" /\ Rsk!NoBet.placed = 0 /\ Rsk!NoBet.age = 0
  BY DEF Rsk!NoBet, Bets
<1>12. RiskTypes'
  <2>1. flight' \in [Sessions -> Bets] BY <1>1, <1>3, <1>11 DEF RiskTypes
  <2>2. \A q \in Sessions : 0 <= flight'[q].placed /\ flight'[q].placed <= flight'[q].age
                            /\ flight'[q].age <= BetPatience
    BY <1>3, <1>10, <1>11, RiskConstants DEF RiskTypes
  <2>3. QED BY <1>9, <2>1, <2>2 DEF RiskTypes, Rsk!Ages
<1>13. RiskyAreCounted'
  <2> SUFFICES ASSUME NEW n \in Rsk!Ages, recent'[n] < MaxBets PROVE risky'[n] <= recent'[n]
    BY DEF RiskyAreCounted, Rsk!Ages
  <2>1. recent[n] \in Nat /\ risky[n] \in Nat BY <1>5
  <2>2. CASE n = age
    <3>1. recent'[n] = recent[n] + 1 /\ recent[n] < MaxBets BY <1>5, <1>7, <2>1, <2>2 DEF Rsk!AtMost
    <3>2. risky'[n] <= risky[n] + 1 BY <1>5, <1>8, <2>1 DEF Rsk!AtMost
    <3>3. risky'[n] \in Nat BY <1>9
    <3>4. QED BY <1>3, <2>1, <3>1, <3>2, <3>3 DEF RiskyAreCounted
  <2>3. CASE n # age BY <1>3, <1>7, <1>8, <2>3 DEF RiskyAreCounted
  <2>4. QED BY <2>2, <2>3
<1>14. BlockedGoNoFurther' BY <1>3, <1>10, <1>11 DEF BlockedGoNoFurther
<1>15. BurstWithin'
  <2>1. /\ IsFiniteSet(Dangerous) /\ Cardinality(Dangerous) \in Nat /\ Cardinality(Sessions) \in Nat
        /\ Summed(risky, Rsk!Ages) \in Nat /\ IsFiniteSet(Rsk!Ages)
    BY <1>3, DangerousCount, RiskSums, RiskConstants
  <2>2. Dangerous' \subseteq Dangerous BY <1>10, <1>11 DEF Dangerous
  <2>3. CASE danger
    <3>1. r \in Dangerous BY <1>1, <1>3, <2>3 DEF Dangerous, BlockedGoNoFurther, danger
    <3>2. r \notin Dangerous' BY <1>10, <1>11 DEF Dangerous
    <3>3. Dangerous' \subseteq Dangerous \ {r} BY <2>2, <3>2
    <3>4. Cardinality(Dangerous)' \in Nat /\ Cardinality(Dangerous)' <= Cardinality(Dangerous) - 1
      BY <2>1, <3>1, <3>3, FS_Subset, FS_RemoveElement, FS_CardinalityType
    <3>5. /\ Summed(risky', Rsk!Ages) = Summed(risky, Rsk!Ages) - risky[age] + risky'[age]
      <4> DEFINE f == risky
                 g == risky'
      <4>1. \A n \in Rsk!Ages : f[n] \in Int BY <1>5
      <4>2. \A n \in Rsk!Ages : g[n] \in Int BY <1>9
      <4>3. \A n \in Rsk!Ages \ {age} : g[n] = f[n] BY <1>8
      <4> HIDE DEF f, g
      <4>4. Summed(g, Rsk!Ages) = Summed(f, Rsk!Ages) - f[age] + g[age]
        BY <1>4, <2>1, <4>1, <4>2, <4>3, SumOfChange
      <4>5. QED BY <4>4 DEF f, g
    <3>6. risky[age] \in Nat /\ risky'[age] \in Nat /\ risky'[age] <= risky[age] + 1
      <4>1. risky[age] \in Nat /\ risky'[age] \in Nat BY <1>4, <1>5, <1>9
      <4>2. QED BY <1>4, <1>5, <1>8, <4>1 DEF Rsk!AtMost
    <3>7. Summed(risky, Rsk!Ages)' = Summed(risky', Rsk!Ages) BY DEF Rsk!Ages
    <3>8. QED BY <1>3, <1>5, <2>1, <3>4, <3>5, <3>6, <3>7 DEF BurstWithin
  <2>4. CASE ~danger
    <3>1. Summed(risky, Rsk!Ages)' = Summed(risky, Rsk!Ages) BY <1>2, <2>4 DEF Rsk!Ages
    <3>2. Cardinality(Dangerous)' \in Nat /\ Cardinality(Dangerous)' <= Cardinality(Dangerous)
      BY <2>1, <2>2, FS_Subset, FS_CardinalityType
    <3>3. QED BY <1>3, <1>5, <2>1, <3>1, <3>2 DEF BurstWithin
  <2>5. QED BY <2>3, <2>4
<1>16. QED BY <1>12, <1>13, <1>14, <1>15 DEF RiskInv

\* An interval passes: counts older than a minute are forgotten.
LEMMA BetsGrowOlder ==
  ASSUME RiskInv, Rsk!RiskAssumption, Rsk!Elapse
  PROVE  RiskInv'
<1>1. RiskTypes /\ RiskyAreCounted /\ BlockedGoNoFurther /\ BurstWithin BY DEF RiskInv
<1>2. /\ \A q \in Sessions : flight[q].stage = "idle" \/ flight[q].age < BetPatience
      /\ flight' = [q \in Sessions |->
                      IF flight[q].stage = "idle" THEN Rsk!NoBet
                      ELSE [flight[q] EXCEPT !.age = @ + 1,
                                             !.placed = IF flight[q].stage = "placing" THEN @ + 1 ELSE 0]]
      /\ recent' = Rsk!Older(recent) /\ risky' = Rsk!Older(risky)
  BY DEF Rsk!Elapse
<1>3. /\ \A n \in Rsk!Ages : recent'[n] = IF n = 0 THEN 0 ELSE recent[n - 1]
      /\ \A n \in Rsk!Ages : risky'[n] = IF n = 0 THEN 0 ELSE risky[n - 1]
      /\ \A n \in Rsk!Ages : n # 0 => n - 1 \in Rsk!Ages
  <2>1. \A n \in Rsk!Ages : n # 0 => n - 1 \in Rsk!Ages BY RiskConstants
  <2>2. QED BY <1>2, <2>1 DEF Rsk!Older
<1>4. recent' \in [Rsk!Ages -> Nat] /\ risky' \in [Rsk!Ages -> Nat]
  BY <1>1, <1>2, <1>3 DEF RiskTypes, Rsk!Older
<1>5. ASSUME NEW q \in Sessions
      PROVE  /\ flight'[q] \in Bets
             /\ 0 <= flight'[q].placed /\ flight'[q].placed <= flight'[q].age /\ flight'[q].age <= BetPatience
             /\ flight[q].stage = "idle" => flight'[q].stage = "idle"
             /\ flight[q].stage # "idle" =>
                  flight'[q].stage = flight[q].stage /\ flight'[q].score = flight[q].score
                  /\ flight'[q].risky = flight[q].risky
  <2>1. flight[q] \in Bets /\ 0 <= flight[q].placed /\ flight[q].placed <= flight[q].age
        /\ flight[q].age <= BetPatience /\ BetPatience \in Nat
    BY <1>1, RiskConstants DEF RiskTypes
  <2>2. CASE flight[q].stage = "idle"
    <3>1. flight'[q] = Rsk!NoBet BY <1>2, <2>2
    <3>2. QED BY <2>1, <2>2, <3>1 DEF Rsk!NoBet, Bets
  <2>3. CASE flight[q].stage # "idle"
    <3> DEFINE older == flight[q].age + 1
               later == IF flight[q].stage = "placing" THEN flight[q].placed + 1 ELSE 0
               t == [flight[q] EXCEPT !.age = older, !.placed = later]
    <3>1. flight'[q] = t BY <1>2, <2>3
    <3>2. /\ older \in Int /\ later \in Int /\ 0 <= later /\ later <= older /\ older <= BetPatience
      <4>1. flight[q].age \in Int /\ flight[q].placed \in Int BY <2>1 DEF Bets
      <4>2. flight[q].age < BetPatience BY <1>2, <2>3
      <4>3. later \in Int /\ 0 <= later /\ later <= flight[q].placed + 1 BY <2>1, <4>1
      <4>4. QED BY <2>1, <4>1, <4>2, <4>3
    <3> HIDE DEF older, later
    <3>3. t \in Bets BY <2>1, <3>2 DEF Bets
    <3>4. t.age = older /\ t.placed = later /\ t.stage = flight[q].stage /\ t.score = flight[q].score
      BY <2>1 DEF Bets
    <3>5. t.risky = flight[q].risky BY <2>1 DEF Bets
    <3> HIDE DEF t
    <3>6. QED BY <2>3, <3>1, <3>2, <3>3, <3>4, <3>5
  <2>4. QED BY <2>2, <2>3
<1>6. RiskTypes'
  <2>1. flight' \in [Sessions -> Bets]
    <3>1. flight' = [q \in Sessions |-> flight'[q]] BY <1>2
    <3>2. QED BY <1>5, <3>1
  <2>2. \A q \in Sessions : 0 <= flight'[q].placed /\ flight'[q].placed <= flight'[q].age
                            /\ flight'[q].age <= BetPatience
    BY <1>5
  <2>3. QED BY <1>4, <2>1, <2>2 DEF RiskTypes, Rsk!Ages
<1>7. RiskyAreCounted'
  <2> SUFFICES ASSUME NEW n \in Rsk!Ages, recent'[n] < MaxBets PROVE risky'[n] <= recent'[n]
    BY DEF RiskyAreCounted, Rsk!Ages
  <2>1. CASE n = 0 BY <1>3, <2>1
  <2>2. CASE n # 0 BY <1>1, <1>3, <2>2 DEF RiskyAreCounted
  <2>3. QED BY <2>1, <2>2
<1>8. BlockedGoNoFurther' BY <1>1, <1>5 DEF BlockedGoNoFurther
<1>9. BurstWithin'
  <2>1. Dangerous' \subseteq Dangerous BY <1>5 DEF Dangerous
  <2>2. /\ Cardinality(Dangerous)' <= Cardinality(Dangerous) /\ Cardinality(Dangerous)' \in Nat
        /\ Cardinality(Dangerous) \in Nat /\ Cardinality(Sessions) \in Nat
    BY <2>1, DangerousCount, FS_Subset, FS_CardinalityType
  <2>3. Summed(risky', Rsk!Ages) = Summed(risky, Rsk!Ages) - risky[Minute - 1]
    <3> DEFINE f == risky
               g == risky'
               last == Minute - 1
    <3>1. last \in Nat /\ Rsk!Ages = 0..last BY RiskConstants
    <3>2. \A n \in 0..last : f[n] \in Int BY <1>1, <3>1 DEF RiskTypes
    <3>3. \A n \in 0..last : g[n] = IF n = 0 THEN 0 ELSE f[n - 1] BY <1>3, <3>1
    <3> HIDE DEF f, g, last
    <3>4. Summed(g, 0..last) = Summed(f, 0..last) - f[last] BY <3>1, <3>2, <3>3, SumOfOlder
    <3>5. QED BY <3>1, <3>4 DEF f, g, last
  <2>4. risky[Minute - 1] \in Nat
    <3>1. Minute - 1 \in Rsk!Ages BY RiskConstants
    <3>2. QED BY <1>1, <3>1 DEF RiskTypes
  <2>5. Summed(risky, Rsk!Ages) \in Nat /\ MaxBets \in Nat BY <1>1, RiskSums, RiskConstants
  <2>6. Summed(risky, Rsk!Ages)' = Summed(risky', Rsk!Ages) BY DEF Rsk!Ages
  <2>7. QED BY <1>1, <2>2, <2>3, <2>4, <2>5, <2>6 DEF BurstWithin
<1>10. QED BY <1>6, <1>7, <1>8, <1>9 DEF RiskInv

LEMMA RiskStart == ASSUME Rsk!Init, Rsk!RiskAssumption PROVE RiskInv
<1>1. /\ flight = [r \in Sessions |-> Rsk!NoBet]
      /\ recent = [n \in Rsk!Ages |-> 0] /\ risky = [n \in Rsk!Ages |-> 0]
  BY DEF Rsk!Init
<1>2. Rsk!NoBet \in Bets /\ Rsk!NoBet.stage = "idle" /\ Rsk!NoBet.placed = 0 /\ Rsk!NoBet.age = 0
  BY DEF Rsk!NoBet, Bets
<1>3. RiskTypes BY <1>1, <1>2, RiskConstants DEF RiskTypes
<1>4. RiskyAreCounted BY <1>1 DEF RiskyAreCounted
<1>5. BlockedGoNoFurther BY <1>1, <1>2 DEF BlockedGoNoFurther
<1>6. BurstWithin
  <2>1. Dangerous = {} BY <1>1, <1>2 DEF Dangerous
  <2>2. Cardinality(Dangerous) = 0 BY <2>1, FS_EmptySet
  <2>3. Summed(risky, Rsk!Ages) = 0 BY <1>1, RiskConstants, SumOfZeros
  <2>4. QED BY <2>2, <2>3, DangerousCount, RiskConstants DEF BurstWithin
<1>7. QED BY <1>3, <1>4, <1>5, <1>6 DEF RiskInv

LEMMA RiskStep ==
  ASSUME RiskInv, Rsk!RiskAssumption, [ServicesNext]_everything
  PROVE  RiskInv'
<1>1. CASE UNCHANGED riskVars
  BY <1>1 DEF riskVars, RiskInv, RiskTypes, RiskyAreCounted, BlockedGoNoFurther, BurstWithin, Dangerous, Rsk!Ages
<1>2. CASE Rsk!Next
  BY <1>2, AssessKeeps, GoingOnKeeps, CommitKeeps, BetsGrowOlder DEF Rsk!Next
<1>3. QED BY <1>1, <1>2 DEF ServicesNext, everything

\* However the checks of concurrent bets interleave, the risky bets of any minute
\* exceed the limit by at most those that were assessed together.
THEOREM RiskyBurstsAreBounded == ServicesSpec => []RiskyBurstBounded
<1>1. Rsk!RiskAssumption BY ServicesAssumption
<1>2. ServicesInit => RiskInv BY <1>1, RiskStart DEF ServicesInit
<1>3. RiskInv /\ [ServicesNext]_everything => RiskInv' BY <1>1, RiskStep
<1>4. ASSUME RiskInv PROVE RiskyBurstBounded
  <2>1. Rsk!Sum(risky) = Summed(risky, Rsk!Ages)
    <3>1. DOMAIN risky = Rsk!Ages BY <1>4 DEF RiskInv, RiskTypes
    <3>2. QED BY <3>1, RiskSum
  <2>2. Rsk!Cardinality(Sessions) = Cardinality(Sessions) BY Zenon DEF Cardinality, Rsk!Cardinality
  <2>3. Summed(risky, Rsk!Ages) \in Nat /\ MaxBets \in Nat BY <1>1, <1>4, RiskSums, RiskConstants DEF RiskInv
  <2>4. Summed(risky, Rsk!Ages) <= MaxBets - 1 + Cardinality(Sessions)
    BY <1>4, <2>3, DangerousCount DEF RiskInv, BurstWithin
  <2>5. Rsk!RiskyBurstBounded BY <2>1, <2>2, <2>4 DEF Rsk!RiskyBurstBounded
  <2>6. QED BY <2>5 DEF RiskyBurstBounded
<1>5. QED BY <1>2, <1>3, <1>4, PTL DEF ServicesSpec

-----------------------------------------------------------------------------
\* What is left of the types: scores are percentages, counts no larger than what
\* decides anything.
RiskBounds ==
  /\ sharing \in {0, 1, 3} /\ young \in BOOLEAN
  /\ \A r \in Sessions : 0 <= flight[r].score /\ flight[r].score <= 100
  /\ \A n \in Rsk!Ages : recent[n] <= MaxBets /\ risky[n] <= MaxBets + Cardinality(Sessions)

LEMMA ScoreIsAPercentage ==
  ASSUME RiskInv, Rsk!RiskAssumption, NEW stake, NEW extreme
  PROVE  0 <= Rsk!Score(stake, extreme) /\ Rsk!Score(stake, extreme) <= 100
<1> DEFINE velocity == Rsk!Velocity(Rsk!Sum(recent))
           others == Rsk!OtherSignals(stake, extreme)
<1>1. velocity \in {0, 15, 40} BY DEF Rsk!Velocity, Rsk!VelocityLow
<1>2. others \in Nat
  <2>1. /\ Rsk!StakeScore(stake) \in {0, 10, 25} /\ Rsk!OddsScore(extreme) \in {0, 15}
        /\ Rsk!SharingScore \in {0, 10, 25} /\ Rsk!YoungScore(stake) \in {0, 15}
    BY DEF Rsk!StakeScore, Rsk!OddsScore, Rsk!SharingScore, Rsk!YoungScore
  <2>2. QED BY <2>1 DEF Rsk!OtherSignals
<1> HIDE DEF velocity, others
<1>3. velocity + others \in Nat BY <1>1, <1>2
<1>4. Rsk!Score(stake, extreme) = IF velocity + others > 100 THEN 100 ELSE velocity + others
  BY DEF Rsk!Score, velocity, others
<1>5. QED BY <1>3, <1>4

LEMMA ScoresStay ==
  ASSUME RiskInv, RiskBounds, NEW r \in Sessions, NEW t, flight' = [flight EXCEPT ![r] = t],
         0 <= t.score, t.score <= 100
  PROVE  \A q \in Sessions : 0 <= flight'[q].score /\ flight'[q].score <= 100
<1>1. flight \in [Sessions -> Bets] BY DEF RiskInv, RiskTypes
<1>2. \A q \in Sessions : flight'[q] = IF q = r THEN t ELSE flight[q] BY <1>1
<1>3. QED BY <1>2 DEF RiskBounds

LEMMA RequestsKeepBounds ==
  ASSUME RiskInv, RiskBounds, Rsk!RiskAssumption, NEW r \in Sessions,
         \/ \E stake \in Rsk!StakeShares, extreme \in BOOLEAN : Rsk!Assess(r, stake, extreme)
         \/ Rsk!Block(r) \/ Rsk!Flag(r) \/ Rsk!Place(r) \/ Rsk!Fail(r)
  PROVE  RiskBounds'
<1>1. UNCHANGED <<sharing, young, recent, risky>>
  BY DEF Rsk!Assess, Rsk!Block, Rsk!Flag, Rsk!Place, Rsk!Fail
<1>2. Rsk!NoBet.score = 0 BY DEF Rsk!NoBet
<1>3. PICK t : flight' = [flight EXCEPT ![r] = t] /\ 0 <= t.score /\ t.score <= 100
  <2>1. ASSUME NEW stake \in Rsk!StakeShares, NEW extreme \in BOOLEAN, Rsk!Assess(r, stake, extreme)
        PROVE  \E t : flight' = [flight EXCEPT ![r] = t] /\ 0 <= t.score /\ t.score <= 100
    <3> DEFINE score == Rsk!Score(stake, extreme)
               base == Rsk!NoBet
               half == [base EXCEPT !.stage = "assessed", !.score = score]
               danger == Rsk!IsRisky(stake, extreme)
               t == [half EXCEPT !.risky = danger]
    <3>1. 0 <= score /\ score <= 100 BY ScoreIsAPercentage
    <3>2. flight' = [flight EXCEPT ![r] = t] BY <2>1 DEF Rsk!Assess
    <3>3. base \in [stage : {"idle"}, score : {0}, risky : BOOLEAN, age : {0}, placed : {0}] BY DEF Rsk!NoBet
    <3> HIDE DEF score, base, danger
    <3>4. half \in [stage : {"assessed"}, score : {score}, risky : BOOLEAN, age : {0}, placed : {0}] BY <3>3
    <3> HIDE DEF half
    <3>5. t.score = score BY <3>4
    <3> HIDE DEF t
    <3>6. QED BY <3>1, <3>2, <3>5
  <2>2. ASSUME Rsk!Block(r) \/ Rsk!Fail(r)
        PROVE  \E t : flight' = [flight EXCEPT ![r] = t] /\ 0 <= t.score /\ t.score <= 100
    <3>1. PICK t : t = Rsk!NoBet OBVIOUS
    <3>2. flight' = [flight EXCEPT ![r] = t] BY <2>2, <3>1 DEF Rsk!Block, Rsk!Fail
    <3>3. 0 <= t.score /\ t.score <= 100 BY <1>2, <3>1
    <3>4. QED BY <3>2, <3>3
  <2>3. ASSUME Rsk!Flag(r) \/ Rsk!Place(r)
        PROVE  \E t : flight' = [flight EXCEPT ![r] = t] /\ 0 <= t.score /\ t.score <= 100
    <3>1. PICK stage : flight' = [flight EXCEPT ![r].stage = stage] BY <2>3 DEF Rsk!Flag, Rsk!Place
    <3> DEFINE t == [flight[r] EXCEPT !.stage = stage]
    <3>2. flight' = [flight EXCEPT ![r] = t] BY <3>1
    <3>3. flight[r] \in Bets BY DEF RiskInv, RiskTypes
    <3>4. t.score = flight[r].score BY <3>3 DEF Bets
    <3> HIDE DEF t
    <3>5. QED BY <3>2, <3>4 DEF RiskBounds
  <2>4. QED BY <2>1, <2>2, <2>3
<1>4. \A q \in Sessions : 0 <= flight'[q].score /\ flight'[q].score <= 100 BY <1>3, ScoresStay
<1>5. QED BY <1>1, <1>4 DEF RiskBounds, Rsk!Ages

LEMMA CommitKeepsBounds ==
  ASSUME RiskInv, RiskBounds, Rsk!RiskAssumption, NEW r \in Sessions, Rsk!Commit(r)
  PROVE  RiskBounds'
<1> DEFINE age == flight[r].placed
           most == MaxBets + Cardinality(Sessions)
           more == Rsk!AtMost(recent[age] + 1, MaxBets)
           worse == Rsk!AtMost(risky[age] + 1, most)
<1>1. /\ flight' = [flight EXCEPT ![r] = Rsk!NoBet] /\ UNCHANGED <<sharing, young>>
      /\ recent' = [recent EXCEPT ![age] = more]
      /\ risky' = risky \/ risky' = [risky EXCEPT ![age] = worse]
  <2>1. Rsk!Cardinality(Sessions) = Cardinality(Sessions) BY Zenon DEF Cardinality, Rsk!Cardinality
  <2>2. QED BY <2>1 DEF Rsk!Commit
<1>2. recent \in [Rsk!Ages -> Nat] /\ risky \in [Rsk!Ages -> Nat] BY DEF RiskInv, RiskTypes
<1>3. MaxBets \in Nat /\ most \in Nat BY RiskConstants, FiniteAssumption, FS_CardinalityType
<1>4. age \in Rsk!Ages
  <2>1. age \in Int /\ 0 <= age /\ age <= flight[r].age /\ flight[r].age \in Int /\ flight[r].age <= BetPatience
    BY DEF RiskInv, RiskTypes, Bets
  <2>2. QED BY <2>1, RiskConstants
<1>5. more <= MaxBets /\ worse <= most BY <1>2, <1>3, <1>4 DEF Rsk!AtMost
<1> HIDE DEF age, most, more, worse
<1>6. \A n \in Rsk!Ages : recent'[n] <= MaxBets /\ risky'[n] <= most
  <2>1. \A n \in Rsk!Ages : recent[n] <= MaxBets /\ risky[n] <= most BY DEF RiskBounds, most
  <2>2. QED BY <1>1, <1>2, <1>5, <2>1
<1>7. \A q \in Sessions : 0 <= flight'[q].score /\ flight'[q].score <= 100
  <2>1. PICK t : t = Rsk!NoBet OBVIOUS
  <2>2. t.score = 0 BY <2>1 DEF Rsk!NoBet
  <2>3. flight' = [flight EXCEPT ![r] = t] BY <1>1, <2>1
  <2>4. 0 <= t.score /\ t.score <= 100 BY <2>2
  <2>5. QED BY <2>3, <2>4, ScoresStay
<1>8. QED BY <1>1, <1>6, <1>7 DEF RiskBounds, most, Rsk!Ages

LEMMA OlderBetsKeepBounds ==
  ASSUME RiskInv, RiskBounds, Rsk!RiskAssumption, Rsk!Elapse
  PROVE  RiskBounds'
<1>1. UNCHANGED <<sharing, young>> /\ recent' = Rsk!Older(recent) /\ risky' = Rsk!Older(risky)
  BY DEF Rsk!Elapse
<1>2. MaxBets \in Nat /\ MaxBets + Cardinality(Sessions) \in Nat BY RiskConstants, FiniteAssumption, FS_CardinalityType
<1>3. \A n \in Rsk!Ages : recent'[n] <= MaxBets /\ risky'[n] <= MaxBets + Cardinality(Sessions)
  <2>1. \A n \in Rsk!Ages : n # 0 => n - 1 \in Rsk!Ages BY RiskConstants
  <2>2. QED BY <1>1, <1>2, <2>1 DEF RiskBounds, Rsk!Older
<1>4. ASSUME NEW q \in Sessions PROVE 0 <= flight'[q].score /\ flight'[q].score <= 100
  <2>1. flight[q] \in Bets BY DEF RiskInv, RiskTypes
  <2>2. CASE flight[q].stage = "idle"
    <3>1. flight'[q] = Rsk!NoBet BY <2>2 DEF Rsk!Elapse
    <3>2. QED BY <3>1 DEF Rsk!NoBet
  <2>3. CASE flight[q].stage # "idle"
    <3>1. PICK a, b : flight'[q] = [flight[q] EXCEPT !.age = a, !.placed = b] BY <2>3 DEF Rsk!Elapse
    <3>2. flight'[q].score = flight[q].score BY <2>1, <3>1 DEF Bets
    <3>3. QED BY <3>2 DEF RiskBounds
  <2>4. QED BY <2>2, <2>3
<1>5. QED BY <1>1, <1>3, <1>4 DEF RiskBounds, Rsk!Ages

LEMMA RiskBoundsStep ==
  ASSUME RiskInv, RiskBounds, Rsk!RiskAssumption, [ServicesNext]_everything
  PROVE  RiskBounds'
<1>1. CASE UNCHANGED riskVars BY <1>1 DEF riskVars, RiskBounds, Rsk!Ages
<1>2. CASE Rsk!Next BY <1>2, RequestsKeepBounds, CommitKeepsBounds, OlderBetsKeepBounds DEF Rsk!Next
<1>3. QED BY <1>1, <1>2 DEF ServicesNext, everything

LEMMA RiskBoundsStart ==
  ASSUME Rsk!RiskAssumption, Rsk!Init PROVE RiskBounds
<1>1. MaxBets \in Nat /\ MaxBets + Cardinality(Sessions) \in Nat BY RiskConstants, FiniteAssumption, FS_CardinalityType
<1>2. \A r \in Sessions : flight[r].score = 0 BY DEF Rsk!Init, Rsk!NoBet
<1>3. \A n \in Rsk!Ages : recent[n] = 0 /\ risky[n] = 0 BY DEF Rsk!Init
<1>4. sharing \in {0, 1, 3} /\ young \in BOOLEAN BY DEF Rsk!Init
<1>5. QED BY <1>1, <1>2, <1>3, <1>4 DEF RiskBounds

LEMMA RiskTypesMean ==
  ASSUME Rsk!RiskAssumption, RiskInv, RiskBounds PROVE Rsk!TypeOK
<1>1. Rsk!Cardinality(Sessions) = Cardinality(Sessions) BY Zenon DEF Cardinality, Rsk!Cardinality
<1>2. /\ MaxBets \in Nat /\ MaxBets + Cardinality(Sessions) \in Nat /\ BetPatience \in Nat
  BY RiskConstants, FiniteAssumption, FS_CardinalityType
<1>3. RiskTypes BY DEF RiskInv
<1>4. ASSUME NEW r \in Sessions PROVE flight[r] \in Rsk!Flights
  <2>1. flight[r] \in Bets BY <1>3 DEF RiskTypes
  <2>2. /\ flight[r].score \in Int /\ 0 <= flight[r].score /\ flight[r].score <= 100
    BY <2>1 DEF Bets, RiskBounds
  <2>3. /\ flight[r].placed \in Int /\ 0 <= flight[r].placed /\ flight[r].placed <= flight[r].age
        /\ flight[r].age \in Int /\ flight[r].age <= BetPatience
    BY <1>3, <2>1 DEF Bets, RiskTypes
  <2>4. flight[r].score \in 0..100 BY <2>2
  <2>5. flight[r].placed \in 0..BetPatience /\ flight[r].age \in 0..BetPatience BY <1>2, <2>3
  <2>6. QED BY <2>1, <2>4, <2>5 DEF Bets, Rsk!Flights
<1>5. flight \in [Sessions -> Rsk!Flights] BY <1>3, <1>4 DEF RiskTypes
<1>6. recent \in [Rsk!Ages -> 0..MaxBets] BY <1>2, <1>3 DEF RiskTypes, RiskBounds
<1>7. risky \in [Rsk!Ages -> 0..(MaxBets + Cardinality(Sessions))] BY <1>2, <1>3 DEF RiskTypes, RiskBounds
<1>8. QED BY <1>1, <1>5, <1>6, <1>7 DEF Rsk!TypeOK, RiskBounds

LEMMA OddsTypesMean == ASSUME OddsTypes PROVE Live!TypeOK
<1>1. \A n \in 1..Len(channel) : channel[n] \in Live!Partial BY DEF OddsTypes
<1>2. Live!Len(channel) = Len(channel) BY DEF OddsTypes
<1>3. QED BY <1>1, <1>2 DEF OddsTypes, Live!TypeOK

\* Whatever component runs, its state keeps its types; those of Limits are proved
\* of Spec, which Services implements.
THEOREM ServicesKeepTheirTypes == ServicesSpec => []TypesOK
<1> DEFINE Kept == focus \in Components /\ Rsk!RiskAssumption /\ RiskInv /\ RiskBounds
<1>1. ServicesInit => Kept
  BY ServicesAssumption, RiskStart, RiskBoundsStart DEF ServicesInit
<1>2. Kept /\ [ServicesNext]_everything => Kept'
  <2>1. [ServicesNext]_everything => focus' = focus BY DEF ServicesNext, everything
  <2>2. Kept /\ [ServicesNext]_everything => RiskInv' /\ RiskBounds' BY RiskStep, RiskBoundsStep
  <2>3. QED BY <2>1, <2>2 DEF Rsk!RiskAssumption
<1>3. Kept /\ TypeOK /\ TimesInv /\ AccountsInv /\ QuietInv => TypesOK
  BY RiskTypesMean, OddsTypesMean DEF TypesOK, Components, TimesInv, AccountsInv, QuietInv
<1>4. QED
  <2> HIDE DEF Kept
  <2>1. QED
    BY <1>1, <1>2, <1>3, LimitsKeepTheirTypes, ServicesRunLimits, TimesInvariance, AccountsInvariance,
       QuietInvariance, PTL DEF ServicesSpec
=============================================================================
