---------------------------- MODULE LimitsProofs ----------------------------
(***************************************************************************)
(* The cooling-off period of the limits and how far racing requests exceed *)
(* them, for any number of concurrent requests, any limits and amounts,    *)
(* any times and any number of changes.                                    *)
(***************************************************************************)
EXTENDS Limits, FoldProofs

MaybeLimit == Nat \union {None}
Scheduled  == [value : MaybeLimit, effective : Nat] \union {None}
LimitsOf   == [Kinds -> MaybeLimit]
PendingOf  == [Kinds -> Scheduled]
UserCopy   == [limit : LimitsOf, pending : PendingOf, excluded : Int]

\* A request that has loaded its user.
Request == [stage : {"promote"}, user : UserCopy, due : SUBSET Kinds, blocked : Int]

\* The part of the types the argument needs.
Shapes ==
  /\ now \in Nat /\ excluded \in Int /\ promised \in Int
  /\ limit \in LimitsOf /\ pending \in PendingOf
  /\ DOMAIN askedAt = Kinds /\ askedAt = [k \in Kinds |-> askedAt[k]]
  /\ \A k \in Kinds : askedAt[k] \in [Wanted(k) -> MaybeLimit]
  /\ DOMAIN task = Sessions /\ task = [p \in Sessions |-> task[p]]
  /\ \A p \in Sessions : At(p, "promote") => task[p] \in Request

\* Values asked for were asked for in the past.
AskedBefore ==
  \A k \in Kinds : \A v \in Wanted(k) : askedAt[k][v] # None => askedAt[k][v] <= now

\* v is no looser than some limit whose cooling-off is over.
InForce(k, v) == \E w \in Settled(k) : AsStrict(v, w)

\* An increase becomes effective a day after it was first asked for, or later.
Waits(k, q) ==
  q # None => /\ q.value \in Wanted(k)
              /\ askedAt[k][q.value] # None
              /\ askedAt[k][q.value] + Day <= q.effective

\* Limits in force and increases that wait, in the row and in every copy of it;
\* what a request is about to promote is effective.
RowIsSound == \A k \in Kinds : InForce(k, limit[k]) /\ Waits(k, pending[k])
CopyIsSound(t) ==
  \A k \in Kinds : /\ InForce(k, t.user.limit[k])
                   /\ Waits(k, t.user.pending[k])
                   /\ k \in t.due => /\ t.user.pending[k] # None
                                     /\ t.user.pending[k].effective <= now
CopiesAreSound == \A p \in Sessions : At(p, "promote") => CopyIsSound(task[p])

IInv == Shapes /\ AskedBefore /\ RowIsSound /\ CopiesAreSound

-----------------------------------------------------------------------------
LEMMA WantedTypes == ASSUME NEW k \in Kinds PROVE Wanted(k) \subseteq MaybeLimit
<1>1. Values \subseteq Nat
  BY DataAssumption
<1>2. CASE k = "loss"
  BY <1>1, <1>2 DEF Wanted, MaybeLimit
<1>3. CASE k # "loss"
  BY <1>1, <1>3 DEF Wanted, MaybeLimit
<1> QED
  BY <1>2, <1>3

\* Strictness of limits is transitive, with no limit as the loosest.
LEMMA AsStrictTransitive ==
  ASSUME NEW a \in MaybeLimit, NEW b \in MaybeLimit, NEW c \in MaybeLimit,
         AsStrict(a, b), AsStrict(b, c)
  PROVE  AsStrict(a, c)
BY NoneAssumption DEF AsStrict, MaybeLimit

LEMMA SettledTypes ==
  ASSUME NEW k \in Kinds PROVE Settled(k) \subseteq MaybeLimit
BY WantedTypes, DataAssumption DEF Settled, MaybeLimit

\* A value as strict as one in force may be in force.
LEMMA StricterIsInForce ==
  ASSUME NEW k \in Kinds, NEW a \in MaybeLimit, NEW b \in MaybeLimit,
         AsStrict(a, b), InForce(k, b)
  PROVE  InForce(k, a)
<1>1. PICK w \in Settled(k) : AsStrict(b, w)
  BY DEF InForce
<1>2. AsStrict(a, w)
  BY <1>1, SettledTypes, AsStrictTransitive
<1> QED
  BY <1>1, <1>2 DEF InForce

\* An increase that has waited may be in force.
LEMMA EffectiveIsInForce ==
  ASSUME Shapes, NEW k \in Kinds, NEW q \in Scheduled,
         q # None, Waits(k, q), q.effective <= now
  PROVE  InForce(k, q.value)
<1>1. q.value \in Wanted(k) /\ q.effective \in Nat /\ askedAt[k][q.value] # None
      /\ askedAt[k][q.value] + Day <= q.effective
  BY DEF Waits, Scheduled
<1>2. askedAt[k][q.value] \in Nat /\ now \in Nat /\ Day \in Nat
  BY <1>1, DataAssumption DEF Shapes, MaybeLimit
<1>3. q.value \in Settled(k)
  BY <1>1, <1>2 DEF Settled
<1>4. AsStrict(q.value, q.value)
  BY <1>1, WantedTypes, NoneAssumption DEF AsStrict, MaybeLimit
<1> QED
  BY <1>3, <1>4 DEF InForce

\* Time passes and first requests are never forgotten: a limit in force may stay in
\* force and an increase goes on waiting.
LEMMA HistoryGrows ==
  ASSUME Shapes, now' \in Nat, now <= now',
         \A k \in Kinds : \A v \in Wanted(k) :
           askedAt[k][v] # None => askedAt'[k][v] = askedAt[k][v]
  PROVE  \A k \in Kinds : /\ \A v : InForce(k, v) => InForce(k, v)'
                          /\ \A q : Waits(k, q) => Waits(k, q)'
<1> SUFFICES ASSUME NEW k \in Kinds
             PROVE  /\ \A v : InForce(k, v) => InForce(k, v)'
                    /\ \A q : Waits(k, q) => Waits(k, q)'
  OBVIOUS
<1>1. Settled(k) \subseteq Settled(k)'
  <2> SUFFICES ASSUME NEW v \in Wanted(k), askedAt[k][v] # None, askedAt[k][v] + Day <= now
               PROVE  askedAt'[k][v] # None /\ askedAt'[k][v] + Day <= now'
    BY DEF Settled
  <2>1. askedAt[k][v] \in Nat /\ now \in Nat /\ Day \in Nat
    BY DataAssumption DEF Shapes, MaybeLimit
  <2> QED
    BY <2>1
<1>2. ASSUME NEW v, InForce(k, v) PROVE InForce(k, v)'
  BY <1>1, <1>2 DEF InForce, AsStrict
<1>3. ASSUME NEW q, Waits(k, q) PROVE Waits(k, q)'
  BY <1>3 DEF Waits
<1> QED
  BY <1>2, <1>3

LEMMA CopyStaysSound ==
  ASSUME Shapes, now' \in Nat, now <= now',
         \A k \in Kinds : \A v \in Wanted(k) :
           askedAt[k][v] # None => askedAt'[k][v] = askedAt[k][v],
         NEW t \in Request, CopyIsSound(t)
  PROVE  CopyIsSound(t)'
<1> SUFFICES ASSUME NEW k \in Kinds
             PROVE  /\ InForce(k, t.user.limit[k])'
                    /\ Waits(k, t.user.pending[k])'
                    /\ k \in t.due => /\ t.user.pending[k] # None
                                      /\ t.user.pending[k].effective <= now'
  BY DEF CopyIsSound
<1>1. InForce(k, t.user.limit[k])' /\ Waits(k, t.user.pending[k])'
  BY HistoryGrows DEF CopyIsSound
<1>2. ASSUME k \in t.due
      PROVE  t.user.pending[k] # None /\ t.user.pending[k].effective <= now'
  <2>1. t.user.pending[k] # None /\ t.user.pending[k].effective <= now
    BY <1>2 DEF CopyIsSound
  <2>2. t.user.pending[k] \in Scheduled
    BY DEF Request, UserCopy, PendingOf
  <2> QED
    BY <2>1, <2>2 DEF Scheduled, Shapes
<1> QED
  BY <1>1, <1>2

\* A session goes on with t; the copies of the others stay sound.
LEMMA OthersStaySound ==
  ASSUME IInv, now' \in Nat, now <= now',
         \A k \in Kinds : \A v \in Wanted(k) :
           askedAt[k][v] # None => askedAt'[k][v] = askedAt[k][v],
         NEW p \in Sessions, NEW t, Goto(p, t),
         t.stage = "promote" => t \in Request /\ CopyIsSound(t)'
  PROVE  /\ DOMAIN task' = Sessions /\ task' = [q \in Sessions |-> task'[q]]
         /\ \A q \in Sessions : At(q, "promote")' => task'[q] \in Request
         /\ CopiesAreSound'
<1>1. DOMAIN task = Sessions /\ task = [q \in Sessions |-> task[q]]
  BY DEF IInv, Shapes
<1>2. task'[p] = t /\ \A q \in Sessions \ {p} : task'[q] = task[q]
  BY <1>1 DEF Goto
<1>3. DOMAIN task' = Sessions /\ task' = [q \in Sessions |-> task'[q]]
  BY <1>1 DEF Goto
<1>4. ASSUME NEW q \in Sessions, At(q, "promote")'
      PROVE  task'[q] \in Request /\ CopyIsSound(task[q])'
  <2>1. CASE q = p
    BY <1>2, <1>4, <2>1 DEF At, CopyIsSound
  <2>2. CASE q # p
    <3>1. task'[q] = task[q] /\ task[q] \in Request /\ CopyIsSound(task[q])
      BY <1>2, <1>4, <2>2 DEF At, IInv, Shapes, CopiesAreSound
    <3>2. \A r \in Request : CopyIsSound(r) => CopyIsSound(r)'
      BY CopyStaysSound DEF IInv
    <3> QED
      BY <3>1, <3>2 DEF CopyIsSound
  <2> QED
    BY <2>1, <2>2
<1> QED
  BY <1>3, <1>4 DEF CopiesAreSound

\* A request goes on without the copy, and neither the row nor history changes.
LEMMA RequestKeeps ==
  ASSUME IInv, NEW p \in Sessions, NEW t, t.stage # "promote", Goto(p, t),
         UNCHANGED <<now, row, past>>
  PROVE  IInv'
<1>1. now' = now /\ limit' = limit /\ pending' = pending /\ excluded' = excluded
      /\ askedAt' = askedAt /\ promised' = promised
  BY DEF row, past
<1>2. now' \in Nat /\ now <= now'
  BY <1>1 DEF IInv, Shapes
<1>3. /\ DOMAIN task' = Sessions /\ task' = [q \in Sessions |-> task'[q]]
      /\ \A q \in Sessions : At(q, "promote")' => task'[q] \in Request
      /\ CopiesAreSound'
  BY <1>1, <1>2, OthersStaySound
<1>4. Shapes' /\ AskedBefore'
  BY <1>1, <1>3 DEF IInv, Shapes, AskedBefore
<1>5. RowIsSound'
  BY <1>1 DEF IInv, RowIsSound, InForce, Settled, Waits
<1> QED
  BY <1>3, <1>4, <1>5 DEF IInv

-----------------------------------------------------------------------------
LEMMA InitKeeps == Init => IInv
<1> SUFFICES ASSUME Init PROVE IInv
  OBVIOUS
<1>1. Opening \in LimitsOf
  BY DataAssumption DEF LimitsOf, MaybeLimit
<1>2. \A p \in Sessions : ~ At(p, "promote")
  BY DEF Init, Idle, At
<1>3. Shapes
  BY <1>1, <1>2, WantedTypes DEF Init, Shapes, PendingOf, Scheduled, MaybeLimit
<1>4. AskedBefore
  BY DEF Init, AskedBefore
<1>5. RowIsSound
  <2> SUFFICES ASSUME NEW k \in Kinds PROVE InForce(k, limit[k]) /\ Waits(k, pending[k])
    BY DEF RowIsSound
  <2>1. Opening[k] \in Settled(k) /\ limit[k] = Opening[k] /\ pending[k] = None
    BY DEF Init, Settled
  <2>2. AsStrict(Opening[k], Opening[k])
    BY DataAssumption, NoneAssumption DEF AsStrict
  <2> QED
    BY <2>1, <2>2 DEF InForce, Waits
<1> QED
  BY <1>2, <1>3, <1>4, <1>5 DEF IInv, CopiesAreSound

\* loadUser: the copy is as sound as the row.
LEMMA LoadUserKeeps == ASSUME IInv, NEW p \in Sessions, LoadUser(p) PROVE IInv'
<1> DEFINE user == [limit |-> limit, pending |-> pending, excluded |-> excluded]
<1>0. PICK t : t = [stage |-> "promote", user |-> user, due |-> Due(user),
                   blocked |-> promised]
  OBVIOUS
<1>1. now' = now /\ limit' = limit /\ pending' = pending /\ excluded' = excluded
      /\ askedAt' = askedAt /\ promised' = promised /\ Goto(p, t)
  BY <1>0 DEF LoadUser, row, past
<1>2. t \in Request
  BY <1>0 DEF IInv, Shapes, Request, UserCopy, Due
<1>3. CopyIsSound(t)'
  <2> SUFFICES ASSUME NEW k \in Kinds
               PROVE  /\ InForce(k, limit[k]) /\ Waits(k, pending[k])
                      /\ k \in Due(user) => /\ pending[k] # None
                                            /\ pending[k].effective <= now
    BY <1>0, <1>1 DEF CopyIsSound, InForce, Settled, Waits
  <2>1. InForce(k, limit[k]) /\ Waits(k, pending[k])
    BY DEF IInv, RowIsSound
  <2> QED
    BY <2>1 DEF Due
<1>4. now' \in Nat /\ now <= now'
  BY <1>1 DEF IInv, Shapes
<1>5. /\ DOMAIN task' = Sessions /\ task' = [q \in Sessions |-> task'[q]]
      /\ \A q \in Sessions : At(q, "promote")' => task'[q] \in Request
      /\ CopiesAreSound'
  BY <1>1, <1>2, <1>3, <1>4, OthersStaySound
<1>6. Shapes' /\ AskedBefore'
  BY <1>1, <1>5 DEF IInv, Shapes, AskedBefore
<1>7. RowIsSound'
  BY <1>1 DEF IInv, RowIsSound, InForce, Settled, Waits
<1> QED
  BY <1>5, <1>6, <1>7 DEF IInv

\* One UPDATE of applyPendingLimits: the value promoted has waited.
LEMMA PromoteKeeps ==
  ASSUME IInv, NEW p \in Sessions, NEW k \in Kinds, Promote(p, k) PROVE IInv'
<1> DEFINE old == task[p]
           v == old.user.pending[k].value
<1>0. PICK t : t = [old EXCEPT !.due = @ \ {k}, !.user.limit[k] = v,
                              !.user.pending[k] = None]
  OBVIOUS
<1>1. now' = now /\ excluded' = excluded /\ askedAt' = askedAt /\ promised' = promised
      /\ limit' = [limit EXCEPT ![k] = v] /\ pending' = [pending EXCEPT ![k] = None]
      /\ Goto(p, t) /\ k \in old.due
  BY <1>0 DEF Promote, past
<1>2. old \in Request /\ CopyIsSound(old)
  BY DEF Promote, IInv, Shapes, CopiesAreSound
<1>3. v \in MaybeLimit /\ InForce(k, v)
  <2>1. old.user.pending[k] \in Scheduled
    BY <1>2 DEF Request, UserCopy, PendingOf
  <2>2. /\ old.user.pending[k] # None /\ old.user.pending[k].effective <= now
        /\ Waits(k, old.user.pending[k])
    BY <1>1, <1>2 DEF CopyIsSound
  <2>3. InForce(k, v)
    BY <2>1, <2>2, EffectiveIsInForce DEF IInv
  <2> QED
    BY <2>1, <2>2, <2>3 DEF Scheduled
<1>4. t \in Request
  BY <1>0, <1>2, <1>3 DEF Request, UserCopy, LimitsOf, PendingOf, Scheduled
<1>5. CopyIsSound(t)'
  <2> SUFFICES ASSUME NEW j \in Kinds
               PROVE  /\ InForce(j, t.user.limit[j]) /\ Waits(j, t.user.pending[j])
                      /\ j \in t.due => /\ t.user.pending[j] # None
                                        /\ t.user.pending[j].effective <= now
    BY <1>1 DEF CopyIsSound, InForce, Settled, Waits
  <2>1. CASE j = k
    <3>1. t.user.limit[j] = v /\ t.user.pending[j] = None /\ j \notin t.due
      BY <1>0, <1>2, <2>1 DEF Request, UserCopy, LimitsOf, PendingOf
    <3> QED
      BY <1>3, <2>1, <3>1 DEF Waits
  <2>2. CASE j # k
    <3>1. /\ t.user.limit[j] = old.user.limit[j] /\ t.user.pending[j] = old.user.pending[j]
          /\ j \in t.due => j \in old.due
      BY <1>0, <1>2, <2>2 DEF Request, UserCopy, LimitsOf, PendingOf
    <3> QED
      BY <1>2, <3>1 DEF CopyIsSound
  <2> QED
    BY <2>1, <2>2
<1> HIDE DEF v
<1>6. now' \in Nat /\ now <= now'
  BY <1>1 DEF IInv, Shapes
<1>7. /\ DOMAIN task' = Sessions /\ task' = [q \in Sessions |-> task'[q]]
      /\ \A q \in Sessions : At(q, "promote")' => task'[q] \in Request
      /\ CopiesAreSound'
  BY <1>1, <1>4, <1>5, <1>6, OthersStaySound
<1>8. limit' \in LimitsOf /\ pending' \in PendingOf
  BY <1>1, <1>3 DEF IInv, Shapes, LimitsOf, PendingOf, Scheduled
<1>9. Shapes' /\ AskedBefore'
  BY <1>1, <1>7, <1>8 DEF IInv, Shapes, AskedBefore
<1>10. RowIsSound'
  <2> SUFFICES ASSUME NEW j \in Kinds PROVE InForce(j, limit'[j]) /\ Waits(j, pending'[j])
    BY <1>1 DEF RowIsSound, InForce, Settled, Waits
  <2>1. CASE j = k
    BY <1>1, <1>3, <2>1 DEF IInv, Shapes, LimitsOf, PendingOf, Waits
  <2>2. CASE j # k
    BY <1>1, <2>2 DEF IInv, Shapes, LimitsOf, PendingOf, RowIsSound
  <2> QED
    BY <2>1, <2>2
<1> QED
  BY <1>7, <1>9, <1>10 DEF IInv

\* setDepositLimit, setLossLimit: what applies at once is as strict as a copy's
\* limit, however old the copy, and what is looser waits from now on.
LEMMA SetLimitKeeps ==
  ASSUME IInv, NEW p \in Sessions, NEW k \in Kinds, NEW v \in Wanted(k), SetLimit(p, k, v)
  PROVE  IInv'
<1> DEFINE user == task[p].user
<1>1. now' = now /\ excluded' = excluded /\ promised' = promised /\ Goto(p, Idle)
      /\ askedAt' = [askedAt EXCEPT ![k][v] = IF @ = None THEN now ELSE @]
  BY DEF SetLimit, Ask, Finish
<1>2. now \in Nat /\ now <= now' /\ Day \in Nat /\ v \in MaybeLimit
  BY <1>1, DataAssumption, WantedTypes DEF IInv, Shapes
<1>3. user \in UserCopy /\ CopyIsSound(task[p])
  BY DEF SetLimit, Loaded, IInv, Shapes, CopiesAreSound, Request
<1>4. /\ DOMAIN askedAt' = Kinds /\ askedAt' = [j \in Kinds |-> askedAt'[j]]
      /\ \A j \in Kinds : askedAt'[j] \in [Wanted(j) -> MaybeLimit]
      /\ \A j \in Kinds : \A w \in Wanted(j) :
           askedAt'[j][w] = IF j = k /\ w = v /\ askedAt[j][w] = None
                            THEN now ELSE askedAt[j][w]
  BY <1>1, <1>2 DEF IInv, Shapes, MaybeLimit
<1>5. \A j \in Kinds : \A w \in Wanted(j) :
        askedAt[j][w] # None => askedAt'[j][w] = askedAt[j][w]
  BY <1>4
<1>6. /\ DOMAIN task' = Sessions /\ task' = [q \in Sessions |-> task'[q]]
      /\ \A q \in Sessions : At(q, "promote")' => task'[q] \in Request
      /\ CopiesAreSound'
  <2>1. Idle.stage # "promote"
    BY DEF Idle
  <2> QED
    BY <1>1, <1>2, <1>5, <2>1, OthersStaySound
<1>7. AskedBefore'
  <2> SUFFICES ASSUME NEW j \in Kinds, NEW w \in Wanted(j), askedAt'[j][w] # None
               PROVE  askedAt'[j][w] <= now'
    BY DEF AskedBefore, Wanted
  <2> QED
    BY <1>1, <1>2, <1>4 DEF IInv, AskedBefore
<1>8. \A j \in Kinds : /\ \A w : InForce(j, w) => InForce(j, w)'
                       /\ \A q : Waits(j, q) => Waits(j, q)'
  BY <1>2, <1>1, <1>5, HistoryGrows DEF IInv
<1>9. CASE Immediate(user, k, v)
  <2>1. limit' = [limit EXCEPT ![k] = v] /\ pending' = [pending EXCEPT ![k] = None]
    BY <1>9 DEF SetLimit
  <2>2. limit' \in LimitsOf /\ pending' \in PendingOf
    BY <1>2, <2>1 DEF IInv, Shapes, LimitsOf, PendingOf, Scheduled
  <2>3. InForce(k, v)
    <3>1. AsStrict(v, user.limit[k]) /\ user.limit[k] \in MaybeLimit
      BY <1>3, <1>9 DEF Immediate, UserCopy, LimitsOf
    <3>2. InForce(k, user.limit[k])
      BY <1>3 DEF CopyIsSound
    <3> QED
      BY <1>2, <3>1, <3>2, StricterIsInForce
  <2>4. ASSUME NEW j \in Kinds PROVE InForce(j, limit'[j]) /\ Waits(j, pending'[j])
    <3>1. CASE j = k
      BY <2>1, <2>3, <3>1 DEF IInv, Shapes, LimitsOf, PendingOf, Waits
    <3>2. CASE j # k
      BY <2>1, <3>2 DEF IInv, Shapes, LimitsOf, PendingOf, RowIsSound
    <3> QED
      BY <3>1, <3>2
  <2>5. RowIsSound'
    <3> SUFFICES ASSUME NEW j \in Kinds PROVE InForce(j, limit[j])' /\ Waits(j, pending[j])'
      BY DEF RowIsSound
    <3>1. PICK lj, pj : lj = limit'[j] /\ pj = pending'[j]
      OBVIOUS
    <3>2. InForce(j, lj)' /\ Waits(j, pj)'
      BY <1>8, <2>4, <3>1 DEF InForce, Waits
    <3> QED
      BY <3>1, <3>2 DEF InForce, Waits
  <2>6. Shapes'
    BY <1>1, <1>2, <1>4, <1>6, <2>2 DEF IInv, Shapes
  <2> QED
    BY <1>6, <1>7, <2>5, <2>6 DEF IInv
<1>10. CASE ~ Immediate(user, k, v)
  <2>1. PICK q : q = [value |-> v, effective |-> now + Day]
    OBVIOUS
  <2>2. limit' = limit /\ pending' = [pending EXCEPT ![k] = q]
    BY <1>10, <2>1 DEF SetLimit, EffectiveAt
  <2>3. q \in Scheduled
    BY <1>2, <2>1 DEF Scheduled
  <2>4. limit' \in LimitsOf /\ pending' \in PendingOf
    BY <2>2, <2>3 DEF IInv, Shapes, LimitsOf, PendingOf
  <2>5. Waits(k, q)'
    <3>1. askedAt'[k][v] # None /\ askedAt'[k][v] <= now
      <4>1. askedAt'[k][v] # None
        BY <1>2, <1>4, NoneAssumption
      <4> QED
        BY <1>1, <1>7, <4>1 DEF AskedBefore, Wanted
    <3>2. askedAt'[k][v] \in Nat
      BY <1>4, <3>1 DEF MaybeLimit
    <3>3. askedAt'[k][v] + Day <= now + Day
      BY <1>2, <3>1, <3>2
    <3> QED
      BY <2>1, <3>1, <3>3 DEF Waits, Wanted
  <2>6. RowIsSound'
    <3> SUFFICES ASSUME NEW j \in Kinds PROVE InForce(j, limit[j])' /\ Waits(j, pending[j])'
      BY DEF RowIsSound
    <3>1. InForce(j, limit[j])'
      <4>1. PICK lj : lj = limit[j]
        OBVIOUS
      <4>2. InForce(j, lj)'
        BY <1>8, <4>1 DEF IInv, RowIsSound
      <4> QED
        BY <2>2, <4>1, <4>2 DEF InForce
    <3>2. Waits(j, pending[j])'
      <4>1. PICK pj : pj = pending[j]
        OBVIOUS
      <4>2. Waits(j, pj)'
        BY <1>8, <4>1 DEF IInv, RowIsSound
      <4>3. pending'[j] = IF j = k THEN q ELSE pj
        BY <2>2, <4>1 DEF IInv, Shapes, PendingOf
      <4> QED
        BY <2>5, <4>2, <4>3 DEF Waits
    <3> QED
      BY <3>1, <3>2
  <2>7. Shapes'
    BY <1>1, <1>2, <1>4, <1>6, <2>4 DEF IInv, Shapes
  <2> QED
    BY <1>6, <1>7, <2>6, <2>7 DEF IInv
<1> QED
  BY <1>9, <1>10

\* selfExclude leaves the limits alone.
LEMMA SelfExcludeKeeps ==
  ASSUME IInv, NEW p \in Sessions, NEW days \in Exclusions, SelfExclude(p, days)
  PROVE  IInv'
<1>1. /\ now' = now /\ limit' = limit /\ pending' = pending /\ askedAt' = askedAt
      /\ excluded' = now + days * Day /\ promised' = Max({promised, excluded'})
      /\ Goto(p, Idle) /\ Idle.stage # "promote"
  BY DEF SelfExclude, Finish, Idle
<1>2. now \in Nat /\ now <= now' /\ promised \in Int
  BY <1>1 DEF IInv, Shapes
<1>3. excluded' \in Int
  <2>1. days \in Int /\ Day \in Int
    BY DataAssumption
  <2>2. days * Day \in Int
    BY <2>1
  <2> QED
    BY <1>1, <1>2, <2>2
<1>4. promised' \in Int
  <2>1. PICK a, b : a = promised /\ b = excluded' /\ a \in Int /\ b \in Int
    BY <1>2, <1>3
  <2>2. \E m \in {a, b} : \A n \in {a, b} : m >= n
    <3>1. CASE a >= b
      BY <2>1, <3>1
    <3>2. CASE ~ (a >= b)
      BY <2>1, <3>2
    <3> QED
      BY <3>1, <3>2
  <2>3. Max({a, b}) \in {a, b}
    BY <2>2 DEF Max
  <2> QED
    BY <1>1, <2>1, <2>3
<1>5. /\ DOMAIN task' = Sessions /\ task' = [q \in Sessions |-> task'[q]]
      /\ \A q \in Sessions : At(q, "promote")' => task'[q] \in Request
      /\ CopiesAreSound'
  BY <1>1, <1>2, OthersStaySound
<1>6. Shapes' /\ AskedBefore'
  BY <1>1, <1>3, <1>4, <1>5 DEF IInv, Shapes, AskedBefore
<1>7. RowIsSound'
  BY <1>1 DEF IInv, RowIsSound, InForce, Settled, Waits
<1> QED
  BY <1>5, <1>6, <1>7 DEF IInv

\* Time passes.
LEMMA TickKeeps == ASSUME IInv, Tick PROVE IInv'
<1>1. now' = now + 1 /\ limit' = limit /\ pending' = pending /\ excluded' = excluded
      /\ task' = task /\ askedAt' = askedAt /\ promised' = promised
  BY DEF Tick, row, past
<1>2. now \in Nat /\ now' \in Nat /\ now <= now'
  BY <1>1 DEF IInv, Shapes
<1>3. Shapes'
  BY <1>1, <1>2 DEF IInv, Shapes, At
<1>4. AskedBefore'
  <2> SUFFICES ASSUME NEW k \in Kinds, NEW v \in Wanted(k), askedAt[k][v] # None
               PROVE  askedAt[k][v] <= now'
    BY <1>1 DEF AskedBefore, Wanted
  <2>1. askedAt[k][v] \in Nat /\ askedAt[k][v] <= now
    BY DEF IInv, Shapes, AskedBefore, MaybeLimit
  <2> QED
    BY <1>2, <2>1
<1>5. \A k \in Kinds : /\ \A v : InForce(k, v) => InForce(k, v)'
                       /\ \A q : Waits(k, q) => Waits(k, q)'
  BY <1>1, <1>2, HistoryGrows DEF IInv
<1>6. RowIsSound'
  <2> SUFFICES ASSUME NEW k \in Kinds PROVE InForce(k, limit[k])' /\ Waits(k, pending[k])'
    BY DEF RowIsSound
  <2>1. PICK lk, pk : lk = limit[k] /\ pk = pending[k]
    OBVIOUS
  <2>2. InForce(k, lk)' /\ Waits(k, pk)'
    BY <1>5, <2>1 DEF IInv, RowIsSound
  <2> QED
    BY <1>1, <2>1, <2>2 DEF InForce, Waits
<1>7. CopiesAreSound'
  <2> SUFFICES ASSUME NEW p \in Sessions, At(p, "promote") PROVE CopyIsSound(task[p])'
    BY <1>1 DEF CopiesAreSound, At
  <2>1. PICK t \in Request : t = task[p] /\ CopyIsSound(t)
    BY DEF IInv, Shapes, CopiesAreSound
  <2>2. CopyIsSound(t)'
    BY <1>1, <1>2, <2>1, CopyStaysSound DEF IInv
  <2> QED
    BY <1>1, <2>1, <2>2 DEF CopyIsSound
<1> QED
  BY <1>3, <1>4, <1>6, <1>7 DEF IInv

\* What leaves the row, the requests and the clock alone.
LEMMA MoneyKeeps == ASSUME IInv, UNCHANGED <<now, row, task, past>> PROVE IInv'
<1>1. now' = now /\ limit' = limit /\ pending' = pending /\ excluded' = excluded
      /\ task' = task /\ askedAt' = askedAt /\ promised' = promised
  BY DEF row, past
<1>2. Shapes' /\ AskedBefore'
  BY <1>1 DEF IInv, Shapes, AskedBefore, At
<1>3. RowIsSound'
  BY <1>1 DEF IInv, RowIsSound, InForce, Settled, Waits
<1>4. CopiesAreSound'
  BY <1>1 DEF IInv, CopiesAreSound, CopyIsSound, InForce, Settled, Waits, At
<1> QED
  BY <1>2, <1>3, <1>4 DEF IInv

\* Every step keeps the invariant.
LEMMA StepKeeps == IInv /\ [Next]_vars => IInv'
<1> SUFFICES ASSUME IInv, [Next]_vars PROVE IInv'
  OBVIOUS
<1>1. ASSUME NEW p \in Sessions, LoadUser(p) PROVE IInv'
  BY <1>1, LoadUserKeeps
<1>2. ASSUME NEW p \in Sessions, NEW k \in Kinds, Promote(p, k) PROVE IInv'
  BY <1>2, PromoteKeeps
<1>3. ASSUME NEW p \in Sessions, NEW k \in Kinds, NEW v \in Wanted(k), SetLimit(p, k, v)
      PROVE  IInv'
  BY <1>3, SetLimitKeeps
<1>4. ASSUME NEW p \in Sessions, NEW days \in Exclusions, SelfExclude(p, days) PROVE IInv'
  BY <1>4, SelfExcludeKeeps
<1>5. ASSUME NEW p \in Sessions, NEW stake \in Stakes, CheckBet(p, stake) PROVE IInv'
  <2>1. PICK t : t = [stage |-> "stake", amount |-> stake, checked |-> now,
                      blocked |-> task[p].blocked]
    OBVIOUS
  <2>2. t.stage # "promote" /\ Goto(p, t) /\ UNCHANGED <<now, row, past>>
    BY <1>5, <2>1 DEF CheckBet
  <2> QED
    BY <2>2, RequestKeeps
<1>6. ASSUME NEW p \in Sessions, NEW amount \in Deposits, CheckDeposit(p, amount) PROVE IInv'
  <2>1. PICK t : t = [stage |-> "credit", amount |-> amount]
    OBVIOUS
  <2>2. t.stage # "promote" /\ Goto(p, t) /\ UNCHANGED <<now, row, past>>
    BY <1>6, <2>1 DEF CheckDeposit
  <2> QED
    BY <2>2, RequestKeeps
<1>7. ASSUME NEW p \in Sessions, CommitStake(p) \/ CommitDeposit(p) \/ Abandon(p) PROVE IInv'
  <2>1. Idle.stage # "promote" /\ Goto(p, Idle) /\ UNCHANGED <<now, row, past>>
    BY <1>7 DEF CommitStake, CommitDeposit, Abandon, Finish, Idle
  <2> QED
    BY <2>1, RequestKeeps
<1>8. ASSUME NEW amount \in Payouts, PayBet(amount) PROVE IInv'
  BY <1>8, MoneyKeeps DEF PayBet
<1>9. CASE Tick
  BY <1>9, TickKeeps
<1>10. CASE UNCHANGED vars
  BY <1>10, MoneyKeeps DEF vars
<1> QED
  BY <1>1, <1>2, <1>3, <1>4, <1>5, <1>6, <1>7, <1>8, <1>9, <1>10 DEF Next

\* What a row, and every copy of it, may hold at any time.
THEOREM LimitsInvariance == Spec => []IInv
BY InitKeeps, StepKeeps, PTL DEF Spec

\* However many requests race over copies of the row, a limit in force is never
\* looser than every limit that was first asked for a day ago or more.
THEOREM CoolingOff == Spec => []IncreaseWaits
<1>1. IInv => IncreaseWaits
  BY DEF IInv, RowIsSound, InForce, IncreaseWaits
<1> QED
  BY <1>1, LimitsInvariance, PTL

-----------------------------------------------------------------------------
\* The copy of a request is still what the row holds.
CopiesAreFresh ==
  \A p \in Sessions : At(p, "promote") => /\ task[p].user.limit = limit
                                         /\ task[p].user.pending = pending

\* With one request at a time a copy never grows old.
LEMMA FreshKeeps ==
  ASSUME \A p, q \in Sessions : p = q, IInv, CopiesAreFresh, [Next]_vars
  PROVE  CopiesAreFresh'
<1>1. DOMAIN task = Sessions /\ task = [q \in Sessions |-> task[q]]
  BY DEF IInv, Shapes
<1>2. ASSUME NEW p \in Sessions, NEW t, Goto(p, t), t.stage # "promote"
      PROVE  CopiesAreFresh'
  BY <1>1, <1>2 DEF CopiesAreFresh, Goto, At
<1>3. ASSUME NEW p \in Sessions, LoadUser(p) PROVE CopiesAreFresh'
  BY <1>1, <1>3 DEF LoadUser, Goto, CopiesAreFresh, row
<1>4. ASSUME NEW p \in Sessions, NEW k \in Kinds, Promote(p, k) PROVE CopiesAreFresh'
  <2>1. task[p] \in Request /\ task[p].user.limit = limit /\ task[p].user.pending = pending
    BY <1>4 DEF Promote, IInv, Shapes, CopiesAreFresh
  <2>2. PICK v : v = task[p].user.pending[k].value
    OBVIOUS
  <2>3. PICK t : t = [task[p] EXCEPT !.due = @ \ {k}, !.user.limit[k] = v,
                                    !.user.pending[k] = None]
    OBVIOUS
  <2>4. t.user.limit = [limit EXCEPT ![k] = v] /\ t.user.pending = [pending EXCEPT ![k] = None]
    BY <2>1, <2>3 DEF Request, UserCopy
  <2>5. Goto(p, t) /\ limit' = t.user.limit /\ pending' = t.user.pending
    BY <1>4, <2>2, <2>3, <2>4 DEF Promote
  <2>6. task'[p] = t
    BY <1>1, <2>5 DEF Goto
  <2> QED
    BY <2>5, <2>6 DEF CopiesAreFresh
<1>5. ASSUME NEW p \in Sessions, NEW k \in Kinds, NEW v \in Wanted(k), SetLimit(p, k, v)
      PROVE  CopiesAreFresh'
  BY <1>2, <1>5 DEF SetLimit, Finish, Idle
<1>6. ASSUME NEW p \in Sessions, NEW days \in Exclusions, SelfExclude(p, days)
      PROVE  CopiesAreFresh'
  BY <1>2, <1>6 DEF SelfExclude, Finish, Idle
<1>7. ASSUME NEW p \in Sessions, NEW stake \in Stakes, CheckBet(p, stake)
      PROVE  CopiesAreFresh'
  <2>1. PICK t : t = [stage |-> "stake", amount |-> stake, checked |-> now,
                      blocked |-> task[p].blocked]
    OBVIOUS
  <2> QED
    BY <1>2, <1>7, <2>1 DEF CheckBet
<1>8. ASSUME NEW p \in Sessions, NEW amount \in Deposits, CheckDeposit(p, amount)
      PROVE  CopiesAreFresh'
  <2>1. PICK t : t = [stage |-> "credit", amount |-> amount]
    OBVIOUS
  <2> QED
    BY <1>2, <1>8, <2>1 DEF CheckDeposit
<1>9. ASSUME NEW p \in Sessions, CommitStake(p) \/ CommitDeposit(p) \/ Abandon(p)
      PROVE  CopiesAreFresh'
  BY <1>2, <1>9 DEF CommitStake, CommitDeposit, Abandon, Finish, Idle
<1>10. ASSUME UNCHANGED <<row, task>> PROVE CopiesAreFresh'
  BY <1>10 DEF CopiesAreFresh, row, At
<1>11. ASSUME (\E amount \in Payouts : PayBet(amount)) \/ Tick \/ UNCHANGED vars
       PROVE  CopiesAreFresh'
  BY <1>10, <1>11 DEF PayBet, Tick, vars
<1> QED
  BY <1>3, <1>4, <1>5, <1>6, <1>7, <1>8, <1>9, <1>11 DEF Next

\* If requests never overlap, a reduction is immediate and an increase only takes
\* effect by the promotion of one that has waited: what limits_stale_increase finds
\* is due to concurrency alone.
THEOREM SerialCoolingOff ==
  ASSUME \A p, q \in Sessions : p = q
  PROVE  Spec => IncreaseCoolsOff
<1> DEFINE Cools(k) == \/ AsStrict(limit'[k], limit[k])
                       \/ /\ pending[k] # None
                          /\ pending[k].effective <= now
                          /\ limit'[k] = pending[k].value
<1>1. Init => CopiesAreFresh
  BY DEF Init, CopiesAreFresh, Idle, At
<1>2. IInv /\ CopiesAreFresh /\ [Next]_vars => CopiesAreFresh'
  BY FreshKeeps
<1>3. ASSUME IInv, CopiesAreFresh, [Next]_vars, NEW k \in Kinds PROVE Cools(k)
  <2>1. limit \in LimitsOf /\ AsStrict(limit[k], limit[k])
    BY <1>3, NoneAssumption DEF IInv, Shapes, LimitsOf, MaybeLimit, AsStrict
  <2>2. CASE limit' = limit
    BY <2>1, <2>2
  <2>3. ASSUME NEW p \in Sessions, NEW j \in Kinds, Promote(p, j) PROVE Cools(k)
    <3>1. /\ limit' = [limit EXCEPT ![j] = pending[j].value]
          /\ pending[j] # None /\ pending[j].effective <= now
      BY <1>3, <2>3 DEF Promote, CopiesAreFresh, CopiesAreSound, CopyIsSound, IInv
    <3> QED
      BY <2>1, <3>1 DEF LimitsOf
  <2>4. ASSUME NEW p \in Sessions, NEW j \in Kinds, NEW v \in Wanted(j), SetLimit(p, j, v)
        PROVE  Cools(k)
    <3>1. CASE limit' = [limit EXCEPT ![j] = v] /\ AsStrict(v, task[p].user.limit[j])
      <4>1. task[p].user.limit = limit
        BY <1>3, <2>4 DEF SetLimit, Loaded, CopiesAreFresh
      <4> QED
        BY <2>1, <3>1, <4>1 DEF LimitsOf
    <3> QED
      BY <2>2, <2>4, <3>1 DEF SetLimit, Immediate
  <2>5. \/ limit' = limit
        \/ \E p \in Sessions, j \in Kinds :
             Promote(p, j) \/ \E v \in Wanted(j) : SetLimit(p, j, v)
    BY <1>3 DEF Next, LoadUser, SelfExclude, CheckBet, CommitStake, CheckDeposit,
                CommitDeposit, Abandon, PayBet, Tick, vars, row
  <2> QED
    BY <2>2, <2>3, <2>4, <2>5
<1>4. IInv /\ CopiesAreFresh /\ [Next]_vars => [\A k \in Kinds : Cools(k)]_vars
  BY <1>3
<1> QED
  BY <1>1, <1>2, <1>4, LimitsInvariance, PTL DEF Spec, IncreaseCoolsOff

-----------------------------------------------------------------------------
\* What requests carry past the checks of the limits.
Own(t, stage) == IF t.stage = stage THEN t.amount ELSE 0
Load(stage) == [p \in Sessions |-> Own(task[p], stage)]
Carried(stage) == Summed(Load(stage), Sessions)

DepositedAndCarried == Summed(deposited, Ages) + Carried("credit")
LostAndCarried == Summed(lost, Ages) + Carried("stake")

MoneyTypes ==
  /\ deposited \in [Ages -> Nat] /\ lost \in [Ages -> Int]
  /\ \A p \in Sessions : At(p, "credit") => task[p].amount \in Deposits
  /\ \A p \in Sessions : At(p, "stake") => /\ task[p].amount \in Stakes
                                           /\ task[p].checked \in Nat /\ task[p].checked <= now

DepositsWithin == InForce("deposit", DepositedAndCarried - Others(Deposits))
\* A payout that grows older than a day may raise the loss: the bound is of the
\* bets checked at this very time.
LossWithin ==
  (\E p \in Sessions : At(p, "stake") /\ task[p].checked = now) => InForce("loss", LostAndCarried - Others(Stakes))

MoneyInv == MoneyTypes /\ DepositsWithin /\ LossWithin

LEMMA MaxOf ==
  ASSUME NEW S \in SUBSET Nat, IsFiniteSet(S), S # {}
  PROVE  Max(S) \in S /\ \A x \in S : x <= Max(S)
<1> DEFINE F == {T \in SUBSET S : T # {} => \E x \in T : \A y \in T : x >= y}
<1>1. ASSUME NEW T \in SUBSET S, \A x \in T : T \ {x} \in F PROVE T \in F
  <2>1. SUFFICES ASSUME T # {} PROVE \E x \in T : \A y \in T : x >= y OBVIOUS
  <2>2. PICK z : z \in T BY <2>1
  <2>3. CASE T \ {z} = {}
    <3>1. \A y \in T : z >= y BY <2>2, <2>3
    <3>2. QED BY <2>2, <3>1
  <2>4. CASE T \ {z} # {}
    <3>1. PICK x \in T \ {z} : \A y \in T \ {z} : x >= y BY <1>1, <2>2, <2>4
    <3>2. CASE x >= z BY <3>1, <3>2
    <3>3. CASE ~(x >= z)
      <4>1. \A y \in T : z >= y BY <2>2, <3>1, <3>3
      <4>2. QED BY <2>2, <4>1
    <3>4. QED BY <3>2, <3>3
  <2>5. QED BY <2>3, <2>4
<1>2. \A T \in SUBSET S : T \in F
  <2> HIDE DEF F
  <2>1. QED BY <1>1, SubsetInduction
<1>3. PICK x \in S : \A y \in S : x >= y BY <1>2
<1>4. Max(S) \in S /\ \A y \in S : Max(S) >= y BY <1>3 DEF Max
<1>5. QED BY <1>4

LEMMA AgesAreFinite == IsFiniteSet(Ages) /\ Day \in Nat /\ 0 \in Ages
BY DataAssumption, FS_Interval DEF Ages

LEMMA Totals ==
  ASSUME MoneyTypes
  PROVE  Summed(deposited, Ages) \in Nat /\ Summed(lost, Ages) \in Int
BY AgesAreFinite, SumIsNat, SumIsInt DEF MoneyTypes

LEMMA Loads ==
  ASSUME MoneyTypes, NEW stage \in {"credit", "stake"}
  PROVE  \A p \in Sessions : Load(stage)[p] = Own(task[p], stage) /\ Own(task[p], stage) \in Nat
BY DataAssumption DEF MoneyTypes, Load, Own, At

LEMMA CarriedIsNat ==
  ASSUME MoneyTypes, NEW stage \in {"credit", "stake"}
  PROVE  Carried(stage) \in Nat /\ \A p \in Sessions : Own(task[p], stage) <= Carried(stage)
<1>1. IsFiniteSet(Sessions) BY FiniteAssumption
<1>2. \A p \in Sessions : Load(stage)[p] \in Nat /\ Load(stage)[p] = Own(task[p], stage) BY Loads
<1> DEFINE f == Load(stage)
<1> HIDE DEF f
<1>3. Summed(f, Sessions) \in Nat /\ \A p \in Sessions : f[p] <= Summed(f, Sessions)
  BY <1>1, <1>2, SumIsNat DEF f
<1>4. QED BY <1>2, <1>3 DEF Carried, f

\* A request goes on with t.
LEMMA CarriedChanges ==
  ASSUME MoneyTypes, DOMAIN task = Sessions, task = [q \in Sessions |-> task[q]],
         NEW stage \in {"credit", "stake"}, NEW p \in Sessions, NEW t, Goto(p, t), Own(t, stage) \in Nat
  PROVE  Carried(stage)' = Carried(stage) - Own(task[p], stage) + Own(t, stage)
<1> DEFINE f == Load(stage)
           g == Load(stage)'
<1>1. \A q \in Sessions : f[q] \in Int /\ f[q] = Own(task[q], stage) BY Loads
<1>2. \A q \in Sessions : task'[q] = IF q = p THEN t ELSE task[q] BY DEF Goto
<1>3. \A q \in Sessions : g[q] = IF q = p THEN Own(t, stage) ELSE f[q] BY <1>2 DEF Load, Own
<1>4. IsFiniteSet(Sessions) BY FiniteAssumption
<1> HIDE DEF f, g
<1>5. Summed(g, Sessions) = Summed(f, Sessions) - f[p] + g[p] BY <1>1, <1>3, <1>4, SumOfChange
<1>6. QED BY <1>1, <1>3, <1>5 DEF Carried, f, g

\* What the other requests carry.
LEMMA OthersCarry ==
  ASSUME MoneyTypes, NEW stage, NEW amounts,
         (stage = "credit" /\ amounts = Deposits) \/ (stage = "stake" /\ amounts = Stakes),
         NEW p \in Sessions, ~At(p, stage)
  PROVE  Carried(stage) <= Others(amounts) /\ Others(amounts) \in Int
<1> DEFINE f == Load(stage)
<1>1. \A q \in Sessions : f[q] \in Nat /\ f[q] = Own(task[q], stage) BY Loads
<1>2. amounts \subseteq Nat /\ IsFiniteSet(amounts) /\ amounts # {} BY DataAssumption, FiniteAssumption
<1>3. Max(amounts) \in Nat /\ \A a \in amounts : a <= Max(amounts) BY <1>2, MaxOf
<1>4. \A q \in Sessions : f[q] <= Max(amounts) BY <1>1, <1>3 DEF Own, MoneyTypes, At
<1>5. f[p] = 0 BY <1>1 DEF Own, At
<1>6. /\ IsFiniteSet(Sessions) /\ IsFiniteSet(Sessions \ {p}) /\ Cardinality(Sessions) \in Nat
      /\ Cardinality(Sessions \ {p}) = Cardinality(Sessions) - 1
  BY FiniteAssumption, FS_Subset, FS_CardinalityType, FS_RemoveElement
<1> HIDE DEF f
<1>7. Summed(f, Sessions) = f[p] + Summed(f, Sessions \ {p}) /\ Summed(f, Sessions \ {p}) \in Int
  <2>1. \A q \in Sessions : f[q] \in Int BY <1>1
  <2>2. QED BY <1>6, <2>1, SumTakesAny
<1>8. Summed(f, Sessions \ {p}) <= Cardinality(Sessions \ {p}) * Max(amounts)
  BY <1>1, <1>3, <1>4, <1>6, SumBounded
<1>9. Others(amounts) = Cardinality(Sessions \ {p}) * Max(amounts) BY <1>6 DEF Others
<1>10. Others(amounts) \in Int
  <2>1. \A n \in Int : n * Max(amounts) \in Int BY <1>3
  <2>2. QED BY <1>6, <2>1 DEF Others
<1>11. QED BY <1>5, <1>7, <1>8, <1>9, <1>10 DEF Carried, f

LEMMA OthersIsInt ==
  ASSUME NEW amounts \in {Stakes, Deposits}
  PROVE  Others(amounts) \in Nat
<1>1. amounts \in SUBSET Nat /\ IsFiniteSet(amounts) /\ amounts # {} BY DataAssumption, FiniteAssumption
<1>2. Max(amounts) \in Nat BY <1>1, MaxOf
<1>3. Cardinality(Sessions) - 1 \in Nat
  <2>1. Cardinality(Sessions) \in Nat /\ Cardinality(Sessions) # 0
    BY FiniteAssumption, FS_CardinalityType, FS_EmptySet
  <2>2. QED BY <2>1
<1>4. \A n, m \in Nat : n * m \in Nat OBVIOUS
<1>5. QED BY <1>2, <1>3, <1>4 DEF Others

LEMMA LessIsInForce ==
  ASSUME NEW k \in Kinds, NEW a \in Int, NEW b \in Int, b <= a, InForce(k, a)
  PROVE  InForce(k, b)
<1>1. PICK w \in Settled(k) : AsStrict(a, w) BY DEF InForce
<1>2. AsStrict(b, w) BY <1>1, SettledTypes, NoneAssumption DEF AsStrict, MaybeLimit
<1>3. QED BY <1>1, <1>2 DEF InForce

BothLimits == Kinds = {"deposit", "loss"}
StaysInForce == \A k \in Kinds : \A v : InForce(k, v) => InForce(k, v)'

\* The row keeps what it has asked for: limits in force stay so.
LEMMA SameHistory ==
  ASSUME UNCHANGED <<now, askedAt>>
  PROVE  StaysInForce
BY DEF StaysInForce, InForce, Settled, AsStrict

\* The bounds after a step, from a total that was within the limits before it.
LEMMA DepositsKept ==
  ASSUME BothLimits, StaysInForce, NEW a \in Int, InForce("deposit", a),
         DepositedAndCarried' \in Int, DepositedAndCarried' - Others(Deposits) <= a
  PROVE  DepositsWithin'
<1>1. Others(Deposits) \in Int BY OthersIsInt
<1>2. PICK total \in Int : total = DepositedAndCarried' - Others(Deposits) BY <1>1
<1>3. InForce("deposit", total) BY <1>2, LessIsInForce DEF BothLimits
<1>4. InForce("deposit", total)' BY <1>3 DEF BothLimits, StaysInForce
<1>5. QED BY <1>2, <1>4 DEF DepositsWithin, InForce, Others

LEMMA LossKept ==
  ASSUME BothLimits, StaysInForce, NEW a \in Int, InForce("loss", a),
         LostAndCarried' \in Int, LostAndCarried' - Others(Stakes) <= a
  PROVE  LossWithin'
<1>1. Others(Stakes) \in Int BY OthersIsInt
<1>2. PICK total \in Int : total = LostAndCarried' - Others(Stakes) BY <1>1
<1>3. InForce("loss", total) BY <1>2, LessIsInForce DEF BothLimits
<1>4. InForce("loss", total)' BY <1>3 DEF BothLimits, StaysInForce
<1>5. QED BY <1>2, <1>4 DEF LossWithin, InForce, Others

\* A total that does not rise.
LEMMA DepositsFall ==
  ASSUME BothLimits, StaysInForce, MoneyInv, DepositedAndCarried' \in Int, DepositedAndCarried' <= DepositedAndCarried
  PROVE  DepositsWithin'
<1>1. DepositedAndCarried \in Int /\ Others(Deposits) \in Int
  BY OthersIsInt, Totals, CarriedIsNat DEF MoneyInv, DepositedAndCarried
<1>2. InForce("deposit", DepositedAndCarried - Others(Deposits)) BY DEF MoneyInv, DepositsWithin
<1> DEFINE a == DepositedAndCarried - Others(Deposits)
<1>3. a \in Int /\ DepositedAndCarried' - Others(Deposits) <= a BY <1>1
<1> HIDE DEF a
<1>4. QED BY <1>2, <1>3, DepositsKept DEF a

LEMMA LossFalls ==
  ASSUME BothLimits, StaysInForce, MoneyInv, LostAndCarried' \in Int, LostAndCarried' <= LostAndCarried,
         \E p \in Sessions : At(p, "stake") /\ task[p].checked = now
  PROVE  LossWithin'
<1>1. LostAndCarried \in Int /\ Others(Stakes) \in Int
  BY OthersIsInt, Totals, CarriedIsNat DEF MoneyInv, LostAndCarried
<1>2. InForce("loss", LostAndCarried - Others(Stakes)) BY DEF MoneyInv, LossWithin
<1> DEFINE a == LostAndCarried - Others(Stakes)
<1>3. a \in Int /\ LostAndCarried' - Others(Stakes) <= a BY <1>1
<1> HIDE DEF a
<1>4. QED BY <1>2, <1>3, LossKept DEF a

\* What the requests carry after a step of p.
LEMMA CarriedAfter ==
  ASSUME IInv, MoneyTypes, NEW p \in Sessions, NEW t, Goto(p, t),
         Own(t, "credit") \in Nat, Own(t, "stake") \in Nat
  PROVE  \A stage \in {"credit", "stake"} :
           /\ Carried(stage)' = Carried(stage) - Own(task[p], stage) + Own(t, stage)
           /\ Carried(stage) \in Nat /\ Own(task[p], stage) \in Nat
           /\ Own(task[p], stage) <= Carried(stage)
<1>1. DOMAIN task = Sessions /\ task = [q \in Sessions |-> task[q]] BY DEF IInv, Shapes
<1> SUFFICES ASSUME NEW stage \in {"credit", "stake"}
             PROVE  /\ Carried(stage)' = Carried(stage) - Own(task[p], stage) + Own(t, stage)
                    /\ Carried(stage) \in Nat /\ Own(task[p], stage) \in Nat
                    /\ Own(task[p], stage) <= Carried(stage)
  OBVIOUS
<1>2. Own(t, stage) \in Nat OBVIOUS
<1>3. Carried(stage)' = Carried(stage) - Own(task[p], stage) + Own(t, stage) BY <1>1, <1>2, CarriedChanges
<1>4. QED BY <1>3, Loads, CarriedIsNat

LEMMA TaskAfter ==
  ASSUME IInv, NEW p \in Sessions, NEW t, Goto(p, t)
  PROVE  \A q \in Sessions : task'[q] = IF q = p THEN t ELSE task[q]
BY DEF IInv, Shapes, Goto

\* Steps of a request that carry nothing further and let no time pass.
LEMMA MoneyStays ==
  ASSUME BothLimits, IInv, MoneyInv, NEW p \in Sessions, NEW t, Goto(p, t), t.stage \notin {"credit", "stake"},
         UNCHANGED <<now, deposited, lost>>, StaysInForce
  PROVE  MoneyInv'
<1>1. MoneyTypes BY DEF MoneyInv
<1>2. \A q \in Sessions : task'[q] = IF q = p THEN t ELSE task[q] BY TaskAfter
<1>3. MoneyTypes' BY <1>1, <1>2 DEF MoneyTypes, At
<1>4. \A stage \in {"credit", "stake"} : Own(t, stage) = 0 BY DEF Own
<1>5. \A stage \in {"credit", "stake"} :
         Carried(stage)' \in Int /\ Carried(stage) \in Int /\ Carried(stage)' <= Carried(stage)
  BY <1>1, <1>4, CarriedAfter
<1>6. DepositsWithin'
  BY <1>1, <1>5, Totals, DepositsFall DEF DepositedAndCarried
<1>7. LossWithin'
  <2> SUFFICES ASSUME NEW q \in Sessions, At(q, "stake")', task'[q].checked = now' PROVE LossWithin'
    BY DEF LossWithin
  <2>1. At(q, "stake") /\ task[q].checked = now BY <1>2 DEF At
  <2>2. QED BY <1>1, <1>5, <2>1, Totals, LossFalls DEF LostAndCarried
<1>8. QED BY <1>3, <1>6, <1>7 DEF MoneyInv

\* A check of a request against the limit of its copy is one against a limit in force.
LEMMA CopyInForce ==
  ASSUME IInv, NEW p \in Sessions, At(p, "promote"), NEW k \in Kinds, NEW a \in Int,
         AsStrict(a, task[p].user.limit[k])
  PROVE  InForce(k, a)
<1> DEFINE limited == task[p].user.limit[k]
<1>1. InForce(k, limited) /\ limited \in MaybeLimit
  <2>1. task[p] \in Request /\ CopyIsSound(task[p]) BY DEF IInv, Shapes, CopiesAreSound
  <2>2. QED BY <2>1 DEF CopyIsSound, Request, UserCopy, LimitsOf
<1>2. AsStrict(a, limited) OBVIOUS
<1> HIDE DEF limited
<1>3. PICK w \in Settled(k) : AsStrict(limited, w) BY <1>1 DEF InForce
<1>4. w \in MaybeLimit BY SettledTypes
<1>5. AsStrict(a, w) BY <1>1, <1>2, <1>3, <1>4, NoneAssumption DEF AsStrict, MaybeLimit
<1>6. QED BY <1>3, <1>5 DEF InForce

\* The check of initiateDeposit.
LEMMA CheckDepositKeepsMoney ==
  ASSUME BothLimits, IInv, MoneyInv, NEW p \in Sessions, NEW amount \in Deposits, CheckDeposit(p, amount)
  PROVE  MoneyInv'
<1> DEFINE t == [stage |-> "credit", amount |-> amount]
<1>1. /\ At(p, "promote") /\ AsStrict(Last24h(deposited) + amount, task[p].user.limit["deposit"])
      /\ Goto(p, t) /\ UNCHANGED <<now, row, deposited, lost, askedAt>>
  BY DEF CheckDeposit, Loaded, WithinDepositLimit, money, past
<1>2. t.stage = "credit" /\ t.amount = amount OBVIOUS
<1> HIDE DEF t
<1>3. \A q \in Sessions : task'[q] = IF q = p THEN t ELSE task[q] BY <1>1, TaskAfter
<1>4. MoneyTypes /\ amount \in Nat BY DataAssumption DEF MoneyInv
<1>5. MoneyTypes' BY <1>1, <1>2, <1>3, <1>4 DEF MoneyTypes, At
<1>6. Own(t, "credit") = amount /\ Own(t, "stake") = 0 BY <1>2 DEF Own
<1>7. Own(task[p], "credit") = 0 /\ Own(task[p], "stake") = 0 /\ ~At(p, "credit") BY <1>1 DEF Own, At
<1>8. /\ Carried("credit")' = Carried("credit") + amount /\ Carried("stake")' = Carried("stake")
      /\ Carried("credit") \in Nat /\ Carried("stake") \in Nat
  BY <1>1, <1>4, <1>6, <1>7, CarriedAfter
<1>9. StaysInForce BY <1>1, SameHistory
<1>10. Summed(deposited, Ages) \in Nat /\ Summed(lost, Ages) \in Int BY <1>4, Totals
<1>11. DepositsWithin'
  <2>1. Last24h(deposited) = Summed(deposited, Ages)
    BY <1>4, SumIterates DEF Last24h, SumFunction, MoneyTypes
  <2>2. Carried("credit") <= Others(Deposits) /\ Others(Deposits) \in Int BY <1>4, <1>7, OthersCarry
  <2>3. DepositedAndCarried' = Summed(deposited, Ages) + amount + Carried("credit")
    BY <1>1, <1>4, <1>8, <1>10 DEF DepositedAndCarried
  <2> DEFINE a == Summed(deposited, Ages) + amount
  <2>4. a \in Int /\ DepositedAndCarried' \in Int /\ DepositedAndCarried' - Others(Deposits) <= a
    BY <1>4, <1>8, <1>10, <2>2, <2>3
  <2>5. AsStrict(a, task[p].user.limit["deposit"]) BY <1>1, <2>1
  <2> HIDE DEF a
  <2>6. InForce("deposit", a) BY <1>1, <2>4, <2>5, CopyInForce DEF BothLimits
  <2>7. QED BY <1>9, <2>4, <2>6, DepositsKept
<1>12. LossWithin'
  <2> SUFFICES ASSUME NEW q \in Sessions, At(q, "stake")', task'[q].checked = now' PROVE LossWithin'
    BY DEF LossWithin
  <2>1. At(q, "stake") /\ task[q].checked = now BY <1>1, <1>2, <1>3 DEF At
  <2>2. LostAndCarried' \in Int /\ LostAndCarried' <= LostAndCarried
    BY <1>1, <1>8, <1>10 DEF LostAndCarried
  <2>3. QED BY <1>9, <2>1, <2>2, LossFalls
<1>13. QED BY <1>5, <1>11, <1>12 DEF MoneyInv

\* The checks of placeBet: a bet that is checked now.
LEMMA CheckBetKeepsMoney ==
  ASSUME BothLimits, IInv, MoneyInv, NEW p \in Sessions, NEW stake \in Stakes, CheckBet(p, stake)
  PROVE  MoneyInv'
<1> DEFINE t == [stage |-> "stake", amount |-> stake, checked |-> now, blocked |-> task[p].blocked]
<1>1. /\ At(p, "promote") /\ AsStrict(Last24h(lost) + stake, task[p].user.limit["loss"])
      /\ Goto(p, t) /\ UNCHANGED <<now, row, deposited, lost, askedAt>>
  BY DEF CheckBet, Loaded, WithinLossLimit, money, past
<1>2. t.stage = "stake" /\ t.amount = stake /\ t.checked = now OBVIOUS
<1> HIDE DEF t
<1>3. \A q \in Sessions : task'[q] = IF q = p THEN t ELSE task[q] BY <1>1, TaskAfter
<1>4. MoneyTypes /\ stake \in Nat /\ now \in Nat BY DataAssumption DEF MoneyInv, IInv, Shapes
<1>5. MoneyTypes' BY <1>1, <1>2, <1>3, <1>4 DEF MoneyTypes, At
<1>6. Own(t, "stake") = stake /\ Own(t, "credit") = 0 BY <1>2 DEF Own
<1>7. Own(task[p], "credit") = 0 /\ Own(task[p], "stake") = 0 /\ ~At(p, "stake") BY <1>1 DEF Own, At
<1>8. /\ Carried("stake")' = Carried("stake") + stake /\ Carried("credit")' = Carried("credit")
      /\ Carried("credit") \in Nat /\ Carried("stake") \in Nat
  BY <1>1, <1>4, <1>6, <1>7, CarriedAfter
<1>9. StaysInForce BY <1>1, SameHistory
<1>10. Summed(deposited, Ages) \in Nat /\ Summed(lost, Ages) \in Int BY <1>4, Totals
<1>11. LossWithin'
  <2>1. Last24h(lost) = Summed(lost, Ages)
    BY <1>4, SumIterates DEF Last24h, SumFunction, MoneyTypes
  <2>2. Carried("stake") <= Others(Stakes) /\ Others(Stakes) \in Int BY <1>4, <1>7, OthersCarry
  <2>3. LostAndCarried' = Summed(lost, Ages) + stake + Carried("stake")
    BY <1>1, <1>4, <1>8, <1>10 DEF LostAndCarried
  <2> DEFINE a == Summed(lost, Ages) + stake
  <2>4. a \in Int /\ LostAndCarried' \in Int /\ LostAndCarried' - Others(Stakes) <= a
    BY <1>4, <1>8, <1>10, <2>2, <2>3
  <2>5. AsStrict(a, task[p].user.limit["loss"]) BY <1>1, <2>1
  <2> HIDE DEF a
  <2>6. InForce("loss", a) BY <1>1, <2>4, <2>5, CopyInForce DEF BothLimits
  <2>7. QED BY <1>9, <2>4, <2>6, LossKept
<1>12. DepositsWithin'
  <2>1. DepositedAndCarried' \in Int /\ DepositedAndCarried' <= DepositedAndCarried
    BY <1>1, <1>8, <1>10 DEF DepositedAndCarried
  <2>2. QED BY <1>9, <2>1, DepositsFall
<1>13. QED BY <1>5, <1>11, <1>12 DEF MoneyInv

\* A movement of now.
LEMMA MovedSum ==
  ASSUME NEW f, NEW g, NEW d \in Int, \A age \in Ages : f[age] \in Int,
         \A age \in Ages : g[age] = IF age = 0 THEN f[age] + d ELSE f[age]
  PROVE  Summed(g, Ages) = Summed(f, Ages) + d
<1>1. IsFiniteSet(Ages) /\ 0 \in Ages BY AgesAreFinite
<1>2. \A age \in Ages : f[age] \in Int /\ g[age] \in Int OBVIOUS
<1>3. \A age \in Ages \ {0} : g[age] = f[age] OBVIOUS
<1>4. Summed(g, Ages) = Summed(f, Ages) - f[0] + g[0] BY <1>1, <1>2, <1>3, SumOfChange
<1>5. Summed(f, Ages) \in Int BY <1>1, SumIsInt
<1>6. QED BY <1>1, <1>4, <1>5

LEMMA Moved ==
  ASSUME NEW f \in [Ages -> Int], NEW d \in Int, NEW g, g = [f EXCEPT ![0] = @ + d]
  PROVE  g \in [Ages -> Int] /\ Summed(g, Ages) = Summed(f, Ages) + d /\ Summed(f, Ages) \in Int
<1>1. IsFiniteSet(Ages) /\ 0 \in Ages BY AgesAreFinite
<1>2. \A age \in Ages : f[age] \in Int /\ g[age] = IF age = 0 THEN f[age] + d ELSE f[age] OBVIOUS
<1>3. Summed(g, Ages) = Summed(f, Ages) + d
  <2> DEFINE h == [f EXCEPT ![0] = @ + d]
  <2>1. \A age \in Ages : h[age] = IF age = 0 THEN f[age] + d ELSE f[age] BY <1>2
  <2>2. \A age \in Ages : f[age] \in Int OBVIOUS
  <2>3. g = h OBVIOUS
  <2> HIDE DEF h
  <2>4. Summed(h, Ages) = Summed(f, Ages) + d BY <2>1, <2>2, MovedSum
  <2>5. QED BY <2>3, <2>4
<1>4. Summed(f, Ages) \in Int BY <1>1, <1>2, SumIsInt
<1>5. QED BY <1>1, <1>2, <1>3, <1>4

\* What was carried becomes a movement.
LEMMA CommitDepositKeepsMoney ==
  ASSUME BothLimits, IInv, MoneyInv, NEW p \in Sessions, CommitDeposit(p)
  PROVE  MoneyInv'
<1> DEFINE amount == task[p].amount
<1>1. /\ At(p, "credit") /\ deposited' = [deposited EXCEPT ![0] = @ + amount] /\ Goto(p, Idle)
      /\ UNCHANGED <<now, lost, askedAt>>
  BY DEF CommitDeposit, Finish, row, past
<1>2. MoneyTypes /\ amount \in Nat BY <1>1, DataAssumption DEF MoneyInv, MoneyTypes
<1> HIDE DEF amount
<1>3. \A q \in Sessions : task'[q] = IF q = p THEN Idle ELSE task[q] BY <1>1, TaskAfter
<1>4. deposited \in [Ages -> Nat] /\ deposited \in [Ages -> Int] BY <1>2 DEF MoneyTypes
<1>5. deposited' \in [Ages -> Nat]
  <2>1. \A n \in Nat : n + amount \in Nat BY <1>2
  <2>2. 0 \in Ages BY AgesAreFinite
  <2>3. deposited[0] + amount \in Nat BY <1>4, <2>1, <2>2
  <2>4. QED BY <1>1, <1>4, <2>3
<1>6. MoneyTypes' BY <1>1, <1>2, <1>3, <1>5 DEF MoneyTypes, At, Idle
<1>7. Own(Idle, "credit") = 0 /\ Own(Idle, "stake") = 0 BY DEF Own, Idle
<1>8. Own(task[p], "credit") = amount /\ Own(task[p], "stake") = 0 BY <1>1 DEF Own, At, amount
<1>9. /\ Carried("credit")' = Carried("credit") - amount /\ Carried("stake")' = Carried("stake")
      /\ Carried("credit") \in Nat /\ Carried("stake") \in Nat
  BY <1>1, <1>2, <1>7, <1>8, CarriedAfter
<1>10. /\ Summed(deposited, Ages)' = Summed(deposited, Ages) + amount
       /\ Summed(deposited, Ages) \in Int /\ Summed(lost, Ages) \in Int
  <2>1. amount \in Int BY <1>2
  <2>2. PICK f, g : f = deposited /\ g = deposited' OBVIOUS
  <2>3. Summed(g, Ages) = Summed(f, Ages) + amount /\ Summed(f, Ages) \in Int
    BY <1>1, <1>4, <2>1, <2>2, Moved
  <2>4. QED BY <1>2, <2>2, <2>3, Totals
<1>11. StaysInForce BY <1>1, SameHistory
<1>12. DepositsWithin'
  <2>1. DepositedAndCarried' \in Int /\ DepositedAndCarried' <= DepositedAndCarried
    BY <1>2, <1>9, <1>10 DEF DepositedAndCarried
  <2>2. QED BY <1>11, <2>1, DepositsFall
<1>13. LossWithin'
  <2> SUFFICES ASSUME NEW q \in Sessions, At(q, "stake")', task'[q].checked = now' PROVE LossWithin'
    BY DEF LossWithin
  <2>1. At(q, "stake") /\ task[q].checked = now BY <1>1, <1>3 DEF At, Idle
  <2>2. LostAndCarried' \in Int /\ LostAndCarried' <= LostAndCarried BY <1>1, <1>9, <1>10 DEF LostAndCarried
  <2>3. QED BY <1>11, <2>1, <2>2, LossFalls
<1>14. QED BY <1>6, <1>12, <1>13 DEF MoneyInv

LEMMA CommitStakeKeepsMoney ==
  ASSUME BothLimits, IInv, MoneyInv, NEW p \in Sessions, CommitStake(p)
  PROVE  /\ MoneyInv'
         /\ Summed(lost, Ages)' \in Int /\ Summed(lost, Ages)' <= LostAndCarried
         /\ lost' \in [Ages -> Int]
<1> DEFINE amount == task[p].amount
<1>1. /\ At(p, "stake") /\ lost' = [lost EXCEPT ![0] = @ + amount] /\ Goto(p, Idle)
      /\ UNCHANGED <<now, deposited, askedAt>>
  BY DEF CommitStake, Finish, row, past
<1>2. MoneyTypes /\ amount \in Nat BY <1>1, DataAssumption DEF MoneyInv, MoneyTypes
<1> HIDE DEF amount
<1>3. \A q \in Sessions : task'[q] = IF q = p THEN Idle ELSE task[q] BY <1>1, TaskAfter
<1>4. lost \in [Ages -> Int] BY <1>2 DEF MoneyTypes
<1>5. /\ lost' \in [Ages -> Int] /\ Summed(lost, Ages)' = Summed(lost, Ages) + amount
      /\ Summed(deposited, Ages) \in Int /\ Summed(lost, Ages) \in Int
  <2>1. amount \in Int BY <1>2
  <2>2. PICK f, g : f = lost /\ g = lost' OBVIOUS
  <2>3. g \in [Ages -> Int] /\ Summed(g, Ages) = Summed(f, Ages) + amount /\ Summed(f, Ages) \in Int
    BY <1>1, <1>4, <2>1, <2>2, Moved
  <2>4. QED BY <1>2, <2>2, <2>3, Totals
<1>6. MoneyTypes' BY <1>1, <1>2, <1>3, <1>5 DEF MoneyTypes, At, Idle
<1>7. Own(Idle, "credit") = 0 /\ Own(Idle, "stake") = 0 BY DEF Own, Idle
<1>8. Own(task[p], "stake") = amount /\ Own(task[p], "credit") = 0 BY <1>1 DEF Own, At, amount
<1>9. /\ Carried("stake")' = Carried("stake") - amount /\ Carried("credit")' = Carried("credit")
      /\ Carried("credit") \in Nat /\ Carried("stake") \in Nat /\ amount <= Carried("stake")
  BY <1>1, <1>2, <1>7, <1>8, CarriedAfter
<1>10. StaysInForce BY <1>1, SameHistory
<1>11. DepositsWithin'
  <2>1. DepositedAndCarried' \in Int /\ DepositedAndCarried' <= DepositedAndCarried
    BY <1>1, <1>5, <1>9 DEF DepositedAndCarried
  <2>2. QED BY <1>10, <2>1, DepositsFall
<1>12. LossWithin'
  <2> SUFFICES ASSUME NEW q \in Sessions, At(q, "stake")', task'[q].checked = now' PROVE LossWithin'
    BY DEF LossWithin
  <2>1. At(q, "stake") /\ task[q].checked = now BY <1>1, <1>3 DEF At, Idle
  <2>2. LostAndCarried' \in Int /\ LostAndCarried' <= LostAndCarried BY <1>2, <1>5, <1>9 DEF LostAndCarried
  <2>3. QED BY <1>10, <2>1, <2>2, LossFalls
<1>13. Summed(lost, Ages)' \in Int /\ Summed(lost, Ages)' <= LostAndCarried
  BY <1>2, <1>5, <1>9 DEF LostAndCarried
<1>14. QED BY <1>5, <1>6, <1>11, <1>12, <1>13 DEF MoneyInv

\* A payout lowers the loss.
LEMMA PayBetKeepsMoney ==
  ASSUME BothLimits, IInv, MoneyInv, NEW amount \in Payouts, PayBet(amount)
  PROVE  MoneyInv'
<1>1. /\ lost' = [lost EXCEPT ![0] = @ - amount] /\ amount \in Nat
      /\ UNCHANGED <<now, deposited, task, askedAt>>
  BY DataAssumption DEF PayBet, row, past
<1>2. MoneyTypes /\ lost \in [Ages -> Int] BY DEF MoneyInv, MoneyTypes
<1>3. lost' = [lost EXCEPT ![0] = @ + (0 - amount)]
  <2>1. 0 \in Ages /\ lost[0] - amount = lost[0] + (0 - amount) BY <1>1, <1>2, AgesAreFinite
  <2>2. QED BY <1>1, <2>1
<1>4. /\ lost' \in [Ages -> Int] /\ Summed(lost, Ages)' = Summed(lost, Ages) - amount
      /\ Summed(lost, Ages) \in Int
  <2> DEFINE d == 0 - amount
  <2>1. d \in Int BY <1>1
  <2>2. lost' = [lost EXCEPT ![0] = @ + d] BY <1>3
  <2> HIDE DEF d
  <2>3. /\ lost' \in [Ages -> Int] /\ Summed(lost, Ages)' = Summed(lost, Ages) + d
        /\ Summed(lost, Ages) \in Int
    BY <1>2, <2>1, <2>2, Moved
  <2>4. QED BY <1>1, <2>3 DEF d
<1>5. MoneyTypes' BY <1>1, <1>2, <1>4 DEF MoneyTypes, At
<1>6. \A stage \in {"credit", "stake"} : Carried(stage)' = Carried(stage) /\ Carried(stage) \in Nat
  BY <1>1, <1>2, CarriedIsNat DEF Carried, Load
<1>7. StaysInForce BY <1>1, SameHistory
<1>8. DepositsWithin'
  <2>1. DepositedAndCarried' \in Int /\ DepositedAndCarried' <= DepositedAndCarried
    BY <1>1, <1>2, <1>6, Totals DEF DepositedAndCarried
  <2>2. QED BY <1>7, <2>1, DepositsFall
<1>9. LossWithin'
  <2> SUFFICES ASSUME NEW q \in Sessions, At(q, "stake")', task'[q].checked = now' PROVE LossWithin'
    BY DEF LossWithin
  <2>1. At(q, "stake") /\ task[q].checked = now BY <1>1 DEF At
  <2>2. LostAndCarried' \in Int /\ LostAndCarried' <= LostAndCarried BY <1>1, <1>4, <1>6 DEF LostAndCarried
  <2>3. QED BY <1>7, <2>1, <2>2, LossFalls
<1>10. QED BY <1>5, <1>8, <1>9 DEF MoneyInv

\* A day falls out of the window: the totals fall, and no bet was checked at the new time.
LEMMA TickKeepsMoney == ASSUME BothLimits, IInv, MoneyInv, Tick PROVE MoneyInv'
<1>1. /\ now' = now + 1 /\ deposited' = Older(deposited) /\ lost' = Older(lost)
      /\ UNCHANGED <<task, askedAt>>
  BY DEF Tick, past
<1>2. MoneyTypes /\ now \in Nat /\ now' \in Nat /\ now <= now' BY <1>1 DEF MoneyInv, IInv, Shapes
<1>3. deposited \in [Ages -> Nat] /\ lost \in [Ages -> Int] BY <1>2 DEF MoneyTypes
<1>4. \A age \in Ages : age # 0 => age - 1 \in Ages BY DataAssumption DEF Ages
<1>5. deposited' \in [Ages -> Nat] /\ lost' \in [Ages -> Int] BY <1>1, <1>3, <1>4 DEF Older
<1>6. MoneyTypes' BY <1>1, <1>2, <1>5 DEF MoneyTypes, At
<1>7. StaysInForce
  <2>1. \A k \in Kinds : \A v \in Wanted(k) : askedAt[k][v] # None => askedAt'[k][v] = askedAt[k][v]
    BY <1>1
  <2>2. QED BY <1>2, <2>1, HistoryGrows DEF IInv, StaysInForce
<1>8. Summed(deposited, Ages)' = Summed(deposited, Ages) - deposited[Day]
  <2> DEFINE f == deposited
             g == deposited'
  <2>1. \A age \in 0..Day : g[age] = IF age = 0 THEN 0 ELSE f[age - 1] BY <1>1 DEF Older, Ages
  <2>2. \A age \in 0..Day : f[age] \in Int BY <1>3 DEF Ages
  <2>3. Day \in Nat BY DataAssumption
  <2> HIDE DEF f, g
  <2>4. Summed(g, 0..Day) = Summed(f, 0..Day) - f[Day] BY <2>1, <2>2, <2>3, SumOfOlder
  <2>5. QED BY <2>4 DEF f, g, Ages
<1>9. deposited[Day] \in Nat BY <1>3, DataAssumption DEF Ages
<1>10. Carried("credit")' = Carried("credit") /\ Carried("credit") \in Nat
  BY <1>1, <1>2, CarriedIsNat DEF Carried, Load
<1>11. DepositsWithin'
  <2>1. DepositedAndCarried' \in Int /\ DepositedAndCarried' <= DepositedAndCarried
    BY <1>2, <1>8, <1>9, <1>10, Totals DEF DepositedAndCarried
  <2>2. QED BY <1>7, <2>1, DepositsFall
<1>12. LossWithin'
  <2>1. ASSUME NEW q \in Sessions, At(q, "stake") PROVE task[q].checked # now'
    <3>1. task[q].checked \in Nat /\ task[q].checked <= now BY <1>2, <2>1 DEF MoneyTypes
    <3>2. QED BY <1>1, <1>2, <3>1
  <2>2. QED BY <1>1, <2>1 DEF LossWithin, At
<1>13. QED BY <1>6, <1>11, <1>12 DEF MoneyInv

LEMMA InitMoney == ASSUME BothLimits, Init PROVE MoneyInv
<1>1. /\ deposited = [age \in Ages |-> 0] /\ lost = [age \in Ages |-> 0]
      /\ task = [p \in Sessions |-> Idle]
  BY DEF Init
<1>2. \A p \in Sessions : ~At(p, "credit") /\ ~At(p, "stake") BY <1>1 DEF At, Idle
<1>3. MoneyTypes BY <1>1, <1>2 DEF MoneyTypes
<1>4. LossWithin BY <1>2 DEF LossWithin
<1>5. DepositsWithin
  <2>1. Summed(deposited, Ages) = 0 BY <1>1, AgesAreFinite, SumOfZeros
  <2>2. Carried("credit") = 0
    <3> DEFINE f == Load("credit")
    <3>1. \A p \in Sessions : f[p] = 0 BY <1>2 DEF Load, Own, At
    <3> HIDE DEF f
    <3>2. Summed(f, Sessions) = 0 BY <3>1, FiniteAssumption, SumOfZeros
    <3>3. QED BY <3>2 DEF Carried, f
  <2>3. Others(Deposits) \in Nat BY OthersIsInt
  <2>4. Opening["deposit"] \in MaybeLimit /\ Opening["deposit"] \in Settled("deposit")
    BY DataAssumption DEF BothLimits, MaybeLimit, Settled
  <2>5. AsStrict(DepositedAndCarried - Others(Deposits), Opening["deposit"])
    BY <2>1, <2>2, <2>3, <2>4, NoneAssumption DEF AsStrict, MaybeLimit, DepositedAndCarried
  <2>6. QED BY <2>4, <2>5 DEF DepositsWithin, InForce
<1>6. QED BY <1>3, <1>4, <1>5 DEF MoneyInv

LEMMA MoneyStep == ASSUME BothLimits, IInv, MoneyInv, [Next]_vars PROVE MoneyInv'
<1>1. ASSUME NEW p \in Sessions, LoadUser(p) PROVE MoneyInv'
  <2>1. PICK t : t.stage = "promote" /\ Goto(p, t) BY <1>1 DEF LoadUser
  <2>2. UNCHANGED <<now, deposited, lost, askedAt>> BY <1>1 DEF LoadUser, money, past
  <2>3. t.stage \notin {"credit", "stake"} BY <2>1
  <2>4. QED BY <2>1, <2>2, <2>3, SameHistory, MoneyStays
<1>2. ASSUME NEW p \in Sessions, NEW k \in Kinds, Promote(p, k) PROVE MoneyInv'
  <2>1. task[p] \in Request BY <1>2 DEF Promote, IInv, Shapes
  <2>2. PICK t : t.stage = "promote" /\ Goto(p, t)
    <3> DEFINE q == [task[p] EXCEPT !.due = @ \ {k}, !.user.limit[k] = task[p].user.pending[k].value,
                                    !.user.pending[k] = None]
    <3>1. Goto(p, q) BY <1>2 DEF Promote
    <3>2. q.stage = "promote" BY <2>1 DEF Request
    <3> HIDE DEF q
    <3>3. QED BY <3>1, <3>2
  <2>3. UNCHANGED <<now, deposited, lost, askedAt>> BY <1>2 DEF Promote, money, past
  <2>4. t.stage \notin {"credit", "stake"} BY <2>2
  <2>5. QED BY <2>2, <2>3, <2>4, SameHistory, MoneyStays
<1>3. ASSUME NEW p \in Sessions, NEW k \in Kinds, NEW v \in Wanted(k), SetLimit(p, k, v)
      PROVE  MoneyInv'
  <2>1. /\ Goto(p, Idle) /\ UNCHANGED <<now, deposited, lost>>
        /\ askedAt' = [askedAt EXCEPT ![k][v] = IF @ = None THEN now ELSE @]
    BY <1>3 DEF SetLimit, Finish, Ask, money
  <2>2. \A j \in Kinds : \A w \in Wanted(j) : askedAt[j][w] # None => askedAt'[j][w] = askedAt[j][w]
    BY <2>1 DEF IInv, Shapes
  <2>3. StaysInForce
    <3>1. now' \in Nat /\ now <= now' BY <2>1 DEF IInv, Shapes
    <3>2. QED BY <2>2, <3>1, HistoryGrows DEF IInv, StaysInForce
  <2>4. Idle.stage \notin {"credit", "stake"} BY DEF Idle
  <2>5. QED BY <2>1, <2>3, <2>4, MoneyStays
<1>4. ASSUME NEW p \in Sessions, (\E days \in Exclusions : SelfExclude(p, days)) \/ Abandon(p)
      PROVE  MoneyInv'
  <2>1. Goto(p, Idle) /\ UNCHANGED <<now, deposited, lost, askedAt>>
    BY <1>4 DEF SelfExclude, Abandon, Finish, money, past
  <2>2. Idle.stage \notin {"credit", "stake"} BY DEF Idle
  <2>3. QED BY <2>1, <2>2, SameHistory, MoneyStays
<1>5. ASSUME UNCHANGED vars PROVE MoneyInv'
  <2>1. UNCHANGED <<now, deposited, lost, task, askedAt>> BY <1>5 DEF vars, money, past
  <2>2. QED BY <2>1 DEF MoneyInv, MoneyTypes, DepositsWithin, LossWithin, DepositedAndCarried,
                        LostAndCarried, Carried, Load, InForce, Settled, Others, At
<1>6. QED
  BY <1>1, <1>2, <1>3, <1>4, <1>5, CheckBetKeepsMoney, CommitStakeKeepsMoney, CheckDepositKeepsMoney,
     CommitDepositKeepsMoney, PayBetKeepsMoney, TickKeepsMoney
  DEF Next

\* However many requests race past the checks of the limits, the deposits of a day
\* and those on their way exceed a limit in force by no more than the other requests
\* carry.
THEOREM DepositsStayInReach == ASSUME BothLimits PROVE Spec => []DepositOvershootBounded
<1>1. Init => MoneyInv BY InitMoney
<1>2. IInv /\ MoneyInv /\ [Next]_vars => MoneyInv' BY MoneyStep
<1>3. ASSUME MoneyInv PROVE DepositOvershootBounded
  <2> DEFINE flying == {p \in Sessions : At(p, "credit")}
             g == [p \in flying |-> task[p].amount]
             f == Load("credit")
  <2>1. MoneyTypes /\ DepositsWithin BY <1>3 DEF MoneyInv
  <2>2. \A p \in Sessions : f[p] \in Int BY <2>1, Loads
  <2>3. \A p \in flying : g[p] = f[p] BY DEF Load, Own, At
  <2>4. \A p \in Sessions \ flying : f[p] = 0 BY DEF Load, Own, At
  <2>5. flying \in SUBSET Sessions /\ IsFiniteSet(Sessions) BY FiniteAssumption
  <2>6. Summed(g, flying) = Summed(f, Sessions)
    <3> HIDE DEF f, g, flying
    <3>1. QED BY <2>2, <2>3, <2>4, <2>5, SumOfSupport
  <2>7. SumFunctionOnSet(g, flying) = Carried("credit") BY <2>6, SumIterates DEF Carried
  <2>8. Last24h(deposited) = Summed(deposited, Ages)
    BY <2>1, SumIterates DEF Last24h, SumFunction, MoneyTypes
  <2>9. PICK v \in Settled("deposit") : AsStrict(DepositedAndCarried - Others(Deposits), v)
    BY <2>1 DEF DepositsWithin, InForce
  <2> DEFINE total == Last24h(deposited) + SumFunctionOnSet(g, flying)
  <2>10. total = DepositedAndCarried BY <2>7, <2>8 DEF DepositedAndCarried
  <2>11. \E w \in Settled("deposit") : AsStrict(total - Others(Deposits), w)
    <3> HIDE DEF total
    <3>1. QED BY <2>9, <2>10
  <2>12. DepositOvershootBounded <=> \E w \in Settled("deposit") : AsStrict(total - Others(Deposits), w)
    BY Zenon DEF DepositOvershootBounded
  <2>13. QED BY <2>11, <2>12
<1>4. QED BY <1>1, <1>2, <1>3, LimitsInvariance, PTL DEF Spec

\* And a bet that is written at the time it was checked takes the loss of the day
\* over a limit in force by no more than the other requests carry.
THEOREM LossStaysInReach == ASSUME BothLimits PROVE Spec => LossOvershootBounded
<1> DEFINE Bounded == \A p \in Sessions : CommitStake(p) /\ task[p].checked = now =>
                        \E v \in Settled("loss") : AsStrict(Last24h(lost') - Others(Stakes), v)
<1>1. Init => MoneyInv BY InitMoney
<1>2. IInv /\ MoneyInv /\ [Next]_vars => MoneyInv' BY MoneyStep
<1>3. ASSUME IInv, MoneyInv PROVE Bounded
  <2> SUFFICES ASSUME NEW p \in Sessions, CommitStake(p), task[p].checked = now
               PROVE  \E v \in Settled("loss") : AsStrict(Last24h(lost') - Others(Stakes), v)
    OBVIOUS
  <2>1. Summed(lost, Ages)' \in Int /\ Summed(lost, Ages)' <= LostAndCarried /\ lost' \in [Ages -> Int]
    BY <1>3, CommitStakeKeepsMoney
  <2>2. InForce("loss", LostAndCarried - Others(Stakes))
    BY <1>3 DEF MoneyInv, LossWithin, CommitStake
  <2>3. LostAndCarried \in Int /\ Others(Stakes) \in Int
    BY <1>3, OthersIsInt, Totals, CarriedIsNat DEF MoneyInv, LostAndCarried
  <2>4. Last24h(lost') = Summed(lost, Ages)' BY <2>1, SumIterates DEF Last24h, SumFunction
  <2> DEFINE a == LostAndCarried - Others(Stakes)
             b == Last24h(lost') - Others(Stakes)
  <2>5. a \in Int /\ b \in Int /\ b <= a /\ InForce("loss", a) BY <2>1, <2>2, <2>3, <2>4
  <2> HIDE DEF a, b
  <2>6. InForce("loss", b) BY <2>5, LessIsInForce DEF BothLimits
  <2>7. QED BY <2>6 DEF InForce, b
<1>4. IInv /\ MoneyInv /\ [Next]_vars => [Bounded]_vars BY <1>3
<1>5. QED BY <1>1, <1>2, <1>4, LimitsInvariance, PTL DEF Spec, LossOvershootBounded

-----------------------------------------------------------------------------
\* Types: a copy of the row has limits and increases of the values asked for.
CopyTyped(user) ==
  /\ \A k \in Kinds : user.limit[k] \in Limit(k) /\ user.pending[k] \in Increase(k) \union {None}
  /\ user.excluded \in Nat
TaskTyped(t) ==
  \/ t = Idle
  \/ t.stage = "promote" /\ CopyTyped(t.user) /\ t.blocked \in Nat
  \/ t.stage = "stake" /\ t.amount \in Stakes /\ t.checked \in Time
  \/ t.stage = "credit" /\ t.amount \in Deposits
RowTyped ==
  /\ \A k \in Kinds : limit[k] \in Limit(k) /\ pending[k] \in Increase(k) \union {None}
  /\ excluded \in Nat /\ promised \in Nat
SumsTyped == deposited \in [Ages -> Nat] /\ lost \in [Ages -> Int]

TypesInv ==
  /\ now \in Time /\ RowTyped /\ SumsTyped
  /\ changes \in 0..MaxChanges /\ moves \in 0..MaxMoves
  /\ \A p \in Sessions : TaskTyped(task[p])

LEMMA TasksStayTyped ==
  ASSUME IInv, TypesInv, NEW p \in Sessions, NEW t, TaskTyped(t), Goto(p, t)
  PROVE  \A q \in Sessions : TaskTyped(task[q])'
<1>1. \A q \in Sessions : task'[q] = IF q = p THEN t ELSE task[q] BY DEF Goto, IInv, Shapes
<1>2. \A u : TaskTyped(u)' <=> TaskTyped(u) BY DEF TaskTyped, CopyTyped, Limit, Increase, Wanted, Time, Idle
<1>3. QED BY <1>1, <1>2 DEF TypesInv

LEMMA IdleIsTyped == TaskTyped(Idle)
BY DEF TaskTyped

LEMMA LoadUserTypes == ASSUME IInv, TypesInv, NEW p \in Sessions, LoadUser(p) PROVE TypesInv'
<1> DEFINE user == [limit |-> limit, pending |-> pending, excluded |-> excluded]
           t == [stage |-> "promote", user |-> user, due |-> Due(user), blocked |-> promised]
<1>1. Goto(p, t) /\ UNCHANGED <<now, limit, pending, excluded, deposited, lost, moves, changes, promised>>
  BY DEF LoadUser, row, money, past
<1>2. TaskTyped(t) BY DEF TaskTyped, CopyTyped, TypesInv, RowTyped
<1> HIDE DEF t
<1>3. QED BY <1>1, <1>2, TasksStayTyped DEF TypesInv, RowTyped, SumsTyped

LEMMA PromoteTypes ==
  ASSUME IInv, TypesInv, NEW p \in Sessions, NEW k \in Kinds, Promote(p, k) PROVE TypesInv'
<1> DEFINE old == task[p]
           v == old.user.pending[k].value
           t == [old EXCEPT !.due = @ \ {k}, !.user.limit[k] = v, !.user.pending[k] = None]
<1>1. /\ Goto(p, t) /\ k \in old.due /\ old.stage = "promote"
      /\ limit' = [limit EXCEPT ![k] = v] /\ pending' = [pending EXCEPT ![k] = None]
      /\ UNCHANGED <<now, excluded, deposited, lost, moves, changes, promised>>
  BY DEF Promote, At, money, past
<1>2. old \in Request /\ CopyIsSound(old) BY DEF Promote, IInv, Shapes, CopiesAreSound
<1>3. CopyTyped(old.user) /\ old.blocked \in Nat
  BY <1>1 DEF TypesInv, TaskTyped, Idle
<1>4. v \in Limit(k)
  <2>1. old.user.pending[k] # None BY <1>1, <1>2 DEF CopyIsSound
  <2>2. old.user.pending[k] \in Increase(k) BY <1>3, <2>1 DEF CopyTyped
  <2>3. QED BY <2>2 DEF Increase, Limit
<1>5. /\ t.stage = "promote" /\ t.blocked = old.blocked /\ t.user.excluded = old.user.excluded
      /\ \A j \in Kinds : /\ t.user.limit[j] = IF j = k THEN v ELSE old.user.limit[j]
                          /\ t.user.pending[j] = IF j = k THEN None ELSE old.user.pending[j]
  <2>1. PICK w : w = v OBVIOUS
  <2>2. t = [old EXCEPT !.due = @ \ {k}, !.user.limit[k] = w, !.user.pending[k] = None] BY <2>1
  <2> HIDE DEF v, t
  <2>3. QED BY <1>2, <2>1, <2>2 DEF Request, UserCopy, LimitsOf, PendingOf
<1> HIDE DEF v, t
<1>6. TaskTyped(t) BY <1>3, <1>4, <1>5 DEF TaskTyped, CopyTyped
<1>7. RowTyped'
  <2>1. DOMAIN limit = Kinds /\ DOMAIN pending = Kinds BY DEF IInv, Shapes, LimitsOf, PendingOf
  <2>2. QED BY <1>1, <1>4, <2>1 DEF TypesInv, RowTyped, Limit, Increase, Wanted
<1>8. QED BY <1>1, <1>6, <1>7, TasksStayTyped DEF TypesInv, SumsTyped

LEMMA SetLimitTypes ==
  ASSUME IInv, TypesInv, NEW p \in Sessions, NEW k \in Kinds, NEW v \in Wanted(k), SetLimit(p, k, v)
  PROVE  TypesInv'
<1>1. /\ Goto(p, Idle) /\ changes < MaxChanges /\ changes' = changes + 1
      /\ UNCHANGED <<now, excluded, deposited, lost, moves, promised>>
      /\ \/ limit' = [limit EXCEPT ![k] = v] /\ pending' = [pending EXCEPT ![k] = None]
         \/ pending' = [pending EXCEPT ![k] = [value |-> v, effective |-> EffectiveAt]] /\ limit' = limit
  BY DEF SetLimit, Ask, Finish, money
<1>2. changes' \in 0..MaxChanges BY <1>1, DataAssumption DEF TypesInv
<1>3. v \in Limit(k) BY DEF Limit
<1>4. EffectiveAt \in Day..(MaxTime + Day)
  <2>1. now \in 0..MaxTime /\ Day \in Nat /\ MaxTime \in Nat BY DataAssumption DEF TypesInv, Time
  <2>2. QED BY <2>1 DEF EffectiveAt
<1>5. PICK q : q = [value |-> v, effective |-> EffectiveAt] OBVIOUS
<1>6. q \in Increase(k) BY <1>4, <1>5 DEF Increase
<1>7. RowTyped'
  <2>1. DOMAIN limit = Kinds /\ DOMAIN pending = Kinds BY DEF IInv, Shapes, LimitsOf, PendingOf
  <2>2. excluded' \in Nat /\ promised' \in Nat BY <1>1 DEF TypesInv, RowTyped
  <2>3. \A j \in Kinds : limit'[j] \in Limit(j) /\ pending'[j] \in Increase(j) \union {None}
    <3> SUFFICES ASSUME NEW j \in Kinds
                 PROVE  limit'[j] \in Limit(j) /\ pending'[j] \in Increase(j) \union {None}
      OBVIOUS
    <3>1. limit[j] \in Limit(j) /\ pending[j] \in Increase(j) \union {None} BY DEF TypesInv, RowTyped
    <3>2. CASE j = k BY <1>1, <1>3, <1>5, <1>6, <2>1, <3>1, <3>2
    <3>3. CASE j # k BY <1>1, <2>1, <3>1, <3>3
    <3>4. QED BY <3>2, <3>3
  <2>4. QED BY <2>2, <2>3 DEF RowTyped, Limit, Increase, Wanted
<1>8. QED BY <1>1, <1>2, <1>7, IdleIsTyped, TasksStayTyped DEF TypesInv, SumsTyped

LEMMA SelfExcludeTypes ==
  ASSUME IInv, TypesInv, NEW p \in Sessions, NEW days \in Exclusions, SelfExclude(p, days)
  PROVE  TypesInv'
<1>1. /\ Goto(p, Idle) /\ changes < MaxChanges /\ changes' = changes + 1
      /\ excluded' = now + days * Day /\ promised' = Max({promised, excluded'})
      /\ UNCHANGED <<now, limit, pending, deposited, lost, moves>>
  BY DEF SelfExclude, Finish, money
<1>2. changes' \in 0..MaxChanges BY <1>1, DataAssumption DEF TypesInv
<1>3. excluded' \in Nat
  <2>1. days \in Nat /\ Day \in Nat /\ now \in Nat BY DataAssumption DEF TypesInv, Time
  <2>2. days * Day \in Nat BY <2>1
  <2>3. QED BY <1>1, <2>1, <2>2
<1>4. promised' \in Nat
  <2>1. PICK a, b : a = promised /\ b = excluded' /\ a \in Nat /\ b \in Nat BY <1>3 DEF TypesInv, RowTyped
  <2>2. \E m \in {a, b} : \A n \in {a, b} : m >= n
    <3>1. CASE a >= b BY <2>1, <3>1
    <3>2. CASE ~ (a >= b) BY <2>1, <3>2
    <3>3. QED BY <3>1, <3>2
  <2>3. Max({a, b}) \in {a, b} BY <2>2 DEF Max
  <2>4. QED BY <1>1, <2>1, <2>3
<1>5. RowTyped' BY <1>1, <1>3, <1>4 DEF TypesInv, RowTyped, Limit, Increase, Wanted
<1>6. QED BY <1>1, <1>2, <1>5, IdleIsTyped, TasksStayTyped DEF TypesInv, SumsTyped

LEMMA CheckTypes ==
  ASSUME IInv, TypesInv, NEW p \in Sessions,
         \/ \E stake \in Stakes : CheckBet(p, stake)
         \/ \E amount \in Deposits : CheckDeposit(p, amount)
         \/ Abandon(p)
  PROVE  TypesInv'
<1>1. PICK t : Goto(p, t) /\ TaskTyped(t)
  <2>1. ASSUME NEW stake \in Stakes, CheckBet(p, stake) PROVE \E t : Goto(p, t) /\ TaskTyped(t)
    <3> DEFINE t == [stage |-> "stake", amount |-> stake, checked |-> now, blocked |-> task[p].blocked]
    <3>1. Goto(p, t) BY <2>1 DEF CheckBet
    <3>2. TaskTyped(t) BY DEF TaskTyped, TypesInv
    <3>3. QED BY <3>1, <3>2
  <2>2. ASSUME NEW amount \in Deposits, CheckDeposit(p, amount) PROVE \E t : Goto(p, t) /\ TaskTyped(t)
    <3> DEFINE t == [stage |-> "credit", amount |-> amount]
    <3>1. Goto(p, t) BY <2>2 DEF CheckDeposit
    <3>2. TaskTyped(t) BY DEF TaskTyped
    <3>3. QED BY <3>1, <3>2
  <2>3. ASSUME Abandon(p) PROVE \E t : Goto(p, t) /\ TaskTyped(t)
    BY <2>3, IdleIsTyped DEF Abandon, Finish
  <2>4. QED BY <2>1, <2>2, <2>3
<1>2. UNCHANGED <<now, limit, pending, excluded, deposited, lost, moves, changes, promised>>
  BY DEF CheckBet, CheckDeposit, Abandon, row, money, past
<1>3. QED BY <1>1, <1>2, TasksStayTyped DEF TypesInv, RowTyped, SumsTyped, Limit, Increase, Wanted

LEMMA MovedTypes ==
  ASSUME TypesInv, CountMove
  PROVE  /\ moves' \in 0..MaxMoves
         /\ \A amount \in Nat : /\ [deposited EXCEPT ![0] = @ + amount] \in [Ages -> Nat]
                                /\ [lost EXCEPT ![0] = @ + amount] \in [Ages -> Int]
                                /\ [lost EXCEPT ![0] = @ - amount] \in [Ages -> Int]
<1>1. moves' \in 0..MaxMoves BY DataAssumption DEF TypesInv, CountMove
<1>2. 0 \in Ages BY DataAssumption DEF Ages
<1>3. ASSUME NEW amount \in Nat
      PROVE  /\ [deposited EXCEPT ![0] = @ + amount] \in [Ages -> Nat]
             /\ [lost EXCEPT ![0] = @ + amount] \in [Ages -> Int]
             /\ [lost EXCEPT ![0] = @ - amount] \in [Ages -> Int]
  <2>1. deposited[0] + amount \in Nat /\ lost[0] + amount \in Int /\ lost[0] - amount \in Int
    BY <1>2, <1>3 DEF TypesInv, SumsTyped
  <2>2. QED BY <2>1 DEF TypesInv, SumsTyped
<1>4. QED BY <1>1, <1>3

LEMMA MoneyMovesTypes ==
  ASSUME IInv, TypesInv,
         \/ \E p \in Sessions : CommitStake(p) \/ CommitDeposit(p)
         \/ \E amount \in Payouts : PayBet(amount)
  PROVE  TypesInv'
<1>1. CountMove /\ UNCHANGED <<now, limit, pending, excluded, changes, promised>>
  BY DEF CommitStake, CommitDeposit, PayBet, row, past
<1>2. moves' \in 0..MaxMoves BY <1>1, MovedTypes
<1>3. RowTyped' BY <1>1 DEF TypesInv, RowTyped, Limit, Increase, Wanted
<1>4. Stakes \subseteq Nat /\ Deposits \subseteq Nat /\ Payouts \subseteq Nat BY DataAssumption
<1>5. ASSUME NEW p \in Sessions, CommitStake(p) PROVE SumsTyped' /\ \A q \in Sessions : TaskTyped(task[q])'
  <2>1. /\ task[p].stage = "stake" /\ Goto(p, Idle) /\ deposited' = deposited
        /\ lost' = [lost EXCEPT ![0] = @ + task[p].amount]
    BY <1>5 DEF CommitStake, At, Finish
  <2>2. task[p].amount \in Nat
    <3>1. TaskTyped(task[p]) BY DEF TypesInv
    <3>2. task[p] # Idle BY <2>1 DEF Idle
    <3>3. task[p].amount \in Stakes BY <2>1, <3>1, <3>2 DEF TaskTyped
    <3>4. QED BY <1>4, <3>3
  <2>3. SumsTyped' BY <1>1, <2>1, <2>2, MovedTypes DEF SumsTyped, TypesInv, Ages
  <2>4. QED BY <2>1, <2>3, IdleIsTyped, TasksStayTyped
<1>6. ASSUME NEW p \in Sessions, CommitDeposit(p) PROVE SumsTyped' /\ \A q \in Sessions : TaskTyped(task[q])'
  <2>1. /\ task[p].stage = "credit" /\ Goto(p, Idle) /\ lost' = lost
        /\ deposited' = [deposited EXCEPT ![0] = @ + task[p].amount]
    BY <1>6 DEF CommitDeposit, At, Finish
  <2>2. task[p].amount \in Nat
    <3>1. TaskTyped(task[p]) BY DEF TypesInv
    <3>2. task[p] # Idle BY <2>1 DEF Idle
    <3>3. task[p].amount \in Deposits BY <2>1, <3>1, <3>2 DEF TaskTyped
    <3>4. QED BY <1>4, <3>3
  <2>3. SumsTyped' BY <1>1, <2>1, <2>2, MovedTypes DEF SumsTyped, TypesInv, Ages
  <2>4. QED BY <2>1, <2>3, IdleIsTyped, TasksStayTyped
<1>7. ASSUME NEW amount \in Payouts, PayBet(amount) PROVE SumsTyped' /\ \A q \in Sessions : TaskTyped(task[q])'
  <2>1. task' = task /\ deposited' = deposited /\ lost' = [lost EXCEPT ![0] = @ - amount] BY <1>7 DEF PayBet
  <2>2. SumsTyped' BY <1>1, <1>4, <2>1, MovedTypes DEF SumsTyped, TypesInv, Ages
  <2>3. QED BY <2>1, <2>2 DEF TypesInv, TaskTyped, CopyTyped, Limit, Increase, Wanted, Time, Idle
<1>8. QED BY <1>1, <1>2, <1>3, <1>5, <1>6, <1>7 DEF TypesInv, Time

LEMMA TickTypes == ASSUME IInv, TypesInv, Tick PROVE TypesInv'
<1>1. /\ now < MaxTime /\ now' = now + 1 /\ deposited' = Older(deposited) /\ lost' = Older(lost)
      /\ UNCHANGED <<limit, pending, excluded, moves, task, changes, promised>>
  BY DEF Tick, row, past
<1>2. now' \in Time BY <1>1, DataAssumption DEF TypesInv, Time
<1>3. SumsTyped'
  <2>1. \A age \in Ages : age # 0 => age - 1 \in Ages BY DataAssumption DEF Ages
  <2>2. QED BY <1>1, <2>1 DEF TypesInv, SumsTyped, Older, Ages
<1>4. RowTyped' BY <1>1 DEF TypesInv, RowTyped, Limit, Increase, Wanted
<1>5. \A p \in Sessions : TaskTyped(task[p])'
  BY <1>1 DEF TypesInv, TaskTyped, CopyTyped, Limit, Increase, Wanted, Time, Idle
<1>6. QED BY <1>1, <1>2, <1>3, <1>4, <1>5 DEF TypesInv

LEMMA InitTypes == Init => TypesInv
<1> SUFFICES ASSUME Init PROVE TypesInv OBVIOUS
<1>1. Day \in Nat /\ MaxTime \in Nat /\ MaxChanges \in Nat /\ MaxMoves \in Nat BY DataAssumption
<1>2. RowTyped BY DEF Init, RowTyped, Limit
<1>3. SumsTyped BY DEF Init, SumsTyped
<1>4. \A p \in Sessions : TaskTyped(task[p]) BY IdleIsTyped DEF Init
<1>5. now \in Time /\ changes \in 0..MaxChanges /\ moves \in 0..MaxMoves BY <1>1 DEF Init, Time
<1>6. QED BY <1>2, <1>3, <1>4, <1>5 DEF TypesInv

LEMMA StepTypes == ASSUME IInv, TypesInv, [Next]_vars PROVE TypesInv'
<1>1. CASE UNCHANGED vars
  BY <1>1 DEF vars, row, money, past, TypesInv, RowTyped, SumsTyped, TaskTyped, CopyTyped, Limit, Increase, Wanted,
              Time, Ages, Idle
<1>2. CASE Next
  BY <1>2, LoadUserTypes, PromoteTypes, SetLimitTypes, SelfExcludeTypes, CheckTypes, MoneyMovesTypes, TickTypes
  DEF Next
<1>3. QED BY <1>1, <1>2

LEMMA TypesMean == IInv /\ TypesInv => TypeOK
<1> SUFFICES ASSUME IInv, TypesInv PROVE TypeOK OBVIOUS
<1>1. ASSUME NEW p \in Sessions, task[p] # Idle
      PROVE  \/ /\ At(p, "promote") /\ task[p].user \in User
                /\ task[p].due \subseteq Kinds /\ task[p].blocked \in Nat
             \/ At(p, "stake") /\ task[p].amount \in Stakes /\ task[p].checked \in Time
             \/ At(p, "credit") /\ task[p].amount \in Deposits
  <2>1. CASE task[p].stage = "promote"
    <3>1. task[p] \in Request BY <2>1 DEF IInv, Shapes, At
    <3>2. CopyTyped(task[p].user) /\ task[p].blocked \in Nat BY <1>1, <2>1 DEF TypesInv, TaskTyped
    <3> DEFINE user == task[p].user
    <3>3. user \in UserCopy /\ task[p].due \subseteq Kinds BY <3>1 DEF Request
    <3>4. user = [limit |-> user.limit, pending |-> user.pending, excluded |-> user.excluded]
      BY <3>3 DEF UserCopy
    <3>5. user.limit \in [Kinds -> Values \union {None} \union {Opening[k] : k \in Kinds}]
      BY <3>2, <3>3 DEF CopyTyped, UserCopy, LimitsOf, Limit, Wanted
    <3>6. user.pending \in [Kinds -> (UNION {Increase(k) : k \in Kinds}) \union {None}]
      BY <3>2, <3>3 DEF CopyTyped, UserCopy, PendingOf
    <3> HIDE DEF user
    <3>7. user \in User BY <3>2, <3>4, <3>5, <3>6 DEF User, CopyTyped, user
    <3>8. QED BY <2>1, <3>2, <3>3, <3>7 DEF At, user
  <2>2. CASE task[p].stage # "promote" BY <1>1, <2>2 DEF TypesInv, TaskTyped, At
  <2>3. QED BY <2>1, <2>2
<1>2. QED BY <1>1 DEF TypesInv, RowTyped, SumsTyped, TypeOK

\* Limits and increases, in the row and in every copy of it, are of the values that
\* were asked for, and the sums of a day are whole.
THEOREM LimitsKeepTheirTypes == Spec => []TypeOK
BY InitTypes, StepTypes, TypesMean, LimitsInvariance, PTL DEF Spec
=============================================================================
