----------------------------- MODULE OddsLease -----------------------------
(***************************************************************************)
(* Which instance of the server moves the odds: start, tick, isLeader,     *)
(* releaseLeadership and stop of oddsEngine.ts, with the lock of Redis.    *)
(* Time passes in intervals of the engine's timer.  An instanceId is never *)
(* used again: a process that restarts is another instance.                *)
(***************************************************************************)
EXTENDS Integers

CONSTANTS
  Instances,   \* values of instanceId
  None,        \* no holder
  Ttl,         \* leaderTtlMs, in intervals
  Patience,    \* BOUND: the intervals that a tick, or a release, may last
  MaxErrors    \* BOUND: commands in a row that Redis fails to answer one instance

ASSUME LeaseAssumption ==
  /\ None \notin Instances
  /\ Ttl \in Nat \ {0} /\ Patience \in Nat /\ MaxErrors \in Nat

VARIABLES
  status,      \* "new", "up", "stopped" (stop() was called), "gone" (no process)
  due,         \* the instances whose timer fires before time goes on
  lock,        \* the key odds:leader: its holder, and the time it has left
  tick,        \* the tick in progress of each instance, and for how long it is
  release,     \* likewise its releaseLeadership
  missed,      \* history: the commands in a row that each has had no answer to
  most         \* history: the most of them that one instance ever had

vars == <<status, due, lock, tick, release, missed, most>>

Idle == [stage |-> "idle", age |-> 0]
Free == [holder |-> None, left |-> 0]

Init ==
  /\ status = [i \in Instances |-> "new"]
  /\ due = {}
  /\ lock = Free
  /\ tick = [i \in Instances |-> Idle]
  /\ release = [i \in Instances |-> Idle]
  /\ missed = [i \in Instances |-> 0]
  /\ most = 0

Up == {i \in Instances : status[i] = "up"}
Ticking(i, stage) == tick[i].stage = stage
TickGoto(i, stage) == tick' = [tick EXCEPT ![i].stage = stage]
TickEnds(i) == tick' = [tick EXCEPT ![i] = Idle]
LeaveTimer(i) == UNCHANGED due
ClearTimer(i) == due' = due \ {i}
Answered(i) == missed' = [missed EXCEPT ![i] = 0]

-----------------------------------------------------------------------------
\* start: the timer runs.
Start(i) ==
  /\ status[i] = "new"
  /\ status' = [status EXCEPT ![i] = "up"]
  /\ UNCHANGED <<due, lock, tick, release, missed, most>>

\* The timer fires: a tick begins unless the previous one is still in progress.
Fire(i) ==
  /\ i \in due
  /\ due' = due \ {i}
  /\ IF tick[i] = Idle THEN TickGoto(i, "acquire") ELSE UNCHANGED tick
  /\ UNCHANGED <<status, lock, release, missed, most>>

Lease(i) == [holder |-> i, left |-> Ttl]

\* SET with PX alone, and with PX and NX.
SetAlways(i) == Lease(i)
SetNX(i) == IF lock = Free THEN Lease(i) ELSE lock

\* isLeader, SET ... PX ... NX.
Acquire(i) ==
  /\ Ticking(i, "acquire")
  /\ lock' = SetNX(i)
  /\ IF lock = Free THEN TickGoto(i, "write") /\ Answered(i)
                    ELSE TickGoto(i, "holder") /\ UNCHANGED missed
  /\ UNCHANGED <<status, due, release, most>>

\* isLeader, GET.
AskHolder(i) ==
  /\ Ticking(i, "holder")
  /\ IF lock.holder = i THEN TickGoto(i, "renew") /\ UNCHANGED missed
                        ELSE TickEnds(i) /\ Answered(i)
  /\ UNCHANGED <<status, due, lock, release, most>>

\* isLeader, SET ... PX: whoever holds the lock now.
Renew(i) ==
  /\ Ticking(i, "renew")
  /\ lock' = Lease(i)
  /\ TickGoto(i, "write") /\ Answered(i)
  /\ UNCHANGED <<status, due, release, most>>

\* The SELECT, the UPDATEs and the publication are over, or one of them failed.
TickDone(i) ==
  /\ Ticking(i, "write")
  /\ TickEnds(i)
  /\ UNCHANGED <<status, due, lock, release, missed, most>>

\* stop: clears the timer and begins to release; the tick in progress goes on.
Stop(i) ==
  /\ status[i] = "up"
  /\ status' = [status EXCEPT ![i] = "stopped"]
  /\ ClearTimer(i)
  /\ release' = [release EXCEPT ![i] = [stage |-> "holder", age |-> 0]]
  /\ UNCHANGED <<lock, tick, missed, most>>

ReleaseGet(i) ==
  /\ release[i].stage = "holder"
  /\ release' = [release EXCEPT ![i] = IF lock.holder = i THEN [@ EXCEPT !.stage = "del"] ELSE Idle]
  /\ UNCHANGED <<status, due, lock, tick, missed, most>>

\* DEL: whoever holds the lock now.
ReleaseDel(i) ==
  /\ release[i].stage = "del"
  /\ lock' = Free
  /\ release' = [release EXCEPT ![i] = Idle]
  /\ UNCHANGED <<status, due, tick, missed, most>>

\* What the command of a tick in progress writes.
Commanded(i) ==
  CASE Ticking(i, "acquire") -> SetNX(i)
    [] Ticking(i, "renew")   -> Lease(i)
    [] OTHER                 -> lock

\* A command without answer, executed or not: the tick goes on as a leader, or ends.
AsLeader(i) == TickGoto(i, "write")
AsNoLeader(i) == TickEnds(i)

RedisError(i) ==
  /\ tick[i].stage \in {"acquire", "holder", "renew"}
  /\ missed[i] < MaxErrors
  /\ missed' = [missed EXCEPT ![i] = @ + 1]
  /\ most' = IF missed[i] < most THEN most ELSE missed[i] + 1
  /\ lock' \in {lock, Commanded(i)}
  /\ AsNoLeader(i)
  /\ UNCHANGED <<status, due, release>>

ReleaseError(i) ==
  /\ release[i] # Idle
  /\ lock' \in {lock, IF release[i].stage = "del" THEN Free ELSE lock}
  /\ release' = [release EXCEPT ![i] = Idle]
  /\ UNCHANGED <<status, due, tick, missed, most>>

\* The process exits, at the end of shutdown or by a crash, wherever it is.
Exit(i) ==
  /\ status[i] \in {"up", "stopped"}
  /\ status' = [status EXCEPT ![i] = "gone"]
  /\ ClearTimer(i)
  /\ tick' = [tick EXCEPT ![i] = Idle]
  /\ release' = [release EXCEPT ![i] = Idle]
  /\ Answered(i)
  /\ UNCHANGED <<lock, most>>

\* Without PX the lock stays; with PX it goes when its time is over.
Forever == lock
Older == IF lock.left <= 1 THEN Free ELSE [lock EXCEPT !.left = @ - 1]

InTime(work) == work = Idle \/ work.age < Patience
Aged(work) == [i \in Instances |-> IF work[i] = Idle THEN Idle ELSE [work[i] EXCEPT !.age = @ + 1]]

\* An interval passes.
Elapse ==
  /\ due = {}
  /\ \A i \in Instances : InTime(tick[i]) /\ InTime(release[i])
  /\ lock' = Older
  /\ tick' = Aged(tick)
  /\ release' = Aged(release)
  /\ due' = Up
  /\ UNCHANGED <<status, missed, most>>

-----------------------------------------------------------------------------
\* What an instance does by itself, once begun.
Proceed(i) ==
  \/ Fire(i) \/ Acquire(i) \/ AskHolder(i) \/ Renew(i) \/ TickDone(i)
  \/ ReleaseGet(i) \/ ReleaseDel(i)

Next ==
  \/ \E i \in Instances :
       Start(i) \/ Proceed(i) \/ Stop(i) \/ RedisError(i) \/ ReleaseError(i) \/ Exit(i)
  \/ Elapse

Spec == Init /\ [][Next]_vars
Fairness == WF_vars(Elapse) /\ \A i \in Instances : WF_vars(Proceed(i))
FairSpec == Spec /\ Fairness

-----------------------------------------------------------------------------
Work(stages) == [stage : stages \union {"idle"}, age : 0..Patience]

TypeOK ==
  /\ status \in [Instances -> {"new", "up", "stopped", "gone"}]
  /\ due \subseteq Up
  /\ lock = Free \/ lock \in [holder : Instances, left : 1..Ttl]
  /\ tick \in [Instances -> Work({"acquire", "holder", "renew", "write"})]
  /\ release \in [Instances -> Work({"holder", "del"})]
  /\ most \in 0..MaxErrors /\ missed \in [Instances -> 0..most]

\* What DEPLOY-RAILWAY.md and the comment of OddsEngine say of the lock: only one
\* instance computes and writes the odds.
SingleWriter == \A i, j \in Up : Ticking(i, "write") /\ Ticking(j, "write") => i = j

\* A tick and the wait for the next one take no more than Patience + 1 intervals; the
\* lease is good for those without answer, for one in progress and one to let go.
LeaseOutlasts == (most + 2) * (Patience + 1) <= Ttl

\* While the lease outlasts the ticks, two instances whose timers run never write odds
\* at the same time, although it is renewed and deleted whoever holds it by then.
OneWriterInTime == LeaseOutlasts => SingleWriter

\* Someone moves the odds again and again as long as one instance stays up,
\* whichever leader crashed or stopped before.
TakeOver ==
  \A i \in Instances : <>[](status[i] = "up") => []<>(\E j \in Instances : Ticking(j, "write"))
=============================================================================
