----------------------------- MODULE Lifecycle -----------------------------
(***************************************************************************)
(* The processes of the server's replicas against one database: the seed   *)
(* and then the server (Dockerfile: `node dist/db/seed.js || true; exec    *)
(* node dist/index.js`), getDb with its retries, seedDemoData, ensureAdmin *)
(* and ensurePlatformAdmin, start and shutdown of index.ts.                *)
(***************************************************************************)
EXTENDS Integers, FiniteSets

CONSTANTS
  Replicas,
  Passwords,       \* good ones
  None,            \* no password configured; no row
  Short,           \* a password that production refuses
  MaxAttempts,     \* of getDb
  MaxStarts,       \* BOUND: starts of processes
  MaxDeployments   \* BOUND: changes of the configuration

\* What every instance assumes of the constants.
LifecycleAssumption ==
  /\ IsFiniteSet(Replicas) /\ Replicas # {}
  /\ None \notin Passwords /\ Short \notin Passwords /\ None # Short
  /\ MaxAttempts \in Nat \ {0} /\ MaxStarts \in Nat /\ MaxDeployments \in Nat

VARIABLES
  deployed,     \* the password in the configuration of the last deployment
  process,      \* of each replica: where it is, its attempt of getDb, the password
                \* in its configuration, what its SELECT found, and whether its
                \* seed finished without an error
  matches,      \* copies of the catalogue
  admins,       \* the password in the row of each administrator, or None
  starts, deployments

vars == <<deployed, process, matches, admins, starts, deployments>>

Roles == {"users", "platform_admins"}
Configs == Passwords \union {None, Short}
Off == [stage |-> "off", attempt |-> 1, config |-> None, found |-> FALSE, seeded |-> FALSE]

Init ==
  /\ deployed \in Configs
  /\ process = [i \in Replicas |-> Off]
  /\ matches = 0
  /\ admins = [role \in Roles |-> None]
  /\ starts = 0 /\ deployments = 0

At(i, stage) == process[i].stage = stage
Goto(i, stage) == process' = [process EXCEPT ![i].stage = stage, ![i].attempt = 1, ![i].found = FALSE]
Ends(i) == process' = [process EXCEPT ![i] = Off]
OnlyProcess == UNCHANGED <<deployed, matches, admins, starts, deployments>>

-----------------------------------------------------------------------------
\* ADMIN_PASSWORD and PLATFORM_ADMIN_PASSWORD change.
Redeploy(password) ==
  /\ deployments < MaxDeployments
  /\ deployments' = deployments + 1
  /\ deployed' = password
  /\ UNCHANGED <<process, matches, admins, starts>>

\* A process starts, with the configuration deployed.
Start(i) ==
  /\ At(i, "off")
  /\ starts < MaxStarts
  /\ starts' = starts + 1
  /\ process' = [process EXCEPT ![i] = [Off EXCEPT !.stage = "seedDb", !.config = deployed]]
  /\ UNCHANGED <<deployed, matches, admins, deployments>>

\* getDb, in the seed (whose failure does not matter) and in index.ts; applySchema
\* changes nothing the second time.
Connect(i) ==
  /\ \/ At(i, "seedDb") /\ Goto(i, "count")
     \/ At(i, "serverDb") /\ Goto(i, "up")
  /\ OnlyProcess

RetryConnect(i) ==
  /\ process[i].stage \in {"seedDb", "serverDb"}
  /\ process[i].attempt < MaxAttempts
  /\ process' = [process EXCEPT ![i].attempt = @ + 1]
  /\ OnlyProcess

GiveUp(i) ==
  /\ process[i].attempt = MaxAttempts
  /\ \/ At(i, "seedDb") /\ Goto(i, "serverDb")
     \/ At(i, "serverDb") /\ Ends(i)
  /\ OnlyProcess

-----------------------------------------------------------------------------
NeverSown == FALSE
Sown == matches > 0

\* seedDemoData, the COUNT.
CountMatches(i) ==
  /\ At(i, "count")
  /\ Goto(i, IF Sown THEN "users" ELSE "insert")
  /\ OnlyProcess

\* seedDemoData, the transaction.
InsertMatches(i) ==
  /\ At(i, "insert")
  /\ matches' = matches + 1
  /\ Goto(i, "users")
  /\ UNCHANGED <<deployed, admins, starts, deployments>>

\* ensureAdmin and then ensurePlatformAdmin.
Writing(role) == IF role = "users" THEN "write_users" ELSE "write_platform_admins"
After(role) == IF role = "users" THEN "platform_admins" ELSE "seeded"

\* In production nothing is written without a password.
SkipAdmin(i, role) ==
  /\ At(i, role)
  /\ process[i].config = None
  /\ Goto(i, After(role))
  /\ OnlyProcess

FindAdmin(i, role) ==
  /\ At(i, role)
  /\ process[i].config \in Passwords
  /\ process' = [process EXCEPT ![i].stage = Writing(role), ![i].found = admins[role] # None]
  /\ OnlyProcess

Kept(role, password) == admins[role]
Rotated(role, password) == password

UpdateAdmin(i, role) ==
  /\ At(i, Writing(role))
  /\ process[i].found
  /\ admins' = [admins EXCEPT ![role] = Rotated(role, process[i].config)]
  /\ Goto(i, After(role))
  /\ UNCHANGED <<deployed, matches, starts, deployments>>

InsertAdmin(i, role) ==
  /\ At(i, Writing(role))
  /\ ~process[i].found /\ admins[role] = None
  /\ admins' = [admins EXCEPT ![role] = process[i].config]
  /\ Goto(i, After(role))
  /\ UNCHANGED <<deployed, matches, starts, deployments>>

SeedDone(i) ==
  /\ At(i, "seeded")
  /\ process' = [process EXCEPT ![i].stage = "serverDb", ![i].seeded = TRUE]
  /\ OnlyProcess

\* A statement fails, the INSERT meets the row of another replica, or the password
\* is too short: the server starts all the same.
SeedFails(i) ==
  /\ process[i].stage \in {"count", "insert"} \union Roles \union {Writing(role) : role \in Roles}
  /\ Goto(i, "serverDb")
  /\ OnlyProcess

-----------------------------------------------------------------------------
\* shutdown; signals after the first are ignored.
Signal(i) ==
  /\ At(i, "up")
  /\ Goto(i, "stopping")
  /\ OnlyProcess

\* server.close calls back and the database closes, or ten seconds pass.
Exit(i) ==
  /\ At(i, "stopping")
  /\ Ends(i)
  /\ OnlyProcess

Crash(i) ==
  /\ ~At(i, "off")
  /\ Ends(i)
  /\ OnlyProcess

-----------------------------------------------------------------------------
Proceed(i) ==
  \/ Connect(i) \/ RetryConnect(i) \/ GiveUp(i)
  \/ CountMatches(i) \/ InsertMatches(i)
  \/ \E role \in Roles : SkipAdmin(i, role) \/ FindAdmin(i, role) \/ UpdateAdmin(i, role) \/ InsertAdmin(i, role)
  \/ SeedDone(i) \/ SeedFails(i) \/ Exit(i)

Next ==
  \/ \E password \in Configs : Redeploy(password)
  \/ \E i \in Replicas : Start(i) \/ Proceed(i) \/ Signal(i) \/ Crash(i)

Spec == Init /\ [][Next]_vars

-----------------------------------------------------------------------------
Stages == {"off", "seedDb", "count", "insert", "seeded", "serverDb", "up", "stopping"}
            \union Roles \union {Writing(role) : role \in Roles}

TypeOK ==
  /\ deployed \in Configs
  /\ process \in [Replicas -> [stage : Stages, attempt : 1..MaxAttempts, config : Configs,
                               found : BOOLEAN, seeded : BOOLEAN]]
  /\ matches \in Nat
  /\ admins \in [Roles -> Passwords \union {None}]
  /\ starts \in 0..MaxStarts /\ deployments \in 0..MaxDeployments

\* Restarts never sow the catalogue again, and replicas that seed an empty
\* database together sow it at most once each: seedDemoData counts and inserts
\* without a lock.
SownAtMostOnceEach == matches <= Cardinality(Replicas)

\* When every replica serves with the last configuration after a seed without
\* errors, both administrators have its password, in whatever order the processes
\* of the old and the new configuration wrote theirs.
RotationSettles ==
  deployed \in Passwords /\ (\A i \in Replicas :
                               At(i, "up") /\ process[i].config = deployed /\ process[i].seeded)
    => \A role \in Roles : admins[role] = deployed
=============================================================================
