------------------------------ MODULE MCStores ------------------------------
(* The parts of the library that several processes share through a service:   *)
(* a lock and a queue in Redis, migrations in Mongo, comments and pull        *)
(* requests on a forge.  They have no state in common, so a behaviour uses    *)
(* one of them: the others would only multiply the states.                    *)
EXTENDS RedisLock, RedisQueue, Migrations, Forge, TLC

VARIABLE uses

vars == <<uses, lockVars, queueVars, migrationVars, forgeVars>>

Init ==
  /\ uses \in {"lock", "queue", "migrations", "comments", "pulls"}
  /\ LockInit /\ QueueInit /\ MigrationInit /\ ForgeInit
  /\ uses \notin {"comments", "pulls"} => kind = "github"

Next ==
  /\ \/ uses = "lock" /\ LockNext /\ UNCHANGED <<queueVars, migrationVars, forgeVars>>
     \/ uses = "queue" /\ QueueNext /\ UNCHANGED <<lockVars, migrationVars, forgeVars>>
     \/ uses = "migrations" /\ MigrationNext /\ UNCHANGED <<lockVars, queueVars, forgeVars>>
     \/ uses = "comments" /\ StickyNext /\ UNCHANGED <<lockVars, queueVars, migrationVars>>
     \/ uses = "pulls" /\ PullNext /\ UNCHANGED <<lockVars, queueVars, migrationVars>>
  /\ UNCHANGED uses

Spec == Init /\ [][Next]_vars

Symmetry == Permutations(Instance) \cup Permutations(Pipeline)
=============================================================================
