----------------------------- MODULE RedisLock -----------------------------
(***************************************************************************)
(* pkg/lock/lock.go: a lock is a Redis key with a time to live.            *)
(* AcquireLock is one SETNX, ReleaseLock one DEL, and the value does not   *)
(* say whose key it is.  Redis, the clock and processes that die are the   *)
(* environment.                                                            *)
(***************************************************************************)

CONSTANTS Proc,   \* the processes that share the lock
          NoOne   \* no process

ASSUME LockAssumption == NoOne \notin Proc

VARIABLES
  key,      \* history: the process whose SETNX made the key, NoOne without a key
  holding,  \* processes AcquireLock answered true and that have not released
  overran   \* history: a lock expired while its holder still held it

lockVars == <<key, holding, overran>>

LockInit == key = NoOne /\ holding = {} /\ overran = FALSE

(* Mutant of SetNX: a plain SET. *)
SetAlways(p) == key' = p

(* SETNX makes the key only if there is none. *)
SetNX(p) == key = NoOne /\ key' = p

AcquireLock(p) ==
  /\ p \notin holding
  /\ SetNX(p)
  /\ holding' = holding \cup {p}
  /\ UNCHANGED overran

(* The key is there, or Redis gives an error: the answer is false. *)
AcquireRefused(p) ==
  /\ p \notin holding
  /\ UNCHANGED lockVars

(* The key was made and the answer lost: false, and nobody holds the lock. *)
AcquireLost(p) ==
  /\ p \notin holding
  /\ SetNX(p)
  /\ UNCHANGED <<holding, overran>>

(* DEL removes the key, whoever made it. *)
ReleaseLock(p) ==
  /\ p \in holding
  /\ holding' = holding \ {p}
  /\ key' = NoOne
  /\ UNCHANGED overran

(* DEL gives an error, or the process dies: the key stays. *)
LetGo(p) ==
  /\ p \in holding
  /\ holding' = holding \ {p}
  /\ UNCHANGED <<key, overran>>

Expire ==
  /\ key # NoOne
  /\ key' = NoOne
  /\ overran' = (overran \/ key \in holding)
  /\ UNCHANGED holding

LockNext ==
  \/ \E p \in Proc : AcquireLock(p) \/ AcquireRefused(p) \/ AcquireLost(p)
                     \/ ReleaseLock(p) \/ LetGo(p)
  \/ Expire

LockSpec == LockInit /\ [][LockNext]_lockVars

(* At most one process holds the lock, through lost answers, failed releases  *)
(* and crashes, as long as no holder outstays its time to live.  One that     *)
(* does also deletes the next holder's key when it releases, so the promise   *)
(* is lost for good and not for one holder only (lock.go ReleaseLock).        *)
HeldByOne == ~overran => \A p, q \in holding : p = q
=============================================================================
