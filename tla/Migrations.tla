----------------------------- MODULE Migrations -----------------------------
(***************************************************************************)
(* pkg/mongo/migration/migration.go: every instance of a service calls     *)
(* RunMigrations when it starts.  It reads the versions recorded in        *)
(* _migrations, applies those of its own that are missing, in order, and   *)
(* records each after it was applied.  Instances start together, die and   *)
(* start again; the database may fail a read or an insert.                 *)
(*                                                                         *)
(* Versions are numbers in the order of their strings.  What a migration   *)
(* does is left out; that it ran is kept.                                  *)
(***************************************************************************)
EXTENDS Integers, Sequences, SequencesExt, FiniteSetsExt

CONSTANTS Instance,  \* the instances that start
          Version,   \* versions of migrations
          Limits,    \* limits RunMigrations may be called with
          MaxUps     \* bound: times one migration is applied

ASSUME MigrationAssumption == Version \subseteq Nat /\ Limits \subseteq Int /\ MaxUps \in Nat

VARIABLES
  recorded,    \* the _migrations collection
  migrations,  \* migrations[m]: Manager.migrations
  pos,         \* pos[m]: where m is in RunMigrations
  applied,     \* applied[m]: its map of applied versions
  left,        \* left[m]: migrations its loop has still to visit
  room,        \* room[m]: limit - ran
  ups,         \* history: how often each version was applied
  again,       \* again[m]: history: versions recorded before m's call applied them
  disturbed    \* history: two calls overlapped, or one was cut short or misled

migrationVars == <<recorded, migrations, pos, applied, left, room, ups, again, disturbed>>

MigrationInit ==
  /\ recorded = {}
  /\ migrations = [m \in Instance |-> <<>>]
  /\ pos = [m \in Instance |-> "off"]
  /\ applied = [m \in Instance |-> {}]
  /\ left = [m \in Instance |-> <<>>]
  /\ room = [m \in Instance |-> 0]
  /\ ups = [v \in Version |-> 0]
  /\ again = [m \in Instance |-> {}]
  /\ disturbed = FALSE

Register(m, v) ==
  /\ pos[m] = "off" /\ v \notin ToSet(migrations[m])
  /\ migrations' = [migrations EXCEPT ![m] = Append(@, v)]
  /\ UNCHANGED <<recorded, pos, applied, left, room, ups, again, disturbed>>

(* Mutant of InOrder: migrations run as they were registered. *)
AsRegistered(s) == {s}

(* sort.Slice by version: the one order, as no two versions are the same. *)
InOrder(s) ==
  {t \in [1..Len(s) -> ToSet(s)] :
     ToSet(t) = ToSet(s) /\ \A i, j \in 1..Len(s) : i < j => t[i] < t[j]}

(* RunMigrations returns and its locals are gone. *)
Returns(m) ==
  /\ pos' = [pos EXCEPT ![m] = "off"]
  /\ applied' = [applied EXCEPT ![m] = {}]
  /\ left' = [left EXCEPT ![m] = <<>>]
  /\ room' = [room EXCEPT ![m] = 0]
  /\ again' = [again EXCEPT ![m] = {}]
  /\ UNCHANGED <<recorded, ups>>

(* What the call finds: the records that decode, or nothing if Find fails. *)
RunMigrations(m, limit, found) ==
  /\ pos[m] = "off"
  /\ found \subseteq recorded
  /\ applied' = [applied EXCEPT ![m] = found]
  /\ \E sorted \in InOrder(migrations[m]) :
       /\ migrations' = [migrations EXCEPT ![m] = sorted]
       /\ left' = [left EXCEPT ![m] = sorted]
  /\ room' = [room EXCEPT ![m] = limit]
  /\ pos' = [pos EXCEPT ![m] = "loop"]
  /\ disturbed' = (disturbed \/ found # recorded \/ \E o \in Instance : pos[o] # "off")
  /\ UNCHANGED <<recorded, ups, again>>

(* The loop is over, by its limit or its list. *)
Done(m) ==
  /\ pos[m] = "loop" /\ (room[m] <= 0 \/ left[m] = <<>>)
  /\ Returns(m)
  /\ UNCHANGED <<migrations, disturbed>>

Visits(m) == pos[m] = "loop" /\ room[m] > 0 /\ left[m] # <<>>

Skips(m) == Head(left[m]) \in applied[m]

Skip(m) ==
  /\ Visits(m) /\ Skips(m)
  /\ left' = [left EXCEPT ![m] = Tail(@)]
  /\ UNCHANGED <<recorded, migrations, pos, applied, room, ups, again, disturbed>>

Up(m) ==
  /\ Visits(m) /\ ~Skips(m)
  /\ LET v == Head(left[m])
     IN  /\ ups[v] < MaxUps
         /\ ups' = [ups EXCEPT ![v] = @ + 1]
         /\ again' = [again EXCEPT ![m] = IF v \in recorded THEN @ \cup {v} ELSE @]
  /\ pos' = [pos EXCEPT ![m] = "applied"]
  /\ UNCHANGED <<recorded, migrations, applied, left, room, disturbed>>

UpFails(m) ==
  /\ Visits(m) /\ ~Skips(m)
  /\ Returns(m)
  /\ UNCHANGED <<migrations, disturbed>>

(* InsertOne: the version is the record's _id. *)
Record(m) ==
  /\ pos[m] = "applied" /\ Head(left[m]) \notin recorded
  /\ recorded' = recorded \cup {Head(left[m])}
  /\ left' = [left EXCEPT ![m] = Tail(@)]
  /\ room' = [room EXCEPT ![m] = @ - 1]
  /\ pos' = [pos EXCEPT ![m] = "loop"]
  /\ UNCHANGED <<migrations, applied, ups, again, disturbed>>

(* Mutant of RecordFails: a record that is there already will do. *)
RecordExists(m) ==
  /\ pos[m] = "applied"
  /\ left' = [left EXCEPT ![m] = Tail(@)]
  /\ room' = [room EXCEPT ![m] = @ - 1]
  /\ pos' = [pos EXCEPT ![m] = "loop"]
  /\ disturbed' = TRUE
  /\ UNCHANGED <<recorded, migrations, applied, ups, again>>

(* The record is there already, or the insert fails: the call returns. *)
RecordFails(m) ==
  /\ pos[m] = "applied"
  /\ Returns(m)
  /\ disturbed' = TRUE
  /\ UNCHANGED migrations

(* The instance dies, and one that has registered nothing takes its place. *)
Restart(m) ==
  /\ migrations[m] # <<>>
  /\ Returns(m)
  /\ migrations' = [migrations EXCEPT ![m] = <<>>]
  /\ disturbed' = (disturbed \/ pos[m] = "applied")

MigrationNext ==
  \E m \in Instance :
    \/ \E v \in Version : Register(m, v)
    \/ \E limit \in Limits, found \in SUBSET recorded : RunMigrations(m, limit, found)
    \/ Done(m) \/ Skip(m) \/ Up(m) \/ UpFails(m) \/ Record(m) \/ RecordFails(m) \/ Restart(m)

MigrationSpec == MigrationInit /\ [][MigrationNext]_migrationVars

-----------------------------------------------------------------------------
(* Properties *)

(* A migration is applied only on top of every smaller one its instance       *)
(* knows, whoever applied those and however limits, failed reads and other    *)
(* instances cut the work up (migration.go: "in version order"); and it is    *)
(* applied twice only if two instances started together, a read or an insert  *)
(* failed, or one died between applying and recording.                        *)
InOrderAndOnce ==
  /\ \A m \in Instance : pos[m] = "applied" =>
       \A u \in ToSet(migrations[m]) : u < Head(left[m]) => ups[u] > 0
  /\ ~disturbed => \A v \in Version : ups[v] <= 1

(* Whatever a call believes was applied, it applies at most one migration     *)
(* that is already on record: its own record then collides, and the call      *)
(* stops there instead of running the history again (migration.go InsertOne). *)
RerunStopsThere == \A m \in Instance : Cardinality(again[m]) <= 1
=============================================================================
