---------------------------- MODULE StoresProofs ----------------------------
(***************************************************************************)
(* What processes share through a service, for any number of them: one     *)
(* holder of the Redis lock, migrations in order and once, pull requests   *)
(* and sticky comments of a forge.                                         *)
(***************************************************************************)
EXTENDS RedisLock, RedisQueue, Migrations, Forge, SequenceLemmas

-----------------------------------------------------------------------------
(* The lock *)

(* While nobody has overstayed, whoever holds the lock made the key that is   *)
(* there.  HeldByOne says nothing of the key and is not inductive without it. *)
HolderMadeTheKey ==
  /\ holding \subseteq Proc
  /\ ~overran => \A p \in holding : p = key

(* Every operation of lock.go, a lost answer, a death and an expiry keep it.  *)
LEMMA HolderStep == HolderMadeTheKey /\ [LockNext]_lockVars => HolderMadeTheKey'
<1> SUFFICES ASSUME HolderMadeTheKey, [LockNext]_lockVars
             PROVE  HolderMadeTheKey'
  OBVIOUS
<1> USE DEF HolderMadeTheKey
<1>1. ASSUME NEW p \in Proc, AcquireLock(p) PROVE HolderMadeTheKey'
  <2>1. ~overran => holding = {}
    BY <1>1, LockAssumption DEF AcquireLock, SetNX
  <2> QED BY <1>1, <2>1 DEF AcquireLock, SetNX
<1>2. ASSUME NEW p \in Proc, AcquireLost(p) PROVE HolderMadeTheKey'
  BY <1>2, LockAssumption DEF AcquireLost, SetNX
<1>3. ASSUME NEW p \in Proc, ReleaseLock(p) PROVE HolderMadeTheKey'
  BY <1>3 DEF ReleaseLock
<1>4. ASSUME NEW p \in Proc, LetGo(p) PROVE HolderMadeTheKey'
  BY <1>4 DEF LetGo
<1>5. CASE Expire
  <2>1. ~overran' => ~overran /\ key \notin holding
    BY <1>5 DEF Expire
  <2> QED BY <1>5, <2>1 DEF Expire
<1>6. ASSUME UNCHANGED lockVars PROVE HolderMadeTheKey'
  BY <1>6 DEF lockVars
<1> QED BY <1>1, <1>2, <1>3, <1>4, <1>5, <1>6 DEF LockNext, AcquireRefused

(* At most one process holds the lock, for any number of processes, through   *)
(* lost answers, failed releases and crashes, until a holder overstays its    *)
(* time to live (lock.go AcquireLock, ReleaseLock).                           *)
THEOREM OneHolder == LockSpec => []HeldByOne
<1>1. LockInit => HolderMadeTheKey
  BY DEF LockInit, HolderMadeTheKey
<1>2. HolderMadeTheKey => HeldByOne
  BY DEF HolderMadeTheKey, HeldByOne
<1> QED BY <1>1, <1>2, HolderStep, PTL DEF LockSpec

-----------------------------------------------------------------------------
(* Migrations *)

Increases(s) == \A i, j \in 1..Len(s) : i < j => s[i] < s[j]

(* The head of an increasing sequence is below the rest of it. *)
LEMMA HeadAndTail ==
  ASSUME NEW s \in Seq(Version), s # <<>>, Increases(s)
  PROVE  /\ Tail(s) \in Seq(Version) /\ Increases(Tail(s))
         /\ Head(s) \in ToSet(s) /\ Head(s) \in Version
         /\ \A u \in ToSet(Tail(s)) : u \in ToSet(s) /\ u # Head(s)
         /\ \A u \in ToSet(s) : u \in ToSet(Tail(s)) \/ u = Head(s)
         /\ \A u \in ToSet(s) : ~(u < Head(s))
<1> DEFINE t == Tail(s)
<1>0. /\ t \in Seq(Version) /\ Len(s) \in Nat \ {0} /\ Len(t) = Len(s) - 1
      /\ \A i \in 1..Len(t) : t[i] = s[i + 1]
      /\ Head(s) = s[1]
      /\ \A i \in 1..Len(s) : s[i] \in Version
  OBVIOUS
<1> HIDE DEF t
<1>1. /\ \A i \in 1..Len(t) : i + 1 \in 1..Len(s)
      /\ 1 \in 1..Len(s)
      /\ \A i \in 1..Len(s) : s[i] \in Nat
  <2>1. \A i \in 1..Len(s) : s[i] \in Nat
    BY <1>0, MigrationAssumption
  <2>2. \A i \in 1..Len(t) : i + 1 \in 1..Len(s)
    BY <1>0
  <2> QED BY <1>0, <2>1, <2>2
<1>2. \A u : u \in ToSet(s) <=> \E i \in 1..Len(s) : u = s[i]
  BY DEF ToSet
<1>3. \A u : u \in ToSet(t) <=> \E i \in 1..Len(t) : u = s[i + 1]
  BY <1>0 DEF ToSet
<1>4. Increases(t)
  <2> SUFFICES ASSUME NEW i \in 1..Len(t), NEW j \in 1..Len(t), i < j PROVE t[i] < t[j]
    BY DEF Increases
  <2>1. i + 1 \in 1..Len(s) /\ j + 1 \in 1..Len(s) /\ i + 1 < j + 1
    BY <1>1
  <2>2. s[i + 1] < s[j + 1]
    BY <2>1 DEF Increases
  <2> QED BY <1>0, <2>2
<1>5. \A i \in 1..Len(s) : i = 1 \/ (i - 1 \in 1..Len(t) /\ s[1] < s[i] /\ s[i] = s[i - 1 + 1])
  BY <1>0, <1>1 DEF Increases
<1>6. \A u \in ToSet(t) : u \in ToSet(s) /\ u # Head(s)
  <2> TAKE u \in ToSet(t)
  <2>1. PICK i \in 1..Len(t) : u = s[i + 1]
    BY <1>3
  <2>2. i + 1 \in 1..Len(s) /\ s[1] < s[i + 1]
    BY <1>0, <1>1, <2>1 DEF Increases
  <2> QED
    BY <1>0, <1>1, <1>2, <2>1, <2>2
<1>7. \A u \in ToSet(s) : u \in ToSet(t) \/ u = Head(s)
  <2> TAKE u \in ToSet(s)
  <2>1. PICK i \in 1..Len(s) : u = s[i]
    BY <1>2
  <2> QED
    BY <1>0, <1>3, <1>5, <2>1
<1>8. \A u \in ToSet(s) : ~(u < Head(s))
  BY <1>0, <1>1, <1>2, <1>5
<1> QED
  BY <1>0, <1>1, <1>2, <1>4, <1>6, <1>7, <1>8 DEF t

MigrationTypeOK ==
  /\ recorded \subseteq Version
  /\ migrations \in [Instance -> Seq(Version)] /\ left \in [Instance -> Seq(Version)]
  /\ pos \in [Instance -> {"off", "loop", "applied"}]
  /\ applied \in [Instance -> SUBSET Version] /\ again \in [Instance -> SUBSET Version]
  /\ room \in [Instance -> Int]
  /\ ups \in [Version -> Nat]
  /\ disturbed \in BOOLEAN

(* What is on record has run, and what an instance knows has run or is still  *)
(* to be visited, in order.                                                   *)
RanOrLeft ==
  /\ \A v \in recorded : ups[v] > 0
  /\ \A m \in Instance : applied[m] \subseteq recorded
  /\ \A m \in Instance : pos[m] # "off" =>
       /\ Increases(left[m])
       /\ \A u \in ToSet(migrations[m]) : u \in ToSet(left[m]) \/ ups[u] > 0
  /\ \A m \in Instance : pos[m] = "applied" => left[m] # <<>> /\ ups[Head(left[m])] > 0

(* Until something disturbs it, one call runs at a time, knows all records it *)
(* has still to visit, and what has run once is on record or about to be.     *)
Undisturbed ==
  ~disturbed =>
    /\ \A m, o \in Instance : pos[m] # "off" /\ pos[o] # "off" => m = o
    /\ \A m \in Instance : pos[m] # "off" => recorded \cap ToSet(left[m]) \subseteq applied[m]
    /\ \A m \in Instance : pos[m] = "applied" => Head(left[m]) \notin recorded
    /\ \A v \in Version :
         /\ ups[v] <= 1
         /\ ups[v] = 1 => \/ v \in recorded
                          \/ \E m \in Instance : pos[m] = "applied" /\ v = Head(left[m])

(* A call that applied what was on record stands before the record it will    *)
(* collide with.                                                              *)
AgainIsHead ==
  \A m \in Instance :
    again[m] = {} \/ (/\ pos[m] = "applied" /\ Head(left[m]) \in recorded
                      /\ again[m] = {Head(left[m])})

MigrationInv == MigrationTypeOK /\ RanOrLeft /\ Undisturbed /\ AgainIsHead

(* Nothing has run before anything is registered. *)
LEMMA MigrationStart == MigrationInit => MigrationInv
<1> SUFFICES ASSUME MigrationInit PROVE MigrationInv
  OBVIOUS
<1>1. MigrationTypeOK
  <2>1. <<>> \in Seq(Version) /\ {} \in SUBSET Version
    OBVIOUS
  <2>2. migrations \in [Instance -> Seq(Version)] /\ left \in [Instance -> Seq(Version)]
    BY <2>1 DEF MigrationInit
  <2>3. applied \in [Instance -> SUBSET Version] /\ again \in [Instance -> SUBSET Version]
    BY DEF MigrationInit
  <2>4. ups \in [Version -> Nat] /\ room \in [Instance -> Int]
    BY DEF MigrationInit
  <2> QED
    BY <2>2, <2>3, <2>4 DEF MigrationInit, MigrationTypeOK
<1>2. RanOrLeft /\ AgainIsHead
  BY DEF MigrationInit, RanOrLeft, AgainIsHead
<1>3. Undisturbed
  BY DEF MigrationInit, Undisturbed
<1> QED
  BY <1>1, <1>2, <1>3 DEF MigrationInv

(* A call that ends leaves what it recorded and applied; it was not between   *)
(* the two, or that disturbs the rest.                                        *)
LEMMA ReturnsStep ==
  ASSUME MigrationInv, NEW m \in Instance, Returns(m),
         migrations' \in [Instance -> Seq(Version)],
         \A o \in Instance : o # m => migrations'[o] = migrations[o],
         disturbed' \in BOOLEAN,
         disturbed => disturbed', pos[m] = "applied" => disturbed'
  PROVE  MigrationInv'
<1> USE DEF MigrationInv
<1>1. /\ UNCHANGED <<recorded, ups>>
      /\ pos'[m] = "off" /\ applied'[m] = {} /\ again'[m] = {}
      /\ \A o \in Instance : o # m =>
           /\ pos'[o] = pos[o] /\ applied'[o] = applied[o] /\ left'[o] = left[o]
           /\ again'[o] = again[o]
  BY DEF Returns, MigrationTypeOK
<1>2. MigrationTypeOK'
  <2>1. left' \in [Instance -> Seq(Version)] /\ pos' \in [Instance -> {"off", "loop", "applied"}]
    BY DEF Returns, MigrationTypeOK
  <2>2. applied' \in [Instance -> SUBSET Version] /\ again' \in [Instance -> SUBSET Version]
    BY DEF Returns, MigrationTypeOK
  <2>3. room' \in [Instance -> Int]
    BY DEF Returns, MigrationTypeOK
  <2> QED
    BY <1>1, <2>1, <2>2, <2>3 DEF MigrationTypeOK
<1>3. RanOrLeft'
  BY <1>1 DEF RanOrLeft
<1>4. Undisturbed'
  BY <1>1 DEF Undisturbed
<1>5. AgainIsHead'
  BY <1>1 DEF AgainIsHead
<1> QED
  BY <1>2, <1>3, <1>4, <1>5

(* A call starts with its list in order and the records it found. *)
LEMMA RunStep ==
  ASSUME MigrationInv, NEW m \in Instance, NEW limit \in Limits, NEW found \in SUBSET recorded,
         RunMigrations(m, limit, found)
  PROVE  MigrationInv'
<1> USE DEF MigrationInv
<1>0. PICK sorted \in InOrder(migrations[m]) :
        /\ migrations' = [migrations EXCEPT ![m] = sorted]
        /\ left' = [left EXCEPT ![m] = sorted]
  BY DEF RunMigrations
<1>1. sorted \in Seq(Version) /\ Increases(sorted)
  <2>1. /\ migrations[m] \in Seq(Version) /\ ToSet(migrations[m]) \subseteq Version
        /\ sorted \in [1..Len(migrations[m]) -> ToSet(migrations[m])]
        /\ \A i, j \in 1..Len(migrations[m]) : i < j => sorted[i] < sorted[j]
    BY DEF MigrationTypeOK, ToSet, InOrder
  <2>2. sorted \in Seq(Version) /\ Len(sorted) = Len(migrations[m])
    BY <2>1
  <2> QED
    BY <2>1, <2>2 DEF Increases
<1>2. /\ UNCHANGED <<recorded, ups, again>>
      /\ pos[m] = "off" /\ pos'[m] = "loop" /\ applied'[m] = found
      /\ left'[m] = sorted /\ migrations'[m] = sorted
      /\ \A o \in Instance : o # m =>
           /\ pos'[o] = pos[o] /\ applied'[o] = applied[o] /\ left'[o] = left[o]
           /\ migrations'[o] = migrations[o]
      /\ ~disturbed' => ~disturbed /\ found = recorded /\ \A o \in Instance : pos[o] = "off"
  BY <1>0 DEF RunMigrations, MigrationTypeOK
<1>3. MigrationTypeOK'
  BY <1>0, <1>1, MigrationAssumption DEF RunMigrations, MigrationTypeOK
<1>4. RanOrLeft'
  BY <1>1, <1>2 DEF RanOrLeft
<1>5. Undisturbed'
  BY <1>2 DEF Undisturbed
<1>6. AgainIsHead'
  BY <1>2 DEF AgainIsHead
<1> QED
  BY <1>3, <1>4, <1>5, <1>6

(* A skipped migration is on record, so it has run. *)
LEMMA SkipStep ==
  ASSUME MigrationInv, NEW m \in Instance, Skip(m)
  PROVE  MigrationInv'
<1> USE DEF MigrationInv
<1> DEFINE s == left[m]
<1>1. /\ UNCHANGED <<recorded, migrations, pos, applied, ups, again, disturbed>>
      /\ pos[m] = "loop" /\ s # <<>> /\ Head(s) \in applied[m] /\ s \in Seq(Version)
      /\ Increases(s) /\ left'[m] = Tail(s)
      /\ \A o \in Instance : o # m => left'[o] = left[o]
  BY DEF Skip, Visits, Skips, MigrationTypeOK, RanOrLeft
<1> HIDE DEF s
<1>2. /\ Tail(s) \in Seq(Version) /\ Increases(Tail(s))
      /\ \A u \in ToSet(Tail(s)) : u \in ToSet(s)
      /\ \A u \in ToSet(s) : u \in ToSet(Tail(s)) \/ u = Head(s)
  BY <1>1, HeadAndTail
<1>3. MigrationTypeOK'
  BY <1>1, <1>2 DEF Skip, MigrationTypeOK, s
<1>4. RanOrLeft'
  BY <1>1, <1>2 DEF RanOrLeft, s
<1>5. Undisturbed'
  BY <1>1, <1>2 DEF Undisturbed, s
<1>6. AgainIsHead'
  BY <1>1 DEF AgainIsHead
<1> QED
  BY <1>3, <1>4, <1>5, <1>6

(* Undisturbed, a migration that is applied is not on record and has not run. *)
LEMMA UpStep ==
  ASSUME MigrationInv, NEW m \in Instance, Up(m)
  PROVE  MigrationInv'
<1> USE DEF MigrationInv
<1> DEFINE s == left[m]
           v == Head(s)
<1>1. /\ UNCHANGED <<recorded, migrations, applied, left, disturbed>>
      /\ pos[m] = "loop" /\ s # <<>> /\ v \notin applied[m] /\ s \in Seq(Version)
      /\ Increases(s)
      /\ pos'[m] = "applied" /\ \A o \in Instance : o # m => pos'[o] = pos[o]
      /\ again'[m] = IF v \in recorded THEN again[m] \cup {v} ELSE again[m]
      /\ \A o \in Instance : o # m => again'[o] = again[o]
      /\ ups' = [ups EXCEPT ![v] = @ + 1]
  BY DEF Up, Visits, Skips, MigrationTypeOK, RanOrLeft
<1>2. v \in Version /\ v \in ToSet(s)
  BY <1>1, HeadAndTail
<1>3. /\ ups'[v] = ups[v] + 1 /\ ups[v] \in Nat
      /\ \A u \in Version : u # v => ups'[u] = ups[u]
      /\ \A u \in Version : ups[u] > 0 => ups'[u] > 0
  BY <1>1, <1>2 DEF MigrationTypeOK
<1>4. MigrationTypeOK'
  BY <1>1, <1>2 DEF Up, MigrationTypeOK
<1>5. RanOrLeft'
  <2>1. \A o \in Instance : \A u \in ToSet(migrations[o]) : u \in Version
    BY DEF MigrationTypeOK, ToSet
  <2>2. \A u \in recorded : ups'[u] > 0
    BY <1>3 DEF RanOrLeft, MigrationTypeOK
  <2>3. \A o \in Instance : pos'[o] = "applied" => left[o] # <<>> /\ ups'[Head(left[o])] > 0
    <3> TAKE o \in Instance
    <3>1. CASE o = m
      BY <1>1, <1>3, <3>1
    <3>2. ASSUME o # m, pos[o] = "applied" PROVE left[o] # <<>> /\ ups'[Head(left[o])] > 0
      <4>1. left[o] # <<>> /\ ups[Head(left[o])] > 0 /\ left[o] \in Seq(Version)
        BY <3>2 DEF RanOrLeft, MigrationTypeOK
      <4>2. Head(left[o]) \in Version
        BY <4>1
      <4> QED BY <1>3, <4>1, <4>2
    <3> QED BY <1>1, <3>1, <3>2
  <2> QED
    BY <1>1, <1>3, <2>1, <2>2, <2>3 DEF RanOrLeft
<1>6. Undisturbed'
  <2> SUFFICES ASSUME ~disturbed PROVE Undisturbed'
    BY <1>1 DEF Undisturbed
  <2>1. v \notin recorded
    BY <1>1, <1>2 DEF Undisturbed
  <2>2. \A o \in Instance : o # m => pos[o] = "off"
    BY <1>1 DEF Undisturbed
  <2>3. ups[v] = 0
    BY <1>1, <1>2, <1>3, <2>1, <2>2 DEF Undisturbed
  <2> HIDE DEF v, s
  <2>4. \A u \in Version :
          /\ ups'[u] <= 1
          /\ ups'[u] = 1 => u \in recorded \/ u = v
    BY <1>1, <1>3, <2>2, <2>3 DEF Undisturbed
  <2>5. \A o \in Instance : pos'[o] # "off" => o = m
    BY <1>1, <2>2
  <2>6. recorded \cap ToSet(left[m]) \subseteq applied[m]
    BY <1>1 DEF Undisturbed
  <2>7. left'[m] = left[m] /\ v = Head(left'[m])
    BY <1>1 DEF v, s
  <2>8. \A u \in Version : ups'[u] = 1 =>
          u \in recorded' \/ \E o \in Instance : pos'[o] = "applied" /\ u = Head(left'[o])
    BY <1>1, <2>4, <2>7
  <2>9. \A o \in Instance : pos'[o] # "off" => recorded' \cap ToSet(left'[o]) \subseteq applied'[o]
    BY <1>1, <2>5, <2>6
  <2>10. \A o \in Instance : pos'[o] = "applied" => Head(left'[o]) \notin recorded'
    BY <1>1, <2>1, <2>5, <2>7
  <2>11. \A n, o \in Instance : pos'[n] # "off" /\ pos'[o] # "off" => n = o
    BY <2>5
  <2>12. \A u \in Version : ups'[u] <= 1
    BY <2>4
  <2> HIDE DEF MigrationInv
  <2> QED
    BY <2>8, <2>9, <2>10, <2>11, <2>12, Zenon DEF Undisturbed
<1>7. AgainIsHead'
  BY <1>1 DEF AgainIsHead
<1> QED
  BY <1>4, <1>5, <1>6, <1>7

(* A record is made for what has just run, and only if there is none. *)
LEMMA RecordStep ==
  ASSUME MigrationInv, NEW m \in Instance, Record(m)
  PROVE  MigrationInv'
<1> USE DEF MigrationInv
<1> DEFINE s == left[m]
           v == Head(s)
<1>1. /\ UNCHANGED <<migrations, applied, ups, again, disturbed>>
      /\ pos[m] = "applied" /\ pos'[m] = "loop" /\ s # <<>> /\ s \in Seq(Version)
      /\ v \notin recorded /\ recorded' = recorded \cup {v} /\ ups[v] > 0
      /\ Increases(s) /\ left'[m] = Tail(s)
      /\ \A o \in Instance : o # m => left'[o] = left[o] /\ pos'[o] = pos[o]
  BY DEF Record, MigrationTypeOK, RanOrLeft
<1> HIDE DEF s
<1>2. /\ Tail(s) \in Seq(Version) /\ Increases(Tail(s)) /\ v \in Version
      /\ \A u \in ToSet(Tail(s)) : u \in ToSet(s) /\ u # v
      /\ \A u \in ToSet(s) : u \in ToSet(Tail(s)) \/ u = v
  BY <1>1, HeadAndTail
<1> HIDE DEF v
<1>3. MigrationTypeOK'
  <2>1. left' = [left EXCEPT ![m] = Tail(s)] /\ room' = [room EXCEPT ![m] = @ - 1]
        /\ pos' = [pos EXCEPT ![m] = "loop"]
    BY DEF Record, s
  <2> QED
    BY <1>1, <1>2, <2>1 DEF MigrationTypeOK
<1>4. RanOrLeft'
  BY <1>1, <1>2 DEF RanOrLeft, s
<1>5. Undisturbed'
  <2> SUFFICES ASSUME ~disturbed PROVE Undisturbed'
    BY <1>1 DEF Undisturbed
  <2>1. \A o \in Instance : o # m => pos[o] = "off" /\ pos'[o] = "off"
    BY <1>1 DEF Undisturbed
  <2>2. recorded' \cap ToSet(Tail(s)) \subseteq applied[m]
    BY <1>1, <1>2 DEF Undisturbed, s
  <2> QED
    BY <1>1, <2>1, <2>2 DEF Undisturbed, v, s
<1>6. AgainIsHead'
  BY <1>1 DEF AgainIsHead, v, s
<1> QED
  BY <1>3, <1>4, <1>5, <1>6

(* Every registration and every step of RunMigrations keeps MigrationInv. *)
LEMMA MigrationStep == MigrationInv /\ [MigrationNext]_migrationVars => MigrationInv'
<1> SUFFICES ASSUME MigrationInv, [MigrationNext]_migrationVars PROVE MigrationInv'
  OBVIOUS
<1>1. ASSUME NEW m \in Instance, NEW v \in Version, Register(m, v) PROVE MigrationInv'
  <2>1. /\ UNCHANGED <<recorded, pos, applied, left, room, ups, again, disturbed>>
        /\ pos[m] = "off" /\ \A o \in Instance : o # m => migrations'[o] = migrations[o]
        /\ migrations' \in [Instance -> Seq(Version)]
    BY <1>1 DEF Register, MigrationInv, MigrationTypeOK
  <2> QED
    BY <2>1 DEF MigrationInv, MigrationTypeOK, RanOrLeft, Undisturbed, AgainIsHead
<1>2. ASSUME NEW m \in Instance, NEW limit \in Limits, NEW found \in SUBSET recorded,
             RunMigrations(m, limit, found)
      PROVE  MigrationInv'
  BY <1>2, RunStep
<1>3. ASSUME NEW m \in Instance, Done(m) \/ UpFails(m) PROVE MigrationInv'
  <2>1. Returns(m) /\ UNCHANGED <<migrations, disturbed>> /\ pos[m] = "loop"
    BY <1>3 DEF Done, UpFails, Visits
  <2> QED
    BY <2>1, ReturnsStep DEF MigrationInv, MigrationTypeOK
<1>4. ASSUME NEW m \in Instance, RecordFails(m) PROVE MigrationInv'
  BY <1>4, ReturnsStep DEF RecordFails, MigrationInv, MigrationTypeOK
<1>5. ASSUME NEW m \in Instance, Restart(m) PROVE MigrationInv'
  <2>1. /\ Returns(m) /\ migrations' \in [Instance -> Seq(Version)]
        /\ \A o \in Instance : o # m => migrations'[o] = migrations[o]
    BY <1>5 DEF Restart, MigrationInv, MigrationTypeOK
  <2>2. disturbed' \in BOOLEAN /\ (disturbed => disturbed') /\ (pos[m] = "applied" => disturbed')
    BY <1>5 DEF Restart
  <2> QED
    BY <2>1, <2>2, ReturnsStep
<1>6. ASSUME NEW m \in Instance, Skip(m) \/ Up(m) \/ Record(m) PROVE MigrationInv'
  BY <1>6, SkipStep, UpStep, RecordStep
<1>7. CASE UNCHANGED migrationVars
  BY <1>7 DEF migrationVars, MigrationInv, MigrationTypeOK, RanOrLeft, Undisturbed, AgainIsHead
<1> QED
  BY <1>1, <1>2, <1>3, <1>4, <1>5, <1>6, <1>7 DEF MigrationNext

(* For any instances, versions and limits, a migration runs on top of every   *)
(* smaller one its instance knows, and twice only after a disturbance         *)
(* (migration.go RunMigrations).                                              *)
THEOREM MigrationsInOrder == MigrationSpec => []InOrderAndOnce
<1>1. MigrationInv => InOrderAndOnce
  <2> SUFFICES ASSUME MigrationInv PROVE InOrderAndOnce
    OBVIOUS
  <2>1. ASSUME NEW m \in Instance, pos[m] = "applied",
               NEW u \in ToSet(migrations[m]), u < Head(left[m])
        PROVE  ups[u] > 0
    <3>1. left[m] \in Seq(Version) /\ left[m] # <<>> /\ Increases(left[m])
      BY <2>1 DEF MigrationInv, MigrationTypeOK, RanOrLeft
    <3>2. u \notin ToSet(left[m])
      BY <2>1, <3>1, HeadAndTail
    <3> QED
      BY <2>1, <3>2 DEF MigrationInv, RanOrLeft
  <2>2. ~disturbed => \A v \in Version : ups[v] <= 1
    BY DEF MigrationInv, Undisturbed
  <2> QED
    BY <2>1, <2>2 DEF InOrderAndOnce
<1> QED
  BY <1>1, MigrationStart, MigrationStep, PTL DEF MigrationSpec

(* For any instances and versions, a call that was misled about what has run  *)
(* stops at the first record it collides with (migration.go InsertOne).       *)
THEOREM RerunsStop == MigrationSpec => []RerunStopsThere
<1>1. MigrationInv => RerunStopsThere
  <2> SUFFICES ASSUME MigrationInv, NEW m \in Instance PROVE Cardinality(again[m]) <= 1
    BY DEF RerunStopsThere
  <2>1. again[m] = {} \/ again[m] = {Head(left[m])}
    BY DEF MigrationInv, AgainIsHead
  <2>2. CASE again[m] = {}
    <3>1. Cardinality(again[m]) = 0
      BY <2>2, FS_EmptySet
    <3> QED BY <3>1
  <2>3. CASE again[m] = {Head(left[m])}
    <3>1. Cardinality(again[m]) = 1
      BY <2>3, FS_Singleton
    <3> QED BY <3>1
  <2> QED
    BY <2>1, <2>2, <2>3
<1> QED
  BY <1>1, MigrationStart, MigrationStep, PTL DEF MigrationSpec
-----------------------------------------------------------------------------
(* The queue *)

Item == [n : Nat, decodes : BOOLEAN]

QueueTypeOK ==
  /\ list \in Seq(Item) /\ pushes \in Nat
  /\ hand \in [Reader -> Seq(Item)] /\ \A r \in Reader : Len(hand[r]) <= 1
  /\ got \in [Reader -> Seq(Nat)] /\ lost \subseteq Nat

InPushOrder ==
  /\ \A i, j \in 1..Len(list) : i < j => list[i].n < list[j].n
  /\ \A r \in Reader : Increases(got[r])

(* What a reader has or had, and what is lost, was pushed before what is on   *)
(* the list; what a reader holds was pushed after what it got.                *)
Earlier ==
  /\ \A x \in Listed : /\ \A y \in lost : y < x
                       /\ \A r \in Reader : \A y \in Held(r) \cup Got(r) : y < x
  /\ \A r \in Reader : \A x \in Held(r), y \in Got(r) : y < x

(* Every push is somewhere, and nothing else is. *)
Somewhere ==
  \A x \in Nat : x \in 1..pushes <=>
    x \in Listed \/ x \in lost \/ \E r \in Reader : x \in Held(r) \/ x \in Got(r)

(* No push is in two places. *)
Apart ==
  \A r \in Reader : \A x \in Held(r) \cup Got(r) :
    /\ x \notin lost
    /\ \A q \in Reader : q # r => x \notin Held(q) /\ x \notin Got(q)

QueueInv == QueueTypeOK /\ InPushOrder /\ Earlier /\ Somewhere /\ Apart

(* The numbers in the places are numbers. *)
LEMMA PlacesAreNumbers ==
  ASSUME QueueTypeOK
  PROVE  Listed \subseteq Nat /\ \A r \in Reader : Held(r) \subseteq Nat /\ Got(r) \subseteq Nat
<1>1. \A i \in 1..Len(list) : list[i] \in Item
  BY DEF QueueTypeOK
<1>2. \A r \in Reader : \A i \in 1..Len(hand[r]) : hand[r][i] \in Item
  BY DEF QueueTypeOK
<1>3. \A r \in Reader : \A i \in 1..Len(got[r]) : got[r][i] \in Nat
  BY DEF QueueTypeOK
<1> QED
  BY <1>1, <1>2, <1>3 DEF Item, Listed, Held, Got, ToSet, Length

(* A push has a number above all others. *)
LEMMA PushStep ==
  ASSUME QueueInv, NEW decodes \in BOOLEAN, Push(decodes)
  PROVE  QueueInv'
<1> DEFINE e == [n |-> pushes', decodes |-> decodes]
<1>1. /\ pushes' = pushes + 1 /\ pushes \in Nat /\ list' = Append(list, e)
      /\ UNCHANGED <<hand, got, lost>> /\ list \in Seq(Item)
  BY DEF Push, RPush, QueueInv, QueueTypeOK
<1>2. e \in Item
  BY <1>1 DEF Item
<1>3. /\ list' \in Seq(Item) /\ Len(list') = Len(list) + 1 /\ Len(list) \in Nat
      /\ list'[Len(list) + 1] = e /\ \A i \in 1..Len(list) : list'[i] = list[i]
  BY <1>1, <1>2
<1>4. Listed' = Listed \cup {pushes + 1}
  <2>1. \A i \in 1..Len(list') : i \in 1..Len(list) \/ i = Len(list) + 1
    BY <1>3
  <2>2. Len(list) + 1 \in 1..Len(list') /\ \A i \in 1..Len(list) : i \in 1..Len(list')
    BY <1>3
  <2> QED BY <1>1, <1>3, <2>1, <2>2 DEF Listed, Length
<1>5. \A r \in Reader : Held(r)' = Held(r) /\ Got(r)' = Got(r)
  BY <1>1 DEF Held, Got
<1>6. Listed \subseteq Nat /\ \A r \in Reader : Held(r) \subseteq Nat /\ Got(r) \subseteq Nat
  BY PlacesAreNumbers DEF QueueInv
<1>7. \A x \in Nat : x \in 1..pushes' <=> x \in 1..pushes \/ x = pushes + 1
  BY <1>1
<1>8. QueueTypeOK'
  BY <1>1, <1>3 DEF QueueInv, QueueTypeOK
<1>9. InPushOrder'
  <2> SUFFICES ASSUME NEW i \in 1..Len(list'), NEW j \in 1..Len(list'), i < j
               PROVE  list'[i].n < list'[j].n
    BY <1>1 DEF QueueInv, InPushOrder
  <2>1. i \in 1..Len(list) /\ list'[i] = list[i]
    BY <1>3
  <2>2. list[i].n \in Listed
    BY <2>1 DEF Listed, Length
  <2>3. list[i].n < pushes + 1
    <3>1. list[i].n \in 1..pushes
      BY <1>6, <2>2 DEF QueueInv, Somewhere
    <3> QED BY <1>1, <3>1
  <2>4. CASE j \in 1..Len(list)
    BY <1>3, <2>1, <2>4 DEF QueueInv, InPushOrder
  <2>5. CASE j = Len(list) + 1
    BY <1>1, <1>3, <2>1, <2>3, <2>5
  <2> QED BY <1>3, <2>4, <2>5
<1>10. Earlier'
  <2>1. \A y \in lost : y \in 1..pushes
    BY DEF QueueInv, QueueTypeOK, Somewhere
  <2>2. \A r \in Reader : \A y \in Held(r) \cup Got(r) : y \in 1..pushes
    BY <1>6 DEF QueueInv, Somewhere
  <2> QED
    BY <1>1, <1>4, <1>5, <2>1, <2>2 DEF QueueInv, Earlier
<1>11. Somewhere'
  BY <1>1, <1>4, <1>5, <1>7 DEF QueueInv, Somewhere
<1>12. Apart'
  BY <1>1, <1>5 DEF QueueInv, Apart
<1> QED
  BY <1>8, <1>9, <1>10, <1>11, <1>12 DEF QueueInv

(* LPOP takes the smallest number on the list. *)
LEMMA LPopStep ==
  ASSUME QueueInv, NEW r \in Reader, LPop(r)
  PROVE  QueueInv'
<1> DEFINE h == Head(list)
<1>1. /\ hand[r] = <<>> /\ list # <<>> /\ list \in Seq(Item)
      /\ hand' = [hand EXCEPT ![r] = <<h>>] /\ list' = Tail(list)
      /\ UNCHANGED <<pushes, got, lost>>
  BY DEF LPop, QueueInv, QueueTypeOK
<1>2. /\ list' \in Seq(Item) /\ Len(list') = Len(list) - 1 /\ Len(list) \in Nat \ {0}
      /\ \A i \in 1..Len(list') : list'[i] = list[i + 1] /\ i + 1 \in 1..Len(list)
      /\ h = list[1] /\ h \in Item
  <2>1. list' \in Seq(Item) /\ Len(list') = Len(list) - 1 /\ Len(list) \in Nat \ {0}
    BY <1>1
  <2>2. \A i \in 1..Len(list') : list'[i] = list[i + 1]
    BY <1>1, <2>1
  <2>3. \A i \in 1..Len(list') : i + 1 \in 1..Len(list)
    BY <2>1
  <2>4. h = list[1] /\ h \in Item
    BY <1>1
  <2> QED BY <2>1, <2>2, <2>3, <2>4
<1> HIDE DEF h
<1>3. \A i \in 1..Len(list) : i = 1 \/ (i - 1 \in 1..Len(list') /\ list[i] = list'[i - 1] /\ h.n < list[i].n)
  <2> TAKE i \in 1..Len(list)
  <2>1. i # 1 => i - 1 \in 1..Len(list') /\ (i - 1) + 1 = i /\ 1 < i /\ 1 \in 1..Len(list)
    BY <1>2
  <2> QED BY <1>2, <2>1 DEF QueueInv, InPushOrder
<1>4. Listed = Listed' \cup {h.n}
  <2>1. \A i \in 1..Len(list') : list'[i].n \in Listed
    BY <1>2 DEF Listed, Length
  <2>2. h.n \in Listed
    BY <1>2 DEF Listed, Length
  <2>3. \A i \in 1..Len(list) : list[i].n \in Listed' \cup {h.n}
    BY <1>2, <1>3 DEF Listed, Length
  <2> QED BY <2>1, <2>2, <2>3 DEF Listed, Length
<1>5. \A x \in Listed' : h.n < x
  <2> SUFFICES ASSUME NEW i \in 1..Len(list') PROVE h.n < list'[i].n
    BY DEF Listed, Length
  <2>1. i + 1 \in 1..Len(list) /\ i + 1 # 1 /\ list'[i] = list[i + 1]
    BY <1>2
  <2> QED BY <1>3, <2>1
<1>6. /\ Held(r) = {} /\ Held(r)' = {h.n}
      /\ \A q \in Reader : q # r => Held(q)' = Held(q)
      /\ \A q \in Reader : Got(q)' = Got(q)
  <2>1. hand'[r] = <<h>> /\ \A q \in Reader : q # r => hand'[q] = hand[q]
    BY <1>1 DEF QueueInv, QueueTypeOK
  <2>2. Held(r) = {}
    BY <1>1 DEF Held
  <2>3. Held(r)' = {h.n}
    BY <2>1 DEF Held
  <2> QED BY <1>1, <2>1, <2>2, <2>3 DEF Held, Got
<1>7. QueueTypeOK'
  <2>1. <<h>> \in Seq(Item) /\ Len(<<h>>) <= 1
    BY <1>2
  <2> QED
    BY <1>1, <1>2, <2>1 DEF QueueInv, QueueTypeOK
<1>8. InPushOrder'
  <2> SUFFICES ASSUME NEW i \in 1..Len(list'), NEW j \in 1..Len(list'), i < j
               PROVE  list'[i].n < list'[j].n
    BY <1>1 DEF QueueInv, InPushOrder
  <2>1. i + 1 < j + 1
    BY <1>2
  <2> QED
    BY <1>2, <2>1 DEF QueueInv, InPushOrder
<1>9. Listed \subseteq Nat /\ h.n \in Nat
  BY <1>4, PlacesAreNumbers DEF QueueInv
<1>10. Earlier'
  BY <1>1, <1>4, <1>5, <1>6 DEF QueueInv, Earlier
<1>11. Somewhere'
  BY <1>1, <1>4, <1>6, <1>9 DEF QueueInv, Somewhere
<1>12. Apart'
  <2>1. h.n \notin lost /\ \A q \in Reader : h.n \notin Held(q) /\ h.n \notin Got(q)
    BY <1>4, <1>9 DEF QueueInv, Earlier
  <2> QED
    BY <1>1, <1>6, <2>1 DEF QueueInv, Apart
<1> QED
  BY <1>7, <1>8, <1>10, <1>11, <1>12 DEF QueueInv

(* Pop returns what the reader holds, or loses it. *)
LEMMA PopStep ==
  ASSUME QueueInv, NEW r \in Reader, Popped(r) \/ PopFails(r)
  PROVE  QueueInv'
<1> DEFINE h == hand[r][1].n
<1>1. /\ hand[r] # <<>> /\ hand' = [hand EXCEPT ![r] = <<>>] /\ UNCHANGED <<list, pushes>>
      /\ \/ got' = [got EXCEPT ![r] = Append(@, h)] /\ lost' = lost
         \/ got' = got /\ lost' = lost \cup {h}
  BY DEF Popped, PopFails
<1>2. hand[r] \in Seq(Item) /\ Len(hand[r]) = 1 /\ hand[r][1] \in Item
  <2>1. hand[r] \in Seq(Item) /\ Len(hand[r]) <= 1 /\ hand[r] # <<>>
    BY <1>1 DEF QueueInv, QueueTypeOK
  <2> QED BY <2>1, OneElement
<1>3. h \in Nat /\ Held(r) = {h}
  BY <1>2 DEF Item, Held
<1> HIDE DEF h
<1>4. Held(r)' = {} /\ Listed' = Listed /\ \A q \in Reader : q # r => Held(q)' = Held(q)
  BY <1>1 DEF Held, Listed, Length, QueueInv, QueueTypeOK
<1>5. \A y \in Got(r) : y < h
  BY <1>3 DEF QueueInv, Earlier
<1>6. CASE got' = [got EXCEPT ![r] = Append(@, h)] /\ lost' = lost
  <2>0. got[r] \in Seq(Nat) /\ Len(got[r]) \in Nat
    BY DEF QueueInv, QueueTypeOK
  <2>1. /\ got'[r] = Append(got[r], h) /\ \A q \in Reader : q # r => got'[q] = got[q]
    BY <1>6 DEF QueueInv, QueueTypeOK
  <2>2. /\ got'[r] \in Seq(Nat) /\ Len(got'[r]) = Len(got[r]) + 1
        /\ got'[r][Len(got[r]) + 1] = h /\ \A i \in 1..Len(got[r]) : got'[r][i] = got[r][i]
    BY <1>3, <2>0, <2>1
  <2>3. \A i \in 1..Len(got'[r]) : i \in 1..Len(got[r]) \/ i = Len(got[r]) + 1
    BY <2>0, <2>2
  <2>4. Got(r)' = Got(r) \cup {h} /\ \A q \in Reader : q # r => Got(q)' = Got(q)
    <3>1. Len(got[r]) + 1 \in 1..Len(got'[r]) /\ \A i \in 1..Len(got[r]) : i \in 1..Len(got'[r])
      BY <2>0, <2>2
    <3>2. Got(r) = {got[r][i] : i \in 1..Len(got[r])} /\ Got(r)' = {got'[r][i] : i \in 1..Len(got'[r])}
      BY <2>0, <2>2 DEF Got, ToSet
    <3>3. Got(r)' = Got(r) \cup {h}
      BY <2>2, <2>3, <3>1, <3>2
    <3> QED BY <2>1, <3>3 DEF Got
  <2>5. Increases(got'[r])
    <3> SUFFICES ASSUME NEW i \in 1..Len(got'[r]), NEW j \in 1..Len(got'[r]), i < j
                 PROVE  got'[r][i] < got'[r][j]
      BY DEF Increases
    <3>1. i \in 1..Len(got[r]) /\ got'[r][i] = got[r][i] /\ got[r][i] \in Got(r)
      BY <2>0, <2>2 DEF Got, ToSet
    <3>2. CASE j \in 1..Len(got[r])
      BY <2>2, <3>1, <3>2 DEF QueueInv, InPushOrder, Increases
    <3>3. CASE j = Len(got[r]) + 1
      BY <1>5, <2>2, <3>1, <3>3
    <3> QED BY <2>3, <3>2, <3>3
  <2>6. QueueTypeOK'
    BY <1>1, <1>3, <1>6 DEF QueueInv, QueueTypeOK
  <2>7. InPushOrder'
    BY <1>1, <2>1, <2>5 DEF QueueInv, InPushOrder
  <2>8. Earlier'
    BY <1>3, <1>4, <1>6, <2>4 DEF QueueInv, Earlier
  <2>9. Somewhere'
    BY <1>1, <1>3, <1>4, <1>6, <2>4 DEF QueueInv, Somewhere
  <2>10. Apart'
    BY <1>3, <1>4, <1>6, <2>4 DEF QueueInv, Apart
  <2> QED
    BY <2>6, <2>7, <2>8, <2>9, <2>10 DEF QueueInv
<1>7. CASE got' = got /\ lost' = lost \cup {h}
  <2>1. \A q \in Reader : Got(q)' = Got(q)
    BY <1>7 DEF Got
  <2>2. h \notin Got(r)
    BY <1>3, <1>5
  <2>3. QueueTypeOK' /\ InPushOrder'
    BY <1>1, <1>3, <1>7 DEF QueueInv, QueueTypeOK, InPushOrder
  <2>4. Earlier'
    BY <1>3, <1>4, <1>7, <2>1 DEF QueueInv, Earlier
  <2>5. Somewhere'
    BY <1>1, <1>3, <1>4, <1>7, <2>1 DEF QueueInv, Somewhere
  <2>6. Apart'
    BY <1>3, <1>4, <1>7, <2>1, <2>2 DEF QueueInv, Apart
  <2> QED
    BY <2>3, <2>4, <2>5, <2>6 DEF QueueInv
<1> QED BY <1>1, <1>6, <1>7

(* For any readers and any number of pushes, an entry goes to one reader at   *)
(* most, and each reader gets its entries in the order of the pushes, through *)
(* lost answers, undecodable entries and readers that die (queue.go Push,     *)
(* Pop).                                                                      *)
THEOREM QueueDelivers == QueueSpec => []AtMostOnceInOrder
<1>1. QueueInit => QueueInv
  <2> SUFFICES ASSUME QueueInit PROVE QueueInv
    OBVIOUS
  <2>1. QueueTypeOK
    BY DEF QueueInit, QueueTypeOK
  <2>2. Listed = {} /\ lost = {} /\ \A r \in Reader : Held(r) = {} /\ Got(r) = {}
    BY DEF QueueInit, Listed, Held, Got, ToSet, Length
  <2>3. InPushOrder
    BY DEF QueueInit, InPushOrder, Increases
  <2>4. Earlier /\ Apart
    BY <2>2 DEF Earlier, Apart
  <2>5. Somewhere
    BY <2>2 DEF Somewhere, QueueInit
  <2> QED BY <2>1, <2>3, <2>4, <2>5 DEF QueueInv
<1>2. QueueInv /\ [QueueNext]_queueVars => QueueInv'
  <2> SUFFICES ASSUME QueueInv, [QueueNext]_queueVars PROVE QueueInv'
    OBVIOUS
  <2>1. ASSUME UNCHANGED queueVars PROVE QueueInv'
    BY <2>1 DEF queueVars, QueueInv, QueueTypeOK, InPushOrder, Earlier, Somewhere, Apart,
                Listed, Held, Got, Length
  <2> QED
    BY <2>1, PushStep, LPopStep, PopStep DEF QueueNext, PopEmpty
<1>3. QueueInv => AtMostOnceInOrder
  <2> SUFFICES ASSUME QueueInv PROVE AtMostOnceInOrder
    OBVIOUS
  <2>1. Listed \subseteq Nat /\ \A r \in Reader : Held(r) \subseteq Nat /\ Got(r) \subseteq Nat
    BY PlacesAreNumbers DEF QueueInv
  <2>2. lost \subseteq Nat
    BY DEF QueueInv, QueueTypeOK
  <2>3. \A i, j \in 1..Length : i < j => list[i].n < list[j].n
    BY DEF QueueInv, InPushOrder, Length
  <2>4. \A r \in Reader : \A i, j \in 1..Len(got[r]) : i < j => got[r][i] < got[r][j]
    BY DEF QueueInv, InPushOrder, Increases
  <2>5. 1..pushes = Listed \cup lost \cup UNION {Held(r) \cup Got(r) : r \in Reader}
    <3>1. 1..pushes \subseteq Nat
      OBVIOUS
    <3>2. \A x \in Nat : x \in 1..pushes <=>
            x \in Listed \/ x \in lost \/ \E r \in Reader : x \in Held(r) \cup Got(r)
      BY DEF QueueInv, Somewhere
    <3>3. \A x \in Listed \cup lost \cup UNION {Held(r) \cup Got(r) : r \in Reader} : x \in Nat
      BY <2>1, <2>2
    <3>4. \A x : x \in UNION {Held(r) \cup Got(r) : r \in Reader} <=>
                   \E r \in Reader : x \in Held(r) \cup Got(r)
      OBVIOUS
    <3> QED BY <3>1, <3>2, <3>3, <3>4
  <2>6. Listed \cap lost = {}
    BY <2>1, <2>2 DEF QueueInv, Earlier
  <2>7. \A r \in Reader : Held(r) \cap Got(r) = {}
    BY <2>1 DEF QueueInv, Earlier
  <2>8. \A r \in Reader : (Held(r) \cup Got(r)) \cap (Listed \cup lost) = {}
    BY <2>1 DEF QueueInv, Earlier, Apart
  <2>9. \A r \in Reader : \A q \in Reader \ {r} : (Held(r) \cup Got(r)) \cap (Held(q) \cup Got(q)) = {}
    BY DEF QueueInv, Apart
  <2>10. Length \in Nat /\ Len([i \in 1..Length |-> list[i].n]) = Length
    BY DEF QueueInv, QueueTypeOK, Length
  <2> QED
    BY <2>3, <2>4, <2>5, <2>6, <2>7, <2>8, <2>9, <2>10 DEF AtMostOnceInOrder
<1> QED
  BY <1>1, <1>2, <1>3, PTL DEF QueueSpec

-----------------------------------------------------------------------------
(* Pull requests of a forge *)

(* A pipeline that is about to create a pull request where there is one       *)
(* already has a reason on record, and keeps it when it is refused; on GitHub *)
(* the reason is never the page.                                              *)
PullInv ==
  /\ DOMAIN at = Pipeline /\ DOMAIN why = Pipeline
  /\ pulls \in Seq([number : Nat, head : Branch])
  /\ opened \in Nat
  /\ \A p \in Pipeline :
       /\ at[p].op \in {"find", "open"} => at[p].head \in Branch
       /\ at[p].op = "open" /\ Of(pulls, at[p].head) => why[p] # {}
       /\ at[p].op = "conflict" => why[p] # {}
       /\ kind = "github" => "beyond the page" \notin why[p]

(* Opening one adds its branch; closing one adds none. *)
LEMMA OpenAdds ==
  ASSUME PullInv, NEW h \in Branch, Open(h)
  PROVE  /\ pulls' \in Seq([number : Nat, head : Branch]) /\ opened' \in Nat
         /\ \A g : Of(pulls', g) => g = h \/ Of(pulls, g)
<1> DEFINE n == [number |-> opened', head |-> h]
<1>0. opened' \in Nat
  <2>1. opened \in Nat
    BY DEF PullInv
  <2>2. opened' = opened + 1
    BY DEF Open
  <2> QED BY <2>1, <2>2
<1>1. opened' \in Nat /\ pulls' = <<n>> \o pulls /\ n \in [number : Nat, head : Branch]
  BY <1>0 DEF Open
<1>2. pulls \in Seq([number : Nat, head : Branch])
  BY DEF PullInv
<1>3. pulls' \in Seq([number : Nat, head : Branch])
  BY <1>1, <1>2
<1>4. Len(pulls') = Len(pulls) + 1 /\ Len(pulls) \in Nat
      /\ \A i \in 1..Len(pulls') : pulls'[i] = IF i = 1 THEN n ELSE pulls[i - 1]
  BY <1>1, <1>2
<1>5. ASSUME NEW g, Of(pulls', g) PROVE g = h \/ Of(pulls, g)
  <2>1. PICK i \in 1..Len(pulls') : pulls'[i].head = g
    BY <1>5 DEF Of
  <2>2. CASE i = 1
    BY <1>4, <2>1, <2>2
  <2>3. CASE i # 1
    <3>1. i - 1 \in 1..Len(pulls) /\ pulls[i - 1].head = g
      BY <1>4, <2>1, <2>3
    <3> QED BY <3>1 DEF Of
  <2> QED BY <2>2, <2>3
<1> QED
  BY <1>1, <1>3, <1>5

(* Each step of EnsurePR, of an upsert and of people keeps it. *)
LEMMA PullStep == PullInv /\ [StickyNext \/ PullNext]_forgeVars => PullInv'
<1> SUFFICES ASSUME PullInv, [StickyNext \/ PullNext]_forgeVars PROVE PullInv'
  OBVIOUS
<1>1. ASSUME NEW p \in Pipeline, NEW call, Go(p, call), UNCHANGED <<kind, pulls, opened, why>>,
             call.op \notin {"find", "open", "conflict"}
      PROVE  PullInv'
  BY <1>1 DEF Go, PullInv
<1>2. ASSUME UNCHANGED <<kind, pulls, opened, at, why>> PROVE PullInv'
  BY <1>2 DEF PullInv
<1>3. CASE StickyNext
  <2>1. ASSUME NEW p \in Pipeline, NEW k \in Key, UpsertSticky(p, k) PROVE PullInv'
    BY <1>1, <2>1 DEF UpsertSticky
  <2>2. ASSUME NEW p \in Pipeline, ListIssueComments(p) PROVE PullInv'
    <3> DEFINE batch == Batch(at[p].page)
               found == IF at[p].found # 0 THEN at[p].found ELSE Marked(batch, at[p].key)
               call == IF LastPage(batch) THEN Decide(at[p].key, found)
                       ELSE [at[p] EXCEPT !.page = @ + 1, !.found = found]
    <3>1. Go(p, call) /\ UNCHANGED <<kind, pulls, opened, why>> /\ at[p].op = "list"
      BY <2>2 DEF ListIssueComments
    <3>2. call.op \notin {"find", "open", "conflict"}
      <4> HIDE DEF found, batch
      <4> QED BY <3>1 DEF Decide
    <3> QED BY <1>1, <3>1, <3>2
  <2>3. ASSUME NEW p \in Pipeline, UpdateIssueComment(p) \/ CreateIssueComment(p) \/ UpsertFails(p)
        PROVE  PullInv'
    BY <1>1, <2>3 DEF UpdateIssueComment, CreateIssueComment, UpsertFails, Idle
  <2>4. CASE PersonComments \/ \E i \in 1..Len(comments) : PersonDeletes(i)
    BY <1>2, <2>4 DEF PersonComments, PersonDeletes
  <2> QED
    BY <1>3, <2>1, <2>2, <2>3, <2>4 DEF StickyNext
<1>4. CASE PullNext
  <2> USE DEF Go, Idle
  <2>1. ASSUME NEW p \in Pipeline, NEW h \in Branch, EnsurePR(p, h) PROVE PullInv'
    BY <2>1 DEF EnsurePR, PullInv
  <2>2. ASSUME NEW p \in Pipeline, Adopt(p) \/ CreateFails(p) PROVE PullInv'
    BY <1>1, <2>2 DEF Adopt, CreateFails
  <2>3. ASSUME NEW p \in Pipeline, NotFound(p) PROVE PullInv'
    BY <2>3 DEF NotFound, PullInv, Finds, gitHubFinds
  <2>4. ASSUME NEW p \in Pipeline, FindFails(p) PROVE PullInv'
    BY <2>4 DEF FindFails, PullInv
  <2>5. ASSUME NEW p \in Pipeline, Conflict(p) PROVE PullInv'
    BY <2>5 DEF Conflict, PullInv
  <2>6. ASSUME NEW h \in Branch, Open(h), UNCHANGED kind,
               DOMAIN why' = Pipeline, DOMAIN at' = Pipeline,
               \A o \in Pipeline : \/ at'[o] = at[o] /\ why'[o] = Raced(h)[o]
                                   \/ at'[o].op = "idle" /\ why'[o] = {}
        PROVE  PullInv'
    <3>1. /\ pulls' \in Seq([number : Nat, head : Branch]) /\ opened' \in Nat
          /\ \A g : Of(pulls', g) => g = h \/ Of(pulls, g)
      BY <2>6, OpenAdds
    <3>2. ASSUME NEW o \in Pipeline
          PROVE  /\ at'[o].op \in {"find", "open"} => at'[o].head \in Branch
                 /\ at'[o].op = "open" /\ Of(pulls', at'[o].head) => why'[o] # {}
                 /\ at'[o].op = "conflict" => why'[o] # {}
                 /\ kind' = "github" => "beyond the page" \notin why'[o]
      <4>1. CASE at'[o].op = "idle" /\ why'[o] = {}
        BY <4>1
      <4>2. CASE at'[o] = at[o] /\ why'[o] = Raced(h)[o]
        <5>1. Raced(h)[o] = IF at[o].op = "open" /\ at[o].head = h THEN why[o] \cup {"raced"} ELSE why[o]
          BY DEF Raced
        <5>2. Of(pulls', at[o].head) => at[o].head = h \/ Of(pulls, at[o].head)
          BY <3>1
        <5>3. /\ at[o].op \in {"find", "open"} => at[o].head \in Branch
              /\ at[o].op = "open" /\ Of(pulls, at[o].head) => why[o] # {}
              /\ at[o].op = "conflict" => why[o] # {}
              /\ kind = "github" => "beyond the page" \notin why[o]
          BY DEF PullInv
        <5>4. at[o].op = "open" /\ Of(pulls', at[o].head) => why'[o] # {}
          BY <4>2, <5>1, <5>2, <5>3
        <5>5. why[o] # {} => why'[o] # {}
          BY <4>2, <5>1
        <5>6. "beyond the page" \notin why[o] => "beyond the page" \notin why'[o]
          <6>1. why'[o] \subseteq why[o] \cup {"raced"}
            BY <4>2, <5>1
          <6> QED BY <6>1
        <5> QED
          BY <2>6, <4>2, <5>3, <5>4, <5>5, <5>6
      <4> QED BY <2>6, <4>1, <4>2
    <3> QED
      BY <2>6, <3>1, <3>2 DEF PullInv
  <2>7. ASSUME NEW p \in Pipeline, Create(p) PROVE PullInv'
    <3>1. at[p].head \in Branch
      BY <2>7 DEF Create, PullInv
    <3>2. \A o \in Pipeline : \/ at'[o] = at[o] /\ why'[o] = Raced(at[p].head)[o]
                              \/ at'[o].op = "idle" /\ why'[o] = {}
      BY <2>7 DEF Create, PullInv, Raced
    <3>3. Open(at[p].head) /\ UNCHANGED kind /\ DOMAIN why' = Pipeline /\ DOMAIN at' = Pipeline
      BY <2>7 DEF Create, PullInv, Raced
    <3> QED
      BY <2>6, <3>1, <3>2, <3>3
  <2>8. ASSUME NEW h \in Branch, PersonOpens(h) PROVE PullInv'
    <3>1. Open(h) /\ UNCHANGED <<kind, at>> /\ why' = Raced(h)
      BY <2>8 DEF PersonOpens
    <3>2. DOMAIN Raced(h) = Pipeline /\ DOMAIN at = Pipeline
      BY DEF Raced, PullInv
    <3> QED
      BY <2>6, <3>1, <3>2
  <2>9. ASSUME NEW i \in 1..Len(pulls), PersonCloses(i) PROVE PullInv'
    <3> DEFINE P == [number : Nat, head : Branch]
    <3>1. /\ pulls' = RemoveAt(pulls, i) /\ pulls \in Seq(P)
          /\ UNCHANGED <<kind, opened, at, why>>
      BY <2>9 DEF PersonCloses, PullInv
    <3>2. /\ pulls' \in Seq(P) /\ Len(pulls') = Len(pulls) - 1
          /\ \A j \in 1..(Len(pulls) - 1) : pulls'[j] = IF j < i THEN pulls[j] ELSE pulls[j + 1]
      <4> HIDE DEF P
      <4> QED BY <3>1, Removed
    <3>3. \A g : Of(pulls', g) => Of(pulls, g)
      <4> SUFFICES ASSUME NEW g, NEW j \in 1..Len(pulls'), pulls'[j].head = g
                   PROVE  \E n \in 1..Len(pulls) : pulls[n].head = g
        BY DEF Of
      <4>1. Len(pulls) \in Nat /\ j \in 1..(Len(pulls) - 1)
        BY <3>1, <3>2
      <4>2. j \in 1..Len(pulls) /\ j + 1 \in 1..Len(pulls) /\ pulls'[j] \in {pulls[j], pulls[j + 1]}
        BY <3>2, <4>1
      <4> QED BY <4>2
    <3> QED
      BY <3>1, <3>2, <3>3 DEF PullInv
  <2> QED
    BY <1>4, <2>1, <2>2, <2>3, <2>4, <2>5, <2>7, <2>8, <2>9 DEF PullNext
<1>5. CASE UNCHANGED forgeVars
  BY <1>2, <1>5 DEF forgeVars
<1> QED
  BY <1>3, <1>4, <1>5

(* For any pipelines, branches and page sizes, EnsurePR ends in a conflict    *)
(* only after a race, a failed look-up or, on Gitea alone, a full page        *)
(* (drivers/github/github.go, drivers/gitea/gitea.go EnsurePR).               *)
THEOREM ConflictsAreExplained == ForgeSpec => []ConflictIsExplained
<1>1. ForgeInit => PullInv
  BY DEF ForgeInit, PullInv, Idle
<1>2. PullInv => ConflictIsExplained
  BY DEF PullInv, ConflictIsExplained
<1> QED
  BY <1>1, <1>2, PullStep, PTL DEF ForgeSpec

-----------------------------------------------------------------------------
(* Sticky comments *)

Comment == [id : Nat \ {0}, marks : {{}} \cup {{k} : k \in Key}, sticky : BOOLEAN]

Call ==
  [op : {"idle", "conflict"}] \cup [op : {"find", "open"}, head : Branch]
    \cup [op : {"list"}, key : Key, page : Nat \ {0}, found : Nat]
    \cup [op : {"update"}, key : Key, id : Nat \ {0}] \cup [op : {"create"}, key : Key]

PageSize == IF kind = "github" THEN GitHubPage ELSE GiteaPage

(* The comment an upsert has found, 0 without one. *)
Target(p) == CASE at[p].op = "list" -> at[p].found
               [] at[p].op = "update" -> at[p].id
               [] OTHER -> 0

StickyTypeOK ==
  /\ kind \in {"github", "gitea"}
  /\ comments \in Seq(Comment) /\ nextId \in Nat
  /\ at \in [Pipeline -> Call] /\ shaken \subseteq Key

(* Comments have numbers of their own. *)
Numbered ==
  /\ \A i \in 1..Len(comments) : comments[i].id <= nextId
  /\ \A i, j \in 1..Len(comments) : comments[i].id = comments[j].id => i = j

(* Two upserts of one key have shaken it. *)
OneUpsert ==
  \A p, q \in Pipeline : p # q => Upserting(p) \cap Upserting(q) \subseteq shaken

(* What an upsert has found carries its marker and nothing else. *)
FoundMarked(p) ==
  /\ Target(p) <= nextId
  /\ \A i \in 1..Len(comments) :
       Target(p) # 0 /\ comments[i].id = Target(p) => comments[i].marks = {at[p].key}

(* What an undisturbed upsert knows: nothing before what it has found carries *)
(* the marker; without a find none of the comments it has read does, and it   *)
(* creates one only when it has read them all.                                *)
HasRead(p) ==
  Upserting(p) # {} /\ at[p].key \notin shaken =>
    /\ \A i, j \in 1..Len(comments) :
         Target(p) # 0 /\ comments[j].id = Target(p) /\ i < j => at[p].key \notin comments[i].marks
    /\ at[p].op = "list" => PageSize * (at[p].page - 1) <= Len(comments)
    /\ at[p].op = "list" /\ at[p].found = 0 =>
         \A i \in 1..(PageSize * (at[p].page - 1)) : at[p].key \notin comments[i].marks
    /\ at[p].op = "create" => \A i \in 1..Len(comments) : at[p].key \notin comments[i].marks

(* A sticky comment is the first with its marker. *)
StickyIsFirst ==
  \A k \in Key \ shaken, i, j \in 1..Len(comments) :
    i < j /\ k \in comments[i].marks /\ k \in comments[j].marks => ~comments[j].sticky

StickyInv ==
  /\ StickyTypeOK /\ Numbered /\ OneUpsert /\ StickyIsFirst
  /\ \A p \in Pipeline : FoundMarked(p) /\ HasRead(p)

(* What a page shows. *)
LEMMA PageShows ==
  ASSUME NEW S, NEW s \in Seq(S), NEW size \in Nat \ {0}, NEW page \in Nat \ {0}
  PROVE  LET b == Page(s, size, page)
             o == size * (page - 1)
         IN  /\ b \in Seq(S) /\ o \in Nat /\ size * page = o + size
             /\ \A i \in 1..Len(b) : o + i \in 1..Len(s) /\ b[i] = s[o + i]
             /\ o <= Len(s) /\ Len(b) < size => o + Len(b) = Len(s)
             /\ ~(Len(b) < size) => o + size <= Len(s) /\ Len(b) = size
<1> DEFINE o == size * (page - 1)
           top == Min({size * page, Len(s)})
           b == Page(s, size, page)
<1>1. o \in Nat /\ size * page = o + size /\ size * page \in Nat /\ Len(s) \in Nat
  OBVIOUS
<1>2. top \in {size * page, Len(s)} /\ top <= size * page /\ top <= Len(s)
  <2>1. {size * page, Len(s)} \in SUBSET Nat
    BY <1>1
  <2> QED
    BY <2>1, MinIsLeast
<1>3. top \in Nat /\ (top = o + size \/ top = Len(s)) /\ top <= o + size /\ top <= Len(s)
  BY <1>1, <1>2
<1>4. b = SubSeq(s, o + 1, top)
  BY DEF Page
<1> HIDE DEF o, top, b
<1>5. b \in Seq(S) /\ Len(b) = IF o + 1 <= top THEN top - o ELSE 0
  BY <1>1, <1>3, <1>4
<1>6. \A i \in 1..Len(b) : o + i \in 1..Len(s) /\ b[i] = s[o + i]
  BY <1>1, <1>3, <1>4, <1>5
<1>7. o <= Len(s) /\ Len(b) < size => o + Len(b) = Len(s)
  BY <1>1, <1>3, <1>5
<1>8. ~(Len(b) < size) => o + size <= Len(s) /\ Len(b) = size
  BY <1>1, <1>3, <1>5
<1> QED
  BY <1>1, <1>5, <1>6, <1>7, <1>8 DEF o, b

(* Marked gives the first comment of a batch with the marker. *)
LEMMA FirstMarked ==
  ASSUME NEW b \in Seq(Comment), NEW k
  PROVE  \/ /\ Marked(b, k) = 0
            /\ \A i \in 1..Len(b) : k \notin b[i].marks
         \/ \E n \in 1..Len(b) :
              /\ Marked(b, k) = b[n].id /\ k \in b[n].marks
              /\ \A i \in 1..Len(b) : i < n => k \notin b[i].marks
<1> DEFINE hits == {i \in 1..Len(b) : k \in b[i].marks}
<1>1. CASE hits = {}
  BY <1>1 DEF Marked
<1>2. CASE hits # {}
  <2> DEFINE n == CHOOSE i \in hits : \A j \in hits : i <= j
  <2>1. hits \in SUBSET Nat
    OBVIOUS
  <2>2. n \in hits /\ \A j \in hits : n <= j
    <3> HIDE DEF hits
    <3> QED BY <1>2, <2>1, Least
  <2>3. Marked(b, k) = b[n].id
    BY <1>2 DEF Marked
  <2> HIDE DEF n
  <2>4. \A i \in 1..Len(b) : i < n => k \notin b[i].marks
    BY <2>2
  <2> QED BY <2>2, <2>3, <2>4
<1> QED BY <1>1, <1>2

(* An upsert keeps what it knows while what it has read keeps its numbers and *)
(* markers.                                                                   *)
LEMMA KeepsKnowledge ==
  ASSUME StickyTypeOK, NEW o \in Pipeline, FoundMarked(o), HasRead(o),
         at'[o] = at[o], UNCHANGED kind, nextId' = nextId, shaken \subseteq shaken',
         Len(comments') = Len(comments),
         \A i \in 1..Len(comments) :
           comments'[i].id = comments[i].id /\ comments'[i].marks = comments[i].marks
  PROVE  FoundMarked(o)' /\ HasRead(o)'
<1>1. Target(o)' = Target(o) /\ Upserting(o)' = Upserting(o) /\ PageSize' = PageSize
  BY DEF Target, Upserting, PageSize
<1>2. FoundMarked(o)'
  BY <1>1 DEF FoundMarked
<1>3. HasRead(o)'
  <2> SUFFICES ASSUME Upserting(o) # {}, at[o].key \notin shaken' PROVE HasRead(o)'
    BY <1>1 DEF HasRead
  <2>1. at[o].op = "list" => /\ at[o].page \in Nat \ {0} /\ PageSize \in Nat \ {0}
                             /\ PageSize * (at[o].page - 1) \in Nat
    BY ForgeAssumption DEF StickyTypeOK, Call, PageSize
  <2>2. at[o].op = "list" => \A i \in 1..(PageSize * (at[o].page - 1)) : i \in 1..Len(comments)
    BY <2>1 DEF HasRead, StickyTypeOK
  <2> QED
    BY <1>1, <2>2 DEF HasRead
<1> QED BY <1>2, <1>3

(* A pipeline that is in no upsert knows nothing. *)
LEMMA KnowsNothing ==
  ASSUME StickyTypeOK', NEW p \in Pipeline, at'[p].op \notin {"list", "update", "create"}
  PROVE  Upserting(p)' = {} /\ Target(p)' = 0 /\ FoundMarked(p)' /\ HasRead(p)'
<1>1. Upserting(p)' = {} /\ Target(p)' = 0
  BY DEF Upserting, Target
<1> QED
  BY <1>1 DEF FoundMarked, HasRead, StickyTypeOK

(* A call that ends, or is none of an upsert. *)
LEMMA LeaveStep ==
  ASSUME StickyInv, NEW p \in Pipeline, NEW call \in Call,
         call.op \notin {"list", "update", "create"}, Go(p, call),
         UNCHANGED <<kind, comments, nextId, shaken>>
  PROVE  StickyInv'
<1>1. StickyTypeOK' /\ at'[p] = call /\ \A o \in Pipeline : o # p => at'[o] = at[o]
  BY DEF Go, StickyInv, StickyTypeOK
<1>2. Upserting(p)' = {} /\ FoundMarked(p)' /\ HasRead(p)'
  BY <1>1, KnowsNothing
<1>3. \A o \in Pipeline : o # p => FoundMarked(o)' /\ HasRead(o)' /\ Upserting(o)' = Upserting(o)
  BY <1>1, KeepsKnowledge DEF StickyInv, Upserting
<1>4. OneUpsert'
  BY <1>2, <1>3 DEF OneUpsert, StickyInv
<1> QED
  BY <1>1, <1>2, <1>3, <1>4 DEF StickyInv, Numbered, StickyIsFirst

(* An upsert that starts knows nothing; where another is at work on the key,  *)
(* the key is shaken.                                                         *)
LEMMA UpsertStep ==
  ASSUME StickyInv, NEW p \in Pipeline, NEW k \in Key, UpsertSticky(p, k)
  PROVE  StickyInv'
<1> DEFINE call == [op |-> "list", key |-> k, page |-> 1, found |-> 0]
<1>1. /\ at' = [at EXCEPT ![p] = call] /\ UNCHANGED <<kind, comments, nextId>>
      /\ shaken' = IF \E o \in Pipeline : k \in Upserting(o) THEN shaken \cup {k} ELSE shaken
  BY DEF UpsertSticky, Go
<1>2. /\ StickyTypeOK' /\ at'[p] = call /\ \A o \in Pipeline : o # p => at'[o] = at[o]
      /\ shaken \subseteq shaken'
  BY <1>1 DEF StickyInv, StickyTypeOK, Call
<1>3. \A o \in Pipeline : o # p => FoundMarked(o)' /\ HasRead(o)' /\ Upserting(o)' = Upserting(o)
  BY <1>1, <1>2, KeepsKnowledge DEF StickyInv, Upserting
<1>4. Upserting(p)' = {k} /\ Target(p)' = 0
  BY <1>2 DEF Upserting, Target
<1>5. OneUpsert'
  BY <1>1, <1>2, <1>3, <1>4 DEF OneUpsert, StickyInv
<1>6. FoundMarked(p)' /\ HasRead(p)'
  <2>1. PageSize' \in Nat /\ PageSize' * (1 - 1) = 0
    BY <1>2, ForgeAssumption DEF PageSize
  <2>2. at'[p].page = 1 /\ at'[p].op = "list"
    BY <1>2
  <2>3. PageSize' * (at'[p].page - 1) = 0
    BY <2>1, <2>2
  <2>4. Len(comments') \in Nat /\ nextId' \in Nat
    BY <1>2 DEF StickyTypeOK
  <2> QED
    BY <1>4, <2>2, <2>3, <2>4 DEF FoundMarked, HasRead
<1>7. Numbered' /\ StickyIsFirst'
  BY <1>1, <1>2 DEF StickyInv, Numbered, StickyIsFirst
<1> QED
  BY <1>2, <1>3, <1>5, <1>6, <1>7 DEF StickyInv

(* One page is read. *)
LEMMA ListStep ==
  ASSUME StickyInv, NEW p \in Pipeline, ListIssueComments(p)
  PROVE  StickyInv'
<1> DEFINE k == at[p].key
           page == at[p].page
           o == PageSize * (page - 1)
           batch == Batch(page)
           found == IF at[p].found # 0 THEN at[p].found ELSE Marked(batch, k)
           call == IF LastPage(batch) THEN Decide(k, found)
                   ELSE [at[p] EXCEPT !.page = @ + 1, !.found = found]
           n == Len(comments)
<1>1. /\ at[p].op = "list" /\ Go(p, call)
      /\ UNCHANGED <<kind, comments, nextId, pulls, opened, shaken, why>>
  BY DEF ListIssueComments
<1>2. /\ k \in Key /\ page \in Nat \ {0} /\ at[p].found \in Nat
      /\ at[p] \in [op : {"list"}, key : Key, page : Nat \ {0}, found : Nat]
  BY <1>1 DEF StickyInv, StickyTypeOK, Call
<1>3. PageSize \in Nat \ {0} /\ batch = Page(comments, PageSize, page)
      /\ (LastPage(batch) <=> Len(batch) < PageSize)
  BY ForgeAssumption DEF PageSize, Batch, gitHubBatch, giteaBatch, LastPage
<1>4. comments \in Seq(Comment) /\ n \in Nat /\ \A i \in 1..n : comments[i] \in Comment
  BY DEF StickyInv, StickyTypeOK
<1>5. /\ batch \in Seq(Comment) /\ o \in Nat /\ PageSize * page = o + PageSize
      /\ \A i \in 1..Len(batch) : o + i \in 1..n /\ batch[i] = comments[o + i]
      /\ o <= n /\ Len(batch) < PageSize => o + Len(batch) = n
      /\ ~(Len(batch) < PageSize) => o + PageSize <= n /\ Len(batch) = PageSize
  <2> HIDE DEF page, batch
  <2> QED BY <1>2, <1>3, <1>4, PageShows
<1>6. Upserting(p) = {k} /\ Target(p) = at[p].found
  BY <1>1 DEF Upserting, Target
<1>7. PageSize * ((page + 1) - 1) = o + PageSize
  BY <1>2, <1>3, <1>5
<1> HIDE DEF o, batch, n
<1>8. \/ /\ Marked(batch, k) = 0 /\ \A i \in 1..Len(batch) : k \notin comments[o + i].marks
      \/ \E m \in 1..n : /\ Marked(batch, k) = comments[m].id /\ k \in comments[m].marks /\ o < m
                         /\ \A i \in 1..n : o < i /\ i < m => k \notin comments[i].marks
  <2>1. CASE Marked(batch, k) = 0 /\ \A i \in 1..Len(batch) : k \notin batch[i].marks
    BY <1>5, <2>1
  <2>2. ASSUME NEW m \in 1..Len(batch), Marked(batch, k) = batch[m].id, k \in batch[m].marks,
               \A i \in 1..Len(batch) : i < m => k \notin batch[i].marks
        PROVE  \E j \in 1..n : /\ Marked(batch, k) = comments[j].id /\ k \in comments[j].marks /\ o < j
                               /\ \A i \in 1..n : o < i /\ i < j => k \notin comments[i].marks
    <3>1. o + m \in 1..n /\ batch[m] = comments[o + m] /\ o < o + m
      BY <1>5
    <3>2. ASSUME NEW i \in 1..n, o < i, i < o + m PROVE k \notin comments[i].marks
      <4>1. Len(batch) \in Nat /\ i - o \in 1..Len(batch) /\ i - o < m /\ o + (i - o) = i
        BY <1>4, <1>5, <3>2 DEF n
      <4> QED BY <1>5, <2>2, <4>1
    <3> QED BY <2>2, <3>1, <3>2
  <2> QED
    BY <1>5, <2>1, <2>2, FirstMarked
<1>9. /\ found \in Nat /\ found <= nextId
      /\ \A i \in 1..n : found # 0 /\ comments[i].id = found => comments[i].marks = {k}
  <2>1. CASE at[p].found # 0
    BY <1>2, <1>6, <2>1 DEF StickyInv, FoundMarked, n
  <2>2. CASE at[p].found = 0 /\ Marked(batch, k) = 0
    BY <2>2 DEF StickyInv, StickyTypeOK
  <2>3. ASSUME at[p].found = 0, NEW m \in 1..n, Marked(batch, k) = comments[m].id,
               k \in comments[m].marks
        PROVE  /\ found \in Nat /\ found <= nextId
               /\ \A i \in 1..n : found # 0 /\ comments[i].id = found => comments[i].marks = {k}
    <3>1. comments[m] \in Comment
      BY <1>4
    <3>2. comments[m].id \in Nat /\ comments[m].marks = {k}
      BY <2>3, <3>1 DEF Comment
    <3>3. comments[m].id <= nextId /\ \A i \in 1..n : comments[i].id = comments[m].id => i = m
      BY DEF StickyInv, Numbered, n
    <3> QED
      BY <2>3, <3>2, <3>3
  <2> QED BY <1>2, <1>8, <2>1, <2>2, <2>3
<1>10. ASSUME k \notin shaken
       PROVE  /\ o <= n
              /\ \A i, j \in 1..n : found # 0 /\ comments[j].id = found /\ i < j => k \notin comments[i].marks
              /\ found = 0 => \A i \in 1..(o + Len(batch)) : k \notin comments[i].marks
  <2>1. /\ o <= n
        /\ \A i, j \in 1..n :
             at[p].found # 0 /\ comments[j].id = at[p].found /\ i < j => k \notin comments[i].marks
        /\ at[p].found = 0 => \A i \in 1..o : k \notin comments[i].marks
    BY <1>1, <1>6, <1>10 DEF StickyInv, HasRead, o, n
  <2>2. CASE at[p].found # 0
    BY <2>1, <2>2
  <2>3. CASE at[p].found = 0 /\ Marked(batch, k) = 0 /\ \A i \in 1..Len(batch) : k \notin comments[o + i].marks
    <3>1. ASSUME NEW i \in 1..(o + Len(batch)) PROVE k \notin comments[i].marks
      <4>1. Len(batch) \in Nat
        BY <1>5
      <4>2. i \in 1..o \/ (i - o \in 1..Len(batch) /\ o + (i - o) = i)
        BY <1>5, <4>1
      <4> QED BY <2>1, <2>3, <4>2
    <3> QED BY <2>1, <2>3, <3>1
  <2>4. ASSUME at[p].found = 0, NEW m \in 1..n, Marked(batch, k) = comments[m].id, o < m,
               \A i \in 1..n : o < i /\ i < m => k \notin comments[i].marks
        PROVE  /\ o <= n
               /\ \A i, j \in 1..n : found # 0 /\ comments[j].id = found /\ i < j => k \notin comments[i].marks
               /\ found # 0
    <3>1. comments[m].id # 0
      BY <1>4 DEF Comment
    <3>2. \A i \in 1..n : comments[i].id = comments[m].id => i = m
      BY DEF StickyInv, Numbered, n
    <3>3. \A i \in 1..n : i < m => k \notin comments[i].marks
      BY <1>5, <2>1, <2>4
    <3> QED BY <2>1, <2>4, <3>1, <3>2, <3>3
  <2> QED BY <1>8, <2>2, <2>3, <2>4
<1> HIDE DEF found
<1>11. /\ LastPage(batch) /\ found = 0 => call = [op |-> "create", key |-> k]
       /\ LastPage(batch) /\ found # 0 => call = [op |-> "update", key |-> k, id |-> found]
       /\ ~LastPage(batch) => call = [op |-> "list", key |-> k, page |-> page + 1, found |-> found]
  BY <1>2 DEF Decide
<1>12. call \in Call /\ at'[p] = call /\ (\A q \in Pipeline : q # p => at'[q] = at[q])
       /\ at' \in [Pipeline -> Call]
  <2>1. call \in Call
    BY <1>2, <1>9, <1>11 DEF Call
  <2> HIDE DEF call
  <2> QED BY <1>1, <2>1 DEF Go, StickyInv, StickyTypeOK
<1>13. StickyTypeOK'
  BY <1>1, <1>12 DEF StickyInv, StickyTypeOK
<1>14. \A q \in Pipeline : q # p => FoundMarked(q)' /\ HasRead(q)' /\ Upserting(q)' = Upserting(q)
  BY <1>1, <1>12, KeepsKnowledge DEF StickyInv, Upserting
<1>15. at'[p].key = k /\ Upserting(p)' = {k} /\ Target(p)' = found
  <2> HIDE DEF call, k
  <2>1. CASE LastPage(batch) /\ found = 0
    BY <1>11, <1>12, <2>1 DEF Upserting, Target
  <2>2. CASE LastPage(batch) /\ found # 0
    BY <1>11, <1>12, <2>2 DEF Upserting, Target
  <2>3. CASE ~LastPage(batch)
    BY <1>11, <1>12, <2>3 DEF Upserting, Target
  <2> QED BY <2>1, <2>2, <2>3
<1>16. FoundMarked(p)'
  BY <1>1, <1>9, <1>15 DEF FoundMarked, n
<1>17. HasRead(p)'
  <2> SUFFICES ASSUME k \notin shaken PROVE HasRead(p)'
    BY <1>1, <1>15 DEF HasRead
  <2>1. PageSize' = PageSize /\ Len(comments') = n
    BY <1>1 DEF PageSize, n
  <2>2. at'[p].op = "list" => /\ ~LastPage(batch) /\ at'[p].page = page + 1 /\ at'[p].found = found
                              /\ PageSize' * (at'[p].page - 1) = o + Len(batch)
                              /\ o + Len(batch) <= n
    BY <1>3, <1>5, <1>7, <1>11, <1>12, <2>1
  <2>3. at'[p].op = "create" => found = 0 /\ o + Len(batch) = n
    <3>1. at'[p].op = "create" => found = 0 /\ LastPage(batch)
      <4> HIDE DEF call
      <4> QED BY <1>11, <1>12
    <3>2. o <= n
      BY <1>10
    <3> QED BY <1>3, <1>5, <3>1, <3>2
  <2> QED
    BY <1>1, <1>10, <1>15, <2>1, <2>2, <2>3 DEF HasRead
<1>18. OneUpsert'
  BY <1>1, <1>6, <1>14, <1>15 DEF StickyInv, OneUpsert
<1> QED
  BY <1>1, <1>13, <1>14, <1>16, <1>17, <1>18 DEF StickyInv, Numbered, StickyIsFirst

(* An update leaves markers as they are; the comment it makes sticky is the   *)
(* first with its marker.                                                     *)
LEMMA UpdateStep ==
  ASSUME StickyInv, NEW p \in Pipeline, UpdateIssueComment(p)
  PROVE  StickyInv'
<1> DEFINE k == at[p].key
           n == Len(comments)
<1>1. /\ at[p].op = "update" /\ UNCHANGED <<kind, nextId, shaken>>
      /\ at' = [at EXCEPT ![p] = Idle]
      /\ comments' = [i \in 1..n |->
           IF comments[i].id = at[p].id THEN [comments[i] EXCEPT !.marks = {k}, !.sticky = TRUE]
           ELSE comments[i]]
  BY DEF UpdateIssueComment, Go
<1>2. at[p].id \in Nat \ {0} /\ k \in Key /\ comments \in Seq(Comment)
  BY <1>1 DEF StickyInv, StickyTypeOK, Call
<1>3. Target(p) = at[p].id /\ Upserting(p) = {k}
  BY <1>1 DEF Target, Upserting
<1>4. \A i \in 1..n :
        /\ comments[i] \in Comment /\ comments'[i] \in Comment
        /\ comments'[i].id = comments[i].id
        /\ comments'[i].marks = comments[i].marks
        /\ comments'[i].sticky => comments[i].sticky \/ comments[i].id = at[p].id
  <2> TAKE i \in 1..n
  <2>1. comments[i] \in Comment
    BY <1>2
  <2>2. comments[i].id = at[p].id => comments[i].marks = {k}
    BY <1>2, <1>3 DEF StickyInv, FoundMarked
  <2>3. comments'[i] = IF comments[i].id = at[p].id
                         THEN [comments[i] EXCEPT !.marks = {k}, !.sticky = TRUE] ELSE comments[i]
    BY <1>1
  <2>4. CASE comments[i].id = at[p].id
    <3>1. comments'[i] = [comments[i] EXCEPT !.marks = {k}, !.sticky = TRUE]
      BY <2>3, <2>4
    <3> QED BY <1>2, <2>1, <2>2, <2>4, <3>1 DEF Comment
  <2>5. CASE comments[i].id # at[p].id
    BY <2>1, <2>3, <2>5
  <2> QED BY <2>4, <2>5
<1>5. comments' \in Seq(Comment) /\ Len(comments') = n /\ n \in Nat
  <2>1. n \in Nat
    BY <1>2
  <2> HIDE DEF n
  <2>2. comments' \in [1..n -> Comment]
    <3>1. DOMAIN comments' = 1..n
      BY <1>1
    <3> QED BY <1>1, <1>4, <3>1
  <2> QED BY <2>1, <2>2
<1>6. StickyTypeOK' /\ at'[p] = Idle /\ \A o \in Pipeline : o # p => at'[o] = at[o]
  BY <1>1, <1>5 DEF StickyInv, StickyTypeOK, Call, Idle
<1>7. Upserting(p)' = {} /\ FoundMarked(p)' /\ HasRead(p)'
  BY <1>6, KnowsNothing DEF Idle
<1>8. \A o \in Pipeline : o # p => FoundMarked(o)' /\ HasRead(o)' /\ Upserting(o)' = Upserting(o)
  BY <1>1, <1>4, <1>5, <1>6, KeepsKnowledge DEF StickyInv, Upserting
<1>9. OneUpsert'
  BY <1>1, <1>7, <1>8 DEF OneUpsert, StickyInv
<1>10. Numbered'
  <2>1. /\ \A i \in 1..n : comments[i].id <= nextId
        /\ \A i, j \in 1..n : comments[i].id = comments[j].id => i = j
    BY DEF StickyInv, Numbered
  <2>2. \A i \in 1..n : comments'[i].id = comments[i].id
    BY <1>4
  <2>3. nextId' = nextId /\ Len(comments') = n
    BY <1>1, <1>5
  <2> HIDE DEF n
  <2>4. \A i \in 1..n : comments'[i].id <= nextId'
    BY <2>1, <2>2, <2>3
  <2>5. \A i, j \in 1..n : comments'[i].id = comments'[j].id => i = j
    BY <2>1, <2>2
  <2> QED BY <2>3, <2>4, <2>5 DEF Numbered
<1>11. StickyIsFirst'
  <2>0. shaken' = shaken /\ Len(comments') = n /\ \A i \in 1..n : comments'[i].marks = comments[i].marks
    BY <1>1, <1>4, <1>5
  <2> SUFFICES ASSUME NEW c \in Key \ shaken, NEW i \in 1..n, NEW j \in 1..n, i < j,
                      c \in comments[i].marks, c \in comments[j].marks, comments'[j].sticky
               PROVE  FALSE
    BY <2>0 DEF StickyIsFirst
  <2>1. CASE comments[j].sticky
    BY <2>1 DEF StickyInv, StickyIsFirst
  <2>2. CASE comments[j].id = at[p].id
    <3>1. comments[j].marks = {k}
      BY <1>2, <1>3, <2>2 DEF StickyInv, FoundMarked
    <3>2. k \notin shaken
      BY <3>1
    <3>3. k \notin comments[i].marks
      BY <1>2, <1>3, <2>2, <3>2 DEF StickyInv, HasRead
    <3> QED BY <3>1, <3>3
  <2> QED BY <1>4, <2>1, <2>2
<1> QED
  BY <1>6, <1>7, <1>8, <1>9, <1>10, <1>11 DEF StickyInv

(* A comment that is posted comes last: nobody has found it yet.  Its markers *)
(* are none that an undisturbed upsert is about to create.                    *)
LEMMA PostStep ==
  ASSUME StickyInv, NEW marks \in {{}} \cup {{k} : k \in Key}, NEW sticky \in BOOLEAN,
         Post(marks, sticky), UNCHANGED <<kind, shaken>>, at' \in [Pipeline -> Call],
         \A o \in Pipeline :
           at'[o].op \notin {"list", "update", "create"} \/
           (at'[o] = at[o] /\ (at[o].op = "create" /\ at[o].key \notin shaken => at[o].key \notin marks)),
         sticky => \A k \in marks \ shaken, i \in 1..Len(comments) : k \notin comments[i].marks
  PROVE  StickyInv'
<1> DEFINE n == Len(comments)
           new == [id |-> nextId', marks |-> marks, sticky |-> sticky]
<1>1. comments \in Seq(Comment) /\ n \in Nat /\ nextId \in Nat
  BY DEF StickyInv, StickyTypeOK
<1>2. nextId' = nextId + 1 /\ comments' = Append(comments, new)
  BY DEF Post
<1>3. new \in Comment
  BY <1>1, <1>2 DEF Comment
<1>4. /\ comments' \in Seq(Comment) /\ Len(comments') = n + 1
      /\ comments'[n + 1] = new /\ \A i \in 1..n : comments'[i] = comments[i]
  BY <1>1, <1>2, <1>3
<1> HIDE DEF n
<1>5. StickyTypeOK'
  BY <1>1, <1>2, <1>4 DEF StickyInv, StickyTypeOK
<1>6. \A i \in 1..Len(comments') : i \in 1..n \/ i = n + 1
  BY <1>1, <1>4
<1>7. \A i \in 1..n : comments[i].id <= nextId /\ comments[i].id \in Nat
  <2>1. \A i \in 1..n : comments[i] \in Comment
    BY <1>1 DEF n
  <2>2. \A i \in 1..n : comments[i].id <= nextId
    BY DEF StickyInv, Numbered, n
  <2> QED BY <2>1, <2>2 DEF Comment
<1>8. Numbered'
  <2>1. \A i \in 1..Len(comments') : comments'[i].id <= nextId'
    BY <1>1, <1>2, <1>4, <1>6, <1>7
  <2>2. \A i, j \in 1..n : comments[i].id = comments[j].id => i = j
    BY DEF StickyInv, Numbered, n
  <2>3. ASSUME NEW i \in 1..n PROVE comments'[i].id # comments'[n + 1].id
    <3>1. new.id = nextId + 1
      BY <1>2
    <3> HIDE DEF new
    <3>2. comments'[i] = comments[i] /\ comments'[n + 1] = new
      BY <1>4
    <3>3. comments[i].id <= nextId /\ comments[i].id \in Nat
      BY <1>7
    <3>4. comments[i].id # nextId + 1
      BY <1>1, <3>3
    <3> QED BY <3>1, <3>2, <3>4
  <2> QED BY <1>4, <1>6, <2>1, <2>2, <2>3 DEF Numbered
<1>9. ASSUME NEW o \in Pipeline
      PROVE  FoundMarked(o)' /\ HasRead(o)' /\ Upserting(o)' \subseteq Upserting(o)
  <2>1. CASE at'[o].op \notin {"list", "update", "create"}
    BY <1>5, <2>1, KnowsNothing
  <2>2. CASE /\ at'[o] = at[o]
             /\ at[o].op = "create" /\ at[o].key \notin shaken => at[o].key \notin marks
    <3>1. Target(o)' = Target(o) /\ Upserting(o)' = Upserting(o) /\ PageSize' = PageSize
      BY <2>2 DEF Target, Upserting, PageSize
    <3>2. Target(o) \in Nat /\ Target(o) <= nextId
      BY DEF StickyInv, StickyTypeOK, Call, FoundMarked, Target
    <3>3. comments'[n + 1].id # Target(o)
      BY <1>1, <1>2, <1>4, <3>2
    <3>4. FoundMarked(o)'
      BY <1>1, <1>2, <1>4, <1>6, <2>2, <3>1, <3>2, <3>3 DEF StickyInv, FoundMarked, n
    <3>5. HasRead(o)'
      <4> SUFFICES ASSUME Upserting(o) # {}, at[o].key \notin shaken PROVE HasRead(o)'
        BY <2>2, <3>1 DEF HasRead
      <4>1. at[o].op = "list" => PageSize * (at[o].page - 1) \in Nat /\ PageSize * (at[o].page - 1) <= n
        <5>1. at[o].op = "list" => at[o].page \in Nat \ {0} /\ PageSize \in Nat \ {0}
          BY ForgeAssumption DEF StickyInv, StickyTypeOK, Call, PageSize
        <5>2. at[o].op = "list" => PageSize * (at[o].page - 1) \in Nat
          BY <5>1
        <5> QED BY <5>2 DEF StickyInv, HasRead, n
      <4>2. at[o].op = "list" =>
              /\ PageSize * (at[o].page - 1) <= n + 1
              /\ \A i \in 1..(PageSize * (at[o].page - 1)) : i \in 1..n
        BY <1>1, <4>1
      <4>3. at[o].op = "create" => \A i \in 1..(n + 1) : at[o].key \notin comments'[i].marks
        <5>1. at[o].op = "create" => \A i \in 1..n : at[o].key \notin comments[i].marks
          BY DEF StickyInv, HasRead, n
        <5> QED BY <1>4, <1>6, <2>2, <5>1
      <4>4. \A i, j \in 1..(n + 1) :
              Target(o) # 0 /\ comments'[j].id = Target(o) /\ i < j => at[o].key \notin comments'[i].marks
        <5> SUFFICES ASSUME NEW i \in 1..(n + 1), NEW j \in 1..(n + 1), Target(o) # 0,
                            comments'[j].id = Target(o), i < j
                     PROVE  at[o].key \notin comments'[i].marks
          OBVIOUS
        <5>1. i \in 1..n /\ j \in 1..n
          BY <1>1, <3>3
        <5> QED BY <1>4, <5>1 DEF StickyInv, HasRead, n
      <4>5. at[o].op = "list" /\ at[o].found = 0 =>
              \A i \in 1..(PageSize * (at[o].page - 1)) : at[o].key \notin comments'[i].marks
        BY <1>4, <4>2 DEF StickyInv, HasRead, n
      <4> QED
        BY <1>4, <2>2, <3>1, <4>2, <4>3, <4>4, <4>5 DEF HasRead
    <3> QED BY <3>1, <3>4, <3>5
  <2> QED BY <2>1, <2>2
<1>10. OneUpsert'
  BY <1>9 DEF StickyInv, OneUpsert
<1>11. StickyIsFirst'
  <2> SUFFICES ASSUME NEW k \in Key \ shaken, NEW i \in 1..(n + 1), NEW j \in 1..(n + 1), i < j,
                      k \in comments'[i].marks, k \in comments'[j].marks, comments'[j].sticky
               PROVE  FALSE
    BY <1>4 DEF StickyIsFirst
  <2>1. i \in 1..n /\ comments'[i] = comments[i]
    BY <1>1, <1>4
  <2>2. CASE j \in 1..n
    BY <1>4, <2>1, <2>2 DEF StickyInv, StickyIsFirst, n
  <2>3. CASE j = n + 1
    BY <1>4, <2>1, <2>3 DEF n
  <2> QED BY <1>4, <1>6, <2>2, <2>3
<1> QED
  BY <1>5, <1>8, <1>9, <1>10, <1>11 DEF StickyInv

(* A deletion keeps the order of the rest, and shakes every key that is being *)
(* upserted.                                                                  *)
LEMMA DeleteStep ==
  ASSUME StickyInv, NEW d \in 1..Len(comments), PersonDeletes(d)
  PROVE  StickyInv'
<1> DEFINE n == Len(comments)
           old(i) == IF i < d THEN i ELSE i + 1
<1>1. /\ comments' = RemoveAt(comments, d) /\ comments \in Seq(Comment)
      /\ shaken' = shaken \cup UNION {Upserting(p) : p \in Pipeline}
      /\ UNCHANGED <<kind, nextId, at>>
  BY DEF PersonDeletes, StickyInv, StickyTypeOK
<1>2. /\ comments' \in Seq(Comment) /\ Len(comments') = n - 1
      /\ \A i \in 1..(n - 1) : comments'[i] = IF i < d THEN comments[i] ELSE comments[i + 1]
  BY <1>1, Removed
<1>3. n \in Nat
  BY <1>1
<1> HIDE DEF n
<1>4. \A i \in 1..Len(comments') : old(i) \in 1..n /\ comments'[i] = comments[old(i)]
  BY <1>2, <1>3
<1>5. \A i, j \in 1..Len(comments') : /\ old(i) = old(j) => i = j
                                      /\ i < j => old(i) < old(j)
  BY <1>2, <1>3
<1> HIDE DEF old
<1>6. \A p \in Pipeline : /\ Target(p)' = Target(p) /\ Upserting(p)' = Upserting(p)
                          /\ Upserting(p) \subseteq Key
                          /\ Upserting(p) # {} => Upserting(p) = {at[p].key}
  BY <1>1 DEF Target, Upserting, StickyInv, StickyTypeOK, Call
<1>7. StickyTypeOK'
  BY <1>1, <1>2, <1>6 DEF StickyInv, StickyTypeOK
<1>8. Numbered'
  <2>1. \A i \in 1..n : comments[i].id <= nextId
    BY DEF StickyInv, Numbered, n
  <2>2. \A i, j \in 1..n : comments[i].id = comments[j].id => i = j
    BY DEF StickyInv, Numbered, n
  <2>3. \A i \in 1..Len(comments') : comments'[i].id <= nextId'
    BY <1>1, <1>4, <2>1
  <2>4. ASSUME NEW i \in 1..Len(comments'), NEW j \in 1..Len(comments'), comments'[i].id = comments'[j].id
        PROVE  i = j
    <3>1. old(i) = old(j)
      BY <1>4, <2>2, <2>4
    <3> QED BY <1>5, <3>1
  <2> QED BY <2>3, <2>4 DEF Numbered
<1>9. OneUpsert'
  BY <1>1, <1>6 DEF StickyInv, OneUpsert
<1>10. StickyIsFirst'
  <2> SUFFICES ASSUME NEW k \in Key \ shaken', NEW i \in 1..Len(comments'),
                      NEW j \in 1..Len(comments'), i < j,
                      k \in comments'[i].marks, k \in comments'[j].marks
               PROVE  ~comments'[j].sticky
    BY DEF StickyIsFirst
  <2> QED
    BY <1>1, <1>4, <1>5 DEF StickyInv, StickyIsFirst, n
<1>11. ASSUME NEW p \in Pipeline PROVE FoundMarked(p)' /\ HasRead(p)'
  <2>1. Upserting(p) # {} => at[p].key \in shaken'
    BY <1>1, <1>6
  <2>2. HasRead(p)'
    BY <1>1, <1>6, <2>1 DEF HasRead
  <2>3. FoundMarked(p)'
    BY <1>1, <1>4, <1>6 DEF StickyInv, FoundMarked, n
  <2> QED BY <2>2, <2>3
<1> QED
  BY <1>7, <1>8, <1>9, <1>10, <1>11 DEF StickyInv

(* Each step of upserts, of EnsurePR and of people keeps the invariant. *)
LEMMA StickyStep == StickyInv /\ PullInv /\ [StickyNext \/ PullNext]_forgeVars => StickyInv'
<1> SUFFICES ASSUME StickyInv, PullInv, [StickyNext \/ PullNext]_forgeVars PROVE StickyInv'
  OBVIOUS
<1>1. ASSUME NEW p \in Pipeline, NEW call \in Call, Go(p, call),
             call.op \notin {"list", "update", "create"}, UNCHANGED <<kind, comments, nextId, shaken>>
      PROVE  StickyInv'
  BY <1>1, LeaveStep
<1>2. Idle \in Call /\ Idle.op = "idle"
  BY DEF Idle, Call
<1>3. CASE StickyNext
  <2>1. ASSUME NEW p \in Pipeline, NEW k \in Key, UpsertSticky(p, k) PROVE StickyInv'
    BY <2>1, UpsertStep
  <2>2. ASSUME NEW p \in Pipeline, ListIssueComments(p) PROVE StickyInv'
    BY <2>2, ListStep
  <2>3. ASSUME NEW p \in Pipeline, UpdateIssueComment(p) PROVE StickyInv'
    BY <2>3, UpdateStep
  <2>4. ASSUME NEW p \in Pipeline, UpsertFails(p) PROVE StickyInv'
    BY <1>1, <1>2, <2>4 DEF UpsertFails
  <2>5. ASSUME NEW p \in Pipeline, CreateIssueComment(p) PROVE StickyInv'
    <3> DEFINE k == at[p].key
    <3>1. /\ at[p].op = "create" /\ Post({k}, TRUE) /\ at' = [at EXCEPT ![p] = Idle]
          /\ UNCHANGED <<kind, shaken>>
      BY <2>5 DEF CreateIssueComment, Go
    <3>2. k \in Key /\ Upserting(p) = {k}
      BY <3>1 DEF StickyInv, StickyTypeOK, Call, Upserting
    <3>3. at' \in [Pipeline -> Call] /\ at'[p].op = "idle" /\ \A o \in Pipeline : o # p => at'[o] = at[o]
      BY <1>2, <3>1 DEF StickyInv, StickyTypeOK
    <3>4. \A o \in Pipeline : o # p /\ at[o].op = "create" /\ at[o].key \notin shaken => at[o].key # k
      BY <3>2 DEF StickyInv, OneUpsert, Upserting
    <3>5. \A c \in {k} \ shaken, i \in 1..Len(comments) : c \notin comments[i].marks
      BY <3>1, <3>2 DEF StickyInv, HasRead
    <3> HIDE DEF k
    <3>6. {k} \in {{}} \cup {{c} : c \in Key}
      BY <3>2
    <3>7. \A o \in Pipeline :
            at'[o].op \notin {"list", "update", "create"} \/
            (at'[o] = at[o] /\ (at[o].op = "create" /\ at[o].key \notin shaken => at[o].key \notin {k}))
      BY <3>3, <3>4
    <3> QED
      BY <3>1, <3>3, <3>5, <3>6, <3>7, PostStep
  <2>6. CASE PersonComments
    <3>1. PICK marks \in {{}} \cup {comments[i].marks : i \in 1..Len(comments)} : Post(marks, FALSE)
      BY <2>6 DEF PersonComments
    <3>2. UNCHANGED <<kind, shaken, at>>
      BY <2>6 DEF PersonComments
    <3>3. at' \in [Pipeline -> Call] /\ comments \in Seq(Comment)
      BY <3>2 DEF StickyInv, StickyTypeOK
    <3>4. marks \in {{}} \cup {{k} : k \in Key}
      <4>1. \A i \in 1..Len(comments) : comments[i] \in Comment
        BY <3>3
      <4> QED BY <4>1 DEF Comment
    <3>5. \A o \in Pipeline : at[o].op = "create" /\ at[o].key \notin shaken => at[o].key \notin marks
      BY DEF StickyInv, HasRead, Upserting
    <3> QED
      BY <3>1, <3>2, <3>3, <3>4, <3>5, PostStep
  <2>7. ASSUME NEW i \in 1..Len(comments), PersonDeletes(i) PROVE StickyInv'
    BY <2>7, DeleteStep
  <2> QED
    BY <1>3, <2>1, <2>2, <2>3, <2>4, <2>5, <2>6, <2>7 DEF StickyNext
<1>4. CASE PullNext
  <2>1. ASSUME NEW p \in Pipeline, NEW h \in Branch, EnsurePR(p, h) PROVE StickyInv'
    <3>1. [op |-> "find", head |-> h] \in Call
      BY DEF Call
    <3> QED BY <1>1, <2>1, <3>1 DEF EnsurePR
  <2>2. ASSUME NEW p \in Pipeline, Adopt(p) \/ CreateFails(p) \/ Create(p) PROVE StickyInv'
    BY <1>1, <1>2, <2>2 DEF Adopt, CreateFails, Create
  <2>3. ASSUME NEW p \in Pipeline, NotFound(p) \/ FindFails(p) PROVE StickyInv'
    <3>1. at[p].op = "find" /\ Go(p, [op |-> "open", head |-> at[p].head])
          /\ UNCHANGED <<kind, comments, nextId, shaken>>
      BY <2>3 DEF NotFound, FindFails
    <3>2. [op |-> "open", head |-> at[p].head] \in Call
      BY <3>1 DEF PullInv, Call
    <3> QED BY <1>1, <3>1, <3>2
  <2>4. ASSUME NEW p \in Pipeline, Conflict(p) PROVE StickyInv'
    <3>1. [op |-> "conflict"] \in Call
      BY DEF Call
    <3> QED BY <1>1, <2>4, <3>1 DEF Conflict
  <2>5. ASSUME UNCHANGED <<kind, comments, nextId, at, shaken>> PROVE StickyInv'
    <3>1. StickyTypeOK' /\ Numbered' /\ StickyIsFirst'
      BY <2>5 DEF StickyInv, StickyTypeOK, Numbered, StickyIsFirst
    <3>2. \A o \in Pipeline : FoundMarked(o)' /\ HasRead(o)' /\ Upserting(o)' = Upserting(o)
      BY <2>5, KeepsKnowledge DEF StickyInv, Upserting
    <3> QED BY <2>5, <3>1, <3>2 DEF StickyInv, OneUpsert
  <2> QED
    BY <1>4, <2>1, <2>2, <2>3, <2>4, <2>5 DEF PullNext, PersonOpens, PersonCloses
<1>5. CASE UNCHANGED forgeVars
  <2>1. UNCHANGED <<kind, comments, nextId, at, shaken>>
    BY <1>5 DEF forgeVars
  <2>2. StickyTypeOK' /\ Numbered' /\ StickyIsFirst'
    BY <2>1 DEF StickyInv, StickyTypeOK, Numbered, StickyIsFirst
  <2>3. \A o \in Pipeline : FoundMarked(o)' /\ HasRead(o)' /\ Upserting(o)' = Upserting(o)
    BY <2>1, KeepsKnowledge DEF StickyInv, Upserting
  <2> QED BY <2>1, <2>2, <2>3 DEF StickyInv, OneUpsert
<1> QED
  BY <1>3, <1>4, <1>5

(* For any pipelines, keys and page sizes, and over as many pages as there    *)
(* are, a key that no two upserts shared and no deletion shook has one sticky *)
(* comment (sticky.go UpsertSticky).                                          *)
THEOREM StickyIsUnique == ForgeSpec => []OneSticky
<1>1. ForgeInit => PullInv
  BY DEF ForgeInit, PullInv, Idle
<1>2. ForgeInit => StickyInv
  <2> SUFFICES ASSUME ForgeInit PROVE StickyInv
    OBVIOUS
  <2>1. /\ comments = <<>> /\ nextId = 0 /\ shaken = {} /\ kind \in {"github", "gitea"}
        /\ \A p \in Pipeline : at[p] = Idle
        /\ at \in [Pipeline -> Call]
    BY DEF ForgeInit, Idle, Call
  <2>2. \A p \in Pipeline : Upserting(p) = {} /\ Target(p) = 0
    BY <2>1 DEF Upserting, Target, Idle
  <2>3. StickyTypeOK /\ Numbered /\ OneUpsert /\ StickyIsFirst
    BY <2>1, <2>2 DEF StickyTypeOK, Numbered, OneUpsert, StickyIsFirst
  <2>4. \A p \in Pipeline : FoundMarked(p) /\ HasRead(p)
    BY <2>1, <2>2 DEF FoundMarked, HasRead
  <2> QED BY <2>3, <2>4 DEF StickyInv
<1>3. StickyInv => OneSticky
  <2> SUFFICES ASSUME StickyInv, NEW k \in Key \ shaken,
                      NEW i \in 1..Len(comments), NEW j \in 1..Len(comments),
                      comments[i].sticky, comments[j].sticky,
                      k \in comments[i].marks \cap comments[j].marks
               PROVE  i = j
    BY DEF OneSticky
  <2>1. ~(i < j) /\ ~(j < i)
    BY DEF StickyInv, StickyIsFirst
  <2> QED BY <2>1
<1> QED
  BY <1>1, <1>2, <1>3, PullStep, StickyStep, PTL DEF ForgeSpec
=============================================================================
