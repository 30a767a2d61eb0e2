----------------------------- MODULE RedisQueue -----------------------------
(***************************************************************************)
(* pkg/queue/queue.go: a queue is a Redis list.  Push encodes and RPUSHes; *)
(* Pop LPOPs and then decodes, so an item is off the list before it is in  *)
(* anybody's hands.  Every push has a number, its place in the order of    *)
(* the RPUSHes; of a value only whether its bytes decode is kept.          *)
(***************************************************************************)
EXTENDS Integers, Sequences, SequencesExt, FiniteSetsExt

CONSTANTS Reader,    \* processes that pop
          MaxPushes  \* bound: pushes

Entry == [n : 1..MaxPushes, decodes : BOOLEAN]

VARIABLES
  list,    \* the Redis list
  pushes,  \* history: RPUSHes so far
  hand,    \* hand[r]: what LPOP gave r and Pop has not yet returned
  got,     \* history: got[r] is what Pop returned to r, by number
  lost     \* history: popped, and returned to nobody

queueVars == <<list, pushes, hand, got, lost>>

QueueInit ==
  /\ list = <<>> /\ pushes = 0
  /\ hand = [r \in Reader |-> <<>>]
  /\ got = [r \in Reader |-> <<>>]
  /\ lost = {}

(* Mutant of RPush: items go in at the end they are taken from. *)
LPush(e) == list' = <<e>> \o list

RPush(e) == list' = Append(list, e)

(* A value that cannot be encoded is refused before RPUSH and changes         *)
(* nothing.  Whether the answer of RPUSH arrives does not matter here: a      *)
(* caller that pushes again makes a new push.                                 *)
Push(decodes) ==
  /\ pushes < MaxPushes
  /\ pushes' = pushes + 1
  /\ RPush([n |-> pushes', decodes |-> decodes])
  /\ UNCHANGED <<hand, got, lost>>

(* LPOP: the first entry, or redis.Nil when there is none. *)
LPop(r) ==
  /\ hand[r] = <<>> /\ list # <<>>
  /\ hand' = [hand EXCEPT ![r] = <<Head(list)>>]
  /\ list' = Tail(list)
  /\ UNCHANGED <<pushes, got, lost>>

PopEmpty(r) ==
  /\ hand[r] = <<>> /\ list = <<>>
  /\ UNCHANGED queueVars

(* Pop returns the value. *)
Popped(r) ==
  /\ hand[r] # <<>> /\ hand[r][1].decodes
  /\ got' = [got EXCEPT ![r] = Append(@, hand[r][1].n)]
  /\ hand' = [hand EXCEPT ![r] = <<>>]
  /\ UNCHANGED <<list, pushes, lost>>

(* The entry does not decode, or the answer of LPOP or the reader is lost:    *)
(* nobody gets it.                                                            *)
PopFails(r) ==
  /\ hand[r] # <<>>
  /\ lost' = lost \cup {hand[r][1].n}
  /\ hand' = [hand EXCEPT ![r] = <<>>]
  /\ UNCHANGED <<list, pushes, got>>

(* Len *)
Length == Len(list)

QueueNext ==
  \/ \E decodes \in BOOLEAN : Push(decodes)
  \/ \E r \in Reader : LPop(r) \/ PopEmpty(r) \/ Popped(r) \/ PopFails(r)

QueueSpec == QueueInit /\ [][QueueNext]_queueVars

Listed  == {list[i].n : i \in 1..Length}
Held(r) == {hand[r][i].n : i \in 1..Len(hand[r])}
Got(r)  == ToSet(got[r])

(* Every push is in one place: on the list, in one reader's hands, returned   *)
(* once, or lost; and each reader, like the list, has pushes in their order.  *)
(* Delivery is at most once (queue.go Pop).                                   *)
AtMostOnceInOrder ==
  LET Increasing(s) == \A i, j \in 1..Len(s) : i < j => s[i] < s[j]
  IN  /\ Increasing([i \in 1..Length |-> list[i].n])
      /\ \A r \in Reader : Increasing(got[r])
      /\ 1..pushes = Listed \cup lost \cup UNION {Held(r) \cup Got(r) : r \in Reader}
      /\ Listed \cap lost = {}
      /\ \A r \in Reader :
           /\ Held(r) \cap Got(r) = {}
           /\ (Held(r) \cup Got(r)) \cap (Listed \cup lost) = {}
           /\ \A q \in Reader \ {r} : (Held(r) \cup Got(r)) \cap (Held(q) \cup Got(q)) = {}
=============================================================================
