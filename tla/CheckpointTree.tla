--------------------------- MODULE CheckpointTree ---------------------------
(***************************************************************************)
(* What the checkpoint files of pkg/agentloop/checkpoint.go promise,       *)
(* without the runner that writes them: a tree that only grows, one        *)
(* checkpoint at a time.  A checkpoint either opens a conversation (turn   *)
(* 1, no previous hash) or follows one that is already on disk: it names   *)
(* that one's hash, counts one turn more and carries its whole             *)
(* conversation as a prefix.  Module Runner implements it.                 *)
(***************************************************************************)
EXTENDS Integers, Sequences, SequencesExt

VARIABLE tree   \* the checkpoints on disk

NoHash == <<>>

(* messagesKey: role, tool call id, and of each call its id, the name and     *)
(* content being data that is not modelled.  The call's arguments are NOT in  *)
(* the key.                                                                   *)
messagesKey(msgs) ==
  [i \in 1..Len(msgs) |->
     <<msgs[i].role, msgs[i].callID,
       [j \in 1..Len(msgs[i].calls) |-> msgs[i].calls[j].id]>>]

(* computeHash: SHA-256 is taken to be injective, so the hash is its input. *)
computeHash(cp) == <<cp.turn, cp.prevHash, messagesKey(cp.messages)>>

Opens(cp) == cp.turn = 1 /\ cp.prevHash = NoHash

Follows(cp, prev) ==
  /\ cp.turn = prev.turn + 1
  /\ cp.prevHash = computeHash(prev)
  /\ IsPrefix(prev.messages, cp.messages)

Init == tree = {}

Add(cp) ==
  /\ Opens(cp) \/ \E prev \in tree : Follows(cp, prev)
  /\ tree' = tree \cup {cp}

Next == \E cp \in tree' : Add(cp)

Spec == Init /\ [][Next]_tree

(* Every checkpoint on disk can be walked back: it opens a conversation or    *)
(* follows another that is on disk too, so no link of the chain dangles.      *)
NoDanglingLink ==
  \A cp \in tree : Opens(cp) \/ \E prev \in tree : Follows(cp, prev)
=============================================================================
