----------------------------- MODULE MCAgentLoop -----------------------------
(* Module AgentLoop under any caller, on a small instance. *)
EXTENDS AgentLoop

CONSTANTS MaxMessages,  \* bound: length of the conversation
          MaxPending    \* bound: calls outstanding at once

Bounded ==
  /\ Len(messages') <= MaxMessages
  /\ Len(pending') <= MaxPending

MCNext == \E e \in Event : Step(e) /\ Bounded

MCSpec == LoopInit /\ [][MCNext]_loopVars
=============================================================================
