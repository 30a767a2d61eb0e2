--------------------------- MODULE StreamContract ---------------------------
(***************************************************************************)
(* What a stream promises Runner.send, without the goroutine behind it: a  *)
(* channel that is open, delivers events that keep the contract, and       *)
(* closes for good.  Module ChatStream implements it, and module Runner    *)
(* is checked against every stream that keeps it.                          *)
(***************************************************************************)
EXTENDS StreamEvents

VARIABLES delivered,  \* the events so far
          open        \* whether the channel is open

EventKind == {"ModelText", "ModelReasoning", "ModelToolCall", "ModelDone", "ModelError"}

Init == delivered = <<>> /\ open = TRUE

Deliver(e) ==
  /\ open
  /\ KeepsContract(delivered, e)
  /\ delivered' = Append(delivered, e)
  /\ UNCHANGED open

Close == open /\ open' = FALSE /\ UNCHANGED delivered

Next == Close \/ \E k \in EventKind : Deliver([kind |-> k])

Spec == Init /\ [][Next]_<<delivered, open>>
=============================================================================
