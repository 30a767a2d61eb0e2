---------------------------- MODULE StreamEvents ----------------------------
(* What Runner.send (pkg/agentloop/runner.go) collects from one stream of the *)
(* gateway, and the contract it may rely on.                                  *)
EXTENDS Sequences, SequencesExt

Has(evs, kinds) == \E i \in 1..Len(evs) : evs[i].kind \in kinds

(* The contract: one finish reason, and after it nothing but the usage frame  *)
(* (which is no event) - or the stream breaking.                              *)
KeepsContract(evs, e) ==
  Has(evs, {"ModelDone"}) => /\ e.kind = "ModelError"
                             /\ Last(evs).kind = "ModelDone"
=============================================================================
