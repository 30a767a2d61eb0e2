------------------------------- MODULE MCAuth -------------------------------
(* Authentication on a small instance: the gates of a route, outbound tokens, *)
(* and the websocket handshake.  They have no state in common, so a behaviour *)
(* uses one of them.                                                          *)
EXTENDS AuthGates, AudienceTokens, WsHub

CONSTANTS s1, s2, admin

(* One check of a token may fail at a time. *)
Valid == [signed |-> TRUE, iss |-> TRUE, aud |-> TRUE, claims |-> TRUE]

Flaws == {Valid} \cup {[Valid EXCEPT ![f] = FALSE] : f \in DOMAIN Valid}

MCTokens ==
  {f @@ [scopes |-> s, perms |-> p] :
     f \in Flaws, s \in SUBSET {API, Internal, s1, s2}, p \in SUBSET Permission}

MCConfigs ==
  {[complete |-> TRUE, known |-> {s1, s2}, published |-> {s1, s2}],
   [complete |-> TRUE, known |-> {s1}, published |-> {s1}],
   [complete |-> FALSE, known |-> {}, published |-> {}]}

VARIABLE uses

vars == <<uses, gateVars, tokenVars, hubVars>>

Init ==
  /\ uses \in {"gates", "tokens", "hub"}
  /\ GatesInit /\ TokensInit /\ HubInit
  /\ uses # "gates" => ~config.complete
  /\ uses # "hub" => verifier

Next ==
  /\ \/ uses = "gates" /\ GatesNext /\ UNCHANGED <<tokenVars, hubVars>>
     \/ uses = "tokens" /\ TokensNext /\ UNCHANGED <<gateVars, hubVars>>
     \/ uses = "hub" /\ HubNext /\ UNCHANGED <<gateVars, tokenVars>>
  /\ UNCHANGED uses

Spec == Init /\ [][Next]_vars
=============================================================================
