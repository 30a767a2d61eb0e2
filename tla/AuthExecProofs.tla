--------------------------- MODULE AuthExecProofs ---------------------------
(***************************************************************************)
(* Proofs about two components that share nothing.  Authentication, for    *)
(* any number of gates, tokens, goroutines, audiences and subprotocols:    *)
(* what a served request has shown, what an empty scope surface means,     *)
(* whom a token is for and who owns a socket.  Scripts and their registry, *)
(* for any number of shells and process ids: an entry is that of a run in  *)
(* progress, and only a person's kill is reported as one.                  *)
(***************************************************************************)
EXTENDS AuthGates, AudienceTokens, WsHub, ExecRun, SequenceLemmas

-----------------------------------------------------------------------------
(* Gates *)

(* A copy of the claims: the token itself, or one that has expired since.     *)
SameClaims(t, u) ==
  /\ t.scopes = u.scopes /\ t.perms = u.perms
  /\ t.iss = u.iss /\ t.aud = u.aud /\ t.claims = u.claims
  /\ t.signed => u.signed

GatesTypeOK ==
  /\ config \in Configs
  /\ phase \in {"starting", "refused", "wiring", "idle", "checking", "served", "401", "403"}
  /\ chain \in Seq(Gate) /\ seen \subseteq Scope
  /\ token \in Token \cup {NoToken} /\ arrived \in Token \cup {NoToken}
  /\ context \in Token \cup {NoToken}
  /\ at \in Nat \ {0}

(* What is known of the gates a request has passed.  Claims may be left in    *)
(* the context only by a gate, so the first gate decodes; they and the token  *)
(* are those that arrived, whatever has expired since.                        *)
PassedGates ==
  phase \in {"checking", "served"} =>
    /\ at <= Len(chain) + 1
    /\ at = 1 => context = NoToken
    /\ at > 1 => /\ decodeToken(arrived)
                 /\ chain[1].by = "verifier" => arrived.iss
    /\ \A i \in 1..(at - 1) : Allows(chain[i], arrived)
    /\ token = NoToken <=> arrived = NoToken
    /\ token # NoToken => SameClaims(token, arrived)
    /\ context # NoToken => arrived # NoToken /\ SameClaims(context, arrived)
    /\ phase = "served" => at > Len(chain)

(* Every scope counted as gated has a gate. *)
SeenAreGated ==
  \A s \in seen : \E i \in 1..Len(chain) : IsScopeGate(chain[i]) /\ chain[i].scope = s

ServesBehindAGate ==
  phase \in {"idle", "checking", "served", "401", "403"} => chain # <<>>

GatesInv == GatesTypeOK /\ PassedGates /\ SeenAreGated /\ ServesBehindAGate

(* Claims that agree are allowed alike: Allows looks at scopes and            *)
(* permissions only.                                                          *)
LEMMA AllowsAlike ==
  ASSUME NEW g, NEW t, NEW u, SameClaims(t, u), Allows(g, t)
  PROVE  Allows(g, u)
  BY DEF SameClaims, Allows, isTokenAllowedAccess

(* Wiring adds gates, and counts the scopes it has added. *)
LEMMA WireStep ==
  ASSUME GatesInv, NEW g \in Gate, Wire(g)
  PROVE  GatesInv'
<1> USE DEF GatesInv, GatesTypeOK
<1>1. /\ Len(chain') = Len(chain) + 1 /\ chain' \in Seq(Gate) /\ chain' # <<>>
      /\ \A i \in 1..Len(chain) : chain'[i] = chain[i]
      /\ chain'[Len(chain) + 1] = g
  BY DEF Wire
<1>2. phase' = "wiring"
  BY DEF Wire
<1>3. IsScopeGate(g) => g.scope \in Scope
  BY GatesAssumption DEF Wire
<1>4. seen' \subseteq Scope
  BY <1>3 DEF Wire, markGated
<1>5. GatesTypeOK'
  BY <1>1, <1>4 DEF Wire
<1>6. SeenAreGated'
  BY <1>1 DEF SeenAreGated, Wire, markGated
<1> QED
  BY <1>1, <1>2, <1>5, <1>6 DEF PassedGates, ServesBehindAGate

(* A gate that calls Next has decoded the token or found claims that an       *)
(* earlier gate decoded, and allows them.                                     *)
LEMMA PassGateStep ==
  ASSUME GatesInv, PassGate
  PROVE  GatesInv'
<1> USE DEF GatesInv, GatesTypeOK
<1> DEFINE g == chain[at]
<1>1. /\ phase = "checking" /\ at <= Len(chain) /\ at' = at + 1 /\ phase' = phase
      /\ UNCHANGED <<config, chain, seen, token, arrived>>
      /\ Decodes(g) /\ Allows(g, Claims(g)) /\ g \in Gate
  BY DEF PassGate, Checking
<1>2. Claims(g) # NoToken /\ SameClaims(Claims(g), arrived) /\ arrived # NoToken
      /\ Claims(g) \in Token
  BY <1>1 DEF PassedGates, Claims, Decodes, DecodeToken, decodeToken
<1>3. Allows(g, arrived)
  BY <1>1, <1>2, AllowsAlike
<1>4. decodeToken(arrived) /\ (chain[1].by = "verifier" => arrived.iss)
  <2>1. CASE at = 1
    <3>1. context = NoToken /\ SameClaims(token, arrived)
      BY <1>1, <2>1 DEF PassedGates, Decodes, DecodeToken, decodeToken
    <3> QED
      BY <1>1, <1>2, <2>1, <3>1 DEF Decodes, DecodeToken, decodeToken, SameClaims
  <2>2. CASE at > 1
    BY <1>1, <2>2 DEF PassedGates
  <2> QED BY <2>1, <2>2
<1>5. context' \in {context, Claims(g)}
  BY DEF PassGate
<1>6. GatesTypeOK'
  BY <1>1, <1>2, <1>5
<1>7. PassedGates'
  <2>1. \A i \in 1..at : Allows(chain[i], arrived)
    <3> TAKE i \in 1..at
    <3>1. CASE i = at
      BY <1>3, <3>1
    <3>2. CASE i # at
      BY <1>1, <3>2 DEF PassedGates
    <3> QED BY <3>1, <3>2
  <2>2. context' # NoToken => SameClaims(context', arrived')
    BY <1>1, <1>2, <1>5 DEF PassedGates
  <2>3. decodeToken(arrived)' /\ at' > 1 /\ at' <= Len(chain') + 1
    BY <1>1, <1>4 DEF decodeToken
  <2> QED
    BY <1>1, <1>2, <1>4, <2>1, <2>2, <2>3 DEF PassedGates, SameClaims
<1> QED
  BY <1>1, <1>6, <1>7 DEF SeenAreGated, ServesBehindAGate

(* An expired token keeps its claims. *)
LEMMA ExpireStep ==
  ASSUME GatesInv, Expire
  PROVE  GatesInv'
<1> USE DEF GatesInv, GatesTypeOK
<1>1. /\ phase = "checking" /\ token \in Token
      /\ UNCHANGED <<config, phase, chain, seen, arrived, context, at>>
      /\ token' = [token EXCEPT !.signed = FALSE]
  BY DEF Expire
<1>2. token' \in Token /\ token' # NoToken /\ SameClaims(token', token)
  BY <1>1, GatesAssumption DEF Token, SameClaims
<1>3. SameClaims(token', arrived)
  BY <1>1, <1>2, GatesAssumption DEF PassedGates, SameClaims
<1> QED
  BY <1>1, <1>2, <1>3, GatesAssumption DEF PassedGates, SeenAreGated, ServesBehindAGate, SameClaims, decodeToken

(* A refusal changes the phase only. *)
LEMMA AnswerStep ==
  ASSUME GatesInv, Checking, NEW code \in {"401", "403"}, Answer(code)
  PROVE  GatesInv'
<1>1. /\ phase' \in {"401", "403"} /\ chain # <<>> /\ chain' = chain
      /\ UNCHANGED <<config, seen, token, arrived, context, at>>
  BY DEF Answer, Checking, GatesInv, ServesBehindAGate
<1>2. GatesTypeOK'
  BY <1>1 DEF GatesInv, GatesTypeOK
<1>3. PassedGates' /\ SeenAreGated' /\ ServesBehindAGate'
  BY <1>1 DEF GatesInv, PassedGates, SeenAreGated, ServesBehindAGate
<1> QED
  BY <1>2, <1>3 DEF GatesInv

(* Every step of a service keeps the invariant. *)
LEMMA GatesStep == GatesInv /\ [GatesNext]_gateVars => GatesInv'
<1> SUFFICES ASSUME GatesInv, [GatesNext]_gateVars PROVE GatesInv'
  OBVIOUS
<1> USE DEF GatesInv, GatesTypeOK, PassedGates, SeenAreGated, ServesBehindAGate
<1>1. CASE Boot
  BY <1>1 DEF Boot
<1>2. CASE Listen
  BY <1>2 DEF Listen
<1>3. ASSUME NEW g \in Gate, Panic(g) PROVE GatesInv'
  BY <1>3 DEF Panic
<1>4. ASSUME NEW g \in Gate, Wire(g) PROVE GatesInv'
  BY <1>4, WireStep
<1>5. ASSUME NEW t \in Tokens \cup {NoToken}, Arrive(t) PROVE GatesInv'
  <2>1. t \in Token \cup {NoToken}
    BY GatesAssumption
  <2>2. at' = 1 /\ Len(chain') \in Nat
    BY <1>5 DEF Arrive
  <2> QED
    BY <1>5, <2>1, <2>2 DEF Arrive, SameClaims
<1>6. CASE Unauthorized
  BY <1>6, AnswerStep DEF Unauthorized
<1>7. CASE Forbidden
  BY <1>7, AnswerStep DEF Forbidden
<1>8. CASE PassGate
  BY <1>8, PassGateStep
<1>9. CASE Serve
  BY <1>9 DEF Serve, Answer, decodeToken, SameClaims
<1>10. CASE Expire
  BY <1>10, ExpireStep
<1>11. CASE UNCHANGED gateVars
  BY <1>11 DEF gateVars, decodeToken, SameClaims
<1> QED
  BY <1>1, <1>2, <1>3, <1>4, <1>5, <1>6, <1>7, <1>8, <1>9, <1>10, <1>11 DEF GatesNext

(* A service starts without gates and without a request. *)
LEMMA GatesStart == GatesInit => GatesInv
  BY GatesAssumption DEF GatesInit, GatesInv, GatesTypeOK, PassedGates, SeenAreGated, ServesBehindAGate

(* For any number and order of gates of both kinds and for any tokens, a      *)
(* handler runs only for a token that held when it was decoded and that each  *)
(* gate of the route allows (verifier.go, require_scope.go,                   *)
(* service_client.go).                                                        *)
THEOREM ServedAsGated == GatesSpec => []ReachedAsGated
<1>1. GatesInv => ReachedAsGated
  <2> SUFFICES ASSUME GatesInv, phase = "served"
               PROVE  /\ decodeToken(arrived)
                      /\ chain[1].by = "verifier" => arrived.iss
                      /\ \A i \in 1..Len(chain) : Allows(chain[i], arrived)
    BY DEF ReachedAsGated
  <2>1. Len(chain) \in Nat \ {0} /\ at = Len(chain) + 1
    BY DEF GatesInv, GatesTypeOK, PassedGates, ServesBehindAGate
  <2> QED
    BY <2>1 DEF GatesInv, GatesTypeOK, PassedGates
<1> QED
  BY <1>1, GatesStart, GatesStep, PTL DEF GatesSpec

(* A service whose ScopeSurface is empty asks for every scope it publishes:   *)
(* no handler runs for a token without it (require_scope.go ScopeSurface).    *)
THEOREM EmptySurfaceIsSafe == GatesSpec => []EmptySurfaceProtects
<1>1. GatesInv => EmptySurfaceProtects
  <2> SUFFICES ASSUME GatesInv, SurfaceEmpty, NEW s \in config.published
               PROVE  /\ \E i \in 1..Len(chain) : IsScopeGate(chain[i]) /\ chain[i].scope = s
                      /\ phase = "served" => s \in arrived.scopes
    BY DEF EmptySurfaceProtects
  <2>1. config.published \ GatedScopes = {}
    BY DEF SurfaceEmpty, ScopeSurface
  <2>2. PICK i \in 1..Len(chain) : IsScopeGate(chain[i]) /\ chain[i].scope = s
    BY <2>1 DEF GatedScopes, GatesInv, SeenAreGated
  <2>3. phase = "served" => Allows(chain[i], arrived)
    BY <2>2 DEF GatesInv, GatesTypeOK, PassedGates
  <2> QED
    BY <2>2, <2>3 DEF Allows
<1> QED
  BY <1>1, GatesStart, GatesStep, PTL DEF GatesSpec

-----------------------------------------------------------------------------
(* Outbound tokens *)

(* A source names the audience it is kept under, and a goroutine that asks    *)
(* has a source.                                                              *)
SourcesInv ==
  /\ asks \in [Caller -> Audience \cup {NoAudience}]
  /\ gets \in [Caller -> Audience \cup {NoAudience}]
  /\ DOMAIN sources \subseteq Audience
  /\ \A a \in DOMAIN sources : sources[a] = a
  /\ \A c \in Caller : asks[c] # NoAudience => asks[c] \in DOMAIN sources

(* A new source leaves the others as they are. *)
LEMMA SourcesStep == SourcesInv /\ [TokensNext]_tokenVars => SourcesInv'
<1> SUFFICES ASSUME SourcesInv, [TokensNext]_tokenVars PROVE SourcesInv'
  OBVIOUS
<1> USE DEF SourcesInv
<1>1. ASSUME NEW c \in Caller, Refuse(c) \/ MintFails(c) PROVE SourcesInv'
  BY <1>1 DEF Refuse, MintFails, tokenVars
<1>2. ASSUME NEW c \in Caller, GetToken(c) PROVE SourcesInv'
  BY <1>2 DEF GetToken
<1>3. ASSUME NEW c \in Caller, NEW a \in Audience, tokenSourceFor(c, a) PROVE SourcesInv'
  <2>1. /\ DOMAIN sources' = DOMAIN sources \cup {a}
        /\ \A x \in DOMAIN sources' : sources'[x] = x
    BY <1>3 DEF tokenSourceFor, NewSource
  <2> QED
    BY <1>3, <2>1 DEF tokenSourceFor
<1>4. ASSUME NEW a \in Audience, TokenExpires(a) PROVE SourcesInv'
  BY <1>4 DEF TokenExpires
<1>5. CASE UNCHANGED tokenVars
  BY <1>5 DEF tokenVars
<1> QED
  BY <1>1, <1>2, <1>3, <1>4, <1>5 DEF TokensNext

(* For any goroutines and audiences, a caller's token is for the audience it  *)
(* asked for, whatever sources others make and whatever expires meanwhile     *)
(* (audience_token.go tokenSourceFor).                                        *)
THEOREM TokensAreForTheirAudience == TokensSpec => MintedForAudience
<1>1. TokensInit => SourcesInv
  BY DEF TokensInit, SourcesInv
<1>2. SourcesInv /\ [TokensNext]_tokenVars
        => [\A c \in Caller : gets'[c] # gets[c] => gets'[c] = asks[c]]_tokenVars
  <2> SUFFICES ASSUME SourcesInv, TokensNext, NEW c \in Caller, gets'[c] # gets[c]
               PROVE  gets'[c] = asks[c]
    OBVIOUS
  <2>1. ASSUME NEW d \in Caller, GetToken(d) PROVE gets'[c] = asks[c]
    BY <2>1 DEF GetToken, SourcesInv
  <2> QED
    BY <2>1 DEF TokensNext, Refuse, MintFails, tokenSourceFor, TokenExpires, tokenVars
<1> QED
  BY <1>1, <1>2, SourcesStep, PTL DEF TokensSpec, MintedForAudience

-----------------------------------------------------------------------------
(* The websocket handshake *)

(* The subprotocol bearerFrom takes is one that carries a bearer. *)
LEMMA FirstBearer ==
  ASSUME NEW ps \in Seq(Subprotocol)
  PROVE  LET named == SelectInSeq(ps, LAMBDA p : p.name = "bearer")
         IN  named # 0 => named \in 1..Len(ps) /\ ps[named].name = "bearer"
<1> DEFINE I == {i \in 1..Len(ps) : ps[i].name = "bearer"}
<1>1. SelectInSeq(ps, LAMBDA p : p.name = "bearer") = IF I # {} THEN Min(I) ELSE 0
  BY DEF SelectInSeq
<1>2. I \in SUBSET Nat
  OBVIOUS
<1>3. I # {} => Min(I) \in I
  <2> HIDE DEF I
  <2> QED BY <1>2, MinIsLeast
<1> QED
  BY <1>1, <1>3

(* Where the bearer of a connection was found. *)
HubInv ==
  /\ header \in Header /\ protocols \in Seq(Subprotocol)
  /\ hub = "handling" =>
       conn = bearerFrom.token /\ echoed = bearerFrom.protocol /\ Accepted(conn)

(* For any bearers and however many of them a request carries, an open socket *)
(* is owned by the one the handshake accepted (wshub.go Serve, bearerFrom).   *)
THEOREM SocketOwner == HubSpec => []SocketHasOneOwner
<1>1. HubInit => HubInv
  BY DEF HubInit, HubInv, Header
<1>2. HubInv /\ [HubNext]_hubVars => HubInv'
  <2> SUFFICES ASSUME HubInv, [HubNext]_hubVars PROVE HubInv'
    OBVIOUS
  <2> USE DEF HubInv
  <2>0. UNCHANGED <<header, protocols>> => UNCHANGED bearerFrom
    BY DEF bearerFrom, SelectInSeq
  <2>1. ASSUME NEW h \in Header, NEW ps \in BoundedSeq(Subprotocol, MaxProtocols), Request(h, ps)
        PROVE  HubInv'
    <3>1. ps \in Seq(Subprotocol)
      <4>1. PICK n \in 0..MaxProtocols : ps \in [1..n -> Subprotocol]
        BY DEF BoundedSeq, SeqOf
      <4> QED BY <4>1, HubAssumption
    <3> QED BY <2>1, <3>1 DEF Request
  <2>2. CASE Reject \/ UpgradeFails \/ HandlerReturns
    BY <2>2 DEF Reject, UpgradeFails, HandlerReturns
  <2>3. CASE Upgrade
    BY <2>3, <2>0 DEF Upgrade, Accepted
  <2>4. CASE Again
    BY <2>4 DEF Again, Header
  <2>5. CASE UNCHANGED hubVars
    BY <2>5, <2>0 DEF hubVars, Accepted
  <2> QED
    BY <2>1, <2>2, <2>3, <2>4, <2>5 DEF HubNext
<1>3. HubInv => SocketHasOneOwner
  <2> SUFFICES ASSUME HubInv, hub = "handling" PROVE SocketHasOneOwner
    BY DEF SocketHasOneOwner
  <2> DEFINE named == SelectInSeq(protocols, LAMBDA p : p.name = "bearer")
  <2>1. conn \in Good
    BY DEF HubInv, Accepted
  <2>2. CASE header.scheme = "Bearer"
    <3>1. conn = header.token /\ ~echoed
      BY <2>2 DEF HubInv, bearerFrom
    <3>2. header = [scheme |-> "Bearer", token |-> conn]
      BY <2>2, <3>1 DEF HubInv, Header
    <3> QED
      BY <2>1, <3>1, <3>2 DEF SocketHasOneOwner
  <2>3. CASE header.scheme # "Bearer"
    <3>1. named # 0 /\ conn = protocols[named].token /\ echoed
      BY <2>1, <2>3, HubAssumption DEF HubInv, bearerFrom, Bearer
    <3>2. named \in 1..Len(protocols) /\ protocols[named].name = "bearer"
      BY <3>1, FirstBearer DEF HubInv
    <3>3. protocols[named] = [name |-> "bearer", token |-> conn]
      <4> HIDE DEF named
      <4>1. protocols[named] \in Subprotocol
        BY <3>2 DEF HubInv
      <4> QED BY <3>1, <3>2, <4>1 DEF Subprotocol
    <3>4. [name |-> "bearer", token |-> conn] \in ToSet(protocols)
      <4> HIDE DEF named
      <4> QED BY <3>2, <3>3 DEF ToSet
    <3> QED
      BY <2>1, <2>3, <3>1, <3>4 DEF SocketHasOneOwner
  <2> QED BY <2>2, <2>3
<1> QED
  BY <1>1, <1>2, <1>3, PTL DEF HubSpec

-----------------------------------------------------------------------------
(* Scripts *)

ExecTypeOK ==
  /\ up \in [Shell -> BOOLEAN]
  /\ pc \in [Shell -> {"idle", "creating", "writing", "waiting", "cleanup", "reading"}]
  /\ pid \in [Shell -> Pid \cup {NoPid}]
  /\ registered \in [Shell -> BOOLEAN] /\ overdue \in [Shell -> BOOLEAN]
  /\ status \in [Shell -> {"none", "waitDelay"} \cup Ended]
  /\ killed \in [Shell -> BOOLEAN]
  /\ proc \in [Pid -> {"none", "running"} \cup Ended]
  /\ files \in [Pid -> {"absent", "empty"} \cup Shell]
  /\ \A s \in Shell : pc[s] # "idle" => pid[s] \in Pid
  /\ target \in Pid \cup {NoPid} /\ listed \subseteq Pid

(* What a shell announced, it will clean up. *)
OwnEntries ==
  \A s \in Shell, p \in Pid :
    files[p] = s /\ up[s] => pid[s] = p /\ pc[s] \in {"waiting", "cleanup"} /\ registered[s]

(* A child that is awaited has not been reaped, and has one shell: its pid is *)
(* not given to another before.                                               *)
OneParent ==
  \A s \in Shell, p \in Pid : Awaits(s, p) =>
    proc[p] # "none" /\ \A o \in Shell : Awaits(o, p) => o = s

(* A signal that is not the shell's own deadline's is a person's. *)
SignalsExplained ==
  \A s \in Shell :
    /\ \A p \in Pid : Awaits(s, p) /\ proc[p] = "signalled" => overdue[s] \/ killed[s]
    /\ status[s] = "signalled" => overdue[s] \/ killed[s]

ExecInv == ExecTypeOK /\ OwnEntries /\ OneParent /\ SignalsExplained /\ KilledByAPerson

(* A shell that forgets its call, by reporting or by dying. *)
LEMMA Forgotten ==
  ASSUME ExecTypeOK, NEW s \in Shell, Forget(s)
  PROVE  /\ pc' \in [Shell -> {"idle", "creating", "writing", "waiting", "cleanup", "reading"}]
         /\ pid' \in [Shell -> Pid \cup {NoPid}]
         /\ registered' \in [Shell -> BOOLEAN] /\ overdue' \in [Shell -> BOOLEAN]
         /\ status' \in [Shell -> {"none", "waitDelay"} \cup Ended]
         /\ killed' \in [Shell -> BOOLEAN]
         /\ pc'[s] = "idle" /\ status'[s] = "none"
         /\ \A o \in Shell : o # s =>
              /\ pc'[o] = pc[o] /\ pid'[o] = pid[o] /\ registered'[o] = registered[o]
              /\ overdue'[o] = overdue[o] /\ status'[o] = status[o] /\ killed'[o] = killed[o]
<1> USE DEF Forget, ExecTypeOK
<1>1. pc' \in [Shell -> {"idle", "creating", "writing", "waiting", "cleanup", "reading"}]
  OBVIOUS
<1>2. pid' \in [Shell -> Pid \cup {NoPid}] /\ status' \in [Shell -> {"none", "waitDelay"} \cup Ended]
  OBVIOUS
<1>3. registered' \in [Shell -> BOOLEAN] /\ overdue' \in [Shell -> BOOLEAN] /\ killed' \in [Shell -> BOOLEAN]
  OBVIOUS
<1> QED BY <1>1, <1>2, <1>3

(* The types. *)
LEMMA ExecTypeStep == ExecTypeOK /\ [Next]_vars => ExecTypeOK'
<1> SUFFICES ASSUME ExecTypeOK, [Next]_vars PROVE ExecTypeOK'
  OBVIOUS
<1> USE DEF ExecTypeOK, termVars, shellVars
<1>1. ASSUME NEW s \in Shell, NEW p \in Pid, Start(s, p) PROVE ExecTypeOK'
  BY <1>1 DEF Start
<1>2. ASSUME NEW s \in Shell, CreateFile(s) PROVE ExecTypeOK'
  BY <1>2 DEF CreateFile
<1>3. ASSUME NEW s \in Shell, WriteFile(s) PROVE ExecTypeOK'
  BY <1>3 DEF WriteFile
<1>4. ASSUME NEW s \in Shell, RecordFails(s) PROVE ExecTypeOK'
  BY <1>4 DEF RecordFails
<1>5. ASSUME NEW s \in Shell, WaitReturns(s) PROVE ExecTypeOK'
  BY <1>5 DEF WaitReturns, Ended
<1>6. ASSUME NEW s \in Shell, Cleanup(s) PROVE ExecTypeOK'
  BY <1>6 DEF Cleanup
<1>7. ASSUME NEW s \in Shell, NEW t \in {"bash", "wait"}, Report(s, t) PROVE ExecTypeOK'
  BY <1>7, Forgotten DEF Report
<1>8. ASSUME NEW s \in Shell, DeadlinePasses(s) PROVE ExecTypeOK'
  BY <1>8 DEF DeadlinePasses
<1>9. ASSUME NEW p \in Pid, NEW how \in Ended, Ends(p, how)
      PROVE  proc' \in [Pid -> {"none", "running"} \cup Ended]
  BY <1>9 DEF Ends
<1>10. ASSUME NEW s \in Shell, KillGroup(s) PROVE ExecTypeOK'
  BY <1>9, <1>10 DEF KillGroup, Ended
<1>11. ASSUME NEW p \in Pid, NEW how \in Ended, ScriptEnds(p, how) PROVE ExecTypeOK'
  BY <1>9, <1>11 DEF ScriptEnds
<1>12. ASSUME NEW s \in Shell, ShellDies(s) PROVE ExecTypeOK'
  <2>1. proc' \in [Pid -> {"none", "running"} \cup Ended] /\ up' \in [Shell -> BOOLEAN]
    BY <1>12 DEF ShellDies
  <2> QED BY <1>12, <2>1, Forgotten DEF ShellDies
<1>13. ASSUME NEW p \in Pid \cup {NoPid}, ReadDir(p) PROVE ExecTypeOK'
  BY <1>13 DEF ReadDir
<1>14. ASSUME NEW p \in Pid, ReadEntry(p) PROVE ExecTypeOK'
  BY <1>14 DEF ReadEntry
<1>15. CASE RemoveEntry
  BY <1>15 DEF RemoveEntry
<1>16. CASE ListEnds
  BY <1>16 DEF ListEnds
<1>17. CASE Kill
  <2>1. target \in Pid
    BY <1>17 DEF Kill
  <2>2. proc' \in [Pid -> {"none", "running"} \cup Ended]
    BY <1>9, <1>17, <2>1 DEF Kill, Ended
  <2>3. killed' \in [Shell -> BOOLEAN]
    BY <1>17 DEF Kill, Awaits
  <2> QED BY <1>17, <2>2, <2>3 DEF Kill
<1>18. CASE UNCHANGED vars
  BY <1>18 DEF vars
<1> QED
  BY <1>1, <1>2, <1>3, <1>4, <1>5, <1>6, <1>7, <1>8, <1>10, <1>11, <1>12, <1>13, <1>14,
     <1>15, <1>16, <1>17, <1>18 DEF Next, ShellStep, Listing

(* Who writes and removes entries. *)
LEMMA OwnEntriesStep == ExecTypeOK /\ OwnEntries /\ [Next]_vars => OwnEntries'
<1> SUFFICES ASSUME ExecTypeOK, OwnEntries, [Next]_vars PROVE OwnEntries'
  OBVIOUS
<1> USE DEF OwnEntries, termVars, shellVars
<1>1. ASSUME NEW s \in Shell, NEW p \in Pid, Start(s, p) PROVE OwnEntries'
  BY <1>1 DEF Start, ExecTypeOK
<1>2. ASSUME NEW s \in Shell, CreateFile(s) PROVE OwnEntries'
  BY <1>2, ExecAssumption DEF CreateFile, ExecTypeOK
<1>3. ASSUME NEW s \in Shell, WriteFile(s) PROVE OwnEntries'
  BY <1>3 DEF WriteFile, ExecTypeOK
<1>4. ASSUME NEW s \in Shell, RecordFails(s) PROVE OwnEntries'
  BY <1>4 DEF RecordFails, ExecTypeOK
<1>5. ASSUME NEW s \in Shell, WaitReturns(s) PROVE OwnEntries'
  BY <1>5 DEF WaitReturns, ExecTypeOK
<1>6. ASSUME NEW s \in Shell, Cleanup(s) PROVE OwnEntries'
  BY <1>6, ExecAssumption DEF Cleanup, ExecTypeOK
<1>7. ASSUME NEW s \in Shell, NEW t \in {"bash", "wait"}, Report(s, t) PROVE OwnEntries'
  BY <1>7, Forgotten DEF Report
<1>8. ASSUME NEW s \in Shell, ShellDies(s) PROVE OwnEntries'
  BY <1>8, Forgotten DEF ShellDies, ExecTypeOK
<1>9. CASE RemoveEntry
  BY <1>9, ExecAssumption DEF RemoveEntry, ExecTypeOK
<1>10. ASSUME UNCHANGED <<up, pc, pid, registered, files>> PROVE OwnEntries'
  BY <1>10
<1> QED
  BY <1>1, <1>2, <1>3, <1>4, <1>5, <1>6, <1>7, <1>8, <1>9, <1>10
     DEF Next, ShellStep, Listing, DeadlinePasses, KillGroup, ScriptEnds, ReadDir, ReadEntry,
         ListEnds, Kill, vars

(* A process ends for all that await it, and is not reaped before they do. *)
LEMMA EndsKeepsParents ==
  ASSUME ExecTypeOK, OneParent, NEW p \in Pid, NEW how \in Ended, Ends(p, how),
         UNCHANGED shellVars
  PROVE  /\ OneParent'
         /\ \A s \in Shell, q \in Pid :
              (Awaits(s, q)' <=> Awaits(s, q)) /\ (proc'[q] = proc[q] \/ (q = p /\ proc'[q] \in {how, "none"}))
<1>1. \A s \in Shell, q \in Pid : Awaits(s, q)' <=> Awaits(s, q)
  BY DEF Awaits, shellVars
<1>2. \A q \in Pid : proc'[q] = IF q = p THEN (IF \E s \in Shell : Awaits(s, p) THEN how ELSE "none")
                                ELSE proc[q]
  BY DEF Ends, ExecTypeOK
<1>3. how # "none"
  BY DEF Ended
<1> QED BY <1>1, <1>2, <1>3 DEF OneParent

(* Children and signals. *)
LEMMA SignalStep ==
  ExecTypeOK /\ OneParent /\ SignalsExplained /\ [Next]_vars => OneParent' /\ SignalsExplained'
<1> SUFFICES ASSUME ExecTypeOK, OneParent, SignalsExplained, [Next]_vars
             PROVE  OneParent' /\ SignalsExplained'
  OBVIOUS
<1>1. ASSUME NEW s \in Shell, NEW p \in Pid, Start(s, p) PROVE OneParent' /\ SignalsExplained'
  <2>1. /\ pc[s] = "idle" /\ proc[p] = "none" /\ proc'[p] = "running" /\ pid'[s] = p
        /\ \A q \in Pid : q # p => proc'[q] = proc[q]
        /\ \A o \in Shell : o # s => pc'[o] = pc[o] /\ pid'[o] = pid[o]
        /\ UNCHANGED <<up, overdue, status, killed>>
    BY <1>1 DEF Start, ExecTypeOK
  <2>2. \A o \in Shell, q \in Pid : o # s => (Awaits(o, q)' <=> Awaits(o, q))
    BY <2>1 DEF Awaits
  <2>3. \A q \in Pid : Awaits(s, q)' => q = p
    BY <2>1 DEF Awaits
  <2> QED BY <2>1, <2>2, <2>3 DEF OneParent, SignalsExplained
<1>2. ASSUME NEW s \in Shell, CreateFile(s) \/ WriteFile(s) \/ RecordFails(s)
      PROVE  OneParent' /\ SignalsExplained'
  <2>1. /\ UNCHANGED <<up, pid, overdue, status, killed, proc>>
        /\ pc[s] \in {"creating", "writing"} /\ pc'[s] \in {"writing", "waiting"}
        /\ \A o \in Shell : o # s => pc'[o] = pc[o]
    BY <1>2 DEF CreateFile, WriteFile, RecordFails, ExecTypeOK
  <2>2. \A o \in Shell, q \in Pid : Awaits(o, q)' <=> Awaits(o, q)
    BY <2>1 DEF Awaits
  <2> QED BY <2>1, <2>2 DEF OneParent, SignalsExplained
<1>3. ASSUME NEW s \in Shell, WaitReturns(s) PROVE OneParent' /\ SignalsExplained'
  <2> DEFINE p == pid[s]
  <2>1. p \in Pid /\ Awaits(s, p)
    BY <1>3 DEF WaitReturns, ExecTypeOK, Awaits
  <2>2. /\ status'[s] \in {proc[p], "waitDelay"} /\ proc'[p] = "none" /\ pc'[s] = "cleanup"
        /\ \A q \in Pid : q # p => proc'[q] = proc[q]
        /\ \A o \in Shell : o # s => pc'[o] = pc[o] /\ status'[o] = status[o]
        /\ UNCHANGED <<up, pid, overdue, killed>>
    BY <1>3, <2>1 DEF WaitReturns, ExecTypeOK
  <2>3. \A o \in Shell, q \in Pid : Awaits(o, q)' => Awaits(o, q) /\ o # s /\ q # p
    BY <2>1, <2>2 DEF Awaits, OneParent
  <2> QED BY <2>1, <2>2, <2>3 DEF OneParent, SignalsExplained
<1>4. ASSUME NEW s \in Shell, Cleanup(s) PROVE OneParent' /\ SignalsExplained'
  <2>1. /\ UNCHANGED <<up, pid, overdue, status, killed, proc>>
        /\ pc[s] = "cleanup" /\ pc'[s] = "reading" /\ \A o \in Shell : o # s => pc'[o] = pc[o]
    BY <1>4 DEF Cleanup, ExecTypeOK
  <2>2. \A o \in Shell, q \in Pid : Awaits(o, q)' <=> Awaits(o, q)
    BY <2>1 DEF Awaits
  <2> QED BY <2>1, <2>2 DEF OneParent, SignalsExplained
<1>5. ASSUME NEW s \in Shell, NEW t \in {"bash", "wait"}, Report(s, t)
      PROVE  OneParent' /\ SignalsExplained'
  <2>1. \A o \in Shell, q \in Pid : Awaits(o, q)' => Awaits(o, q) /\ o # s
    BY <1>5, Forgotten DEF Report, Awaits
  <2> QED BY <1>5, <2>1, Forgotten DEF Report, OneParent, SignalsExplained
<1>6. ASSUME NEW s \in Shell, DeadlinePasses(s) PROVE OneParent' /\ SignalsExplained'
  <2>1. /\ UNCHANGED <<up, pc, pid, status, killed, proc>>
        /\ \A o \in Shell : overdue[o] => overdue'[o]
    BY <1>6 DEF DeadlinePasses, ExecTypeOK
  <2>2. \A o \in Shell, q \in Pid : Awaits(o, q)' <=> Awaits(o, q)
    BY <2>1 DEF Awaits
  <2> QED BY <2>1, <2>2 DEF OneParent, SignalsExplained
<1>7. ASSUME NEW s \in Shell, KillGroup(s) PROVE OneParent' /\ SignalsExplained'
  <2>1. PICK p \in Pid : Awaits(s, p) /\ Ends(p, "signalled")
    BY <1>7 DEF KillGroup
  <2>2. overdue[s] /\ UNCHANGED shellVars /\ UNCHANGED killed
    BY <1>7 DEF KillGroup
  <2>3. /\ OneParent'
        /\ \A o \in Shell, q \in Pid : (Awaits(o, q)' <=> Awaits(o, q)) /\ (proc'[q] = proc[q] \/ q = p)
    BY <2>1, <2>2, EndsKeepsParents DEF Ended
  <2> QED BY <2>1, <2>2, <2>3 DEF OneParent, SignalsExplained, shellVars
<1>8. ASSUME NEW p \in Pid, NEW how \in Ended, ScriptEnds(p, how) PROVE OneParent' /\ SignalsExplained'
  <2>1. how # "signalled" /\ Ends(p, how) /\ UNCHANGED shellVars /\ UNCHANGED killed
    BY <1>8 DEF ScriptEnds
  <2>2. /\ OneParent'
        /\ \A s \in Shell, q \in Pid : (Awaits(s, q)' <=> Awaits(s, q))
             /\ (proc'[q] = proc[q] \/ proc'[q] # "signalled")
    BY <2>1, EndsKeepsParents
  <2> QED BY <2>1, <2>2 DEF SignalsExplained, shellVars
<1>9. ASSUME NEW s \in Shell, ShellDies(s) PROVE OneParent' /\ SignalsExplained'
  <2>1. /\ \A o \in Shell : o # s => up'[o] = up[o]
        /\ \A q \in Pid : proc'[q] = IF Awaits(s, q) /\ proc[q] \in Ended THEN "none" ELSE proc[q]
        /\ Forget(s)
    BY <1>9 DEF ShellDies, ExecTypeOK
  <2>2. \A o \in Shell, q \in Pid : Awaits(o, q)' => Awaits(o, q) /\ o # s
    BY <2>1, Forgotten DEF Awaits
  <2>3. \A o \in Shell, q \in Pid : Awaits(o, q)' => proc'[q] = proc[q]
    BY <2>1, <2>2 DEF OneParent
  <2>4. OneParent'
    BY <2>2, <2>3 DEF OneParent
  <2>5. SignalsExplained'
    BY <2>1, <2>2, <2>3, Forgotten DEF SignalsExplained
  <2> QED BY <2>4, <2>5
<1>10. CASE Kill
  <2>1. UNCHANGED shellVars /\ target \in Pid
    BY <1>10 DEF Kill, ExecTypeOK
  <2>2. CASE proc[target] = "running"
    <3>1. Ends(target, "signalled") /\ killed' = [s \in Shell |-> killed[s] \/ Awaits(s, target)]
      BY <1>10, <2>2 DEF Kill
    <3>2. /\ OneParent'
          /\ \A o \in Shell, q \in Pid : (Awaits(o, q)' <=> Awaits(o, q)) /\ (proc'[q] = proc[q] \/ q = target)
      BY <2>1, <3>1, EndsKeepsParents DEF Ended
    <3>3. \A o \in Shell : killed[o] \/ Awaits(o, target) => killed'[o]
      BY <3>1
    <3>4. SignalsExplained'
      BY <2>1, <3>2, <3>3 DEF SignalsExplained, shellVars
    <3> QED BY <3>2, <3>4
  <2>3. CASE proc[target] # "running"
    BY <1>10, <2>1, <2>3 DEF Kill, shellVars, OneParent, SignalsExplained, Awaits
  <2> QED BY <2>2, <2>3
<1>11. ASSUME UNCHANGED <<up, pc, pid, overdue, status, killed, proc>>
       PROVE  OneParent' /\ SignalsExplained'
  BY <1>11 DEF OneParent, SignalsExplained, Awaits
<1> QED
  BY <1>1, <1>2, <1>3, <1>4, <1>5, <1>6, <1>7, <1>8, <1>9, <1>10, <1>11
     DEF Next, ShellStep, Listing, ReadDir, ReadEntry, RemoveEntry, ListEnds, vars, shellVars

(* The strengthened invariant holds throughout. *)
LEMMA ExecInvariant == Spec => []ExecInv
<1>1. Init => ExecInv
  BY ExecAssumption DEF Init, ExecInv, ExecTypeOK, OwnEntries, OneParent, SignalsExplained,
                        KilledByAPerson, Awaits, Ended
<1>2. ExecInv /\ [Next]_vars => ExecInv'
  <2> SUFFICES ASSUME ExecInv, [Next]_vars PROVE ExecInv'
    OBVIOUS
  <2>1. ExecTypeOK' /\ OwnEntries' /\ OneParent' /\ SignalsExplained'
    BY ExecTypeStep, OwnEntriesStep, SignalStep DEF ExecInv
  <2>2. ASSUME NEW s \in Shell, NEW t \in {"bash", "wait"}, Report(s, t) PROVE KilledByAPerson'
    <3>1. last' = [said |-> Outcome(t, overdue[s], status[s]), killed |-> killed[s]]
      BY <2>2 DEF Report
    <3>2. Outcome(t, overdue[s], status[s]) = "killed" => ~overdue[s] /\ status[s] = "signalled"
      BY DEF Outcome
    <3> QED BY <3>1, <3>2 DEF ExecInv, SignalsExplained, KilledByAPerson
  <2>3. ASSUME UNCHANGED last PROVE KilledByAPerson'
    BY <2>3 DEF ExecInv, KilledByAPerson
  <2>4. KilledByAPerson'
    BY <2>2, <2>3 DEF Next, ShellStep, Listing, Start, CreateFile, WriteFile, RecordFails, WaitReturns,
      Cleanup, DeadlinePasses, KillGroup, ScriptEnds, ShellDies, ReadDir, ReadEntry, RemoveEntry,
      ListEnds, Kill, vars
  <2> QED BY <2>1, <2>4 DEF ExecInv
<1> QED BY <1>1, <1>2, PTL DEF Spec

(* For any shells and however few process ids they share, an entry of a       *)
(* living shell is that of the run it is in (execregistry.go record, List).   *)
THEOREM EntriesAreOfRuns == Spec => []EntriesAreLive
<1>1. ExecInv => EntriesAreLive
  BY DEF ExecInv, OwnEntries, EntriesAreLive
<1> QED BY <1>1, ExecInvariant, PTL

(* For any shells and process ids, a script is reported as killed by a person *)
(* only when exec kill hit it (exec.go runScript, wait.go waitForCommand).    *)
THEOREM PersonsKill == Spec => []KilledByAPerson
<1>1. ExecInv => KilledByAPerson
  BY DEF ExecInv
<1> QED BY <1>1, ExecInvariant, PTL
=============================================================================
