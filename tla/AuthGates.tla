----------------------------- MODULE AuthGates -----------------------------
(***************************************************************************)
(* pkg/auth, inbound: the gates a service puts in front of a route and the *)
(* requests that pass them.  A gate is a Verifier's Middleware or          *)
(* RequireScope (verifier.go, require_scope.go) or a ServiceClient's       *)
(* Middleware or RequireScopes (service_client.go).  Gates of one request  *)
(* share decoded claims through its context, the gin.Context.              *)
(*                                                                         *)
(* Of a token the facts the checks branch on are kept: whether signature   *)
(* and expiry, issuer and audience hold, whether its claims parse, and its *)
(* scopes and permissions.  A token may expire while it is being checked.  *)
(***************************************************************************)
EXTENDS Integers, Sequences, SequencesExt, FiniteSets

CONSTANTS Scope,      \* scopes of this service
          API,        \* ScopeAPI
          Internal,   \* ScopeInternalServices
          Permission, \* permissions
          Tokens,     \* tokens that may arrive; NoToken stands for none
          NoToken,
          Configs,    \* KnownScopes and ScopesSupported of the service
          MaxGates    \* bound: gates on the route

Token == [signed : BOOLEAN, iss : BOOLEAN, aud : BOOLEAN, claims : BOOLEAN,
          scopes : SUBSET (Scope \cup {API, Internal}), perms : SUBSET Permission]

Gate ==
  [by : {"verifier", "client"}, perms : SUBSET Permission]
    \cup [by : {"verifier"}, scope : Scope]
    \cup [by : {"client"}, scopes : SUBSET Scope]

ASSUME GatesAssumption ==
  /\ API # Internal /\ {API, Internal} \cap Scope = {}
  /\ Tokens \subseteq Token /\ NoToken \notin Token
  /\ Configs \subseteq
       [complete : BOOLEAN, known : SUBSET Scope, published : SUBSET Scope]
  /\ MaxGates \in Nat

VARIABLES
  config,    \* VerifierConfig
  phase,     \* what the service is doing
  chain,     \* the gates of the route, in order
  seen,      \* Verifier.gated
  token,     \* the token of the current request
  arrived,   \* history: the token as it arrived
  context,   \* the claims under TokenClaimsKey, NoToken without
  at         \* the gate the request is at

gateVars == <<config, phase, chain, seen, token, arrived, context, at>>

IsScopeGate(g) == "scope" \in DOMAIN g

-----------------------------------------------------------------------------
(* Checks *)

(* IsScoped: a token without scopes never is, whatever is required. *)
IsScoped(have, required) == have # {} /\ (required = {} \/ have \cap required # {})

(* isTokenAllowedAccess *)
IsPermitted(have, required) == required = {} \/ have \cap required # {}

isTokenAllowedAccess(required, claims) ==
  \/ required = {}
  \/ IsScoped(claims.scopes, {Internal})
  \/ IsScoped(claims.scopes, {API}) /\ IsPermitted(claims.perms, required)

Allows(g, claims) ==
  IF IsScopeGate(g) THEN g.scope \in claims.scopes
  ELSE IF "scopes" \in DOMAIN g THEN IsScoped(claims.scopes, g.scopes)
  ELSE isTokenAllowedAccess(g.perms, claims)

(* Verifier.DecodeToken; the claims are the token's. *)
DecodeToken(t) == t # NoToken /\ t.signed /\ t.iss /\ t.aud /\ t.claims

(* ServiceClient.decodeToken does not look at the issuer. *)
decodeToken(t) == t # NoToken /\ t.signed /\ t.aud /\ t.claims

(* GetRequestTokenClaimsFromGinContext: claims an earlier gate left are taken *)
(* as they are.                                                               *)
Decodes(g) ==
  context # NoToken \/ (IF g.by = "verifier" THEN DecodeToken(token) ELSE decodeToken(token))

Claims(g) == IF context # NoToken THEN context ELSE token

-----------------------------------------------------------------------------
(* Wiring *)

GatesInit ==
  /\ config \in Configs
  /\ phase = "starting"
  /\ chain = <<>> /\ seen = {}
  /\ token = NoToken /\ arrived = NoToken /\ context = NoToken /\ at = 1

(* NewVerifier, NewServiceClient: incomplete configuration refuses to start. *)
Boot ==
  /\ phase = "starting"
  /\ phase' = IF config.complete THEN "wiring" ELSE "refused"
  /\ UNCHANGED <<config, chain, seen, token, arrived, context, at>>

(* A gate on a scope the service does not declare panics while it is wired. *)
Panic(g) ==
  /\ phase = "wiring" /\ IsScopeGate(g) /\ g.scope \notin config.known
  /\ phase' = "refused"
  /\ UNCHANGED <<config, chain, seen, token, arrived, context, at>>

markGated(g) == seen' = IF IsScopeGate(g) THEN seen \cup {g.scope} ELSE seen

Wire(g) ==
  /\ phase = "wiring" /\ Len(chain) < MaxGates
  /\ IsScopeGate(g) => g.scope \in config.known
  /\ chain' = Append(chain, g)
  /\ markGated(g)
  /\ UNCHANGED <<config, phase, token, arrived, context, at>>

Listen ==
  /\ phase = "wiring" /\ chain # <<>>
  /\ phase' = "idle"
  /\ UNCHANGED <<config, chain, seen, token, arrived, context, at>>

UngatedScopes == config.known \ seen
GatedScopes   == config.known \cap seen

(* Mutant of ScopeSurface: what is published is compared with what is         *)
(* declared, not with what is gated.                                          *)
SurfaceOfDeclared ==
  [declaredNotGated  |-> {},
   publishedNotGated |-> config.published \ config.known,
   gatedNotPublished |-> GatedScopes \ config.published]

ScopeSurface ==
  [declaredNotGated  |-> UngatedScopes,
   publishedNotGated |-> config.published \ GatedScopes,
   gatedNotPublished |-> GatedScopes \ config.published]

SurfaceEmpty == \A f \in DOMAIN ScopeSurface : ScopeSurface[f] = {}

-----------------------------------------------------------------------------
(* A request *)

(* Mutant of Arrive: the context of the last request is used again. *)
ArriveInOldContext(t) ==
  /\ phase \in {"idle", "served", "401", "403"}
  /\ token' = t /\ arrived' = t /\ at' = 1
  /\ phase' = "checking"
  /\ UNCHANGED <<config, chain, seen, context>>

Arrive(t) ==
  /\ phase \in {"idle", "served", "401", "403"}
  /\ token' = t /\ arrived' = t /\ context' = NoToken /\ at' = 1
  /\ phase' = "checking"
  /\ UNCHANGED <<config, chain, seen>>

Answer(status) ==
  /\ phase' = status
  /\ UNCHANGED <<config, chain, seen, token, arrived, context, at>>

Checking == phase = "checking" /\ at <= Len(chain)

Unauthorized == Checking /\ ~Decodes(chain[at]) /\ Answer("401")

Forbidden ==
  /\ Checking /\ Decodes(chain[at]) /\ ~Allows(chain[at], Claims(chain[at]))
  /\ Answer("403")

(* The gate calls Next.  All but RequireScope leave the claims behind. *)
PassGate ==
  /\ Checking
  /\ LET g == chain[at]
     IN  /\ Decodes(g) /\ Allows(g, Claims(g))
         /\ context' = IF IsScopeGate(g) THEN context ELSE Claims(g)
  /\ at' = at + 1
  /\ UNCHANGED <<config, phase, chain, seen, token, arrived>>

Serve == phase = "checking" /\ at > Len(chain) /\ Answer("served")

Expire ==
  /\ phase = "checking" /\ token # NoToken /\ token.signed
  /\ token' = [token EXCEPT !.signed = FALSE]
  /\ UNCHANGED <<config, phase, chain, seen, arrived, context, at>>

GatesNext ==
  \/ Boot \/ Listen
  \/ \E g \in Gate : Panic(g) \/ Wire(g)
  \/ \E t \in Tokens \cup {NoToken} : Arrive(t)
  \/ Unauthorized \/ Forbidden \/ PassGate \/ Serve \/ Expire

GatesSpec == GatesInit /\ [][GatesNext]_gateVars

-----------------------------------------------------------------------------
(* Properties *)

(* A handler runs only for a request whose own token held when the first gate *)
(* looked at it and satisfies every gate on the way, however gates of both    *)
(* kinds are stacked, whichever of them decodes and whichever reuses claims   *)
(* (verifier.go, service_client.go).  The issuer is among what was checked    *)
(* when a Verifier's gate comes first; behind a ServiceClient's it is not     *)
(* looked at again.                                                           *)
ReachedAsGated ==
  phase = "served" =>
    /\ decodeToken(arrived)
    /\ chain[1].by = "verifier" => arrived.iss
    /\ \A i \in 1..Len(chain) : Allows(chain[i], arrived)

(* When ScopeSurface reports no difference, each scope the service publishes  *)
(* is asked for by a gate of the route: a token without it is not served.     *)
EmptySurfaceProtects ==
  SurfaceEmpty =>
    \A s \in config.published :
      /\ \E i \in 1..Len(chain) : IsScopeGate(chain[i]) /\ chain[i].scope = s
      /\ phase = "served" => s \in arrived.scopes
=============================================================================
